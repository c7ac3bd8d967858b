----------------------------- MODULE MCMembers -----------------------------
(* Instances of Members for TLC.                                           *)
EXTENDS Members

MCRuns == 1..2

(* Two delegates, or a workflow of two members. *)
MCForms == {<<"delegated", "delegated">>, <<"workflow", "workflow">>}
=============================================================================
