--------------------------- MODULE MCCapabilities ---------------------------
(* Two processes and two versions, the second adopted over the first; with *)
(* the bundles all right, or both bad in their own way.                      *)
EXTENDS Capabilities
CONSTANTS a, b
MCVersions == {a, b}
MCAdopted == {<<a, b>>}
MCBundles == {[v \in {a, b} |-> "good"], (a :> "damaged" @@ b :> "invalid")}
=============================================================================
