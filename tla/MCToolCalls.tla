---------------------------- MODULE MCToolCalls ----------------------------
(* Instances of ToolCalls for TLC, and the mutants of its properties.      *)
EXTENDS ToolCalls

Call(kind, subject) == [kind |-> kind, subject |-> subject]
Plain == Call("plain", "none")
Delegate == Call("delegate", "none")

(* Two turns that ask for the same: run_code, a call that asks first, and  *)
(* two concurrent readers, or one that has to wait; a batch with more      *)
(* calls than either limit; and one that may be left behind, with calls    *)
(* that wait, before another turn.                                         *)
MCScripts == {
  <<<<Call("code", "x")>>, <<Call("ask", "x"), Call("ask", "y")>>>>,
  <<<<Call("reader", "x"), Call("reader", "x")>>, <<Call("ask", "x")>>>>,
  <<<<Plain, Plain, Call("reader", "x")>>, <<Call("ask", "x")>>>>,
  <<<<Call("reader", "x"), Plain, Call("ask", "x"), Call("code", "x")>>>>,
  <<<<Plain, Delegate, Plain, Delegate, Plain>>>>,
  <<<<Delegate, Delegate, Plain, Plain, Delegate>>>>,
  <<<<Plain, Delegate, Delegate>>, <<Plain, Plain>>>> }
=============================================================================
