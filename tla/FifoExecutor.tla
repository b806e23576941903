---------------------------- MODULE FifoExecutor ----------------------------
(***************************************************************************)
(* What seriealizeFunctions promises its users: functions handed over are  *)
(* called one after the other in that order, each once, and when the       *)
(* executor is gone every one of them has been called.                     *)
(***************************************************************************)
EXTENDS Sequences

CONSTANT Function     (* the functions that may be handed over             *)

VARIABLES pending,    (* handed over, not called yet                       *)
          called,     (* called so far, in order                           *)
          gone        (* the executor has been destroyed                   *)

vars == <<pending, called, gone>>

Init == pending = <<>> /\ called = <<>> /\ gone = FALSE

HandOver(f) ==
    /\ ~ gone
    /\ pending' = Append(pending, f)
    /\ UNCHANGED <<called, gone>>

Call ==
    /\ pending # <<>>
    /\ called' = Append(called, Head(pending))
    /\ pending' = Tail(pending)
    /\ UNCHANGED gone

Destroy ==
    /\ pending = <<>>
    /\ gone' = TRUE
    /\ UNCHANGED <<pending, called>>

Next == (\E f \in Function : HandOver(f)) \/ Call \/ Destroy

Spec == Init /\ [][Next]_vars
=============================================================================
