------------------------ MODULE TotalOrderMulticast ------------------------
(***************************************************************************)
(* What the message infrastructure of the server promises the managers     *)
(* that are plugged into it, without queues, locks or a routing thread:    *)
(*                                                                         *)
(*   - a message a runtime sends is placed, once, in one order shared by   *)
(*     the whole program, after every earlier message of the same sender;  *)
(*   - when it is placed, the set of runtimes it goes to is fixed;         *)
(*   - every runtime handles the messages that go to it once each, in      *)
(*     that shared order and without a gap.                                *)
(*                                                                         *)
(* MessageBus is shown to implement this specification.                    *)
(***************************************************************************)
EXTENDS Naturals, Sequences, Functions

CONSTANTS Threads,   (* the runtimes that exchange messages                *)
          Message    (* the messages they exchange                         *)

VARIABLES outbox,    (* outbox[t]: sent by t, not placed yet               *)
          log,       (* the shared order: records [msg, to]                *)
          handled    (* handled[t]: places in log that t handled, in order *)

vars == <<outbox, log, handled>>

Init ==
    /\ outbox = [t \in Threads |-> <<>>]
    /\ log = <<>>
    /\ handled = [t \in Threads |-> <<>>]

Send(t, m) ==
    /\ outbox' = [outbox EXCEPT ![t] = Append(@, m)]
    /\ UNCHANGED <<log, handled>>

Place(t) ==
    /\ outbox[t] # <<>>
    /\ outbox' = [outbox EXCEPT ![t] = Tail(@)]
    /\ \E R \in SUBSET Threads :
            log' = Append(log, [msg |-> Head(outbox[t]), to |-> R])
    /\ UNCHANGED handled

(* n is the first place addressed to t that t has not handled yet. *)
IsNextFor(t, n) ==
    /\ t \in log[n].to
    /\ n \notin Range(handled[t])
    /\ \A k \in 1..(n - 1) : t \in log[k].to => k \in Range(handled[t])

Handle(t) ==
    \E n \in DOMAIN log :
        /\ IsNextFor(t, n)
        /\ handled' = [handled EXCEPT ![t] = Append(@, n)]
        /\ UNCHANGED <<outbox, log>>

Next == \E t \in Threads :
    \/ \E m \in Message : Send(t, m)
    \/ Place(t)
    \/ Handle(t)

Spec == Init /\ [][Next]_vars
=============================================================================
