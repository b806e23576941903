------------------------- MODULE SerializeFunctions -------------------------
(***************************************************************************)
(* seriealizeFunctions: a queue of functions and one thread that calls     *)
(* them.  PrintQueue is one, every TCP connection owns one for its sends.  *)
(*                                                                         *)
(* run() pushes under the mutex and notifies after it has released it:     *)
(* two steps.  The handler checks the queue under the mutex: it takes the  *)
(* whole queue over, or it releases the mutex and sleeps in one step, as a *)
(* condition variable does.  The destructor runs a function that sets      *)
(* m_Stop and joins the thread.  The owner of the object destroys it when  *)
(* no other thread uses it any more, as the language requires.             *)
(*                                                                         *)
(* A function is represented by the pair of its caller and its number, the *)
(* one the destructor posts by Stop.  posted and called are history.       *)
(***************************************************************************)
EXTENDS Naturals, Sequences, Functions

CONSTANTS Callers,    (* the threads that call run()                       *)
          MaxCalls,   (* bound: calls of run() by one thread               *)
          Owner       (* the thread that destroys the object               *)

ASSUME CallsAssumption == MaxCalls \in Nat
ASSUME OwnerAssumption == Owner \notin Callers

Stop == <<Owner, 0>>

Function == (Callers \X (1..MaxCalls)) \cup {Stop}

VARIABLES
    queue,         (* m_Queue                                              *)
    handlerQueue,  (* the handler's local queue                            *)
    stop,          (* m_Stop                                               *)
    handler,       (* "loop": at while (!m_Stop); "wait": about to check   *)
                   (* the predicate; "asleep"; "calling"; "ended"          *)
    pc,            (* pc[c]: "idle", or "notify" between push and notify;  *)
                   (* the owner also: "join" and "destroyed"               *)
    calls,         (* calls[c]: number of functions c has posted           *)
    posted,        (* history: all functions pushed, in order              *)
    called         (* history: all functions called, in order              *)

vars == <<queue, handlerQueue, stop, handler, pc, calls, posted, called>>

Init ==
    /\ queue = <<>>
    /\ handlerQueue = <<>>
    /\ stop = FALSE
    /\ handler = "loop"
    /\ pc = [c \in Callers \cup {Owner} |-> "idle"]
    /\ calls = [c \in Callers |-> 0]
    /\ posted = <<>>
    /\ called = <<>>

-----------------------------------------------------------------------------
(* run and the destructor *)

Push(f) ==
    /\ queue' = Append(queue, f)
    /\ posted' = Append(posted, f)

ForgetNotify(c) ==
    /\ pc[c] = "idle"
    /\ pc[Owner] = "idle"
    /\ calls[c] < MaxCalls
    /\ calls' = [calls EXCEPT ![c] = @ + 1]
    /\ Push(<<c, calls[c] + 1>>)
    /\ UNCHANGED <<handlerQueue, stop, handler, pc, called>>

run(c) ==
    /\ pc[c] = "idle"
    /\ pc[Owner] = "idle"
    /\ calls[c] < MaxCalls
    /\ calls' = [calls EXCEPT ![c] = @ + 1]
    /\ Push(<<c, calls[c] + 1>>)
    /\ pc' = [pc EXCEPT ![c] = "notify"]
    /\ UNCHANGED <<handlerQueue, stop, handler, called>>

(* notify_one wakes the handler when it sleeps and is lost otherwise.      *)
notify(c) ==
    /\ pc[c] = "notify"
    /\ pc' = [pc EXCEPT ![c] = IF c = Owner THEN "join" ELSE "idle"]
    /\ handler' = IF handler = "asleep" THEN "wait" ELSE handler
    /\ UNCHANGED <<queue, handlerQueue, stop, calls, posted, called>>

StopAtOnce ==
    /\ \A c \in Callers \cup {Owner} : pc[c] = "idle"
    /\ stop' = TRUE
    /\ Push(Stop)
    /\ pc' = [pc EXCEPT ![Owner] = "notify"]
    /\ UNCHANGED <<handlerQueue, handler, calls, called>>

(* ~seriealizeFunctions: run a function that sets m_Stop ...               *)
Destroy ==
    /\ \A c \in Callers \cup {Owner} : pc[c] = "idle"
    /\ Push(Stop)
    /\ pc' = [pc EXCEPT ![Owner] = "notify"]
    /\ UNCHANGED <<handlerQueue, stop, handler, calls, called>>

(* ... and wait for the thread to end.                                     *)
join ==
    /\ pc[Owner] = "join"
    /\ handler = "ended"
    /\ pc' = [pc EXCEPT ![Owner] = "destroyed"]
    /\ UNCHANGED <<queue, handlerQueue, stop, handler, calls, posted, called>>

-----------------------------------------------------------------------------
(* The handler thread *)

(* while (!m_Stop)                                                         *)
CheckStop ==
    /\ handler = "loop"
    /\ handler' = IF stop THEN "ended" ELSE "wait"
    /\ UNCHANGED <<queue, handlerQueue, stop, pc, calls, posted, called>>

(* wait: nothing to do, release the mutex and sleep.                       *)
Sleep ==
    /\ handler = "wait"
    /\ queue = <<>>
    /\ handler' = "asleep"
    /\ UNCHANGED <<queue, handlerQueue, stop, pc, calls, posted, called>>

TakeNewest ==
    /\ handler = "wait"
    /\ queue # <<>>
    /\ handlerQueue' = <<queue[Len(queue)]>>
    /\ queue' = SubSeq(queue, 1, Len(queue) - 1)
    /\ handler' = "calling"
    /\ UNCHANGED <<stop, pc, calls, posted, called>>

(* wait: there is work, take all of it over.                               *)
Swap ==
    /\ handler = "wait"
    /\ queue # <<>>
    /\ handlerQueue' = queue
    /\ queue' = <<>>
    /\ handler' = "calling"
    /\ UNCHANGED <<stop, pc, calls, posted, called>>

(* Call the function at the front, then pop it.                            *)
CallFunction ==
    /\ handler = "calling"
    /\ handlerQueue # <<>>
    /\ called' = Append(called, Head(handlerQueue))
    /\ stop' = (stop \/ Head(handlerQueue) = Stop)
    /\ handlerQueue' = Tail(handlerQueue)
    /\ UNCHANGED <<queue, handler, pc, calls, posted>>

OneOfTheBatch ==
    /\ handler = "calling"
    /\ handler' = "loop"
    /\ UNCHANGED <<queue, handlerQueue, stop, pc, calls, posted, called>>

BatchDone ==
    /\ handler = "calling"
    /\ handlerQueue = <<>>
    /\ handler' = "loop"
    /\ UNCHANGED <<queue, handlerQueue, stop, pc, calls, posted, called>>

(* A condition variable may wake up without a notification.                *)
SpuriousWakeup ==
    /\ handler = "asleep"
    /\ handler' = "wait"
    /\ UNCHANGED <<queue, handlerQueue, stop, pc, calls, posted, called>>

-----------------------------------------------------------------------------
Handler == CheckStop \/ Sleep \/ Swap \/ CallFunction \/ BatchDone

Next ==
    \/ \E c \in Callers : run(c)
    \/ \E c \in Callers \cup {Owner} : notify(c)
    \/ Destroy
    \/ join
    \/ Handler
    \/ SpuriousWakeup

Spec == Init /\ [][Next]_vars

(* Threads that can go on do so.  Nobody has to call run or to destroy the *)
(* object, and nothing counts on a spurious wakeup.                        *)
Fairness ==
    /\ WF_vars(Handler)
    /\ \A c \in Callers \cup {Owner} : WF_vars(notify(c))
    /\ WF_vars(join)

FairSpec == Spec /\ Fairness

-----------------------------------------------------------------------------
(* Properties *)

(* Types of the queues, the program counters and the history; the handler  *)
(* goes back to its loop only when it has called the whole batch.          *)
TypeOK ==
    /\ queue \in Seq(Function)
    /\ handlerQueue \in Seq(Function)
    /\ handler # "calling" => handlerQueue = <<>>
    /\ stop \in BOOLEAN
    /\ handler \in {"loop", "wait", "asleep", "calling", "ended"}
    /\ pc \in [Callers \cup {Owner} -> {"idle", "notify", "join", "destroyed"}]
    /\ calls \in [Callers -> 0..MaxCalls]
    /\ posted \in Seq(Function)
    /\ called \in Seq(Function)

(* When the destructor returns, every function that was ever posted has    *)
(* been called: ~connection relies on it for its outstanding writes, and   *)
(* nothing that a function captured may be freed before.                   *)
AllCalledBeforeDestroyed ==
    pc[Owner] = "destroyed" => called = posted

(* The object is a first-in first-out executor; what has been taken over   *)
(* into the handler's queue is still pending.                              *)
Fifo == INSTANCE FifoExecutor WITH
            pending <- handlerQueue \o queue,
            gone <- pc[Owner] = "destroyed"

FifoSpec == Fifo!Spec

(* No wakeup is lost: a function that was posted is called, and the        *)
(* destructor returns.                                                     *)
EverythingCalled ==
    /\ \A f \in Function : f \in Range(posted) ~> f \in Range(called)
    /\ pc[Owner] = "notify" ~> pc[Owner] = "destroyed"
=============================================================================
