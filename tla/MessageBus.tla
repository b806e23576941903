----------------------------- MODULE MessageBus -----------------------------
(***************************************************************************)
(* The message infrastructure every manager of the server is plugged into: *)
(*                                                                         *)
(*   Thread         one per manager: an m_RxQueue, an m_TxQueue, a handler *)
(*                  thread that drains m_RxQueue, a timer thread that      *)
(*                  pushes a Cmd::Run message every period;                *)
(*   ThreadManager  ProcessMessages: takes the messages out of every       *)
(*                  m_TxQueue and pushes each to all its subscribers;      *)
(*   Subscription   the vector of (message id, runtime) pairs;             *)
(*   ProgramManager the main thread, which loops over ProcessMessages.     *)
(*                                                                         *)
(* Granularity.  Queue::Push and Queue::Pop are atomic (their own mutex).  *)
(* HandleNewMessage keeps the Event mutex of its Thread from the moment it *)
(* finds m_RxQueue not empty until it has drained it, HandleMessage calls  *)
(* included, and PushMessageToRuntimeHandler needs the same mutex: so the  *)
(* mutex is free exactly when the handler thread is "waiting", and a push  *)
(* is an atomic step of the router or the timer that waits for that.       *)
(* Subscribe and FindSubscribers are atomic here although m_Subscribers    *)
(* has no lock: what a torn access does is outside this module.            *)
(* A manager may call SendMessage at any time: from HandleMessage, from    *)
(* its timer callback or, as RemoteManager and JSONManager do, from a      *)
(* network thread.  What the managers do with a message is left to the     *)
(* modules that model them.                                                *)
(*                                                                         *)
(* log, handled and sent are history: no guard of the code reads them.     *)
(* A message in an m_RxQueue is represented by its place in log, a Cmd::Run *)
(* message of the timer by 0.                                              *)
(***************************************************************************)
EXTENDS Integers, Sequences, Functions, FiniteSets

CONSTANTS N,           (* number of Threads, numbered as registered        *)
          Ids,         (* message ids (enum class Id)                      *)
          Configured,  (* subscriptions made by the managers' constructors *)
          Remote,      (* the RemoteManager: subscribes while running      *)
          MaxSent,     (* bound: SendMessage calls of one runtime          *)
          MaxTicks     (* bound: timer messages waiting in one m_RxQueue   *)

Threads == 1..N

Subscribers == [id : Ids, runtime : Threads]

ASSUME NAssumption == N \in Nat \ {0}
ASSUME RemoteAssumption == Remote \in Threads
ASSUME BoundsAssumption == MaxSent \in Nat /\ MaxTicks \in Nat
(* Subscribe drops a pair it already holds, so the constructors leave each *)
(* pair once.                                                              *)
ASSUME ConfiguredAssumption ==
    /\ Configured \in Seq(Subscribers)
    /\ \A i, j \in DOMAIN Configured : Configured[i] = Configured[j] => i = j

(* no is the number of the message among those its sender sent.            *)
Message == [id : Ids, from : Threads, no : 1..MaxSent]

Run == 0

VARIABLES
    rx,           (* rx[t]: m_RxQueue of t, places in log or Run           *)
    tx,           (* tx[t]: m_TxQueue of t                                 *)
    handler,      (* handler[t]: where HandleNewMessage of t stands        *)
    subscribers,  (* m_Subscribers                                         *)
    cursor,       (* the Thread ProcessMessages is emptying                *)
    todo,         (* subscribers the message in hand is still to be        *)
                  (* pushed to, as positions in m_Subscribers              *)
    log,          (* history: the messages the router took, in order, with *)
                  (* the runtimes FindSubscribers returned                 *)
    handled,      (* history: places in log each runtime handled, in order *)
    sent          (* history: number of messages each runtime sent         *)

router == <<cursor, todo>>
history == <<log, handled, sent>>
vars == <<rx, tx, handler, subscribers, cursor, todo, log, handled, sent>>

(* Subscribe runs in the constructors before the main loop starts.         *)
Init ==
    /\ rx = [t \in Threads |-> <<>>]
    /\ tx = [t \in Threads |-> <<>>]
    /\ handler = [t \in Threads |-> "waiting"]
    /\ subscribers = Configured
    /\ cursor = 1
    /\ todo = {}
    /\ log = <<>>
    /\ handled = [t \in Threads |-> <<>>]
    /\ sent = [t \in Threads |-> 0]

-----------------------------------------------------------------------------
(* Subscription *)

(* A remote peer asks for the messages with this id: RemoteManager::receive *)
(* subscribes its own runtime, unless the pair is there already.           *)
Subscribe(id) ==
    LET subscription == [id |-> id, runtime |-> Remote]
    IN  /\ subscription \notin Range(subscribers)
        /\ subscribers' = Append(subscribers, subscription)
        /\ UNCHANGED <<rx, tx, handler, router, history>>

FindSubscribers(id) == {i \in DOMAIN subscribers : subscribers[i].id = id}

-----------------------------------------------------------------------------
(* Thread *)

SendMessage(t, id) ==
    /\ sent[t] < MaxSent
    /\ sent' = [sent EXCEPT ![t] = @ + 1]
    /\ tx' = [tx EXCEPT ![t] =
                 Append(@, [id |-> id, from |-> t, no |-> sent[t] + 1])]
    /\ UNCHANGED <<rx, handler, subscribers, router, log, handled>>

MutexFree(t) == handler[t] = "waiting"

TimerCallback(t) ==
    /\ MutexFree(t)
    /\ Cardinality({i \in DOMAIN rx[t] : rx[t][i] = Run}) < MaxTicks
    /\ rx' = [rx EXCEPT ![t] = Append(@, Run)]
    /\ UNCHANGED <<tx, handler, subscribers, router, history>>

(* The wait on the condition variable returns with the mutex locked.       *)
WakeHandler(t) ==
    /\ handler[t] = "waiting"
    /\ rx[t] # <<>>
    /\ handler' = [handler EXCEPT ![t] = "draining"]
    /\ UNCHANGED <<rx, tx, subscribers, router, history>>

HandleNewestMessage(t) ==
    /\ handler[t] = "draining"
    /\ rx[t] # <<>>
    /\ LET n == rx[t][Len(rx[t])]
       IN  /\ rx' = [rx EXCEPT ![t] = SubSeq(@, 1, Len(@) - 1)]
           /\ handled' = IF n = Run THEN handled
                         ELSE [handled EXCEPT ![t] = Append(@, n)]
    /\ UNCHANGED <<tx, handler, subscribers, router, log, sent>>

(* One turn of the drain loop: a Cmd::Run message calls the manager back,  *)
(* any other message goes to its HandleMessage.                            *)
HandleNewMessage(t) ==
    /\ handler[t] = "draining"
    /\ rx[t] # <<>>
    /\ rx' = [rx EXCEPT ![t] = Tail(@)]
    /\ handled' = IF Head(rx[t]) = Run THEN handled
                  ELSE [handled EXCEPT ![t] = Append(@, Head(rx[t]))]
    /\ UNCHANGED <<tx, handler, subscribers, router, log, sent>>

(* Pop returned nothing: the scope ends and the mutex is unlocked.         *)
QueueDrained(t) ==
    /\ handler[t] = "draining"
    /\ rx[t] = <<>>
    /\ handler' = [handler EXCEPT ![t] = "waiting"]
    /\ UNCHANGED <<rx, tx, subscribers, router, history>>

-----------------------------------------------------------------------------
(* ThreadManager, on the main thread *)

ReceiveNewestMessage ==
    /\ todo = {}
    /\ tx[cursor] # <<>>
    /\ LET msg == tx[cursor][Len(tx[cursor])]
       IN  /\ todo' = FindSubscribers(msg.id)
           /\ log' = Append(log, [msg |-> msg,
                  to |-> {subscribers[i].runtime : i \in FindSubscribers(msg.id)}])
    /\ tx' = [tx EXCEPT ![cursor] = SubSeq(@, 1, Len(@) - 1)]
    /\ UNCHANGED <<rx, handler, subscribers, cursor, handled, sent>>

TakeAllRouteFirst ==
    /\ todo = {}
    /\ tx[cursor] # <<>>
    /\ LET msg == Head(tx[cursor])
       IN  /\ todo' = FindSubscribers(msg.id)
           /\ log' = Append(log, [msg |-> msg,
                  to |-> {subscribers[i].runtime : i \in FindSubscribers(msg.id)}])
    /\ tx' = [tx EXCEPT ![cursor] = <<>>]
    /\ UNCHANGED <<rx, handler, subscribers, cursor, handled, sent>>

(* Take the next message of the Thread in turn and find its subscribers.   *)
ReceiveMessage ==
    /\ todo = {}
    /\ tx[cursor] # <<>>
    /\ LET msg == Head(tx[cursor])
       IN  /\ todo' = FindSubscribers(msg.id)
           /\ log' = Append(log, [msg |-> msg,
                  to |-> {subscribers[i].runtime : i \in FindSubscribers(msg.id)}])
    /\ tx' = [tx EXCEPT ![cursor] = Tail(@)]
    /\ UNCHANGED <<rx, handler, subscribers, cursor, handled, sent>>

PushToFreeSubscriber ==
    \E i \in todo :
        /\ IF MutexFree(subscribers[i].runtime)
           THEN rx' = [rx EXCEPT ![subscribers[i].runtime] = Append(@, Len(log))]
           ELSE UNCHANGED rx
        /\ todo' = todo \ {i}
        /\ UNCHANGED <<tx, handler, subscribers, cursor, history>>

(* Push the message in hand to the next of its subscribers, in the order   *)
(* of m_Subscribers, once the mutex of that Thread is free.                *)
PushMessageToRuntimeHandler ==
    \E i \in todo :
        /\ \A j \in todo : i <= j
        /\ MutexFree(subscribers[i].runtime)
        /\ rx' = [rx EXCEPT ![subscribers[i].runtime] = Append(@, Len(log))]
        /\ todo' = todo \ {i}
        /\ UNCHANGED <<tx, handler, subscribers, cursor, history>>

SkipLastThread ==
    /\ todo = {}
    /\ tx[cursor] = <<>>
    /\ cursor' = IF cursor + 1 < N THEN cursor + 1 ELSE 1
    /\ UNCHANGED <<rx, tx, handler, subscribers, todo, history>>

NoWrapAround ==
    /\ todo = {}
    /\ tx[cursor] = <<>>
    /\ cursor' = cursor + 1
    /\ UNCHANGED <<rx, tx, handler, subscribers, todo, history>>

(* Its m_TxQueue is empty: go on to the next Thread, from the last one to  *)
(* the first in the next turn of the main loop.                            *)
NextThread ==
    /\ todo = {}
    /\ tx[cursor] = <<>>
    /\ cursor' = (cursor % N) + 1
    /\ UNCHANGED <<rx, tx, handler, subscribers, todo, history>>

-----------------------------------------------------------------------------
Environment ==
    \/ \E id \in Ids : Subscribe(id)
    \/ \E t \in Threads : TimerCallback(t)
    \/ \E t \in Threads, id \in Ids : SendMessage(t, id)

HandlerThread(t) ==
    \/ WakeHandler(t)
    \/ HandleNewMessage(t)
    \/ QueueDrained(t)

MainThread ==
    \/ ReceiveMessage
    \/ PushMessageToRuntimeHandler
    \/ NextThread

Next ==
    \/ Environment
    \/ \E t \in Threads : HandlerThread(t)
    \/ MainThread

Spec == Init /\ [][Next]_vars

(* The operating system runs every thread, so a step that stays possible   *)
(* is taken.  The push competes for a mutex that the handler takes again   *)
(* and again; a timer sleeps a whole period between two of its messages,   *)
(* so the mutex is free for long stretches and the push gets it: strong    *)
(* fairness.  Nobody has to send, to subscribe or to fire a timer.         *)
Fairness ==
    /\ WF_vars(ReceiveMessage)
    /\ WF_vars(NextThread)
    /\ SF_vars(PushMessageToRuntimeHandler)
    /\ \A t \in Threads : WF_vars(HandlerThread(t))

FairSpec == Spec /\ Fairness

-----------------------------------------------------------------------------
(* Properties *)

(* Types of the queues, of the router's position and of the history.       *)
TypeOK ==
    /\ rx \in [Threads -> Seq(Nat)]
    /\ tx \in [Threads -> Seq(Message)]
    /\ handler \in [Threads -> {"waiting", "draining"}]
    /\ subscribers \in Seq(Subscribers)
    /\ cursor \in Threads
    /\ todo \in SUBSET DOMAIN subscribers
    /\ log \in Seq([msg : Message, to : SUBSET Threads])
    /\ handled \in [Threads -> Seq(Nat)]
    /\ sent \in [Threads -> 0..MaxSent]

(* Two managers that both handle two messages handle them in the same      *)
(* order, whatever locks the router had to wait for in between: the only   *)
(* place where order is decided is the single routing loop.  With t = u:   *)
(* no manager handles a message twice, however often a remote peer         *)
(* subscribes to its id.                                                   *)
AgreedOrder ==
    \A t, u \in Threads :
        \A i, j \in DOMAIN handled[t], k, l \in DOMAIN handled[u] :
            /\ handled[t][i] = handled[u][k]
            /\ handled[t][j] = handled[u][l]
            /\ i < j
            => k < l

(* A manager handles the messages of one sender in the order they were     *)
(* sent.  JSONManager::setLightState depends on it: it sends a Write and   *)
(* then a Read, and the answer must show the state after the Write.        *)
SenderOrder ==
    \A t \in Threads : \A i, j \in DOMAIN handled[t] :
        LET first == log[handled[t][i]].msg
            second == log[handled[t][j]].msg
        IN  i < j /\ first.from = second.from => first.no < second.no

(* A manager never handles a message while an earlier one that was routed  *)
(* to it is still on its way or was dropped.                               *)
NothingSkipped ==
    \A t \in Threads : \A i \in DOMAIN handled[t] :
        \A n \in 1..handled[t][i] :
            t \in log[n].to => n \in Range(handled[t])

(* Every message a runtime has sent is in its m_TxQueue or was routed, in  *)
(* particular across the router's turns over the other Threads.            *)
NothingLost ==
    \A t \in Threads : \A k \in 1..sent[t] :
        \/ \E i \in DOMAIN tx[t] : tx[t][i].no = k
        \/ \E n \in DOMAIN log : log[n].msg.from = t /\ log[n].msg.no = k

(* The infrastructure implements the abstract multicast.                   *)
Multicast == INSTANCE TotalOrderMulticast WITH outbox <- tx

MulticastSpec == Multicast!Spec

(* Every message that is sent is eventually handled by every runtime that  *)
(* was subscribed when it was routed, although the router blocks on the    *)
(* mutex of each runtime that is busy.                                     *)
EverythingHandled ==
    /\ \A t \in Threads, k \in 1..MaxSent :
           sent[t] >= k ~> \E n \in DOMAIN log :
                               log[n].msg.from = t /\ log[n].msg.no = k
    /\ \A t \in Threads, n \in 1..(N * MaxSent) :
           (n \in DOMAIN log /\ t \in log[n].to) ~> n \in Range(handled[t])
=============================================================================
