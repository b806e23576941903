-------------------------- MODULE MessageBusProofs --------------------------
(***************************************************************************)
(* Proofs about MessageBus: its type invariant, the inductive invariant    *)
(* IInv from which the orders and the completeness of delivery follow, and *)
(* the refinement of TotalOrderMulticast, for any number of runtimes, any  *)
(* set of ids, any initial subscriptions and any number of messages.       *)
(***************************************************************************)
EXTENDS MessageBus, SequenceTheorems, TLAPS

-----------------------------------------------------------------------------
(* The inductive invariant *)

(* Subscribe keeps each (id, runtime) pair once.                           *)
SubscribersDistinct ==
    \A i, j \in DOMAIN subscribers : subscribers[i] = subscribers[j] => i = j

(* A subscriber the router still has to serve asked for the message in     *)
(* hand, which is the last one of the log, and did not get it so far.      *)
InHand ==
    \A i \in todo :
        /\ log # <<>>
        /\ subscribers[i].id = log[Len(log)].msg.id
        /\ subscribers[i].runtime \in log[Len(log)].to
        /\ Len(log) \notin Range(rx[subscribers[i].runtime])
        /\ Len(log) \notin Range(handled[subscribers[i].runtime])

(* What waits for a runtime, or was handled by it, was addressed to it.    *)
Addressed ==
    \A t \in Threads :
        /\ \A i \in DOMAIN handled[t] :
               handled[t][i] \in DOMAIN log /\ t \in log[handled[t][i]].to
        /\ \A i \in DOMAIN rx[t] : rx[t][i] # Run =>
               rx[t][i] \in DOMAIN log /\ t \in log[rx[t][i]].to

(* Along the messages a runtime handled and those waiting in its queue the *)
(* places in the log increase.                                             *)
Ordered ==
    \A t \in Threads :
        /\ \A i, j \in DOMAIN handled[t] :
               i < j => handled[t][i] < handled[t][j]
        /\ \A i, j \in DOMAIN rx[t] :
               i < j /\ rx[t][i] # Run /\ rx[t][j] # Run => rx[t][i] < rx[t][j]
        /\ \A i \in DOMAIN handled[t], j \in DOMAIN rx[t] :
               rx[t][j] # Run => handled[t][i] < rx[t][j]

(* A message addressed to a runtime was handled by it, waits in its queue, *)
(* or is in the hands of the router.                                       *)
Complete ==
    \A t \in Threads : \A n \in DOMAIN log :
        t \in log[n].to =>
            \/ n \in Range(handled[t])
            \/ n \in Range(rx[t])
            \/ n = Len(log) /\ \E i \in todo : subscribers[i].runtime = t

(* Each sending queue holds the last messages its runtime sent.            *)
TxNumbered ==
    \A s \in Threads :
        /\ Len(tx[s]) <= sent[s]
        /\ \A i \in DOMAIN tx[s] : /\ tx[s][i].from = s
                                   /\ tx[s][i].no = sent[s] - Len(tx[s]) + i

(* The log holds all earlier ones, in the order they were sent.            *)
LogNumbered ==
    /\ \A n \in DOMAIN log :
           log[n].msg.no <= sent[log[n].msg.from] - Len(tx[log[n].msg.from])
    /\ \A m, n \in DOMAIN log :
           m < n /\ log[m].msg.from = log[n].msg.from
           => log[m].msg.no < log[n].msg.no

LogComplete ==
    \A s \in Threads : \A k \in 1..(sent[s] - Len(tx[s])) :
        \E n \in DOMAIN log : log[n].msg.from = s /\ log[n].msg.no = k

DeliveryInv == SubscribersDistinct /\ InHand /\ Addressed /\ Ordered /\ Complete

SenderInv == TxNumbered /\ LogNumbered /\ LogComplete

(* The inductive invariant: delivery and sending, in the parts above.      *)
IInv == TypeOK /\ DeliveryInv /\ SenderInv

-----------------------------------------------------------------------------
(* One queue of a family of queues grows at its end or loses its head *)

\* What a push does to a queue: one element more, at the end.
LEMMA AppendOf ==
  ASSUME NEW S, NEW q \in Seq(S), NEW x \in S
  PROVE  /\ Append(q, x) \in Seq(S)
         /\ Len(Append(q, x)) = Len(q) + 1
         /\ DOMAIN Append(q, x) = DOMAIN q \cup {Len(q) + 1}
         /\ \A i \in DOMAIN q : Append(q, x)[i] = q[i]
         /\ Append(q, x)[Len(q) + 1] = x
         /\ Range(Append(q, x)) = Range(q) \cup {x}
         /\ Len(q) \in Nat /\ DOMAIN q = 1..Len(q)
<1> DEFINE r == Append(q, x)
<1>1. /\ r \in Seq(S)
      /\ Len(r) = Len(q) + 1
      /\ \A i \in 1..Len(q) : r[i] = q[i]
      /\ r[Len(q) + 1] = x
  BY AppendProperties
<1> HIDE DEF r
<1>2. DOMAIN q = 1..Len(q) /\ DOMAIN r = 1..Len(r) /\ Len(q) \in Nat
  BY <1>1, LenProperties
<1>3. DOMAIN r = DOMAIN q \cup {Len(q) + 1}
  BY <1>1, <1>2
<1>4. Range(r) = Range(q) \cup {x}
  BY <1>1, <1>2, <1>3 DEF Range
<1> QED
  BY <1>1, <1>2, <1>3, <1>4, Zenon DEF r

\* ... and to a family of queues: only the one of t changes.
LEMMA AppendAt ==
  ASSUME NEW I, NEW S, NEW q \in [I -> Seq(S)], NEW t \in I, NEW x \in S
  PROVE  LET r == [q EXCEPT ![t] = Append(@, x)]
         IN  /\ r \in [I -> Seq(S)]
             /\ r[t] = Append(q[t], x)
             /\ \A u \in I : u # t => r[u] = q[u]
<1>1. Append(q[t], x) \in Seq(S)
  BY AppendProperties
<1> QED
  BY <1>1

\* The elements of a queue are its first one and those of the rest.
LEMMA RangeOfParts ==
  ASSUME NEW A, NEW B, NEW h,
         \A x : x \in A => x = h \/ x \in B,
         \A x : x \in B => x \in A,
         h \in A
  PROVE  A = {h} \cup B
OBVIOUS

\* What a pop does to a queue: every element moves up by one.
LEMMA TailOf ==
  ASSUME NEW S, NEW q \in Seq(S), q # <<>>
  PROVE  /\ Tail(q) \in Seq(S)
         /\ Len(q) \in Nat \ {0} /\ Len(Tail(q)) = Len(q) - 1
         /\ 1 \in DOMAIN q /\ Head(q) = q[1] /\ Head(q) \in S
         /\ \A i \in DOMAIN Tail(q) : i + 1 \in DOMAIN q /\ Tail(q)[i] = q[i + 1]
         /\ \A i \in DOMAIN q : i # 1 => i - 1 \in DOMAIN Tail(q)
         /\ DOMAIN Tail(q) \subseteq Nat /\ DOMAIN q \subseteq Nat
         /\ Range(q) = {Head(q)} \cup Range(Tail(q))
<1>1. Len(q) \in Nat \ {0}
  BY EmptySeq
<1>2. /\ Tail(q) \in Seq(S)
      /\ Len(Tail(q)) = Len(q) - 1
      /\ \A i \in 1..Len(Tail(q)) : Tail(q)[i] = q[i + 1]
      /\ Head(q) \in S
  BY HeadTailProperties
<1>3. DOMAIN q = 1..Len(q) /\ DOMAIN Tail(q) = 1..(Len(q) - 1)
  BY <1>2, LenProperties
<1>4. ASSUME NEW i \in 1..(Len(q) - 1) PROVE i + 1 \in 1..Len(q)
  BY <1>1
<1>5. ASSUME NEW i \in 1..Len(q), i # 1 PROVE i - 1 \in 1..(Len(q) - 1)
  BY <1>1, <1>5
<1>6. 1 \in 1..Len(q) /\ Head(q) = q[1]
  BY <1>1
<1>7. \A i \in DOMAIN Tail(q) : i + 1 \in DOMAIN q /\ Tail(q)[i] = q[i + 1]
  BY <1>2, <1>3, <1>4, Zenon
<1>8. \A i \in DOMAIN q : i # 1 => i - 1 \in DOMAIN Tail(q)
  BY <1>3, <1>5, Zenon
<1>9. Range(q) = {Head(q)} \cup Range(Tail(q))
  <2>1. \A i \in DOMAIN q : i # 1 => q[i] = Tail(q)[i - 1]
    BY <1>2, <1>3, <1>5
  <2> QED
    <3>1. \A x : x \in Range(q) => x = Head(q) \/ x \in Range(Tail(q))
      BY <1>6, <1>8, <2>1, Zenon DEF Range
    <3>2. \A x : x \in Range(Tail(q)) => x \in Range(q)
      BY <1>7, Zenon DEF Range
    <3>3. Head(q) \in Range(q)
      BY <1>3, <1>6, Zenon DEF Range
    <3> QED
      BY <3>1, <3>2, <3>3, RangeOfParts, Zenon
<1>10. DOMAIN Tail(q) \subseteq Nat /\ DOMAIN q \subseteq Nat
  BY <1>3
<1> QED
  BY <1>1, <1>2, <1>3, <1>6, <1>7, <1>8, <1>9, <1>10, Zenon

\* ... and to a family of queues: only the one of t changes.
LEMMA TailAt ==
  ASSUME NEW I, NEW S, NEW q \in [I -> Seq(S)], NEW t \in I, q[t] # <<>>
  PROVE  LET r == [q EXCEPT ![t] = Tail(@)]
         IN  /\ r \in [I -> Seq(S)]
             /\ r[t] = Tail(q[t])
             /\ \A u \in I : u # t => r[u] = q[u]
<1>1. Tail(q[t]) \in Seq(S)
  BY HeadTailProperties
<1> QED
  BY <1>1

\* Every subscription names a runtime and a message id.
LEMMA SubscriberType ==
  ASSUME TypeOK, NEW i \in DOMAIN subscribers
  PROVE  subscribers[i].runtime \in Threads /\ subscribers[i].id \in Ids
<1>1. subscribers[i] \in Subscribers
  BY ElementOfSeq, LenProperties DEF TypeOK
<1> QED
  BY <1>1 DEF Subscribers

-----------------------------------------------------------------------------
(* Type correctness *)

\* The queues are empty at the start.
LEMMA InitType == Init => TypeOK
  BY NAssumption, BoundsAssumption, ConfiguredAssumption
  DEF Init, TypeOK, Threads, Run

\* Every action keeps the types of the queues and of the history.
LEMMA NextType == TypeOK /\ [Next]_vars => TypeOK'
<1> SUFFICES ASSUME TypeOK, [Next]_vars PROVE TypeOK'
  OBVIOUS
<1>1. ASSUME NEW id \in Ids, Subscribe(id) PROVE TypeOK'
  <2> DEFINE new == [id |-> id, runtime |-> Remote]
  <2>1. new \in Subscribers /\ subscribers \in Seq(Subscribers)
    BY RemoteAssumption DEF TypeOK, Subscribers
  <2>2. subscribers' = Append(subscribers, new)
    BY <1>1 DEF Subscribe
  <2> HIDE DEF new
  <2>3. /\ subscribers' \in Seq(Subscribers)
        /\ DOMAIN subscribers \subseteq DOMAIN subscribers'
    BY <2>1, <2>2, AppendProperties, LenProperties
  <2> QED
    BY <1>1, <2>3 DEF Subscribe, TypeOK, router, history
<1>2. ASSUME NEW t \in Threads, TimerCallback(t) PROVE TypeOK'
  <2>1. rx' \in [Threads -> Seq(Nat)]
    BY <1>2, AppendAt DEF TimerCallback, TypeOK, Run
  <2> QED
    BY <1>2, <2>1 DEF TimerCallback, TypeOK, router, history
<1>3. ASSUME NEW t \in Threads, NEW id \in Ids, SendMessage(t, id)
      PROVE TypeOK'
  <2> DEFINE msg == [id |-> id, from |-> t, no |-> sent[t] + 1]
  <2>1. sent[t] + 1 \in 1..MaxSent
    BY <1>3, BoundsAssumption DEF SendMessage, TypeOK
  <2>2. msg \in Message
    BY <2>1 DEF Message
  <2>3. tx' = [tx EXCEPT ![t] = Append(@, msg)]
    BY <1>3 DEF SendMessage
  <2> HIDE DEF msg
  <2>4. tx' \in [Threads -> Seq(Message)]
    BY <2>2, <2>3, AppendAt DEF TypeOK
  <2>5. sent' \in [Threads -> 0..MaxSent]
    BY <1>3, <2>1 DEF SendMessage, TypeOK
  <2> QED
    BY <1>3, <2>4, <2>5 DEF SendMessage, TypeOK, router
<1>4. ASSUME NEW t \in Threads, WakeHandler(t) PROVE TypeOK'
  BY <1>4 DEF WakeHandler, TypeOK, router, history
<1>5. ASSUME NEW t \in Threads, HandleNewMessage(t) PROVE TypeOK'
  <2>1. rx[t] \in Seq(Nat) /\ rx[t] # <<>>
    BY <1>5 DEF HandleNewMessage, TypeOK
  <2>2. Head(rx[t]) \in Nat
    BY <2>1, HeadTailProperties
  <2>3. rx' \in [Threads -> Seq(Nat)]
    BY <1>5, TailAt DEF HandleNewMessage, TypeOK
  <2>4. handled' \in [Threads -> Seq(Nat)]
    <3>1. CASE Head(rx[t]) = Run
      BY <1>5, <3>1 DEF HandleNewMessage, TypeOK
    <3>2. CASE Head(rx[t]) # Run
      <4>1. handled' = [handled EXCEPT ![t] = Append(@, Head(rx[t]))]
        BY <1>5, <3>2 DEF HandleNewMessage
      <4> QED
        BY <2>2, <4>1, AppendAt DEF TypeOK
    <3> QED
      BY <3>1, <3>2
  <2> QED
    BY <1>5, <2>3, <2>4 DEF HandleNewMessage, TypeOK, router
<1>6. ASSUME NEW t \in Threads, QueueDrained(t) PROVE TypeOK'
  BY <1>6 DEF QueueDrained, TypeOK, router, history
<1>7. CASE ReceiveMessage
  <2> DEFINE msg == Head(tx[cursor])
  <2> DEFINE to == {subscribers[i].runtime : i \in FindSubscribers(msg.id)}
  <2>1. msg \in Message
    BY <1>7, HeadTailProperties DEF ReceiveMessage, TypeOK
  <2>2. /\ FindSubscribers(msg.id) \subseteq DOMAIN subscribers
        /\ \A i \in DOMAIN subscribers : subscribers[i].runtime \in Threads
    BY SubscriberType DEF FindSubscribers
  <2>3. [msg |-> msg, to |-> to] \in [msg : Message, to : SUBSET Threads]
    BY <2>1, <2>2
  <2>4. log' = Append(log, [msg |-> msg, to |-> to]) /\ todo' = FindSubscribers(msg.id)
    BY <1>7 DEF ReceiveMessage
  <2> HIDE DEF msg, to
  <2>5. log' \in Seq([msg : Message, to : SUBSET Threads])
    BY <2>3, <2>4, AppendProperties DEF TypeOK
  <2>6. tx' \in [Threads -> Seq(Message)]
    BY <1>7, TailAt DEF ReceiveMessage, TypeOK
  <2> QED
    BY <1>7, <2>2, <2>4, <2>5, <2>6 DEF ReceiveMessage, TypeOK
<1>8. CASE PushMessageToRuntimeHandler
  <2> PICK i \in todo :
        /\ rx' = [rx EXCEPT ![subscribers[i].runtime] = Append(@, Len(log))]
        /\ todo' = todo \ {i}
        /\ UNCHANGED <<tx, handler, subscribers, cursor, history>>
    BY <1>8 DEF PushMessageToRuntimeHandler
  <2>1. subscribers[i].runtime \in Threads /\ Len(log) \in Nat
    BY SubscriberType, LenProperties DEF TypeOK
  <2>2. rx' \in [Threads -> Seq(Nat)]
    BY <2>1, AppendAt DEF TypeOK
  <2> QED
    BY <2>2 DEF TypeOK, history
<1>9. CASE NextThread
  <2>1. cursor' \in Threads
    BY <1>9, NAssumption DEF NextThread, TypeOK, Threads
  <2> QED
    BY <1>9, <2>1 DEF NextThread, TypeOK, history
<1>10. CASE UNCHANGED vars
  BY <1>10 DEF vars, TypeOK
<1> QED
  BY <1>1, <1>2, <1>3, <1>4, <1>5, <1>6, <1>7, <1>8, <1>9, <1>10
  DEF Next, Environment, HandlerThread, MainThread

(* The queues, the router's position and the history keep their types, for *)
(* any number of runtimes and messages.                                    *)
THEOREM TypeCorrect == Spec => []TypeOK
  BY InitType, NextType, PTL DEF Spec

-----------------------------------------------------------------------------
(* Delivery *)

\* Nothing has been sent or routed at the start.
LEMMA InitInv == Init => DeliveryInv /\ SenderInv
  BY ConfiguredAssumption
  DEF Init, DeliveryInv, SenderInv, SubscribersDistinct, InHand, Addressed,
      Ordered, Complete, TxNumbered, LogNumbered, LogComplete, Threads

(* A push of the timer (n is Run) or of the router (n is the message in    *)
(* hand) to t.                                                             *)
LEMMA Pushed ==
  ASSUME TypeOK, Addressed, Ordered, UNCHANGED <<log, handled>>,
         NEW t \in Threads, NEW n \in Nat,
         rx' = [rx EXCEPT ![t] = Append(@, n)],
         n # Run => /\ n = Len(log) /\ n \in DOMAIN log /\ t \in log[n].to
                    /\ n \notin Range(rx[t]) /\ n \notin Range(handled[t])
  PROVE  /\ Addressed' /\ Ordered'
         /\ \A u \in Threads : u # t => rx'[u] = rx[u]
         /\ Range(rx'[t]) = Range(rx[t]) \cup {n}
<1> DEFINE last == Len(rx[t]) + 1
<1>0. rx \in [Threads -> Seq(Nat)]
  BY DEF TypeOK
<1>1. /\ \A u \in Threads : u # t => rx'[u] = rx[u]
      /\ DOMAIN rx'[t] = DOMAIN rx[t] \cup {last}
      /\ \A i \in DOMAIN rx[t] : rx'[t][i] = rx[t][i]
      /\ rx'[t][last] = n
      /\ Range(rx'[t]) = Range(rx[t]) \cup {n}
      /\ Len(rx[t]) \in Nat /\ DOMAIN rx[t] = 1..Len(rx[t])
  <2>1. rx'[t] = Append(rx[t], n) /\ \A u \in Threads : u # t => rx'[u] = rx[u]
    BY <1>0
  <2>2. rx[t] \in Seq(Nat)
    BY <1>0
  <2> QED
    BY <2>1, <2>2, AppendOf
<1>2. /\ DOMAIN log = 1..Len(log)
      /\ \A i \in DOMAIN rx[t] : rx[t][i] \in Nat
      /\ \A i \in DOMAIN handled[t] : handled[t][i] \in Nat
  BY LenProperties, ElementOfSeq DEF TypeOK
<1>3. /\ \A i \in DOMAIN rx[t] : rx[t][i] # Run /\ n # Run => rx[t][i] < n
      /\ \A i \in DOMAIN handled[t] : n # Run => handled[t][i] < n
  BY <1>2 DEF Addressed, Range
<1>4. \A i \in DOMAIN rx[t] : i < last
  BY <1>1
<1> HIDE DEF last
<1>5. Addressed'
  BY <1>1 DEF Addressed
<1>6. Ordered'
  <2> SUFFICES ASSUME NEW u \in Threads
               PROVE  /\ \A i, j \in DOMAIN rx'[u] :
                            i < j /\ rx'[u][i] # Run /\ rx'[u][j] # Run
                            => rx'[u][i] < rx'[u][j]
                      /\ \A i \in DOMAIN handled[u], j \in DOMAIN rx'[u] :
                            rx'[u][j] # Run => handled[u][i] < rx'[u][j]
    BY DEF Ordered
  <2>1. CASE u # t
    BY <1>1, <2>1 DEF Ordered
  <2>2. CASE u = t
    <3>1. ASSUME NEW i \in DOMAIN rx'[t], NEW j \in DOMAIN rx'[t],
                 i < j, rx'[t][i] # Run, rx'[t][j] # Run
          PROVE  rx'[t][i] < rx'[t][j]
      <4>1. i \in DOMAIN rx[t]
        <5>1. last \in Int /\ j \in Int /\ j <= last
          BY <1>1 DEF last
        <5>2. i # last
          BY <3>1, <5>1
        <5> QED
          BY <1>1, <5>2
      <4>2. CASE j = last
        BY <1>1, <1>3, <3>1, <4>1, <4>2
      <4>3. CASE j \in DOMAIN rx[t]
        BY <1>1, <3>1, <4>1, <4>3 DEF Ordered
      <4> QED
        BY <1>1, <4>2, <4>3
    <3>2. ASSUME NEW i \in DOMAIN handled[t], NEW j \in DOMAIN rx'[t],
                 rx'[t][j] # Run
          PROVE  handled[t][i] < rx'[t][j]
      BY <1>1, <1>3, <3>2 DEF Ordered
    <3> QED
      BY <2>2, <3>1, <3>2
  <2> QED
    BY <2>1, <2>2
<1> QED
  BY <1>1, <1>5, <1>6

\* A subscription is checked before it is added and moves no message.
LEMMA SubscribeDelivery ==
  ASSUME TypeOK, DeliveryInv, NEW id \in Ids, Subscribe(id)
  PROVE  DeliveryInv'
<1> DEFINE new == [id |-> id, runtime |-> Remote]
<1>1. /\ subscribers' = Append(subscribers, new)
      /\ new \notin Range(subscribers)
      /\ UNCHANGED <<rx, todo, log, handled>>
  BY DEF Subscribe, router, history
<1>2. new \in Subscribers /\ subscribers \in Seq(Subscribers)
  BY RemoteAssumption DEF TypeOK, Subscribers
<1> HIDE DEF new
<1>3. /\ DOMAIN subscribers' = DOMAIN subscribers \cup {Len(subscribers) + 1}
      /\ \A i \in DOMAIN subscribers : subscribers'[i] = subscribers[i]
      /\ subscribers'[Len(subscribers) + 1] = new
  BY <1>1, <1>2, AppendOf
<1>4. todo \subseteq DOMAIN subscribers
  BY DEF TypeOK
<1>5. SubscribersDistinct'
  BY <1>1, <1>3 DEF DeliveryInv, SubscribersDistinct, Range
<1>6. InHand'
  BY <1>1, <1>3, <1>4 DEF DeliveryInv, InHand
<1>7. Addressed' /\ Ordered'
  BY <1>1 DEF DeliveryInv, Addressed, Ordered
<1>8. Complete'
  BY <1>1, <1>3, <1>4 DEF DeliveryInv, Complete
<1> QED
  BY <1>5, <1>6, <1>7, <1>8 DEF DeliveryInv

\* A timer's Run message is no bus message and disturbs no order.
LEMMA TimerDelivery ==
  ASSUME TypeOK, DeliveryInv, NEW t \in Threads, TimerCallback(t)
  PROVE  DeliveryInv'
<1>1. /\ rx' = [rx EXCEPT ![t] = Append(@, Run)]
      /\ UNCHANGED <<subscribers, todo, log, handled>>
  BY DEF TimerCallback, router, history
<1>2. /\ Addressed' /\ Ordered'
      /\ \A u \in Threads : u # t => rx'[u] = rx[u]
      /\ Range(rx'[t]) = Range(rx[t]) \cup {Run}
  BY <1>1, Pushed DEF DeliveryInv, Run
<1>3. log # <<>> => Len(log) # Run
  BY EmptySeq DEF TypeOK, Run
<1>4. \A i \in todo : subscribers[i].runtime \in Threads
  BY SubscriberType DEF TypeOK
<1>5. InHand'
  BY <1>1, <1>2, <1>3, <1>4 DEF DeliveryInv, InHand
<1>6. Complete'
  BY <1>1, <1>2 DEF DeliveryInv, Complete
<1>7. SubscribersDistinct'
  BY <1>1 DEF DeliveryInv, SubscribersDistinct
<1> QED
  BY <1>2, <1>5, <1>6, <1>7 DEF DeliveryInv

\* HandleNewMessage takes the first of the receive queue.
LEMMA HandleDelivery ==
  ASSUME TypeOK, DeliveryInv, NEW t \in Threads, HandleNewMessage(t)
  PROVE  DeliveryInv'
<1> DEFINE n == Head(rx[t])
<1>1. /\ rx' = [rx EXCEPT ![t] = Tail(@)]
      /\ handled' = IF n = Run THEN handled
                    ELSE [handled EXCEPT ![t] = Append(@, n)]
      /\ UNCHANGED <<subscribers, todo, log>>
      /\ rx[t] # <<>>
  BY DEF HandleNewMessage, router
<1>2. /\ rx \in [Threads -> Seq(Nat)] /\ handled \in [Threads -> Seq(Nat)]
      /\ rx[t] \in Seq(Nat) /\ handled[t] \in Seq(Nat)
  BY DEF TypeOK
<1>3. rx'[t] = Tail(rx[t]) /\ \A u \in Threads : u # t => rx'[u] = rx[u]
  BY <1>1, <1>2
<1>4. \A u \in Threads : u # t => handled'[u] = handled[u]
  BY <1>1, <1>2
<1>5. n # Run => handled'[t] = Append(handled[t], n)
  BY <1>1, <1>2
<1>6. n = Run => handled'[t] = handled[t]
  BY <1>1
<1>7. /\ 1 \in DOMAIN rx[t] /\ n = rx[t][1] /\ n \in Nat
      /\ \A i \in DOMAIN rx'[t] : i + 1 \in DOMAIN rx[t] /\ rx'[t][i] = rx[t][i + 1]
      /\ DOMAIN rx'[t] \subseteq Nat \ {0}
      /\ Range(rx[t]) = {n} \cup Range(rx'[t])
  BY <1>1, <1>2, <1>3, TailOf, LenProperties
<1> HIDE DEF n
<1>8. n # Run => /\ DOMAIN handled'[t] = DOMAIN handled[t] \cup {Len(handled[t]) + 1}
                 /\ \A i \in DOMAIN handled[t] : handled'[t][i] = handled[t][i]
                 /\ handled'[t][Len(handled[t]) + 1] = n
                 /\ Range(handled'[t]) = Range(handled[t]) \cup {n}
                 /\ Len(handled[t]) \in Nat /\ DOMAIN handled[t] = 1..Len(handled[t])
  <2>1. /\ DOMAIN Append(handled[t], n) = DOMAIN handled[t] \cup {Len(handled[t]) + 1}
        /\ \A i \in DOMAIN handled[t] : Append(handled[t], n)[i] = handled[t][i]
        /\ Append(handled[t], n)[Len(handled[t]) + 1] = n
        /\ Range(Append(handled[t], n)) = Range(handled[t]) \cup {n}
        /\ Len(handled[t]) \in Nat /\ DOMAIN handled[t] = 1..Len(handled[t])
    BY <1>2, <1>7, AppendOf
  <2> QED
    BY <1>5, <2>1, Zenon
<1>9. \A i \in todo : subscribers[i].runtime \in Threads
  BY SubscriberType DEF TypeOK
<1>10. InHand'
  <2>1. n \in Range(rx[t]) /\ Range(rx'[t]) \subseteq Range(rx[t])
    BY <1>7
  <2>2. \A i \in todo : /\ Len(log) \notin Range(rx[subscribers[i].runtime])
                        /\ Len(log) \notin Range(handled[subscribers[i].runtime])
    BY DEF DeliveryInv, InHand
  <2>3. \A i \in todo : Len(log) \notin Range(rx'[subscribers[i].runtime])
    BY <1>3, <1>9, <2>1, <2>2
  <2>4. \A i \in todo : Len(log) \notin Range(handled'[subscribers[i].runtime])
    BY <1>4, <1>6, <1>8, <1>9, <2>1, <2>2
  <2> QED
    BY <1>1, <2>3, <2>4 DEF DeliveryInv, InHand
<1>11. Addressed'
  <2>1. n # Run => n \in DOMAIN log /\ t \in log[n].to
    BY <1>7 DEF DeliveryInv, Addressed
  <2>2. \A u \in Threads : \A i \in DOMAIN handled'[u] :
            handled'[u][i] \in DOMAIN log /\ u \in log[handled'[u][i]].to
    BY <1>4, <1>6, <1>8, <2>1 DEF DeliveryInv, Addressed
  <2>3. \A u \in Threads : \A i \in DOMAIN rx'[u] : rx'[u][i] # Run =>
            rx'[u][i] \in DOMAIN log /\ u \in log[rx'[u][i]].to
    <3> SUFFICES ASSUME NEW u \in Threads, NEW i \in DOMAIN rx'[u], rx'[u][i] # Run
                 PROVE  rx'[u][i] \in DOMAIN log /\ u \in log[rx'[u][i]].to
      OBVIOUS
    <3>1. \A j \in DOMAIN rx[u] : rx[u][j] # Run =>
              rx[u][j] \in DOMAIN log /\ u \in log[rx[u][j]].to
      BY DEF DeliveryInv, Addressed
    <3>2. CASE u = t
      <4>1. i + 1 \in DOMAIN rx[u] /\ rx'[u][i] = rx[u][i + 1]
        BY <1>7, <3>2
      <4> QED
        BY <3>1, <4>1, Zenon
    <3>3. CASE u # t
      <4>1. rx'[u] = rx[u]
        BY <1>3, <3>3
      <4> QED
        BY <3>1, <4>1, Zenon
    <3> QED
      BY <3>2, <3>3
  <2> QED
    BY <1>1, <2>2, <2>3 DEF Addressed
<1>12. Ordered'
  <2>1. \A i \in DOMAIN handled[t] : n # Run => handled[t][i] < n
    BY <1>7 DEF DeliveryInv, Ordered
  <2>2. \A i \in DOMAIN rx'[t] : n # Run /\ rx'[t][i] # Run => n < rx'[t][i]
    <3> SUFFICES ASSUME NEW i \in DOMAIN rx'[t], n # Run, rx'[t][i] # Run
                 PROVE  n < rx'[t][i]
      OBVIOUS
    <3>1. i + 1 \in DOMAIN rx[t] /\ rx'[t][i] = rx[t][i + 1] /\ 1 < i + 1
      BY <1>7
    <3> QED
      BY <1>7, <3>1 DEF DeliveryInv, Ordered
  <2>3. ASSUME NEW i \in DOMAIN handled'[t], NEW j \in DOMAIN handled'[t], i < j
        PROVE  handled'[t][i] < handled'[t][j]
    <3>1. CASE n = Run
      BY <1>6, <2>3, <3>1 DEF DeliveryInv, Ordered
    <3>2. CASE n # Run
      <4> DEFINE last == Len(handled[t]) + 1
      <4>1. i \in 1..last /\ j \in 1..last /\ last \in Nat
        BY <1>8, <3>2
      <4>2. i \in DOMAIN handled[t]
        BY <1>8, <2>3, <3>2, <4>1
      <4>3. CASE j = last
        BY <1>8, <2>1, <3>2, <4>2, <4>3
      <4>4. CASE j \in DOMAIN handled[t]
        <5>1. handled[t][i] < handled[t][j]
          BY <2>3, <4>2, <4>4 DEF DeliveryInv, Ordered
        <5> QED
          BY <1>8, <3>2, <4>2, <4>4, <5>1
      <4> QED
        BY <1>8, <3>2, <4>3, <4>4
    <3> QED
      BY <3>1, <3>2
  <2>4. ASSUME NEW i \in DOMAIN rx'[t], NEW j \in DOMAIN rx'[t],
               i < j, rx'[t][i] # Run, rx'[t][j] # Run
        PROVE  rx'[t][i] < rx'[t][j]
    <3>1. /\ i + 1 \in DOMAIN rx[t] /\ rx'[t][i] = rx[t][i + 1]
          /\ j + 1 \in DOMAIN rx[t] /\ rx'[t][j] = rx[t][j + 1]
          /\ i + 1 < j + 1
      BY <1>7, <2>4
    <3> QED
      BY <2>4, <3>1 DEF DeliveryInv, Ordered
  <2>5. ASSUME NEW i \in DOMAIN handled'[t], NEW j \in DOMAIN rx'[t],
               rx'[t][j] # Run
        PROVE  handled'[t][i] < rx'[t][j]
    <3>1. j + 1 \in DOMAIN rx[t] /\ rx'[t][j] = rx[t][j + 1]
      BY <1>7
    <3>2. \A k \in DOMAIN handled[t] : handled[t][k] < rx'[t][j]
      BY <2>5, <3>1 DEF DeliveryInv, Ordered
    <3>3. CASE n = Run
      BY <1>6, <3>2, <3>3
    <3>4. CASE n # Run
      <4>1. handled'[t][i] = n \/ \E k \in DOMAIN handled[t] : handled'[t][i] = handled[t][k]
        BY <1>8, <3>4
      <4> QED
        BY <2>2, <2>5, <3>2, <3>4, <4>1
    <3> QED
      BY <3>3, <3>4
  <2>6. \A u \in Threads : u # t => rx'[u] = rx[u] /\ handled'[u] = handled[u]
    BY <1>3, <1>4
  <2> SUFFICES ASSUME NEW u \in Threads
               PROVE  /\ \A i, j \in DOMAIN handled'[u] :
                            i < j => handled'[u][i] < handled'[u][j]
                      /\ \A i, j \in DOMAIN rx'[u] :
                            i < j /\ rx'[u][i] # Run /\ rx'[u][j] # Run
                            => rx'[u][i] < rx'[u][j]
                      /\ \A i \in DOMAIN handled'[u], j \in DOMAIN rx'[u] :
                            rx'[u][j] # Run => handled'[u][i] < rx'[u][j]
    BY DEF Ordered
  <2>7. CASE u = t
    BY <2>3, <2>4, <2>5, <2>7
  <2>8. CASE u # t
    BY <2>6, <2>8 DEF DeliveryInv, Ordered
  <2> QED
    BY <2>7, <2>8
<1>13. Complete'
  <2>1. \A m \in Range(rx[t]) : m # Run => m \in Range(rx'[t]) \cup Range(handled'[t])
    BY <1>7, <1>8
  <2>2. Range(handled[t]) \subseteq Range(handled'[t])
    BY <1>6, <1>8
  <2>3. \A m \in DOMAIN log : m # Run
    BY LenProperties DEF TypeOK, Run
  <2> QED
    BY <1>1, <1>3, <1>4, <2>1, <2>2, <2>3 DEF DeliveryInv, Complete
<1>14. SubscribersDistinct'
  BY <1>1 DEF DeliveryInv, SubscribersDistinct
<1> QED
  BY <1>10, <1>11, <1>12, <1>13, <1>14 DEF DeliveryInv

\* A message taken off a sending queue enters the log with its subscribers.
LEMMA ReceiveDelivery ==
  ASSUME TypeOK, DeliveryInv, ReceiveMessage
  PROVE  DeliveryInv'
<1> DEFINE msg == Head(tx[cursor])
           to == {subscribers[i].runtime : i \in FindSubscribers(msg.id)}
           entry == [msg |-> msg, to |-> to]
           last == Len(log) + 1
<1>1. /\ todo = {}
      /\ todo' = FindSubscribers(msg.id)
      /\ log' = Append(log, entry)
      /\ UNCHANGED <<rx, subscribers, handled>>
  BY DEF ReceiveMessage
<1>2. entry \in [msg : Message, to : SUBSET Threads]
  <2>1. msg \in Message
    BY HeadTailProperties DEF ReceiveMessage, TypeOK
  <2>2. to \in SUBSET Threads
    BY SubscriberType DEF FindSubscribers
  <2> QED
    BY <2>1, <2>2
<1>3. entry.msg = msg /\ entry.to = to
  OBVIOUS
<1>4. \A i \in todo' : /\ i \in DOMAIN subscribers /\ subscribers[i].id = msg.id
                       /\ subscribers[i].runtime \in to
                       /\ subscribers[i].runtime \in Threads
  BY <1>1, SubscriberType DEF FindSubscribers
<1>5. \A t \in to : \E i \in todo' : subscribers[i].runtime = t
  BY <1>1
<1> HIDE DEF msg, to, entry
<1>6. /\ DOMAIN log' = DOMAIN log \cup {last} /\ Len(log') = last
      /\ \A n \in DOMAIN log : log'[n] = log[n]
      /\ log'[last] = entry
      /\ DOMAIN log = 1..Len(log) /\ Len(log) \in Nat
  <2>1. log \in Seq([msg : Message, to : SUBSET Threads])
    BY DEF TypeOK
  <2> QED
    BY <1>1, <1>2, <2>1, AppendOf
<1>7. \A t \in Threads : last \notin Range(rx[t]) /\ last \notin Range(handled[t])
  <2>1. last \notin DOMAIN log /\ last # Run
    BY <1>6 DEF Run
  <2> QED
    BY <2>1 DEF DeliveryInv, Addressed, Range
<1>8. log' # <<>>
  <2>1. last # 0 /\ Len(<<>>) = 0
    BY <1>6
  <2> QED
    BY <1>6, <2>1
<1> HIDE DEF last
<1>9. InHand'
  BY <1>1, <1>3, <1>4, <1>6, <1>7, <1>8 DEF InHand
<1>10. Addressed'
  BY <1>1, <1>6 DEF DeliveryInv, Addressed
<1>11. Ordered' /\ SubscribersDistinct'
  BY <1>1 DEF DeliveryInv, Ordered, SubscribersDistinct
<1>12. Complete'
  <2> SUFFICES ASSUME NEW t \in Threads, NEW n \in DOMAIN log', t \in log'[n].to
               PROVE  \/ n \in Range(handled[t])
                      \/ n \in Range(rx[t])
                      \/ n = last /\ \E i \in todo' : subscribers[i].runtime = t
    BY <1>1, <1>6 DEF Complete
  <2>1. CASE n = last
    BY <1>3, <1>5, <1>6, <2>1
  <2>2. CASE n \in DOMAIN log
    BY <1>1, <1>6, <2>2 DEF DeliveryInv, Complete
  <2> QED
    BY <1>6, <2>1, <2>2
<1> QED
  BY <1>9, <1>10, <1>11, <1>12 DEF DeliveryInv

\* The message in hand goes behind everything routed to t before it.
LEMMA PushDelivery ==
  ASSUME TypeOK, DeliveryInv, PushMessageToRuntimeHandler
  PROVE  DeliveryInv'
<1> PICK i \in todo :
      /\ rx' = [rx EXCEPT ![subscribers[i].runtime] = Append(@, Len(log))]
      /\ todo' = todo \ {i}
      /\ UNCHANGED <<tx, handler, subscribers, cursor, history>>
  BY DEF PushMessageToRuntimeHandler
<1> DEFINE t == subscribers[i].runtime
           n == Len(log)
<1>1. UNCHANGED <<subscribers, log, handled>>
  BY DEF history
<1>2. todo \subseteq DOMAIN subscribers /\ \A j \in todo : subscribers[j].runtime \in Threads
  BY SubscriberType DEF TypeOK
<1>3. n \in Nat /\ DOMAIN log = 1..n /\ (log # <<>> => n # 0)
  BY LenProperties, EmptySeq DEF TypeOK
<1>4. /\ log # <<>> /\ t \in log[n].to
      /\ n \notin Range(rx[t]) /\ n \notin Range(handled[t])
  BY DEF DeliveryInv, InHand
<1>5. n \in DOMAIN log
  BY <1>3, <1>4
<1>6. t \in Threads /\ rx' = [rx EXCEPT ![t] = Append(@, n)]
  BY <1>2
<1> HIDE DEF n, t
<1>7. /\ Addressed' /\ Ordered'
      /\ \A u \in Threads : u # t => rx'[u] = rx[u]
      /\ Range(rx'[t]) = Range(rx[t]) \cup {n}
  BY <1>1, <1>3, <1>4, <1>5, <1>6, Pushed DEF DeliveryInv, n
<1>8. \A j \in todo' : subscribers[j].runtime # t
  <2>1. \A j \in todo : subscribers[j].id = log[n].msg.id
    BY DEF DeliveryInv, InHand, n
  <2>2. \A j \in todo : subscribers[j] \in Subscribers
    BY ElementOfSeq, LenProperties DEF TypeOK
  <2>3. ASSUME NEW j \in todo, subscribers[j].runtime = t PROVE j = i
    <3>1. subscribers[j] = subscribers[i]
      BY <2>1, <2>2, <2>3 DEF t, Subscribers
    <3> QED
      BY <1>2, <3>1 DEF DeliveryInv, SubscribersDistinct
  <2> QED
    BY <2>3
<1>9. InHand'
  BY <1>1, <1>2, <1>7, <1>8 DEF DeliveryInv, InHand
<1>10. Complete'
  <2> SUFFICES ASSUME NEW u \in Threads, NEW m \in DOMAIN log, u \in log[m].to
               PROVE  \/ m \in Range(handled[u])
                      \/ m \in Range(rx'[u])
                      \/ m = n /\ \E j \in todo' : subscribers[j].runtime = u
    BY <1>1 DEF Complete, n
  <2>1. \/ m \in Range(handled[u])
        \/ m \in Range(rx[u])
        \/ m = n /\ \E j \in todo : subscribers[j].runtime = u
    BY DEF DeliveryInv, Complete, n
  <2>2. CASE u = t
    BY <1>7, <2>1, <2>2
  <2>3. CASE u # t
    BY <1>7, <2>1, <2>3 DEF t
  <2> QED
    BY <2>2, <2>3
<1>11. SubscribersDistinct'
  BY <1>1 DEF DeliveryInv, SubscribersDistinct
<1> QED
  BY <1>7, <1>9, <1>10, <1>11 DEF DeliveryInv

-----------------------------------------------------------------------------
(* Sending *)

\* The log is a sequence of messages.
LEMMA LogType ==
  ASSUME TypeOK, NEW n \in DOMAIN log
  PROVE  log[n].msg.from \in Threads /\ log[n].msg.no \in Nat
<1>1. log \in Seq([msg : Message, to : SUBSET Threads])
  BY DEF TypeOK
<1>2. log[n] \in [msg : Message, to : SUBSET Threads]
  BY <1>1, ElementOfSeq, LenProperties
<1>3. log[n].msg \in Message
  BY <1>2
<1> QED
  BY <1>3, BoundsAssumption DEF Message

\* A message gets the next number of its sender and queues up behind the others.
LEMMA SendSending ==
  ASSUME TypeOK, SenderInv, NEW t \in Threads, NEW id \in Ids, SendMessage(t, id)
  PROVE  SenderInv'
<1> DEFINE msg == [id |-> id, from |-> t, no |-> sent[t] + 1]
<1>1. /\ tx' = [tx EXCEPT ![t] = Append(@, msg)]
      /\ sent' = [sent EXCEPT ![t] = @ + 1]
      /\ UNCHANGED log
      /\ sent[t] < MaxSent
  BY DEF SendMessage
<1>2. /\ tx \in [Threads -> Seq(Message)] /\ tx[t] \in Seq(Message)
      /\ sent \in [Threads -> 0..MaxSent]
      /\ \A s \in Threads : sent[s] \in Nat
  BY BoundsAssumption DEF TypeOK
<1>3. msg \in Message
  BY <1>1, <1>2, BoundsAssumption DEF Message
<1>4. msg.from = t /\ msg.no = sent[t] + 1
  OBVIOUS
<1>5. /\ tx'[t] = Append(tx[t], msg) /\ sent'[t] = sent[t] + 1
      /\ \A s \in Threads : s # t => tx'[s] = tx[s] /\ sent'[s] = sent[s]
  BY <1>1, <1>2
<1> HIDE DEF msg
<1>6. /\ Len(tx'[t]) = Len(tx[t]) + 1
      /\ DOMAIN tx'[t] = DOMAIN tx[t] \cup {Len(tx[t]) + 1}
      /\ \A i \in DOMAIN tx[t] : tx'[t][i] = tx[t][i]
      /\ tx'[t][Len(tx[t]) + 1] = msg
      /\ Len(tx[t]) \in Nat /\ DOMAIN tx[t] = 1..Len(tx[t])
  BY <1>2, <1>3, <1>5, AppendOf
<1>7. \A s \in Threads : Len(tx[s]) \in Nat
  BY <1>2, LenProperties
<1>8. \A s \in Threads : sent'[s] - Len(tx'[s]) = sent[s] - Len(tx[s])
  <2>1. sent'[t] - Len(tx'[t]) = sent[t] - Len(tx[t])
    <3>1. sent[t] \in Nat /\ Len(tx[t]) \in Nat
      BY <1>2, <1>6
    <3> QED
      BY <3>1, <1>5, <1>6
  <2> QED
    BY <1>5, <2>1
<1>9. TxNumbered'
  <2> SUFFICES ASSUME NEW s \in Threads
               PROVE  /\ Len(tx'[s]) <= sent'[s]
                      /\ \A i \in DOMAIN tx'[s] :
                            /\ tx'[s][i].from = s
                            /\ tx'[s][i].no = sent'[s] - Len(tx'[s]) + i
    BY DEF TxNumbered
  <2>1. CASE s = t
    <3>1. Len(tx'[t]) <= sent'[t]
      BY <1>2, <1>5, <1>6 DEF SenderInv, TxNumbered
    <3>2. ASSUME NEW i \in DOMAIN tx[t]
          PROVE  tx'[t][i].from = t /\ tx'[t][i].no = sent'[t] - Len(tx'[t]) + i
      BY <1>6, <1>8 DEF SenderInv, TxNumbered
    <3>3. msg.no = sent'[t] - Len(tx'[t]) + (Len(tx[t]) + 1)
      BY <1>2, <1>4, <1>5, <1>6
    <3> QED
      BY <1>4, <1>6, <2>1, <3>1, <3>2, <3>3
  <2>2. CASE s # t
    BY <1>5, <2>2 DEF SenderInv, TxNumbered
  <2> QED
    BY <2>1, <2>2
<1>10. \A n \in DOMAIN log : log[n].msg.from \in Threads
  BY LogType
<1>11. LogNumbered'
  BY <1>1, <1>8, <1>10 DEF SenderInv, LogNumbered
<1>12. LogComplete'
  BY <1>1, <1>8 DEF SenderInv, LogComplete
<1> QED
  BY <1>9, <1>11, <1>12 DEF SenderInv

\* The first of a sending queue is the next one to enter the log.
LEMMA ReceiveSending ==
  ASSUME TypeOK, SenderInv, ReceiveMessage
  PROVE  SenderInv'
<1> PICK c \in Threads : c = cursor
  BY DEF TypeOK
<1> DEFINE msg == Head(tx[c])
           entry == [msg |-> msg,
                     to |-> {subscribers[i].runtime : i \in FindSubscribers(msg.id)}]
           last == Len(log) + 1
           routed(s) == sent[s] - Len(tx[s])
           routedNext(s) == sent'[s] - Len(tx'[s])
<1>1. /\ tx' = [tx EXCEPT ![c] = Tail(@)]
      /\ log' = Append(log, entry)
      /\ UNCHANGED sent
      /\ tx[c] # <<>>
  BY DEF ReceiveMessage
<1>2. /\ tx \in [Threads -> Seq(Message)] /\ tx[c] \in Seq(Message)
      /\ \A s \in Threads : sent[s] \in Nat /\ Len(tx[s]) \in Nat
  BY <1>1, BoundsAssumption, LenProperties DEF TypeOK
<1>3. tx'[c] = Tail(tx[c]) /\ \A s \in Threads : s # c => tx'[s] = tx[s]
  BY <1>1, <1>2
<1>4. /\ Len(tx'[c]) = Len(tx[c]) - 1 /\ Len(tx[c]) \in Nat \ {0}
      /\ 1 \in DOMAIN tx[c] /\ msg = tx[c][1] /\ msg \in Message
      /\ \A i \in DOMAIN tx'[c] : i + 1 \in DOMAIN tx[c] /\ tx'[c][i] = tx[c][i + 1]
      /\ DOMAIN tx'[c] \subseteq Nat
  BY <1>1, <1>2, <1>3, TailOf
<1>5. entry \in [msg : Message, to : SUBSET Threads]
  BY <1>4, SubscriberType DEF FindSubscribers
<1>6. entry.msg = msg
  OBVIOUS
<1> HIDE DEF msg, entry
<1>7. /\ DOMAIN log' = DOMAIN log \cup {last}
      /\ \A n \in DOMAIN log : log'[n] = log[n]
      /\ log'[last] = entry
      /\ DOMAIN log = 1..Len(log) /\ Len(log) \in Nat
  <2>1. log \in Seq([msg : Message, to : SUBSET Threads])
    BY DEF TypeOK
  <2> QED
    BY <1>1, <1>5, <2>1, AppendOf
<1>8. \A n \in DOMAIN log : n < last /\ n \in Nat
  BY <1>7
<1>9. \A n \in DOMAIN log : /\ log[n].msg.from \in Threads /\ log[n].msg.no \in Nat
  BY LogType
<1>10. msg.from = c /\ msg.no = routed(c) + 1
  BY <1>1, <1>4 DEF SenderInv, TxNumbered
<1>11. /\ routedNext(c) = routed(c) + 1 /\ routed(c) \in Int
       /\ \A s \in Threads : s # c => routedNext(s) = routed(s)
       /\ \A s \in Threads : routed(s) \in Int
  <2>1. sent[c] \in Nat /\ Len(tx[c]) \in Nat /\ Len(tx'[c]) = Len(tx[c]) - 1
    BY <1>2, <1>4
  <2>2. routedNext(c) = routed(c) + 1
    BY <1>1, <2>1
  <2>3. \A s \in Threads : s # c => routedNext(s) = routed(s)
    BY <1>1, <1>3
  <2>4. \A s \in Threads : routed(s) \in Int
    BY <1>2
  <2> QED
    BY <2>2, <2>3, <2>4
<1>12. TxNumbered'
  <2> SUFFICES ASSUME NEW s \in Threads
               PROVE  /\ Len(tx'[s]) <= sent[s]
                      /\ \A i \in DOMAIN tx'[s] :
                            /\ tx'[s][i].from = s
                            /\ tx'[s][i].no = sent[s] - Len(tx'[s]) + i
    BY <1>1 DEF TxNumbered
  <2>1. CASE s = c
    <3>1. Len(tx'[c]) <= sent[c]
      BY <1>1, <1>2, <1>4 DEF SenderInv, TxNumbered
    <3>2. ASSUME NEW i \in DOMAIN tx'[c]
          PROVE  tx'[c][i].from = c /\ tx'[c][i].no = sent[c] - Len(tx'[c]) + i
      <4>1. i \in Nat /\ i + 1 \in DOMAIN tx[c] /\ tx'[c][i] = tx[c][i + 1]
        BY <1>4
      <4>2. tx[c][i + 1].from = c /\ tx[c][i + 1].no = sent[c] - Len(tx[c]) + (i + 1)
        BY <1>1, <4>1 DEF SenderInv, TxNumbered
      <4>3. sent[c] - Len(tx[c]) + (i + 1) = sent[c] - Len(tx'[c]) + i
        <5>1. /\ sent[c] \in Nat /\ Len(tx[c]) \in Nat /\ i \in Nat
              /\ Len(tx'[c]) = Len(tx[c]) - 1
          BY <1>2, <1>4, <4>1
        <5> QED
          BY <5>1, SMTT(60)
      <4> QED
        BY <4>1, <4>2, <4>3
    <3> QED
      BY <2>1, <3>1, <3>2
  <2>2. CASE s # c
    <3>1. tx'[s] = tx[s]
      BY <1>3, <2>2
    <3>2. /\ Len(tx[s]) <= sent[s]
          /\ \A i \in DOMAIN tx[s] : /\ tx[s][i].from = s
                                     /\ tx[s][i].no = sent[s] - Len(tx[s]) + i
      BY DEF SenderInv, TxNumbered
    <3> QED
      BY <3>1, <3>2, Zenon
  <2> QED
    BY <2>1, <2>2
<1> HIDE DEF last
<1>13. LogNumbered'
  <2>0. /\ \A n \in DOMAIN log : log[n].msg.no <= routed(log[n].msg.from)
        /\ \A m, n \in DOMAIN log :
              m < n /\ log[m].msg.from = log[n].msg.from => log[m].msg.no < log[n].msg.no
    BY DEF SenderInv, LogNumbered
  <2>1. ASSUME NEW n \in DOMAIN log'
        PROVE  log'[n].msg.no <= routedNext(log'[n].msg.from)
    <3>1. CASE n = last
      BY <1>6, <1>7, <1>10, <1>11, <3>1
    <3>2. CASE n \in DOMAIN log
      <4>1. log[n].msg.no <= routed(log[n].msg.from) /\ log[n].msg.from \in Threads
        BY <1>9, <2>0, <3>2
      <4>2. routed(log[n].msg.from) <= routedNext(log[n].msg.from)
        BY <1>11, <4>1
      <4>3. log'[n] = log[n] /\ log[n].msg.no \in Nat
        BY <1>7, <1>9, <3>2
      <4>4. routed(log[n].msg.from) \in Int /\ routedNext(log[n].msg.from) \in Int
        BY <1>11, <4>1
      <4> HIDE DEF routed, routedNext
      <4> QED
        BY <4>1, <4>2, <4>3, <4>4
    <3> QED
      BY <1>7, <3>1, <3>2
  <2>2. ASSUME NEW m \in DOMAIN log', NEW n \in DOMAIN log', m < n,
               log'[m].msg.from = log'[n].msg.from
        PROVE  log'[m].msg.no < log'[n].msg.no
    <3>1. m \in DOMAIN log
      BY <1>7, <1>8, <2>2 DEF last
    <3>2. CASE n = last
      <4>1. log'[m] = log[m] /\ log'[n].msg = msg
        BY <1>6, <1>7, <3>1, <3>2
      <4>2. log[m].msg.from = c /\ log[m].msg.no <= routed(c)
        BY <1>10, <2>0, <2>2, <3>1, <4>1
      <4>3. log[m].msg.no \in Nat /\ routed(c) \in Int
        BY <1>9, <1>11, <3>1
      <4> HIDE DEF routed
      <4> QED
        BY <1>10, <4>1, <4>2, <4>3
    <3>3. CASE n \in DOMAIN log
      BY <1>7, <2>0, <2>2, <3>1, <3>3
    <3> QED
      BY <1>7, <3>2, <3>3
  <2> QED
    BY <2>1, <2>2 DEF LogNumbered
<1>14. LogComplete'
  <2> SUFFICES ASSUME NEW s \in Threads, NEW k \in 1..(sent'[s] - Len(tx'[s]))
               PROVE  \E n \in DOMAIN log' : log'[n].msg.from = s /\ log'[n].msg.no = k
    BY DEF LogComplete
  <2>1. CASE k \in 1..routed(s)
    BY <1>7, <2>1 DEF SenderInv, LogComplete
  <2>2. CASE k \notin 1..routed(s)
    <3>1. s = c /\ k = routed(c) + 1
      BY <1>11, <2>2
    <3> QED
      BY <1>6, <1>7, <1>10, <3>1
  <2> QED
    BY <2>1, <2>2
<1> QED
  BY <1>12, <1>13, <1>14 DEF SenderInv

-----------------------------------------------------------------------------
(* The inductive invariant holds *)

\* Every action preserves the inductive invariant.
LEMMA NextInv == IInv /\ [Next]_vars => IInv'
<1> SUFFICES ASSUME IInv, [Next]_vars PROVE IInv'
  OBVIOUS
<1>0. TypeOK /\ TypeOK' /\ DeliveryInv /\ SenderInv
  BY NextType DEF IInv
<1>1. ASSUME UNCHANGED <<subscribers, todo, log, handled, rx>> PROVE DeliveryInv'
  BY <1>0, <1>1
  DEF DeliveryInv, SubscribersDistinct, InHand, Addressed, Ordered, Complete
<1>2. ASSUME UNCHANGED <<tx, log, sent>> PROVE SenderInv'
  BY <1>0, <1>2 DEF SenderInv, TxNumbered, LogNumbered, LogComplete
<1>3. ASSUME NEW id \in Ids, Subscribe(id) PROVE IInv'
  BY <1>0, <1>2, <1>3, SubscribeDelivery DEF IInv, Subscribe, history
<1>4. ASSUME NEW t \in Threads, TimerCallback(t) PROVE IInv'
  BY <1>0, <1>2, <1>4, TimerDelivery DEF IInv, TimerCallback, history
<1>5. ASSUME NEW t \in Threads, NEW id \in Ids, SendMessage(t, id) PROVE IInv'
  BY <1>0, <1>1, <1>5, SendSending DEF IInv, SendMessage, router
<1>6. ASSUME NEW t \in Threads, WakeHandler(t) PROVE IInv'
  BY <1>0, <1>1, <1>2, <1>6 DEF IInv, WakeHandler, router, history
<1>7. ASSUME NEW t \in Threads, HandleNewMessage(t) PROVE IInv'
  BY <1>0, <1>2, <1>7, HandleDelivery DEF IInv, HandleNewMessage
<1>8. ASSUME NEW t \in Threads, QueueDrained(t) PROVE IInv'
  BY <1>0, <1>1, <1>2, <1>8 DEF IInv, QueueDrained, router, history
<1>9. CASE ReceiveMessage
  BY <1>0, <1>9, ReceiveDelivery, ReceiveSending DEF IInv
<1>10. CASE PushMessageToRuntimeHandler
  <2>1. UNCHANGED <<tx, log, sent>>
    BY <1>10 DEF PushMessageToRuntimeHandler, history
  <2> QED
    BY <1>0, <1>2, <1>10, <2>1, PushDelivery DEF IInv
<1>11. CASE NextThread
  BY <1>0, <1>1, <1>2, <1>11 DEF IInv, NextThread, history
<1>12. CASE UNCHANGED vars
  BY <1>0, <1>1, <1>2, <1>12 DEF IInv, vars
<1> QED
  BY <1>3, <1>4, <1>5, <1>6, <1>7, <1>8, <1>9, <1>10, <1>11, <1>12
  DEF Next, Environment, HandlerThread, MainThread

(* Delivery and sending keep the invariant IInv, for any number of         *)
(* runtimes, subscriptions and messages.                                   *)
THEOREM Invariance == Spec => []IInv
<1>1. Init => IInv
  BY InitType, InitInv DEF IInv
<1> QED
  BY <1>1, NextInv, PTL DEF Spec

\* The history of a runtime is a sequence of positions of the log.
LEMMA HandledType ==
  ASSUME TypeOK, NEW t \in Threads, NEW i \in DOMAIN handled[t]
  PROVE  handled[t][i] \in Nat /\ i \in Nat
<1>1. handled[t] \in Seq(Nat)
  BY DEF TypeOK
<1> QED
  BY <1>1, ElementOfSeq, LenProperties

\* Increasing positions of one log: runtimes agree, and handle nothing twice.
LEMMA OrderFromInv == IInv => AgreedOrder
<1> SUFFICES ASSUME IInv PROVE AgreedOrder
  OBVIOUS
<1>1. \A t \in Threads : \A i, j \in DOMAIN handled[t] :
         i < j => handled[t][i] < handled[t][j]
  BY DEF IInv, DeliveryInv, Ordered
<1>2. \A t \in Threads : \A i \in DOMAIN handled[t] : handled[t][i] \in Nat /\ i \in Nat
  BY HandledType DEF IInv
<1> QED
  BY <1>1, <1>2 DEF AgreedOrder

\* The log numbers the messages of a sender, a runtime's history increases.
LEMMA SenderOrderFromInv == IInv => SenderOrder
<1> SUFFICES ASSUME IInv, NEW t \in Threads,
                    NEW i \in DOMAIN handled[t], NEW j \in DOMAIN handled[t],
                    i < j, log[handled[t][i]].msg.from = log[handled[t][j]].msg.from
             PROVE  log[handled[t][i]].msg.no < log[handled[t][j]].msg.no
  BY DEF SenderOrder
<1>1. handled[t][i] < handled[t][j]
  BY DEF IInv, DeliveryInv, Ordered
<1>2. handled[t][i] \in DOMAIN log /\ handled[t][j] \in DOMAIN log
  BY DEF IInv, DeliveryInv, Addressed
<1> QED
  BY <1>1, <1>2 DEF IInv, SenderInv, LogNumbered

\* What is queued or handled is all that was addressed, in order.
LEMMA NothingSkippedFromInv == IInv => NothingSkipped
<1> SUFFICES ASSUME IInv, NEW t \in Threads, NEW i \in DOMAIN handled[t],
                    NEW n \in 1..handled[t][i], t \in log[n].to
             PROVE  n \in Range(handled[t])
  BY DEF NothingSkipped
<1>1. /\ handled[t][i] \in Nat /\ handled[t][i] \in DOMAIN log
      /\ DOMAIN log = 1..Len(log) /\ Len(log) \in Nat
  BY HandledType, LenProperties DEF IInv, TypeOK, DeliveryInv, Addressed
<1>2. n \in DOMAIN log /\ n <= handled[t][i] /\ n # Run
  BY <1>1 DEF Run
<1>3. CASE n = handled[t][i]
  BY <1>3 DEF Range
<1>4. CASE n < handled[t][i]
  <2>1. n # Len(log)
    <3>1. /\ handled[t][i] <= Len(log) /\ handled[t][i] \in Nat
          /\ Len(log) \in Nat /\ n \in Nat
      BY <1>1
    <3> QED
      BY <1>4, <3>1
  <2>2. n \notin Range(rx[t])
    <3>1. ASSUME NEW j \in DOMAIN rx[t], rx[t][j] = n PROVE FALSE
      <4>1. handled[t][i] < n
        BY <1>2, <3>1 DEF IInv, DeliveryInv, Ordered
      <4> QED
        BY <1>1, <1>4, <4>1
    <3> QED
      BY <3>1 DEF Range
  <2> QED
    BY <1>2, <2>1, <2>2 DEF IInv, DeliveryInv, Complete
<1> QED
  BY <1>1, <1>2, <1>3, <1>4

\* The numbers of a sender's messages are shared by its queue and the log.
LEMMA NothingLostFromInv == IInv => NothingLost
<1> SUFFICES ASSUME IInv, NEW t \in Threads, NEW k \in 1..sent[t]
             PROVE  \/ \E i \in DOMAIN tx[t] : tx[t][i].no = k
                    \/ \E n \in DOMAIN log : log[n].msg.from = t /\ log[n].msg.no = k
  BY DEF NothingLost
<1>1. tx[t] \in Seq(Message) /\ sent[t] \in Nat
  BY BoundsAssumption DEF IInv, TypeOK
<1>2. Len(tx[t]) \in Nat /\ DOMAIN tx[t] = 1..Len(tx[t])
  BY <1>1, LenProperties
<1>3. CASE k <= sent[t] - Len(tx[t])
  <2>1. k \in 1..(sent[t] - Len(tx[t]))
    BY <1>1, <1>2, <1>3
  <2> QED
    BY <2>1 DEF IInv, SenderInv, LogComplete
<1>4. CASE k > sent[t] - Len(tx[t])
  <2> DEFINE i == k - (sent[t] - Len(tx[t]))
  <2>1. i \in DOMAIN tx[t]
    BY <1>1, <1>2, <1>4
  <2>2. tx[t][i].no = sent[t] - Len(tx[t]) + i
    BY <2>1 DEF IInv, SenderInv, TxNumbered
  <2>3. tx[t][i].no = k
    BY <1>1, <1>2, <2>2
  <2> QED
    BY <2>1, <2>3
<1> QED
  BY <1>1, <1>2, <1>3, <1>4

(* Any two managers agree on the order of the messages both handle, and no *)
(* manager handles a message twice.                                        *)
THEOREM OrderCorrect == Spec => []AgreedOrder
  BY Invariance, OrderFromInv, PTL

(* A manager handles the messages of each sender in the order they were    *)
(* sent.                                                                   *)
THEOREM SenderOrderCorrect == Spec => []SenderOrder
  BY Invariance, SenderOrderFromInv, PTL

(* A manager never handles a message before an earlier one routed to it.   *)
THEOREM NothingSkippedCorrect == Spec => []NothingSkipped
  BY Invariance, NothingSkippedFromInv, PTL

(* A message that was sent waits to be routed or was routed.               *)
THEOREM NothingLostCorrect == Spec => []NothingLost
  BY Invariance, NothingLostFromInv, PTL

-----------------------------------------------------------------------------
(* Refinement *)

\* Handling a message extends the abstract history by the log's next one.
LEMMA HandleRefines ==
  ASSUME IInv, NEW t \in Threads, HandleNewMessage(t)
  PROVE  [Multicast!Next]_Multicast!vars
<1> DEFINE n == Head(rx[t])
<1>1. /\ UNCHANGED <<tx, log>> /\ rx[t] # <<>>
      /\ handled' = IF n = Run THEN handled
                    ELSE [handled EXCEPT ![t] = Append(@, n)]
  BY DEF HandleNewMessage
<1>2. CASE n = Run
  BY <1>1, <1>2 DEF Multicast!vars
<1>3. CASE n # Run
  <2>1. rx[t] \in Seq(Nat)
    BY DEF IInv, TypeOK
  <2>2. 1 \in DOMAIN rx[t] /\ n = rx[t][1] /\ n \in Nat /\ DOMAIN rx[t] \subseteq Nat \ {0}
    BY <1>1, <2>1, TailOf, LenProperties
  <2> HIDE DEF n
  <2>3. n \in DOMAIN log /\ t \in log[n].to
    BY <1>3, <2>2 DEF IInv, DeliveryInv, Addressed
  <2>4. DOMAIN log = 1..Len(log) /\ Len(log) \in Nat
    BY LenProperties DEF IInv, TypeOK
  <2>5. n \notin Range(handled[t])
    <3>1. \A i \in DOMAIN handled[t] : handled[t][i] < n /\ handled[t][i] \in Nat
      BY <1>3, <2>2, HandledType DEF IInv, DeliveryInv, Ordered
    <3> QED
      BY <2>2, <3>1 DEF Range
  <2>6. ASSUME NEW k \in 1..(n - 1), t \in log[k].to
        PROVE  k \in Range(handled[t])
    <3>1. k \in DOMAIN log /\ k < n /\ k # Len(log) /\ k # Run
      <4>1. n \in Nat /\ n <= Len(log) /\ Len(log) \in Nat
        BY <2>2, <2>3, <2>4
      <4>2. k \in Nat /\ 1 <= k /\ k < n
        BY <4>1
      <4>3. k \in 1..Len(log) /\ k # Len(log) /\ k # 0
        BY <4>1, <4>2
      <4> QED
        BY <2>4, <4>2, <4>3 DEF Run
    <3>2. k \notin Range(rx[t])
      <4>1. ASSUME NEW j \in DOMAIN rx[t], rx[t][j] = k PROVE FALSE
        <5>1. j # 1
          BY <2>2, <3>1, <4>1
        <5>2. 1 < j
          BY <2>2, <5>1
        <5>3. n < k
          BY <1>3, <2>2, <3>1, <4>1, <5>2 DEF IInv, DeliveryInv, Ordered
        <5> QED
          BY <2>2, <3>1, <5>3
      <4> QED
        BY <4>1 DEF Range
    <3> QED
      BY <2>6, <3>1, <3>2 DEF IInv, DeliveryInv, Complete
  <2>7. Multicast!IsNextFor(t, n)
    BY <2>3, <2>5, <2>6 DEF Multicast!IsNextFor, Multicast!Range, Range
  <2>8. Multicast!Handle(t)
    BY <1>1, <1>3, <2>3, <2>7 DEF Multicast!Handle
  <2> QED
    BY <2>8 DEF Multicast!Next
<1> QED
  BY <1>2, <1>3

(* Queues, mutexes, timer and the routing loop implement the multicast in  *)
(* one shared order.                                                       *)
THEOREM Refinement == Spec => MulticastSpec
<1>1. Init => Multicast!Init
  BY DEF Init, Multicast!Init
<1>2. IInv /\ [Next]_vars => [Multicast!Next]_Multicast!vars
  <2> SUFFICES ASSUME IInv, [Next]_vars PROVE [Multicast!Next]_Multicast!vars
    OBVIOUS
  <2>0. ASSUME UNCHANGED <<tx, log, handled>> PROVE [Multicast!Next]_Multicast!vars
    BY <2>0 DEF Multicast!vars
  <2>1. ASSUME NEW id \in Ids, Subscribe(id) PROVE UNCHANGED <<tx, log, handled>>
    BY <2>1 DEF Subscribe, history
  <2>2. ASSUME NEW t \in Threads, TimerCallback(t) PROVE UNCHANGED <<tx, log, handled>>
    BY <2>2 DEF TimerCallback, history
  <2>3. ASSUME NEW t \in Threads, NEW id \in Ids, SendMessage(t, id)
        PROVE  [Multicast!Next]_Multicast!vars
    <3> DEFINE msg == [id |-> id, from |-> t, no |-> sent[t] + 1]
    <3>1. sent[t] + 1 \in 1..MaxSent
      BY <2>3, BoundsAssumption DEF SendMessage, IInv, TypeOK
    <3>2. msg \in Message
      BY <3>1 DEF Message
    <3>3. tx' = [tx EXCEPT ![t] = Append(@, msg)] /\ UNCHANGED <<log, handled>>
      BY <2>3 DEF SendMessage
    <3> HIDE DEF msg
    <3>4. Multicast!Send(t, msg)
      BY <3>3 DEF Multicast!Send
    <3> QED
      BY <3>2, <3>4 DEF Multicast!Next
  <2>4. ASSUME NEW t \in Threads, WakeHandler(t) PROVE UNCHANGED <<tx, log, handled>>
    BY <2>4 DEF WakeHandler, history
  <2>5. ASSUME NEW t \in Threads, HandleNewMessage(t)
        PROVE  [Multicast!Next]_Multicast!vars
    BY <2>5, HandleRefines
  <2>6. ASSUME NEW t \in Threads, QueueDrained(t) PROVE UNCHANGED <<tx, log, handled>>
    BY <2>6 DEF QueueDrained, history
  <2>7. CASE ReceiveMessage
    <3> DEFINE msg == Head(tx[cursor])
               to == {subscribers[i].runtime : i \in FindSubscribers(msg.id)}
    <3>1. to \in SUBSET Threads
      BY SubscriberType DEF FindSubscribers, IInv
    <3>2. /\ tx[cursor] # <<>> /\ cursor \in Threads
          /\ tx' = [tx EXCEPT ![cursor] = Tail(@)]
          /\ log' = Append(log, [msg |-> msg, to |-> to])
          /\ UNCHANGED handled
      BY <2>7 DEF ReceiveMessage, IInv, TypeOK
    <3> HIDE DEF to
    <3>3. Multicast!Place(cursor)
      BY <3>1, <3>2 DEF Multicast!Place
    <3> QED
      BY <3>2, <3>3 DEF Multicast!Next
  <2>8. CASE PushMessageToRuntimeHandler
    BY <2>0, <2>8 DEF PushMessageToRuntimeHandler, history
  <2>9. CASE NextThread
    BY <2>0, <2>9 DEF NextThread, history
  <2>10. CASE UNCHANGED vars
    BY <2>0, <2>10 DEF vars
  <2> QED
    BY <2>0, <2>1, <2>2, <2>3, <2>4, <2>5, <2>6, <2>7, <2>8, <2>9, <2>10
    DEF Next, Environment, HandlerThread, MainThread
<1> QED
  BY <1>1, <1>2, Invariance, PTL DEF Spec, MulticastSpec, Multicast!Spec
=============================================================================
