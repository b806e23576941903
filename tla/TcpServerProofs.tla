-------------------------- MODULE TcpServerProofs --------------------------
(***************************************************************************)
(* What holds of the listening side of the TCP interface for any number of *)
(* handles and clients: handles are reused in the map, in the callbacks    *)
(* bound to them and in the queue of disconnects, and the three agree.     *)
(***************************************************************************)
EXTENDS TcpServer, WellFoundedInduction, TLAPS

(* A client is new when it is accepted: nobody in the map, and nobody who  *)
(* is read from, waits in the backlog, and nobody waits there twice.       *)
BacklogIsNew ==
    /\ \A c \in Clients : peer[c] = "away" =>
           /\ c \notin reading
           /\ \A h \in Handles : connections[h] # c
           /\ \A i \in DOMAIN backlog : backlog[i] # c
    /\ \A i \in DOMAIN backlog :
           /\ backlog[i] \notin reading
           /\ \A h \in Handles : connections[h] # backlog[i]
    /\ \A i, j \in DOMAIN backlog : backlog[i] = backlog[j] => i = j

IInv == TypeOK /\ ReaderInMap /\ QueuedIsDead /\ RoomForNext /\ BacklogIsNew

-----------------------------------------------------------------------------
(* Sequences, handles *)

LEMMA AppendOf ==
    ASSUME NEW S, NEW s \in Seq(S), NEW x \in S
    PROVE  /\ Append(s, x) \in Seq(S)
           /\ DOMAIN s = 1..Len(s) /\ Len(s) \in Nat
           /\ DOMAIN Append(s, x) = 1..(Len(s) + 1)
           /\ \A i \in DOMAIN s : Append(s, x)[i] = s[i]
           /\ Append(s, x)[Len(s) + 1] = x
OBVIOUS

LEMMA TailOf ==
    ASSUME NEW S, NEW s \in Seq(S), s # <<>>
    PROVE  /\ Tail(s) \in Seq(S)
           /\ DOMAIN s = 1..Len(s) /\ Len(s) \in Nat
           /\ DOMAIN Tail(s) = 1..(Len(s) - 1)
           /\ \A i \in DOMAIN Tail(s) :
                  i \in Nat \ {0} /\ i + 1 \in DOMAIN s /\ Tail(s)[i] = s[i + 1]
           /\ Head(s) = s[1] /\ 1 \in DOMAIN s /\ s[1] \in S
OBVIOUS

(* Without repetitions, the tail has none either and misses the head.      *)
LEMMA TailDistinct ==
    ASSUME NEW S, NEW s \in Seq(S), s # <<>>,
           \A i, j \in DOMAIN s : s[i] = s[j] => i = j
    PROVE  /\ \A i, j \in DOMAIN Tail(s) : Tail(s)[i] = Tail(s)[j] => i = j
           /\ \A i \in DOMAIN Tail(s) : Tail(s)[i] # Head(s)
<1>1. ASSUME NEW i \in DOMAIN Tail(s), NEW j \in DOMAIN Tail(s),
             Tail(s)[i] = Tail(s)[j]
      PROVE  i = j
  <2>1. s[i + 1] = s[j + 1] /\ i + 1 \in DOMAIN s /\ j + 1 \in DOMAIN s
    BY <1>1, TailOf
  <2>2. i + 1 = j + 1 /\ i \in Nat /\ j \in Nat
    BY <2>1, TailOf
  <2> QED
    BY <2>2
<1>2. ASSUME NEW i \in DOMAIN Tail(s) PROVE Tail(s)[i] # Head(s)
  <2>1. s[i + 1] = Tail(s)[i] /\ i + 1 \in DOMAIN s /\ 1 \in DOMAIN s /\ i + 1 # 1
    BY TailOf
  <2> QED
    BY <2>1, TailOf
<1> QED
  BY <1>1, <1>2

LEMMA SmallestExists ==
    ASSUME NEW s \in SUBSET Nat, s # {}
    PROVE  \E h \in s : \A g \in s : h <= g
<1>1. PICK h \in s : \A g \in s : <<g, h>> \notin OpToRel(<, Nat)
  BY NatLessThanWellFounded, WFMin
<1>2. \A g \in s : ~(g < h)
  BY <1>1 DEF OpToRel
<1> QED
  BY <1>2

LEMMA FirstType ==
    ASSUME NEW s \in SUBSET Handles
    PROVE  FirstOf(s) \in Handles \cup {0}
<1>1. s # {} => \E h \in s : \A g \in s : h <= g
  BY SmallestExists DEF Handles
<1> QED
  BY <1>1 DEF FirstOf

LEMMA SuccType ==
    ASSUME NEW h \in Handles
    PROVE  Succ(h) \in Handles
BY HandleAssumption DEF Succ, Handles

-----------------------------------------------------------------------------
(* Types *)

LEMMA TypeInit == Init => TypeOK
<1> SUFFICES ASSUME Init PROVE TypeOK
  OBVIOUS
<1>1. 1 \in Handles /\ 0 \in 0..MaxRelays
  BY HandleAssumption, BoundAssumption DEF Handles
<1>2. /\ connections \in [Handles -> Clients \cup {NoClient}]
      /\ callback \in [Clients -> Handles]
      /\ peer \in [Clients -> {"away", "open", "closed", "vanished"}]
  BY <1>1 DEF Init
<1>3. disconnected \in Seq(Handles) /\ backlog \in Seq(Clients)
  BY DEF Init
<1>4. /\ relay \in Handles \cup {0} /\ relays \in 0..MaxRelays
      /\ handle \in Handles
  BY <1>1 DEF Init
<1>5. /\ mHandler = "created" /\ acceptor = "unspawned" /\ reading = {} /\ missed = {}
      /\ stopFlag = FALSE /\ torn = FALSE
  BY DEF Init
<1> QED
  BY <1>2, <1>3, <1>4, <1>5 DEF TypeOK

LEMMA TypeStep == TypeOK /\ [Next]_vars => TypeOK'
<1> SUFFICES ASSUME TypeOK, [Next]_vars PROVE TypeOK'
  OBVIOUS
<1> USE DEF TypeOK
<1>1. ASSUME NEW c \in Clients, Connect(c) PROVE TypeOK'
  <2>1. backlog' \in Seq(Clients)
    BY <1>1, AppendOf DEF Connect
  <2> QED
    BY <1>1, <2>1 DEF Connect, server, relaying
<1>2. ASSUME NEW c \in Clients, Leave(c) PROVE TypeOK'
  BY <1>2 DEF Leave, server, relaying
<1>3. ASSUME NEW c \in Clients, Disconnect(c) PROVE TypeOK'
  <2>1. disconnected' \in Seq(Handles)
    BY <1>3, AppendOf DEF Disconnect
  <2> QED
    BY <1>3, <2>1 DEF Disconnect, relaying
<1>4. ASSUME NEW c \in Clients, ReadFails(c) PROVE TypeOK'
  BY <1>4 DEF ReadFails, relaying
<1>5. CASE Spawn \/ Run \/ Stop \/ RunReturns \/ Begin \/ Post \/ Resume
  BY <1>5 DEF Spawn, Run, Stop, RunReturns, Begin, Post, Resume, relaying
<1>6. CASE Cleanup
  <2>1. disconnected' \in Seq(Handles)
    BY <1>6, TailOf DEF Cleanup
  <2>2. connections' \in [Handles -> Clients \cup {NoClient}] /\ torn' \in BOOLEAN
    BY <1>6 DEF Cleanup
  <2> QED
    BY <1>6, <2>1, <2>2 DEF Cleanup, relaying
<1>7. CASE Listen
  BY <1>7 DEF Listen, relaying
<1>8. CASE Accepted
  <2>1. backlog' \in Seq(Clients) /\ Head(backlog) \in Clients
    BY <1>8, TailOf DEF Accepted
  <2>2. handle' \in Handles
    BY <1>8, SuccType DEF Accepted
  <2>3. /\ connections' \in [Handles -> Clients \cup {NoClient}]
        /\ callback' \in [Clients -> Handles]
        /\ reading' \in SUBSET Clients
        /\ torn' \in BOOLEAN
    BY <1>8, <2>1 DEF Accepted
  <2> QED
    BY <1>8, <2>1, <2>2, <2>3 DEF Accepted, relaying
<1>9. CASE StartRelay
  <2>1. Used \subseteq Handles
    BY DEF Used
  <2>2. relay' \in Handles \cup {0}
    BY <1>9, <2>1, FirstType DEF StartRelay
  <2>3. relays' \in 0..MaxRelays
    BY <1>9, BoundAssumption DEF StartRelay
  <2>4. missed' \in SUBSET Clients
    BY <1>9 DEF StartRelay, Used
  <2> QED
    BY <1>9, <2>2, <2>3, <2>4 DEF StartRelay, server
<1>10. CASE RelayStep
  <2>1. After(relay) \subseteq Handles
    BY DEF After, Used
  <2>2. relay' \in Handles \cup {0}
    BY <1>10, <2>1, FirstType DEF RelayStep
  <2>3. missed' \in SUBSET Clients
    BY <1>10 DEF RelayStep
  <2> QED
    BY <1>10, <2>2, <2>3 DEF RelayStep, server
<1>11. CASE UNCHANGED vars
  BY <1>11 DEF vars, server, relaying
<1> QED
  BY <1>1, <1>2, <1>3, <1>4, <1>5, <1>6, <1>7, <1>8, <1>9, <1>10, <1>11
     DEF Next, Accept

-----------------------------------------------------------------------------
(* The steps that touch none of map, callbacks, queue and backlog *)

Quiet ==
    /\ UNCHANGED <<connections, callback, disconnected, backlog, peer>>
    /\ reading' \subseteq reading
    /\ acceptor' = "accepting" => UNCHANGED <<acceptor, handle>>

LEMMA QuietSteps ==
    [Next]_vars =>
        \/ Quiet \/ Cleanup \/ Listen \/ Accepted
        \/ \E c \in Clients : Connect(c) \/ Leave(c) \/ Disconnect(c)
<1> SUFFICES ASSUME [Next]_vars
             PROVE  \/ Quiet \/ Cleanup \/ Listen \/ Accepted
                    \/ \E c \in Clients : Connect(c) \/ Leave(c) \/ Disconnect(c)
  OBVIOUS
<1>1. ASSUME NEW c \in Clients, ReadFails(c) PROVE Quiet
  BY <1>1 DEF ReadFails, Quiet
<1>2. CASE Spawn \/ Run \/ Stop \/ RunReturns \/ Begin \/ Post \/ Resume
  BY <1>2 DEF Spawn, Run, Stop, RunReturns, Begin, Post, Resume, Quiet
<1>3. CASE StartRelay \/ RelayStep \/ UNCHANGED vars
  BY <1>3 DEF StartRelay, RelayStep, vars, server, Quiet
<1> QED
  BY <1>1, <1>2, <1>3 DEF Next, Accept

(* A client that closes or vanishes changes only that.                     *)
LEMMA LeaveChanges ==
    ASSUME TypeOK, NEW c \in Clients, Leave(c)
    PROVE  /\ UNCHANGED <<connections, callback, disconnected, backlog, reading,
                          acceptor, handle>>
           /\ \A d \in Clients : peer[d] = "closed" => peer'[d] = "closed"
           /\ \A d \in Clients : peer'[d] = "away" => peer[d] = "away"
BY DEF TypeOK, Leave, server

LEMMA ConnectChanges ==
    ASSUME TypeOK, NEW c \in Clients, Connect(c)
    PROVE  /\ UNCHANGED <<connections, callback, disconnected, reading, acceptor,
                          handle>>
           /\ \A d \in Clients : peer[d] = "closed" => peer'[d] = "closed"
           /\ \A d \in Clients : peer'[d] = "away" => peer[d] = "away" /\ d # c
           /\ peer[c] = "away" /\ backlog' = Append(backlog, c)
BY DEF TypeOK, Connect, server

-----------------------------------------------------------------------------
LEMMA ReaderStep == IInv /\ [Next]_vars => ReaderInMap'
<1> SUFFICES ASSUME IInv, [Next]_vars, NEW c \in Clients, c \in reading'
             PROVE  connections'[callback'[c]] = c
  BY TypeStep DEF ReaderInMap, IInv, TypeOK
<1>t. TypeOK /\ ReaderInMap /\ QueuedIsDead /\ RoomForNext /\ NoClient # c
  BY ClientAssumption DEF IInv
<1>1. CASE Cleanup
  <2>1. c \in reading /\ callback' = callback /\ disconnected # <<>>
    BY <1>1 DEF Cleanup
  <2>2. connections[callback[c]] = c
    BY <1>t, <2>1 DEF ReaderInMap
  <2>3. Head(disconnected) = disconnected[1] /\ 1 \in DOMAIN disconnected
    BY <1>t, <2>1, TailOf DEF TypeOK
  <2>4. callback[c] # Head(disconnected)
    BY <1>t, <2>1, <2>2, <2>3 DEF QueuedIsDead
  <2>5. callback[c] \in Handles
    BY <1>t DEF TypeOK
  <2> QED
    BY <1>1, <1>t, <2>1, <2>2, <2>4, <2>5 DEF Cleanup, TypeOK
<1>2. CASE Accepted
  <2>1. /\ connections[handle] = NoClient /\ handle \in Handles
        /\ connections' = [connections EXCEPT ![handle] = Head(backlog)]
        /\ callback' = [callback EXCEPT ![Head(backlog)] = handle]
        /\ reading' = reading \cup {Head(backlog)}
    BY <1>2, <1>t DEF Accepted, RoomForNext, TypeOK
  <2>2. CASE c = Head(backlog)
    <3>1. callback'[c] = handle
      BY <1>t, <2>1, <2>2 DEF TypeOK
    <3>2. connections'[handle] = c
      BY <1>t, <2>1, <2>2 DEF TypeOK
    <3> QED
      BY <3>1, <3>2
  <2>3. CASE c # Head(backlog)
    <3>1. connections[callback[c]] = c
      BY <1>t, <2>1, <2>3 DEF ReaderInMap
    <3>2. callback'[c] = callback[c] /\ callback[c] \in Handles
      BY <1>t, <2>1, <2>3 DEF TypeOK
    <3>3. callback[c] # handle
      BY <1>t, <2>1, <3>1
    <3> QED
      BY <1>t, <2>1, <3>1, <3>2, <3>3 DEF TypeOK
  <2> QED
    BY <2>2, <2>3
<1>3. CASE \/ Quiet \/ Listen
           \/ \E d \in Clients : Connect(d) \/ Leave(d) \/ Disconnect(d)
  <2>1. UNCHANGED <<connections, callback>> /\ c \in reading
    BY <1>3 DEF Quiet, Listen, Connect, Leave, Disconnect, server
  <2> QED
    BY <1>t, <2>1 DEF ReaderInMap
<1> QED
  BY <1>1, <1>2, <1>3, QuietSteps

(* The owner of a queued handle, in the state before the step.             *)
LEMMA QueuedStep == IInv /\ [Next]_vars => QueuedIsDead'
<1> SUFFICES ASSUME IInv, [Next]_vars PROVE QueuedIsDead'
  OBVIOUS
<1>t. TypeOK /\ ReaderInMap /\ QueuedIsDead /\ RoomForNext /\ BacklogIsNew
  BY DEF IInv
<1>q. disconnected \in Seq(Handles) /\ backlog \in Seq(Clients)
  BY <1>t DEF TypeOK
<1>1. CASE Cleanup
  <2>1. /\ disconnected # <<>> /\ disconnected' = Tail(disconnected)
        /\ connections' = [connections EXCEPT ![Head(disconnected)] = NoClient]
        /\ reading' = reading /\ peer' = peer
    BY <1>1 DEF Cleanup
  <2>2. \A i, j \in DOMAIN disconnected' : disconnected'[i] = disconnected'[j] => i = j
    BY <1>q, <1>t, <2>1, TailDistinct DEF QueuedIsDead
  <2>3. ASSUME NEW i \in DOMAIN disconnected'
        PROVE  \E c \in Clients \ reading' :
                   connections'[disconnected'[i]] = c /\ peer'[c] = "closed"
    <3>1. /\ disconnected'[i] = disconnected[i + 1] /\ i + 1 \in DOMAIN disconnected
          /\ disconnected[i + 1] \in Handles
      BY <1>q, <2>1, TailOf
    <3>2. disconnected'[i] # Head(disconnected)
      BY <1>q, <1>t, <2>1, TailDistinct DEF QueuedIsDead
    <3>3. connections'[disconnected'[i]] = connections[disconnected[i + 1]]
      BY <1>t, <2>1, <3>1, <3>2 DEF TypeOK
    <3> QED
      BY <1>t, <2>1, <3>1, <3>3 DEF QueuedIsDead
  <2> QED
    BY <2>2, <2>3 DEF QueuedIsDead
<1>2. CASE Accepted
  <2>1. /\ connections[handle] = NoClient /\ handle \in Handles
        /\ connections' = [connections EXCEPT ![handle] = Head(backlog)]
        /\ reading' = reading \cup {Head(backlog)}
        /\ peer' = peer /\ disconnected' = disconnected /\ backlog # <<>>
    BY <1>2, <1>t DEF Accepted, RoomForNext, TypeOK
  <2>2. ASSUME NEW i \in DOMAIN disconnected
        PROVE  \E c \in Clients \ reading' :
                   connections'[disconnected[i]] = c /\ peer[c] = "closed"
    <3>1. disconnected[i] \in Handles
      BY <1>q
    <3>2. PICK c \in Clients \ reading :
              connections[disconnected[i]] = c /\ peer[c] = "closed"
      BY <1>t DEF QueuedIsDead
    <3>3. disconnected[i] # handle
      BY <2>1, <3>2, ClientAssumption
    <3>4. Head(backlog) = backlog[1] /\ 1 \in DOMAIN backlog
      BY <1>q, <2>1, TailOf
    <3>5. c # Head(backlog)
      BY <1>t, <3>1, <3>2, <3>4 DEF BacklogIsNew
    <3>6. connections'[disconnected[i]] = c
      BY <1>t, <2>1, <3>1, <3>2, <3>3 DEF TypeOK
    <3> QED
      BY <2>1, <3>2, <3>5, <3>6
  <2> QED
    BY <1>t, <2>1, <2>2 DEF QueuedIsDead
<1>3. ASSUME NEW d \in Clients, Disconnect(d) PROVE QueuedIsDead'
  <2>1. /\ d \in reading /\ peer[d] = "closed" /\ reading' = reading \ {d}
        /\ disconnected' = Append(disconnected, callback[d])
        /\ connections' = connections /\ peer' = peer /\ callback[d] \in Handles
    BY <1>3, <1>t DEF Disconnect, TypeOK
  <2>2. connections[callback[d]] = d
    BY <1>t, <2>1 DEF ReaderInMap
  <2>3. /\ DOMAIN disconnected = 1..Len(disconnected) /\ Len(disconnected) \in Nat
        /\ DOMAIN disconnected' = 1..(Len(disconnected) + 1)
        /\ \A i \in DOMAIN disconnected : disconnected'[i] = disconnected[i]
        /\ disconnected'[Len(disconnected) + 1] = callback[d]
    BY <1>q, <2>1, AppendOf
  <2>4. \A i \in DOMAIN disconnected : disconnected[i] # callback[d]
    BY <1>t, <2>1, <2>2 DEF QueuedIsDead
  <2>5. ASSUME NEW i \in DOMAIN disconnected', NEW j \in DOMAIN disconnected',
               disconnected'[i] = disconnected'[j]
        PROVE  i = j
    <3>1. CASE i \in DOMAIN disconnected /\ j \in DOMAIN disconnected
      BY <1>t, <2>3, <2>5, <3>1 DEF QueuedIsDead
    <3>2. CASE i \notin DOMAIN disconnected \/ j \notin DOMAIN disconnected
      BY <2>3, <2>4, <2>5, <3>2
    <3> QED
      BY <3>1, <3>2
  <2>6. ASSUME NEW i \in DOMAIN disconnected'
        PROVE  \E c \in Clients \ reading' :
                   connections'[disconnected'[i]] = c /\ peer'[c] = "closed"
    <3>1. CASE i \in DOMAIN disconnected
      BY <1>t, <2>1, <2>3, <3>1 DEF QueuedIsDead
    <3>2. CASE i = Len(disconnected) + 1
      BY <2>1, <2>2, <2>3, <3>2
    <3> QED
      BY <2>3, <3>1, <3>2
  <2> QED
    BY <2>5, <2>6 DEF QueuedIsDead
<1>4. ASSUME NEW d \in Clients, Connect(d) \/ Leave(d) PROVE QueuedIsDead'
  <2>1. /\ UNCHANGED <<connections, disconnected, reading>>
        /\ \A c \in Clients : peer[c] = "closed" => peer'[c] = "closed"
    BY <1>4, <1>t, LeaveChanges, ConnectChanges
  <2> QED
    BY <1>t, <2>1 DEF QueuedIsDead
<1>5. CASE Quiet \/ Listen
  <2>1. UNCHANGED <<connections, disconnected, peer>> /\ reading' \subseteq reading
    BY <1>5 DEF Quiet, Listen
  <2> QED
    BY <1>t, <2>1 DEF QueuedIsDead
<1> QED
  BY <1>1, <1>2, <1>3, <1>4, <1>5, QuietSteps

LEMMA RoomStep == IInv /\ [Next]_vars => RoomForNext'
<1> SUFFICES ASSUME IInv, [Next]_vars, acceptor' = "accepting"
             PROVE  connections'[handle'] = NoClient
  BY DEF RoomForNext
<1>1. CASE Listen
  BY <1>1 DEF Listen, Used
<1>2. CASE Cleanup \/ Accepted
  BY <1>2 DEF Cleanup, Accepted
<1>3. CASE Quiet \/ \E c \in Clients : Connect(c) \/ Leave(c) \/ Disconnect(c)
  <2>1. UNCHANGED <<connections, handle, acceptor>>
    BY <1>3 DEF Quiet, Connect, Leave, Disconnect, server
  <2> QED
    BY <2>1 DEF IInv, RoomForNext
<1> QED
  BY <1>1, <1>2, <1>3, QuietSteps

LEMMA BacklogStep == IInv /\ [Next]_vars => BacklogIsNew'
<1> SUFFICES ASSUME IInv, [Next]_vars PROVE BacklogIsNew'
  OBVIOUS
<1>t. TypeOK /\ BacklogIsNew /\ backlog \in Seq(Clients) /\ NoClient \notin Clients
  BY ClientAssumption DEF IInv, TypeOK
<1>1. CASE Cleanup
  <2>1. UNCHANGED <<reading, backlog, peer>>
    BY <1>1 DEF Cleanup
  <2>2. \A h \in Handles : connections'[h] \in {connections[h], NoClient}
    BY <1>1, <1>t DEF Cleanup, TypeOK
  <2>3. \A c \in Clients, h \in Handles : connections[h] # c => connections'[h] # c
    BY <1>t, <2>2
  <2>4. \A i \in DOMAIN backlog : backlog[i] \in Clients
    BY <1>t
  <2> QED
    BY <1>t, <2>1, <2>3, <2>4 DEF BacklogIsNew
<1>2. CASE Accepted
  <2>1. /\ backlog # <<>> /\ backlog' = Tail(backlog)
        /\ connections' = [connections EXCEPT ![handle] = Head(backlog)]
        /\ reading' = reading \cup {Head(backlog)} /\ peer' = peer
    BY <1>2 DEF Accepted
  <2>2. /\ \A i \in DOMAIN backlog' :
               i + 1 \in DOMAIN backlog /\ backlog'[i] = backlog[i + 1]
        /\ Head(backlog) = backlog[1] /\ 1 \in DOMAIN backlog
    BY <1>t, <2>1, TailOf
  <2>3. /\ \A i, j \in DOMAIN backlog' : backlog'[i] = backlog'[j] => i = j
        /\ \A i \in DOMAIN backlog' : backlog'[i] # Head(backlog)
    BY <1>t, <2>1, TailDistinct DEF BacklogIsNew
  <2>4. \A h \in Handles : connections'[h] \in {connections[h], Head(backlog)}
    BY <1>t, <2>1 DEF TypeOK
  <2>5. ASSUME NEW c \in Clients, peer'[c] = "away"
        PROVE  /\ c \notin reading'
               /\ \A h \in Handles : connections'[h] # c
               /\ \A i \in DOMAIN backlog' : backlog'[i] # c
    <3>1. /\ c \notin reading /\ c # Head(backlog)
          /\ \A h \in Handles : connections[h] # c
          /\ \A i \in DOMAIN backlog : backlog[i] # c
      BY <1>t, <2>1, <2>2, <2>5 DEF BacklogIsNew
    <3> QED
      BY <2>1, <2>2, <2>4, <3>1
  <2>6. ASSUME NEW i \in DOMAIN backlog'
        PROVE  /\ backlog'[i] \notin reading'
               /\ \A h \in Handles : connections'[h] # backlog'[i]
    <3>1. /\ backlog'[i] \notin reading
          /\ \A h \in Handles : connections[h] # backlog'[i]
      BY <1>t, <2>2 DEF BacklogIsNew
    <3> QED
      BY <2>1, <2>3, <2>4, <3>1
  <2> QED
    BY <2>3, <2>5, <2>6 DEF BacklogIsNew
<1>3. ASSUME NEW d \in Clients, Connect(d) PROVE BacklogIsNew'
  <2>1. /\ UNCHANGED <<connections, reading>> /\ peer[d] = "away"
        /\ \A c \in Clients : peer'[c] = "away" => peer[c] = "away" /\ c # d
        /\ backlog' = Append(backlog, d)
    BY <1>3, <1>t, ConnectChanges
  <2>2. /\ DOMAIN backlog = 1..Len(backlog) /\ Len(backlog) \in Nat
        /\ DOMAIN backlog' = 1..(Len(backlog) + 1)
        /\ \A i \in DOMAIN backlog : backlog'[i] = backlog[i]
        /\ backlog'[Len(backlog) + 1] = d
    BY <1>t, <2>1, AppendOf
  <2>3. /\ d \notin reading
        /\ \A h \in Handles : connections[h] # d
        /\ \A i \in DOMAIN backlog : backlog[i] # d
    BY <1>t, <2>1 DEF BacklogIsNew
  <2>4. \A i \in DOMAIN backlog' : i \in DOMAIN backlog \/ i = Len(backlog) + 1
    BY <2>2
  <2>5. \A c \in Clients : peer'[c] = "away" =>
            /\ c \notin reading'
            /\ \A h \in Handles : connections'[h] # c
            /\ \A i \in DOMAIN backlog' : backlog'[i] # c
    BY <1>t, <2>1, <2>2, <2>4 DEF BacklogIsNew
  <2>6. \A i \in DOMAIN backlog' :
            /\ backlog'[i] \notin reading'
            /\ \A h \in Handles : connections'[h] # backlog'[i]
    BY <1>t, <2>1, <2>2, <2>3, <2>4 DEF BacklogIsNew
  <2>7. \A i, j \in DOMAIN backlog' : backlog'[i] = backlog'[j] => i = j
    BY <1>t, <2>2, <2>3, <2>4 DEF BacklogIsNew
  <2> QED
    BY <2>5, <2>6, <2>7 DEF BacklogIsNew
<1>4. ASSUME NEW d \in Clients, Leave(d) PROVE BacklogIsNew'
  <2>1. /\ UNCHANGED <<connections, reading, backlog>>
        /\ \A c \in Clients : peer'[c] = "away" => peer[c] = "away"
    BY <1>4, <1>t, LeaveChanges
  <2> QED
    BY <1>t, <2>1 DEF BacklogIsNew
<1>5. CASE Quiet \/ Listen \/ \E d \in Clients : Disconnect(d)
  <2>1. UNCHANGED <<connections, backlog, peer>> /\ reading' \subseteq reading
    BY <1>5 DEF Quiet, Listen, Disconnect
  <2> QED
    BY <1>t, <2>1 DEF BacklogIsNew
<1> QED
  BY <1>1, <1>2, <1>3, <1>4, <1>5, QuietSteps

-----------------------------------------------------------------------------
LEMMA InitInv == Init => IInv
<1> SUFFICES ASSUME Init PROVE IInv
  OBVIOUS
<1>1. ReaderInMap /\ QueuedIsDead /\ RoomForNext
  BY DEF Init, ReaderInMap, QueuedIsDead, RoomForNext
<1>2. BacklogIsNew
  BY ClientAssumption DEF Init, BacklogIsNew
<1> QED
  BY <1>1, <1>2, TypeInit DEF IInv

(* Map, callbacks, queue and backlog belong together in every state.       *)
THEOREM Invariance == Spec => []IInv
<1>1. IInv /\ [Next]_vars => IInv'
  BY TypeStep, ReaderStep, QueuedStep, RoomStep, BacklogStep DEF IInv
<1> QED
  BY <1>1, InitInv, PTL DEF Spec

(* The variables keep their types, for any number of handles and clients.  *)
THEOREM TypeCorrect == Spec => []TypeOK
<1>1. IInv => TypeOK
  BY DEF IInv
<1> QED
  BY <1>1, Invariance, PTL

(* A handle in use, bound to a callback or queued to be cleaned up means   *)
(* the same connection everywhere, and the accept loop never takes it.     *)
THEOREM HandlesAgree == Spec => []HandlesConsistent
<1>1. IInv => HandlesConsistent
  BY DEF IInv, HandlesConsistent
<1> QED
  BY <1>1, Invariance, PTL

(* Nobody who has not closed loses his place in the map.                   *)
THEOREM OpenStays == Spec => OnlyClosedErased
<1> DEFINE Erased ==
      \A h \in Handles : connections'[h] # connections[h] =>
          connections[h] = NoClient \/ peer[connections[h]] = "closed"
<1>1. IInv /\ [Next]_vars => [Erased]_vars
  <2> SUFFICES ASSUME IInv, [Next]_vars, NEW h \in Handles,
                      connections'[h] # connections[h]
               PROVE  connections[h] = NoClient \/ peer[connections[h]] = "closed"
    OBVIOUS
  <2>t. TypeOK /\ QueuedIsDead /\ RoomForNext /\ disconnected \in Seq(Handles)
    BY DEF IInv, TypeOK
  <2>1. CASE Cleanup
    <3>1. h = Head(disconnected) /\ disconnected # <<>>
      BY <2>1, <2>t DEF Cleanup, TypeOK
    <3>2. h = disconnected[1] /\ 1 \in DOMAIN disconnected
      BY <2>t, <3>1, TailOf
    <3> QED
      BY <2>t, <3>2 DEF QueuedIsDead
  <2>2. CASE Accepted
    BY <2>2, <2>t DEF Accepted, RoomForNext, TypeOK
  <2>3. CASE \/ Quiet \/ Listen
             \/ \E c \in Clients : Connect(c) \/ Leave(c) \/ Disconnect(c)
    BY <2>3 DEF Quiet, Listen, Connect, Leave, Disconnect, server
  <2> QED
    BY <2>1, <2>2, <2>3, QuietSteps
<1>2. Spec => [][Erased]_vars
  BY <1>1, Invariance, PTL DEF Spec
<1> QED
  BY <1>2 DEF OnlyClosedErased
=============================================================================
