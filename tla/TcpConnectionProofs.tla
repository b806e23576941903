------------------------ MODULE TcpConnectionProofs ------------------------
(***************************************************************************)
(* What holds of the sending half of a connection for any number of        *)
(* messages of any size: its destructor waits for every write, and nothing *)
(* that was handed to it is lost while the peer reads.                     *)
(***************************************************************************)
EXTENDS TcpConnection, FiniteSetTheorems, TLAPS

Functions == Messages \cup {WaitForWrites, StopHandler}

(* The handler is told to end once, by the last function of all; before    *)
(* the destructor only sends are handed over.                              *)
StopIsLast ==
    /\ \A i \in DOMAIN functions : functions[i] = StopHandler => i = Len(functions)
    /\ connection = "alive" =>
           /\ sendHandler # "ended"
           /\ \A i \in DOMAIN functions : functions[i] \in Messages
    /\ connection \in {"joined", "destroyed"} => sendHandler = "ended"

(* The handler keeps the future of every write at work.                    *)
RunningIsKept ==
    \A m \in Messages :
        write[m] = "running" => \E i \in DOMAIN operations : operations[i] = m

(* A message waits in the queue exactly until its write is started.        *)
WaitingIsQueued ==
    /\ \A m \in Messages :
           write[m] = "none" /\ m <= sent => \E i \in DOMAIN functions : functions[i] = m
    /\ \A i \in DOMAIN functions :
           functions[i] \in Messages =>
               write[functions[i]] = "none" /\ functions[i] <= sent
    /\ \A i, j \in DOMAIN functions : functions[i] = functions[j] => i = j
    /\ \A m \in Messages : m > sent => write[m] = "none"

(* How much of a message is on the wire.                                   *)
Progress ==
    \A m \in Messages :
        /\ Written(m) \in Nat
        /\ write[m] = "none" => Written(m) = 0
        /\ write[m] = "running" => Written(m) < Chunks
        /\ write[m] = "done" /\ peer = "reads" => Written(m) = Chunks

IInv ==
    /\ TypeOK
    /\ StopIsLast
    /\ RunningIsKept
    /\ NoWriteAfterDestruction
    /\ WaitingIsQueued
    /\ Progress

-----------------------------------------------------------------------------
(* Sequences *)

LEMMA Kinds ==
    /\ Messages \subseteq Nat
    /\ WaitForWrites \in Nat /\ StopHandler \in Nat
    /\ WaitForWrites \notin Messages /\ StopHandler \notin Messages
    /\ WaitForWrites # StopHandler
BY BoundsAssumption DEF Messages, WaitForWrites, StopHandler

LEMMA AppendOf ==
    ASSUME NEW S, NEW s \in Seq(S), NEW x \in S
    PROVE  /\ Append(s, x) \in Seq(S)
           /\ DOMAIN s = 1..Len(s) /\ Len(s) \in Nat
           /\ DOMAIN Append(s, x) = 1..(Len(s) + 1)
           /\ \A i \in DOMAIN s : Append(s, x)[i] = s[i]
           /\ Append(s, x)[Len(s) + 1] = x
OBVIOUS

LEMMA TailOf ==
    ASSUME NEW S, NEW s \in Seq(S), s # <<>>
    PROVE  /\ Tail(s) \in Seq(S)
           /\ DOMAIN s = 1..Len(s) /\ Len(s) \in Nat \ {0}
           /\ DOMAIN Tail(s) = 1..(Len(s) - 1) /\ Len(Tail(s)) = Len(s) - 1
           /\ \A i \in DOMAIN Tail(s) : Tail(s)[i] = s[i + 1] /\ i + 1 \in DOMAIN s
           /\ Head(s) = s[1] /\ 1 \in DOMAIN s
OBVIOUS

LEMMA TwoMore ==
    ASSUME NEW S, NEW s \in Seq(S), NEW x \in S, NEW y \in S
    PROVE  /\ s \o <<x, y>> \in Seq(S)
           /\ DOMAIN s = 1..Len(s) /\ Len(s) \in Nat
           /\ Len(s \o <<x, y>>) = Len(s) + 2
           /\ DOMAIN (s \o <<x, y>>) = 1..(Len(s) + 2)
           /\ \A i \in DOMAIN s : (s \o <<x, y>>)[i] = s[i]
           /\ (s \o <<x, y>>)[Len(s) + 1] = x
           /\ (s \o <<x, y>>)[Len(s) + 2] = y
OBVIOUS

(* The tail of a queue has what the queue has but for its head.            *)
LEMMA TailHas ==
    ASSUME NEW S, NEW s \in Seq(S), s # <<>>, NEW x,
           x # Head(s), \E i \in DOMAIN s : s[i] = x
    PROVE  \E i \in DOMAIN Tail(s) : Tail(s)[i] = x
<1>1. PICK i \in DOMAIN s : s[i] = x
  OBVIOUS
<1>2. i \in 2..Len(s)
  BY <1>1, TailOf
<1>3. i - 1 \in DOMAIN Tail(s) /\ (i - 1) + 1 = i
  BY <1>2, TailOf
<1> QED
  BY <1>1, <1>3, TailOf

-----------------------------------------------------------------------------
(* Pieces on the wire *)

Places(w, m) == {i \in DOMAIN w : w[i] = m}

LEMMA PlacesFinite ==
    ASSUME NEW w \in Seq(Messages), NEW m \in Messages
    PROVE  IsFiniteSet(Places(w, m)) /\ Cardinality(Places(w, m)) \in Nat
<1>1. IsFiniteSet(1..Len(w))
  BY FS_Interval
<1>2. Places(w, m) \subseteq 1..Len(w)
  BY DEF Places
<1> QED
  BY <1>1, <1>2, FS_Subset, FS_CardinalityType

(* One more piece of n.                                                    *)
LEMMA OneMorePiece ==
    ASSUME NEW w \in Seq(Messages), NEW m \in Messages, NEW n \in Messages
    PROVE  Cardinality(Places(Append(w, n), m)) =
               IF m = n THEN Cardinality(Places(w, m)) + 1
               ELSE Cardinality(Places(w, m))
<1>1. CASE m = n
  <2>1. Places(Append(w, n), m) = Places(w, m) \cup {Len(w) + 1}
    BY <1>1, AppendOf DEF Places
  <2>2. Len(w) + 1 \notin Places(w, m)
    BY AppendOf DEF Places
  <2> QED
    BY <1>1, <2>1, <2>2, PlacesFinite, FS_AddElement
<1>2. CASE m # n
  <2>1. Places(Append(w, n), m) = Places(w, m)
    BY <1>2, AppendOf DEF Places
  <2> QED
    BY <1>2, <2>1
<1> QED
  BY <1>1, <1>2

-----------------------------------------------------------------------------
LEMMA InitInv == Init => IInv
<1> SUFFICES ASSUME Init PROVE IInv
  OBVIOUS
<1> USE DEF Init
<1>1. TypeOK
  BY BoundsAssumption DEF TypeOK
<1>2. StopIsLast /\ RunningIsKept /\ NoWriteAfterDestruction
  BY DEF StopIsLast, RunningIsKept, NoWriteAfterDestruction
<1>3. WaitingIsQueued
  BY BoundsAssumption DEF WaitingIsQueued, Messages
<1>4. Progress
  <2>1. ASSUME NEW m \in Messages PROVE Written(m) = 0
    <3>1. {i \in DOMAIN wire : wire[i] = m} = {}
      OBVIOUS
    <3> QED
      BY <3>1, FS_EmptySet DEF Written
  <2> QED
    BY <2>1 DEF Progress
<1> QED
  BY <1>1, <1>2, <1>3, <1>4 DEF IInv
-----------------------------------------------------------------------------
(* The actions by what they do to the queue of the handler.                *)

Elsewhere ==
    \/ Joined \/ CloseSocket \/ PeerGone \/ Reap \/ ReapDone \/ Drain \/ DrainDone
    \/ \E m \in Messages : WriteSome(m)
    \/ UNCHANGED vars

LEMMA Steps ==
    [Next]_vars <=>
        sendMessage \/ Destroy \/ LaunchWrite \/ StartDrain \/ EndHandler \/ Elsewhere
BY DEF Next, SendHandler, Elsewhere

LEMMA ElsewhereKeeps ==
    Elsewhere => functions' = functions /\ sent' = sent
BY DEF Elsewhere, Joined, CloseSocket, PeerGone, Reap, ReapDone, Drain, DrainDone,
       PopOperation, WriteSome, vars

LEMMA TypeStep == IInv /\ [Next]_vars => TypeOK'
<1> SUFFICES ASSUME TypeOK, StopIsLast, [Next]_vars PROVE TypeOK'
  BY DEF IInv
<1> USE DEF TypeOK
<1>f. functions \in Seq(Functions)
  BY DEF Functions
<1>1. CASE sendMessage
  <2>1. sent' \in Functions /\ sent' \in 0..MaxMessages
    BY <1>1, BoundsAssumption DEF sendMessage, Functions, Messages
  <2>2. functions' \in Seq(Functions)
    BY <1>1, <1>f, <2>1, AppendOf DEF sendMessage
  <2>3. sendHandler # "ended"
    BY <1>1 DEF sendMessage, StopIsLast
  <2> QED
    BY <1>1, <2>1, <2>2, <2>3 DEF sendMessage, Functions
<1>2. CASE Destroy
  <2>1. WaitForWrites \in Functions /\ StopHandler \in Functions
    BY DEF Functions
  <2>2. functions' \in Seq(Functions)
    BY <1>2, <1>f, <2>1, TwoMore DEF Destroy
  <2>3. sendHandler # "ended"
    BY <1>2 DEF Destroy, StopIsLast
  <2> QED
    BY <1>2, <2>2, <2>3 DEF Destroy, Functions
<1>3. CASE LaunchWrite
  <2>1. PICK m \in Messages : LaunchWrite!(m)
    BY <1>3 DEF LaunchWrite
  <2>2. functions' \in Seq(Functions)
    BY <1>f, <2>1, TailOf DEF NextFunction
  <2>3. operations' \in Seq(Messages)
    BY <2>1, AppendOf
  <2>4. write' \in [Messages -> {"none", "running", "done"}]
    BY <2>1
  <2> QED
    BY <2>1, <2>2, <2>3, <2>4 DEF Functions
<1>4. CASE StartDrain
  <2>1. functions' \in Seq(Functions)
    BY <1>f, <1>4, TailOf DEF StartDrain, NextFunction
  <2> QED
    BY <1>4, <2>1 DEF StartDrain, Functions
<1>5. CASE EndHandler
  <2>1. functions' \in Seq(Functions)
    BY <1>f, <1>5, TailOf DEF EndHandler, NextFunction
  <2>2. functions' = <<>>
    <3>1. functions # <<>> /\ functions[1] = StopHandler /\ functions' = Tail(functions)
      BY <1>f, <1>5, TailOf DEF EndHandler, NextFunction
    <3>2. 1 = Len(functions)
      BY <1>f, <3>1, TailOf DEF StopIsLast
    <3> QED
      BY <1>f, <3>1, <3>2
  <2> QED
    BY <1>5, <2>1, <2>2 DEF EndHandler, Functions
<1>6. CASE Reap \/ Drain
  <2>1. operations' \in Seq(Messages)
    BY <1>6, TailOf DEF Reap, Drain, PopOperation
  <2> QED
    BY <1>6, <2>1 DEF Reap, Drain, PopOperation
<1>7. ASSUME NEW m \in Messages, WriteSome(m) PROVE TypeOK'
  <2>1. write' \in [Messages -> {"none", "running", "done"}]
    BY <1>7 DEF WriteSome
  <2>2. wire' \in Seq(Messages)
    BY <1>7, AppendOf DEF WriteSome
  <2> QED
    BY <1>7, <2>1, <2>2 DEF WriteSome
<1>8. CASE Joined \/ CloseSocket \/ PeerGone \/ ReapDone \/ DrainDone \/ UNCHANGED vars
  BY <1>8 DEF Joined, CloseSocket, PeerGone, ReapDone, DrainDone, vars
<1> QED
  BY <1>1, <1>2, <1>3, <1>4, <1>5, <1>6, <1>7, <1>8, Steps DEF Elsewhere

LEMMA StopStep == IInv /\ [Next]_vars => StopIsLast'
<1> SUFFICES ASSUME TypeOK, StopIsLast, [Next]_vars PROVE StopIsLast'
  BY DEF IInv
<1>f. functions \in Seq(Functions)
  BY DEF Functions, TypeOK
<1>1. CASE sendMessage
  <2>1. sent' \in Messages /\ sent' \in Functions
    BY <1>1, BoundsAssumption DEF sendMessage, Functions, Messages, TypeOK
  <2>2. /\ connection = "alive" /\ UNCHANGED <<connection, sendHandler>>
        /\ functions' = Append(functions, sent')
    BY <1>1 DEF sendMessage
  <2>3. \A i \in DOMAIN functions' : functions'[i] \in Messages
    BY <1>f, <2>1, <2>2, AppendOf DEF StopIsLast
  <2> QED
    BY <2>2, <2>3, Kinds DEF StopIsLast
<1>2. CASE Destroy
  <2>1. WaitForWrites \in Functions /\ StopHandler \in Functions
    BY DEF Functions
  <2>2. /\ connection = "alive" /\ connection' = "waiting"
        /\ functions' = functions \o <<WaitForWrites, StopHandler>>
    BY <1>2 DEF Destroy
  <2>3. \A i \in DOMAIN functions : functions[i] # StopHandler
    BY <2>2, Kinds DEF StopIsLast
  <2>4. \A i \in DOMAIN functions' :
            functions'[i] = StopHandler => i = Len(functions')
    BY <1>f, <2>1, <2>2, <2>3, TwoMore, Kinds
  <2> QED
    BY <2>2, <2>4 DEF StopIsLast
<1>3. CASE LaunchWrite \/ StartDrain \/ EndHandler
  <2>1. /\ functions # <<>> /\ functions' = Tail(functions)
        /\ sendHandler = "idle" /\ connection' = connection
        /\ sendHandler' = "ended" => Head(functions) = StopHandler
    BY <1>3 DEF LaunchWrite, StartDrain, EndHandler, NextFunction
  <2>2. \A i \in DOMAIN functions' :
            functions'[i] = StopHandler => i = Len(functions')
    <3> SUFFICES ASSUME NEW i \in DOMAIN functions', functions'[i] = StopHandler
                 PROVE  i = Len(functions')
      OBVIOUS
    <3>1. functions[i + 1] = StopHandler /\ i + 1 \in DOMAIN functions
      BY <1>f, <2>1, TailOf
    <3>2. i + 1 = Len(functions)
      BY <3>1 DEF StopIsLast
    <3>3. i \in Nat /\ Len(functions) \in Nat /\ Len(functions') = Len(functions) - 1
      BY <1>f, <2>1, TailOf
    <3> QED
      BY <3>2, <3>3
  <2>3. connection = "alive" =>
            /\ sendHandler' # "ended"
            /\ \A i \in DOMAIN functions' : functions'[i] \in Messages
    BY <1>f, <2>1, TailOf, Kinds DEF StopIsLast
  <2>4. connection \notin {"joined", "destroyed"}
    BY <2>1 DEF StopIsLast
  <2> QED
    BY <2>1, <2>2, <2>3, <2>4 DEF StopIsLast
<1>4. CASE Elsewhere
  <2>1. /\ connection' = "alive" => connection = "alive"
        /\ connection' \in {"joined", "destroyed"} => sendHandler = "ended"
        /\ sendHandler' = "ended" <=> sendHandler = "ended"
    BY <1>4 DEF Elsewhere, Joined, CloseSocket, PeerGone, Reap, ReapDone, Drain,
                DrainDone, PopOperation, WriteSome, vars, StopIsLast
  <2> QED
    BY <1>4, <2>1, ElsewhereKeeps DEF StopIsLast
<1> QED
  BY <1>1, <1>2, <1>3, <1>4, Steps

LEMMA RunningStep == IInv /\ [Next]_vars => RunningIsKept'
<1> SUFFICES ASSUME TypeOK, RunningIsKept, [Next]_vars,
                    NEW m \in Messages, write'[m] = "running"
             PROVE  \E i \in DOMAIN operations' : operations'[i] = m
  BY DEF IInv, RunningIsKept
<1>1. CASE LaunchWrite
  <2>1. PICK n \in Messages : LaunchWrite!(n)
    BY <1>1 DEF LaunchWrite
  <2>2. DOMAIN operations = 1..Len(operations) /\ Len(operations) \in Nat
    BY DEF TypeOK
  <2>3. CASE n = m
    <3>1. Len(operations) + 1 \in DOMAIN operations'
      BY <2>1, <2>2, AppendOf DEF TypeOK
    <3>2. operations'[Len(operations) + 1] = m
      BY <2>1, <2>3, AppendOf DEF TypeOK
    <3> QED
      BY <3>1, <3>2
  <2>4. CASE n # m
    <3>1. write[m] = "running"
      BY <2>1, <2>4 DEF TypeOK
    <3>2. PICK i \in DOMAIN operations : operations[i] = m
      BY <3>1 DEF RunningIsKept
    <3>3. i \in DOMAIN operations' /\ operations'[i] = m
      BY <2>1, <2>2, <3>2, AppendOf DEF TypeOK
    <3> QED
      BY <3>3
  <2> QED
    BY <2>3, <2>4
<1>2. CASE Reap \/ Drain
  <2>1. /\ operations # <<>> /\ operations' = Tail(operations) /\ write' = write
        /\ write[Head(operations)] = "done"
    BY <1>2 DEF Reap, Drain, PopOperation
  <2>2. m # Head(operations) /\ \E i \in DOMAIN operations : operations[i] = m
    BY <2>1 DEF RunningIsKept
  <2>3. operations \in Seq(Messages)
    BY DEF TypeOK
  <2>4. \E i \in DOMAIN Tail(operations) : Tail(operations)[i] = m
    BY <2>1, <2>2, <2>3, TailHas
  <2> QED
    BY <2>1, <2>4
<1>3. ASSUME NEW n \in Messages, WriteSome(n)
      PROVE  \E i \in DOMAIN operations' : operations'[i] = m
  <2>1. write[m] = "running" /\ operations' = operations
    BY <1>3 DEF WriteSome, TypeOK
  <2> QED
    BY <2>1 DEF RunningIsKept
<1>4. CASE \/ sendMessage \/ Destroy \/ StartDrain \/ EndHandler \/ Joined
           \/ CloseSocket \/ PeerGone \/ ReapDone \/ DrainDone \/ UNCHANGED vars
  <2>1. write' = write /\ operations' = operations
    BY <1>4 DEF sendMessage, Destroy, StartDrain, EndHandler, Joined, CloseSocket,
                PeerGone, ReapDone, DrainDone, vars
  <2> QED
    BY <2>1 DEF RunningIsKept
<1> QED
  BY <1>1, <1>2, <1>3, <1>4, Steps DEF Elsewhere

LEMMA DestroyedStep == IInv /\ [Next]_vars => NoWriteAfterDestruction'
<1> SUFFICES ASSUME TypeOK, StopIsLast, RunningIsKept, NoWriteAfterDestruction,
                    [Next]_vars, connection' = "destroyed", NEW m \in Messages
             PROVE  write'[m] # "running"
  BY DEF IInv, NoWriteAfterDestruction
<1>1. CASE CloseSocket
  BY <1>1 DEF CloseSocket, RunningIsKept
<1>2. CASE connection = "destroyed"
  <2>1. sendHandler = "ended" /\ write[m] # "running"
    BY <1>2 DEF StopIsLast, NoWriteAfterDestruction
  <2>2. ~LaunchWrite
    BY <2>1 DEF LaunchWrite, NextFunction
  <2>3. write' = write \/ \E n \in Messages : WriteSome(n)
    BY <2>2, Steps DEF Elsewhere, sendMessage, Destroy, StartDrain, EndHandler, Joined,
         CloseSocket, PeerGone, Reap, ReapDone, Drain, DrainDone, PopOperation, vars
  <2> QED
    BY <2>1, <2>3 DEF WriteSome, TypeOK
<1>3. CASE ~CloseSocket /\ connection # "destroyed"
  BY <1>3, Steps DEF Elsewhere, sendMessage, Destroy, LaunchWrite, StartDrain,
       EndHandler, Joined, PeerGone, Reap, ReapDone, Drain, DrainDone, PopOperation,
       WriteSome, vars
<1> QED
  BY <1>1, <1>2, <1>3
-----------------------------------------------------------------------------
(* Messages that wait, and pieces written *)

(* A step that leaves queue and counter alone starts no write.             *)
LEMMA WriteStarts ==
    ASSUME TypeOK, Elsewhere, NEW m \in Messages
    PROVE  write'[m] = "none" <=> write[m] = "none"
<1>1. ASSUME NEW n \in Messages, WriteSome(n)
      PROVE  write'[m] = "none" <=> write[m] = "none"
  BY <1>1 DEF WriteSome, TypeOK
<1>2. CASE ~ \E n \in Messages : WriteSome(n)
  BY <1>2 DEF Elsewhere, Joined, CloseSocket, PeerGone, Reap, ReapDone, Drain,
              DrainDone, PopOperation, vars
<1> QED
  BY <1>1, <1>2

(* The head of the queue is taken, and its write is started if it is one.  *)
LEMMA TakeStep ==
    ASSUME IInv, functions # <<>>, functions' = Tail(functions), sent' = sent,
           \A m \in Messages :
               write'[m] = IF m = Head(functions) THEN "running" ELSE write[m]
    PROVE  WaitingIsQueued'
<1>1. functions \in Seq(Functions) /\ sent \in Nat /\ Messages \subseteq Nat
  BY Kinds, BoundsAssumption DEF Functions, IInv, TypeOK
<1>2. WaitingIsQueued
  BY DEF IInv
<1>3. Head(functions) \in Messages => Head(functions) <= sent
  BY <1>1, <1>2, TailOf DEF WaitingIsQueued
<1>4. ASSUME NEW m \in Messages, write'[m] = "none", m <= sent
      PROVE  \E i \in DOMAIN functions' : functions'[i] = m
  <2>1. m # Head(functions) /\ write[m] = "none"
    BY <1>4
  <2>2. \E i \in DOMAIN functions : functions[i] = m
    BY <1>2, <1>4, <2>1 DEF WaitingIsQueued
  <2> QED
    BY <1>1, <2>1, <2>2, TailHas
<1>5. ASSUME NEW i \in DOMAIN functions', functions'[i] \in Messages
      PROVE  write'[functions'[i]] = "none" /\ functions'[i] <= sent
  <2>1. /\ functions'[i] = functions[i + 1] /\ i + 1 \in DOMAIN functions
        /\ i + 1 # 1 /\ 1 \in DOMAIN functions /\ Head(functions) = functions[1]
    BY <1>1, TailOf
  <2>2. functions[i + 1] # functions[1]
    BY <1>2, <2>1 DEF WaitingIsQueued
  <2>3. write[functions[i + 1]] = "none" /\ functions[i + 1] <= sent
    BY <1>2, <1>5, <2>1 DEF WaitingIsQueued
  <2> QED
    BY <1>5, <2>1, <2>2, <2>3
<1>6. ASSUME NEW i \in DOMAIN functions', NEW j \in DOMAIN functions',
             functions'[i] = functions'[j]
      PROVE  i = j
  <2>1. /\ functions'[i] = functions[i + 1] /\ i + 1 \in DOMAIN functions
        /\ functions'[j] = functions[j + 1] /\ j + 1 \in DOMAIN functions
        /\ i \in Nat /\ j \in Nat
    BY <1>1, TailOf
  <2>2. i + 1 = j + 1
    BY <1>2, <1>6, <2>1 DEF WaitingIsQueued
  <2> QED
    BY <2>1, <2>2
<1>7. ASSUME NEW m \in Messages, m > sent PROVE write'[m] = "none"
  <2>1. write[m] = "none"
    BY <1>2, <1>7 DEF WaitingIsQueued
  <2>2. m # Head(functions)
    BY <1>1, <1>3, <1>7
  <2> QED
    BY <2>1, <2>2
<1> QED
  BY <1>4, <1>5, <1>6, <1>7 DEF WaitingIsQueued

LEMMA WaitingStep == IInv /\ [Next]_vars => WaitingIsQueued'
<1> SUFFICES ASSUME IInv, [Next]_vars PROVE WaitingIsQueued'
  OBVIOUS
<1>f. /\ functions \in Seq(Functions) /\ sent \in Nat /\ Messages \subseteq Nat
      /\ write \in [Messages -> {"none", "running", "done"}]
      /\ TypeOK /\ StopIsLast /\ WaitingIsQueued
  BY Kinds, BoundsAssumption DEF Functions, IInv, TypeOK
<1>1. CASE sendMessage
  <2>1. sent + 1 \in Messages /\ sent + 1 \in Functions
    BY <1>1, BoundsAssumption DEF sendMessage, Functions, Messages, IInv, TypeOK
  <2>2. /\ functions' = Append(functions, sent + 1) /\ sent' = sent + 1
        /\ write' = write /\ connection = "alive"
    BY <1>1 DEF sendMessage
  <2>3. /\ DOMAIN functions = 1..Len(functions) /\ Len(functions) \in Nat
        /\ DOMAIN functions' = 1..(Len(functions) + 1)
        /\ \A i \in DOMAIN functions : functions'[i] = functions[i]
        /\ functions'[Len(functions) + 1] = sent + 1
    BY <1>f, <2>1, <2>2, AppendOf
  <2>4. \A i \in DOMAIN functions : functions[i] \in Messages /\ functions[i] <= sent
    BY <1>f, <2>2 DEF StopIsLast, WaitingIsQueued
  <2>5. ASSUME NEW m \in Messages, write'[m] = "none", m <= sent'
        PROVE  \E i \in DOMAIN functions' : functions'[i] = m
    <3>1. CASE m = sent + 1
      BY <2>3, <3>1
    <3>2. CASE m # sent + 1
      <4>1. m <= sent
        BY <1>f, <2>2, <2>5, <3>2
      <4>2. PICK i \in DOMAIN functions : functions[i] = m
        BY <1>f, <2>2, <2>5, <4>1 DEF WaitingIsQueued
      <4>3. i \in DOMAIN functions' /\ functions'[i] = m
        BY <2>3, <4>2
      <4> QED
        BY <4>3
    <3> QED
      BY <3>1, <3>2
  <2>6. ASSUME NEW i \in DOMAIN functions', functions'[i] \in Messages
        PROVE  write'[functions'[i]] = "none" /\ functions'[i] <= sent'
    <3>1. CASE i \in DOMAIN functions
      BY <1>f, <2>2, <2>3, <2>4, <3>1 DEF WaitingIsQueued
    <3>2. CASE i = Len(functions) + 1
      <4>1. sent + 1 > sent /\ sent + 1 <= sent'
        BY <1>f, <2>2
      <4> QED
        BY <1>f, <2>1, <2>2, <2>3, <3>2, <4>1 DEF WaitingIsQueued
    <3> QED
      BY <2>3, <3>1, <3>2
  <2>7. ASSUME NEW i \in DOMAIN functions', NEW j \in DOMAIN functions',
               functions'[i] = functions'[j]
        PROVE  i = j
    <3>1. CASE i \in DOMAIN functions /\ j \in DOMAIN functions
      BY <1>f, <2>3, <2>7, <3>1 DEF WaitingIsQueued
    <3>2. \A k \in DOMAIN functions : functions'[k] # sent + 1
      BY <1>f, <2>3, <2>4
    <3> QED
      BY <2>3, <2>7, <3>1, <3>2
  <2>8. \A m \in Messages : m > sent' => write'[m] = "none"
    BY <1>f, <2>2 DEF WaitingIsQueued
  <2> QED
    BY <2>5, <2>6, <2>7, <2>8 DEF WaitingIsQueued
<1>2. CASE Destroy
  <2>1. WaitForWrites \in Functions /\ StopHandler \in Functions
    BY DEF Functions
  <2>2. /\ functions' = functions \o <<WaitForWrites, StopHandler>>
        /\ sent' = sent /\ write' = write /\ connection = "alive"
    BY <1>2 DEF Destroy
  <2>3. /\ DOMAIN functions = 1..Len(functions) /\ Len(functions) \in Nat
        /\ DOMAIN functions' = 1..(Len(functions) + 2)
        /\ \A i \in DOMAIN functions : functions'[i] = functions[i]
        /\ functions'[Len(functions) + 1] = WaitForWrites
        /\ functions'[Len(functions) + 2] = StopHandler
    BY <1>f, <2>1, <2>2, TwoMore
  <2>4. \A i \in DOMAIN functions : functions[i] \in Messages
    BY <1>f, <2>2 DEF StopIsLast
  <2>5. \A i \in DOMAIN functions' : functions'[i] \in Messages => i \in DOMAIN functions
    BY <2>3, Kinds
  <2>6. ASSUME NEW m \in Messages, write'[m] = "none", m <= sent'
        PROVE  \E i \in DOMAIN functions' : functions'[i] = m
    <3>1. PICK i \in DOMAIN functions : functions[i] = m
      BY <1>f, <2>2, <2>6 DEF WaitingIsQueued
    <3>2. i \in DOMAIN functions' /\ functions'[i] = m
      BY <2>3, <3>1
    <3> QED
      BY <3>2
  <2>7. \A i \in DOMAIN functions' : functions'[i] \in Messages =>
            write'[functions'[i]] = "none" /\ functions'[i] <= sent'
    BY <1>f, <2>2, <2>3, <2>5 DEF WaitingIsQueued
  <2>8. ASSUME NEW i \in DOMAIN functions', NEW j \in DOMAIN functions',
               functions'[i] = functions'[j]
        PROVE  i = j
    <3>1. CASE i \in DOMAIN functions /\ j \in DOMAIN functions
      BY <1>f, <2>3, <2>8, <3>1 DEF WaitingIsQueued
    <3>2. CASE i \notin DOMAIN functions \/ j \notin DOMAIN functions
      BY <2>3, <2>4, <2>8, <3>2, Kinds
    <3> QED
      BY <3>1, <3>2
  <2> QED
    BY <1>f, <2>2, <2>6, <2>7, <2>8 DEF WaitingIsQueued
<1>3. CASE LaunchWrite
  <2>1. PICK n \in Messages : LaunchWrite!(n)
    BY <1>3 DEF LaunchWrite
  <2>2. /\ functions # <<>> /\ functions' = Tail(functions) /\ sent' = sent
        /\ Head(functions) = n
    BY <2>1 DEF NextFunction
  <2>3. \A m \in Messages :
            write'[m] = IF m = Head(functions) THEN "running" ELSE write[m]
    BY <1>f, <2>1, <2>2
  <2> QED
    BY <2>2, <2>3, TakeStep
<1>4. CASE StartDrain \/ EndHandler
  <2>1. /\ functions # <<>> /\ functions' = Tail(functions) /\ sent' = sent
        /\ Head(functions) \in {WaitForWrites, StopHandler} /\ write' = write
    BY <1>4 DEF StartDrain, EndHandler, NextFunction
  <2>2. \A m \in Messages :
            write'[m] = IF m = Head(functions) THEN "running" ELSE write[m]
    BY <2>1, Kinds
  <2> QED
    BY <2>1, <2>2, TakeStep
<1>5. CASE Elsewhere
  <2>1. functions' = functions /\ sent' = sent
    BY <1>5, ElsewhereKeeps
  <2>2. \A m \in Messages : write'[m] = "none" <=> write[m] = "none"
    BY <1>f, <1>5, WriteStarts
  <2> QED
    BY <1>f, <2>1, <2>2 DEF WaitingIsQueued
<1> QED
  BY <1>1, <1>2, <1>3, <1>4, <1>5, Steps

LEMMA WrittenIs == \A m : Written(m) = Cardinality(Places(wire, m))
BY DEF Written, Places

LEMMA ProgressStep == IInv /\ [Next]_vars => Progress'
<1> SUFFICES ASSUME IInv, [Next]_vars, NEW m \in Messages
             PROVE  /\ Written(m)' \in Nat
                    /\ write'[m] = "none" => Written(m)' = 0
                    /\ write'[m] = "running" => Written(m)' < Chunks
                    /\ write'[m] = "done" /\ peer' = "reads" => Written(m)' = Chunks
  BY DEF Progress
<1>f. /\ TypeOK /\ wire \in Seq(Messages) /\ Chunks \in Nat \ {0}
      /\ write \in [Messages -> {"none", "running", "done"}]
      /\ peer \in {"reads", "gone"}
  BY BoundsAssumption DEF IInv, TypeOK
<1>p. /\ Written(m) \in Nat
      /\ write[m] = "none" => Written(m) = 0
      /\ write[m] = "running" => Written(m) < Chunks
      /\ write[m] = "done" /\ peer = "reads" => Written(m) = Chunks
  BY DEF IInv, Progress
<1>1. CASE wire' = wire /\ write'[m] = write[m] /\ (peer' = peer \/ peer' = "gone")
  <2>1. Written(m)' = Written(m)
    BY <1>1 DEF Written
  <2> QED
    BY <1>1, <1>p, <2>1
<1>2. CASE LaunchWrite
  <2>1. PICK n \in Messages : LaunchWrite!(n)
    BY <1>2 DEF LaunchWrite
  <2>2. Written(m)' = Written(m) /\ peer' = peer
    BY <2>1 DEF Written
  <2>3. CASE m = n
    <3>1. functions # <<>> /\ Head(functions) = m /\ functions \in Seq(Functions)
      BY <1>f, <2>1, <2>3 DEF NextFunction, Functions, TypeOK
    <3>2. 1 \in DOMAIN functions /\ functions[1] = m
      BY <3>1, TailOf
    <3>3. write[m] = "none"
      BY <3>2 DEF IInv, WaitingIsQueued
    <3>4. write'[m] = "running"
      BY <1>f, <2>1, <2>3
    <3> QED
      BY <1>f, <1>p, <2>2, <3>3, <3>4
  <2>4. CASE m # n
    <3>1. write'[m] = write[m]
      BY <1>f, <2>1, <2>4
    <3> QED
      BY <1>p, <2>2, <3>1
  <2> QED
    BY <2>3, <2>4
<1>3. ASSUME NEW n \in Messages, WriteSome(n)
      PROVE  /\ Written(m)' \in Nat
             /\ write'[m] = "none" => Written(m)' = 0
             /\ write'[m] = "running" => Written(m)' < Chunks
             /\ write'[m] = "done" /\ peer' = "reads" => Written(m)' = Chunks
  <2>1. write[n] = "running" /\ peer' = peer
    BY <1>3 DEF WriteSome
  <2>2. CASE peer = "gone"
    <3>1. wire' = wire /\ write' = [write EXCEPT ![n] = "done"]
      BY <1>3, <2>2 DEF WriteSome
    <3>2. Written(m)' = Written(m)
      BY <3>1 DEF Written
    <3> QED
      BY <1>f, <1>p, <2>1, <2>2, <3>1, <3>2
  <2>3. CASE peer = "reads"
    <3>1. /\ wire' = Append(wire, n)
          /\ write' = IF Written(n) + 1 = Chunks
                      THEN [write EXCEPT ![n] = "done"] ELSE write
      BY <1>3, <2>3 DEF WriteSome
    <3>2. Written(m)' = IF m = n THEN Written(m) + 1 ELSE Written(m)
      <4>1. Written(m)' = Cardinality(Places(Append(wire, n), m))
        BY <3>1 DEF Written, Places
      <4> QED
        BY <1>f, <4>1, WrittenIs, OneMorePiece
    <3>3. CASE m = n
      <4>1. write'[m] = IF Written(m) + 1 = Chunks THEN "done" ELSE "running"
        BY <1>f, <2>1, <3>1, <3>3
      <4>2. Written(m) < Chunks
        BY <1>p, <2>1, <3>3
      <4> QED
        BY <1>f, <1>p, <3>2, <3>3, <4>1, <4>2
    <3>4. CASE m # n
      <4>1. write'[m] = write[m]
        BY <1>f, <3>1, <3>4
      <4> QED
        BY <1>p, <2>1, <3>2, <3>4, <4>1
    <3> QED
      BY <3>3, <3>4
  <2> QED
    BY <1>f, <2>2, <2>3
<1>4. CASE \/ sendMessage \/ Destroy \/ StartDrain \/ EndHandler \/ Joined
           \/ CloseSocket \/ PeerGone \/ Reap \/ ReapDone \/ Drain \/ DrainDone
           \/ UNCHANGED vars
  <2>1. wire' = wire /\ write' = write /\ (peer' = peer \/ peer' = "gone")
    BY <1>4 DEF sendMessage, Destroy, StartDrain, EndHandler, Joined, CloseSocket,
                PeerGone, Reap, ReapDone, Drain, DrainDone, PopOperation, vars
  <2> QED
    BY <1>1, <2>1
<1> QED
  BY <1>2, <1>3, <1>4, Steps DEF Elsewhere

-----------------------------------------------------------------------------
(* The queue of the handler, the futures it keeps and the pieces on the    *)
(* wire belong together in every state.                                    *)
THEOREM Invariance == Spec => []IInv
<1>1. IInv /\ [Next]_vars => IInv'
  BY TypeStep, StopStep, RunningStep, DestroyedStep, WaitingStep, ProgressStep DEF IInv
<1> QED
  BY <1>1, InitInv, PTL DEF Spec

(* The variables keep their types, for any number and size of messages.    *)
THEOREM TypeCorrect == Spec => []TypeOK
<1>1. IInv => TypeOK
  BY DEF IInv
<1> QED
  BY <1>1, Invariance, PTL

(* When the socket is closed no write is at work on it.                    *)
THEOREM WaitsForWrites == Spec => []NoWriteAfterDestruction
<1>1. IInv => NoWriteAfterDestruction
  BY DEF IInv
<1> QED
  BY <1>1, Invariance, PTL

(* The destructor returns when every message is on the wire, whole, unless *)
(* the peer has gone.                                                      *)
THEOREM NothingUnsent == Spec => []AllSentBeforeDestruction
<1>1. IInv => AllSentBeforeDestruction
  <2> SUFFICES ASSUME IInv, connection = "destroyed", peer = "reads",
                      NEW m \in 1..sent
               PROVE  Written(m) = Chunks
    BY DEF AllSentBeforeDestruction
  <2>1. m \in Messages /\ m <= sent
    BY BoundsAssumption DEF IInv, TypeOK, Messages
  <2>2. functions = <<>>
    BY DEF IInv, StopIsLast, TypeOK
  <2>3. write[m] # "none"
    BY <2>1, <2>2 DEF IInv, WaitingIsQueued
  <2>4. write[m] # "running"
    BY <2>1 DEF IInv, NoWriteAfterDestruction
  <2>5. write[m] = "done"
    BY <2>1, <2>3, <2>4 DEF IInv, TypeOK
  <2> QED
    BY <2>1, <2>5 DEF IInv, Progress
<1> QED
  BY <1>1, Invariance, PTL
=============================================================================
