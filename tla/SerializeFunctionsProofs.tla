---------------------- MODULE SerializeFunctionsProofs ----------------------
(***************************************************************************)
(* Proofs about SerializeFunctions, for any number of callers and calls:   *)
(* the destructor returns only when all functions have been called, and    *)
(* the two queues with their mutex implement FifoExecutor.                 *)
(***************************************************************************)
EXTENDS SerializeFunctions, SequenceTheorems, TLAPS

pending == handlerQueue \o queue

(* Every function posted was called or is pending, in the order of posting.*)
InOrder == posted = called \o pending

(* The destructor posts last, and once.                                    *)
StopIsLast ==
    /\ pc[Owner] = "idle" => Stop \notin Range(posted)
    /\ \A i \in DOMAIN posted : posted[i] = Stop => i = Len(posted)

(* m_Stop is set by the destructor's function only, the thread ends after  *)
(* that, the join waits for it.                                            *)
StopInOrder ==
    /\ stop => Stop \in Range(called)
    /\ handler = "ended" => stop
    /\ pc[Owner] = "destroyed" => handler = "ended"

(* The inductive invariant.                                                *)
IInv == TypeOK /\ InOrder /\ StopIsLast /\ StopInOrder

-----------------------------------------------------------------------------
(* Sequences *)

\* A function posted behind the pending ones is posted behind all.
LEMMA ConcatAppend ==
  ASSUME NEW S, NEW p \in Seq(S), NEW q \in Seq(S), NEW x \in S
  PROVE  p \o Append(q, x) = Append(p \o q, x)
<1>1. <<x>> \in Seq(S) /\ p \o q \in Seq(S)
  BY ConcatProperties
<1>2. Append(q, x) = q \o <<x>> /\ Append(p \o q, x) = (p \o q) \o <<x>>
  BY <1>1, AppendIsConcat
<1> QED
  BY <1>1, <1>2, ConcatAssociative

\* A queue that is not empty is its first element and the rest.
LEMMA HeadThenTail ==
  ASSUME NEW S, NEW q \in Seq(S), q # <<>>
  PROVE  q = <<Head(q)>> \o Tail(q)
<1> DEFINE r == <<Head(q)>> \o Tail(q)
<1>1. /\ Head(q) \in S /\ Tail(q) \in Seq(S) /\ Len(Tail(q)) = Len(q) - 1
      /\ \A i \in 1..Len(Tail(q)) : Tail(q)[i] = q[i + 1]
      /\ Len(q) \in Nat \ {0}
  BY HeadTailProperties, EmptySeq
<1>2. <<Head(q)>> \in Seq(S) /\ Len(<<Head(q)>>) = 1 /\ <<Head(q)>>[1] = q[1]
  BY <1>1
<1>3. /\ r \in Seq(S)
      /\ Len(r) = 1 + Len(Tail(q))
      /\ \A i \in 1..(1 + Len(Tail(q))) :
             r[i] = IF i <= 1 THEN <<Head(q)>>[i] ELSE Tail(q)[i - 1]
  BY <1>1, <1>2, ConcatProperties
<1> HIDE DEF r
<1>4. Len(r) = Len(q)
  BY <1>1, <1>3
<1>5. ASSUME NEW i \in 1..Len(q) PROVE r[i] = q[i]
  <2>1. CASE i = 1
    BY <1>1, <1>2, <1>3, <2>1
  <2>2. CASE i # 1
    <3>1. i - 1 \in 1..Len(Tail(q)) /\ ~ (i <= 1) /\ (i - 1) + 1 = i
      BY <1>1, <2>2
    <3> QED
      BY <1>1, <1>3, <1>4, <3>1
  <2> QED
    BY <2>1, <2>2
<1> QED
  BY <1>3, <1>4, <1>5, SeqEqual DEF r

\* The rest of two queues in a row, when the first is not empty.
LEMMA ConcatTail ==
  ASSUME NEW S, NEW p \in Seq(S), NEW q \in Seq(S), p # <<>>
  PROVE  /\ p \o q # <<>>
         /\ Head(p \o q) = Head(p)
         /\ Tail(p \o q) = Tail(p) \o q
<1>1. Head(p) \in S /\ Tail(p) \in Seq(S)
  BY HeadTailProperties
<1>2. /\ Tail(p) \o q \in Seq(S)
      /\ <<Head(p)>> \in Seq(S)
  BY <1>1, ConcatProperties
<1>3. p \o q = <<Head(p)>> \o (Tail(p) \o q)
  BY <1>1, <1>2, HeadThenTail, ConcatAssociative
<1>4. p \o q \in Seq(S) /\ p \o q # <<>>
  BY ConcatProperties, ConcatEqualIffEmpty
<1>5. p \o q = <<Head(p \o q)>> \o Tail(p \o q) /\ Head(p \o q) = (p \o q)[1]
  BY <1>4, HeadThenTail
<1>6. Head(p \o q) = Head(p)
  <2>1. Len(p) \in Nat \ {0} /\ Len(q) \in Nat
    BY EmptySeq, LenProperties
  <2>2. (p \o q)[1] = p[1]
    BY <2>1, ConcatProperties
  <2>3. Head(p) = p[1]
    OBVIOUS
  <2> QED
    BY <1>5, <2>2, <2>3
<1>7. Tail(p \o q) \in Seq(S)
  BY <1>4, HeadTailProperties
<1>8. Tail(p \o q) = Tail(p) \o q
  BY <1>2, <1>3, <1>5, <1>6, <1>7, ConcatSimplifications
<1> QED
  BY <1>4, <1>6, <1>8

-----------------------------------------------------------------------------
(* The inductive invariant *)

\* Both queues are empty at the start.
LEMMA InitInv == Init => IInv
<1> SUFFICES ASSUME Init PROVE IInv
  OBVIOUS
<1>1. TypeOK
  <2>1. <<>> \in Seq(Function) /\ 0 \in 0..MaxCalls
    BY CallsAssumption
  <2> QED
    BY <2>1 DEF Init, TypeOK
<1>2. InOrder
  BY DEF Init, InOrder, pending
<1>3. StopIsLast /\ StopInOrder
  BY DEF Init, StopIsLast, StopInOrder, Range
<1> QED
  BY <1>1, <1>2, <1>3 DEF IInv

(* A push of a caller (f is not Stop) or of the destructor.                *)
LEMMA Pushed ==
  ASSUME IInv, NEW f \in Function, Push(f), pc[Owner] = "idle",
         UNCHANGED <<handlerQueue, called>>
  PROVE  /\ queue' \in Seq(Function) /\ posted' \in Seq(Function)
         /\ InOrder' /\ pending' = Append(pending, f)
         /\ Range(posted') = Range(posted) \cup {f}
         /\ \A i \in DOMAIN posted' : posted'[i] = Stop => i = Len(posted')
<1>1. /\ queue \in Seq(Function) /\ handlerQueue \in Seq(Function)
      /\ called \in Seq(Function) /\ posted \in Seq(Function)
      /\ pending \in Seq(Function)
  BY ConcatProperties DEF IInv, TypeOK, pending
<1>2. queue' = Append(queue, f) /\ posted' = Append(posted, f)
  BY DEF Push
<1>3. queue' \in Seq(Function) /\ posted' \in Seq(Function)
  BY <1>1, <1>2, AppendProperties
<1>4. pending' = Append(pending, f)
  BY <1>1, <1>2, ConcatAppend DEF pending
<1>5. InOrder'
  <2>1. called \o Append(pending, f) = Append(called \o pending, f)
    BY <1>1, ConcatAppend
  <2> QED
    BY <1>2, <1>4, <2>1 DEF IInv, InOrder
<1>6. /\ Len(posted') = Len(posted) + 1 /\ Len(posted) \in Nat
      /\ DOMAIN posted = 1..Len(posted) /\ DOMAIN posted' = 1..Len(posted')
      /\ \A i \in 1..Len(posted) : posted'[i] = posted[i]
      /\ posted'[Len(posted) + 1] = f
  BY <1>1, <1>2, <1>3, AppendProperties, LenProperties
<1>7. DOMAIN posted' = DOMAIN posted \cup {Len(posted')}
  BY <1>6
<1>8. Range(posted') = Range(posted) \cup {f}
  BY <1>6, <1>7 DEF Range
<1>9. ASSUME NEW i \in DOMAIN posted', posted'[i] = Stop PROVE i = Len(posted')
  <2>1. i \notin DOMAIN posted
    BY <1>6, <1>9 DEF IInv, StopIsLast, Range
  <2> QED
    BY <1>7, <2>1
<1> QED
  BY <1>3, <1>4, <1>5, <1>8, <1>9

\* Calling a function takes the first of the batch: the first pending one.
LEMMA CallFacts ==
  ASSUME IInv, CallFunction
  PROVE  /\ pending # <<>> /\ Head(pending) = Head(handlerQueue)
         /\ pending' = Tail(pending)
         /\ handlerQueue' \in Seq(Function) /\ called' \in Seq(Function)
         /\ InOrder'
         /\ Range(called') = Range(called) \cup {Head(handlerQueue)}
<1>1. /\ queue \in Seq(Function) /\ handlerQueue \in Seq(Function)
      /\ called \in Seq(Function) /\ handlerQueue # <<>>
      /\ handlerQueue' = Tail(handlerQueue) /\ queue' = queue
      /\ called' = Append(called, Head(handlerQueue)) /\ posted' = posted
  BY DEF IInv, TypeOK, CallFunction
<1>2. Head(handlerQueue) \in Function /\ Tail(handlerQueue) \in Seq(Function)
  BY <1>1, HeadTailProperties
<1>3. /\ pending # <<>> /\ Head(pending) = Head(handlerQueue)
      /\ pending' = Tail(pending)
  BY <1>1, ConcatTail DEF pending
<1>4. called' \in Seq(Function)
  BY <1>1, <1>2, AppendProperties
<1>5. InOrder'
  <2> DEFINE f == Head(handlerQueue)
  <2>1. pending \in Seq(Function)
    BY <1>1, ConcatProperties DEF pending
  <2>2. pending = <<f>> \o Tail(pending) /\ Tail(pending) \in Seq(Function)
    BY <1>3, <2>1, HeadThenTail, HeadTailProperties
  <2>3. <<f>> \in Seq(Function) /\ Append(called, f) = called \o <<f>>
    BY <1>1, <1>2, AppendIsConcat
  <2>4. called \o pending = Append(called, f) \o Tail(pending)
    <3>1. (called \o <<f>>) \o Tail(pending) = called \o (<<f>> \o Tail(pending))
      BY <1>1, <2>2, <2>3, ConcatAssociative
    <3>2. called \o pending = called \o (<<f>> \o Tail(pending))
      BY <2>2, Zenon
    <3> QED
      BY <2>3, <3>1, <3>2, Zenon
  <2> QED
    BY <1>1, <1>3, <2>4 DEF IInv, InOrder
<1>6. Range(called') = Range(called) \cup {Head(handlerQueue)}
  <2>1. /\ DOMAIN called = 1..Len(called) /\ DOMAIN called' = 1..Len(called')
        /\ Len(called') = Len(called) + 1 /\ Len(called) \in Nat
        /\ \A i \in 1..Len(called) : called'[i] = called[i]
        /\ called'[Len(called) + 1] = Head(handlerQueue)
    BY <1>1, <1>2, <1>4, AppendProperties, LenProperties
  <2>2. DOMAIN called' = DOMAIN called \cup {Len(called) + 1}
    BY <2>1
  <2> QED
    BY <2>1, <2>2 DEF Range
<1> QED
  BY <1>1, <1>2, <1>3, <1>4, <1>5, <1>6

\* The swap moves the whole queue into an empty batch.
LEMMA SwapFacts ==
  ASSUME IInv, Swap
  PROVE  pending' = pending
<1>1. /\ queue \in Seq(Function) /\ handlerQueue = <<>>
      /\ handlerQueue' = queue /\ queue' = <<>>
  <2>1. handler # "calling"
    BY DEF Swap
  <2> QED
    BY <2>1 DEF IInv, TypeOK, Swap
<1> QED
  BY <1>1, ConcatEmptySeq DEF pending

\* Every action preserves the inductive invariant.
LEMMA NextInv == IInv /\ [Next]_vars => IInv'
<1> SUFFICES ASSUME IInv, [Next]_vars PROVE IInv'
  OBVIOUS
<1>0. TypeOK /\ InOrder /\ StopIsLast /\ StopInOrder
  BY DEF IInv
<1>1. ASSUME NEW c \in Callers, run(c) PROVE IInv'
  <2> DEFINE f == <<c, calls[c] + 1>>
  <2>1. calls[c] + 1 \in 1..MaxCalls
    BY <1>0, <1>1, CallsAssumption DEF run, TypeOK
  <2>2. f \in Function /\ f # Stop
    BY <2>1, OwnerAssumption DEF Function, Stop
  <2>3. /\ Push(f) /\ pc[Owner] = "idle" /\ c # Owner
        /\ pc' = [pc EXCEPT ![c] = "notify"]
        /\ calls' = [calls EXCEPT ![c] = @ + 1]
        /\ UNCHANGED <<handlerQueue, stop, handler, called>>
    BY <1>1, OwnerAssumption DEF run
  <2> HIDE DEF f
  <2>4. /\ queue' \in Seq(Function) /\ posted' \in Seq(Function) /\ InOrder'
        /\ Range(posted') = Range(posted) \cup {f}
        /\ \A i \in DOMAIN posted' : posted'[i] = Stop => i = Len(posted')
    BY <2>2, <2>3, Pushed
  <2>5. calls' \in [Callers -> 0..MaxCalls]
    BY <1>0, <2>1, <2>3, CallsAssumption DEF TypeOK
  <2>6. pc' \in [Callers \cup {Owner} -> {"idle", "notify", "join", "destroyed"}]
        /\ pc'[Owner] = pc[Owner]
    BY <1>0, <2>3 DEF TypeOK
  <2>7. TypeOK'
    BY <1>0, <2>3, <2>4, <2>5, <2>6 DEF TypeOK
  <2>8. StopIsLast'
    BY <1>0, <2>2, <2>3, <2>4 DEF StopIsLast
  <2>9. StopInOrder'
    BY <1>0, <2>3, <2>6 DEF StopInOrder
  <2> QED
    BY <2>4, <2>7, <2>8, <2>9 DEF IInv
<1>2. ASSUME NEW c \in Callers \cup {Owner}, notify(c) PROVE IInv'
  <2>1. TypeOK'
    BY <1>0, <1>2 DEF notify, TypeOK
  <2>2. InOrder'
    BY <1>0, <1>2 DEF notify, InOrder, pending
  <2>3. pc'[Owner] = "idle" => pc[Owner] = "idle"
    BY <1>0, <1>2 DEF notify, TypeOK
  <2>4. StopIsLast'
    BY <1>0, <1>2, <2>3 DEF notify, StopIsLast
  <2>5. pc'[Owner] = "destroyed" => pc[Owner] = "destroyed"
    BY <1>0, <1>2 DEF notify, TypeOK
  <2>6. StopInOrder'
    BY <1>0, <1>2, <2>5 DEF notify, StopInOrder
  <2> QED
    BY <2>1, <2>2, <2>4, <2>6 DEF IInv
<1>3. CASE Destroy
  <2>1. /\ Push(Stop) /\ pc[Owner] = "idle" /\ Stop \in Function
        /\ pc' = [pc EXCEPT ![Owner] = "notify"]
        /\ UNCHANGED <<handlerQueue, stop, handler, calls, called>>
    BY <1>3 DEF Destroy, Function
  <2>2. /\ queue' \in Seq(Function) /\ posted' \in Seq(Function) /\ InOrder'
        /\ \A i \in DOMAIN posted' : posted'[i] = Stop => i = Len(posted')
    BY <2>1, Pushed
  <2>3. /\ pc' \in [Callers \cup {Owner} -> {"idle", "notify", "join", "destroyed"}]
        /\ pc'[Owner] = "notify"
    BY <1>0, <2>1 DEF TypeOK
  <2>4. TypeOK'
    BY <1>0, <2>1, <2>2, <2>3 DEF TypeOK
  <2>5. StopIsLast' /\ StopInOrder'
    BY <1>0, <2>1, <2>2, <2>3 DEF StopIsLast, StopInOrder
  <2> QED
    BY <2>2, <2>4, <2>5 DEF IInv
<1>4. CASE join
  <2>1. /\ pc' \in [Callers \cup {Owner} -> {"idle", "notify", "join", "destroyed"}]
        /\ pc'[Owner] = "destroyed" /\ handler = "ended"
        /\ UNCHANGED <<queue, handlerQueue, stop, handler, calls, posted, called>>
    BY <1>0, <1>4 DEF join, TypeOK
  <2>2. TypeOK' /\ InOrder'
    BY <1>0, <2>1 DEF TypeOK, InOrder, pending
  <2>3. StopIsLast' /\ StopInOrder'
    BY <1>0, <2>1 DEF StopIsLast, StopInOrder
  <2> QED
    BY <2>2, <2>3 DEF IInv
<1>5. CASE CheckStop
  <2>1. TypeOK' /\ InOrder'
    BY <1>0, <1>5 DEF CheckStop, TypeOK, InOrder, pending
  <2>2. StopIsLast' /\ StopInOrder'
    BY <1>0, <1>5 DEF CheckStop, StopIsLast, StopInOrder
  <2> QED
    BY <2>1, <2>2 DEF IInv
<1>6. CASE Sleep
  BY <1>0, <1>6
  DEF Sleep, IInv, TypeOK, InOrder, pending, StopIsLast, StopInOrder
<1>7. CASE Swap
  <2>1. TypeOK'
    BY <1>0, <1>7 DEF Swap, TypeOK
  <2>2. InOrder'
    BY <1>0, <1>7, SwapFacts DEF Swap, InOrder
  <2>3. StopIsLast' /\ StopInOrder'
    BY <1>0, <1>7 DEF Swap, StopIsLast, StopInOrder
  <2> QED
    BY <2>1, <2>2, <2>3 DEF IInv
<1>8. CASE CallFunction
  <2>1. /\ handlerQueue' \in Seq(Function) /\ called' \in Seq(Function)
        /\ InOrder' /\ Range(called') = Range(called) \cup {Head(handlerQueue)}
    BY <1>8, CallFacts
  <2>2. stop' = (stop \/ Head(handlerQueue) = Stop) /\ handler = "calling"
        /\ UNCHANGED <<queue, handler, pc, calls, posted>>
    BY <1>8 DEF CallFunction
  <2>3. TypeOK'
    BY <1>0, <2>1, <2>2 DEF TypeOK
  <2>4. StopIsLast' /\ StopInOrder'
    BY <1>0, <2>1, <2>2 DEF StopIsLast, StopInOrder
  <2> QED
    BY <2>1, <2>3, <2>4 DEF IInv
<1>9. CASE BatchDone
  BY <1>0, <1>9
  DEF BatchDone, IInv, TypeOK, InOrder, pending, StopIsLast, StopInOrder
<1>10. CASE SpuriousWakeup
  BY <1>0, <1>10
  DEF SpuriousWakeup, IInv, TypeOK, InOrder, pending, StopIsLast, StopInOrder
<1>11. CASE UNCHANGED vars
  BY <1>0, <1>11
  DEF vars, IInv, TypeOK, InOrder, pending, StopIsLast, StopInOrder
<1> QED
  BY <1>1, <1>2, <1>3, <1>4, <1>5, <1>6, <1>7, <1>8, <1>9, <1>10, <1>11
  DEF Next, Handler

(* The invariant holds for any callers and any number of calls.            *)
THEOREM Invariance == Spec => []IInv
  BY InitInv, NextInv, PTL DEF Spec

\* After the stop function nothing was posted, and the handler ended behind it.
LEMMA DestroyedFromInv ==
  ASSUME IInv, handler = "ended"
  PROVE  pending = <<>> /\ called = posted
<1>1. called \in Seq(Function) /\ pending \in Seq(Function) /\ posted = called \o pending
  BY ConcatProperties DEF IInv, TypeOK, InOrder, pending
<1>2. PICK i \in DOMAIN called : called[i] = Stop
  BY DEF IInv, StopInOrder, Range
<1>3. /\ Len(called) \in Nat /\ Len(pending) \in Nat
      /\ Len(posted) = Len(called) + Len(pending)
      /\ DOMAIN called = 1..Len(called) /\ posted \in Seq(Function)
      /\ \A j \in 1..(Len(called) + Len(pending)) :
             posted[j] = IF j <= Len(called) THEN called[j] ELSE pending[j - Len(called)]
  BY <1>1, ConcatProperties, LenProperties
<1>4. i \in 1..(Len(called) + Len(pending)) /\ i <= Len(called) /\ i \in Nat
  BY <1>2, <1>3
<1>5. DOMAIN posted = 1..Len(posted)
  BY <1>3, LenProperties
<1>6. posted[i] = Stop /\ i \in DOMAIN posted
  BY <1>2, <1>3, <1>4, <1>5
<1>7. i = Len(posted)
  BY <1>6 DEF IInv, StopIsLast
<1>8. Len(pending) = 0
  BY <1>3, <1>4, <1>7
<1>9. pending = <<>>
  BY <1>1, <1>8, EmptySeq
<1> QED
  BY <1>1, <1>9, ConcatEmptySeq

(* The queues, the program counters and the histories have their types,    *)
(* for any number of callers and of functions.                             *)
THEOREM TypeCorrect == Spec => []TypeOK
<1>1. IInv => TypeOK
  BY DEF IInv
<1> QED
  BY <1>1, Invariance, PTL

(* Whatever the threads do, the destructor returns only after every        *)
(* function posted has been called.                                        *)
THEOREM DestructorCorrect == Spec => []AllCalledBeforeDestroyed
<1>1. IInv => AllCalledBeforeDestroyed
  BY DestroyedFromInv DEF AllCalledBeforeDestroyed, IInv, StopInOrder
<1> QED
  BY <1>1, Invariance, PTL

(* The mutex, the condition variable and the swapped queues implement a    *)
(* first-in first-out executor.                                            *)
THEOREM Refinement == Spec => FifoSpec
<1>1. Init => Fifo!Init
  BY OwnerAssumption DEF Init, Fifo!Init
<1>2. IInv /\ [Next]_vars => [Fifo!Next]_Fifo!vars
  <2> SUFFICES ASSUME IInv, [Next]_vars PROVE [Fifo!Next]_Fifo!vars
    OBVIOUS
  <2>0. ASSUME UNCHANGED <<pending, called>>,
               pc'[Owner] = "destroyed" <=> pc[Owner] = "destroyed"
        PROVE  [Fifo!Next]_Fifo!vars
    BY <2>0 DEF Fifo!vars, pending
  <2>p. pc \in [Callers \cup {Owner} -> {"idle", "notify", "join", "destroyed"}]
    BY DEF IInv, TypeOK
  <2>1. ASSUME NEW c \in Callers, run(c) PROVE [Fifo!Next]_Fifo!vars
    <3> DEFINE f == <<c, calls[c] + 1>>
    <3>1. f \in Function
      BY <2>1, CallsAssumption DEF run, IInv, TypeOK, Function
    <3>2. /\ Push(f) /\ pc[Owner] = "idle" /\ c # Owner
          /\ pc' = [pc EXCEPT ![c] = "notify"] /\ UNCHANGED <<handlerQueue, called>>
      BY <2>1, OwnerAssumption DEF run
    <3> HIDE DEF f
    <3>3. pending' = Append(pending, f)
      BY <3>1, <3>2, Pushed
    <3>4. pc'[Owner] = "idle"
      BY <2>p, <3>2
    <3>5. Fifo!HandOver(f)
      BY <3>2, <3>3, <3>4 DEF Fifo!HandOver, pending
    <3> QED
      BY <3>1, <3>5 DEF Fifo!Next
  <2>2. ASSUME NEW c \in Callers \cup {Owner}, notify(c) PROVE [Fifo!Next]_Fifo!vars
    BY <2>0, <2>2, <2>p DEF notify, pending
  <2>3. CASE Destroy
    <3>1. /\ Push(Stop) /\ pc[Owner] = "idle" /\ Stop \in Function
          /\ pc' = [pc EXCEPT ![Owner] = "notify"] /\ UNCHANGED <<handlerQueue, called>>
      BY <2>3 DEF Destroy, Function
    <3>2. pending' = Append(pending, Stop)
      BY <3>1, Pushed
    <3>3. pc'[Owner] = "notify"
      BY <2>p, <3>1
    <3>4. Fifo!HandOver(Stop)
      BY <3>1, <3>2, <3>3 DEF Fifo!HandOver, pending
    <3> QED
      BY <3>1, <3>4 DEF Fifo!Next
  <2>4. CASE join
    <3>1. /\ handler = "ended" /\ pc'[Owner] = "destroyed"
          /\ UNCHANGED <<queue, handlerQueue, called>>
      BY <2>4, <2>p DEF join
    <3>2. pending = <<>>
      BY <3>1, DestroyedFromInv
    <3>3. Fifo!Destroy
      BY <3>1, <3>2 DEF Fifo!Destroy, pending
    <3> QED
      BY <3>3 DEF Fifo!Next
  <2>5. CASE CheckStop \/ Sleep \/ BatchDone \/ SpuriousWakeup \/ UNCHANGED vars
    BY <2>0, <2>5 DEF CheckStop, Sleep, BatchDone, SpuriousWakeup, vars, pending
  <2>6. CASE Swap
    BY <2>0, <2>6, SwapFacts DEF Swap
  <2>7. CASE CallFunction
    <3>1. /\ pending # <<>> /\ Head(pending) = Head(handlerQueue)
          /\ pending' = Tail(pending)
          /\ called' = Append(called, Head(handlerQueue)) /\ UNCHANGED pc
      BY <2>7, CallFacts DEF CallFunction
    <3>2. Fifo!Call
      BY <3>1 DEF Fifo!Call, pending
    <3> QED
      BY <3>2 DEF Fifo!Next
  <2> QED
    BY <2>1, <2>2, <2>3, <2>4, <2>5, <2>6, <2>7 DEF Next, Handler
<1> QED
  BY <1>1, <1>2, Invariance, PTL DEF Spec, FifoSpec, Fifo!Spec
=============================================================================
