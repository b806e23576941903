------------------------- MODULE HttpRequestsProofs -------------------------
(***************************************************************************)
(* What holds of the requests for any number of them, of sensors, of       *)
(* measurements and of threads: one reply each, with the sensor that was   *)
(* asked for, no older than the request, and no entry of m_Map left        *)
(* behind.                                                                 *)
(***************************************************************************)
EXTENDS HttpRequests, FiniteSetTheorems, FunctionTheorems, TLAPS

Elems(s) == {s[i] : i \in DOMAIN s}

(* No member of T is in s twice.                                           *)
Once(s, T) == \A i, j \in DOMAIN s : s[i] = s[j] /\ s[i] \in T => i = j

-----------------------------------------------------------------------------
(* Sequences *)

LEMMA AppendFacts ==
    ASSUME NEW S, NEW s \in Seq(S), NEW x \in S
    PROVE  /\ Append(s, x) \in Seq(S)
           /\ Elems(Append(s, x)) = Elems(s) \cup {x}
<1> DEFINE t == Append(s, x)
<1>1. /\ t \in Seq(S)
      /\ Len(s) \in Nat /\ DOMAIN s = 1..Len(s) /\ DOMAIN t = 1..(Len(s) + 1)
      /\ \A i \in 1..Len(s) : t[i] = s[i]
      /\ t[Len(s) + 1] = x
  OBVIOUS
<1> HIDE DEF t
<1>2. DOMAIN t = DOMAIN s \cup {Len(s) + 1}
  BY <1>1
<1>3. Elems(t) = Elems(s) \cup {x}
  BY <1>1, <1>2 DEF Elems
<1> QED
  BY <1>1, <1>3 DEF t

LEMMA TailFacts ==
    ASSUME NEW S, NEW s \in Seq(S), s # <<>>
    PROVE  /\ Head(s) \in S /\ Tail(s) \in Seq(S)
           /\ Elems(s) = {Head(s)} \cup Elems(Tail(s))
<1> DEFINE t == Tail(s)
<1>1. /\ t \in Seq(S) /\ Head(s) \in S /\ Head(s) = s[1]
      /\ Len(s) \in Nat \ {0} /\ DOMAIN s = 1..Len(s) /\ DOMAIN t = 1..(Len(s) - 1)
      /\ \A i \in 1..(Len(s) - 1) : t[i] = s[i + 1]
  OBVIOUS
<1> HIDE DEF t
<1>2. ASSUME NEW e \in Elems(s) PROVE e \in {Head(s)} \cup Elems(t)
  <2>1. PICK i \in 1..Len(s) : e = s[i]
    BY <1>1 DEF Elems
  <2>2. CASE i = 1
    BY <1>1, <2>1, <2>2
  <2>3. CASE i # 1
    <3>1. i - 1 \in DOMAIN t /\ t[i - 1] = s[i]
      BY <1>1, <2>3
    <3> QED
      BY <2>1, <3>1 DEF Elems
  <2> QED
    BY <2>2, <2>3
<1>3. ASSUME NEW e \in Elems(t) PROVE e \in Elems(s)
  <2>1. PICK i \in DOMAIN t : e = t[i]
    BY DEF Elems
  <2>2. i + 1 \in DOMAIN s /\ e = s[i + 1]
    BY <1>1, <2>1
  <2> QED
    BY <2>2 DEF Elems
<1>4. Head(s) \in Elems(s)
  BY <1>1 DEF Elems
<1>5. Elems(s) = {Head(s)} \cup Elems(t)
  BY <1>2, <1>3, <1>4
<1> QED
  BY <1>1, <1>5 DEF t

LEMMA OnceAppend ==
    ASSUME NEW S, NEW s \in Seq(S), NEW x \in S, NEW T,
           Once(s, T), x \notin Elems(s) \/ x \notin T
    PROVE  Once(Append(s, x), T)
<1> DEFINE t == Append(s, x)
<1>1. /\ Len(s) \in Nat /\ DOMAIN s = 1..Len(s) /\ DOMAIN t = 1..(Len(s) + 1)
      /\ \A i \in 1..Len(s) : t[i] = s[i]
      /\ t[Len(s) + 1] = x
  OBVIOUS
<1> HIDE DEF t
<1>2. \A i \in DOMAIN t : i \in DOMAIN s \/ i = Len(s) + 1
  BY <1>1
<1>3. SUFFICES ASSUME NEW i \in DOMAIN t, NEW j \in DOMAIN t,
                      t[i] = t[j], t[i] \in T
               PROVE  i = j
  BY DEF Once, t
<1>4. CASE i \in DOMAIN s /\ j \in DOMAIN s
  BY <1>1, <1>3, <1>4 DEF Once
<1>5. CASE i \notin DOMAIN s /\ j \notin DOMAIN s
  BY <1>2, <1>5
<1>6. ASSUME NEW k \in DOMAIN s, NEW l \in DOMAIN t, l \notin DOMAIN s,
             t[k] = t[l], t[k] \in T
      PROVE  FALSE
  <2>1. s[k] = x /\ x \in T
    BY <1>1, <1>2, <1>6
  <2> QED
    BY <2>1 DEF Elems
<1> QED
  BY <1>3, <1>4, <1>5, <1>6

LEMMA OnceTail ==
    ASSUME NEW S, NEW s \in Seq(S), s # <<>>, NEW T, Once(s, T)
    PROVE  /\ Once(Tail(s), T)
           /\ Head(s) \in T => Head(s) \notin Elems(Tail(s))
<1> DEFINE t == Tail(s)
<1>1. /\ Head(s) = s[1] /\ 1 \in DOMAIN s
      /\ \A i \in DOMAIN t : i + 1 \in DOMAIN s /\ i + 1 # 1 /\ t[i] = s[i + 1]
      /\ \A i, j \in DOMAIN t : i + 1 = j + 1 => i = j
  OBVIOUS
<1> HIDE DEF t
<1>2. Once(t, T)
  BY <1>1 DEF Once
<1>3. ASSUME Head(s) \in T, Head(s) \in Elems(t) PROVE FALSE
  <2>1. PICK i \in DOMAIN t : Head(s) = t[i]
    BY <1>3 DEF Elems
  <2> QED
    BY <1>1, <1>3, <2>1 DEF Once
<1> QED
  BY <1>2, <1>3 DEF t
-----------------------------------------------------------------------------
(* Counting *)

Places(s, x) == {i \in DOMAIN s : s[i] = x}

LEMMA PlacesAppend ==
    ASSUME NEW S, NEW s \in Seq(S), NEW x \in S, NEW y
    PROVE  /\ IsFiniteSet(Places(s, y))
           /\ Cardinality(Places(s, y)) \in Nat
           /\ x # y => Cardinality(Places(Append(s, x), y)) = Cardinality(Places(s, y))
           /\ x = y => Cardinality(Places(Append(s, x), y)) = Cardinality(Places(s, y)) + 1
<1> DEFINE t == Append(s, x)
           n == Len(s) + 1
<1>1. /\ Len(s) \in Nat /\ DOMAIN s = 1..Len(s) /\ DOMAIN t = 1..n
      /\ \A i \in 1..Len(s) : t[i] = s[i]
      /\ t[n] = x
      /\ DOMAIN t = DOMAIN s \cup {n} /\ n \notin DOMAIN s
  OBVIOUS
<1> HIDE DEF t, n
<1>2. IsFiniteSet(DOMAIN s)
  BY <1>1, FS_Interval
<1>3. IsFiniteSet(Places(s, y))
  BY <1>2, FS_Subset DEF Places
<1>4. Cardinality(Places(s, y)) \in Nat
  BY <1>3, FS_CardinalityType
<1>5. ASSUME x # y PROVE Places(t, y) = Places(s, y)
  BY <1>1, <1>5 DEF Places
<1>6. ASSUME x = y PROVE Cardinality(Places(t, y)) = Cardinality(Places(s, y)) + 1
  <2>1. Places(t, y) = Places(s, y) \cup {n} /\ n \notin Places(s, y)
    BY <1>1, <1>6 DEF Places
  <2> QED
    BY <1>3, <2>1, FS_AddElement
<1> QED
  BY <1>3, <1>4, <1>5, <1>6 DEF t

LEMMA PlacesTail ==
    ASSUME NEW S, NEW s \in Seq(S), s # <<>>, NEW y
    PROVE  /\ Head(s) # y => Cardinality(Places(Tail(s), y)) = Cardinality(Places(s, y))
           /\ Head(s) = y => Cardinality(Places(Tail(s), y)) = Cardinality(Places(s, y)) - 1
<1> DEFINE t == Tail(s)
           later == Places(s, y) \ {1}
<1>1. /\ Head(s) = s[1] /\ 1 \in DOMAIN s
      /\ DOMAIN t \subseteq Nat
      /\ \A i \in DOMAIN t : i + 1 \in DOMAIN s /\ i + 1 # 1 /\ t[i] = s[i + 1]
      /\ \A i \in DOMAIN s : i = 1 \/ (i - 1 \in DOMAIN t /\ (i - 1) + 1 = i)
      /\ \A i, j \in DOMAIN t : i + 1 = j + 1 => i = j
  OBVIOUS
<1>2. IsFiniteSet(DOMAIN s)
  BY FS_Interval
<1> HIDE DEF t
<1>3. IsFiniteSet(Places(s, y)) /\ IsFiniteSet(later)
  BY <1>2, FS_Subset DEF Places
<1>4. Cardinality(Places(s, y)) \in Nat /\ Cardinality(later) \in Nat
  BY <1>3, FS_CardinalityType
<1>5. Cardinality(Places(t, y)) = Cardinality(later)
  <2> DEFINE f == [i \in Places(t, y) |-> i + 1]
  <2>1. ASSUME NEW i \in Places(t, y) PROVE i + 1 \in later
    BY <1>1 DEF Places
  <2>2. ASSUME NEW j \in later PROVE \E i \in Places(t, y) : f[i] = j
    <3>1. j - 1 \in Places(t, y) /\ (j - 1) + 1 = j
      BY <1>1 DEF Places
    <3> QED
      BY <3>1
  <2>3. \A i, j \in Places(t, y) : f[i] = f[j] => i = j
    BY <1>1 DEF Places
  <2>4. f \in Bijection(Places(t, y), later)
    BY <2>1, <2>2, <2>3, Fun_IsBij
  <2>5. f \in Bijection(Places(t, y), later) => ExistsBijection(Places(t, y), later)
    BY DEF ExistsBijection
  <2>6. ExistsBijection(later, Places(t, y))
    BY <2>4, <2>5, Fun_ExistsBijSymmetric
  <2> QED
    BY <1>3, <2>6, FS_Bijection DEF ExistsBijection
<1>6. CASE Head(s) # y
  <2>1. later = Places(s, y)
    BY <1>1, <1>6 DEF Places
  <2> QED
    BY <1>5, <1>6, <2>1 DEF t
<1>7. CASE Head(s) = y
  <2>1. 1 \in Places(s, y)
    BY <1>1, <1>7 DEF Places
  <2>2. Cardinality(later) = Cardinality(Places(s, y)) - 1
    BY <1>3, <2>1, FS_RemoveElement
  <2> QED
    BY <1>5, <1>7, <2>2 DEF t
<1> QED
  BY <1>6, <1>7
-----------------------------------------------------------------------------
(* The inductive invariant *)

GetOf(r) == [job |-> "get", request |-> r]

Waiting(r) == GetOf(r) \in Elems(httpRx)

Registered(r) == \E id \in RequestIds : requestMap[id] = r

ReadsUnderway == {m \in Elems(httpTx) \cup Elems(sensorRx) : m.cmd = "read"}

AnswersUnderway ==
    {a \in Elems(httpRx) : a.job = "answer"}
    \cup {a \in {answer} : sensorThread = "answering"}

(* Requests that have not yet got a number, and measurements that have not *)
(* yet been stored, fit into what is left.                                 *)
Numberless == {r \in Requests : query[r] = None \/ r \in inGet \/ Waiting(r)}

Budget ==
    /\ requestId + Cardinality(Numberless) <= Cardinality(Requests) + 1
    /\ \A s \in Configured : sensors[s] + Pending(s) <= MaxUpdates

(* A request is in one place at a time on its way to its reply, and there  *)
(* once.                                                                   *)
Stages ==
    \A r \in Requests :
        /\ query[r] = None => r \notin inGet /\ ~Waiting(r)
        /\ query[r] = None \/ r \in inGet \/ Waiting(r) =>
               ~Registered(r) /\ ~Replied(r)
        /\ r \in inGet => ~Waiting(r)
        /\ Registered(r) => ~Replied(r)

Unique ==
    /\ Once(httpRx, Gets)
    /\ \A i, j \in RequestIds :
           requestMap[i] = requestMap[j] /\ requestMap[i] # None => i = j

(* A number that was not yet given out is nowhere in use.                  *)
Numbered ==
    /\ \A id \in RequestIds : requestMap[id] # None => id < requestId
    /\ \A m \in ReadsUnderway \cup AnswersUnderway : m.id < requestId

(* What is underway under the number of a request belongs to it.           *)
Matched ==
    /\ \A m \in ReadsUnderway :
           requestMap[m.id] # None => m.sensor = query[requestMap[m.id]]
    /\ \A a \in AnswersUnderway :
           requestMap[a.id] # None =>
               /\ a.data.sensor = query[requestMap[a.id]]
               /\ a.data.sensor \in Configured =>
                      a.data.measured >= since[requestMap[a.id]][a.data.sensor]

(* NoEntryForgotten, in the words of the parts above.                      *)
EntriesUnderway ==
    \A id \in RequestIds :
        requestMap[id] # None =>
            \E m \in ReadsUnderway \cup AnswersUnderway : m.id = id

(* Measurements are counted up.                                            *)
Growing == \A r \in Requests, s \in Configured : since[r][s] <= sensors[s]

Rest ==
    /\ Stages
    /\ Unique
    /\ Numbered
    /\ Matched
    /\ EntriesUnderway
    /\ Growing
    /\ OneRightReply
    /\ Fresh

IInv == TypeOK /\ Budget /\ Rest

-----------------------------------------------------------------------------
(* What the steps do to the queues *)

HttpJobs == Gets \cup Answers \cup Callbacks
Messages == Reads \cup Writes

LEMMA PushFacts ==
    ASSUME TypeOK, NEW job \in HttpJobs, PushToHttp(job)
    PROVE  /\ httpRx' \in Seq(HttpJobs)
           /\ Elems(httpRx') = Elems(httpRx) \cup {job}
           /\ Once(httpRx, Gets) /\ (job \notin Elems(httpRx) \/ job \notin Gets)
                  => Once(httpRx', Gets)
<1>1. httpRx \in Seq(HttpJobs) /\ httpRx' = Append(httpRx, job)
  BY DEF TypeOK, HttpJobs, PushToHttp
<1> QED
  BY <1>1, AppendFacts, OnceAppend

LEMMA JobFacts ==
    ASSUME TypeOK, NEW jobs, Job(jobs)
    PROVE  /\ httpRx' \in Seq(HttpJobs)
           /\ Head(httpRx) \in jobs /\ Head(httpRx) \in HttpJobs
           /\ Elems(httpRx) = {Head(httpRx)} \cup Elems(httpRx')
           /\ Once(httpRx, Gets) =>
                  /\ Once(httpRx', Gets)
                  /\ Head(httpRx) \in Gets => Head(httpRx) \notin Elems(httpRx')
<1>1. /\ httpRx \in Seq(HttpJobs) /\ httpRx # <<>> /\ httpRx' = Tail(httpRx)
      /\ Head(httpRx) \in jobs
  BY DEF TypeOK, HttpJobs, Job
<1>2. /\ httpRx' \in Seq(HttpJobs) /\ Head(httpRx) \in HttpJobs
      /\ Elems(httpRx) = {Head(httpRx)} \cup Elems(httpRx')
  BY <1>1, TailFacts
<1>3. Once(httpRx, Gets) =>
          /\ Once(httpRx', Gets)
          /\ Head(httpRx) \in Gets => Head(httpRx) \notin Elems(httpRx')
  BY <1>1, OnceTail
<1> QED
  BY <1>1, <1>2, <1>3

LEMMA SensorPushFacts ==
    ASSUME TypeOK, NEW msg \in Messages, PushToSensorManager(msg)
    PROVE  /\ sensorRx' \in Seq(Messages)
           /\ Elems(sensorRx') = Elems(sensorRx) \cup {msg}
           /\ \A s \in Configured :
                  /\ Pending(s) \in Nat
                  /\ Pending(s)' = Pending(s) + IF msg = [cmd |-> "write", sensor |-> s]
                                                THEN 1 ELSE 0
<1>1. sensorRx \in Seq(Messages) /\ sensorRx' = Append(sensorRx, msg)
  BY DEF TypeOK, Messages, PushToSensorManager
<1>2. ASSUME NEW s \in Configured
      PROVE  /\ Pending(s) = Cardinality(Places(sensorRx, [cmd |-> "write", sensor |-> s]))
             /\ Pending(s)' = Cardinality(Places(sensorRx', [cmd |-> "write", sensor |-> s]))
  BY DEF Pending, Places
<1>3. ASSUME NEW s \in Configured
      PROVE  /\ Pending(s) \in Nat
             /\ Pending(s)' = Pending(s) + IF msg = [cmd |-> "write", sensor |-> s]
                                           THEN 1 ELSE 0
  <2> DEFINE w == [cmd |-> "write", sensor |-> s]
  <2> HIDE DEF w
  <2>1. /\ Cardinality(Places(sensorRx, w)) \in Nat
        /\ msg # w => Cardinality(Places(sensorRx', w)) = Cardinality(Places(sensorRx, w))
        /\ msg = w => Cardinality(Places(sensorRx', w)) = Cardinality(Places(sensorRx, w)) + 1
    BY <1>1, PlacesAppend
  <2> QED
    BY <1>2, <2>1 DEF w
<1> QED
  BY <1>1, <1>3, AppendFacts

LEMMA ReceivedFacts ==
    ASSUME TypeOK, NEW msgs, Received(msgs)
    PROVE  /\ sensorRx' \in Seq(Messages)
           /\ Head(sensorRx) \in msgs /\ Head(sensorRx) \in Messages
           /\ Elems(sensorRx) = {Head(sensorRx)} \cup Elems(sensorRx')
           /\ \A s \in Configured :
                  Pending(s)' = Pending(s) - IF Head(sensorRx) = [cmd |-> "write", sensor |-> s]
                                             THEN 1 ELSE 0
<1>1. /\ sensorRx \in Seq(Messages) /\ sensorRx # <<>> /\ sensorRx' = Tail(sensorRx)
      /\ Head(sensorRx) \in msgs
  BY DEF TypeOK, Messages, Received
<1>2. ASSUME NEW s \in Configured
      PROVE  /\ Pending(s) = Cardinality(Places(sensorRx, [cmd |-> "write", sensor |-> s]))
             /\ Pending(s)' = Cardinality(Places(sensorRx', [cmd |-> "write", sensor |-> s]))
  BY DEF Pending, Places
<1>3. ASSUME NEW s \in Configured
      PROVE  Pending(s)' = Pending(s) - IF Head(sensorRx) = [cmd |-> "write", sensor |-> s]
                                        THEN 1 ELSE 0
  <2> DEFINE w == [cmd |-> "write", sensor |-> s]
  <2>1. Cardinality(Places(sensorRx, w)) \in Nat
    BY <1>1, PlacesAppend
  <2> HIDE DEF w
  <2>2. /\ Head(sensorRx) # w => Cardinality(Places(sensorRx', w)) = Cardinality(Places(sensorRx, w))
        /\ Head(sensorRx) = w => Cardinality(Places(sensorRx', w)) = Cardinality(Places(sensorRx, w)) - 1
    BY <1>1, PlacesTail
  <2> QED
    BY <1>2, <2>1, <2>2 DEF w
<1>4. /\ sensorRx' \in Seq(Messages) /\ Head(sensorRx) \in Messages
      /\ Elems(sensorRx) = {Head(sensorRx)} \cup Elems(sensorRx')
  BY <1>1, TailFacts
<1> QED
  BY <1>1, <1>3, <1>4

(* A request that waits for a number will find one.                        *)
LEMMA NumberLeft ==
    ASSUME TypeOK, Budget, NEW r \in Requests, Waiting(r)
    PROVE  requestId \in RequestIds
<1>1. IsFiniteSet(Numberless)
  BY PoolAssumption, FS_Subset DEF Numberless
<1>2. r \in Numberless
  BY DEF Numberless
<1>3. Cardinality(Numberless) \in Nat \ {0}
  BY <1>1, <1>2, FS_CardinalityType, FS_EmptySet
<1>4. Cardinality(Requests) \in Nat
  BY PoolAssumption, FS_CardinalityType
<1>5. requestId \in Nat \ {0}
  BY <1>4 DEF TypeOK
<1> QED
  BY <1>3, <1>4, <1>5 DEF Budget, RequestIds

(* A read with its number and its sensor.                                  *)
LEMMA ReadOfRequest ==
    ASSUME TypeOK, Budget, Stages, NEW r \in Requests, Waiting(r), query[r] # Malformed
    PROVE  [cmd |-> "read", id |-> requestId, sensor |-> query[r]] \in Reads
<1>1. requestId \in RequestIds
  BY NumberLeft
<1>2. query[r] \in Configured \cup {Unknown}
  BY DEF Stages, TypeOK, Queries
<1> QED
  BY <1>1, <1>2 DEF Reads

LEMMA AnswerOfRead ==
    ASSUME TypeOK, NEW m \in Reads
    PROVE  /\ GetSensor(m.sensor) \in SensorData
           /\ GetSensor(m.sensor).sensor = m.sensor
           /\ m.sensor \in Configured => GetSensor(m.sensor).measured = sensors[m.sensor]
           /\ [job |-> "answer", id |-> m.id, data |-> GetSensor(m.sensor)] \in Answers
<1>1. m.sensor \in Configured \cup {Unknown} /\ m.id \in RequestIds
  BY DEF Reads
<1>2. CASE m.sensor \in Configured
  <2>1. sensors[m.sensor] \in 0..MaxUpdates
    BY <1>2 DEF TypeOK
  <2>2. GetSensor(m.sensor) = [sensor |-> m.sensor, measured |-> sensors[m.sensor]]
    BY <1>2 DEF GetSensor
  <2>3. GetSensor(m.sensor) \in SensorData
    BY <1>2, <2>1, <2>2 DEF SensorData
  <2> QED
    BY <1>1, <2>2, <2>3 DEF Answers
<1>3. CASE m.sensor \notin Configured
  <2>1. GetSensor(m.sensor) = DefaultSensor /\ m.sensor = Unknown
    BY <1>1, <1>3 DEF GetSensor
  <2>2. GetSensor(m.sensor) \in SensorData
    BY <2>1 DEF SensorData
  <2> QED
    BY <1>1, <1>3, <2>1, <2>2 DEF Answers, DefaultSensor
<1> QED
  BY <1>2, <1>3
-----------------------------------------------------------------------------
(* The initial state *)

LEMMA InvInit == Init => IInv
<1> SUFFICES ASSUME Init PROVE IInv
  OBVIOUS
<1>1. Cardinality(Requests) \in Nat
  BY PoolAssumption, FS_CardinalityType
<1>2. Elems(httpRx) = {} /\ Elems(httpTx) = {} /\ Elems(sensorRx) = {}
  BY DEF Init, Elems
<1>3. TypeOK
  <2>1. /\ query \in [Requests -> Queries \cup {None}]
        /\ inGet \in SUBSET Requests
        /\ httpThread \in {"idle", "busy", "callback", "waiting"}
        /\ requestId \in 1..(Cardinality(Requests) + 1)
        /\ requestMap \in [RequestIds -> Requests \cup {None}]
        /\ waitsFor \in Requests \cup {None}
        /\ waitsFor # None <=> httpThread = "waiting"
        /\ task \in [Requests -> {"none", "pending", "done", "failed"}]
        /\ sensorThread \in {"idle", "busy", "answering"}
    BY <1>1 DEF Init
  <2>2. /\ httpRx \in Seq(Gets \cup Answers \cup Callbacks)
        /\ httpTx \in Seq(Reads)
        /\ taskQueue \in Seq(Requests)
        /\ sensorRx \in Seq(Reads \cup Writes)
        /\ replies \in Seq([request : Requests, data : SensorData])
    BY DEF Init
  <2>3. /\ sensors \in [Configured -> 0..MaxUpdates]
        /\ since \in [Requests -> [Configured -> 0..MaxUpdates]]
    BY BoundAssumption DEF Init
  <2>4. answer \in Answers
    <3>1. Cardinality(Requests) # 0
      BY PoolAssumption, FS_EmptySet
    <3>2. 1 \in RequestIds
      BY <1>1, <3>1 DEF RequestIds
    <3>3. DefaultSensor \in SensorData
      BY DEF SensorData
    <3> QED
      BY <3>2, <3>3 DEF Init, NoAnswer, Answers
  <2> QED
    BY <2>1, <2>2, <2>3, <2>4 DEF TypeOK
<1>4. Budget
  <2>1. Numberless = Requests /\ requestId = 1
    BY DEF Init, Numberless
  <2>2. ASSUME NEW s \in Configured PROVE sensors[s] = 0 /\ Pending(s) = 0
    <3>1. {i \in DOMAIN sensorRx : sensorRx[i] = [cmd |-> "write", sensor |-> s]} = {}
      BY DEF Init
    <3> QED
      BY <3>1, FS_EmptySet DEF Init, Pending
  <2> QED
    BY <1>1, <2>1, <2>2, BoundAssumption DEF Budget
<1>5. Stages
  BY <1>2, NamesAssumption DEF Init, Stages, Waiting, Registered, Replied
<1>6. Unique /\ Numbered /\ Matched /\ Growing /\ EntriesUnderway
  BY <1>2 DEF Init, Unique, Once, Numbered, Matched, Growing, ReadsUnderway,
              AnswersUnderway, EntriesUnderway
<1>7. OneRightReply /\ Fresh
  BY DEF Init, OneRightReply, OneReply, RightSensor, Fresh
<1> QED
  BY <1>3, <1>4, <1>5, <1>6, <1>7 DEF IInv, Rest

-----------------------------------------------------------------------------
(* Types *)

LEMMA TypeStep == TypeOK /\ Budget /\ Stages /\ [Next]_vars => TypeOK'
<1> SUFFICES ASSUME TypeOK, Budget, Stages, [Next]_vars PROVE TypeOK'
  OBVIOUS
<1>q. query \in [Requests -> Queries \cup {None}] /\ inGet \in SUBSET Requests
  BY DEF TypeOK
<1>1. ASSUME NEW r \in Requests, Arrive(r) PROVE TypeOK'
  <2>1. query' \in [Requests -> Queries \cup {None}] /\ inGet' \in SUBSET Requests
    BY <1>1, <1>q DEF Arrive
  <2>2. since' \in [Requests -> [Configured -> 0..MaxUpdates]]
    BY <1>1 DEF Arrive, TypeOK
  <2> QED
    BY <1>1, <2>1, <2>2 DEF Arrive, TypeOK, http, sensorManager
<1>2. ASSUME NEW r \in Requests, get(r) PROVE TypeOK'
  <2>1. GetOf(r) \in HttpJobs
    BY DEF GetOf, Gets, HttpJobs
  <2>2. httpRx' \in Seq(HttpJobs)
    BY <1>2, <2>1, PushFacts DEF get, GetOf
  <2> QED
    BY <1>2, <2>2 DEF get, TypeOK, HttpJobs, http, sensorManager
<1>3. ASSUME NEW r \in Requests, ReplyEnds(r) PROVE TypeOK'
  BY <1>3 DEF ReplyEnds, TypeOK, library, http, sensorManager
<1>4. CASE Timer
  <2>1. [job |-> "callback"] \in HttpJobs
    BY DEF Callbacks, HttpJobs
  <2>2. httpRx' \in Seq(HttpJobs)
    BY <1>4, <2>1, PushFacts DEF Timer
  <2> QED
    BY <1>4, <2>2 DEF Timer, TypeOK, HttpJobs, library, http, sensorManager
<1>5. CASE Route
  <2>1. httpTx \in Seq(Reads) /\ httpTx # <<>>
    BY <1>5 DEF Route, TypeOK
  <2>2. Head(httpTx) \in Messages /\ Tail(httpTx) \in Seq(Reads)
    BY <2>1, TailFacts DEF Messages
  <2>3. sensorRx' \in Seq(Messages)
    BY <1>5, <2>2, SensorPushFacts DEF Route
  <2> QED
    BY <1>5, <2>2, <2>3 DEF Route, TypeOK, Messages, library, http, sensorManager
<1>6. CASE Measurement
  <2>1. PICK s \in Configured : PushToSensorManager([cmd |-> "write", sensor |-> s])
    BY <1>6 DEF Measurement
  <2>2. [cmd |-> "write", sensor |-> s] \in Messages
    BY DEF Messages, Writes
  <2>3. sensorRx' \in Seq(Messages)
    BY <2>1, <2>2, SensorPushFacts
  <2> QED
    BY <1>6, <2>3 DEF Measurement, TypeOK, Messages, library, http, sensorManager
<1>7. CASE WakeHttp \/ CallbackEnds \/ HttpDrained \/ WakeSensors \/ SensorsDrained
  BY <1>7 DEF WakeHttp, CallbackEnds, HttpDrained, WakeSensors, SensorsDrained,
              TypeOK, library, http, sensorManager
<1>8. CASE HandleIncomingRequest
  <2>1. PICK r \in Requests :
            /\ Job({GetOf(r)})
            /\ query[r] # Malformed
            /\ requestMap' = [requestMap EXCEPT ![requestId] = r]
            /\ requestId' = requestId + 1
            /\ httpTx' = Append(httpTx, [cmd |-> "read", id |-> requestId, sensor |-> query[r]])
            /\ UNCHANGED <<library, httpThread, taskQueue, waitsFor, task,
                           sensorManager, sensorRx, replies>>
    BY <1>8 DEF HandleIncomingRequest, GetOf
  <2>2. httpRx' \in Seq(HttpJobs) /\ Waiting(r)
    BY <2>1, JobFacts DEF Waiting
  <2>3. requestId \in RequestIds
    BY <2>2, NumberLeft
  <2>4. requestId' \in 1..(Cardinality(Requests) + 1)
    <3>1. Cardinality(Requests) \in Nat
      BY PoolAssumption, FS_CardinalityType
    <3> QED
      BY <2>1, <2>3, <3>1 DEF RequestIds
  <2>5. requestMap' \in [RequestIds -> Requests \cup {None}]
    BY <2>1, <2>3 DEF TypeOK
  <2>6. httpTx' \in Seq(Reads)
    <3>1. [cmd |-> "read", id |-> requestId, sensor |-> query[r]] \in Reads
      BY <2>1, <2>2, ReadOfRequest
    <3> QED
      BY <2>1, <3>1, AppendFacts DEF TypeOK
  <2> QED
    BY <2>1, <2>2, <2>4, <2>5, <2>6 DEF TypeOK, HttpJobs, library, sensorManager
<1>9. CASE IgnoreRequest
  <2>1. httpRx' \in Seq(HttpJobs)
    BY <1>9, JobFacts DEF IgnoreRequest
  <2> QED
    BY <1>9, <2>1 DEF IgnoreRequest, TypeOK, HttpJobs, library, http, sensorManager
<1>10. CASE Reply
  <2>1. PICK a \in Answers :
            /\ Job({a})
            /\ IF requestMap[a.id] # None
               THEN ReplyTo(requestMap[a.id], a.data)
               ELSE UNCHANGED <<task, taskQueue, replies>>
            /\ requestMap' = [requestMap EXCEPT ![a.id] = None]
            /\ UNCHANGED <<library, httpThread, requestId, waitsFor, httpTx,
                           sensorManager, sensorRx>>
    BY <1>10 DEF Reply
  <2>2. httpRx' \in Seq(HttpJobs)
    BY <2>1, JobFacts
  <2>3. a.id \in RequestIds /\ a.data \in SensorData
    BY DEF Answers
  <2>4. requestMap' \in [RequestIds -> Requests \cup {None}]
    BY <2>1, <2>3 DEF TypeOK
  <2>5. /\ task' \in [Requests -> {"none", "pending", "done", "failed"}]
        /\ taskQueue' \in Seq(Requests)
        /\ replies' \in Seq([request : Requests, data : SensorData])
    <3>1. CASE requestMap[a.id] # None
      <4>1. requestMap[a.id] \in Requests
        BY <2>3, <3>1 DEF TypeOK
      <4>2. ReplyTo(requestMap[a.id], a.data)
        BY <2>1, <3>1
      <4>3. [request |-> requestMap[a.id], data |-> a.data] \in [request : Requests, data : SensorData]
        BY <2>3, <4>1
      <4>4. task' \in [Requests -> {"none", "pending", "done", "failed"}]
        BY <4>1, <4>2 DEF ReplyTo, TypeOK
      <4>5. taskQueue' \in Seq(Requests)
        BY <4>1, <4>2, AppendFacts DEF ReplyTo, TypeOK
      <4>6. replies' \in Seq([request : Requests, data : SensorData])
        BY <4>2, <4>3, AppendFacts DEF ReplyTo, TypeOK
      <4> QED
        BY <4>4, <4>5, <4>6
    <3>2. CASE requestMap[a.id] = None
      BY <2>1, <3>2 DEF TypeOK
    <3> QED
      BY <3>1, <3>2
  <2> QED
    BY <2>1, <2>2, <2>4, <2>5 DEF TypeOK, HttpJobs, library, sensorManager
<1>11. CASE StartCallback
  <2>1. httpRx' \in Seq(HttpJobs)
    BY <1>11, JobFacts DEF StartCallback
  <2> QED
    BY <1>11, <2>1 DEF StartCallback, Job, TypeOK, HttpJobs, library, http, sensorManager
<1>12. CASE PopTask
  <2>1. taskQueue \in Seq(Requests) /\ taskQueue # <<>>
    BY <1>12 DEF PopTask, TypeOK
  <2>2. Head(taskQueue) \in Requests /\ taskQueue' \in Seq(Requests)
    BY <1>12, <2>1, TailFacts DEF PopTask
  <2>3. /\ httpThread' \in {"idle", "busy", "callback", "waiting"}
        /\ waitsFor' \in Requests \cup {None}
        /\ waitsFor' # None <=> httpThread' = "waiting"
    BY <1>12, <2>2, NamesAssumption DEF PopTask, TypeOK
  <2> QED
    BY <1>12, <2>2, <2>3 DEF PopTask, TypeOK, library, sensorManager
<1>13. CASE WaitEnds
  <2>1. /\ httpThread' \in {"idle", "busy", "callback", "waiting"}
        /\ waitsFor' \in Requests \cup {None}
        /\ waitsFor' # None <=> httpThread' = "waiting"
    BY <1>13 DEF WaitEnds
  <2> QED
    BY <1>13, <2>1 DEF WaitEnds, TypeOK, library, sensorManager
<1>14. CASE HandleWrite
  <2>1. PICK s \in Configured :
            /\ Received({[cmd |-> "write", sensor |-> s]})
            /\ sensors' = [sensors EXCEPT ![s] = @ + 1]
    BY <1>14 DEF HandleWrite
  <2>2. sensorRx' \in Seq(Messages) /\ Head(sensorRx) = [cmd |-> "write", sensor |-> s]
    BY <2>1, ReceivedFacts
  <2>3. Pending(s) > 0 /\ Pending(s) \in Nat
    <3>1. sensorRx \in Seq(Messages) /\ sensorRx # <<>>
      BY <2>1 DEF Received, TypeOK, Messages
    <3>2. 1 \in Places(sensorRx, Head(sensorRx))
      BY <3>1 DEF Places
    <3>3. Pending(s) = Cardinality(Places(sensorRx, Head(sensorRx)))
      BY <2>2 DEF Pending, Places
    <3>4. Head(sensorRx) \in Messages
      BY <3>1, TailFacts
    <3>5. IsFiniteSet(Places(sensorRx, Head(sensorRx)))
      BY <3>1, <3>4, PlacesAppend
    <3> QED
      BY <3>2, <3>3, <3>5, FS_EmptySet, FS_CardinalityType
  <2>4. sensors[s] + 1 \in 0..MaxUpdates
    BY <2>3, BoundAssumption DEF Budget, TypeOK
  <2>5. sensors' \in [Configured -> 0..MaxUpdates]
    BY <2>1, <2>4 DEF TypeOK
  <2> QED
    BY <1>14, <2>2, <2>5 DEF HandleWrite, TypeOK, Messages, library, http
<1>15. CASE HandleRead
  <2>1. PICK m \in Reads :
            /\ Received({m})
            /\ answer' = [job |-> "answer", id |-> m.id, data |-> GetSensor(m.sensor)]
            /\ sensorThread' = "answering"
    BY <1>15 DEF HandleRead
  <2>2. sensorRx' \in Seq(Messages) /\ answer' \in Answers
    BY <2>1, ReceivedFacts, AnswerOfRead
  <2> QED
    BY <1>15, <2>1, <2>2 DEF HandleRead, TypeOK, Messages, library, http
<1>16. CASE Answer
  <2>1. answer \in HttpJobs
    BY DEF TypeOK, HttpJobs
  <2>2. httpRx' \in Seq(HttpJobs)
    BY <1>16, <2>1, PushFacts DEF Answer
  <2> QED
    BY <1>16, <2>2 DEF Answer, TypeOK, HttpJobs, library, http
<1>17. CASE UNCHANGED vars
  BY <1>17 DEF TypeOK, vars, library, http, sensorManager
<1> QED
  BY <1>1, <1>2, <1>3, <1>4, <1>5, <1>6, <1>7, <1>8, <1>9, <1>10, <1>11, <1>12,
     <1>13, <1>14, <1>15, <1>16, <1>17 DEF Next, HttpThread, SensorThread
-----------------------------------------------------------------------------
(* Everything but the types and the budget *)

LEMMA ElemsType == ASSUME NEW S, NEW s \in Seq(S) PROVE Elems(s) \subseteq S
BY DEF Elems

LEMMA UnderwayTypes == TypeOK => ReadsUnderway \subseteq Reads /\ AnswersUnderway \subseteq Answers
<1> SUFFICES ASSUME TypeOK PROVE ReadsUnderway \subseteq Reads /\ AnswersUnderway \subseteq Answers
  OBVIOUS
<1>1. /\ Elems(httpTx) \subseteq Reads /\ Elems(sensorRx) \subseteq Reads \cup Writes
      /\ Elems(httpRx) \subseteq HttpJobs
  BY ElemsType DEF TypeOK, HttpJobs
<1>2. ReadsUnderway \subseteq Reads
  BY <1>1 DEF ReadsUnderway, Writes
<1>3. AnswersUnderway \subseteq Answers
  BY <1>1 DEF AnswersUnderway, HttpJobs, Gets, Callbacks, TypeOK
<1> QED
  BY <1>2, <1>3

LEMMA ReplyTypes ==
    ASSUME TypeOK
    PROVE  \A i \in DOMAIN replies :
               replies[i].request \in Requests /\ replies[i].data \in SensorData
<1> DEFINE R == [request : Requests, data : SensorData]
<1>1. replies \in Seq(R)
  BY DEF TypeOK
<1> HIDE DEF R
<1>2. \A i \in DOMAIN replies : replies[i] \in R
  BY <1>1
<1> QED
  BY <1>2 DEF R

(* Steps that move jobs and messages on, or store a measurement.           *)
LEMMA Moved ==
    ASSUME TypeOK, TypeOK', Rest,
           UNCHANGED <<query, inGet, since, requestMap, requestId, replies>>,
           \A r \in Requests : Waiting(r)' <=> Waiting(r),
           Once(httpRx, Gets)',
           ReadsUnderway' = ReadsUnderway,
           AnswersUnderway' = AnswersUnderway,
           \A s \in Configured : sensors'[s] >= sensors[s]
    PROVE  Rest'
<1>1. Stages'
  BY DEF Rest, Stages, Registered, Replied
<1>2. Unique'
  BY DEF Rest, Unique
<1>3. Numbered' /\ Matched' /\ EntriesUnderway'
  BY DEF Rest, Numbered, Matched, EntriesUnderway
<1>4. Growing'
  <2>1. ASSUME NEW r \in Requests, NEW s \in Configured
        PROVE  /\ since[r][s] \in Nat /\ sensors[s] \in Nat /\ sensors'[s] \in Nat
               /\ since'[r][s] = since[r][s] /\ sensors'[s] >= sensors[s]
               /\ since[r][s] <= sensors[s]
    BY DEF TypeOK, Rest, Growing
  <2>2. ASSUME NEW r \in Requests, NEW s \in Configured
        PROVE  since'[r][s] <= sensors'[s]
    BY <2>1
  <2> QED
    BY <2>2 DEF Growing
<1>5. OneRightReply' /\ Fresh'
  BY DEF Rest, OneRightReply, OneReply, RightSensor, Fresh
<1> QED
  BY <1>1, <1>2, <1>3, <1>4, <1>5 DEF Rest
LEMMA RestArrive ==
    ASSUME TypeOK, TypeOK', Rest, NEW r \in Requests, Arrive(r)
    PROVE  Rest'
<1>1. /\ query[r] = None /\ r \in DOMAIN query
      /\ \E q \in Queries : query' = [query EXCEPT ![r] = q]
      /\ since' = [since EXCEPT ![r] = sensors]
      /\ inGet' = inGet \cup {r}
      /\ UNCHANGED <<httpRx, httpTx, sensorRx, sensorThread, answer, sensors,
                     requestId, requestMap, replies>>
  BY DEF Arrive, TypeOK, http, sensorManager
<1>2. query'[r] # None /\ \A t \in Requests \ {r} : query'[t] = query[t] /\ since'[t] = since[t]
  BY <1>1, NamesAssumption DEF Queries, TypeOK
<1>3. r \notin inGet /\ ~Waiting(r) /\ ~Registered(r) /\ ~Replied(r)
  BY <1>1 DEF Rest, Stages
<1>4. /\ \A t \in Requests : /\ Waiting(t)' <=> Waiting(t)
                             /\ Registered(t)' <=> Registered(t)
                             /\ Replied(t)' <=> Replied(t)
      /\ ReadsUnderway' = ReadsUnderway /\ AnswersUnderway' = AnswersUnderway
  BY <1>1 DEF Waiting, Registered, Replied, ReadsUnderway, AnswersUnderway
<1>5. Stages'
  BY <1>1, <1>2, <1>3, <1>4 DEF Rest, Stages
<1>6. Unique' /\ Numbered' /\ EntriesUnderway'
  BY <1>1, <1>4 DEF Rest, Unique, Once, Numbered, EntriesUnderway
<1>7. Matched'
  <2>1. \A id \in RequestIds : requestMap[id] # None => requestMap[id] \in Requests \ {r}
    BY <1>3 DEF Registered, TypeOK
  <2>2. /\ \A m \in ReadsUnderway : m.id \in RequestIds
        /\ \A a \in AnswersUnderway : a.id \in RequestIds
    BY UnderwayTypes DEF Reads, Answers
  <2> QED
    BY <1>1, <1>2, <1>4, <2>1, <2>2 DEF Rest, Matched
<1>8. Growing'
  <2>1. \A s \in Configured : since'[r][s] = sensors[s] /\ sensors[s] \in Nat
    BY <1>1 DEF TypeOK
  <2>2. \A t \in Requests : t = r \/ since'[t] = since[t]
    BY <1>2
  <2> QED
    BY <1>1, <2>1, <2>2 DEF Rest, Growing
<1>9. OneRightReply' /\ Fresh'
  <2>1. \A i \in DOMAIN replies : replies[i].request \in Requests \ {r}
    BY <1>3, ReplyTypes DEF Replied
  <2>2. OneReply' /\ RightSensor'
    BY <1>1, <1>2, <2>1 DEF Rest, OneRightReply, OneReply, RightSensor
  <2>3. Fresh'
    BY <1>1, <1>2, <2>1 DEF Rest, Fresh
  <2> QED
    BY <2>2, <2>3 DEF OneRightReply
<1> QED
  BY <1>5, <1>6, <1>7, <1>8, <1>9 DEF Rest

LEMMA RestGet ==
    ASSUME TypeOK, TypeOK', Rest, NEW r \in Requests, get(r)
    PROVE  Rest'
<1>1. /\ r \in inGet /\ inGet' = inGet \ {r} /\ PushToHttp(GetOf(r))
      /\ UNCHANGED <<query, since, httpTx, sensorRx, sensorThread, answer, sensors,
                     requestId, requestMap, replies>>
  BY DEF get, GetOf, http, sensorManager
<1>2. /\ query[r] # None /\ ~Waiting(r) /\ ~Registered(r) /\ ~Replied(r)
  BY <1>1 DEF Rest, Stages
<1>3. GetOf(r) \in HttpJobs
  BY DEF GetOf, Gets, HttpJobs
<1>4. Elems(httpRx') = Elems(httpRx) \cup {GetOf(r)} /\ Once(httpRx', Gets)
  BY <1>1, <1>2, <1>3, PushFacts DEF Waiting, Rest, Unique
<1>5. /\ \A t \in Requests : /\ Waiting(t)' <=> Waiting(t) \/ t = r
                             /\ Registered(t)' <=> Registered(t)
                             /\ Replied(t)' <=> Replied(t)
      /\ ReadsUnderway' = ReadsUnderway /\ AnswersUnderway' = AnswersUnderway
  <2>1. \A t \in Requests : GetOf(t) = GetOf(r) => t = r
    BY DEF GetOf
  <2>2. GetOf(r).job # "answer"
    BY DEF GetOf
  <2>3. \A t \in Requests : Waiting(t)' <=> Waiting(t) \/ t = r
    BY <1>4, <2>1 DEF Waiting
  <2>4. AnswersUnderway' = AnswersUnderway
    BY <1>1, <1>4, <2>2 DEF AnswersUnderway
  <2> QED
    BY <1>1, <2>3, <2>4 DEF Registered, Replied, ReadsUnderway
<1>6. Stages'
  BY <1>1, <1>2, <1>5 DEF Rest, Stages
<1>7. Unique'
  BY <1>1, <1>4 DEF Rest, Unique
<1>8. Numbered' /\ Matched' /\ EntriesUnderway'
  BY <1>1, <1>5 DEF Rest, Numbered, Matched, EntriesUnderway
<1>9. Growing' /\ OneRightReply' /\ Fresh'
  BY <1>1 DEF Rest, Growing, OneRightReply, OneReply, RightSensor, Fresh
<1> QED
  BY <1>6, <1>7, <1>8, <1>9 DEF Rest

LEMMA RestRegister ==
    ASSUME TypeOK, TypeOK', Budget, Rest, HandleIncomingRequest
    PROVE  Rest'
<1> DEFINE read(r) == [cmd |-> "read", id |-> requestId, sensor |-> query[r]]
<1>1. PICK r \in Requests :
          /\ Job({GetOf(r)})
          /\ query[r] # Malformed
          /\ requestMap' = [requestMap EXCEPT ![requestId] = r]
          /\ requestId' = requestId + 1
          /\ httpTx' = Append(httpTx, read(r))
          /\ UNCHANGED <<library, sensorManager, sensorRx, replies>>
  BY DEF HandleIncomingRequest, GetOf
<1>2. /\ Head(httpRx) = GetOf(r) /\ GetOf(r) \in Gets
      /\ Elems(httpRx) = {GetOf(r)} \cup Elems(httpRx')
      /\ Once(httpRx', Gets) /\ GetOf(r) \notin Elems(httpRx')
  <2>1. GetOf(r) \in Gets
    BY DEF GetOf, Gets
  <2>2. Job({GetOf(r)}) /\ Once(httpRx, Gets)
    BY <1>1 DEF Rest, Unique
  <2>3. /\ Head(httpRx) \in {GetOf(r)}
        /\ Elems(httpRx) = {Head(httpRx)} \cup Elems(httpRx')
        /\ Once(httpRx', Gets)
        /\ Head(httpRx) \in Gets => Head(httpRx) \notin Elems(httpRx')
    BY <2>2, JobFacts
  <2> QED
    BY <2>1, <2>3
<1>3. Waiting(r)
  BY <1>2 DEF Waiting
<1>4. /\ query[r] # None /\ r \notin inGet /\ ~Registered(r) /\ ~Replied(r)
  BY <1>3 DEF Rest, Stages
<1>5. requestId \in RequestIds
  BY <1>3, NumberLeft
<1>6. read(r) \in Reads /\ read(r).id = requestId /\ read(r).sensor = query[r] /\ read(r).cmd = "read"
  BY <1>1, <1>3, ReadOfRequest DEF Rest
<1> HIDE DEF read
<1>7. /\ UNCHANGED <<query, inGet, since, sensorThread, sensors, answer, sensorRx, replies>>
      /\ requestMap'[requestId] = r
      /\ \A id \in RequestIds \ {requestId} : requestMap'[id] = requestMap[id]
  BY <1>1, <1>5 DEF library, sensorManager, TypeOK
<1>8. requestMap[requestId] = None
  <2>1. requestId \in Nat
    BY <1>5 DEF RequestIds
  <2> QED
    BY <1>5, <2>1 DEF Rest, Numbered
<1>9. /\ ReadsUnderway' = ReadsUnderway \cup {read(r)}
      /\ AnswersUnderway' = AnswersUnderway
  <2>1. Elems(httpTx') = Elems(httpTx) \cup {read(r)}
    BY <1>1, <1>6, AppendFacts DEF TypeOK
  <2>2. GetOf(r).job # "answer"
    BY DEF GetOf
  <2>3. ReadsUnderway' = ReadsUnderway \cup {read(r)}
    BY <1>6, <1>7, <2>1 DEF ReadsUnderway
  <2> QED
    BY <1>2, <1>7, <2>2, <2>3 DEF AnswersUnderway
<1>10. \A t \in Requests : /\ Waiting(t)' <=> Waiting(t) /\ t # r
                           /\ Registered(t)' <=> Registered(t) \/ t = r
                           /\ Replied(t)' <=> Replied(t)
  <2>1. \A t \in Requests : GetOf(t) = GetOf(r) => t = r
    BY DEF GetOf
  <2>2. \A t \in Requests : Waiting(t)' <=> Waiting(t) /\ t # r
    BY <1>2, <2>1 DEF Waiting
  <2>3. \A t \in Requests : Registered(t)' <=> Registered(t) \/ t = r
    BY <1>5, <1>7, <1>8, NamesAssumption DEF Registered
  <2>4. \A t \in Requests : Replied(t)' <=> Replied(t)
    BY <1>7 DEF Replied
  <2> QED
    BY <2>2, <2>3, <2>4
<1>11. Stages'
  BY <1>4, <1>7, <1>10 DEF Rest, Stages
<1>12. Unique'
  <2>1. \A id \in RequestIds \ {requestId} : requestMap'[id] # r
    BY <1>4, <1>7 DEF Registered
  <2>2. \A i, j \in RequestIds :
            requestMap'[i] = requestMap'[j] /\ requestMap'[i] # None => i = j
    BY <1>7, <2>1 DEF Rest, Unique
  <2> QED
    BY <1>2, <2>2 DEF Unique
<1>13. Numbered'
  <2>1. \A id \in RequestIds : id \in Nat
    BY DEF RequestIds
  <2>2. \A m \in ReadsUnderway \cup AnswersUnderway : m.id \in RequestIds
    BY UnderwayTypes DEF Reads, Answers
  <2>3. \A id \in RequestIds : requestMap'[id] # None => id < requestId + 1
    BY <1>5, <1>7, <2>1 DEF Rest, Numbered
  <2>4. \A m \in ReadsUnderway \cup AnswersUnderway \cup {read(r)} : m.id < requestId + 1
    BY <1>5, <1>6, <2>1, <2>2 DEF Rest, Numbered
  <2> QED
    BY <1>1, <1>9, <2>3, <2>4 DEF Numbered
<1>14. Matched'
  <2>1. \A m \in ReadsUnderway \cup AnswersUnderway : m.id \in RequestIds \ {requestId}
    <3>1. \A m \in ReadsUnderway \cup AnswersUnderway : m.id \in RequestIds
      BY UnderwayTypes DEF Reads, Answers
    <3>2. \A m \in ReadsUnderway \cup AnswersUnderway : m.id # requestId
      BY <1>5, <3>1 DEF Rest, Numbered, RequestIds
    <3> QED
      BY <3>1, <3>2
  <2>2. ASSUME NEW m \in ReadsUnderway \cup {read(r)}, requestMap'[m.id] # None
        PROVE  m.sensor = query[requestMap'[m.id]]
    BY <1>6, <1>7, <2>1, <2>2 DEF Rest, Matched
  <2>3. ASSUME NEW a \in AnswersUnderway, requestMap'[a.id] # None
        PROVE  /\ a.data.sensor = query[requestMap'[a.id]]
               /\ a.data.sensor \in Configured =>
                      a.data.measured >= since[requestMap'[a.id]][a.data.sensor]
    BY <1>7, <2>1, <2>3 DEF Rest, Matched
  <2> QED
    BY <1>7, <1>9, <2>2, <2>3 DEF Matched
<1>15. EntriesUnderway'
  BY <1>6, <1>7, <1>9 DEF Rest, EntriesUnderway
<1>16. Growing' /\ OneRightReply' /\ Fresh'
  BY <1>7 DEF Rest, Growing, OneRightReply, OneReply, RightSensor, Fresh
<1> QED
  BY <1>11, <1>12, <1>13, <1>14, <1>15, <1>16 DEF Rest

LEMMA RestIgnore ==
    ASSUME TypeOK, TypeOK', Rest, IgnoreRequest
    PROVE  Rest'
<1>1. PICK r \in Requests :
          /\ Job({GetOf(r)})
          /\ UNCHANGED <<library, http, httpTx, sensorManager, sensorRx, replies>>
  BY DEF IgnoreRequest, GetOf
<1>2. /\ Head(httpRx) = GetOf(r) /\ GetOf(r) \in Gets
      /\ Elems(httpRx) = {GetOf(r)} \cup Elems(httpRx')
      /\ Once(httpRx', Gets)
  BY <1>1, JobFacts DEF Rest, Unique, GetOf, Gets
<1>3. UNCHANGED <<query, inGet, since, httpTx, sensorRx, sensorThread, answer,
                  sensors, requestId, requestMap, replies>>
  BY <1>1 DEF library, http, sensorManager
<1>4. /\ \A t \in Requests : Waiting(t)' => Waiting(t)
      /\ ReadsUnderway' = ReadsUnderway /\ AnswersUnderway' = AnswersUnderway
  <2>1. GetOf(r).job # "answer"
    BY DEF GetOf
  <2> QED
    BY <1>2, <1>3, <2>1 DEF Waiting, ReadsUnderway, AnswersUnderway
<1>5. Stages'
  BY <1>3, <1>4 DEF Rest, Stages, Registered, Replied
<1>6. Unique'
  BY <1>2, <1>3 DEF Rest, Unique
<1>7. Numbered' /\ Matched' /\ EntriesUnderway'
  BY <1>3, <1>4 DEF Rest, Numbered, Matched, EntriesUnderway
<1>8. Growing' /\ OneRightReply' /\ Fresh'
  BY <1>3 DEF Rest, Growing, OneRightReply, OneReply, RightSensor, Fresh
<1> QED
  BY <1>5, <1>6, <1>7, <1>8 DEF Rest
LEMMA RestReply ==
    ASSUME TypeOK, TypeOK', Rest, Reply
    PROVE  Rest'
<1>1. PICK a \in Answers :
          /\ Job({a})
          /\ IF requestMap[a.id] # None
             THEN ReplyTo(requestMap[a.id], a.data)
             ELSE UNCHANGED <<task, taskQueue, replies>>
          /\ requestMap' = [requestMap EXCEPT ![a.id] = None]
          /\ UNCHANGED <<library, requestId, httpTx, sensorManager, sensorRx>>
  BY DEF Reply
<1>2. /\ Elems(httpRx) = {a} \cup Elems(httpRx')
      /\ Once(httpRx', Gets)
  <2>1. Job({a}) /\ Once(httpRx, Gets)
    BY <1>1 DEF Rest, Unique
  <2>2. /\ Head(httpRx) \in {a}
        /\ Elems(httpRx) = {Head(httpRx)} \cup Elems(httpRx')
        /\ Once(httpRx', Gets)
    BY <2>1, JobFacts
  <2> QED
    BY <2>2
<1>3. a.job = "answer" /\ a.id \in RequestIds /\ a.data \in SensorData
  BY DEF Answers
<1>4. /\ UNCHANGED <<query, inGet, since, sensorThread, sensors, answer, sensorRx,
                     httpTx, requestId>>
      /\ requestMap'[a.id] = None
      /\ \A id \in RequestIds \ {a.id} : requestMap'[id] = requestMap[id]
  BY <1>1, <1>3 DEF library, sensorManager, TypeOK
<1>5. /\ a \in AnswersUnderway
      /\ AnswersUnderway' \subseteq AnswersUnderway
      /\ AnswersUnderway \subseteq AnswersUnderway' \cup {a}
      /\ ReadsUnderway' = ReadsUnderway
  BY <1>2, <1>3, <1>4 DEF AnswersUnderway, ReadsUnderway
<1>6. \A t \in Requests : /\ Waiting(t)' <=> Waiting(t)
                          /\ Registered(t)' => Registered(t)
  <2>1. \A t \in Requests : GetOf(t) # a
    BY <1>3 DEF GetOf
  <2>2. \A t \in Requests : Waiting(t)' <=> Waiting(t)
    BY <1>2, <2>1 DEF Waiting
  <2>3. \A t \in Requests : Registered(t)' => Registered(t)
    BY <1>4, NamesAssumption DEF Registered
  <2> QED
    BY <2>2, <2>3
<1>7. Unique'
  BY <1>2, <1>4 DEF Rest, Unique
<1>8. Numbered' /\ Matched'
  <2>1. \A m \in ReadsUnderway \cup AnswersUnderway : m.id \in RequestIds
    BY UnderwayTypes DEF Reads, Answers
  <2>2. Numbered'
    BY <1>4, <1>5 DEF Rest, Numbered
  <2>3. Matched'
    BY <1>4, <1>5, <2>1 DEF Rest, Matched
  <2> QED
    BY <2>2, <2>3
<1>9. EntriesUnderway'
  BY <1>4, <1>5 DEF Rest, EntriesUnderway
<1>10. Growing'
  BY <1>4 DEF Rest, Growing
<1>11. CASE requestMap[a.id] = None
  <2>1. replies' = replies
    BY <1>1, <1>11
  <2>2. Stages'
    BY <1>4, <1>6, <2>1 DEF Rest, Stages, Replied
  <2>3. OneRightReply' /\ Fresh'
    BY <1>4, <2>1 DEF Rest, OneRightReply, OneReply, RightSensor, Fresh
  <2> QED
    BY <1>7, <1>8, <1>9, <1>10, <2>2, <2>3 DEF Rest
<1>12. CASE requestMap[a.id] # None
  <2>0. PICK r \in Requests : r = requestMap[a.id]
    BY <1>3, <1>12 DEF TypeOK
  <2> DEFINE reply == [request |-> r, data |-> a.data]
             n == Len(replies) + 1
  <2>1. Registered(r) /\ ~Replied(r)
    BY <1>3, <2>0 DEF Registered, Rest, Stages
  <2>2. replies' = Append(replies, reply)
    BY <1>1, <1>12, <2>0 DEF ReplyTo
  <2>3. reply \in [request : Requests, data : SensorData]
    BY <1>3
  <2>4. reply.request = r /\ reply.data = a.data
    OBVIOUS
  <2>5. /\ a.data.sensor = query[r]
        /\ a.data.sensor \in Configured => a.data.measured >= since[r][a.data.sensor]
    BY <1>5, <1>12, <2>0 DEF Rest, Matched
  <2>6. ~Registered(r)'
    <3>1. \A id \in RequestIds : requestMap[id] = r /\ r # None => id = a.id
      BY <1>3, <2>0 DEF Rest, Unique
    <3>2. r # None
      BY <1>12, <2>0
    <3>3. \A id \in RequestIds : requestMap'[id] # r
      BY <1>4, <3>1, <3>2
    <3> QED
      BY <1>4, <3>3 DEF Registered
  <2> HIDE DEF reply
  <2>7. /\ DOMAIN replies' = DOMAIN replies \cup {n} /\ n \notin DOMAIN replies
        /\ replies'[n] = reply
        /\ \A i \in DOMAIN replies : replies'[i] = replies[i]
    <3>1. replies \in Seq([request : Requests, data : SensorData])
      BY DEF TypeOK
    <3> QED
      BY <2>2, <2>3, <3>1
  <2> HIDE DEF n
  <2>8. \A t \in Requests : Replied(t)' <=> Replied(t) \/ t = r
    BY <2>4, <2>7 DEF Replied
  <2>9. Stages'
    <3>1. query[r] # None /\ r \notin inGet /\ ~Waiting(r)
      BY <2>1 DEF Rest, Stages
    <3>2. ASSUME NEW t \in Requests
          PROVE  /\ query'[t] = None => t \notin inGet' /\ ~Waiting(t)'
                 /\ query'[t] = None \/ t \in inGet' \/ Waiting(t)' =>
                        ~Registered(t)' /\ ~Replied(t)'
                 /\ t \in inGet' => ~Waiting(t)'
                 /\ Registered(t)' => ~Replied(t)'
      <4>1. CASE t = r
        BY <1>4, <1>6, <2>1, <2>6, <3>1, <4>1
      <4>2. CASE t # r
        BY <1>4, <1>6, <2>8, <4>2 DEF Rest, Stages
      <4> QED
        BY <4>1, <4>2
    <3> QED
      BY <3>2 DEF Stages
  <2>10. OneReply'
    <3>1. \A i \in DOMAIN replies : replies[i].request # r
      BY <2>1 DEF Replied
    <3> QED
      BY <2>4, <2>7, <3>1 DEF Rest, OneRightReply, OneReply
  <2>11. RightSensor'
    BY <1>4, <2>4, <2>5, <2>7 DEF Rest, OneRightReply, RightSensor
  <2>12. Fresh'
    BY <1>4, <2>4, <2>5, <2>7 DEF Rest, Fresh
  <2> QED
    BY <1>7, <1>8, <1>9, <1>10, <2>9, <2>10, <2>11, <2>12 DEF Rest, OneRightReply
<1> QED
  BY <1>11, <1>12

LEMMA RestRead ==
    ASSUME TypeOK, TypeOK', Rest, HandleRead
    PROVE  Rest'
<1>1. PICK m \in Reads :
          /\ Received({m})
          /\ answer' = [job |-> "answer", id |-> m.id, data |-> GetSensor(m.sensor)]
          /\ sensorThread' = "answering"
          /\ UNCHANGED <<library, http, httpRx, httpTx, sensors, replies>>
  BY DEF HandleRead
<1>2. Elems(sensorRx) = {m} \cup Elems(sensorRx')
  <2>1. /\ Head(sensorRx) \in {m}
        /\ Elems(sensorRx) = {Head(sensorRx)} \cup Elems(sensorRx')
    BY <1>1, ReceivedFacts
  <2> QED
    BY <2>1
<1>3. /\ UNCHANGED <<query, inGet, since, httpRx, httpTx, sensors, requestId,
                     requestMap, replies>>
      /\ sensorThread = "busy"
  BY <1>1 DEF library, http, Received
<1>4. m.cmd = "read" /\ m.id \in RequestIds
  BY DEF Reads
<1>5. /\ m \in ReadsUnderway
      /\ ReadsUnderway' \subseteq ReadsUnderway
      /\ ReadsUnderway \subseteq ReadsUnderway' \cup {m}
      /\ AnswersUnderway' = AnswersUnderway \cup {answer'}
  BY <1>1, <1>2, <1>3, <1>4 DEF ReadsUnderway, AnswersUnderway
<1>6. /\ answer'.id = m.id
      /\ answer'.data.sensor = m.sensor
      /\ m.sensor \in Configured => answer'.data.measured = sensors[m.sensor]
  BY <1>1, AnswerOfRead
<1>7. Stages' /\ Unique'
  BY <1>3 DEF Rest, Stages, Unique, Once, Waiting, Registered, Replied
<1>8. Numbered'
  BY <1>3, <1>5, <1>6 DEF Rest, Numbered
<1>9. Matched'
  <2>1. ASSUME requestMap[m.id] # None
        PROVE  /\ answer'.data.sensor = query[requestMap[m.id]]
               /\ answer'.data.sensor \in Configured =>
                      answer'.data.measured >= since[requestMap[m.id]][answer'.data.sensor]
    <3>1. answer'.data.sensor = query[requestMap[m.id]]
      BY <1>5, <1>6, <2>1 DEF Rest, Matched
    <3>2. requestMap[m.id] \in Requests
      BY <1>4, <2>1 DEF TypeOK
    <3>3. ASSUME m.sensor \in Configured
          PROVE  answer'.data.measured >= since[requestMap[m.id]][m.sensor]
      <4>1. since[requestMap[m.id]][m.sensor] <= sensors[m.sensor]
        BY <3>2, <3>3 DEF Rest, Growing
      <4>2. since[requestMap[m.id]][m.sensor] \in Nat /\ sensors[m.sensor] \in Nat
        BY <3>2, <3>3 DEF TypeOK
      <4> QED
        BY <1>6, <3>3, <4>1, <4>2
    <3> QED
      BY <1>6, <3>1, <3>3
  <2>2. ASSUME NEW x \in ReadsUnderway', requestMap[x.id] # None
        PROVE  x.sensor = query[requestMap[x.id]]
    BY <1>5, <2>2 DEF Rest, Matched
  <2>3. ASSUME NEW x \in AnswersUnderway', requestMap[x.id] # None
        PROVE  /\ x.data.sensor = query[requestMap[x.id]]
               /\ x.data.sensor \in Configured =>
                      x.data.measured >= since[requestMap[x.id]][x.data.sensor]
    <3>1. CASE x = answer'
      BY <1>6, <2>1, <2>3, <3>1
    <3>2. CASE x \in AnswersUnderway
      BY <2>3, <3>2 DEF Rest, Matched
    <3> QED
      BY <1>5, <3>1, <3>2
  <2> QED
    BY <1>3, <2>2, <2>3 DEF Matched
<1>10. EntriesUnderway'
  BY <1>3, <1>5, <1>6 DEF Rest, EntriesUnderway
<1>11. Growing' /\ OneRightReply' /\ Fresh'
  BY <1>3 DEF Rest, Growing, OneRightReply, OneReply, RightSensor, Fresh
<1> QED
  BY <1>7, <1>8, <1>9, <1>10, <1>11 DEF Rest
-----------------------------------------------------------------------------
(* The steps that only move something on *)

Kept ==
    /\ UNCHANGED <<query, inGet, since, requestMap, requestId, replies>>
    /\ \A r \in Requests : Waiting(r)' <=> Waiting(r)
    /\ Once(httpRx, Gets)'
    /\ ReadsUnderway' = ReadsUnderway
    /\ AnswersUnderway' = AnswersUnderway
    /\ \A s \in Configured : sensors'[s] >= sensors[s]

LEMMA SensorsAreNumbers == TypeOK => \A s \in Configured : sensors[s] \in Nat /\ sensors[s] >= sensors[s]
BY DEF TypeOK

LEMMA KeptQuiet ==
    ASSUME TypeOK, Rest,
           UNCHANGED <<query, inGet, since, requestMap, requestId, replies, httpRx,
                       httpTx, sensorRx, sensors, answer>>,
           (sensorThread = "answering")' <=> sensorThread = "answering"
    PROVE  Kept
<1>1. Once(httpRx, Gets)'
  BY DEF Rest, Unique
<1>2. \A s \in Configured : sensors'[s] >= sensors[s]
  BY SensorsAreNumbers
<1> QED
  BY <1>1, <1>2 DEF Kept, Waiting, ReadsUnderway, AnswersUnderway

LEMMA KeptTimer ==
    ASSUME TypeOK, Rest, Timer
    PROVE  Kept
<1> DEFINE job == [job |-> "callback"]
<1>1. /\ PushToHttp(job)
      /\ UNCHANGED <<query, inGet, since, requestMap, requestId, replies, httpTx,
                     sensorRx, sensorThread, sensors, answer>>
  BY DEF Timer, library, http, sensorManager
<1>2. job \in HttpJobs /\ job.job = "callback"
  BY DEF Callbacks, HttpJobs
<1> HIDE DEF job
<1>3. job \notin Gets /\ \A r \in Requests : GetOf(r) # job
  BY <1>2 DEF Gets, GetOf
<1>4. Elems(httpRx') = Elems(httpRx) \cup {job} /\ Once(httpRx', Gets)
  BY <1>1, <1>2, <1>3, PushFacts DEF Rest, Unique
<1>5. AnswersUnderway' = AnswersUnderway
  BY <1>1, <1>2, <1>4 DEF AnswersUnderway
<1>6. \A r \in Requests : Waiting(r)' <=> Waiting(r)
  BY <1>3, <1>4 DEF Waiting
<1> QED
  BY <1>1, <1>4, <1>5, <1>6, SensorsAreNumbers DEF Kept, ReadsUnderway

LEMMA KeptCallback ==
    ASSUME TypeOK, Rest, StartCallback
    PROVE  Kept
<1>1. /\ Job(Callbacks)
      /\ UNCHANGED <<query, inGet, since, requestMap, requestId, replies, httpTx,
                     sensorRx, sensorThread, sensors, answer>>
  BY DEF StartCallback, library, sensorManager
<1>2. PICK job \in Callbacks :
          Elems(httpRx) = Elems(httpRx') \cup {job} /\ Once(httpRx', Gets)
  BY <1>1, JobFacts DEF Rest, Unique
<1>3. job.job = "callback" /\ \A r \in Requests : GetOf(r) # job
  BY DEF Callbacks, GetOf
<1>4. AnswersUnderway' = AnswersUnderway
  BY <1>1, <1>2, <1>3 DEF AnswersUnderway
<1>5. \A r \in Requests : Waiting(r)' <=> Waiting(r)
  BY <1>2, <1>3 DEF Waiting
<1> QED
  BY <1>1, <1>2, <1>4, <1>5, SensorsAreNumbers DEF Kept, ReadsUnderway

LEMMA KeptRoute ==
    ASSUME TypeOK, Rest, Route
    PROVE  Kept
<1>1. /\ httpTx # <<>> /\ httpTx \in Seq(Reads) /\ httpTx' = Tail(httpTx)
      /\ PushToSensorManager(Head(httpTx))
      /\ UNCHANGED <<query, inGet, since, requestMap, requestId, replies, httpRx,
                     sensorThread, sensors, answer>>
  BY DEF Route, TypeOK, library, http, sensorManager
<1>2. Head(httpTx) \in Reads /\ Elems(httpTx) = {Head(httpTx)} \cup Elems(httpTx')
  BY <1>1, TailFacts
<1>3. Elems(sensorRx') = Elems(sensorRx) \cup {Head(httpTx)}
  BY <1>1, <1>2, SensorPushFacts DEF Messages
<1>4. ReadsUnderway' = ReadsUnderway
  BY <1>2, <1>3 DEF ReadsUnderway
<1> QED
  BY <1>1, <1>4, SensorsAreNumbers DEF Kept, Waiting, AnswersUnderway, Rest, Unique

LEMMA KeptMeasurement ==
    ASSUME TypeOK, Rest, Measurement
    PROVE  Kept
<1>1. PICK s \in Configured : PushToSensorManager([cmd |-> "write", sensor |-> s])
  BY DEF Measurement
<1>2. UNCHANGED <<query, inGet, since, requestMap, requestId, replies, httpRx,
                  httpTx, sensorThread, sensors, answer>>
  BY DEF Measurement, library, http, sensorManager
<1> DEFINE msg == [cmd |-> "write", sensor |-> s]
<1>3. msg \in Messages /\ msg.cmd # "read"
  BY DEF Messages, Writes
<1> HIDE DEF msg
<1>4. Elems(sensorRx') = Elems(sensorRx) \cup {msg}
  BY <1>1, <1>3, SensorPushFacts DEF msg
<1>5. ReadsUnderway' = ReadsUnderway
  BY <1>2, <1>3, <1>4 DEF ReadsUnderway
<1> QED
  BY <1>2, <1>5, SensorsAreNumbers DEF Kept, Waiting, AnswersUnderway, Rest, Unique

LEMMA KeptWrite ==
    ASSUME TypeOK, Rest, HandleWrite
    PROVE  Kept
<1>1. PICK s \in Configured :
          /\ Received({[cmd |-> "write", sensor |-> s]})
          /\ sensors' = [sensors EXCEPT ![s] = @ + 1]
  BY DEF HandleWrite
<1>2. UNCHANGED <<query, inGet, since, requestMap, requestId, replies, httpRx,
                  httpTx, sensorThread, answer>>
  BY DEF HandleWrite, library, http
<1> DEFINE msg == [cmd |-> "write", sensor |-> s]
<1>3. msg.cmd # "read"
  OBVIOUS
<1> HIDE DEF msg
<1>4. Elems(sensorRx) = Elems(sensorRx') \cup {msg}
  BY <1>1, ReceivedFacts DEF msg
<1>5. ReadsUnderway' = ReadsUnderway
  BY <1>2, <1>3, <1>4 DEF ReadsUnderway
<1>6. \A t \in Configured : sensors'[t] >= sensors[t]
  BY <1>1 DEF TypeOK
<1> QED
  BY <1>2, <1>5, <1>6 DEF Kept, Waiting, AnswersUnderway, Rest, Unique

LEMMA KeptAnswer ==
    ASSUME TypeOK, Rest, Answer
    PROVE  Kept
<1>1. /\ PushToHttp(answer) /\ sensorThread = "answering" /\ sensorThread' = "busy"
      /\ UNCHANGED <<query, inGet, since, requestMap, requestId, replies, httpTx,
                     sensorRx, sensors, answer>>
  BY DEF Answer, library, http
<1>2. answer \in HttpJobs /\ answer.job = "answer"
  BY DEF TypeOK, Answers, HttpJobs
<1>3. answer \notin Gets /\ \A r \in Requests : GetOf(r) # answer
  BY <1>2 DEF Gets, GetOf
<1>4. Elems(httpRx') = Elems(httpRx) \cup {answer} /\ Once(httpRx', Gets)
  BY <1>1, <1>2, <1>3, PushFacts DEF Rest, Unique
<1>5. AnswersUnderway' = AnswersUnderway
  BY <1>1, <1>2, <1>4 DEF AnswersUnderway
<1>6. \A r \in Requests : Waiting(r)' <=> Waiting(r)
  BY <1>3, <1>4 DEF Waiting
<1> QED
  BY <1>1, <1>4, <1>5, <1>6, SensorsAreNumbers DEF Kept, ReadsUnderway

Moves ==
    \/ \E r \in Requests : ReplyEnds(r)
    \/ Timer \/ StartCallback \/ Route \/ Measurement \/ HandleWrite \/ Answer
    \/ WakeHttp \/ PopTask \/ WaitEnds \/ CallbackEnds \/ HttpDrained
    \/ WakeSensors \/ SensorsDrained

LEMMA MovesKeep ==
    ASSUME TypeOK, Rest, Moves \/ UNCHANGED vars
    PROVE  Kept
<1>1. CASE \E r \in Requests : ReplyEnds(r)
  BY <1>1, KeptQuiet DEF ReplyEnds, library, http, sensorManager
<1>2. CASE WakeHttp \/ PopTask \/ WaitEnds \/ CallbackEnds \/ HttpDrained
  BY <1>2, KeptQuiet DEF WakeHttp, PopTask, WaitEnds, CallbackEnds, HttpDrained,
                         library, sensorManager
<1>3. CASE WakeSensors \/ SensorsDrained
  BY <1>3, KeptQuiet DEF WakeSensors, SensorsDrained, library, http
<1>4. CASE UNCHANGED vars
  BY <1>4, KeptQuiet DEF vars, library, http, sensorManager
<1> QED
  BY <1>1, <1>2, <1>3, <1>4, KeptTimer, KeptCallback, KeptRoute, KeptMeasurement,
     KeptWrite, KeptAnswer DEF Moves

LEMMA RestStep == TypeOK /\ TypeOK' /\ Budget /\ Rest /\ [Next]_vars => Rest'
<1> SUFFICES ASSUME TypeOK, TypeOK', Budget, Rest, [Next]_vars PROVE Rest'
  OBVIOUS
<1>1. CASE Moves \/ UNCHANGED vars
  <2>1. Kept
    BY <1>1, MovesKeep
  <2> QED
    BY <2>1, Moved DEF Kept
<1>2. CASE \E r \in Requests : Arrive(r) \/ get(r)
  BY <1>2, RestArrive, RestGet
<1>3. CASE HandleIncomingRequest \/ IgnoreRequest \/ Reply \/ HandleRead
  BY <1>3, RestRegister, RestIgnore, RestReply, RestRead
<1> QED
  BY <1>1, <1>2, <1>3 DEF Next, HttpThread, SensorThread, Moves

-----------------------------------------------------------------------------
(* The budget *)

LEMMA NumbersStep ==
    ASSUME TypeOK, TypeOK', Budget, Rest, [Next]_vars
    PROVE  requestId' + Cardinality(Numberless') <= Cardinality(Requests) + 1
<1>1. IsFiniteSet(Numberless)
  BY PoolAssumption, FS_Subset DEF Numberless
<1>2. /\ Cardinality(Numberless) \in Nat /\ Cardinality(Requests) \in Nat
      /\ requestId \in Nat
      /\ requestId + Cardinality(Numberless) <= Cardinality(Requests) + 1
  BY <1>1, PoolAssumption, FS_CardinalityType DEF TypeOK, Budget
<1>3. ASSUME requestId' = requestId, Numberless' \subseteq Numberless
      PROVE  requestId' + Cardinality(Numberless') <= Cardinality(Requests) + 1
  <2>1. IsFiniteSet(Numberless') /\ Cardinality(Numberless') <= Cardinality(Numberless)
    BY <1>1, <1>3, FS_Subset
  <2>2. Cardinality(Numberless') \in Nat
    BY <2>1, FS_CardinalityType
  <2> QED
    BY <1>2, <1>3, <2>1, <2>2
<1>4. CASE Moves \/ UNCHANGED vars
  <2>1. Kept
    BY <1>4, MovesKeep
  <2> QED
    BY <1>3, <2>1 DEF Kept, Numberless
<1>5. ASSUME NEW r \in Requests, Arrive(r)
      PROVE  requestId' + Cardinality(Numberless') <= Cardinality(Requests) + 1
  <2>1. /\ query[r] = None /\ inGet' = inGet \cup {r}
        /\ \A t \in Requests \ {r} : query'[t] = query[t]
        /\ UNCHANGED <<httpRx, requestId>>
    BY <1>5 DEF Arrive, http, TypeOK
  <2> QED
    BY <1>3, <2>1 DEF Numberless, Waiting
<1>6. ASSUME NEW r \in Requests, get(r)
      PROVE  requestId' + Cardinality(Numberless') <= Cardinality(Requests) + 1
  <2>1. /\ r \in inGet /\ inGet' \subseteq inGet /\ PushToHttp(GetOf(r))
        /\ UNCHANGED <<query, requestId>>
    BY <1>6 DEF get, GetOf, http
  <2>2. GetOf(r) \in HttpJobs
    BY DEF GetOf, Gets, HttpJobs
  <2>3. Elems(httpRx') = Elems(httpRx) \cup {GetOf(r)}
    BY <2>1, <2>2, PushFacts
  <2>4. \A t \in Requests : GetOf(t) = GetOf(r) => t = r
    BY DEF GetOf
  <2>5. \A t \in Requests : Waiting(t)' => Waiting(t) \/ t = r
    BY <2>3, <2>4 DEF Waiting
  <2> QED
    BY <1>3, <2>1, <2>5 DEF Numberless
<1>7. CASE HandleIncomingRequest
  <2>1. PICK r \in Requests :
            Job({GetOf(r)}) /\ requestId' = requestId + 1 /\ UNCHANGED library
    BY <1>7 DEF HandleIncomingRequest, GetOf
  <2>2. GetOf(r) \in Gets /\ Once(httpRx, Gets)
    BY DEF GetOf, Gets, Rest, Unique
  <2>3. /\ Elems(httpRx) = {GetOf(r)} \cup Elems(httpRx')
        /\ GetOf(r) \notin Elems(httpRx')
    BY <2>1, <2>2, JobFacts
  <2>4. r \in Numberless /\ query[r] # None /\ r \notin inGet
    BY <2>3 DEF Numberless, Waiting, Rest, Stages
  <2>5. Numberless' \subseteq Numberless \ {r}
    BY <2>1, <2>3, <2>4 DEF Numberless, Waiting, library
  <2>6. /\ IsFiniteSet(Numberless \ {r})
        /\ Cardinality(Numberless \ {r}) = Cardinality(Numberless) - 1
    BY <1>1, <2>4, FS_RemoveElement
  <2>7. IsFiniteSet(Numberless') /\ Cardinality(Numberless') <= Cardinality(Numberless) - 1
    BY <2>5, <2>6, FS_Subset
  <2>8. Cardinality(Numberless') \in Nat
    BY <2>7, FS_CardinalityType
  <2> QED
    BY <1>2, <2>1, <2>7, <2>8
<1>8. CASE IgnoreRequest \/ Reply
  <2>1. PICK jobs : Job(jobs)
    BY <1>8 DEF IgnoreRequest, Reply
  <2>2. Elems(httpRx') \subseteq Elems(httpRx)
    BY <2>1, JobFacts
  <2>3. UNCHANGED <<query, inGet, requestId>>
    BY <1>8 DEF IgnoreRequest, Reply, library, http
  <2> QED
    BY <1>3, <2>2, <2>3 DEF Numberless, Waiting
<1>9. CASE HandleRead
  BY <1>3, <1>9 DEF HandleRead, library, http, Numberless, Waiting
<1> QED
  BY <1>4, <1>5, <1>6, <1>7, <1>8, <1>9 DEF Next, HttpThread, SensorThread, Moves

LEMMA UpdatesStep ==
    ASSUME TypeOK, TypeOK', Budget, [Next]_vars, NEW s \in Configured
    PROVE  sensors'[s] + Pending(s)' <= MaxUpdates
<1> DEFINE w == [cmd |-> "write", sensor |-> s]
<1>1. sensors[s] \in Nat /\ sensors[s] + Pending(s) <= MaxUpdates
  BY DEF TypeOK, Budget
<1>2. sensorRx \in Seq(Messages) /\ Pending(s) = Cardinality(Places(sensorRx, w))
  BY DEF TypeOK, Messages, Pending, Places
<1>3. Pending(s) \in Nat
  <2>1. w \in Messages
    BY DEF Messages, Writes
  <2> QED
    BY <1>2, <2>1, PlacesAppend
<1> HIDE DEF w
<1>4. CASE Measurement
  <2>1. PICK t \in Configured :
            /\ sensors[t] + Pending(t) < MaxUpdates
            /\ PushToSensorManager([cmd |-> "write", sensor |-> t])
            /\ sensors' = sensors
    BY <1>4 DEF Measurement, sensorManager
  <2> DEFINE msg == [cmd |-> "write", sensor |-> t]
  <2>2. msg \in Messages /\ msg.sensor = t /\ w.sensor = s
    BY DEF Messages, Writes, w
  <2>3. Pending(s)' = Pending(s) + IF msg = w THEN 1 ELSE 0
    BY <2>1, <2>2, SensorPushFacts DEF w
  <2> HIDE DEF msg
  <2>4. CASE msg = w
    BY <1>1, <1>3, <2>1, <2>2, <2>3, <2>4, BoundAssumption
  <2>5. CASE msg # w
    BY <1>1, <1>3, <2>1, <2>3, <2>5, BoundAssumption
  <2> QED
    BY <2>4, <2>5
<1>5. CASE Route
  <2>1. /\ httpTx # <<>> /\ httpTx \in Seq(Reads) /\ sensors' = sensors
        /\ PushToSensorManager(Head(httpTx))
    BY <1>5 DEF Route, TypeOK, sensorManager
  <2>2. Head(httpTx) \in Reads
    BY <2>1, TailFacts
  <2>3. Head(httpTx) \in Messages /\ Head(httpTx) # w
    BY <2>2 DEF Messages, Reads, w
  <2>4. Pending(s)' = Pending(s)
    BY <1>3, <2>1, <2>3, SensorPushFacts DEF w
  <2> QED
    BY <1>1, <2>1, <2>4
<1>6. CASE HandleWrite
  <2>1. PICK t \in Configured :
            /\ Received({[cmd |-> "write", sensor |-> t]})
            /\ sensors' = [sensors EXCEPT ![t] = @ + 1]
    BY <1>6 DEF HandleWrite
  <2> DEFINE msg == [cmd |-> "write", sensor |-> t]
  <2>2. msg.sensor = t /\ w.sensor = s /\ (t = s => msg = w)
    BY DEF w
  <2>3. Pending(s)' = Pending(s) - IF msg = w THEN 1 ELSE 0
    BY <2>1, ReceivedFacts DEF w
  <2> HIDE DEF msg
  <2>4. CASE t = s
    <3>1. sensors'[s] = sensors[s] + 1
      BY <2>1, <2>4 DEF TypeOK
    <3> QED
      BY <1>1, <1>3, <2>2, <2>3, <2>4, <3>1, BoundAssumption
  <2>5. CASE t # s
    <3>1. sensors'[s] = sensors[s]
      BY <2>1, <2>5 DEF TypeOK
    <3> QED
      BY <1>1, <1>3, <2>2, <2>3, <2>5, <3>1, BoundAssumption
  <2> QED
    BY <2>4, <2>5
<1>7. CASE HandleRead
  <2>1. PICK m \in Reads : Received({m}) /\ sensors' = sensors
    BY <1>7 DEF HandleRead
  <2>2. m # w
    BY DEF Reads, w
  <2>3. Pending(s)' = Pending(s)
    <3>1. Received({m})
      BY <2>1
    <3>2. Head(sensorRx) \in {m}
      BY <3>1, ReceivedFacts
    <3>3. Pending(s)' = Pending(s) - IF Head(sensorRx) = w THEN 1 ELSE 0
      BY <3>1, ReceivedFacts DEF w
    <3>4. Head(sensorRx) # w
      BY <2>2, <3>2
    <3> QED
      BY <1>3, <3>3, <3>4
  <2> QED
    BY <1>1, <2>1, <2>3
<1>8. CASE UNCHANGED <<sensors, sensorRx>>
  BY <1>1, <1>8 DEF Pending
<1>9. ASSUME NEW r \in Requests, Arrive(r) \/ get(r) \/ ReplyEnds(r)
      PROVE  UNCHANGED <<sensors, sensorRx>>
  BY <1>9 DEF Arrive, get, ReplyEnds, sensorManager
<1>10. CASE Timer \/ HttpThread \/ WakeSensors \/ SensorsDrained \/ Answer \/ UNCHANGED vars
  BY <1>8, <1>10 DEF Timer, HttpThread, WakeHttp, HandleIncomingRequest, IgnoreRequest,
          Reply, StartCallback, PopTask, WaitEnds, CallbackEnds, HttpDrained,
          WakeSensors, SensorsDrained, Answer, vars, sensorManager
<1> QED
  BY <1>4, <1>5, <1>6, <1>7, <1>8, <1>9, <1>10 DEF Next, SensorThread

LEMMA BudgetStep == TypeOK /\ TypeOK' /\ Budget /\ Rest /\ [Next]_vars => Budget'
BY NumbersStep, UpdatesStep DEF Budget

-----------------------------------------------------------------------------
(* The inductive invariant of the requests, for any number of them.        *)
THEOREM Invariance == Spec => []IInv
<1>1. IInv /\ [Next]_vars => IInv'
  <2> SUFFICES ASSUME IInv, [Next]_vars PROVE IInv'
    OBVIOUS
  <2>1. TypeOK'
    BY TypeStep DEF IInv, Rest
  <2> QED
    BY <2>1, RestStep, BudgetStep DEF IInv
<1> QED
  BY <1>1, InvInit, PTL DEF Spec

(* Queues, numbers and measurements keep their types and bounds.           *)
THEOREM TypeCorrect == Spec => []TypeOK
<1>1. IInv => TypeOK
  BY DEF IInv
<1> QED
  BY <1>1, Invariance, PTL

(* A request is replied to once at most, with the sensor it asked for.     *)
THEOREM ReplyCorrect == Spec => []OneRightReply
<1>1. IInv => OneRightReply
  BY DEF IInv, Rest
<1> QED
  BY <1>1, Invariance, PTL

(* No reply is older than its request.                                     *)
THEOREM ReplyFresh == Spec => []Fresh
<1>1. IInv => Fresh
  BY DEF IInv, Rest
<1> QED
  BY <1>1, Invariance, PTL

(* An entry of m_Map is removed by an answer that is on its way.           *)
THEOREM NothingForgotten == Spec => []NoEntryForgotten
<1>1. IInv => NoEntryForgotten
  <2> SUFFICES ASSUME IInv, NEW id \in RequestIds, requestMap[id] # None
               PROVE  OnItsWay(id)
    BY DEF NoEntryForgotten
  <2>1. PICK m \in ReadsUnderway \cup AnswersUnderway : m.id = id
    BY DEF IInv, Rest, EntriesUnderway
  <2>2. CASE m \in ReadsUnderway
    BY <2>1, <2>2 DEF ReadsUnderway, Elems, OnItsWay
  <2>3. CASE m \in AnswersUnderway
    BY <2>1, <2>3 DEF AnswersUnderway, Elems, OnItsWay
  <2> QED
    BY <2>1, <2>2, <2>3
<1> QED
  BY <1>1, Invariance, PTL
=============================================================================
