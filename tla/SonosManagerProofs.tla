------------------------- MODULE SonosManagerProofs -------------------------
(***************************************************************************)
(* What holds of the session for any configuration files, any lifetimes    *)
(* of tokens and any length of time: the types, that a completed           *)
(* authentication leaves a token, and that every section of the file is    *)
(* shown whole or not at all.  For the first two nothing of how a file is  *)
(* read is used; the last one rests on what the loops over arrays return,  *)
(* whatever their length, which is the second half of this module.         *)
(***************************************************************************)
EXTENDS SonosManager, SequenceTheorems, WellFoundedInduction, TLAPS

Configured == "access_token" \in configuration["Sonos"].given

(* No redirect is heard, and nothing completed, while the configuration is *)
(* not yet there.                                                          *)
NothingBeforeRead ==
    main = "reading" =>
        /\ ~listening
        /\ redirect = [r \in Redirects |-> "none"]
        /\ completed = "unset"

(* The token stays until the continuation has stored the time it came.     *)
StoredIsIssued ==
    (\E r \in Redirects : redirect[r] = "stored") /\ ~Configured => token \in Issued

IInv ==
    /\ TypeOK
    /\ NothingBeforeRead
    /\ StoredIsIssued
    /\ AuthenticatedMeansToken

LEMMA InvInit == Init => IInv
<1> SUFFICES ASSUME Init PROVE IInv
  OBVIOUS
<1>1. now \in 1..MaxTime /\ received \in 0..MaxTime
  BY TimeAssumption DEF Init
<1>2. TypeOK
  BY <1>1 DEF Init, TypeOK
<1>3. NothingBeforeRead /\ StoredIsIssued /\ AuthenticatedMeansToken
  BY DEF Init, NothingBeforeRead, StoredIsIssued, AuthenticatedMeansToken
<1> QED
  BY <1>2, <1>3 DEF IInv

-----------------------------------------------------------------------------
(* Types *)

LEMMA TypeStep == TypeOK /\ [Next]_vars => TypeOK'
<1> SUFFICES ASSUME TypeOK, [Next]_vars PROVE TypeOK'
  OBVIOUS
<1> USE DEF TypeOK
<1>1. CASE ReadConfiguration
  <2>1. main' \in {"crashed", "listening"}
    BY <1>1 DEF ReadConfiguration
  <2>2. UNCHANGED session
    BY <1>1 DEF ReadConfiguration
  <2> QED
    BY <2>1, <2>2 DEF session
<1>2. CASE OpenListener
  BY <1>2 DEF OpenListener
<1>3. CASE SetTokenConfig
  BY <1>3 DEF SetTokenConfig, Issued
<1>4. CASE Authenticate \/ Authorized
  BY <1>4 DEF Authenticate, OpenBrowserForAuthentication, Authorized, session
<1>5. ASSUME NEW r \in Redirects, Redirect(r) \/ TokenServerFails(r) PROVE TypeOK'
  BY <1>5 DEF Redirect, TokenServerFails, session
<1>6. ASSUME NEW r \in Redirects, TokenFromRedirectedUri(r) PROVE TypeOK'
  BY <1>6 DEF TokenFromRedirectedUri
<1>7. ASSUME NEW r \in Redirects, TokenReceived(r) PROVE TypeOK'
  <2>1. received' \in 0..MaxTime
    BY <1>7, TimeAssumption DEF TokenReceived
  <2> QED
    BY <1>7, <2>1 DEF TokenReceived, Complete
<1>8. ASSUME NEW r \in Redirects, TokenRefused(r) PROVE TypeOK'
  BY <1>8 DEF TokenRefused, Complete
<1>9. CASE HandleMessage
  BY <1>9 DEF HandleMessage
<1>10. CASE HandlerThread
  BY <1>10 DEF HandlerThread, GetAccessToken, RefreshToken, CommandOver
<1>11. CASE Tick
  <2>1. now' \in 1..MaxTime
    BY <1>11, TimeAssumption DEF Tick
  <2> QED
    BY <1>11, <2>1 DEF Tick
<1>12. CASE UNCHANGED vars
  BY <1>12 DEF vars
<1> QED
  BY <1>1, <1>2, <1>3, <1>4, <1>5, <1>6, <1>7, <1>8, <1>9, <1>10, <1>11, <1>12
     DEF Next, MainThread, Listener

-----------------------------------------------------------------------------
(* The configuration does not change once it has been read.                *)
LEMMA ConfiguredStays ==
    ASSUME [Next]_vars, main # "reading"
    PROVE  Configured' <=> Configured
<1>1. configuration' = configuration
  BY DEF Next, vars, session, MainThread, Listener, HandlerThread,
         ReadConfiguration, OpenListener, SetTokenConfig, Authenticate,
         Authorized, Redirect, TokenFromRedirectedUri, TokenReceived,
         TokenRefused, TokenServerFails, HandleMessage, GetAccessToken,
         RefreshToken, CommandOver, Tick
<1> QED
  BY <1>1 DEF Configured

LEMMA ReadStep == TypeOK /\ NothingBeforeRead /\ [Next]_vars => NothingBeforeRead'
<1> SUFFICES ASSUME TypeOK, NothingBeforeRead, [Next]_vars, main' = "reading"
             PROVE  /\ ~listening'
                    /\ redirect' = [r \in Redirects |-> "none"]
                    /\ completed' = "unset"
  BY DEF NothingBeforeRead
<1>1. main = "reading" /\ UNCHANGED <<listening, redirect, completed>>
  BY DEF TypeOK, NothingBeforeRead, Next, vars, session, MainThread, Listener,
         HandlerThread, ReadConfiguration, OpenListener, SetTokenConfig,
         Authenticate, OpenBrowserForAuthentication, Authorized, Redirect,
         TokenFromRedirectedUri,
         TokenReceived, TokenRefused, TokenServerFails, HandleMessage,
         GetAccessToken, RefreshToken, CommandOver, Tick
<1> QED
  BY <1>1 DEF NothingBeforeRead

LEMMA StoredStep ==
    TypeOK /\ NothingBeforeRead /\ StoredIsIssued /\ [Next]_vars => StoredIsIssued'
<1> SUFFICES ASSUME TypeOK, NothingBeforeRead, StoredIsIssued, [Next]_vars,
                    NEW r \in Redirects, redirect'[r] = "stored", ~Configured'
             PROVE  token' \in Issued
  BY DEF StoredIsIssued
<1>1. CASE main = "reading"
  <2>1. redirect' = redirect
    BY <1>1 DEF NothingBeforeRead, Next, vars, session, MainThread, Listener,
                HandlerThread, ReadConfiguration, OpenListener, SetTokenConfig,
                Authenticate, Authorized, Redirect, TokenFromRedirectedUri,
                TokenReceived, TokenRefused, TokenServerFails, HandleMessage,
                GetAccessToken, RefreshToken, CommandOver, Tick
  <2> QED
    BY <1>1, <2>1 DEF NothingBeforeRead
<1>2. CASE main # "reading"
  <2>1. ~Configured
    BY <1>2, ConfiguredStays
  <2>2. CASE (\E s \in Redirects : TokenFromRedirectedUri(s)) \/ RefreshToken
    BY <2>2 DEF TokenFromRedirectedUri, RefreshToken
  <2>3. CASE SetTokenConfig
    BY <2>1, <2>3 DEF SetTokenConfig, Configured
  <2>4. ASSUME NEW s \in Redirects,
               Redirect(s) \/ TokenReceived(s) \/ TokenRefused(s) \/ TokenServerFails(s)
        PROVE  token' \in Issued
    <3>1. token' = token /\ redirect[r] = "stored"
      BY <2>4 DEF TypeOK, Redirect, TokenReceived, TokenRefused, TokenServerFails,
                  session
    <3> QED
      BY <2>1, <3>1 DEF StoredIsIssued
  <2>5. CASE \/ ReadConfiguration \/ OpenListener \/ Authenticate \/ Authorized
             \/ HandleMessage \/ GetAccessToken \/ CommandOver \/ Tick
             \/ UNCHANGED vars
    <3>1. token' = token /\ redirect' = redirect
      BY <2>5 DEF vars, session, ReadConfiguration, OpenListener, Authenticate,
                  Authorized, HandleMessage, GetAccessToken, CommandOver, Tick
    <3> QED
      BY <2>1, <3>1 DEF StoredIsIssued
  <2> QED
    BY <2>2, <2>3, <2>4, <2>5 DEF Next, MainThread, Listener, HandlerThread
<1> QED
  BY <1>1, <1>2

LEMMA AuthenticatedStep ==
    IInv /\ [Next]_vars => AuthenticatedMeansToken'
<1> SUFFICES ASSUME IInv, [Next]_vars, completed' = "authenticated", ~Configured'
             PROVE  token' \in Issued /\ received' > 0
  BY DEF AuthenticatedMeansToken, Configured
<1>1. CASE main = "reading"
  <2>1. completed' = completed
    BY <1>1 DEF IInv, NothingBeforeRead, Next, vars, session, MainThread,
                Listener, HandlerThread, ReadConfiguration, OpenListener,
                SetTokenConfig, Authenticate, Authorized, Redirect,
                TokenFromRedirectedUri, TokenReceived, TokenRefused,
                TokenServerFails, HandleMessage, GetAccessToken, RefreshToken,
                CommandOver, Tick
  <2> QED
    BY <1>1, <2>1 DEF IInv, NothingBeforeRead
<1>2. CASE main # "reading"
  <2>1. ~Configured
    BY <1>2, ConfiguredStays
  <2>2. ASSUME NEW r \in Redirects, TokenReceived(r)
        PROVE  token' \in Issued /\ received' > 0
    <3>1. redirect[r] = "stored" /\ token' = token /\ received' = now
      BY <2>2 DEF TokenReceived
    <3>2. now > 0
      BY TimeAssumption DEF IInv, TypeOK
    <3> QED
      BY <2>1, <3>1, <3>2 DEF IInv, StoredIsIssued
  <2>3. CASE ~ \E r \in Redirects : TokenReceived(r)
    <3>1. completed = "authenticated"
      BY <1>2, <2>3 DEF Next, vars, session, MainThread, Listener,
              HandlerThread, ReadConfiguration, OpenListener, SetTokenConfig,
              Authenticate, Authorized, Redirect, TokenFromRedirectedUri,
              TokenRefused, Complete, TokenServerFails, HandleMessage,
              GetAccessToken, RefreshToken, CommandOver, Tick
    <3>2. token \in Issued /\ received > 0
      BY <2>1, <3>1 DEF IInv, AuthenticatedMeansToken, Configured
    <3>3. received' = received
      BY <1>2, <2>3 DEF Next, vars, session, MainThread, Listener,
              HandlerThread, ReadConfiguration, OpenListener, SetTokenConfig,
              Authenticate, Authorized, Redirect, TokenFromRedirectedUri,
              TokenRefused, TokenServerFails, HandleMessage, GetAccessToken,
              RefreshToken, CommandOver, Tick
    <3>4. token' = token \/ token' \in Issued
      BY <1>2, <2>1, <2>3 DEF Configured, Next, vars, session, MainThread,
              Listener, HandlerThread, ReadConfiguration, OpenListener,
              SetTokenConfig, Authenticate, Authorized, Redirect,
              TokenFromRedirectedUri, TokenRefused, TokenServerFails,
              HandleMessage, GetAccessToken, RefreshToken, CommandOver, Tick
    <3> QED
      BY <3>2, <3>3, <3>4
  <2> QED
    BY <2>2, <2>3
<1> QED
  BY <1>1, <1>2

-----------------------------------------------------------------------------
(* The inductive invariant of the session: the types, what a redirect      *)
(* leaves, and the order of start.                                         *)
THEOREM Invariance == Spec => []IInv
<1>1. Init => IInv
  BY InvInit
<1>2. IInv /\ [Next]_vars => IInv'
  BY TypeStep, ReadStep, StoredStep, AuthenticatedStep DEF IInv
<1> QED
  BY <1>1, <1>2, PTL DEF Spec

(* The session's state and the program counters have their types.          *)
THEOREM TypeCorrect == Spec => []TypeOK
<1>1. IInv => TypeOK
  BY DEF IInv
<1> QED
  BY <1>1, Invariance, PTL

(* A completed authentication leaves a token the server has issued and the *)
(* time it came, also when commands refresh it meanwhile.                  *)
THEOREM AuthenticationLeavesToken == Spec => []AuthenticatedMeansToken
<1>1. IInv => AuthenticatedMeansToken
  BY DEF IInv
<1> QED
  BY <1>1, Invariance, PTL

-----------------------------------------------------------------------------
(* Numbers *)

LEMMA SmallestExists ==
    ASSUME NEW s \in SUBSET Nat, s # {}
    PROVE  \E h \in s : \A g \in s : h <= g
<1>1. PICK h \in s : \A g \in s : <<g, h>> \notin OpToRel(<, Nat)
  BY NatLessThanWellFounded, WFMin
<1>2. \A g \in s : ~(g < h)
  BY <1>1 DEF OpToRel
<1> QED
  BY <1>2

(* The greatest of the first numbers that are in a set.                    *)
LEMMA MaxFacts ==
    ASSUME NEW n \in Nat, NEW s \in SUBSET (1..n), s # {}
    PROVE  Max(s) \in s /\ \A y \in s : y <= Max(s)
<1> DEFINE t == {n - x : x \in s}
<1>1. \A x \in s : x \in Nat /\ n - x \in Nat /\ n - x \in t
  OBVIOUS
<1>2. t \in SUBSET Nat /\ t # {}
  BY <1>1
<1>3. PICK h \in t : \A g \in t : h <= g
  BY <1>2, SmallestExists
<1>4. PICK x \in s : h = n - x
  BY <1>3
<1>5. ASSUME NEW y \in s PROVE x >= y
  <2>1. n - x <= n - y
    BY <1>1, <1>3, <1>4
  <2> QED
    BY <1>1, <2>1
<1>6. Max(s) \in s /\ \A y \in s : Max(s) >= y
  BY <1>5 DEF Max
<1> QED
  BY <1>1, <1>6

-----------------------------------------------------------------------------
(* The loop over an array: the fold that ReadLoop is *)

(* One turn of the loop, and the fold over a set of places.                *)
Turn(vector, read) ==
    IF Thrown \in {vector, read} THEN Thrown ELSE Append(vector, read)

Fold(reads, f, s) ==
    IF s = {} THEN <<>> ELSE Turn(f[s \ {Max(s)}], reads[Max(s)])

IsFold(reads, k, f) == f = [s \in SUBSET (1..k) |-> Fold(reads, f, s)]

Folded(reads) == CHOOSE f : f = [s \in SUBSET DOMAIN reads |-> Fold(reads, f, s)]

LEMMA LoopUnfolds ==
    ASSUME NEW reads
    PROVE  ReadLoop(reads) = Folded(reads)[DOMAIN reads]
BY DEF ReadLoop, FoldLeft, MapThenFoldSet, Folded, Fold, Turn

(* There is such a fold over any number of places: from the first places   *)
(* to one more.                                                            *)
LEMMA FoldExtends ==
    ASSUME NEW reads, NEW k \in Nat, NEW g, IsFold(reads, k, g)
    PROVE  \E h : IsFold(reads, k + 1, h)
<1> USE DEF IsFold
<1> DEFINE h == [s \in SUBSET (1..(k + 1)) |->
                    IF k + 1 \in s THEN Turn(g[s \ {k + 1}], reads[k + 1]) ELSE g[s]]
<1>1. ASSUME NEW s \in SUBSET (1..(k + 1)) PROVE h[s] = Fold(reads, h, s)
  <2>1. CASE k + 1 \in s
    <3>1. Max(s) \in s /\ \A y \in s : y <= Max(s)
      <4>1. k + 1 \in Nat /\ s # {}
        BY <2>1
      <4> QED
        BY <4>1, MaxFacts
    <3>2. Max(s) = k + 1
      <4>1. Max(s) \in 1..(k + 1) /\ k + 1 <= Max(s)
        BY <2>1, <3>1
      <4> QED
        BY <4>1
    <3>3. s \ {k + 1} \in SUBSET (1..(k + 1)) /\ k + 1 \notin s \ {k + 1}
      OBVIOUS
    <3>4. h[s \ {k + 1}] = g[s \ {k + 1}]
      BY <3>3
    <3> QED
      BY <2>1, <3>2, <3>4 DEF Fold
  <2>2. CASE k + 1 \notin s
    <3>1. s \in SUBSET (1..k)
      BY <2>2
    <3>2. h[s] = Fold(reads, g, s)
      BY <2>2, <3>1
    <3>3. CASE s = {}
      BY <3>2, <3>3 DEF Fold
    <3>4. CASE s # {}
      <4>1. s \ {Max(s)} \in SUBSET (1..k) /\ k + 1 \notin s \ {Max(s)}
        BY <2>2, <3>1
      <4>2. s \ {Max(s)} \in SUBSET (1..(k + 1))
        BY <4>1
      <4>3. h[s \ {Max(s)}] = g[s \ {Max(s)}]
        BY <4>1, <4>2
      <4> QED
        BY <3>2, <3>4, <4>3 DEF Fold
    <3> QED
      BY <3>3, <3>4
  <2> QED
    BY <2>1, <2>2
<1>2. h = [s \in SUBSET (1..(k + 1)) |-> Fold(reads, h, s)]
  BY <1>1
<1> QED
  BY <1>2

LEMMA FoldExists ==
    ASSUME NEW reads, NEW n \in Nat
    PROVE  \E h : IsFold(reads, n, h)
<1> DEFINE Missing == {k \in Nat : ~\E h : IsFold(reads, k, h)}
<1>1. SUFFICES ASSUME Missing # {} PROVE FALSE
  OBVIOUS
<1>2. PICK k \in Missing : \A j \in Missing : k <= j
  <2>1. Missing \in SUBSET Nat
    OBVIOUS
  <2> HIDE DEF Missing
  <2> QED
    BY <1>1, <2>1, SmallestExists
<1>3. k \in Nat
  OBVIOUS
<1>4. 0 \notin Missing
  <2> DEFINE h == [s \in SUBSET (1..0) |-> <<>>]
  <2>1. \A s \in SUBSET (1..0) : s = {}
    OBVIOUS
  <2>2. h = [s \in SUBSET (1..0) |-> Fold(reads, h, s)]
    BY <2>1 DEF Fold
  <2> QED
    BY <2>2 DEF IsFold
<1>5. k # 0
  BY <1>4
<1>6. k - 1 \in Nat /\ k - 1 \notin Missing
  <2> HIDE DEF Missing
  <2> QED
    BY <1>2, <1>3, <1>5
<1>7. PICK g : IsFold(reads, k - 1, g)
  BY <1>6
<1>8. \E h : IsFold(reads, (k - 1) + 1, h)
  BY <1>6, <1>7, FoldExtends
<1>9. (k - 1) + 1 = k
  BY <1>3
<1> QED
  BY <1>2, <1>8, <1>9

(* What the loop returns: nothing but the exception if one entry threw,    *)
(* and otherwise every entry in its place.                                 *)
LEMMA LoopReturns ==
    ASSUME NEW S, Thrown \notin S, Thrown \notin Seq(S), NEW reads \in Seq(S \cup {Thrown})
    PROVE  ReadLoop(reads) = IF \E i \in DOMAIN reads : reads[i] = Thrown THEN Thrown
                             ELSE reads
<1> DEFINE n == Len(reads)
           f == Folded(reads)
           First(k) == [i \in 1..k |-> reads[i]]
           Threw(k) == \E i \in 1..k : reads[i] = Thrown
           Value(k) == IF Threw(k) THEN Thrown ELSE First(k)
           Wrong == {k \in 0..n : f[1..k] # Value(k)}
<1>1. n \in Nat /\ DOMAIN reads = 1..n
  OBVIOUS
<1>2. f = [s \in SUBSET (1..n) |-> Fold(reads, f, s)]
  <2> HIDE DEF n
  <2>1. \E h : h = [s \in SUBSET (1..n) |-> Fold(reads, h, s)]
    BY <1>1, FoldExists DEF IsFold
  <2> QED
    BY <1>1, <2>1 DEF Folded
<1> HIDE DEF n, f
<1>3. Wrong = {}
  <2>1. SUFFICES ASSUME Wrong # {} PROVE FALSE
    OBVIOUS
  <2>2. PICK k \in Wrong : \A j \in Wrong : k <= j
    <3>1. Wrong \in SUBSET Nat
      BY <1>1
    <3> HIDE DEF Wrong
    <3> QED
      BY <2>1, <3>1, SmallestExists
  <2>3. k \in 0..n /\ f[1..k] # Value(k)
    OBVIOUS
  <2>4. CASE k = 0
    <3>1. 1..k = {} /\ {} \in SUBSET (1..n)
      BY <2>4
    <3>2. f[{}] = <<>>
      BY <1>2, <3>1 DEF Fold
    <3>3. First(k) = <<>> /\ ~Threw(k)
      BY <2>4
    <3> QED
      BY <2>3, <3>1, <3>2, <3>3
  <2>5. CASE k # 0
    <3> DEFINE j == k - 1
    <3>0. k \in Nat /\ k \in 1..k
      BY <1>1, <2>3, <2>5
    <3>1. j \in 0..n /\ k \in 1..n /\ j < k /\ k = j + 1
      BY <1>1, <2>3, <2>5
    <3>2. f[1..j] = Value(j)
      <4>1. j \notin Wrong
        <5> HIDE DEF Wrong
        <5> QED
          BY <1>1, <2>2, <2>3, <3>1
      <4> QED
        BY <3>1, <4>1
    <3>3. Max(1..k) = k
      <4>1. 1..k # {} /\ k \in Nat /\ k \in 1..k
        BY <3>0
      <4>2. Max(1..k) \in 1..k /\ \A y \in 1..k : y <= Max(1..k)
        BY <4>1, MaxFacts
      <4> QED
        BY <4>1, <4>2
    <3>4. (1..k) \ {k} = 1..j
      BY <1>1, <3>1
    <3>5. f[1..k] = Turn(Value(j), reads[k])
      <4>1. 1..k \in SUBSET (1..n) /\ 1..k # {}
        <5>1. \A i \in 1..k : i \in 1..n
          BY <1>1, <3>0, <3>1
        <5> QED
          BY <3>0, <5>1
      <4>2. f[1..k] = Fold(reads, f, 1..k)
        BY <1>2, <4>1
      <4> QED
        BY <3>2, <3>3, <3>4, <4>1, <4>2 DEF Fold
    <3>6. Threw(k) <=> Threw(j) \/ reads[k] = Thrown
      BY <1>1, <3>1
    <3>7. CASE Threw(j) \/ reads[k] = Thrown
      BY <2>3, <3>5, <3>6, <3>7 DEF Turn
    <3>8. CASE ~Threw(j) /\ reads[k] # Thrown
      <4>1. First(j) \in Seq(S)
        BY <1>1, <3>1, <3>8
      <4>2. Append(First(j), reads[k]) = First(k)
        <5>1. reads[k] \in S
          BY <1>1, <3>1, <3>8
        <5>2. Len(First(j)) = j
          BY <1>1, <3>1
        <5>3. /\ Append(First(j), reads[k]) \in Seq(S)
              /\ Len(Append(First(j), reads[k])) = k
              /\ \A i \in 1..k : Append(First(j), reads[k])[i] = reads[i]
          BY <1>1, <3>0, <3>1, <4>1, <5>1, <5>2, AppendProperties
        <5>4. /\ First(k) \in Seq(S) /\ Len(First(k)) = k
              /\ \A i \in 1..k : First(k)[i] = reads[i]
          BY <1>1, <3>0, <3>1, <3>8
        <5> HIDE DEF First
        <5> QED
          BY <5>3, <5>4, SeqEqual
      <4>3. Thrown \notin {First(j), reads[k]}
        BY <3>8, <4>1
      <4> QED
        BY <2>3, <3>5, <3>6, <3>8, <4>2, <4>3 DEF Turn
    <3> QED
      BY <3>7, <3>8
  <2> QED
    BY <2>4, <2>5
<1>4. f[1..n] = Value(n)
  BY <1>1, <1>3
<1>5. First(n) = reads
  BY <1>1
<1> QED
  BY <1>1, <1>4, <1>5, LoopUnfolds DEF f


-----------------------------------------------------------------------------
(* The readers *)

(* An array whose entries have numbers: all of them, or an exception.      *)
LEMMA EntriesRead ==
    ASSUME NEW E, \A entry \in E : entry.no \in Nat /\ entry.readable \in BOOLEAN,
           NEW array \in Seq(E), array # NotAnArray
    PROVE  /\ (\E i \in DOMAIN array : ~array[i].readable) => ReadEntries(array) = Thrown
           /\ (\A i \in DOMAIN array : array[i].readable) =>
                  ReadEntries(array) = [i \in DOMAIN array |-> array[i].no]
           /\ ReadEntries(array) \in Seq(Nat) \cup {Thrown}
<1> DEFINE reads == [i \in DOMAIN array |-> ReadEntry(array[i])]
<1>1. \A i \in DOMAIN array : /\ array[i].no \in Nat /\ array[i].readable \in BOOLEAN
                              /\ array[i].no # Thrown
  BY ThrownAssumption
<1>2. /\ DOMAIN reads = DOMAIN array
      /\ \A i \in DOMAIN array :
             /\ reads[i] = Thrown <=> ~array[i].readable
             /\ array[i].readable => reads[i] = array[i].no
  BY <1>1 DEF ReadEntry
<1>3. reads \in Seq(Nat \cup {Thrown})
  <2>1. \A i \in DOMAIN array : ReadEntry(array[i]) \in Nat \cup {Thrown}
    BY <1>1 DEF ReadEntry
  <2>2. DOMAIN array = 1..Len(array) /\ Len(array) \in Nat
    OBVIOUS
  <2> QED
    BY <2>1, <2>2
<1>4. ReadEntries(array) = ReadLoop(reads)
  BY DEF ReadEntries
<1> HIDE DEF reads
<1>5. ReadLoop(reads) = IF \E i \in DOMAIN reads : reads[i] = Thrown THEN Thrown ELSE reads
  BY <1>3, LoopReturns, ThrownAssumption
<1>6. ASSUME \A i \in DOMAIN array : array[i].readable
      PROVE  /\ ReadLoop(reads) = [i \in DOMAIN array |-> array[i].no]
             /\ ReadLoop(reads) \in Seq(Nat)
  <2>1. ReadLoop(reads) = reads
    BY <1>2, <1>5, <1>6
  <2>2. reads = [i \in DOMAIN array |-> array[i].no]
    BY <1>2, <1>6 DEF reads
  <2>3. DOMAIN array = 1..Len(array) /\ Len(array) \in Nat
    OBVIOUS
  <2> QED
    BY <1>1, <2>1, <2>2, <2>3
<1>7. ASSUME \E i \in DOMAIN array : ~array[i].readable
      PROVE  ReadLoop(reads) = Thrown
  BY <1>2, <1>5, <1>7
<1> QED
  BY <1>4, <1>6, <1>7

Ids == [no : Nat, ids : Seq(Nat)]

LEMMA ScheduleRead ==
    ASSUME NEW entry \in ScheduleEntry
    PROVE  /\ ~WholeEntry(entry) => ReadSchedule(entry) = Thrown
           /\ WholeEntry(entry) =>
                  /\ ReadSchedule(entry) \in Ids
                  /\ ReadSchedule(entry).no = entry.no
                  /\ entry.ids # NotAnArray =>
                         ReadSchedule(entry).ids =
                             [j \in DOMAIN entry.ids |-> entry.ids[j].no]
<1>1. /\ entry.no \in Nat /\ entry.readable \in BOOLEAN
      /\ entry.ids = NotAnArray \/ entry.ids \in Seq(Entry)
  BY DEF ScheduleEntry
<1>2. \A e \in Entry : e.no \in Nat /\ e.readable \in BOOLEAN
  BY DEF Entry
<1>3. CASE entry.ids = NotAnArray
  <2>0. <<>> \in Seq(Nat)
    OBVIOUS
  <2>1. ReadEntries(entry.ids) = <<>> /\ <<>> # Thrown
    BY <1>3, <2>0, ThrownAssumption DEF ReadEntries
  <2> QED
    BY <1>1, <1>3, <2>0, <2>1 DEF ReadSchedule, WholeEntry, Ids
<1>4. CASE entry.ids # NotAnArray
  <2>1. /\ (\E i \in DOMAIN entry.ids : ~entry.ids[i].readable) =>
               ReadEntries(entry.ids) = Thrown
        /\ (\A i \in DOMAIN entry.ids : entry.ids[i].readable) =>
               ReadEntries(entry.ids) = [i \in DOMAIN entry.ids |-> entry.ids[i].no]
        /\ ReadEntries(entry.ids) \in Seq(Nat) \cup {Thrown}
    BY <1>1, <1>2, <1>4, EntriesRead
  <2>2. ASSUME \A i \in DOMAIN entry.ids : entry.ids[i].readable
        PROVE  ReadEntries(entry.ids) # Thrown
    <3>1. [i \in DOMAIN entry.ids |-> entry.ids[i].no] \in Seq(Nat)
      <4>1. DOMAIN entry.ids = 1..Len(entry.ids) /\ Len(entry.ids) \in Nat
        BY <1>1, <1>4
      <4>2. \A i \in DOMAIN entry.ids : entry.ids[i].no \in Nat
        BY <1>1, <1>2, <1>4
      <4> QED
        BY <4>1, <4>2
    <3> QED
      BY <2>1, <2>2, <3>1, ThrownAssumption
  <2> QED
    BY <1>1, <1>4, <2>1, <2>2 DEF ReadSchedule, WholeEntry, Ids
<1> QED
  BY <1>3, <1>4

LEMMA SchedulesRead ==
    ASSUME NEW section, section # Nothing, section.items # NotAnArray,
           section.items \in Seq(ScheduleEntry)
    PROVE  LET items == section.items
               list == ReadConfiguredSchedules(section)
           IN  /\ (\E i \in DOMAIN items : ~WholeEntry(items[i])) => list = Thrown
               /\ (\A i \in DOMAIN items : WholeEntry(items[i])) =>
                      /\ list # Thrown /\ Len(list) = Len(items)
                      /\ \A i \in DOMAIN items : list[i] = ReadSchedule(items[i])
<1> DEFINE items == section.items
           reads == [i \in DOMAIN items |-> ReadSchedule(items[i])]
<1>1. \A i \in DOMAIN items : items[i] \in ScheduleEntry
  OBVIOUS
<1>2. \A i \in DOMAIN items :
          /\ ReadSchedule(items[i]) \in Ids \cup {Thrown}
          /\ ReadSchedule(items[i]) = Thrown <=> ~WholeEntry(items[i])
  <2>1. Thrown \notin Ids
    BY ThrownAssumption DEF Ids
  <2> QED
    BY <1>1, <2>1, ScheduleRead
<1>3. DOMAIN items = 1..Len(items) /\ Len(items) \in Nat
  OBVIOUS
<1>4. /\ reads \in Seq(Ids \cup {Thrown}) /\ DOMAIN reads = DOMAIN items
      /\ Len(reads) = Len(items)
      /\ \A i \in DOMAIN items : reads[i] = ReadSchedule(items[i])
  BY <1>2, <1>3
<1>5. ReadConfiguredSchedules(section) = ReadLoop(reads)
  BY DEF ReadConfiguredSchedules
<1> HIDE DEF reads
<1>6. ReadLoop(reads) = IF \E i \in DOMAIN reads : reads[i] = Thrown THEN Thrown ELSE reads
  <2>1. Thrown \notin Ids /\ Thrown \notin Seq(Ids)
    BY ThrownAssumption DEF Ids
  <2> QED
    BY <1>4, <2>1, LoopReturns
<1>7. ASSUME \A i \in DOMAIN items : WholeEntry(items[i])
      PROVE  reads # Thrown /\ ReadLoop(reads) = reads
  <2>1. ReadLoop(reads) = reads
    BY <1>2, <1>4, <1>6, <1>7
  <2>2. reads \in Seq(Ids)
    <3>1. \A i \in DOMAIN reads : reads[i] \in Ids
      BY <1>2, <1>4, <1>7
    <3> QED
      BY <1>4, <3>1
  <2>3. Thrown \notin Seq(Ids)
    BY ThrownAssumption DEF Ids
  <2> QED
    BY <2>1, <2>2, <2>3
<1>8. ASSUME \E i \in DOMAIN items : ~WholeEntry(items[i])
      PROVE  ReadLoop(reads) = Thrown
  BY <1>2, <1>4, <1>6, <1>8
<1> QED
  BY <1>4, <1>5, <1>7, <1>8

-----------------------------------------------------------------------------
(* Sections *)

Shown(name, section, conf) ==
    IF Whole(name, section) THEN ShowsAll(name, section, conf) ELSE conf = Empty

(* The fields a reader asks for, which may be none.                        *)
GivenFields(name, section, given) ==
    /\ section = Nothing => given \in {Thrown, {}}
    /\ section # Nothing =>
           given = IF FieldsOf(name) \subseteq section.fields
                   THEN FieldsOf(name) \ section.blank ELSE Thrown

LEMMA FieldsGiven ==
    /\ \A section : GivenFields("Sonos", section, AsGiven(section, SonosFields))
    /\ \A section : GivenFields("Tesla", section, AsGiven(section, TeslaFields))
    /\ \A section : GivenFields("PhilipsHue", section, AsGiven(section, HueFields))
    /\ \A section : GivenFields("Scheduler", section, AsGiven(section, SchedulerFields))
    /\ \A name \in {"Telldus", "RemoteManager", "Sensors"} : \A section :
           GivenFields(name, section, {})
BY DEF GivenFields, AsGiven, FieldsOf

LEMMA GivenIsNotThrown ==
    ASSUME NEW name \in Sections, NEW blank
    PROVE  FieldsOf(name) \ blank # Thrown
<1> DEFINE fields == FieldsOf(name) \ blank
<1>1. FieldsOf(name) \in {SonosFields, TeslaFields, HueFields, SchedulerFields, {}}
  BY DEF FieldsOf, Sections
<1>2. fields \in UNION {SUBSET SonosFields, SUBSET TeslaFields,
                       SUBSET HueFields, SUBSET SchedulerFields}
  BY <1>1
<1> HIDE DEF fields
<1>3. fields # Thrown
  BY <1>2, ThrownAssumption
<1> QED
  BY <1>3 DEF fields

LEMMA PlainShown ==
    ASSUME NEW name \in Sections \ {"Scheduler"}, NEW section,
           section # Nothing => section.items \in Items(name),
           NEW given, GivenFields(name, section, given),
           NEW list, list = IF section = Nothing THEN <<>> ELSE ReadEntries(section.items)
    PROVE  Shown(name, section, OrEmpty(given, list))
<1>1. CASE section = Nothing
  <2>1. list = <<>> /\ given \in {Thrown, {}}
    BY <1>1 DEF GivenFields
  <2>2. OrEmpty(given, list) = Empty
    BY <2>1 DEF OrEmpty, Given, Empty
  <2>3. ~Whole(name, section)
    BY <1>1 DEF Whole
  <2> QED
    BY <2>2, <2>3 DEF Shown
<1>2. CASE section # Nothing
  <2> DEFINE items == section.items
  <2>1. items = NotAnArray \/ items \in Seq(Entry)
    BY <1>2 DEF Items
  <2>2. \A entry \in Entry : /\ entry.no \in Nat /\ entry.readable \in BOOLEAN
                             /\ WholeEntry(entry) <=> entry.readable
    BY DEF Entry, WholeEntry
  <2>3. CASE ~(FieldsOf(name) \subseteq section.fields)
    BY <1>2, <2>3 DEF Shown, Whole, OrEmpty, GivenFields
  <2>4. CASE /\ FieldsOf(name) \subseteq section.fields
             /\ items = NotAnArray
    <3>1. list = <<>> /\ list # Thrown
      <4>1. <<>> \in Seq(Nat)
        OBVIOUS
      <4> QED
        BY <1>2, <2>4, <4>1, ThrownAssumption DEF ReadEntries
    <3>2. given = FieldsOf(name) \ section.blank /\ given # Thrown
      BY <1>2, <2>4, GivenIsNotThrown DEF GivenFields
    <3> QED
      BY <1>2, <2>4, <3>1, <3>2 DEF Shown, Whole, ShowsAll, OrEmpty, Given
  <2>5. CASE /\ FieldsOf(name) \subseteq section.fields
             /\ items # NotAnArray
    <3>1. items \in Seq(Entry)
      BY <2>1, <2>5
    <3>2. /\ (\E i \in DOMAIN items : ~items[i].readable) => list = Thrown
          /\ (\A i \in DOMAIN items : items[i].readable) =>
                 list = [i \in DOMAIN items |-> items[i].no]
      BY <1>2, <2>2, <2>5, <3>1, EntriesRead
    <3>3. \A i \in DOMAIN items : WholeEntry(items[i]) <=> items[i].readable
      BY <2>2, <3>1
    <3>4. given = FieldsOf(name) \ section.blank /\ given # Thrown
      BY <1>2, <2>5, GivenIsNotThrown DEF GivenFields
    <3>5. CASE \E i \in DOMAIN items : ~items[i].readable
      BY <1>2, <2>5, <3>2, <3>3, <3>5 DEF Shown, Whole, OrEmpty
    <3>6. CASE \A i \in DOMAIN items : items[i].readable
      <4>1. DOMAIN items = 1..Len(items) /\ Len(items) \in Nat
        BY <3>1
      <4>2. /\ Len(list) = Len(items) /\ list \in Seq(Nat)
            /\ \A i \in DOMAIN items : list[i] = items[i].no
        <5>1. \A i \in DOMAIN items : items[i].no \in Nat
          BY <2>2, <3>1
        <5> QED
          BY <3>2, <3>6, <4>1, <5>1
      <4>3. list # Thrown
        BY <4>2, ThrownAssumption
      <4>4. OrEmpty(given, list) = Given(given, list)
        BY <3>4, <4>3 DEF OrEmpty
      <4>5. Given(given, list).given = given /\ Given(given, list).list = list
        BY DEF Given
      <4>6. Whole(name, section)
        BY <1>2, <2>5, <3>3, <3>6 DEF Whole
      <4>7. ShowsAll(name, section, Given(given, list))
        BY <2>5, <3>4, <4>2, <4>5 DEF ShowsAll
      <4> QED
        BY <4>4, <4>6, <4>7 DEF Shown
    <3> QED
      BY <3>5, <3>6
  <2> QED
    BY <2>3, <2>4, <2>5
<1> QED
  BY <1>1, <1>2

LEMMA SchedulerShown ==
    ASSUME NEW section, section # Nothing => section.items \in Items("Scheduler")
    PROVE  Shown("Scheduler", section,
                 ReadScheduleManagerConfigurationConfiguration(section))
<1> DEFINE given == AsGiven(section, SchedulerFields)
           list == ReadConfiguredSchedules(section)
<1>1. GivenFields("Scheduler", section, given) /\ "Scheduler" \in Sections
  BY FieldsGiven DEF Sections
<1>2. ReadScheduleManagerConfigurationConfiguration(section) = OrEmpty(given, list)
  BY DEF ReadScheduleManagerConfigurationConfiguration
<1> HIDE DEF given, list
<1>3. CASE section = Nothing
  <2>1. list = <<>> /\ given \in {Thrown, {}}
    BY <1>1, <1>3 DEF ReadConfiguredSchedules, list, GivenFields
  <2>2. OrEmpty(given, list) = Empty
    BY <2>1 DEF OrEmpty, Given, Empty
  <2>3. ~Whole("Scheduler", section)
    BY <1>3 DEF Whole
  <2> QED
    BY <1>2, <2>2, <2>3 DEF Shown
<1>4. CASE section # Nothing
  <2> DEFINE items == section.items
  <2>1. items = NotAnArray \/ items \in Seq(ScheduleEntry)
    BY <1>4 DEF Items
  <2>2. CASE ~(FieldsOf("Scheduler") \subseteq section.fields)
    BY <1>1, <1>2, <1>4, <2>2 DEF Shown, Whole, OrEmpty, GivenFields
  <2>3. CASE FieldsOf("Scheduler") \subseteq section.fields
    <3>1. given = FieldsOf("Scheduler") \ section.blank /\ given # Thrown
      BY <1>1, <1>4, <2>3, GivenIsNotThrown DEF GivenFields
    <3>2. CASE items = NotAnArray
      <4>1. list = <<>> /\ list # Thrown
        <5>1. <<>> \in Seq(Nat)
          OBVIOUS
        <5> QED
          BY <3>2, <5>1, ThrownAssumption DEF ReadConfiguredSchedules, list
      <4> QED
        BY <1>2, <1>4, <2>3, <3>1, <3>2, <4>1 DEF Shown, Whole, ShowsAll, OrEmpty, Given
    <3>3. CASE items # NotAnArray
      <4>1. items \in Seq(ScheduleEntry)
        BY <2>1, <3>3
      <4>2. /\ (\E i \in DOMAIN items : ~WholeEntry(items[i])) => list = Thrown
            /\ (\A i \in DOMAIN items : WholeEntry(items[i])) =>
                   /\ list # Thrown /\ Len(list) = Len(items)
                   /\ \A i \in DOMAIN items : list[i] = ReadSchedule(items[i])
        BY <1>4, <3>3, <4>1, SchedulesRead DEF list
      <4>3. CASE \E i \in DOMAIN items : ~WholeEntry(items[i])
        BY <1>2, <1>4, <3>3, <4>2, <4>3 DEF Shown, Whole, OrEmpty
      <4>4. CASE \A i \in DOMAIN items : WholeEntry(items[i])
        <5>1. \A i \in DOMAIN items :
                  /\ list[i].no = items[i].no
                  /\ items[i].ids # NotAnArray =>
                         list[i].ids = [j \in DOMAIN items[i].ids |-> items[i].ids[j].no]
          <6> TAKE i \in DOMAIN items
          <6>1. items[i] \in ScheduleEntry /\ list[i] = ReadSchedule(items[i])
            BY <4>1, <4>2, <4>4
          <6> QED
            BY <4>4, <6>1, ScheduleRead
        <5>2. OrEmpty(given, list) = Given(given, list)
          BY <3>1, <4>2, <4>4 DEF OrEmpty
        <5>3. Given(given, list).given = given /\ Given(given, list).list = list
          BY DEF Given
        <5>4. Whole("Scheduler", section)
          BY <1>4, <2>3, <4>4 DEF Whole
        <5>5. ShowsAll("Scheduler", section, Given(given, list))
          BY <3>1, <3>3, <4>2, <4>4, <5>1, <5>3 DEF ShowsAll
        <5> QED
          BY <1>2, <5>2, <5>4, <5>5 DEF Shown
      <4> QED
        BY <4>3, <4>4
    <3> QED
      BY <3>2, <3>3
  <2> QED
    BY <2>2, <2>3
<1> QED
  BY <1>3, <1>4

(* What the constructor returns shows every section, or nothing of it.     *)
LEMMA ConfigurationShown ==
    ASSUME NEW text \in Files, NEW read \in ImplConfiguration(text), read # Thrown
    PROVE  \A name \in Sections : Shown(name, text[name], read[name])
<1>1. \A name \in Sections : text[name] # Nothing => text[name].items \in Items(name)
  BY FilesAssumption
<1>2. PICK remote \in ReadRemoteManagerConfiguration(text["RemoteManager"]) :
        read = [Sonos |-> ReadSonosConfiguration(text["Sonos"]),
                PhilipsHue |-> ReadPhilipsHueConfiguration(text["PhilipsHue"]),
                Telldus |-> ReadTelldusConfiguration(text["Telldus"]),
                RemoteManager |-> remote,
                Sensors |-> ReadSensorManagerConfigurationConfiguration(text["Sensors"]),
                Scheduler |->
                    ReadScheduleManagerConfigurationConfiguration(text["Scheduler"]),
                Tesla |-> ReadTeslaConfiguration(text["Tesla"])]
        /\ remote # Thrown
  BY DEF ImplConfiguration
<1>3. /\ "Sonos" \in Sections /\ "PhilipsHue" \in Sections /\ "Telldus" \in Sections
      /\ "RemoteManager" \in Sections /\ "Sensors" \in Sections
      /\ "Scheduler" \in Sections /\ "Tesla" \in Sections
  BY DEF Sections
<1>4. ASSUME NEW name \in {"Sonos", "Tesla"}
      PROVE  <<>> = IF text[name] = Nothing THEN <<>> ELSE ReadEntries(text[name].items)
  <2>1. text[name] # Nothing => text[name].items = NotAnArray
    BY <1>1, <1>3 DEF Items
  <2> QED
    BY <2>1 DEF ReadEntries
<1>5. Shown("Sonos", text["Sonos"], ReadSonosConfiguration(text["Sonos"]))
  BY <1>1, <1>3, <1>4, PlainShown, FieldsGiven DEF ReadSonosConfiguration
<1>6. Shown("Tesla", text["Tesla"], ReadTeslaConfiguration(text["Tesla"]))
  BY <1>1, <1>3, <1>4, PlainShown, FieldsGiven DEF ReadTeslaConfiguration
<1>7. Shown("PhilipsHue", text["PhilipsHue"],
            ReadPhilipsHueConfiguration(text["PhilipsHue"]))
  BY <1>1, <1>3, PlainShown, FieldsGiven
     DEF ReadPhilipsHueConfiguration, ReadConfiguredLights
<1>8. Shown("Telldus", text["Telldus"], ReadTelldusConfiguration(text["Telldus"]))
  BY <1>1, <1>3, PlainShown, FieldsGiven
     DEF ReadTelldusConfiguration, ReadConfiguredLights
<1>9. Shown("Sensors", text["Sensors"],
            ReadSensorManagerConfigurationConfiguration(text["Sensors"]))
  BY <1>1, <1>3, PlainShown, FieldsGiven
     DEF ReadSensorManagerConfigurationConfiguration, ReadConfiguredTempHumiditySensors
<1>10. Shown("Scheduler", text["Scheduler"],
             ReadScheduleManagerConfigurationConfiguration(text["Scheduler"]))
  BY <1>1, <1>3, SchedulerShown
<1>11. Shown("RemoteManager", text["RemoteManager"], remote)
  <2>1. CASE text["RemoteManager"] = Nothing
    <3>1. remote = Empty
      BY <1>2, <2>1 DEF ReadRemoteManagerConfiguration
    <3> QED
      BY <2>1, <3>1 DEF Shown, Whole
  <2>2. CASE text["RemoteManager"] # Nothing
    <3>1. remote = OrEmpty({}, ReadEntries(text["RemoteManager"].items))
      BY <1>2, <2>2 DEF ReadRemoteManagerConfiguration
    <3> QED
      BY <1>1, <1>3, <2>2, <3>1, PlainShown, FieldsGiven
  <2> QED
    BY <2>1, <2>2
<1> QED
  BY <1>2, <1>5, <1>6, <1>7, <1>8, <1>9, <1>10, <1>11 DEF Sections

FileShown == file \in Files /\ AllOrNothing

LEMMA ConfigurationStep == FileShown /\ [Next]_vars => FileShown'
<1> SUFFICES ASSUME FileShown, [Next]_vars PROVE FileShown'
  OBVIOUS
<1> USE DEF FileShown
<1>1. CASE ReadConfiguration
  <2>1. UNCHANGED file
    BY <1>1 DEF ReadConfiguration
  <2>2. \/ UNCHANGED configuration
        \/ \E read \in ImplConfiguration(file) : read # Thrown /\ configuration' = read
    BY <1>1 DEF ReadConfiguration
  <2>3. \A read \in ImplConfiguration(file) : read # Thrown =>
            \A name \in Sections : Shown(name, file[name], read[name])
    BY ConfigurationShown
  <2> QED
    BY <2>1, <2>2, <2>3 DEF AllOrNothing, Shown
<1>2. CASE ~ReadConfiguration
  <2>1. UNCHANGED <<file, configuration>>
    BY <1>2 DEF Next, vars, session, MainThread, Listener, HandlerThread,
         OpenListener, SetTokenConfig, Authenticate, Authorized, Redirect,
         TokenFromRedirectedUri, TokenReceived, TokenRefused, TokenServerFails,
         HandleMessage, GetAccessToken, RefreshToken, CommandOver, Tick
  <2> QED
    BY <2>1 DEF AllOrNothing
<1> QED
  BY <1>1, <1>2

(* A section of the file is shown whole or not at all, for any file: no    *)
(* reader of Configuration.cpp returns the first few entries of an array   *)
(* whose later ones cannot be read.                                        *)
THEOREM SectionsShownWholeOrEmpty == Spec => []AllOrNothing
<1>1. Init => FileShown
  BY DEF Init, AllOrNothing, FileShown
<1>2. FileShown => AllOrNothing
  BY DEF FileShown
<1> QED
  BY <1>1, <1>2, ConfigurationStep, PTL DEF Spec
=============================================================================
