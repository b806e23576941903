---------------------------- MODULE LightsProofs ----------------------------
(***************************************************************************)
(* What holds of the lights for any number of lights, devices, questions   *)
(* and inputs: lamps follow the write the bus took last, over one hop or   *)
(* over two, and a question is answered from the state after its write.    *)
(***************************************************************************)
EXTENDS Lights, TLAPS

Sent == [json     |-> Writes \cup Presences \cup DirectReads,
         hue      |-> Answers,
         telldus  |-> Reads \cup Answers \cup Commands \cup Measurements,
         shell    |-> Answers,
         presence |-> Answers]

Messages ==
    Writes \cup Presences \cup Reads \cup DirectReads \cup Answers \cup Commands

(* What a question may ask, and write first.                               *)
Queries ==
    [id : {"LightState"}, item : AllLights, on : BOOLEAN \cup {None}]
    \cup [id : {"Presence"}, item : Devices, on : BOOLEAN]
    \cup [id : {"Presence", "Lights"}, item : {None}, on : {None}]

(* What TypeOK leaves open: domains, questions, answers and history.       *)
Domains ==
    /\ DOMAIN tx = Senders /\ DOMAIN rx = Subscribers /\ DOMAIN answer = Questions
    /\ question \in [Questions -> Queries \cup {None}]
    /\ crashed \in BOOLEAN
    /\ lastWrite \in [AllLights -> BOOLEAN \cup {None}]
    /\ lastTaken \in [AllLights \cup Devices -> Questions \cup {None}]

(* Every queue has only what its manager acts on.                          *)
Routed ==
    \A m \in Subscribers : \A i \in DOMAIN rx[m] : ActsOn(m, rx[m][i])

-----------------------------------------------------------------------------
(* Lamps *)

(* Nothing of kind K in queue s is for light l.                            *)
Without(s, K, l) == \A i \in DOMAIN s : s[i] \notin K \/ s[i].item # l

(* The last message of kind K for light l in queue s says v.               *)
LastIs(s, K, l, v) ==
    \A i \in DOMAIN s :
        /\ s[i] \in K
        /\ s[i].item = l
        /\ \A j \in DOMAIN s : j > i => s[j] \notin K \/ s[j].item # l
        => s[i].on = v

Settled(l) == l \notin failed /\ lastWrite[l] # None => lamp[l] = lastWrite[l]

(* The write the bus took last is the last in the first of the queues to   *)
(* the lamp that has any, or has reached the lamp.                         *)
HueFollows ==
    \A l \in HueLights :
        /\ LastIs(rx["hue"], Writes, l, lastWrite[l])
        /\ Without(rx["hue"], Writes, l) => Settled(l)

TelldusFollows ==
    \A l \in TelldusLights :
        /\ LastIs(rx["telldus"], Writes, l, lastWrite[l])
        /\ Without(rx["telldus"], Writes, l) =>
               /\ LastIs(tx["telldus"], Commands, l, lastWrite[l])
               /\ Without(tx["telldus"], Commands, l) =>
                      /\ LastIs(rx["shell"], Commands, l, lastWrite[l])
                      /\ Without(rx["shell"], Commands, l) => Settled(l)

-----------------------------------------------------------------------------
(* Questions *)

(* Whoever has asked is past the start.                                    *)
Asked == \A q \in Questions : stage[q] = "new" <=> question[q] = None

WriteOf(q, msg) == msg \in Writes \cup Presences /\ msg.by = q
ReadOf(q, msg) == msg \in DirectReads /\ msg.by = q

HasWrite(s, q) == \E i \in DOMAIN s : WriteOf(q, s[i])
HasWriteBefore(s, q, i) == \E j \in DOMAIN s : j < i /\ WriteOf(q, s[j])

(* A message of a question says what the question asked.                   *)
SaysAs(asked, msg) ==
    /\ msg \in Writes \cup Presences /\ msg.by # None =>
           /\ asked[msg.by] # None
           /\ msg.item = asked[msg.by].item
           /\ msg.on = asked[msg.by].on
    /\ msg \in DirectReads =>
           /\ asked[msg.by] # None
           /\ msg.id = asked[msg.by].id
           /\ msg.item = asked[msg.by].item

Says(msg) == SaysAs(question, msg)
StillSays(msg) == SaysAs(question', msg)

AllSay ==
    /\ \A i \in DOMAIN tx["json"] : Says(tx["json"][i])
    /\ \A m \in Subscribers : \A i \in DOMAIN rx[m] : Says(rx[m][i])

Arrived(q) == \E m \in Subscribers : HasWrite(rx[m], q)

(* The write of a question goes before its read, through both queues.      *)
Ordered(q) ==
    /\ stage[q] = "asking" => HasWrite(tx["json"], q) \/ Arrived(q)
    /\ \A i \in DOMAIN tx["json"] : ReadOf(q, tx["json"][i]) =>
           HasWriteBefore(tx["json"], q, i) \/ Arrived(q)
    /\ \A m \in Subscribers : \A i \in DOMAIN rx[m] :
           ReadOf(q, rx[m][i]) => HasWriteBefore(rx[m], q, i)

WritesFirst ==
    \A q \in Questions :
        question[q] # None /\ question[q].on # None /\ q \notin handled => Ordered(q)

(* What an item holds if its last write was a question's.                  *)
TakenShows ==
    \A i \in AllLights \cup Devices :
        lastTaken[i] # None =>
            /\ question[lastTaken[i]] # None
            /\ question[lastTaken[i]].item = i
            /\ question[lastTaken[i]].on \in BOOLEAN
            /\ i \in HueLights => recorded[i] = question[lastTaken[i]].on
            /\ i \in TelldusLights /\ question[lastTaken[i]].on => recorded[i]
            /\ i \in Devices /\ question[lastTaken[i]].on => inRange[i]

SomebodyInRange == atHome = (\E d \in Devices : inRange[d])

IInv ==
    /\ TypeOK
    /\ Domains
    /\ Routed
    /\ HueFollows
    /\ TelldusFollows
    /\ Asked
    /\ AllSay
    /\ WritesFirst
    /\ TakenShows
    /\ SomebodyInRange
    /\ AnswerShowsWrite

-----------------------------------------------------------------------------
(* Sequences *)

LEMMA AppendFacts ==
    ASSUME NEW S, NEW s \in Seq(S), NEW x \in S
    PROVE  LET t == Append(s, x)
               n == Len(s) + 1
           IN  /\ t \in Seq(S)
               /\ DOMAIN t = DOMAIN s \cup {n}
               /\ DOMAIN s \subseteq Nat /\ n \in Nat
               /\ \A i \in DOMAIN s : i < n /\ t[i] = s[i] /\ s[i] \in S
               /\ t[n] = x
OBVIOUS

LEMMA TailFacts ==
    ASSUME NEW S, NEW s \in Seq(S), s # <<>>
    PROVE  LET t == Tail(s)
           IN  /\ t \in Seq(S)
               /\ Head(s) = s[1] /\ 1 \in DOMAIN s /\ Head(s) \in S
               /\ DOMAIN t \subseteq Nat /\ DOMAIN s \subseteq Nat
               /\ \A i \in DOMAIN t : i + 1 \in DOMAIN s /\ t[i] = s[i + 1]
               /\ \A i \in DOMAIN s : i = 1 \/ (i > 1 /\ i - 1 \in DOMAIN t
                                                     /\ t[i - 1] = s[i])
               /\ \A i \in DOMAIN s : s[i] \in S
OBVIOUS

(* A message of another kind, or for another light, behind the others.     *)
LEMMA AppendOther ==
    ASSUME NEW S, NEW s \in Seq(S), NEW x \in S, NEW K, NEW l, NEW v,
           x \notin K \/ x.item # l
    PROVE  /\ Without(Append(s, x), K, l) <=> Without(s, K, l)
           /\ LastIs(s, K, l, v) => LastIs(Append(s, x), K, l, v)
<1> DEFINE t == Append(s, x)
           n == Len(s) + 1
<1>1. /\ DOMAIN t = DOMAIN s \cup {n}
      /\ \A i \in DOMAIN s : i < n /\ t[i] = s[i]
      /\ t[n] = x
  BY AppendFacts
<1> HIDE DEF t, n
<1>2. Without(t, K, l) <=> Without(s, K, l)
  BY <1>1 DEF Without
<1>3. LastIs(s, K, l, v) => LastIs(t, K, l, v)
  BY <1>1 DEF LastIs
<1> QED
  BY <1>2, <1>3 DEF t

LEMMA AppendOne ==
    ASSUME NEW S, NEW s \in Seq(S), NEW x \in S, NEW K, NEW l,
           x \in K, x.item = l
    PROVE  /\ ~Without(Append(s, x), K, l)
           /\ LastIs(Append(s, x), K, l, x.on)
<1> DEFINE t == Append(s, x)
           n == Len(s) + 1
<1>1. /\ DOMAIN t = DOMAIN s \cup {n}
      /\ \A i \in DOMAIN s : i < n /\ t[i] = s[i]
      /\ t[n] = x
  BY AppendFacts
<1> HIDE DEF t, n
<1>2. ~Without(t, K, l)
  BY <1>1 DEF Without
<1>3. LastIs(t, K, l, x.on)
  BY <1>1 DEF LastIs
<1> QED
  BY <1>2, <1>3 DEF t

LEMMA TailOther ==
    ASSUME NEW S, NEW s \in Seq(S), s # <<>>, NEW K, NEW l,
           Head(s) \notin K \/ Head(s).item # l
    PROVE  Without(Tail(s), K, l) <=> Without(s, K, l)
<1> DEFINE t == Tail(s)
<1>1. /\ Head(s) = s[1]
      /\ \A i \in DOMAIN t : i + 1 \in DOMAIN s /\ t[i] = s[i + 1]
      /\ \A i \in DOMAIN s : i = 1 \/ (i - 1 \in DOMAIN t /\ t[i - 1] = s[i])
  BY TailFacts
<1> HIDE DEF t
<1>2. ASSUME Without(t, K, l), NEW i \in DOMAIN s PROVE s[i] \notin K \/ s[i].item # l
  <2>1. CASE i = 1
    BY <1>1, <2>1
  <2>2. CASE i # 1
    BY <1>1, <1>2, <2>2 DEF Without
  <2> QED
    BY <2>1, <2>2
<1>3. Without(s, K, l) => Without(t, K, l)
  BY <1>1 DEF Without
<1> QED
  BY <1>2, <1>3 DEF t, Without

(* What is left has the same last message; if nothing is left, it was the  *)
(* one taken.                                                              *)
LEMMA TailLast ==
    ASSUME NEW S, NEW s \in Seq(S), s # <<>>, NEW K, NEW l, NEW v,
           LastIs(s, K, l, v)
    PROVE  /\ LastIs(Tail(s), K, l, v)
           /\ Head(s) \in K /\ Head(s).item = l /\ Without(Tail(s), K, l) =>
                  Head(s).on = v
<1> DEFINE t == Tail(s)
<1>1. /\ Head(s) = s[1] /\ 1 \in DOMAIN s
      /\ DOMAIN t \subseteq Nat /\ DOMAIN s \subseteq Nat
      /\ \A i \in DOMAIN t : i + 1 \in DOMAIN s /\ t[i] = s[i + 1]
      /\ \A i \in DOMAIN s : i = 1 \/ (i > 1 /\ i - 1 \in DOMAIN t /\ t[i - 1] = s[i])
  BY TailFacts
<1> HIDE DEF t
<1>2. ASSUME NEW i \in DOMAIN t, t[i] \in K, t[i].item = l,
             \A j \in DOMAIN t : j > i => t[j] \notin K \/ t[j].item # l
      PROVE  t[i].on = v
  <2>1. s[i + 1] \in K /\ s[i + 1].item = l /\ i + 1 \in DOMAIN s
    BY <1>1, <1>2
  <2>2. ASSUME NEW j \in DOMAIN s, j > i + 1 PROVE s[j] \notin K \/ s[j].item # l
    <3>1. i \in Nat /\ j \in Nat
      BY <1>1
    <3>2. j # 1 /\ j - 1 > i
      BY <2>2, <3>1
    <3> QED
      BY <1>1, <1>2, <3>2
  <2> QED
    BY <1>1, <2>1, <2>2 DEF LastIs
<1>3. LastIs(t, K, l, v)
  BY <1>2 DEF LastIs
<1>4. ASSUME Head(s) \in K, Head(s).item = l, Without(t, K, l) PROVE Head(s).on = v
  <2>1. ASSUME NEW j \in DOMAIN s, j > 1 PROVE s[j] \notin K \/ s[j].item # l
    <3>1. j - 1 \in DOMAIN t /\ t[j - 1] = s[j]
      BY <1>1, <2>1
    <3> QED
      BY <1>4, <3>1 DEF Without
  <2> QED
    BY <1>1, <1>4, <2>1 DEF LastIs
<1> QED
  BY <1>3, <1>4 DEF t

-----------------------------------------------------------------------------
(* Names and kinds *)

LEMMA Names ==
    /\ Subscribers = {"hue", "telldus", "shell", "presence"}
    /\ Senders = {"json", "hue", "telldus", "shell", "presence"}
    /\ None \notin AllLights \cup Devices
    /\ None \notin Questions /\ None \notin BOOLEAN
    /\ HueLights \cap TelldusLights = {} /\ AllLights \cap Devices = {}
    /\ AllLights = HueLights \cup TelldusLights
<1>1. Subscribers = {"hue", "telldus", "shell", "presence"}
  BY DEF Subscribers, SubscribedTo
<1> QED
  BY <1>1, NamesAssumption DEF Senders, AllLights

LEMMA NoneIsNoQuery ==
    None \notin Queries
<1> DEFINE Q == [id : {"LightState", "Lights", "Presence"},
                 item : HueLights \cup TelldusLights \cup Devices \cup {None},
                 on : BOOLEAN \cup {None}]
<1>1. Queries \subseteq Q
  BY DEF Queries, AllLights
<1>2. None \notin Q
  BY NamesAssumption
<1> QED
  BY <1>1, <1>2

LEMMA Kinds ==
    ASSUME NEW msg \in Messages \cup Measurements
    PROVE  /\ msg \in Writes <=> msg.cmd = "Write" /\ msg.id = "LightState"
           /\ msg \in Presences <=> msg.cmd = "Write" /\ msg.id = "BlootoothDevice"
           /\ msg \in Commands <=> msg.cmd = "Write" /\ msg.id = "CommandLine"
           /\ msg \in Measurements <=> msg.cmd = "Write" /\ msg.id = "MandolynSensor"
           /\ msg \in Reads <=> msg.cmd = "Read"
           /\ msg \in DirectReads <=> msg.cmd = "ReadWithDirectAnswer"
           /\ msg \in Answers <=> msg.cmd = "Answer"
BY DEF Messages, Measurements, Writes, Presences, Commands, Reads, DirectReads, Answers

(* Who acts on what.                                                       *)
LEMMA Acting ==
    ASSUME NEW m, NEW msg
    PROVE  /\ ActsOn("hue", msg) <=>
                  /\ msg.id \in {"LightState", "Lights"} /\ msg.cmd # "Answer"
                  /\ msg.id = "LightState" => msg.item \in HueLights
           /\ ActsOn("telldus", msg) <=>
                  \/ msg.id = "CommandLine" /\ msg.cmd = "Answer"
                  \/ /\ msg.id = "LightState" /\ msg.cmd # "Answer"
                     /\ msg.item \in TelldusLights
           /\ ActsOn("shell", msg) <=> msg.id = "CommandLine" /\ msg.cmd # "Answer"
           /\ ActsOn("presence", msg) <=>
                  msg.id \in {"BlootoothDevice", "Presence"} /\ msg.cmd # "Answer"
BY DEF ActsOn, SubscribedTo

-----------------------------------------------------------------------------
(* Queues *)

QueueTypes ==
    /\ DOMAIN tx = Senders /\ DOMAIN rx = Subscribers
    /\ \A m \in Senders : tx[m] \in Seq(Sent[m])
    /\ \A m \in Subscribers : rx[m] \in Seq(Messages)

LEMMA SentNames ==
    /\ Sent["json"] = Writes \cup Presences \cup DirectReads
    /\ Sent["telldus"] = Reads \cup Answers \cup Commands \cup Measurements
    /\ \A m \in {"hue", "shell", "presence"} : Sent[m] = Answers
    /\ \A m \in Senders : Sent[m] \subseteq Messages \cup Measurements
<1>1. /\ Sent["json"] = Writes \cup Presences \cup DirectReads
      /\ Sent["telldus"] = Reads \cup Answers \cup Commands \cup Measurements
      /\ \A m \in {"hue", "shell", "presence"} : Sent[m] = Answers
  BY DEF Sent
<1> QED
  BY <1>1, Names DEF Messages

LEMMA QueuesTyped == TypeOK /\ Domains => QueueTypes
BY SentNames, Names DEF TypeOK, Domains, QueueTypes, Messages

(* What a sender appends.                                                  *)
LEMMA SendFacts ==
    ASSUME QueueTypes, NEW m \in Senders, NEW msg \in Sent[m], SendMessage(m, msg)
    PROVE  /\ DOMAIN tx' = Senders
           /\ tx'[m] = Append(tx[m], msg)
           /\ \A n \in Senders : n # m => tx'[n] = tx[n]
           /\ \A n \in Senders : tx'[n] \in Seq(Sent[n])
<1>1. /\ DOMAIN tx' = Senders
      /\ tx'[m] = Append(tx[m], msg)
      /\ \A n \in Senders : n # m => tx'[n] = tx[n]
  BY DEF QueueTypes, SendMessage
<1>2. tx'[m] \in Seq(Sent[m])
  BY <1>1, AppendFacts DEF QueueTypes
<1> QED
  BY <1>1, <1>2 DEF QueueTypes

(* Where a message goes that the bus takes.                                *)
LEMMA PlaceFacts ==
    ASSUME QueueTypes, NEW msg \in Messages \cup Measurements, Place(msg)
    PROVE  /\ DOMAIN rx' = Subscribers
           /\ \A m \in Subscribers : ActsOn(m, msg) =>
                  msg \in Messages /\ rx'[m] = Append(rx[m], msg)
           /\ \A m \in Subscribers : ~ActsOn(m, msg) => rx'[m] = rx[m]
           /\ \A m \in Subscribers : rx'[m] \in Seq(Messages)
<1>1. /\ DOMAIN rx' = Subscribers
      /\ \A m \in Subscribers : ActsOn(m, msg) => rx'[m] = Append(rx[m], msg)
      /\ \A m \in Subscribers : ~ActsOn(m, msg) => rx'[m] = rx[m]
  BY DEF Place
<1>2. ASSUME NEW m \in Subscribers, ActsOn(m, msg) PROVE msg \in Messages
  BY <1>2, Kinds, Acting, Names
<1>3. \A m \in Subscribers : rx'[m] \in Seq(Messages)
  BY <1>1, <1>2, AppendFacts DEF QueueTypes
<1> QED
  BY <1>1, <1>2, <1>3

LEMMA TakeFacts ==
    ASSUME QueueTypes, Routed, NEW m \in Subscribers, NEW cmd, NEW ids, NEW msg,
           Takes(m, cmd, ids, msg)
    PROVE  /\ DOMAIN rx' = Subscribers
           /\ rx[m] # <<>> /\ msg = Head(rx[m]) /\ msg \in Messages
           /\ ActsOn(m, msg) /\ msg.cmd = cmd /\ msg.id \in ids
           /\ rx'[m] = Tail(rx[m])
           /\ \A n \in Subscribers : n # m => rx'[n] = rx[n]
           /\ \A n \in Subscribers : rx'[n] \in Seq(Messages)
<1>1. /\ DOMAIN rx' = Subscribers
      /\ rx[m] # <<>> /\ msg = Head(rx[m]) /\ msg.cmd = cmd /\ msg.id \in ids
      /\ rx'[m] = Tail(rx[m])
      /\ \A n \in Subscribers : n # m => rx'[n] = rx[n]
  BY DEF QueueTypes, Takes
<1>2. /\ Head(rx[m]) = rx[m][1] /\ 1 \in DOMAIN rx[m]
      /\ Head(rx[m]) \in Messages /\ Tail(rx[m]) \in Seq(Messages)
  BY <1>1, TailFacts DEF QueueTypes
<1> QED
  BY <1>1, <1>2 DEF QueueTypes, Routed

LEMMA RouteFacts ==
    ASSUME QueueTypes, NEW m \in Senders, Route(m)
    PROVE  /\ tx[m] # <<>> /\ Head(tx[m]) \in Sent[m]
           /\ Head(tx[m]) \in Messages \cup Measurements
           /\ DOMAIN tx' = Senders
           /\ tx'[m] = Tail(tx[m])
           /\ \A n \in Senders : n # m => tx'[n] = tx[n]
           /\ \A n \in Senders : tx'[n] \in Seq(Sent[n])
           /\ Place(Head(tx[m]))
<1>1. /\ DOMAIN tx' = Senders
      /\ tx[m] # <<>>
      /\ tx'[m] = Tail(tx[m])
      /\ \A n \in Senders : n # m => tx'[n] = tx[n]
      /\ Place(Head(tx[m]))
  BY DEF QueueTypes, Route
<1>2. Head(tx[m]) \in Sent[m] /\ Tail(tx[m]) \in Seq(Sent[m])
  BY <1>1, TailFacts DEF QueueTypes
<1> QED
  BY <1>1, <1>2, SentNames DEF QueueTypes

(* Which messages come from outside.                                       *)
LEMMA InputFacts ==
    ASSUME receive \/ HandleLightSwitches
    PROVE  /\ UNCHANGED <<tx, house, asking, crashed, failed, handled, lastTaken>>
           /\ inputs < MaxInputs /\ inputs' = inputs + 1
           /\ \E msg \in Messages :
                /\ Place(msg)
                /\ msg.by = None
                /\ msg \in Writes \cup Presences \cup Reads
<1>1. \A l \in AllLights, on \in BOOLEAN :
          Message("Write", "LightState", l, on, None) \in Writes
  BY DEF Message, Writes
<1>2. \A l \in AllLights : Message("Read", "LightState", l, FALSE, None) \in Reads
  BY DEF Message, Reads
<1>3. \A d \in Devices, on \in BOOLEAN :
          Message("Write", "BlootoothDevice", d, on, None) \in Presences
  BY DEF Message, Presences
<1>4. Message("Read", "Presence", None, FALSE, None) \in Reads
  BY DEF Message, Reads
<1>5. \A cmd, id, item, on : Message(cmd, id, item, on, None).by = None
                             /\ Message(cmd, id, item, on, None).cmd = cmd
  BY DEF Message
<1>6. ASSUME NEW cmd \in {"Write", "Read"}, NEW id, NEW item, NEW on,
             Message(cmd, id, item, on, None) \in Writes \cup Presences \cup Reads,
             Place(Message(cmd, id, item, on, None))
      PROVE  \E msg \in Writes \cup Presences \cup Reads : Place(msg) /\ msg.by = None
  <2> WITNESS Message(cmd, id, item, on, None) \in Writes \cup Presences \cup Reads
  <2> QED
    BY <1>5, <1>6
<1>7. \E msg \in Writes \cup Presences \cup Reads : Place(msg) /\ msg.by = None
  <2>1. CASE \E l \in AllLights, on \in BOOLEAN :
                 Place(Message("Write", "LightState", l, on, None))
    BY <1>1, <1>6, <2>1
  <2>2. CASE \E l \in AllLights : Place(Message("Read", "LightState", l, FALSE, None))
    BY <1>2, <1>6, <2>2
  <2>3. CASE \E d \in Devices, on \in BOOLEAN :
                 Place(Message("Write", "BlootoothDevice", d, on, None))
    BY <1>3, <1>6, <2>3
  <2>4. CASE Place(Message("Read", "Presence", None, FALSE, None))
    BY <1>4, <1>6, <2>4
  <2> QED
    BY <2>1, <2>2, <2>3, <2>4 DEF receive, HandleLightSwitches
<1> QED
  BY <1>7 DEF receive, HandleLightSwitches, Input, Messages

-----------------------------------------------------------------------------
(* The steps of the handlers, by what they leave alone *)

Took(m) ==
    /\ rx[m] # <<>>
    /\ rx' = [rx EXCEPT ![m] = Tail(@)]

(* A read or a line of tdtool: at most another message comes of it.        *)
Replies(m) ==
    /\ Took(m)
    /\ Head(rx[m]) \in Reads \cup Answers
    /\ UNCHANGED tx \/ \E msg \in Sent[m] \ Commands : SendMessage(m, msg)
    /\ UNCHANGED <<house, asking, crashed, inputs, history>>

(* A read with a direct answer: the item asked about is shown as it is.    *)
Tells(m) ==
    /\ Took(m)
    /\ Head(rx[m]) \in DirectReads
    /\ UNCHANGED <<tx, house, question, inputs, history>>
    /\ LET q == Head(rx[m]).by
       IN  \E value :
             /\ value # None
             /\ Answer(q, value)
             /\ question[q].on # None =>
                    /\ question[q].item \in AllLights => value = recorded[question[q].item]
                    /\ question[q].item \in Devices => value = atHome

LEMMA DirectReadFacts ==
    ASSUME Domains, NEW msg \in DirectReads, Says(msg)
    PROVE  /\ msg.by \in Questions
           /\ question[msg.by] \in Queries
           /\ msg.id = question[msg.by].id
           /\ msg.item = question[msg.by].item
BY DEF Domains, DirectReads, Says, SaysAs

LEMMA QueryFacts ==
    ASSUME NEW query \in Queries
    PROVE  /\ query # None => query.on \in BOOLEAN \cup {None}
           /\ query.id = "LightState" => query.item \in AllLights
           /\ query.id = "Presence" => query.item \in Devices \cup {None}
           /\ query.item = None => query.on = None
           /\ query.id = "Lights" => query.on = None
           /\ query.item \in AllLights => query.id = "LightState"
           /\ query.item \in Devices => query.id = "Presence"
BY Names DEF Queries

LEMMA TellsLight ==
    ASSUME TypeOK, Domains, Routed, AllSay, NEW m \in {"hue", "telldus"}, NEW msg,
           AnswerLight(m, msg)
    PROVE  Tells(m)
<1>1. /\ rx[m] # <<>> /\ msg = Head(rx[m])
      /\ msg \in Messages /\ msg.cmd = "ReadWithDirectAnswer" /\ msg.id = "LightState"
  BY QueuesTyped, TakeFacts, Names DEF AnswerLight
<1>2. msg \in DirectReads
  BY <1>1, Kinds
<1>3. Says(msg)
  BY <1>1, Names, TailFacts, QueuesTyped DEF AllSay, QueueTypes
<1>4. /\ msg.by \in Questions /\ question[msg.by] \in Queries
      /\ msg.item = question[msg.by].item
      /\ question[msg.by].id = "LightState"
  BY <1>1, <1>2, <1>3, DirectReadFacts
<1>5. msg.item \in AllLights /\ msg.item \notin Devices
  BY <1>4, QueryFacts, Names
<1>6. recorded[msg.item] # None
  BY <1>5, Names DEF TypeOK
<1>7. Answer(msg.by, recorded[msg.item])
  BY DEF AnswerLight
<1> QED
  BY <1>1, <1>2, <1>4, <1>5, <1>6, <1>7 DEF AnswerLight, Tells, Took, Takes

LEMMA TellsLights ==
    ASSUME TypeOK, Domains, Routed, AllSay, NEW msg, AnswerLights(msg)
    PROVE  Tells("hue")
<1> DEFINE value == {l \in HueLights : recorded[l]}
<1>1. /\ rx["hue"] # <<>> /\ msg = Head(rx["hue"])
      /\ msg \in Messages /\ msg.cmd = "ReadWithDirectAnswer" /\ msg.id = "Lights"
  BY QueuesTyped, TakeFacts, Names DEF AnswerLights
<1>2. msg \in DirectReads
  BY <1>1, Kinds
<1>3. Says(msg)
  BY <1>1, Names, TailFacts, QueuesTyped DEF AllSay, QueueTypes
<1>4. question[msg.by].on = None
  BY <1>1, <1>2, <1>3, DirectReadFacts, QueryFacts
<1>5. value # None
  <2>1. value \in SUBSET HueLights
    OBVIOUS
  <2> QED
    BY <2>1, NamesAssumption
<1>6. Answer(msg.by, value)
  BY DEF AnswerLights
<1> QED
  BY <1>1, <1>2, <1>4, <1>5, <1>6 DEF AnswerLights, Tells, Took, Takes

LEMMA TellsPresence ==
    ASSUME TypeOK, Domains, Routed, AllSay, NEW msg, AnswerPresence(msg)
    PROVE  Tells("presence")
<1>1. /\ rx["presence"] # <<>> /\ msg = Head(rx["presence"])
      /\ msg \in Messages /\ msg.cmd = "ReadWithDirectAnswer" /\ msg.id = "Presence"
  BY QueuesTyped, TakeFacts, Names DEF AnswerPresence
<1>2. msg \in DirectReads
  BY <1>1, Kinds
<1>3. Says(msg)
  BY <1>1, Names, TailFacts, QueuesTyped DEF AllSay, QueueTypes
<1>4. question[msg.by].item \notin AllLights
  BY <1>1, <1>2, <1>3, DirectReadFacts, QueryFacts
<1>5. atHome # None
  BY Names DEF TypeOK
<1>6. Answer(msg.by, atHome)
  BY DEF AnswerPresence
<1> QED
  BY <1>1, <1>2, <1>4, <1>5, <1>6 DEF AnswerPresence, Tells, Took, Takes

LEMMA RepliesFacts ==
    ASSUME TypeOK, Domains, Routed, NEW msg
    PROVE  /\ \A m \in {"hue", "telldus"} : ReadLight(m, msg) => Replies(m)
           /\ ReadSensors(msg) => Replies("telldus")
           /\ RunList(msg) => Replies("shell")
           /\ ReadPresence(msg) => Replies("presence")
<1>1. QueueTypes
  BY QueuesTyped
<1>2. ASSUME NEW m \in Subscribers, NEW cmd \in {"Read", "Answer"}, NEW ids,
             Takes(m, cmd, ids, msg)
      PROVE  Took(m) /\ Head(rx[m]) \in Reads \cup Answers
  <2>1. Head(rx[m]) \in Messages /\ Head(rx[m]).cmd = cmd
    BY <1>1, <1>2, TakeFacts
  <2>2. Head(rx[m]) \in Reads \cup Answers
    BY <2>1, Kinds
  <2> QED
    BY <1>2, <2>2 DEF Took, Takes
<1>3. \A item \in AllLights \cup {None}, on \in BOOLEAN,
         id \in {"LightState", "Presence", "CommandLine"} :
          Message("Answer", id, item, on, None) \in Answers
  BY DEF Message, Answers
<1>4. Message("Write", "MandolynSensor", None, FALSE, None) \in Measurements
  BY DEF Message, Measurements
<1>5. \A m \in Subscribers, x \in Answers : x \in Sent[m] \ Commands
  BY SentNames, Names, Kinds DEF Messages
<1>6. \A x \in Measurements : x \in Sent["telldus"] \ Commands
  BY SentNames, Kinds
<1>7. ASSUME NEW m \in {"hue", "telldus"}, ReadLight(m, msg) PROVE Replies(m)
  <2>1. msg.item \in AllLights /\ recorded[msg.item] \in BOOLEAN
    BY <1>7, Names DEF ReadLight, LightsOf, TypeOK
  <2> QED
    BY <1>2, <1>3, <1>5, <1>7, <2>1, Names DEF ReadLight, Replies
<1>8. ReadSensors(msg) => Replies("telldus")
  BY <1>2, <1>4, <1>6, Names DEF ReadSensors, Replies
<1>9. RunList(msg) => Replies("shell")
  BY <1>2, <1>3, <1>5, Names DEF RunList, Replies
<1>10. ReadPresence(msg) => Replies("presence")
  BY <1>2, <1>3, <1>5, Names DEF ReadPresence, Replies, TypeOK
<1> QED
  BY <1>7, <1>8, <1>9, <1>10

(* What a step of a handler may be.                                        *)
LEMMA HandlerCases ==
    ASSUME TypeOK, Domains, Routed, AllSay, NEW m \in Subscribers, HandleMessage(m)
    PROVE  LET msg == Head(rx[m])
           IN  /\ Took(m) /\ msg \in Messages /\ ActsOn(m, msg)
               /\ \/ m = "hue" /\ SetLamp(msg) /\ msg \in Writes
                  \/ m = "telldus" /\ SetTelldusLight(msg) /\ msg \in Writes
                  \/ m = "shell" /\ RunCommand(msg) /\ msg \in Commands
                  \/ m = "presence" /\ isAtLeastSomeoneAtHome(msg) /\ msg \in Presences
                  \/ Replies(m)
                  \/ Tells(m)
<1> DEFINE msg == Head(rx[m])
<1>1. QueueTypes
  BY QueuesTyped
<1>2. msg \in Messages /\ ActsOn(m, msg)
  <2>1. rx[m] # <<>>
    BY DEF HandleMessage
  <2> QED
    BY <1>1, <2>1, TailFacts DEF QueueTypes, Routed
<1> HIDE DEF msg
<1>3. CASE m = "hue" /\ SetLamp(msg)
  <2>1. Takes("hue", "Write", {"LightState"}, msg)
    BY <1>3 DEF SetLamp
  <2> QED
    BY <1>2, <1>3, <2>1, Kinds DEF Takes, Took, msg
<1>4. CASE m = "telldus" /\ SetTelldusLight(msg)
  <2>1. Takes("telldus", "Write", {"LightState"}, msg)
    BY <1>4 DEF SetTelldusLight
  <2> QED
    BY <1>2, <1>4, <2>1, Kinds DEF Takes, Took, msg
<1>5. CASE m = "shell" /\ RunCommand(msg)
  <2>1. Takes("shell", "Write", {"CommandLine"}, msg)
    BY <1>5 DEF RunCommand
  <2> QED
    BY <1>2, <1>5, <2>1, Kinds DEF Takes, Took, msg
<1>6. CASE m = "presence" /\ isAtLeastSomeoneAtHome(msg)
  <2>1. Takes("presence", "Write", {"BlootoothDevice"}, msg)
    BY <1>6 DEF isAtLeastSomeoneAtHome
  <2> QED
    BY <1>2, <1>6, <2>1, Kinds DEF Takes, Took, msg
<1>7. CASE Replies(m)
  BY <1>2, <1>7 DEF Replies, msg
<1>8. CASE Tells(m)
  BY <1>2, <1>8 DEF Tells, msg
<1>9. \/ m = "hue" /\ (SetLamp(msg) \/ AnswerLights(msg))
      \/ m = "telldus" /\ (SetTelldusLight(msg) \/ ReadSensors(msg))
      \/ m \in {"hue", "telldus"} /\ (ReadLight(m, msg) \/ AnswerLight(m, msg))
      \/ m = "shell" /\ (RunCommand(msg) \/ RunList(msg))
      \/ m = "presence" /\ (isAtLeastSomeoneAtHome(msg) \/ ReadPresence(msg)
                            \/ AnswerPresence(msg))
  BY DEF HandleMessage, msg
<1> QED
  BY <1>3, <1>4, <1>5, <1>6, <1>7, <1>8, <1>9, RepliesFacts, TellsLight, TellsLights,
     TellsPresence DEF msg

(* An answer sets the promise of its question, of another, or none.        *)
LEMMA AnswerFacts ==
    ASSUME TypeOK, Domains, NEW q \in Questions, NEW value, value # None,
           Answer(q, value)
    PROVE  /\ DOMAIN answer' = Questions /\ crashed' \in BOOLEAN
           /\ stage' \in [Questions -> {"new", "asking", "waiting", "answered", "timedout"}]
           /\ \A p \in Questions :
                \/ stage'[p] = stage[p] /\ answer'[p] = answer[p]
                \/ /\ stage[p] = "waiting" /\ stage'[p] = "answered"
                   /\ answer'[p].on = value
                   /\ answer'[p].stray \/ (p = q /\ answer'[p].own = (q \in handled)
                                               /\ answer'[p].last = (q \in Range(lastTaken)))
<1> DEFINE Known ==
        /\ DOMAIN answer' = Questions
        /\ stage' \in [Questions -> {"new", "asking", "waiting", "answered", "timedout"}]
        /\ \A p \in Questions :
             \/ stage'[p] = stage[p] /\ answer'[p] = answer[p]
             \/ /\ stage[p] = "waiting" /\ stage'[p] = "answered"
                /\ answer'[p].on = value
                /\ answer'[p].stray \/ (p = q /\ answer'[p].own = (q \in handled)
                                            /\ answer'[p].last = (q \in Range(lastTaken)))
<1>1. ASSUME NEW p \in Questions, NEW stray \in BOOLEAN, stage[p] = "waiting",
             Deliver(p, value, stray), stray \/ p = q
      PROVE  Known
  <2>1. /\ stage \in [Questions -> {"new", "asking", "waiting", "answered", "timedout"}]
        /\ DOMAIN answer = Questions
    BY DEF TypeOK, Domains
  <2>2. /\ stage' = [stage EXCEPT ![p] = "answered"]
        /\ answer' = [answer EXCEPT ![p] = [on |-> value, own |-> p \in handled,
                          last |-> p \in Range(lastTaken), stray |-> stray]]
    BY <1>1 DEF Deliver
  <2>3. /\ DOMAIN answer' = Questions
        /\ stage' \in [Questions -> {"new", "asking", "waiting", "answered", "timedout"}]
        /\ stage'[p] = "answered"
        /\ answer'[p] = [on |-> value, own |-> p \in handled,
                         last |-> p \in Range(lastTaken), stray |-> stray]
        /\ \A o \in Questions : o # p => stage'[o] = stage[o] /\ answer'[o] = answer[o]
    BY <2>1, <2>2
  <2>4. /\ answer'[p].on = value /\ answer'[p].own = (p \in handled)
        /\ answer'[p].last = (p \in Range(lastTaken)) /\ answer'[p].stray = stray
    BY <2>3
  <2> QED
    BY <1>1, <2>3, <2>4
<1>2. UNCHANGED <<stage, answer>> => Known
  BY DEF TypeOK, Domains
<1>3. Known /\ crashed' \in BOOLEAN
  <2> HIDE DEF Known
  <2>1. CASE stage[q] = "waiting" /\ Deliver(q, value, FALSE) /\ UNCHANGED crashed
    BY <1>1, <2>1 DEF Domains
  <2>2. CASE \E p \in Questions : stage[p] = "waiting" /\ Deliver(p, value, TRUE)
    <3>1. crashed' \in BOOLEAN
      BY DEF Answer, Domains
    <3> QED
      BY <1>1, <2>2, <3>1
  <2>3. CASE UNCHANGED <<stage, answer>>
    BY <1>2, <2>3 DEF Answer, Domains
  <2> QED
    BY <2>1, <2>2, <2>3 DEF Answer
<1> QED
  BY <1>3

(* Who tells sets a promise for a question that asked.                     *)
LEMMA TellFacts ==
    ASSUME TypeOK, Domains, Routed, AllSay, NEW m \in Subscribers, Tells(m)
    PROVE  LET q == Head(rx[m]).by
           IN  /\ q \in Questions /\ question[q] \in Queries
               /\ ReadOf(q, rx[m][1]) /\ 1 \in DOMAIN rx[m]
<1> DEFINE msg == Head(rx[m])
<1>1. msg \in DirectReads /\ rx[m] # <<>>
  BY DEF Tells, Took
<1>2. msg = rx[m][1] /\ 1 \in DOMAIN rx[m]
  BY <1>1, QueuesTyped, TailFacts DEF QueueTypes
<1>3. Says(msg)
  BY <1>2 DEF AllSay
<1> QED
  BY <1>1, <1>2, <1>3, DirectReadFacts DEF ReadOf

-----------------------------------------------------------------------------
(* Lamps follow *)

(* For light l, queue t says what queue s said.                            *)
Alike(s, t, K, l) ==
    /\ Without(t, K, l) <=> Without(s, K, l)
    /\ \A v : LastIs(s, K, l, v) => LastIs(t, K, l, v)

LEMMA AppendAlike ==
    ASSUME NEW S, NEW s \in Seq(S), NEW x \in S, NEW K, NEW l,
           x \notin K \/ x.item # l
    PROVE  Alike(s, Append(s, x), K, l)
BY AppendOther DEF Alike

LEMMA TailAlike ==
    ASSUME NEW S, NEW s \in Seq(S), s # <<>>, NEW K, NEW l,
           Head(s) \notin K \/ Head(s).item # l
    PROVE  Alike(s, Tail(s), K, l)
BY TailOther, TailLast DEF Alike

LEMMA SameAlike ==
    ASSUME NEW s, NEW K, NEW l
    PROVE  Alike(s, s, K, l)
BY DEF Alike

(* What the bus does with a message that does not switch l, and with one   *)
(* that does.                                                              *)
LEMMA PlaceAlike ==
    ASSUME QueueTypes, Domains, NEW msg \in Messages \cup Measurements, Place(msg),
           NEW l \in AllLights
    PROVE  /\ msg \notin Writes \/ msg.item # l =>
                  /\ \A m \in Subscribers : Alike(rx[m], rx'[m], Writes, l)
                  /\ lastWrite'[l] = lastWrite[l]
           /\ msg \notin Commands \/ msg.item # l =>
                  \A m \in Subscribers : Alike(rx[m], rx'[m], Commands, l)
           /\ msg \in Writes /\ msg.item = l =>
                  /\ lastWrite'[l] = msg.on
                  /\ \A m \in Subscribers : ActsOn(m, msg) =>
                        /\ ~Without(rx'[m], Writes, l)
                        /\ LastIs(rx'[m], Writes, l, msg.on)
           /\ msg \in Commands /\ msg.item = l =>
                  \A m \in Subscribers : ActsOn(m, msg) =>
                        /\ ~Without(rx'[m], Commands, l)
                        /\ LastIs(rx'[m], Commands, l, msg.on)
<1>1. /\ \A m \in Subscribers :
             ActsOn(m, msg) => msg \in Messages /\ rx'[m] = Append(rx[m], msg)
      /\ \A m \in Subscribers : ~ActsOn(m, msg) => rx'[m] = rx[m]
      /\ \A m \in Subscribers : rx[m] \in Seq(Messages)
  BY PlaceFacts DEF QueueTypes
<1>2. ASSUME NEW K, msg \notin K \/ msg.item # l
      PROVE  \A m \in Subscribers : Alike(rx[m], rx'[m], K, l)
  <2> TAKE m \in Subscribers
  <2>1. CASE ActsOn(m, msg)
    BY <1>1, <1>2, <2>1, AppendAlike
  <2>2. CASE ~ActsOn(m, msg)
    BY <1>1, <2>2, SameAlike
  <2> QED
    BY <2>1, <2>2
<1>3. ASSUME NEW K, msg \in K, msg.item = l, NEW m \in Subscribers, ActsOn(m, msg)
      PROVE  ~Without(rx'[m], K, l) /\ LastIs(rx'[m], K, l, msg.on)
  BY <1>1, <1>3, AppendOne
<1>4. msg \in Writes <=> msg.cmd = "Write" /\ msg.id = "LightState"
  BY Kinds
<1>5. msg \notin Writes \/ msg.item # l => lastWrite'[l] = lastWrite[l]
  BY <1>4 DEF Place, Domains
<1>6. msg \in Writes /\ msg.item = l => lastWrite'[l] = msg.on
  BY <1>4 DEF Place, Domains
<1> QED
  BY <1>2, <1>3, <1>5, <1>6

(* How a queue changes when its manager takes a message.                   *)
LEMMA TookFacts ==
    ASSUME QueueTypes, NEW m \in Subscribers, Took(m)
    PROVE  /\ DOMAIN rx' = Subscribers
           /\ rx[m] # <<>> /\ rx'[m] = Tail(rx[m]) /\ Head(rx[m]) \in Messages
           /\ \A n \in Subscribers : n # m => rx'[n] = rx[n]
           /\ \A n \in Subscribers : rx'[n] \in Seq(Messages)
           /\ \A K, l : Head(rx[m]) \notin K \/ Head(rx[m]).item # l =>
                  \A n \in Subscribers : Alike(rx[n], rx'[n], K, l)
<1>1. /\ DOMAIN rx' = Subscribers
      /\ rx[m] # <<>> /\ rx'[m] = Tail(rx[m])
      /\ \A n \in Subscribers : n # m => rx'[n] = rx[n]
  BY DEF QueueTypes, Took
<1>2. Head(rx[m]) \in Messages /\ rx'[m] \in Seq(Messages)
  BY <1>1, TailFacts DEF QueueTypes
<1>3. ASSUME NEW K, NEW l, Head(rx[m]) \notin K \/ Head(rx[m]).item # l,
             NEW n \in Subscribers
      PROVE  Alike(rx[n], rx'[n], K, l)
  <2>1. CASE n = m
    BY <1>1, <1>3, <2>1, TailAlike DEF QueueTypes
  <2>2. CASE n # m
    BY <1>1, <2>2, SameAlike
  <2> QED
    BY <2>1, <2>2
<1> QED
  BY <1>1, <1>2, <1>3 DEF QueueTypes

(* HueFollows and TelldusFollows for one light.                            *)
HueFollowsFor(l) ==
    /\ LastIs(rx["hue"], Writes, l, lastWrite[l])
    /\ Without(rx["hue"], Writes, l) => Settled(l)

TelldusFollowsFor(l) ==
    /\ LastIs(rx["telldus"], Writes, l, lastWrite[l])
    /\ Without(rx["telldus"], Writes, l) =>
           /\ LastIs(tx["telldus"], Commands, l, lastWrite[l])
           /\ Without(tx["telldus"], Commands, l) =>
                  /\ LastIs(rx["shell"], Commands, l, lastWrite[l])
                  /\ Without(rx["shell"], Commands, l) => Settled(l)

LEMMA FollowsFor ==
    /\ HueFollows <=> \A l \in HueLights : HueFollowsFor(l)
    /\ TelldusFollows <=> \A l \in TelldusLights : TelldusFollowsFor(l)
    /\ HueFollows' <=> \A l \in HueLights : HueFollowsFor(l)'
    /\ TelldusFollows' <=> \A l \in TelldusLights : TelldusFollowsFor(l)'
BY DEF HueFollows, TelldusFollows, HueFollowsFor, TelldusFollowsFor

(* Nothing changes for l when no queue to it and no lamp does.             *)
LEMMA HueKept ==
    ASSUME NEW l, HueFollowsFor(l),
           Alike(rx["hue"], rx'["hue"], Writes, l),
           lastWrite'[l] = lastWrite[l], lamp'[l] = lamp[l],
           l \in failed' <=> l \in failed
    PROVE  HueFollowsFor(l)'
BY DEF HueFollowsFor, Alike, Settled

LEMMA TelldusKept ==
    ASSUME NEW l, TelldusFollowsFor(l),
           Alike(rx["telldus"], rx'["telldus"], Writes, l),
           Alike(tx["telldus"], tx'["telldus"], Commands, l),
           Alike(rx["shell"], rx'["shell"], Commands, l),
           lastWrite'[l] = lastWrite[l], lamp'[l] = lamp[l],
           l \in failed' <=> l \in failed
    PROVE  TelldusFollowsFor(l)'
BY DEF TelldusFollowsFor, Alike, Settled

(* A message from outside or from a queue that is not telldus's goes to    *)
(* the subscribers: what it writes is the last write.                      *)
LEMMA HuePlaced ==
    ASSUME QueueTypes, Domains, HueFollows, NEW msg \in Messages \cup Measurements,
           Place(msg), UNCHANGED <<lamp, failed>>
    PROVE  HueFollows'
<1> SUFFICES ASSUME NEW l \in HueLights PROVE HueFollowsFor(l)'
  BY FollowsFor
<1>1. HueFollowsFor(l) /\ l \in AllLights /\ "hue" \in Subscribers
  BY FollowsFor, Names
<1>2. CASE msg \in Writes /\ msg.item = l
  <2>1. ActsOn("hue", msg)
    BY <1>2, Acting, Kinds
  <2> QED
    BY <1>1, <1>2, <2>1, PlaceAlike DEF HueFollowsFor
<1>3. CASE msg \notin Writes \/ msg.item # l
  BY <1>1, <1>3, PlaceAlike, HueKept
<1> QED
  BY <1>2, <1>3

LEMMA TelldusPlaced ==
    ASSUME QueueTypes, Domains, TelldusFollows, NEW msg \in Messages \cup Measurements,
           msg \notin Commands, Place(msg), tx'["telldus"] = tx["telldus"],
           UNCHANGED <<lamp, failed>>
    PROVE  TelldusFollows'
<1> SUFFICES ASSUME NEW l \in TelldusLights PROVE TelldusFollowsFor(l)'
  BY FollowsFor
<1>1. /\ TelldusFollowsFor(l) /\ l \in AllLights
      /\ "telldus" \in Subscribers /\ "shell" \in Subscribers
  BY FollowsFor, Names
<1>2. CASE msg \in Writes /\ msg.item = l
  <2>1. ActsOn("telldus", msg)
    BY <1>2, Acting, Kinds
  <2> QED
    BY <1>1, <1>2, <2>1, PlaceAlike DEF TelldusFollowsFor
<1>3. CASE msg \notin Writes \/ msg.item # l
  BY <1>1, <1>3, PlaceAlike, SameAlike, TelldusKept
<1> QED
  BY <1>2, <1>3

(* The second hop: the bus takes a message of telldus. A command goes to   *)
(* the shell.                                                              *)
LEMMA TelldusRouted ==
    ASSUME QueueTypes, Domains, TelldusFollows, Route("telldus")
    PROVE  TelldusFollows'
<1> DEFINE msg == Head(tx["telldus"])
<1> SUFFICES ASSUME NEW l \in TelldusLights PROVE TelldusFollowsFor(l)'
  BY FollowsFor
<1>1. /\ TelldusFollowsFor(l) /\ l \in AllLights /\ "telldus" \in Senders
      /\ "telldus" \in Subscribers /\ "shell" \in Subscribers
  BY FollowsFor, Names
<1>2. /\ tx["telldus"] # <<>> /\ msg \in Messages \cup Measurements
      /\ msg \in Sent["telldus"]
      /\ tx'["telldus"] = Tail(tx["telldus"]) /\ Place(msg)
      /\ tx["telldus"] \in Seq(Sent["telldus"])
  BY <1>1, RouteFacts DEF QueueTypes
<1> HIDE DEF msg
<1>3. msg \notin Writes
  BY <1>2, SentNames, Kinds
<1>4. /\ Alike(rx["telldus"], rx'["telldus"], Writes, l)
      /\ lastWrite'[l] = lastWrite[l]
  BY <1>1, <1>2, <1>3, PlaceAlike
<1>5. UNCHANGED <<lamp, failed>>
  BY DEF Route, house
<1>6. CASE msg \in Commands /\ msg.item = l
  <2>1. ActsOn("shell", msg)
    BY <1>2, <1>6, Acting, Kinds
  <2>2. /\ ~Without(rx'["shell"], Commands, l)
        /\ LastIs(rx'["shell"], Commands, l, msg.on)
    BY <1>1, <1>2, <1>6, <2>1, PlaceAlike
  <2>3. ASSUME Without(rx["telldus"], Writes, l)
        PROVE  /\ LastIs(tx'["telldus"], Commands, l, lastWrite[l])
               /\ Without(tx'["telldus"], Commands, l) => msg.on = lastWrite[l]
    BY <1>1, <1>2, <1>6, <2>3, TailLast DEF TelldusFollowsFor, msg
  <2> QED
    BY <1>1, <1>4, <2>2, <2>3 DEF TelldusFollowsFor, Alike
<1>7. CASE msg \notin Commands \/ msg.item # l
  <2>1. Alike(tx["telldus"], tx'["telldus"], Commands, l)
    BY <1>2, <1>7, TailAlike DEF msg
  <2>2. Alike(rx["shell"], rx'["shell"], Commands, l)
    BY <1>1, <1>2, <1>7, PlaceAlike
  <2> QED
    BY <1>1, <1>4, <1>5, <2>1, <2>2, TelldusKept
<1> QED
  BY <1>6, <1>7

(* The bridge takes a write, refuses it, or loses its answer.              *)
LEMMA HueSet ==
    ASSUME QueueTypes, Domains, TypeOK, HueFollows, TelldusFollows,
           Took("hue"), SetLamp(Head(rx["hue"])), Head(rx["hue"]) \in Writes
    PROVE  HueFollows' /\ TelldusFollows'
<1> DEFINE msg == Head(rx["hue"])
<1>1. /\ "hue" \in Subscribers /\ "telldus" \in Subscribers /\ "shell" \in Subscribers
      /\ HueLights \cap TelldusLights = {} /\ HueLights \subseteq AllLights
      /\ TelldusLights \subseteq AllLights
  BY Names
<1>2. /\ rx["hue"] # <<>> /\ rx'["hue"] = Tail(rx["hue"]) /\ rx["hue"] \in Seq(Messages)
      /\ \A l : msg.item # l => Alike(rx["hue"], rx'["hue"], Writes, l)
      /\ rx'["telldus"] = rx["telldus"] /\ rx'["shell"] = rx["shell"]
      /\ tx' = tx /\ lastWrite' = lastWrite
  BY <1>1, TookFacts DEF QueueTypes, SetLamp
<1>3. /\ msg.item \in HueLights
      /\ \/ lamp'[msg.item] = msg.on
         \/ msg.item \in failed'
      /\ \A l \in AllLights : l # msg.item =>
             lamp'[l] = lamp[l] /\ (l \in failed' <=> l \in failed)
  BY <1>1 DEF SetLamp, TypeOK
<1>4. ASSUME NEW l \in HueLights PROVE HueFollowsFor(l)'
  <2>1. HueFollowsFor(l)
    BY FollowsFor
  <2>2. CASE l = msg.item
    <3>1. /\ LastIs(rx'["hue"], Writes, l, lastWrite[l])
          /\ Without(rx'["hue"], Writes, l) => msg.on = lastWrite[l]
      BY <1>2, <2>1, <2>2, TailLast DEF HueFollowsFor
    <3> QED
      BY <1>2, <1>3, <2>2, <3>1 DEF HueFollowsFor, Settled
  <2>3. CASE l # msg.item
    BY <1>1, <1>2, <1>3, <2>1, <2>3, HueKept
  <2> QED
    BY <2>2, <2>3
<1>5. ASSUME NEW l \in TelldusLights PROVE TelldusFollowsFor(l)'
  <2>1. l # msg.item /\ TelldusFollowsFor(l)
    BY <1>1, <1>3, FollowsFor
  <2> QED
    BY <1>1, <1>2, <1>3, <2>1, TelldusKept, SameAlike
<1> QED
  BY <1>4, <1>5, FollowsFor

(* A write becomes a command.                                              *)
LEMMA TelldusSet ==
    ASSUME QueueTypes, Domains, HueFollows, TelldusFollows,
           Took("telldus"), SetTelldusLight(Head(rx["telldus"])),
           Head(rx["telldus"]) \in Writes
    PROVE  /\ HueFollows' /\ TelldusFollows'
           /\ Message("Write", "CommandLine", Head(rx["telldus"]).item,
                      Head(rx["telldus"]).on, None) \in Commands
<1> DEFINE msg == Head(rx["telldus"])
           command == Message("Write", "CommandLine", msg.item, msg.on, None)
<1>1. /\ "hue" \in Subscribers /\ "telldus" \in Subscribers /\ "shell" \in Subscribers
      /\ "telldus" \in Senders
  BY Names
<1>2. /\ rx["telldus"] # <<>> /\ rx'["telldus"] = Tail(rx["telldus"])
      /\ rx["telldus"] \in Seq(Messages)
      /\ \A l : msg.item # l => Alike(rx["telldus"], rx'["telldus"], Writes, l)
      /\ rx'["hue"] = rx["hue"] /\ rx'["shell"] = rx["shell"]
      /\ UNCHANGED <<lamp, failed, lastWrite>>
  BY <1>1, TookFacts DEF QueueTypes, SetTelldusLight
<1>3. command \in Commands /\ command.item = msg.item /\ command.on = msg.on
  BY DEF SetTelldusLight, Message, Commands, Writes
<1>4. /\ tx'["telldus"] = Append(tx["telldus"], command)
      /\ tx["telldus"] \in Seq(Sent["telldus"]) /\ command \in Sent["telldus"]
  BY <1>1, <1>3, SendFacts, SentNames DEF SetTelldusLight, QueueTypes
<1> HIDE DEF command
<1>5. ASSUME NEW l \in TelldusLights PROVE TelldusFollowsFor(l)'
  <2>1. TelldusFollowsFor(l)
    BY FollowsFor
  <2>2. CASE l = msg.item
    <3>1. /\ LastIs(rx'["telldus"], Writes, l, lastWrite[l])
          /\ Without(rx'["telldus"], Writes, l) => msg.on = lastWrite[l]
      BY <1>2, <2>1, <2>2, TailLast DEF TelldusFollowsFor
    <3>2. /\ ~Without(tx'["telldus"], Commands, l)
          /\ LastIs(tx'["telldus"], Commands, l, msg.on)
      BY <1>3, <1>4, <2>2, AppendOne
    <3> QED
      BY <1>2, <3>1, <3>2 DEF TelldusFollowsFor
  <2>3. CASE l # msg.item
    <3>1. Alike(tx["telldus"], tx'["telldus"], Commands, l)
      BY <1>3, <1>4, <2>3, AppendAlike
    <3> QED
      BY <1>2, <2>1, <2>3, <3>1, TelldusKept, SameAlike
  <2> QED
    BY <2>2, <2>3
<1>6. ASSUME NEW l \in HueLights PROVE HueFollowsFor(l)'
  BY <1>2, FollowsFor, HueKept, SameAlike
<1> QED
  BY <1>3, <1>5, <1>6, FollowsFor DEF command

(* tdtool switches the lamp, or fails.                                     *)
LEMMA ShellSet ==
    ASSUME QueueTypes, Domains, TypeOK, HueFollows, TelldusFollows,
           Took("shell"), RunCommand(Head(rx["shell"])), Head(rx["shell"]) \in Commands
    PROVE  HueFollows' /\ TelldusFollows'
<1> DEFINE msg == Head(rx["shell"])
<1>1. /\ "hue" \in Subscribers /\ "telldus" \in Subscribers /\ "shell" \in Subscribers
      /\ HueLights \cap TelldusLights = {} /\ HueLights \subseteq AllLights
      /\ TelldusLights \subseteq AllLights
  BY Names
<1>2. /\ rx["shell"] # <<>> /\ rx'["shell"] = Tail(rx["shell"])
      /\ rx["shell"] \in Seq(Messages)
      /\ \A l : msg.item # l => Alike(rx["shell"], rx'["shell"], Commands, l)
      /\ rx'["hue"] = rx["hue"] /\ rx'["telldus"] = rx["telldus"]
      /\ tx' = tx /\ lastWrite' = lastWrite
  BY <1>1, TookFacts DEF QueueTypes, RunCommand
<1>3. /\ msg.item \in TelldusLights
      /\ \/ lamp'[msg.item] = msg.on
         \/ msg.item \in failed'
      /\ \A l \in AllLights : l # msg.item =>
             lamp'[l] = lamp[l] /\ (l \in failed' <=> l \in failed)
  BY <1>1 DEF RunCommand, TypeOK, Commands
<1>4. ASSUME NEW l \in TelldusLights PROVE TelldusFollowsFor(l)'
  <2>1. TelldusFollowsFor(l)
    BY FollowsFor
  <2>2. CASE l = msg.item
    <3>1. LastIs(rx["shell"], Commands, l, lastWrite[l]) =>
              /\ LastIs(rx'["shell"], Commands, l, lastWrite[l])
              /\ Without(rx'["shell"], Commands, l) => msg.on = lastWrite[l]
      BY <1>2, <2>2, TailLast
    <3> QED
      BY <1>2, <1>3, <2>1, <2>2, <3>1 DEF TelldusFollowsFor, Settled
  <2>3. CASE l # msg.item
    BY <1>1, <1>2, <1>3, <2>1, <2>3, TelldusKept, SameAlike
  <2> QED
    BY <2>2, <2>3
<1>5. ASSUME NEW l \in HueLights PROVE HueFollowsFor(l)'
  <2>1. l # msg.item /\ HueFollowsFor(l)
    BY <1>1, <1>3, FollowsFor
  <2> QED
    BY <1>1, <1>2, <1>3, <2>1, HueKept, SameAlike
<1> QED
  BY <1>4, <1>5, FollowsFor

(* A step that neither routes nor handles what switches a lamp.            *)
LEMMA FollowsQuiet ==
    ASSUME QueueTypes, HueFollows, TelldusFollows,
           UNCHANGED <<lamp, failed, lastWrite>>,
           \/ UNCHANGED rx
           \/ \E m \in Subscribers : Took(m) /\ Head(rx[m]) \notin Writes \cup Commands,
           \/ tx'["telldus"] = tx["telldus"]
           \/ \E msg \in Sent["telldus"] \ Commands : SendMessage("telldus", msg)
    PROVE  HueFollows' /\ TelldusFollows'
<1>1. "hue" \in Subscribers /\ "telldus" \in Subscribers /\ "shell" \in Subscribers
      /\ "telldus" \in Senders
  BY Names
<1>2. \A n \in Subscribers : \A l : /\ Alike(rx[n], rx'[n], Writes, l)
                                     /\ Alike(rx[n], rx'[n], Commands, l)
  <2>1. CASE UNCHANGED rx
    BY <2>1, SameAlike
  <2>2. CASE \E m \in Subscribers : Took(m) /\ Head(rx[m]) \notin Writes \cup Commands
    BY <2>2, TookFacts
  <2> QED
    BY <2>1, <2>2
<1>3. \A l : Alike(tx["telldus"], tx'["telldus"], Commands, l)
  <2>1. CASE tx'["telldus"] = tx["telldus"]
    BY <2>1, SameAlike
  <2>2. CASE \E msg \in Sent["telldus"] \ Commands : SendMessage("telldus", msg)
    <3>1. PICK msg \in Sent["telldus"] : msg \notin Commands /\ SendMessage("telldus", msg)
      BY <2>2
    <3>2. /\ tx'["telldus"] = Append(tx["telldus"], msg)
          /\ tx["telldus"] \in Seq(Sent["telldus"])
      BY <1>1, <3>1, SendFacts DEF QueueTypes
    <3> QED
      BY <3>1, <3>2, AppendAlike
  <2> QED
    BY <2>1, <2>2
<1>4. ASSUME NEW l \in HueLights PROVE HueFollowsFor(l)'
  BY <1>1, <1>2, FollowsFor, HueKept
<1>5. ASSUME NEW l \in TelldusLights PROVE TelldusFollowsFor(l)'
  BY <1>1, <1>2, <1>3, FollowsFor, TelldusKept
<1> QED
  BY <1>4, <1>5, FollowsFor

LEMMA FollowsStep ==
    ASSUME TypeOK, Domains, Routed, AllSay, HueFollows, TelldusFollows, [Next]_vars
    PROVE  HueFollows' /\ TelldusFollows'
<1>1. QueueTypes
  BY QueuesTyped
<1>2. "telldus" \in Senders /\ "json" # "telldus" /\ "telldus" \in Subscribers
  BY Names
<1>3. CASE receive \/ HandleLightSwitches
  <2>1. PICK msg \in Messages : Place(msg) /\ msg \in Writes \cup Presences \cup Reads
    BY <1>3, InputFacts
  <2>2. msg \notin Commands
    BY <2>1, Kinds
  <2>3. UNCHANGED <<tx, lamp, failed>>
    BY <1>3, InputFacts DEF house
  <2> QED
    BY <1>1, <2>1, <2>2, <2>3, HuePlaced, TelldusPlaced
<1>4. CASE TelldusCallback
  <2>1. Message("Read", "CommandLine", None, FALSE, None) \in Reads
    BY DEF Message, Reads
  <2>2. Message("Read", "CommandLine", None, FALSE, None) \in Sent["telldus"] \ Commands
    BY <2>1, SentNames, Kinds DEF Messages
  <2> QED
    BY <1>1, <1>4, <2>2, FollowsQuiet DEF TelldusCallback, Input, house
<1>5. ASSUME NEW q \in Questions,
             setLightState(q) \/ setBTDevPresent(q) \/ get(q) \/ Asker(q)
      PROVE  HueFollows' /\ TelldusFollows'
  <2>1. UNCHANGED <<rx, lamp, failed, lastWrite>>
    BY <1>5 DEF setLightState, setBTDevPresent, get, Asker, Ask, SendAndRead, TimeOut,
                queues, house, history
  <2>2. tx'["telldus"] = tx["telldus"]
    BY <1>1, <1>2, <1>5 DEF setLightState, setBTDevPresent, get, Asker, SendAndRead,
                TimeOut, SendMessage, queues, QueueTypes
  <2> QED
    BY <1>1, <2>1, <2>2, FollowsQuiet
<1>6. ASSUME NEW m \in Senders, Route(m) PROVE HueFollows' /\ TelldusFollows'
  <2>1. /\ Head(tx[m]) \in Sent[m] /\ Head(tx[m]) \in Messages \cup Measurements
        /\ \A n \in Senders : n # m => tx'[n] = tx[n]
        /\ Place(Head(tx[m])) /\ UNCHANGED <<lamp, failed>>
    BY <1>1, <1>6, RouteFacts DEF Route, house
  <2>2. HueFollows'
    BY <1>1, <2>1, HuePlaced
  <2>3. CASE m = "telldus"
    BY <1>1, <1>6, <2>2, <2>3, TelldusRouted
  <2>4. CASE m # "telldus"
    <3>1. Head(tx[m]) \notin Commands
      BY <2>1, <2>4, Names, SentNames, Kinds
    <3> QED
      BY <1>1, <1>2, <2>1, <2>2, <2>4, <3>1, TelldusPlaced
  <2> QED
    BY <2>3, <2>4
<1>7. ASSUME NEW m \in Subscribers, HandleMessage(m) PROVE HueFollows' /\ TelldusFollows'
  <2> DEFINE msg == Head(rx[m])
  <2>1. Took(m) /\ msg \in Messages
    BY <1>7, HandlerCases
  <2>2. CASE m = "hue" /\ SetLamp(msg) /\ msg \in Writes
    BY <1>1, <2>1, <2>2, HueSet
  <2>3. CASE m = "telldus" /\ SetTelldusLight(msg) /\ msg \in Writes
    BY <1>1, <2>1, <2>3, TelldusSet
  <2>4. CASE m = "shell" /\ RunCommand(msg) /\ msg \in Commands
    BY <1>1, <2>1, <2>4, ShellSet
  <2>5. CASE m = "presence" /\ isAtLeastSomeoneAtHome(msg) /\ msg \in Presences
    <3>1. msg \notin Writes \cup Commands
      BY <2>1, <2>5, Kinds
    <3> QED
      BY <1>1, <2>1, <2>5, <3>1, FollowsQuiet DEF isAtLeastSomeoneAtHome
  <2>6. CASE Replies(m)
    <3>1. msg \notin Writes \cup Commands
      BY <2>1, <2>6, Kinds DEF Replies
    <3>2. UNCHANGED <<lamp, failed, lastWrite>>
      BY <2>6 DEF Replies, house, history
    <3>3. \/ tx'["telldus"] = tx["telldus"]
          \/ \E x \in Sent["telldus"] \ Commands : SendMessage("telldus", x)
      <4>1. CASE m = "telldus"
        BY <2>6, <4>1 DEF Replies
      <4>2. CASE m # "telldus"
        BY <1>1, <1>2, <2>6, <4>2 DEF Replies, SendMessage, QueueTypes
      <4> QED
        BY <4>1, <4>2
    <3> QED
      BY <1>1, <2>1, <3>1, <3>2, <3>3, FollowsQuiet
  <2>7. CASE Tells(m)
    <3>1. msg \notin Writes \cup Commands
      BY <2>1, <2>7, Kinds DEF Tells
    <3> QED
      BY <1>1, <2>1, <2>7, <3>1, FollowsQuiet DEF Tells, house, history
  <2> QED
    BY <1>7, <2>2, <2>3, <2>4, <2>5, <2>6, <2>7, HandlerCases
<1>8. CASE UNCHANGED vars
  BY <1>1, <1>8, FollowsQuiet DEF vars, queues, house, history
<1> QED
  BY <1>3, <1>4, <1>5, <1>6, <1>7, <1>8 DEF Next

-----------------------------------------------------------------------------
(* Questions are answered *)

(* What a step may do to the questions.                                    *)
Kept == \A q \in Questions : question[q] # None => question'[q] = question[q]

LEMMA QuestionsKept ==
    ASSUME TypeOK, Domains, Routed, AllSay, Asked, [Next]_vars
    PROVE  Kept
<1>1. ASSUME NEW q \in Questions, NEW id, NEW item, NEW on, Ask(q, id, item, on)
      PROVE  Kept
  BY <1>1 DEF Ask, Asked, Kept, Domains
<1>2. UNCHANGED question => Kept
  BY DEF Kept
<1>3. ASSUME NEW q \in Questions,
             setLightState(q) \/ setBTDevPresent(q) \/ get(q) \/ Asker(q)
      PROVE  Kept
  <2>1. CASE Asker(q)
    BY <1>2, <2>1 DEF Asker, SendAndRead, TimeOut
  <2> QED
    BY <1>1, <1>3, <2>1 DEF setLightState, setBTDevPresent, get
<1>4. ASSUME NEW m \in Subscribers, HandleMessage(m) PROVE UNCHANGED question
  BY <1>4, HandlerCases DEF SetLamp, SetTelldusLight, RunCommand, isAtLeastSomeoneAtHome,
     Replies, Tells, asking
<1>5. ASSUME NEW m \in Senders, Route(m) PROVE UNCHANGED question
  BY <1>5 DEF Route, asking
<1>6. receive \/ HandleLightSwitches \/ TelldusCallback => UNCHANGED question
  BY DEF receive, HandleLightSwitches, TelldusCallback, Input, asking
<1> QED
  BY <1>2, <1>3, <1>4, <1>5, <1>6 DEF Next, vars, asking

(* What a message of a question said stays said.                           *)
LEMMA SaysKept ==
    ASSUME Kept, NEW msg \in Messages \cup Measurements, Says(msg)
    PROVE  StillSays(msg)
<1>1. msg \in Writes \cup Presences => msg.by \in Questions \cup {None}
  BY DEF Writes, Presences
<1>2. msg \in DirectReads => msg.by \in Questions
  BY DEF DirectReads
<1> QED
  BY <1>1, <1>2 DEF Kept, Says, StillSays, SaysAs

(* A question begins, with a write or with none.                           *)
Begins(q, query) ==
    /\ stage[q] = "new"
    /\ stage' = [stage EXCEPT ![q] = "asking"]
    /\ question' = [question EXCEPT ![q] = query]
    /\ UNCHANGED <<rx, house, answer, crashed, inputs, history>>

WritesFor(q, query) ==
    \E msg \in Writes \cup Presences :
        /\ SendMessage("json", msg)
        /\ msg.by = q /\ msg.item = query.item /\ msg.on = query.on

LEMMA AskFacts ==
    ASSUME NEW q \in Questions, setLightState(q) \/ setBTDevPresent(q) \/ get(q)
    PROVE  \E query \in Queries :
             /\ query # None /\ Begins(q, query)
             /\ \/ query.on = None /\ UNCHANGED tx
                \/ query.on \in BOOLEAN /\ WritesFor(q, query)
<1> DEFINE Goal == \E query \in Queries :
             /\ query # None /\ Begins(q, query)
             /\ \/ query.on = None /\ UNCHANGED tx
                \/ query.on \in BOOLEAN /\ WritesFor(q, query)
<1> SUFFICES Goal
  OBVIOUS
<1>1. ASSUME NEW id, NEW item, NEW on, Ask(q, id, item, on)
      PROVE  Begins(q, [id |-> id, item |-> item, on |-> on])
  BY <1>1 DEF Ask, Begins
<1>2. \A query \in Queries : query # None
  BY NoneIsNoQuery
<1> HIDE DEF Goal
<1>3. ASSUME setLightState(q) PROVE Goal
  <2>1. PICK l \in AllLights, on \in BOOLEAN :
           /\ Ask(q, "LightState", l, on)
           /\ SendMessage("json", Message("Write", "LightState", l, on, q))
    BY <1>3 DEF setLightState
  <2> DEFINE query == [id |-> "LightState", item |-> l, on |-> on]
             msg == Message("Write", "LightState", l, on, q)
  <2>2. query \in Queries /\ query.on \in BOOLEAN
    BY DEF Queries
  <2>3. msg \in Writes /\ msg.by = q /\ msg.item = query.item /\ msg.on = query.on
    BY DEF Message, Writes
  <2>4. WritesFor(q, query)
    BY <2>1, <2>3 DEF WritesFor
  <2> QED
    BY <1>1, <1>2, <2>1, <2>2, <2>4 DEF Goal
<1>4. ASSUME setBTDevPresent(q) PROVE Goal
  <2>1. PICK d \in Devices, on \in BOOLEAN :
           /\ Ask(q, "Presence", d, on)
           /\ SendMessage("json", Message("Write", "BlootoothDevice", d, on, q))
    BY <1>4 DEF setBTDevPresent
  <2> DEFINE query == [id |-> "Presence", item |-> d, on |-> on]
             msg == Message("Write", "BlootoothDevice", d, on, q)
  <2>2. query \in Queries /\ query.on \in BOOLEAN
    BY DEF Queries
  <2>3. msg \in Presences /\ msg.by = q /\ msg.item = query.item /\ msg.on = query.on
    BY DEF Message, Presences
  <2>4. WritesFor(q, query)
    BY <2>1, <2>3 DEF WritesFor
  <2> QED
    BY <1>1, <1>2, <2>1, <2>2, <2>4 DEF Goal
<1>5. ASSUME get(q) PROVE Goal
  <2>1. UNCHANGED tx
    BY <1>5 DEF get
  <2>2. PICK id, item : /\ Ask(q, id, item, None)
                        /\ [id |-> id, item |-> item, on |-> None] \in Queries
    BY <1>5 DEF get, Queries
  <2> DEFINE query == [id |-> id, item |-> item, on |-> None]
  <2>3. query \in Queries /\ query.on = None
    BY <2>2
  <2> QED
    BY <1>1, <1>2, <2>1, <2>2, <2>3 DEF Goal
<1> QED
  BY <1>3, <1>4, <1>5

LEMMA SendAndReadFacts ==
    ASSUME TypeOK, Domains, Asked, NEW q \in Questions, SendAndRead(q)
    PROVE  \E msg \in DirectReads : /\ SendMessage("json", msg)
                                    /\ msg.by = q /\ Says(msg)
<1>1. question[q] \in Queries /\ question[q] # None
  BY DEF SendAndRead, Asked, Domains
<1> DEFINE msg == Message("ReadWithDirectAnswer", question[q].id, question[q].item,
                          FALSE, q)
<1>2. question[q].id \in {"LightState", "Lights", "Presence"}
      /\ question[q].item \in AllLights \cup Devices \cup {None}
  BY <1>1 DEF Queries
<1>3. /\ msg \in DirectReads /\ msg.by = q
      /\ msg.id = question[q].id /\ msg.item = question[q].item
      /\ msg.cmd = "ReadWithDirectAnswer"
  BY <1>2 DEF Message, DirectReads
<1>4. msg \notin Writes \cup Presences
  BY <1>3 DEF Writes, Presences
<1>5. Says(msg)
  BY <1>1, <1>3, <1>4 DEF Says, SaysAs
<1> QED
  BY <1>3, <1>5 DEF SendAndRead

(* What a handler does about questions: one that takes the write of a      *)
(* question marks it as handled.                                           *)
LEMMA HandlerFacts ==
    ASSUME TypeOK, Domains, Routed, AllSay, NEW m \in Subscribers, HandleMessage(m)
    PROVE  /\ tx'["json"] = tx["json"] /\ UNCHANGED question
           /\ handled' \in SUBSET Questions /\ handled \subseteq handled'
           /\ Head(rx[m]) \in Writes \cup Presences =>
                  Head(rx[m]).by \in handled' \cup {None}
           /\ stage' \in [Questions -> {"new", "asking", "waiting", "answered", "timedout"}]
           /\ \A q \in Questions :
                stage'[q] = stage[q] \/ (stage[q] = "waiting" /\ stage'[q] = "answered")
<1> DEFINE msg == Head(rx[m])
<1>1. QueueTypes /\ "json" \in Senders /\ "json" \notin Subscribers
      /\ Subscribers \subseteq Senders
  BY QueuesTyped, Names
<1>2. msg \in Messages /\ Took(m)
  BY HandlerCases
<1>3. msg \in Writes \cup Presences => msg.by \in Questions \cup {None}
  BY DEF Writes, Presences
<1>4. ASSUME NEW taken, Handled(msg, taken), msg \in Writes \cup Presences
      PROVE  /\ handled' \in SUBSET Questions /\ handled \subseteq handled'
             /\ msg.by \in handled' \cup {None}
  BY <1>3, <1>4 DEF Handled, TypeOK
<1>5. \A x : SendMessage(m, x) => tx'["json"] = tx["json"]
  BY <1>1 DEF SendMessage, QueueTypes
<1>6. stage \in [Questions -> {"new", "asking", "waiting", "answered", "timedout"}]
      /\ handled \in SUBSET Questions
  BY DEF TypeOK
<1> HIDE DEF msg
<1>7. CASE m = "hue" /\ SetLamp(msg) /\ msg \in Writes
  <2>1. \E taken : Handled(msg, taken)
    BY <1>7 DEF SetLamp
  <2> QED
    BY <1>4, <1>6, <1>7, <2>1 DEF SetLamp, asking, msg
<1>8. CASE m = "telldus" /\ SetTelldusLight(msg) /\ msg \in Writes
  BY <1>4, <1>5, <1>6, <1>8 DEF SetTelldusLight, asking, msg
<1>9. CASE m = "shell" /\ RunCommand(msg) /\ msg \in Commands
  <2>1. msg \notin Writes \cup Presences
    BY <1>2, <1>9, Kinds
  <2> QED
    BY <1>6, <1>9, <2>1 DEF RunCommand, asking, msg
<1>10. CASE m = "presence" /\ isAtLeastSomeoneAtHome(msg) /\ msg \in Presences
  BY <1>4, <1>6, <1>10 DEF isAtLeastSomeoneAtHome, asking, msg
<1>11. CASE Replies(m)
  <2>1. msg \notin Writes \cup Presences
    BY <1>2, <1>11, Kinds DEF Replies, msg
  <2> QED
    BY <1>5, <1>6, <1>11, <2>1 DEF Replies, asking, history, msg
<1>12. CASE Tells(m)
  <2>1. msg \notin Writes \cup Presences
    BY <1>2, <1>12, Kinds DEF Tells, msg
  <2>2. PICK value : value # None /\ Answer(msg.by, value)
    BY <1>12 DEF Tells, msg
  <2>3. msg.by \in Questions
    BY <1>12, TellFacts DEF msg
  <2>4. /\ stage' \in [Questions -> {"new", "asking", "waiting", "answered", "timedout"}]
        /\ \A q \in Questions :
             stage'[q] = stage[q] \/ (stage[q] = "waiting" /\ stage'[q] = "answered")
    BY <2>2, <2>3, AnswerFacts
  <2> QED
    BY <1>6, <1>12, <2>1, <2>4 DEF Tells, history, msg
<1> QED
  BY <1>7, <1>8, <1>9, <1>10, <1>11, <1>12, HandlerCases DEF msg

(* How the stages go on.                                                   *)
LEMMA StagesStep ==
    ASSUME TypeOK, Domains, Routed, AllSay, Asked, [Next]_vars
    PROVE  /\ stage' \in [Questions -> {"new", "asking", "waiting", "answered", "timedout"}]
           /\ question' \in [Questions -> Queries \cup {None}]
           /\ handled \subseteq handled' /\ handled' \in SUBSET Questions
           /\ \A q \in Questions : stage'[q] = "asking" =>
                stage[q] = "asking" \/ (stage[q] = "new" /\ question[q] = None)
           /\ Asked'
<1> DEFINE Stages == {"new", "asking", "waiting", "answered", "timedout"}
           Goal == /\ stage' \in [Questions -> Stages]
                   /\ question' \in [Questions -> Queries \cup {None}]
                   /\ handled \subseteq handled' /\ handled' \in SUBSET Questions
                   /\ \A q \in Questions : stage'[q] = "asking" =>
                        stage[q] = "asking" \/ (stage[q] = "new" /\ question[q] = None)
                   /\ Asked'
<1>1. /\ stage \in [Questions -> Stages]
      /\ question \in [Questions -> Queries \cup {None}]
      /\ handled \in SUBSET Questions
  BY DEF TypeOK, Domains
<1>2. ASSUME UNCHANGED <<stage, question, handled>> PROVE Goal
  BY <1>1, <1>2 DEF Asked
<1>3. ASSUME NEW q \in Questions, NEW query \in Queries, Begins(q, query), query # None
      PROVE  Goal
  BY <1>1, <1>3 DEF Begins, Asked, history
<1>4. ASSUME NEW q \in Questions, SendAndRead(q) \/ TimeOut(q) PROVE Goal
  BY <1>1, <1>4 DEF SendAndRead, TimeOut, Asked, history
<1>5. ASSUME NEW m \in Subscribers, HandleMessage(m) PROVE Goal
  BY <1>1, <1>5, HandlerFacts DEF Asked
<1>6. ASSUME NEW m \in Senders, Route(m) PROVE Goal
  BY <1>2, <1>6 DEF Route, asking
<1>7. receive \/ HandleLightSwitches \/ TelldusCallback => Goal
  BY <1>2 DEF receive, HandleLightSwitches, TelldusCallback, Input, asking
<1>8. UNCHANGED vars => Goal
  BY <1>2 DEF vars, asking, history
<1>9. Goal
  <2> HIDE DEF Goal
  <2> QED
    BY <1>3, <1>4, <1>5, <1>6, <1>7, <1>8, AskFacts DEF Next, Asker
<1> QED
  BY <1>9

(* What the queues hold after a step, and what they held before.           *)
LEMMA PlacedIn ==
    ASSUME QueueTypes, NEW msg \in Messages \cup Measurements, Place(msg),
           NEW m \in Subscribers
    PROVE  LET n == Len(rx[m]) + 1
           IN  /\ \A i \in DOMAIN rx[m] :
                    i \in DOMAIN rx'[m] /\ rx'[m][i] = rx[m][i] /\ i \in Nat
               /\ \A i \in DOMAIN rx'[m] :
                    \/ i \in DOMAIN rx[m] /\ rx'[m][i] = rx[m][i]
                    \/ /\ i = n /\ rx'[m][i] = msg /\ ActsOn(m, msg)
                       /\ \A j \in DOMAIN rx[m] : j < n
               /\ ActsOn(m, msg) => n \in DOMAIN rx'[m] /\ rx'[m][n] = msg
<1> DEFINE s == rx[m]
<1>1. s \in Seq(Messages)
  BY DEF QueueTypes
<1>2. CASE ActsOn(m, msg)
  <2>1. msg \in Messages /\ rx'[m] = Append(s, msg)
    BY <1>2, PlaceFacts
  <2> QED
    BY <1>1, <1>2, <2>1, AppendFacts
<1>3. CASE ~ActsOn(m, msg)
  <2>1. rx'[m] = s
    BY <1>3, PlaceFacts
  <2> QED
    BY <1>1, <1>3, <2>1
<1> QED
  BY <1>2, <1>3

(* A manager acts on what it has, and a message says what its question     *)
(* says.                                                                   *)
LEMMA RoutedStep ==
    ASSUME TypeOK, Domains, Routed, AllSay, Asked, [Next]_vars
    PROVE  Routed' /\ AllSay'
<1> DEFINE Goal == Routed' /\ AllSay'
<1>1. QueueTypes /\ "json" \in Senders /\ Kept /\ "json" \notin Subscribers
  BY QueuesTyped, Names, QuestionsKept
<1>2. /\ \A m \in Subscribers : \A i \in DOMAIN rx[m] : rx[m][i] \in Messages
      /\ \A m \in Senders : \A i \in DOMAIN tx[m] : tx[m][i] \in Messages \cup Measurements
  BY <1>1, SentNames DEF QueueTypes
<1>3. /\ \A m \in Subscribers : \A i \in DOMAIN rx[m] :
             ActsOn(m, rx[m][i]) /\ StillSays(rx[m][i])
      /\ \A i \in DOMAIN tx["json"] : StillSays(tx["json"][i])
  BY <1>1, <1>2, SaysKept DEF Routed, AllSay, Says, StillSays
<1>4. \A msg : msg \notin Writes \cup Presences \cup DirectReads => StillSays(msg)
  BY DEF StillSays, SaysAs
<1>5. \A msg : msg \in Writes \cup Presences /\ msg.by = None => StillSays(msg)
  BY DEF StillSays, SaysAs, Writes, Presences, DirectReads
<1>6. UNCHANGED rx =>
          \A m \in Subscribers : \A i \in DOMAIN rx'[m] :
             ActsOn(m, rx'[m][i]) /\ StillSays(rx'[m][i])
  BY <1>3
<1>7. tx'["json"] = tx["json"] => \A i \in DOMAIN tx'["json"] : StillSays(tx'["json"][i])
  BY <1>3
<1>8. ASSUME NEW msg \in Messages \cup Measurements, Place(msg), StillSays(msg)
      PROVE  \A m \in Subscribers : \A i \in DOMAIN rx'[m] :
                ActsOn(m, rx'[m][i]) /\ StillSays(rx'[m][i])
  <2> TAKE m \in Subscribers
  <2> TAKE i \in DOMAIN rx'[m]
  <2>1. \/ i \in DOMAIN rx[m] /\ rx'[m][i] = rx[m][i]
        \/ rx'[m][i] = msg /\ ActsOn(m, msg)
    BY <1>1, <1>8, PlacedIn
  <2> QED
    BY <1>3, <1>8, <2>1
<1>9. ASSUME NEW msg \in Sent["json"], SendMessage("json", msg), StillSays(msg)
      PROVE  \A i \in DOMAIN tx'["json"] : StillSays(tx'["json"][i])
  <2>1. tx'["json"] = Append(tx["json"], msg) /\ tx["json"] \in Seq(Sent["json"])
    BY <1>1, <1>9, SendFacts DEF QueueTypes
  <2>2. \A i \in DOMAIN tx'["json"] :
           \/ i \in DOMAIN tx["json"] /\ tx'["json"][i] = tx["json"][i]
           \/ tx'["json"][i] = msg
    BY <2>1, AppendFacts
  <2> QED
    BY <1>3, <1>9, <2>2
<1>10. CASE receive \/ HandleLightSwitches
  <2>1. PICK msg \in Messages :
            Place(msg) /\ msg.by = None /\ msg \in Writes \cup Presences \cup Reads
    BY <1>10, InputFacts
  <2>2. StillSays(msg)
    <3>1. CASE msg \in Reads
      BY <1>4, <2>1, <3>1, Kinds
    <3> QED
      BY <1>5, <2>1, <3>1
  <2>3. tx'["json"] = tx["json"]
    BY <1>10, InputFacts
  <2> QED
    BY <1>7, <1>8, <2>1, <2>2, <2>3 DEF Routed, AllSay, Says, StillSays
<1>11. CASE TelldusCallback
  <2>1. tx'["json"] = tx["json"] /\ UNCHANGED rx
    BY <1>1, <1>11 DEF TelldusCallback, SendMessage, QueueTypes
  <2> QED
    BY <1>6, <1>7, <2>1 DEF Routed, AllSay, Says, StillSays
<1>12. ASSUME NEW q \in Questions, setLightState(q) \/ setBTDevPresent(q) \/ get(q)
       PROVE  Goal
  <2>1. PICK query \in Queries :
             /\ query # None /\ Begins(q, query)
             /\ \/ query.on = None /\ UNCHANGED tx
                \/ query.on \in BOOLEAN /\ WritesFor(q, query)
    BY <1>12, AskFacts
  <2>2. UNCHANGED rx /\ question'[q] = query
    BY <2>1 DEF Begins, Domains
  <2>3. ASSUME WritesFor(q, query)
        PROVE  \A i \in DOMAIN tx'["json"] : StillSays(tx'["json"][i])
    <3>1. PICK msg \in Writes \cup Presences :
            /\ SendMessage("json", msg)
            /\ msg.by = q /\ msg.item = query.item /\ msg.on = query.on
      BY <2>3 DEF WritesFor
    <3>2. msg \in Sent["json"] /\ msg \notin DirectReads
      BY <3>1, SentNames, Kinds DEF Messages
    <3>3. StillSays(msg)
      BY <2>1, <2>2, <3>1, <3>2 DEF StillSays, SaysAs
    <3> QED
      BY <1>9, <3>1, <3>2, <3>3
  <2> QED
    BY <1>6, <1>7, <2>1, <2>2, <2>3 DEF Routed, AllSay, Says, StillSays
<1>13. ASSUME NEW q \in Questions, SendAndRead(q) PROVE Goal
  <2>1. PICK msg \in DirectReads : SendMessage("json", msg) /\ Says(msg)
    BY <1>13, SendAndReadFacts
  <2>2. msg \in Sent["json"] /\ msg \in Messages
    BY SentNames DEF Messages
  <2>3. StillSays(msg)
    BY <1>1, <2>1, <2>2, SaysKept
  <2>4. UNCHANGED rx
    BY <1>13 DEF SendAndRead
  <2> QED
    BY <1>6, <1>9, <2>1, <2>2, <2>3, <2>4 DEF Routed, AllSay, Says, StillSays
<1>14. ASSUME NEW m \in Senders, Route(m) PROVE Goal
  <2> DEFINE msg == Head(tx[m])
  <2>1. /\ tx[m] # <<>> /\ msg \in Sent[m] /\ msg \in Messages \cup Measurements
        /\ tx'[m] = Tail(tx[m]) /\ Place(msg)
        /\ \A n \in Senders : n # m => tx'[n] = tx[n]
    BY <1>1, <1>14, RouteFacts
  <2>2. CASE m = "json"
    <3>1. /\ msg = tx["json"][1] /\ 1 \in DOMAIN tx["json"]
          /\ \A i \in DOMAIN tx'["json"] :
                i + 1 \in DOMAIN tx["json"] /\ tx'["json"][i] = tx["json"][i + 1]
      <4>1. tx["json"] \in Seq(Sent["json"]) /\ tx["json"] # <<>>
            /\ tx'["json"] = Tail(tx["json"]) /\ msg = Head(tx["json"])
        BY <1>1, <2>1, <2>2 DEF QueueTypes
      <4> QED
        BY <4>1, TailFacts
    <3>2. StillSays(msg)
      BY <1>3, <3>1
    <3>3. \A i \in DOMAIN tx'["json"] : StillSays(tx'["json"][i])
      BY <1>3, <3>1
    <3> QED
      BY <1>8, <2>1, <3>2, <3>3 DEF Routed, AllSay, Says, StillSays
  <2>3. CASE m # "json"
    <3>1. msg \notin Writes \cup Presences \cup DirectReads
      BY <2>1, <2>3, SentNames, Names, Kinds
    <3> QED
      BY <1>1, <1>4, <1>7, <1>8, <2>1, <2>3, <3>1 DEF Routed, AllSay, Says, StillSays
  <2> QED
    BY <2>2, <2>3
<1>15. ASSUME NEW m \in Subscribers, HandleMessage(m) PROVE Goal
  <2>1. Took(m) /\ tx'["json"] = tx["json"]
    BY <1>15, HandlerCases, HandlerFacts
  <2>2. /\ rx[m] # <<>> /\ rx'[m] = Tail(rx[m])
        /\ \A n \in Subscribers : n # m => rx'[n] = rx[n]
    BY <1>1, <2>1, TookFacts
  <2>3. \A i \in DOMAIN rx'[m] : i + 1 \in DOMAIN rx[m] /\ rx'[m][i] = rx[m][i + 1]
    BY <1>1, <2>2, TailFacts DEF QueueTypes
  <2>4. \A n \in Subscribers : \A i \in DOMAIN rx'[n] :
           ActsOn(n, rx'[n][i]) /\ StillSays(rx'[n][i])
    <3> TAKE n \in Subscribers
    <3>1. CASE n = m
      BY <1>3, <2>3, <3>1
    <3>2. CASE n # m
      BY <1>3, <2>2, <3>2
    <3> QED
      BY <3>1, <3>2
  <2> QED
    BY <1>7, <2>1, <2>4 DEF Routed, AllSay, Says, StillSays
<1>16. CASE (\E q \in Questions : TimeOut(q)) \/ UNCHANGED vars
  BY <1>6, <1>7, <1>16 DEF TimeOut, vars, queues, Routed, AllSay, Says, StillSays
<1>17. CASE Next
  <2>1. CASE \E q \in Questions : setLightState(q) \/ setBTDevPresent(q) \/ get(q) \/ Asker(q)
    BY <1>12, <1>13, <1>16, <2>1 DEF Asker
  <2>2. CASE \E m \in Senders : Route(m)
    BY <1>14, <2>2
  <2>3. CASE \E m \in Subscribers : HandleMessage(m)
    BY <1>15, <2>3
  <2> QED
    BY <1>10, <1>11, <1>17, <2>1, <2>2, <2>3 DEF Next
<1> QED
  BY <1>16, <1>17

(* Who acts on the write of a question, and on its read.                   *)
LEMMA SameHome ==
    ASSUME Domains, NEW q \in Questions, NEW m \in Subscribers, NEW n \in Subscribers,
           NEW w \in Messages, WriteOf(q, w), ActsOn(m, w), Says(w),
           NEW r \in Messages, ReadOf(q, r), ActsOn(n, r), Says(r)
    PROVE  m = n
<1>1. /\ question[q] \in Queries
      /\ w.item = question[q].item
      /\ r.item = question[q].item /\ r.id = question[q].id
  BY Names DEF Domains, WriteOf, ReadOf, Says, SaysAs
<1>2. r.cmd = "ReadWithDirectAnswer" /\ w.cmd = "Write"
  BY Kinds DEF WriteOf, ReadOf
<1>3. CASE w \in Writes
  <2>1. w.id = "LightState" /\ w.item \in AllLights
    BY <1>3 DEF Writes
  <2>2. r.id = "LightState"
    BY <1>1, <2>1, QueryFacts
  <2> QED
    BY <1>1, <1>2, <2>1, <2>2, Acting, Names
<1>4. CASE w \in Presences
  <2>1. w.id = "BlootoothDevice" /\ w.item \in Devices
    BY <1>4 DEF Presences
  <2>2. r.id = "Presence"
    BY <1>1, <2>1, QueryFacts
  <2> QED
    BY <1>2, <2>1, <2>2, Acting, Names
<1> QED
  BY <1>3, <1>4 DEF WriteOf

LEMMA WriteHome ==
    ASSUME NEW w \in Writes \cup Presences
    PROVE  \E m \in Subscribers : ActsOn(m, w)
<1>1. /\ w \in Writes => w.id = "LightState" /\ w.cmd = "Write" /\ w.item \in AllLights
      /\ w \in Presences => w.id = "BlootoothDevice" /\ w.cmd = "Write"
  BY DEF Writes, Presences
<1>2. ActsOn("hue", w) \/ ActsOn("telldus", w) \/ ActsOn("presence", w)
  BY <1>1, Acting, Names
<1> QED
  BY <1>2, Names

(* What arrives stays in order with what was there.                        *)
LEMMA PlacedKeeps ==
    ASSUME QueueTypes, NEW msg \in Messages \cup Measurements, Place(msg), NEW q
    PROVE  /\ Arrived(q) => Arrived(q)'
           /\ \A m \in Subscribers : \A i :
                HasWriteBefore(rx[m], q, i) => HasWriteBefore(rx'[m], q, i)
           /\ WriteOf(q, msg) => Arrived(q)'
<1>1. Arrived(q) => Arrived(q)'
  BY PlacedIn DEF Arrived, HasWrite
<1>2. \A m \in Subscribers : \A i :
          HasWriteBefore(rx[m], q, i) => HasWriteBefore(rx'[m], q, i)
  BY PlacedIn DEF HasWriteBefore
<1>3. ASSUME WriteOf(q, msg) PROVE Arrived(q)'
  <2>1. PICK m \in Subscribers : ActsOn(m, msg)
    BY <1>3, WriteHome DEF WriteOf
  <2>2. HasWrite(rx'[m], q)
    BY <1>3, <2>1, PlacedIn DEF HasWrite
  <2> QED
    BY <2>2 DEF Arrived
<1> QED
  BY <1>1, <1>2, <1>3

(* The order of one question, under the steps of the bus and of managers.  *)
LEMMA OrderedPlaced ==
    ASSUME QueueTypes, NEW q, Ordered(q), NEW msg \in Messages \cup Measurements,
           Place(msg), msg \notin DirectReads, tx'["json"] = tx["json"],
           stage'[q] = "asking" => stage[q] = "asking"
    PROVE  Ordered(q)'
<1>1. stage'[q] = "asking" => HasWrite(tx'["json"], q) \/ Arrived(q)'
  BY PlacedKeeps DEF Ordered
<1>2. \A i \in DOMAIN tx'["json"] : ReadOf(q, tx'["json"][i]) =>
          HasWriteBefore(tx'["json"], q, i) \/ Arrived(q)'
  BY PlacedKeeps DEF Ordered
<1>3. ASSUME NEW m \in Subscribers, NEW i \in DOMAIN rx'[m], ReadOf(q, rx'[m][i])
      PROVE  HasWriteBefore(rx'[m], q, i)
  <2>1. i \in DOMAIN rx[m] /\ rx'[m][i] = rx[m][i]
    BY <1>3, PlacedIn DEF ReadOf
  <2> QED
    BY <1>3, <2>1, PlacedKeeps DEF Ordered
<1> QED
  BY <1>1, <1>2, <1>3 DEF Ordered

LEMMA OrderedRouted ==
    ASSUME TypeOK, Domains, Routed, AllSay, NEW q \in Questions, Ordered(q),
           Route("json")
    PROVE  Ordered(q)'
<1> DEFINE s == tx["json"]
           t == tx'["json"]
           msg == Head(s)
<1>1. QueueTypes /\ "json" \in Senders
  BY QueuesTyped, Names
<1>2. /\ s # <<>> /\ msg \in Messages \cup Measurements /\ msg \in Sent["json"]
      /\ t = Tail(s) /\ Place(msg) /\ s \in Seq(Sent["json"])
  BY <1>1, RouteFacts DEF QueueTypes
<1> HIDE DEF s, t
<1>3. /\ msg = s[1] /\ 1 \in DOMAIN s
      /\ DOMAIN t \subseteq Nat /\ DOMAIN s \subseteq Nat
      /\ \A i \in DOMAIN t : i + 1 \in DOMAIN s /\ t[i] = s[i + 1]
      /\ \A i \in DOMAIN s : i = 1 \/ (i > 1 /\ i - 1 \in DOMAIN t /\ t[i - 1] = s[i])
  BY <1>2, TailFacts
<1> HIDE DEF msg
<1>4. ASSUME HasWrite(s, q) PROVE HasWrite(t, q) \/ Arrived(q)'
  <2>1. PICK i \in DOMAIN s : WriteOf(q, s[i])
    BY <1>4 DEF HasWrite
  <2>2. CASE i = 1
    BY <1>1, <1>2, <1>3, <2>1, <2>2, PlacedKeeps
  <2>3. CASE i # 1
    BY <1>3, <2>1, <2>3 DEF HasWrite
  <2> QED
    BY <2>2, <2>3
<1>5. Arrived(q) => Arrived(q)'
  BY <1>1, <1>2, PlacedKeeps
<1>6. stage'[q] = "asking" => HasWrite(t, q) \/ Arrived(q)'
  BY <1>4, <1>5 DEF Ordered, Route, asking, s
<1>7. ASSUME NEW i \in DOMAIN t, ReadOf(q, t[i])
      PROVE  HasWriteBefore(t, q, i) \/ Arrived(q)'
  <2>1. i + 1 \in DOMAIN s /\ ReadOf(q, s[i + 1]) /\ i \in Nat
    BY <1>3, <1>7
  <2>2. CASE Arrived(q)
    BY <1>5, <2>2
  <2>3. CASE HasWriteBefore(s, q, i + 1)
    <3>1. PICK j \in DOMAIN s : j < i + 1 /\ WriteOf(q, s[j])
      BY <2>3 DEF HasWriteBefore
    <3>2. CASE j = 1
      BY <1>1, <1>2, <1>3, <3>1, <3>2, PlacedKeeps
    <3>3. CASE j # 1
      <4>1. j - 1 \in DOMAIN t /\ WriteOf(q, t[j - 1]) /\ j \in Nat
        BY <1>3, <3>1, <3>3
      <4>2. j - 1 < i
        BY <2>1, <3>1, <4>1
      <4> QED
        BY <4>1, <4>2 DEF HasWriteBefore
    <3> QED
      BY <3>2, <3>3
  <2> QED
    BY <2>1, <2>2, <2>3 DEF Ordered, s
<1>8. ASSUME NEW m \in Subscribers, NEW i \in DOMAIN rx'[m], ReadOf(q, rx'[m][i])
      PROVE  HasWriteBefore(rx'[m], q, i)
  <2>1. CASE i \in DOMAIN rx[m] /\ rx'[m][i] = rx[m][i]
    BY <1>1, <1>2, <1>8, <2>1, PlacedKeeps DEF Ordered
  <2>2. CASE /\ rx'[m][i] = msg /\ ActsOn(m, msg)
             /\ \A j \in DOMAIN rx[m] : j < i
    <3>1. ReadOf(q, s[1]) /\ msg \in Messages
      BY <1>2, <1>3, <1>8, <2>2, PlaceFacts, <1>1
    <3>2. ~HasWriteBefore(s, q, 1)
      BY <1>3 DEF HasWriteBefore
    <3>3. Arrived(q)
      BY <1>3, <3>1, <3>2 DEF Ordered, s
    <3>4. PICK n \in Subscribers : \E j \in DOMAIN rx[n] : WriteOf(q, rx[n][j])
      BY <3>3 DEF Arrived, HasWrite
    <3> PICK j \in DOMAIN rx[n] : WriteOf(q, rx[n][j])
      BY <3>4
    <3>5. rx[n][j] \in Messages /\ ActsOn(n, rx[n][j]) /\ Says(rx[n][j])
      BY <1>1 DEF QueueTypes, Routed, AllSay
    <3>6. Says(msg)
      BY <1>3 DEF AllSay, s
    <3>7. n = m
      BY <1>3, <2>2, <3>1, <3>4, <3>5, <3>6, SameHome
    <3>8. HasWriteBefore(rx[m], q, i)
      BY <2>2, <3>4, <3>7 DEF HasWriteBefore
    <3> QED
      BY <1>1, <1>2, <3>8, PlacedKeeps
  <2> QED
    BY <1>1, <1>2, <2>1, <2>2, PlacedIn
<1> QED
  BY <1>6, <1>7, <1>8 DEF Ordered, t

LEMMA OrderedSent ==
    ASSUME QueueTypes, NEW q, Ordered(q), NEW msg \in Sent["json"],
           SendMessage("json", msg), UNCHANGED rx,
           ReadOf(q, msg) => stage[q] = "asking",
           stage'[q] = "asking" => stage[q] = "asking"
    PROVE  Ordered(q)'
<1> DEFINE s == tx["json"]
           t == tx'["json"]
           n == Len(s) + 1
<1>1. t = Append(s, msg) /\ s \in Seq(Sent["json"])
  BY SendFacts, Names DEF QueueTypes
<1> HIDE DEF s, t
<1>2. /\ DOMAIN t = DOMAIN s \cup {n} /\ t[n] = msg
      /\ \A i \in DOMAIN s : i < n /\ t[i] = s[i]
  BY <1>1, AppendFacts
<1> HIDE DEF n
<1>3. HasWrite(s, q) => HasWrite(t, q) /\ HasWriteBefore(t, q, n)
  BY <1>2 DEF HasWrite, HasWriteBefore
<1>4. \A i \in DOMAIN s : HasWriteBefore(s, q, i) => HasWriteBefore(t, q, i)
  BY <1>2 DEF HasWriteBefore
<1>5. Arrived(q) => Arrived(q)'
  BY DEF Arrived
<1>6. stage'[q] = "asking" => HasWrite(t, q) \/ Arrived(q)'
  BY <1>3, <1>5 DEF Ordered, s
<1>7. ASSUME NEW i \in DOMAIN t, ReadOf(q, t[i])
      PROVE  HasWriteBefore(t, q, i) \/ Arrived(q)'
  <2>1. CASE i \in DOMAIN s
    BY <1>2, <1>4, <1>5, <1>7, <2>1 DEF Ordered, s
  <2>2. CASE i = n
    BY <1>2, <1>3, <1>5, <1>7, <2>2 DEF Ordered, s
  <2> QED
    BY <1>2, <2>1, <2>2
<1> QED
  BY <1>6, <1>7 DEF Ordered, t

(* A manager takes something else than the write.                          *)
LEMMA OrderedTook ==
    ASSUME QueueTypes, NEW q, Ordered(q), NEW m \in Subscribers, Took(m),
           ~WriteOf(q, Head(rx[m])), tx'["json"] = tx["json"],
           stage'[q] = "asking" => stage[q] = "asking"
    PROVE  Ordered(q)'
<1> DEFINE s == rx[m]
           t == rx'[m]
<1>1. /\ t = Tail(s) /\ s # <<>> /\ s \in Seq(Messages)
      /\ \A n \in Subscribers : n # m => rx'[n] = rx[n]
  BY TookFacts DEF QueueTypes
<1> HIDE DEF s, t
<1>2. /\ Head(s) = s[1] /\ 1 \in DOMAIN s
      /\ DOMAIN t \subseteq Nat /\ DOMAIN s \subseteq Nat
      /\ \A i \in DOMAIN t : i + 1 \in DOMAIN s /\ t[i] = s[i + 1]
      /\ \A i \in DOMAIN s : i = 1 \/ (i > 1 /\ i - 1 \in DOMAIN t /\ t[i - 1] = s[i])
  BY <1>1, TailFacts
<1>3. ~WriteOf(q, s[1])
  BY <1>2 DEF s
<1>4. HasWrite(s, q) => HasWrite(t, q)
  BY <1>2, <1>3 DEF HasWrite
<1>5. Arrived(q) => Arrived(q)'
  BY <1>1, <1>4 DEF Arrived, s, t
<1>6. ASSUME NEW i \in DOMAIN t, ReadOf(q, t[i]) PROVE HasWriteBefore(t, q, i)
  <2>1. i + 1 \in DOMAIN s /\ ReadOf(q, s[i + 1]) /\ i \in Nat
    BY <1>2, <1>6
  <2>2. PICK j \in DOMAIN s : j < i + 1 /\ WriteOf(q, s[j])
    BY <2>1 DEF Ordered, HasWriteBefore, s
  <2>3. j - 1 \in DOMAIN t /\ WriteOf(q, t[j - 1]) /\ j \in Nat
    BY <1>2, <1>3, <2>2
  <2>4. j - 1 < i
    BY <2>1, <2>2, <2>3
  <2> QED
    BY <2>3, <2>4 DEF HasWriteBefore
<1>7. \A n \in Subscribers : \A i \in DOMAIN rx'[n] :
          ReadOf(q, rx'[n][i]) => HasWriteBefore(rx'[n], q, i)
  <2> TAKE n \in Subscribers
  <2>1. CASE n = m
    BY <1>6, <2>1 DEF t
  <2>2. CASE n # m
    BY <1>1, <2>2 DEF Ordered
  <2> QED
    BY <2>1, <2>2
<1> QED
  BY <1>5, <1>7 DEF Ordered

LEMMA WritesFirstStep ==
    ASSUME TypeOK, Domains, Routed, AllSay, Asked, WritesFirst, [Next]_vars
    PROVE  WritesFirst'
<1> SUFFICES ASSUME NEW q \in Questions,
                    question'[q] # None, question'[q].on # None, q \notin handled'
             PROVE  Ordered(q)'
  BY DEF WritesFirst
<1>1. /\ QueueTypes /\ "json" \in Senders /\ "json" \notin Subscribers
      /\ Subscribers \subseteq Senders
  BY QueuesTyped, Names
<1>2. /\ q \notin handled
      /\ stage'[q] = "asking" =>
            stage[q] = "asking" \/ (stage[q] = "new" /\ question[q] = None)
  BY StagesStep
<1>3. CASE question[q] = None
  <2>1. UNCHANGED question => FALSE
    BY <1>3
  <2>2. PICK query \in Queries :
            Begins(q, query) /\ (query.on = None \/ WritesFor(q, query))
    <3>1. \A m \in Subscribers : HandleMessage(m) => UNCHANGED question
      BY HandlerFacts
    <3>2. PICK p \in Questions : setLightState(p) \/ setBTDevPresent(p) \/ get(p)
      BY <2>1, <3>1 DEF Next, receive, HandleLightSwitches, TelldusCallback, Input, Asker,
         SendAndRead, TimeOut, Route, asking, vars
    <3>3. PICK query \in Queries :
              Begins(p, query) /\ (query.on = None \/ WritesFor(p, query))
      BY <3>2, AskFacts
    <3>4. p = q
      BY <1>3, <3>3 DEF Begins, Domains
    <3> QED
      BY <3>3, <3>4
  <2>3. UNCHANGED rx /\ question'[q] = query
    BY <2>2 DEF Begins, Domains
  <2>4. PICK msg \in Writes \cup Presences : SendMessage("json", msg) /\ msg.by = q
    BY <2>2, <2>3 DEF WritesFor
  <2>5. msg \in Sent["json"] /\ WriteOf(q, msg) /\ ~ReadOf(q, msg)
    BY <2>4, SentNames, Kinds DEF WriteOf, ReadOf, Messages
  <2>6. /\ \A m \in Subscribers : \A i \in DOMAIN rx[m] : ~ReadOf(q, rx[m][i])
        /\ \A i \in DOMAIN tx["json"] : ~ReadOf(q, tx["json"][i])
    BY <1>3 DEF AllSay, Says, SaysAs, ReadOf
  <2>7. /\ DOMAIN tx'["json"] = DOMAIN tx["json"] \cup {Len(tx["json"]) + 1}
        /\ tx'["json"][Len(tx["json"]) + 1] = msg
        /\ \A i \in DOMAIN tx["json"] : tx'["json"][i] = tx["json"][i]
    <3>1. tx'["json"] = Append(tx["json"], msg) /\ tx["json"] \in Seq(Sent["json"])
      BY <1>1, <2>4, <2>5, SendFacts DEF QueueTypes
    <3> QED
      BY <2>5, <3>1, AppendFacts
  <2>8. HasWrite(tx'["json"], q)
    BY <2>5, <2>7 DEF HasWrite
  <2>9. \A i \in DOMAIN tx'["json"] : ~ReadOf(q, tx'["json"][i])
    BY <2>5, <2>6, <2>7
  <2> QED
    BY <2>3, <2>6, <2>8, <2>9 DEF Ordered
<1>4. CASE question[q] # None
  <2>1. /\ question'[q] = question[q] /\ Ordered(q)
        /\ stage'[q] = "asking" => stage[q] = "asking"
    <3>1. question'[q] = question[q]
      BY <1>4, QuestionsKept DEF Kept
    <3> QED
      BY <1>2, <1>4, <3>1 DEF WritesFirst
  <2>2. UNCHANGED <<tx, rx>> => Ordered(q)'
    BY <2>1 DEF Ordered, Arrived
  <2>3. CASE receive \/ HandleLightSwitches
    <3>1. PICK msg \in Messages : Place(msg) /\ msg \in Writes \cup Presences \cup Reads
      BY <2>3, InputFacts
    <3>2. msg \notin DirectReads
      BY <3>1, Kinds
    <3>3. tx'["json"] = tx["json"]
      BY <2>3, InputFacts
    <3> QED
      BY <1>1, <2>1, <3>1, <3>2, <3>3, OrderedPlaced
  <2>4. CASE TelldusCallback
    <3>1. tx'["json"] = tx["json"] /\ UNCHANGED rx
      BY <1>1, <2>4 DEF TelldusCallback, SendMessage, QueueTypes
    <3> QED
      BY <2>1, <3>1 DEF Ordered, Arrived
  <2>5. ASSUME NEW p \in Questions, setLightState(p) \/ setBTDevPresent(p) \/ get(p)
        PROVE  Ordered(q)'
    <3>1. PICK query \in Queries :
              /\ Begins(p, query)
              /\ UNCHANGED tx \/ WritesFor(p, query)
      BY <2>5, AskFacts
    <3>2. UNCHANGED rx
      BY <3>1 DEF Begins
    <3>3. ASSUME WritesFor(p, query) PROVE Ordered(q)'
      <4>1. PICK msg \in Writes \cup Presences : SendMessage("json", msg)
        BY <3>3 DEF WritesFor
      <4>2. msg \in Sent["json"] /\ ~ReadOf(q, msg)
        BY <4>1, SentNames, Kinds DEF ReadOf, Messages
      <4> QED
        BY <1>1, <2>1, <3>2, <4>1, <4>2, OrderedSent
    <3> QED
      BY <2>2, <3>1, <3>2, <3>3
  <2>6. ASSUME NEW p \in Questions, SendAndRead(p) PROVE Ordered(q)'
    <3>1. PICK msg \in DirectReads : SendMessage("json", msg) /\ msg.by = p
      BY <2>6, SendAndReadFacts
    <3>2. msg \in Sent["json"] /\ (ReadOf(q, msg) => stage[q] = "asking")
      BY <2>6, <3>1, SentNames DEF ReadOf, SendAndRead
    <3>3. UNCHANGED rx
      BY <2>6 DEF SendAndRead
    <3> QED
      BY <1>1, <2>1, <3>1, <3>2, <3>3, OrderedSent
  <2>7. ASSUME NEW m \in Senders, Route(m) PROVE Ordered(q)'
    <3>1. CASE m = "json"
      BY <2>1, <2>7, <3>1, OrderedRouted
    <3>2. CASE m # "json"
      <4>1. /\ Head(tx[m]) \in Sent[m] /\ Head(tx[m]) \in Messages \cup Measurements
            /\ tx'["json"] = tx["json"] /\ Place(Head(tx[m]))
        BY <1>1, <2>7, <3>2, RouteFacts
      <4>2. Head(tx[m]) \notin DirectReads
        BY <3>2, <4>1, SentNames, Names, Kinds
      <4> QED
        BY <1>1, <2>1, <4>1, <4>2, OrderedPlaced
    <3> QED
      BY <3>1, <3>2
  <2>8. ASSUME NEW m \in Subscribers, HandleMessage(m) PROVE Ordered(q)'
    <3>1. /\ Took(m) /\ tx'["json"] = tx["json"]
          /\ Head(rx[m]) \in Writes \cup Presences =>
                 Head(rx[m]).by \in handled' \cup {None}
      BY <2>8, HandlerCases, HandlerFacts
    <3>2. ~WriteOf(q, Head(rx[m]))
      BY <3>1, Names DEF WriteOf
    <3> QED
      BY <1>1, <2>1, <3>1, <3>2, OrderedTook
  <2>9. CASE (\E p \in Questions : TimeOut(p)) \/ UNCHANGED vars
    BY <2>2, <2>9 DEF TimeOut, vars, queues
  <2>10. CASE \E p \in Questions :
                  setLightState(p) \/ setBTDevPresent(p) \/ get(p) \/ Asker(p)
    BY <2>5, <2>6, <2>9, <2>10 DEF Asker
  <2>11. CASE \E m \in Senders : Route(m)
    BY <2>7, <2>11
  <2>12. CASE \E m \in Subscribers : HandleMessage(m)
    BY <2>8, <2>12
  <2> QED
    BY <2>3, <2>4, <2>9, <2>10, <2>11, <2>12 DEF Next
<1> QED
  BY <1>3, <1>4

(* What an item holds, if its last write was a question's.                 *)
TakenShowsFor(i) ==
    lastTaken[i] # None =>
        /\ question[lastTaken[i]] # None
        /\ question[lastTaken[i]].item = i
        /\ question[lastTaken[i]].on \in BOOLEAN
        /\ i \in HueLights => recorded[i] = question[lastTaken[i]].on
        /\ i \in TelldusLights /\ question[lastTaken[i]].on => recorded[i]
        /\ i \in Devices /\ question[lastTaken[i]].on => inRange[i]

LEMMA TakenShowsKept ==
    ASSUME Domains, Kept, NEW i \in AllLights \cup Devices, TakenShowsFor(i),
           lastTaken'[i] = lastTaken[i],
           i \in AllLights => recorded'[i] = recorded[i],
           i \in Devices => inRange'[i] = inRange[i]
    PROVE  TakenShowsFor(i)'
<1>1. lastTaken[i] \in Questions \cup {None}
  BY DEF Domains
<1> QED
  BY <1>1, Names DEF TakenShowsFor, Kept

LEMMA TakenShowsStep ==
    ASSUME TypeOK, Domains, Routed, AllSay, Asked, TakenShows, SomebodyInRange,
           [Next]_vars
    PROVE  TakenShows' /\ SomebodyInRange'
<1> DEFINE Items == AllLights \cup Devices
           Goal == TakenShows' /\ SomebodyInRange'
<1>1. /\ Kept
      /\ \A i \in Items : TakenShowsFor(i)
      /\ (\A i \in Items : TakenShowsFor(i)') => TakenShows'
  BY QuestionsKept DEF TakenShows, TakenShowsFor
<1>2. ASSUME UNCHANGED <<recorded, inRange, atHome, lastTaken>> PROVE Goal
  BY <1>1, <1>2, TakenShowsKept DEF SomebodyInRange
<1>3. ASSUME NEW m \in Subscribers, HandleMessage(m) PROVE Goal
  <2> DEFINE msg == Head(rx[m])
  <2>1. /\ Took(m) /\ msg \in Messages /\ UNCHANGED question
    BY <1>3, HandlerCases, HandlerFacts
  <2>2. Says(msg)
    <3>1. msg = rx[m][1] /\ 1 \in DOMAIN rx[m]
      BY <2>1, QueuesTyped, TailFacts DEF QueueTypes, Took
    <3> QED
      BY <3>1 DEF AllSay
  <2>3. ASSUME msg \in Writes \cup Presences, msg.by # None
        PROVE  /\ question'[msg.by] # None /\ question'[msg.by].item = msg.item
               /\ question'[msg.by].on = msg.on /\ msg.on \in BOOLEAN
    BY <2>1, <2>2, <2>3 DEF Says, SaysAs, Writes, Presences
  <2>4. ASSUME NEW taken \in BOOLEAN, Handled(msg, taken), msg \in Writes \cup Presences
        PROVE  /\ msg.item \in Items
               /\ lastTaken'[msg.item] = IF taken THEN msg.by ELSE None
               /\ \A i \in Items : i # msg.item => lastTaken'[i] = lastTaken[i]
    BY <2>4 DEF Handled, Domains, Writes, Presences
  <2>5. /\ recorded \in [AllLights -> BOOLEAN] /\ inRange \in [Devices -> BOOLEAN]
        /\ HueLights \cap TelldusLights = {} /\ AllLights \cap Devices = {}
        /\ AllLights = HueLights \cup TelldusLights
    BY Names DEF TypeOK
  <2> HIDE DEF msg
  <2>6. CASE m = "hue" /\ SetLamp(msg) /\ msg \in Writes
    <3>1. msg.item \in HueLights /\ UNCHANGED <<inRange, atHome>>
      BY <2>6 DEF SetLamp
    <3>2. PICK taken \in BOOLEAN :
              /\ Handled(msg, taken)
              /\ recorded' = IF taken THEN [recorded EXCEPT ![msg.item] = msg.on]
                                      ELSE recorded
      BY <2>6 DEF SetLamp
    <3>3. ASSUME NEW i \in Items PROVE TakenShowsFor(i)'
      <4>1. CASE i = msg.item
        BY <2>3, <2>4, <2>5, <2>6, <3>1, <3>2, <4>1 DEF TakenShowsFor
      <4>2. CASE i # msg.item
        <5>1. /\ i \in AllLights => recorded'[i] = recorded[i]
              /\ lastTaken'[i] = lastTaken[i]
          BY <2>4, <2>5, <2>6, <3>2, <4>2
        <5> QED
          BY <1>1, <3>1, <5>1, TakenShowsKept
      <4> QED
        BY <4>1, <4>2
    <3> QED
      BY <1>1, <3>1, <3>3 DEF SomebodyInRange
  <2>7. CASE m = "telldus" /\ SetTelldusLight(msg) /\ msg \in Writes
    <3>1. /\ msg.item \in TelldusLights /\ UNCHANGED <<inRange, atHome>>
          /\ Handled(msg, TRUE)
          /\ recorded' = [recorded EXCEPT ![msg.item] = @ \/ msg.on]
      BY <2>7 DEF SetTelldusLight
    <3>2. ASSUME NEW i \in Items PROVE TakenShowsFor(i)'
      <4>1. CASE i = msg.item
        BY <2>3, <2>4, <2>5, <2>7, <3>1, <4>1 DEF TakenShowsFor
      <4>2. CASE i # msg.item
        <5>1. /\ i \in AllLights => recorded'[i] = recorded[i]
              /\ lastTaken'[i] = lastTaken[i]
          BY <2>4, <2>5, <2>7, <3>1, <4>2
        <5> QED
          BY <1>1, <3>1, <5>1, TakenShowsKept
      <4> QED
        BY <4>1, <4>2
    <3> QED
      BY <1>1, <3>1, <3>2 DEF SomebodyInRange
  <2>8. CASE m = "presence" /\ isAtLeastSomeoneAtHome(msg) /\ msg \in Presences
    <3>1. /\ msg.item \in Devices /\ UNCHANGED recorded
          /\ Handled(msg, TRUE)
          /\ inRange' = [inRange EXCEPT ![msg.item] = msg.on]
          /\ SomebodyInRange'
      BY <2>8 DEF isAtLeastSomeoneAtHome, Presences, SomebodyInRange
    <3>2. ASSUME NEW i \in Items PROVE TakenShowsFor(i)'
      <4>1. CASE i = msg.item
        BY <2>3, <2>4, <2>5, <2>8, <3>1, <4>1 DEF TakenShowsFor
      <4>2. CASE i # msg.item
        <5>1. /\ i \in Devices => inRange'[i] = inRange[i]
              /\ lastTaken'[i] = lastTaken[i]
          BY <2>4, <2>5, <2>8, <3>1, <4>2
        <5> QED
          BY <1>1, <3>1, <5>1, TakenShowsKept
      <4> QED
        BY <4>1, <4>2
    <3> QED
      BY <1>1, <3>1, <3>2
  <2>9. CASE m = "shell" /\ RunCommand(msg)
    BY <1>2, <2>9 DEF RunCommand
  <2>10. CASE Replies(m) \/ Tells(m)
    BY <1>2, <2>10 DEF Replies, Tells, house, history
  <2> QED
    BY <1>3, <2>6, <2>7, <2>8, <2>9, <2>10, HandlerCases DEF msg
<1>4. ASSUME NEW q \in Questions,
             setLightState(q) \/ setBTDevPresent(q) \/ get(q) \/ Asker(q)
      PROVE  Goal
  BY <1>2, <1>4 DEF setLightState, setBTDevPresent, get, Asker, Ask, SendAndRead, TimeOut,
     house, history
<1>5. ASSUME NEW m \in Senders, Route(m) PROVE Goal
  BY <1>2, <1>5 DEF Route, house
<1>6. receive \/ HandleLightSwitches \/ TelldusCallback \/ UNCHANGED vars => Goal
  BY <1>2 DEF receive, HandleLightSwitches, TelldusCallback, Input, house, vars, history
<1> QED
  BY <1>3, <1>4, <1>5, <1>6 DEF Next

(* An answer shows the write of its question.                              *)
ShowsFor(q) ==
    (stage[q] = "answered" /\ ~answer[q].stray /\ question[q].on # None) =>
        /\ answer[q].own
        /\ answer[q].last /\ question[q].item \in AllLights /\
           (question[q].item \in HueLights \/ question[q].on)
                => answer[q].on = question[q].on
        /\ answer[q].last /\ question[q].item \in Devices /\ question[q].on
                => answer[q].on

LEMMA ShowsTold ==
    ASSUME TypeOK, Domains, Routed, AllSay, Asked, WritesFirst, TakenShows,
           SomebodyInRange, AnswerShowsWrite, NEW m \in Subscribers, Tells(m),
           NEW p \in Questions
    PROVE  ShowsFor(p)'
<1> DEFINE q == Head(rx[m]).by
<1>1. /\ q \in Questions /\ question[q] \in Queries
      /\ ReadOf(q, rx[m][1]) /\ 1 \in DOMAIN rx[m]
  BY TellFacts
<1>2. PICK value :
        /\ value # None
        /\ Answer(q, value)
        /\ question[q].on # None =>
               /\ question[q].item \in AllLights => value = recorded[question[q].item]
               /\ question[q].item \in Devices => value = atHome
  BY DEF Tells
<1> HIDE DEF q
<1>3. \/ stage'[p] = stage[p] /\ answer'[p] = answer[p]
      \/ /\ stage[p] = "waiting" /\ stage'[p] = "answered"
         /\ answer'[p].on = value
         /\ answer'[p].stray \/ (p = q /\ answer'[p].own = (q \in handled)
                                     /\ answer'[p].last = (q \in Range(lastTaken)))
  BY <1>1, <1>2, AnswerFacts
<1>4. UNCHANGED <<question, recorded, inRange>>
  BY DEF Tells, house
<1>5. CASE stage'[p] = stage[p] /\ answer'[p] = answer[p]
  BY <1>4, <1>5 DEF AnswerShowsWrite, ShowsFor
<1>6. CASE answer'[p].stray
  BY <1>6 DEF ShowsFor
<1>7. CASE /\ p = q /\ answer'[p].on = value
           /\ answer'[p].own = (q \in handled)
           /\ answer'[p].last = (q \in Range(lastTaken))
  <2> SUFFICES ASSUME question[q].on # None
               PROVE  /\ q \in handled
                      /\ q \in Range(lastTaken) /\ question[q].item \in AllLights /\
                         (question[q].item \in HueLights \/ question[q].on)
                              => value = question[q].on
                      /\ q \in Range(lastTaken) /\ question[q].item \in Devices
                         /\ question[q].on => value
    BY <1>4, <1>7 DEF ShowsFor
  <2>1. question[q] # None
    BY <1>1, NoneIsNoQuery
  <2>2. q \in handled
    <3>1. ~HasWriteBefore(rx[m], q, 1)
      <4>1. DOMAIN rx[m] \subseteq Nat /\ \A i \in DOMAIN rx[m] : ~(i < 1)
        BY QueuesTyped DEF QueueTypes
      <4> QED
        BY <4>1 DEF HasWriteBefore
    <3> QED
      BY <1>1, <2>1, <3>1 DEF WritesFirst, Ordered
  <2>3. ASSUME q \in Range(lastTaken), question[q].item \in AllLights \cup Devices
        PROVE  LET i == question[q].item
               IN  /\ i \in HueLights => recorded[i] = question[q].on
                   /\ i \in TelldusLights /\ question[q].on => recorded[i]
                   /\ i \in Devices /\ question[q].on => inRange[i]
                   /\ question[q].on \in BOOLEAN
    <3>1. PICK i \in AllLights \cup Devices : lastTaken[i] = q
      BY <2>3 DEF Range, Domains
    <3>2. lastTaken[i] # None
      BY <1>1, <3>1, Names
    <3> QED
      BY <3>1, <3>2 DEF TakenShows
  <2>4. ASSUME q \in Range(lastTaken), question[q].item \in AllLights,
               question[q].item \in HueLights \/ question[q].on
        PROVE  value = question[q].on
    <3>1. value = recorded[question[q].item] /\ value \in BOOLEAN
      BY <1>2, <2>4 DEF TypeOK
    <3>2. CASE question[q].item \in HueLights
      BY <2>3, <2>4, <3>1, <3>2
    <3>3. CASE question[q].item \notin HueLights
      <4>1. question[q].item \in TelldusLights /\ question[q].on
        BY <2>4, <3>3, Names
      <4> QED
        BY <2>3, <2>4, <3>1, <4>1
    <3> QED
      BY <3>2, <3>3
  <2>5. ASSUME q \in Range(lastTaken), question[q].item \in Devices, question[q].on
        PROVE  value
    BY <1>2, <2>3, <2>5 DEF SomebodyInRange, TypeOK
  <2> QED
    BY <2>2, <2>4, <2>5
<1> QED
  BY <1>3, <1>5, <1>6, <1>7

LEMMA ShowsStep ==
    ASSUME TypeOK, Domains, Routed, AllSay, Asked, WritesFirst, TakenShows,
           SomebodyInRange, AnswerShowsWrite, [Next]_vars
    PROVE  AnswerShowsWrite'
<1> SUFFICES ASSUME NEW p \in Questions PROVE ShowsFor(p)'
  BY DEF AnswerShowsWrite, ShowsFor
<1>1. question[p] # None => question'[p] = question[p]
  BY QuestionsKept DEF Kept
<1>2. stage[p] = "answered" => question[p] # None
  BY DEF Asked
<1>3. ASSUME UNCHANGED answer, stage'[p] = "answered" => stage[p] = "answered"
      PROVE  ShowsFor(p)'
  BY <1>1, <1>2, <1>3 DEF AnswerShowsWrite, ShowsFor
<1>4. stage \in [Questions -> {"new", "asking", "waiting", "answered", "timedout"}]
  BY DEF TypeOK
<1>5. ASSUME NEW m \in Subscribers, HandleMessage(m) PROVE ShowsFor(p)'
  <2>1. CASE Tells(m)
    BY <2>1, ShowsTold
  <2>2. CASE ~Tells(m)
    <3>1. UNCHANGED <<stage, answer>>
      BY <1>5, <2>2, HandlerCases DEF SetLamp, SetTelldusLight, RunCommand,
         isAtLeastSomeoneAtHome, Replies, asking
    <3> QED
      BY <1>3, <3>1
  <2> QED
    BY <2>1, <2>2
<1>6. ASSUME NEW q \in Questions,
             setLightState(q) \/ setBTDevPresent(q) \/ get(q) \/ Asker(q)
      PROVE  ShowsFor(p)'
  BY <1>3, <1>4, <1>6 DEF setLightState, setBTDevPresent, get, Asker, Ask, SendAndRead,
     TimeOut
<1>7. ASSUME NEW m \in Senders, Route(m) PROVE ShowsFor(p)'
  BY <1>3, <1>7 DEF Route, asking
<1>8. receive \/ HandleLightSwitches \/ TelldusCallback \/ UNCHANGED vars => ShowsFor(p)'
  BY <1>3 DEF receive, HandleLightSwitches, TelldusCallback, Input, asking, vars
<1> QED
  BY <1>5, <1>6, <1>7, <1>8 DEF Next

-----------------------------------------------------------------------------
(* Types *)

LEMMA QueuesStep ==
    ASSUME TypeOK, Domains, Routed, AllSay, Asked, [Next]_vars
    PROVE  QueueTypes'
<1>1. QueueTypes /\ "json" \in Senders /\ "telldus" \in Senders
      /\ Subscribers \subseteq Senders
  BY QueuesTyped, Names
<1>2. UNCHANGED <<tx, rx>> => QueueTypes'
  BY <1>1 DEF QueueTypes
<1>3. ASSUME NEW m \in Senders, NEW msg \in Sent[m], SendMessage(m, msg), UNCHANGED rx
      PROVE  QueueTypes'
  BY <1>1, <1>3, SendFacts DEF QueueTypes
<1>4. ASSUME NEW msg \in Messages \cup Measurements, Place(msg), UNCHANGED tx
      PROVE  QueueTypes'
  BY <1>1, <1>4, PlaceFacts DEF QueueTypes
<1>5. CASE receive \/ HandleLightSwitches
  BY <1>4, <1>5, InputFacts
<1>6. CASE TelldusCallback
  <2>1. Message("Read", "CommandLine", None, FALSE, None) \in Sent["telldus"]
    BY SentNames DEF Message, Reads
  <2> QED
    BY <1>1, <1>3, <1>6, <2>1 DEF TelldusCallback
<1>7. ASSUME NEW q \in Questions, setLightState(q) \/ setBTDevPresent(q) \/ get(q)
      PROVE  QueueTypes'
  <2>1. PICK query \in Queries : Begins(q, query) /\ (UNCHANGED tx \/ WritesFor(q, query))
    BY <1>7, AskFacts
  <2>2. UNCHANGED rx
    BY <2>1 DEF Begins
  <2>3. ASSUME WritesFor(q, query) PROVE QueueTypes'
    <3>1. PICK msg \in Writes \cup Presences : SendMessage("json", msg)
      BY <2>3 DEF WritesFor
    <3>2. msg \in Sent["json"]
      BY SentNames
    <3> QED
      BY <1>1, <1>3, <2>2, <3>1, <3>2
  <2> QED
    BY <1>2, <2>1, <2>2, <2>3
<1>8. ASSUME NEW q \in Questions, SendAndRead(q) PROVE QueueTypes'
  <2>1. PICK msg \in DirectReads : SendMessage("json", msg)
    BY <1>8, SendAndReadFacts
  <2>2. msg \in Sent["json"] /\ UNCHANGED rx
    BY <1>8, SentNames DEF SendAndRead
  <2> QED
    BY <1>1, <1>3, <2>1, <2>2
<1>9. ASSUME NEW m \in Senders, Route(m) PROVE QueueTypes'
  BY <1>1, <1>9, RouteFacts, PlaceFacts DEF QueueTypes
<1>10. ASSUME NEW m \in Subscribers, HandleMessage(m) PROVE QueueTypes'
  <2> DEFINE msg == Head(rx[m])
  <2>1. Took(m)
    BY <1>10, HandlerCases
  <2>2. DOMAIN rx' = Subscribers /\ \A n \in Subscribers : rx'[n] \in Seq(Messages)
    BY <1>1, <2>1, TookFacts
  <2>3. UNCHANGED tx \/ \E x \in Sent[m] : SendMessage(m, x)
    <3>1. CASE m = "telldus" /\ SetTelldusLight(msg) /\ msg \in Writes
      <4>1. Message("Write", "CommandLine", msg.item, msg.on, None) \in Commands
        BY <3>1 DEF SetTelldusLight, Message, Commands, Writes
      <4> QED
        BY <3>1, <4>1, SentNames DEF SetTelldusLight
    <3>2. CASE Replies(m)
      BY <3>2 DEF Replies
    <3> QED
      BY <1>10, <3>1, <3>2, HandlerCases DEF SetLamp, RunCommand, isAtLeastSomeoneAtHome,
         Tells
  <2>4. DOMAIN tx' = Senders /\ \A n \in Senders : tx'[n] \in Seq(Sent[n])
    BY <1>1, <2>3, SendFacts DEF QueueTypes
  <2> QED
    BY <2>2, <2>4 DEF QueueTypes
<1>11. CASE (\E q \in Questions : TimeOut(q)) \/ UNCHANGED vars
  BY <1>2, <1>11 DEF TimeOut, vars, queues
<1>12. CASE \E q \in Questions : setLightState(q) \/ setBTDevPresent(q) \/ get(q) \/ Asker(q)
  BY <1>7, <1>8, <1>11, <1>12 DEF Asker
<1>13. CASE \E m \in Senders : Route(m)
  BY <1>9, <1>13
<1>14. CASE \E m \in Subscribers : HandleMessage(m)
  BY <1>10, <1>14
<1> QED
  BY <1>5, <1>6, <1>11, <1>12, <1>13, <1>14 DEF Next

(* TypeOK and Domains, without the queues.                                 *)
HouseTypes ==
    /\ recorded \in [AllLights -> BOOLEAN]
    /\ lamp \in [AllLights -> BOOLEAN \cup {None}]
    /\ inRange \in [Devices -> BOOLEAN]
    /\ atHome \in BOOLEAN
    /\ failed \in SUBSET AllLights
    /\ lastWrite \in [AllLights -> BOOLEAN \cup {None}]
    /\ lastTaken \in [AllLights \cup Devices -> Questions \cup {None}]

AskingTypes ==
    /\ DOMAIN answer = Questions
    /\ \A q \in Questions : stage[q] # "answered" <=> answer[q].on = None
    /\ crashed \in BOOLEAN
    /\ inputs \in 0..MaxInputs

LEMMA AllTypes ==
    /\ TypeOK /\ Domains => QueueTypes /\ HouseTypes /\ AskingTypes
    /\ QueueTypes' /\ HouseTypes' /\ AskingTypes'
       /\ stage' \in [Questions -> {"new", "asking", "waiting", "answered", "timedout"}]
       /\ question' \in [Questions -> Queries \cup {None}]
       /\ handled' \in SUBSET Questions
       => TypeOK' /\ Domains'
<1>1. TypeOK /\ Domains => QueueTypes
  BY QueuesTyped
<1>2. QueueTypes' => /\ tx'["json"] \in Seq(Writes \cup Presences \cup DirectReads)
                     /\ tx'["telldus"] \in Seq(Reads \cup Answers \cup Commands \cup Measurements)
                     /\ \A m \in {"hue", "shell", "presence"} : tx'[m] \in Seq(Answers)
                     /\ \A m \in Subscribers : rx'[m] \in
                          Seq(Writes \cup Presences \cup Reads \cup DirectReads \cup Answers
                              \cup Commands)
                     /\ DOMAIN tx' = Senders /\ DOMAIN rx' = Subscribers
  BY SentNames, Names DEF QueueTypes, Messages
<1> QED
  BY <1>1, <1>2 DEF TypeOK, Domains, HouseTypes, AskingTypes

LEMMA HouseStep ==
    ASSUME TypeOK, Domains, Routed, AllSay, [Next]_vars
    PROVE  HouseTypes'
<1>1. HouseTypes /\ QueueTypes
  BY AllTypes
<1>2. ASSUME UNCHANGED <<recorded, lamp, inRange, atHome, failed, lastWrite, lastTaken>>
      PROVE  HouseTypes'
  BY <1>1, <1>2 DEF HouseTypes
<1>3. ASSUME NEW msg \in Messages \cup Measurements, Place(msg),
             UNCHANGED <<recorded, lamp, inRange, atHome, failed, lastTaken>>
      PROVE  HouseTypes'
  <2>1. lastWrite' \in [AllLights -> BOOLEAN \cup {None}]
    <3>1. CASE msg \in Writes
      <4>1. msg.item \in AllLights /\ msg.on \in BOOLEAN
        BY <3>1 DEF Writes
      <4> QED
        BY <1>1, <1>3, <4>1 DEF Place, HouseTypes
    <3>2. CASE msg \notin Writes
      BY <1>1, <1>3, <3>2, Kinds DEF Place, HouseTypes
    <3> QED
      BY <3>1, <3>2
  <2> QED
    BY <1>1, <1>3, <2>1 DEF HouseTypes
<1>4. ASSUME NEW m \in Subscribers, HandleMessage(m) PROVE HouseTypes'
  <2> DEFINE msg == Head(rx[m])
  <2>1. ASSUME NEW taken \in BOOLEAN, Handled(msg, taken), msg \in Writes \cup Presences
        PROVE  lastTaken' \in [AllLights \cup Devices -> Questions \cup {None}]
    <3>1. msg.by \in Questions \cup {None}
      BY <2>1 DEF Writes, Presences
    <3> QED
      BY <1>1, <2>1, <3>1 DEF Handled, HouseTypes
  <2>2. msg \in Writes \cup Commands => msg.item \in AllLights /\ msg.on \in BOOLEAN
    BY Names DEF Writes, Commands
  <2> HIDE DEF msg
  <2>3. CASE SetLamp(msg) /\ msg \in Writes
    <3>1. PICK outcome \in {"taken", "refused", "lost"} :
            /\ recorded' = IF outcome = "taken" THEN [recorded EXCEPT ![msg.item] = msg.on]
                                                ELSE recorded
            /\ lamp' = IF outcome = "refused" THEN lamp
                                              ELSE [lamp EXCEPT ![msg.item] = msg.on]
            /\ failed' = IF outcome = "refused" THEN failed \cup {msg.item}
                                                ELSE failed \ {msg.item}
            /\ Handled(msg, outcome = "taken")
      BY <2>3 DEF SetLamp
    <3>2. /\ recorded' \in [AllLights -> BOOLEAN]
          /\ lamp' \in [AllLights -> BOOLEAN \cup {None}]
          /\ failed' \in SUBSET AllLights
      BY <1>1, <2>2, <2>3, <3>1 DEF HouseTypes
    <3>3. lastTaken' \in [AllLights \cup Devices -> Questions \cup {None}]
      BY <2>1, <2>3, <3>1
    <3> QED
      BY <1>1, <2>3, <3>2, <3>3 DEF SetLamp, HouseTypes
  <2>4. CASE SetTelldusLight(msg) /\ msg \in Writes
    <3>1. recorded' \in [AllLights -> BOOLEAN]
      BY <1>1, <2>2, <2>4 DEF SetTelldusLight, HouseTypes
    <3>2. lastTaken' \in [AllLights \cup Devices -> Questions \cup {None}]
      BY <2>1, <2>4 DEF SetTelldusLight
    <3> QED
      BY <1>1, <2>4, <3>1, <3>2 DEF SetTelldusLight, HouseTypes
  <2>5. CASE RunCommand(msg) /\ msg \in Commands
    BY <1>1, <2>2, <2>5 DEF RunCommand, HouseTypes
  <2>6. CASE isAtLeastSomeoneAtHome(msg) /\ msg \in Presences
    <3>1. lastTaken' \in [AllLights \cup Devices -> Questions \cup {None}]
      BY <2>1, <2>6 DEF isAtLeastSomeoneAtHome
    <3>2. msg.on \in BOOLEAN
      BY <2>6 DEF Presences
    <3> QED
      BY <1>1, <2>6, <3>1, <3>2 DEF isAtLeastSomeoneAtHome, HouseTypes
  <2>7. CASE Replies(m) \/ Tells(m)
    BY <1>2, <2>7 DEF Replies, Tells, house, history
  <2> QED
    BY <1>4, <2>3, <2>4, <2>5, <2>6, <2>7, HandlerCases DEF msg
<1>5. ASSUME NEW q \in Questions,
             setLightState(q) \/ setBTDevPresent(q) \/ get(q) \/ Asker(q)
      PROVE  HouseTypes'
  BY <1>2, <1>5 DEF setLightState, setBTDevPresent, get, Asker, Ask, SendAndRead, TimeOut,
     house, history
<1>6. ASSUME NEW m \in Senders, Route(m) PROVE HouseTypes'
  BY <1>1, <1>3, <1>6, RouteFacts DEF Route, house
<1>7. CASE receive \/ HandleLightSwitches
  BY <1>3, <1>7, InputFacts DEF house
<1>8. TelldusCallback \/ UNCHANGED vars => HouseTypes'
  BY <1>2 DEF TelldusCallback, Input, house, vars, history
<1> QED
  BY <1>4, <1>5, <1>6, <1>7, <1>8 DEF Next

LEMMA AskingStep ==
    ASSUME TypeOK, Domains, Routed, AllSay, [Next]_vars
    PROVE  AskingTypes'
<1>1. AskingTypes
  BY AllTypes
<1>2. stage \in [Questions -> {"new", "asking", "waiting", "answered", "timedout"}]
  BY DEF TypeOK
<1>3. ASSUME UNCHANGED <<stage, answer, crashed, inputs>> PROVE AskingTypes'
  BY <1>1, <1>3 DEF AskingTypes
<1>4. ASSUME UNCHANGED <<stage, answer, crashed>>, inputs < MaxInputs, inputs' = inputs + 1
      PROVE  AskingTypes'
  BY <1>1, <1>4, NamesAssumption DEF AskingTypes
<1>5. ASSUME NEW q \in Questions,
             setLightState(q) \/ setBTDevPresent(q) \/ get(q) \/ Asker(q)
      PROVE  AskingTypes'
  <2>1. UNCHANGED <<answer, crashed, inputs>>
    BY <1>5 DEF setLightState, setBTDevPresent, get, Asker, Ask, SendAndRead, TimeOut
  <2>2. \A p \in Questions : stage'[p] = "answered" <=> stage[p] = "answered"
    BY <1>2, <1>5 DEF setLightState, setBTDevPresent, get, Asker, Ask, SendAndRead, TimeOut
  <2> QED
    BY <1>1, <2>1, <2>2 DEF AskingTypes
<1>6. ASSUME NEW m \in Subscribers, HandleMessage(m) PROVE AskingTypes'
  <2>1. CASE Tells(m)
    <3>1. Head(rx[m]).by \in Questions
      BY <2>1, TellFacts
    <3>2. PICK value : value # None /\ Answer(Head(rx[m]).by, value)
      BY <2>1 DEF Tells
    <3>3. /\ DOMAIN answer' = Questions /\ crashed' \in BOOLEAN
          /\ \A p \in Questions :
               \/ stage'[p] = stage[p] /\ answer'[p] = answer[p]
               \/ stage'[p] = "answered" /\ answer'[p].on = value
      BY <3>1, <3>2, AnswerFacts
    <3> QED
      BY <1>1, <2>1, <3>2, <3>3 DEF AskingTypes, Tells
  <2>2. CASE ~Tells(m)
    BY <1>3, <1>6, <2>2, HandlerCases DEF SetLamp, SetTelldusLight, RunCommand,
       isAtLeastSomeoneAtHome, Replies, asking
  <2> QED
    BY <2>1, <2>2
<1>7. ASSUME NEW m \in Senders, Route(m) PROVE AskingTypes'
  BY <1>3, <1>7 DEF Route, asking
<1>8. CASE receive \/ HandleLightSwitches \/ TelldusCallback
  BY <1>4, <1>8 DEF receive, HandleLightSwitches, TelldusCallback, Input, asking
<1>9. CASE UNCHANGED vars
  BY <1>3, <1>9 DEF vars, asking
<1> QED
  BY <1>5, <1>6, <1>7, <1>8, <1>9 DEF Next

-----------------------------------------------------------------------------
(* The invariant *)

LEMMA Start == Init => IInv
<1> SUFFICES ASSUME Init PROVE IInv
  OBVIOUS
<1>1. /\ \A m \in Senders : tx[m] = <<>>
      /\ \A m \in Subscribers : rx[m] = <<>>
  BY DEF Init
<1>2. /\ tx["json"] = <<>> /\ tx["telldus"] = <<>>
      /\ rx["hue"] = <<>> /\ rx["telldus"] = <<>> /\ rx["shell"] = <<>>
  BY <1>1, Names
<1>3. \A S : <<>> \in Seq(S)
  OBVIOUS
<1>4. DOMAIN <<>> = {}
  OBVIOUS
<1>5. /\ stage = [q \in Questions |-> "new"]
      /\ question = [q \in Questions |-> None]
      /\ answer = [q \in Questions |-> NoAnswer] /\ NoAnswer.on = None
  BY DEF Init, NoAnswer
<1>6. TypeOK
  <2>1. /\ tx["json"] \in Seq(Writes \cup Presences \cup DirectReads)
        /\ tx["telldus"] \in Seq(Reads \cup Answers \cup Commands \cup Measurements)
        /\ \A m \in {"hue", "shell", "presence"} : tx[m] \in Seq(Answers)
    BY <1>1, <1>2, <1>3, Names
  <2>2. \A m \in Subscribers : rx[m] \in
            Seq(Writes \cup Presences \cup Reads \cup DirectReads \cup Answers \cup Commands)
    BY <1>1, <1>3
  <2>3. \A q \in Questions : stage[q] # "answered" <=> answer[q].on = None
    BY <1>5
  <2>4. inputs \in 0..MaxInputs
    BY NamesAssumption DEF Init
  <2> QED
    BY <1>5, <2>1, <2>2, <2>3, <2>4 DEF TypeOK, Init
<1>7. Domains
  BY <1>5 DEF Domains, Init
<1>8. Routed
  BY <1>1, <1>4 DEF Routed
<1>9. HueFollows
  BY <1>2, <1>4, Names DEF HueFollows, LastIs, Settled, Init
<1>10. TelldusFollows
  BY <1>2, <1>4, Names DEF TelldusFollows, LastIs, Settled, Init
<1>11. Asked
  BY <1>5 DEF Asked
<1>12. AllSay
  BY <1>1, <1>2, <1>4 DEF AllSay
<1>13. WritesFirst
  BY <1>5 DEF WritesFirst
<1>14. TakenShows
  BY DEF TakenShows, Init
<1>15. SomebodyInRange
  BY DEF SomebodyInRange, Init
<1>16. AnswerShowsWrite
  BY <1>5 DEF AnswerShowsWrite
<1> QED
  BY <1>6, <1>7, <1>8, <1>9, <1>10, <1>11, <1>12, <1>13, <1>14, <1>15, <1>16 DEF IInv

LEMMA Step == IInv /\ [Next]_vars => IInv'
<1> SUFFICES ASSUME IInv, [Next]_vars PROVE IInv'
  OBVIOUS
<1>1. /\ TypeOK /\ Domains /\ Routed /\ HueFollows /\ TelldusFollows /\ Asked /\ AllSay
      /\ WritesFirst /\ TakenShows /\ SomebodyInRange /\ AnswerShowsWrite
  BY DEF IInv
<1>2. TypeOK' /\ Domains'
  BY <1>1, QueuesStep, HouseStep, AskingStep, StagesStep, AllTypes
<1>3. Routed' /\ AllSay' /\ Asked'
  BY <1>1, RoutedStep, StagesStep
<1>4. HueFollows' /\ TelldusFollows'
  BY <1>1, FollowsStep
<1>5. WritesFirst' /\ TakenShows' /\ SomebodyInRange'
  BY <1>1, WritesFirstStep, TakenShowsStep
<1>6. AnswerShowsWrite'
  BY <1>1, ShowsStep
<1> QED
  BY <1>2, <1>3, <1>4, <1>5, <1>6 DEF IInv

(* What the others rest on: along the queues the last write for a lamp is  *)
(* the one the bus took last, and the write of a question goes before its  *)
(* read.                                                                   *)
THEOREM Invariance == Spec => []IInv
BY Start, Step, PTL DEF Spec

(* Every manager sends only messages of its own kinds, and a question has  *)
(* an answer exactly when it was answered.                                 *)
THEOREM TypeCorrect == Spec => []TypeOK
<1>1. IInv => TypeOK
  BY DEF IInv
<1> QED
  BY <1>1, Invariance, PTL

(* When nothing that would switch a lamp is on its way, over the bridge or *)
(* over two hops to the shell, the lamp is as the write the bus took last  *)
(* wants it, however many peers, entries and questions wrote; unless the   *)
(* bridge or tdtool failed.                                                *)
THEOREM LampsFollow == Spec => []LampsFollowLastWrite
<1>1. ASSUME IInv, NEW l \in AllLights, NothingFor(l), l \notin failed, lastWrite[l] # None
      PROVE  lamp[l] = lastWrite[l]
  <2>1. /\ Without(rx["hue"], Writes, l) /\ Without(rx["telldus"], Writes, l)
        /\ Without(tx["telldus"], Commands, l) /\ Without(rx["shell"], Commands, l)
    BY <1>1 DEF NothingFor, Without
  <2>2. Settled(l)
    BY <1>1, <2>1, Names DEF IInv, HueFollows, TelldusFollows
  <2> QED
    BY <1>1, <2>2 DEF Settled
<1>2. IInv => LampsFollowLastWrite
  BY <1>1 DEF LampsFollowLastWrite
<1> QED
  BY <1>2, Invariance, PTL

(* A question that writes and reads back is answered after its write was   *)
(* handled and with what it wrote, if that was recorded and is still the   *)
(* last: the read never overtakes the write, in any number of questions.   *)
THEOREM AnswersCorrect == Spec => []AnswerShowsWrite
<1>1. IInv => AnswerShowsWrite
  BY DEF IInv
<1> QED
  BY <1>1, Invariance, PTL
=============================================================================
