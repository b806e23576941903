------------------------------- MODULE Lights -------------------------------
(***************************************************************************)
(* The managers that switch lights and know who is at home, and            *)
(* JSONManager which asks them:                                            *)
(*                                                                         *)
(*   peers, schedule, questions --write--> Hue ----request----> lamps      *)
(*                              --write--> Telldus --command--> shell      *)
(*                                                        --tdtool--> lamps *)
(*   questions --read with direct answer--> Hue, Telldus, Presence         *)
(*                                                                         *)
(* Every manager handles its messages one after the other in a thread of   *)
(* its own and sends over the bus. The bus is taken as what MessageBus is  *)
(* shown to implement, TotalOrderMulticast: a message is taken from a      *)
(* sending queue, first in first out, and goes to all subscribers in one   *)
(* step. The queues of RemoteManager and ScheduleManager, which only pass  *)
(* on what comes from outside, are left out: nothing here depends on how   *)
(* long a message waits in them.                                           *)
(*                                                                         *)
(* Questions come from RESTApi, whose table of commands calls JSONManager, *)
(* each in the thread of its request. No request reaches RESTApi as        *)
(* HTTPManager is written now; the questions are modelled as they would be *)
(* asked.                                                                  *)
(*                                                                         *)
(* A question waits a second for its promise to be set. The function that  *)
(* sets it travels in the message and refers to the frame of the asking    *)
(* thread, so that an answer that comes after the second does what the     *)
(* stack then happens to hold: nothing, the promise of a question that     *)
(* was asked later, or a crash.                                            *)
(***************************************************************************)
EXTENDS Naturals, Sequences, Functions

CONSTANTS HueLights, TelldusLights,   (* internal ids                      *)
          Devices,      (* bluetooth devices                               *)
          Questions,    (* requests to JSONManager, a thread each          *)
          None,         (* no question, no item                            *)
          MaxInputs     (* bound: messages from peers, the schedule and    *)
                        (* the timer of TelldusCommandLineManager          *)

ASSUME NamesAssumption ==
    /\ HueLights \cap TelldusLights = {}
    /\ (HueLights \cup TelldusLights) \cap Devices = {}
    /\ None \notin HueLights \cup TelldusLights \cup Devices \cup Questions
    /\ None \notin BOOLEAN /\ \A lights \in SUBSET HueLights : None # lights
    /\ None \notin [id : {"LightState", "Lights", "Presence"},
                    item : HueLights \cup TelldusLights \cup Devices \cup {None},
                    on : BOOLEAN \cup {None}]
    /\ MaxInputs \in Nat

AllLights == HueLights \cup TelldusLights

SubscribedTo ==
    [hue      |-> {"LightState", "Lights"},
     telldus  |-> {"CommandLine", "LightState"},
     shell    |-> {"CommandLine"},
     presence |-> {"BlootoothDevice", "Presence"}]

Subscribers == DOMAIN SubscribedTo

(* What the HandleMessage of a subscriber acts on: the lights of its own,  *)
(* and no answers, but for the lines of tdtool.                            *)
ActsOn(m, msg) ==
    /\ msg.id \in SubscribedTo[m]
    /\ m = "hue" /\ msg.id = "LightState" => msg.item \in HueLights
    /\ m = "telldus" /\ msg.id = "LightState" => msg.item \in TelldusLights
    /\ (msg.cmd = "Answer") = (m = "telldus" /\ msg.id = "CommandLine")

Senders == {"json"} \cup Subscribers

(* by: the question whose write or read a message is, or None.             *)
Message(cmd, id, item, on, by) ==
    [cmd |-> cmd, id |-> id, item |-> item, on |-> on, by |-> by]

VARIABLES
    tx,         (* tx[m]: what manager m has sent                          *)
    rx,         (* rx[m]: what it has received                             *)
    recorded,   (* m_State of each Light                                   *)
    lamp,       (* whether the lamp is on; None: as it was found           *)
    inRange,    (* m_SomeOneAtHome                                         *)
    atHome,     (* m_AtLeastOneAtHome                                      *)
    question,   (* question[q]: what it reads, and what it writes          *)
    stage,      (* "new", "asking", "waiting", "answered", "timedout"      *)
    answer,     (* answer[q]: see Deliver                                  *)
    crashed,    (* an answer came late and ruined the stack                *)
    inputs,     (* messages from outside so far                            *)
    lastWrite,  (* history: the last write routed for each light, or None  *)
    failed,     (* history: lights whose last write did not reach the lamp *)
    handled,    (* history: questions whose write was handled              *)
    lastTaken   (* history: the question whose write each item has, if the *)
                (* last write was a question's and was recorded, or None   *)

queues == <<tx, rx>>
asking == <<question, stage, answer>>
house == <<recorded, lamp, inRange, atHome>>
history == <<lastWrite, failed, handled, lastTaken>>
vars == <<queues, house, asking, crashed, inputs, history>>

NoAnswer == [on |-> None, own |-> FALSE, last |-> FALSE, stray |-> FALSE]

Init ==
    /\ tx = [m \in Senders |-> <<>>]
    /\ rx = [m \in Subscribers |-> <<>>]
    /\ recorded = [l \in AllLights |-> FALSE]
    /\ lamp = [l \in AllLights |-> None]
    /\ inRange = [d \in Devices |-> FALSE]
    /\ atHome = FALSE
    /\ question = [q \in Questions |-> None]
    /\ stage = [q \in Questions |-> "new"]
    /\ answer = [q \in Questions |-> NoAnswer]
    /\ crashed = FALSE
    /\ inputs = 0
    /\ lastWrite = [l \in AllLights |-> None]
    /\ failed = {}
    /\ handled = {}
    /\ lastTaken = [i \in AllLights \cup Devices |-> None]

SendMessage(m, msg) == tx' = [tx EXCEPT ![m] = Append(@, msg)]

-----------------------------------------------------------------------------
(* The router *)

(* To the subscribers that act on it: the others drop it, whenever.        *)
Place(msg) ==
    /\ rx' = [s \in Subscribers |->
                IF ActsOn(s, msg) THEN Append(rx[s], msg) ELSE rx[s]]
    /\ lastWrite' = IF msg.cmd = "Write" /\ msg.id = "LightState"
                    THEN [lastWrite EXCEPT ![msg.item] = msg.on]
                    ELSE lastWrite

RouteNewest(m) ==
    /\ ~crashed
    /\ tx[m] # <<>>
    /\ tx' = [tx EXCEPT ![m] = SubSeq(@, 1, Len(@) - 1)]
    /\ Place(tx[m][Len(tx[m])])
    /\ UNCHANGED <<house, asking, crashed, inputs, failed, handled, lastTaken>>

Route(m) ==
    /\ ~crashed
    /\ tx[m] # <<>>
    /\ tx' = [tx EXCEPT ![m] = Tail(@)]
    /\ Place(Head(tx[m]))
    /\ UNCHANGED <<house, asking, crashed, inputs, failed, handled, lastTaken>>

-----------------------------------------------------------------------------
(* Inputs *)

Input ==
    /\ ~crashed
    /\ inputs < MaxInputs
    /\ inputs' = inputs + 1
    /\ UNCHANGED <<house, asking, crashed, failed, handled, lastTaken>>

(* RemoteManager forwards what a peer writes or reads.                     *)
receive ==
    /\ Input
    /\ \/ \E l \in AllLights, on \in BOOLEAN :
            Place(Message("Write", "LightState", l, on, None))
       \/ \E l \in AllLights :
            Place(Message("Read", "LightState", l, FALSE, None))
       \/ \E d \in Devices, on \in BOOLEAN :
            Place(Message("Write", "BlootoothDevice", d, on, None))
       \/ Place(Message("Read", "Presence", None, FALSE, None))
    /\ UNCHANGED tx

(* ScheduleManager, for one light of an entry.                             *)
HandleLightSwitches ==
    /\ Input
    /\ \E l \in AllLights, on \in BOOLEAN :
            Place(Message("Write", "LightState", l, on, None))
    /\ UNCHANGED tx

TelldusCallback ==
    /\ Input
    /\ SendMessage("telldus", Message("Read", "CommandLine", None, FALSE, None))
    /\ UNCHANGED <<rx, lastWrite>>

-----------------------------------------------------------------------------
(* JSONManager, in the thread that asks *)

Ask(q, id, item, on) ==
    /\ ~crashed
    /\ stage[q] = "new"
    /\ stage' = [stage EXCEPT ![q] = "asking"]
    /\ question' = [question EXCEPT ![q] = [id |-> id, item |-> item, on |-> on]]
    /\ UNCHANGED <<rx, house, answer, crashed, inputs, history>>

setLightState(q) ==
    \E l \in AllLights, on \in BOOLEAN :
        /\ Ask(q, "LightState", l, on)
        /\ SendMessage("json", Message("Write", "LightState", l, on, q))

setBTDevPresent(q) ==
    \E d \in Devices, on \in BOOLEAN :
        /\ Ask(q, "Presence", d, on)
        /\ SendMessage("json", Message("Write", "BlootoothDevice", d, on, q))

(* getLightState, getPresence and getAllLights on their own.               *)
get(q) ==
    /\ \/ \E l \in AllLights : Ask(q, "LightState", l, None)
       \/ Ask(q, "Presence", None, None)
       \/ Ask(q, "Lights", None, None)
    /\ UNCHANGED tx

SendAndRead(q) ==
    /\ ~crashed
    /\ stage[q] = "asking"
    /\ SendMessage("json", Message("ReadWithDirectAnswer", question[q].id,
                                   question[q].item, FALSE, q))
    /\ stage' = [stage EXCEPT ![q] = "waiting"]
    /\ UNCHANGED <<rx, house, question, answer, crashed, inputs, history>>

TimeOut(q) ==
    /\ ~crashed
    /\ stage[q] = "waiting"
    /\ stage' = [stage EXCEPT ![q] = "timedout"]
    /\ UNCHANGED <<queues, house, question, answer, crashed, inputs, history>>

-----------------------------------------------------------------------------
(* Handling a message *)

(* m takes its next message, which has the command and an id among ids.    *)
Takes(m, cmd, ids, msg) ==
    /\ ~crashed
    /\ rx[m] # <<>>
    /\ msg = Head(rx[m])
    /\ msg.cmd = cmd
    /\ msg.id \in ids
    /\ rx' = [rx EXCEPT ![m] = Tail(@)]

(* The promise of p is set. own: its write had been handled; last: and the *)
(* item still has it.                                                      *)
Deliver(p, value, stray) ==
    /\ stage' = [stage EXCEPT ![p] = "answered"]
    /\ answer' = [answer EXCEPT ![p] =
            [on |-> value,
             own |-> p \in handled,
             last |-> p \in Range(lastTaken),
             stray |-> stray]]

(* answerCallback: in time, or late.                                       *)
Answer(q, value) ==
    \/ /\ stage[q] = "waiting"
       /\ Deliver(q, value, FALSE)
       /\ UNCHANGED crashed
    \/ /\ stage[q] # "waiting"
       /\ UNCHANGED <<stage, answer, crashed>>
    \/ /\ stage[q] # "waiting"
       /\ \E p \in Questions :
            /\ stage[p] = "waiting"
            /\ question[p].id = question[q].id
            /\ Deliver(p, value, TRUE)
       /\ UNCHANGED crashed
    \/ /\ stage[q] # "waiting"
       /\ crashed' = TRUE
       /\ UNCHANGED <<stage, answer>>

Handled(msg, taken) ==
    /\ handled' = handled \cup ({msg.by} \ {None})
    /\ lastTaken' = [lastTaken EXCEPT ![msg.item] = IF taken THEN msg.by ELSE None]

(* HueManager: the bridge takes a write, refuses it, or takes it and its   *)
(* answer is lost. Only the first is recorded.                             *)
SetLamp(msg) ==
    /\ Takes("hue", "Write", {"LightState"}, msg)
    /\ msg.item \in HueLights
    /\ \E outcome \in {"taken", "refused", "lost"} :
        /\ recorded' = IF outcome = "taken" THEN [recorded EXCEPT ![msg.item] = msg.on]
                                            ELSE recorded
        /\ lamp' = IF outcome = "refused" THEN lamp ELSE [lamp EXCEPT ![msg.item] = msg.on]
        /\ failed' = IF outcome = "refused" THEN failed \cup {msg.item}
                                            ELSE failed \ {msg.item}
        /\ Handled(msg, outcome = "taken")
    /\ UNCHANGED <<tx, inRange, atHome, asking, crashed, inputs, lastWrite>>

ForwardToShell(msg) ==
    /\ Takes("telldus", "Write", {"LightState"}, msg)
    /\ SendMessage("telldus", msg)
    /\ recorded' = [recorded EXCEPT ![msg.item] = @ \/ msg.on]
    /\ Handled(msg, TRUE)
    /\ UNCHANGED <<lamp, inRange, atHome, asking, crashed, inputs, lastWrite, failed>>

SetTelldusLightIfChanged(msg) ==
    /\ Takes("telldus", "Write", {"LightState"}, msg)
    /\ IF recorded[msg.item] = msg.on THEN UNCHANGED tx
       ELSE SendMessage("telldus", Message("Write", "CommandLine", msg.item, msg.on, None))
    /\ recorded' = [recorded EXCEPT ![msg.item] = @ \/ msg.on]
    /\ Handled(msg, TRUE)
    /\ UNCHANGED <<lamp, inRange, atHome, asking, crashed, inputs, lastWrite, failed>>

(* TelldusCommandLineManager: sends a command. SetLightState then returns  *)
(* whether the light is to be on, and only then is anything recorded.      *)
SetTelldusLight(msg) ==
    /\ Takes("telldus", "Write", {"LightState"}, msg)
    /\ msg.item \in TelldusLights
    /\ SendMessage("telldus", Message("Write", "CommandLine", msg.item, msg.on, None))
    /\ recorded' = [recorded EXCEPT ![msg.item] = @ \/ msg.on]
    /\ Handled(msg, TRUE)
    /\ UNCHANGED <<lamp, inRange, atHome, asking, crashed, inputs, lastWrite, failed>>

LightsOf(m) == IF m = "hue" THEN HueLights ELSE TelldusLights

ReadLight(m, msg) ==
    /\ Takes(m, "Read", {"LightState"}, msg)
    /\ msg.item \in LightsOf(m)
    /\ SendMessage(m, Message("Answer", "LightState", msg.item, recorded[msg.item], None))
    /\ UNCHANGED <<house, asking, crashed, inputs, history>>

AnswerLight(m, msg) ==
    /\ Takes(m, "ReadWithDirectAnswer", {"LightState"}, msg)
    /\ msg.item \in LightsOf(m)
    /\ Answer(msg.by, recorded[msg.item])
    /\ UNCHANGED <<tx, house, question, inputs, history>>

AnswerLights(msg) ==
    /\ Takes("hue", "ReadWithDirectAnswer", {"Lights"}, msg)
    /\ Answer(msg.by, {l \in HueLights : recorded[l]})
    /\ UNCHANGED <<tx, house, question, inputs, history>>

(* The sensors among the lines of tdtool are sent on as measurements.      *)
ReadSensors(msg) ==
    /\ Takes("telldus", "Answer", {"CommandLine"}, msg)
    /\ \/ SendMessage("telldus", Message("Write", "MandolynSensor", None, FALSE, None))
       \/ UNCHANGED tx
    /\ UNCHANGED <<house, asking, crashed, inputs, history>>

(* CommandLineManager: tdtool switches the lamp, or fails unnoticed.       *)
RunCommand(msg) ==
    /\ Takes("shell", "Write", {"CommandLine"}, msg)
    /\ \/ /\ lamp' = [lamp EXCEPT ![msg.item] = msg.on]
          /\ failed' = failed \ {msg.item}
       \/ /\ failed' = failed \cup {msg.item}
          /\ UNCHANGED lamp
    /\ UNCHANGED <<tx, recorded, inRange, atHome, asking, crashed, inputs,
                   lastWrite, handled, lastTaken>>

RunList(msg) ==
    /\ Takes("shell", "Read", {"CommandLine"}, msg)
    /\ \/ SendMessage("shell", Message("Answer", "CommandLine", None, FALSE, None))
       \/ UNCHANGED tx
    /\ UNCHANGED <<house, asking, crashed, inputs, history>>

(* PresenceManager *)
isAtLeastSomeoneAtHome(msg) ==
    /\ Takes("presence", "Write", {"BlootoothDevice"}, msg)
    /\ inRange' = [inRange EXCEPT ![msg.item] = msg.on]
    /\ atHome' = (\E d \in Devices : inRange'[d])
    /\ Handled(msg, TRUE)
    /\ UNCHANGED <<tx, recorded, lamp, asking, crashed, inputs, lastWrite, failed>>

ReadPresence(msg) ==
    /\ Takes("presence", "Read", {"Presence"}, msg)
    /\ SendMessage("presence", Message("Answer", "Presence", None, atHome, None))
    /\ UNCHANGED <<house, asking, crashed, inputs, history>>

AnswerPresence(msg) ==
    /\ Takes("presence", "ReadWithDirectAnswer", {"Presence"}, msg)
    /\ Answer(msg.by, atHome)
    /\ UNCHANGED <<tx, house, question, inputs, history>>

HandleMessage(m) ==
    /\ rx[m] # <<>>
    /\ LET msg == Head(rx[m])
       IN  \/ m = "hue" /\ (SetLamp(msg) \/ AnswerLights(msg))
           \/ m = "telldus" /\ (SetTelldusLight(msg) \/ ReadSensors(msg))
           \/ m \in {"hue", "telldus"} /\ (ReadLight(m, msg) \/ AnswerLight(m, msg))
           \/ m = "shell" /\ (RunCommand(msg) \/ RunList(msg))
           \/ m = "presence" /\ (isAtLeastSomeoneAtHome(msg) \/ ReadPresence(msg)
                                 \/ AnswerPresence(msg))

Asker(q) == SendAndRead(q) \/ TimeOut(q)

Next ==
    \/ receive \/ HandleLightSwitches \/ TelldusCallback
    \/ \E q \in Questions : setLightState(q) \/ setBTDevPresent(q) \/ get(q) \/ Asker(q)
    \/ \E m \in Senders : Route(m)
    \/ \E m \in Subscribers : HandleMessage(m)

Spec == Init /\ [][Next]_vars

-----------------------------------------------------------------------------
(* Properties *)

Writes == [cmd : {"Write"}, id : {"LightState"}, item : AllLights,
           on : BOOLEAN, by : Questions \cup {None}]
Presences == [cmd : {"Write"}, id : {"BlootoothDevice"}, item : Devices,
              on : BOOLEAN, by : Questions \cup {None}]
Reads == [cmd : {"Read"}, id : {"LightState", "Presence", "CommandLine"},
          item : AllLights \cup {None}, on : {FALSE}, by : {None}]
DirectReads == [cmd : {"ReadWithDirectAnswer"}, id : {"LightState", "Lights", "Presence"},
                item : AllLights \cup Devices \cup {None}, on : {FALSE}, by : Questions]
Answers == [cmd : {"Answer"}, id : {"LightState", "Presence", "CommandLine"},
            item : AllLights \cup {None}, on : BOOLEAN, by : {None}]
Commands == [cmd : {"Write"}, id : {"CommandLine"}, item : TelldusLights,
             on : BOOLEAN, by : {None}]
Measurements == [cmd : {"Write"}, id : {"MandolynSensor"}, item : {None},
                 on : {FALSE}, by : {None}]

(* Every manager sends only what its part is, the recorded states are      *)
(* states, and a question has an answer when it was answered.              *)
TypeOK ==
    /\ tx["json"] \in Seq(Writes \cup Presences \cup DirectReads)
    /\ tx["telldus"] \in Seq(Reads \cup Answers \cup Commands \cup Measurements)
    /\ \A m \in {"hue", "shell", "presence"} : tx[m] \in Seq(Answers)
    /\ \A m \in Subscribers : rx[m] \in
            Seq(Writes \cup Presences \cup Reads \cup DirectReads \cup Answers \cup Commands)
    /\ recorded \in [AllLights -> BOOLEAN]
    /\ lamp \in [AllLights -> BOOLEAN \cup {None}]
    /\ inRange \in [Devices -> BOOLEAN]
    /\ atHome \in BOOLEAN
    /\ stage \in [Questions -> {"new", "asking", "waiting", "answered", "timedout"}]
    /\ \A q \in Questions : stage[q] # "answered" <=> answer[q].on = None
    /\ inputs \in 0..MaxInputs
    /\ failed \subseteq AllLights
    /\ handled \subseteq Questions

(* Nothing that would switch light l is on its way behind the router.      *)
NothingFor(l) ==
    /\ \A i \in DOMAIN rx["hue"] : rx["hue"][i] \notin Writes \/ rx["hue"][i].item # l
    /\ \A i \in DOMAIN rx["telldus"] :
            rx["telldus"][i] \notin Writes \/ rx["telldus"][i].item # l
    /\ \A i \in DOMAIN tx["telldus"] :
            tx["telldus"][i] \notin Commands \/ tx["telldus"][i].item # l
    /\ \A i \in DOMAIN rx["shell"] :
            rx["shell"][i] \notin Commands \/ rx["shell"][i].item # l

(* Peers, the schedule and questions may write to the same light at the    *)
(* same time, over a bridge or over two hops to a shell command: what the  *)
(* lamp ends up with is the write the bus took last, unless the bridge or  *)
(* tdtool failed.                                                          *)
LampsFollowLastWrite ==
    \A l \in AllLights :
        NothingFor(l) /\ l \notin failed /\ lastWrite[l] # None => lamp[l] = lastWrite[l]

(* A question that writes and reads back is answered from the state after  *)
(* its write was handled, and with what it wrote, if the write was         *)
(* recorded and none came behind it. A Telldus light that is switched off  *)
(* is left out: its state stays on (TelldusCommandLineManager.cpp:193).    *)
(* So is an answer that was meant for another question.                    *)
AnswerShowsWrite ==
    \A q \in Questions :
        (stage[q] = "answered" /\ ~answer[q].stray /\ question[q].on # None) =>
            /\ answer[q].own
            /\ answer[q].last /\ question[q].item \in AllLights /\
               (question[q].item \in HueLights \/ question[q].on)
                    => answer[q].on = question[q].on
            /\ answer[q].last /\ question[q].item \in Devices /\ question[q].on
                    => answer[q].on
=============================================================================
