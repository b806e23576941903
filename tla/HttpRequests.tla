---------------------------- MODULE HttpRequests ----------------------------
(***************************************************************************)
(* A GET request for a sensor, from the thread of the HTTP library that    *)
(* brings it to the reply: HTTPManager, the message bus and SensorManager. *)
(*                                                                         *)
(*   get (library thread) --job--> HTTPManager --read--> router --read-->  *)
(*   SensorManager --answer job--> HTTPManager --reply--> library          *)
(*                                                                         *)
(* Both managers run their jobs in the thread of their runtime, which      *)
(* holds the mutex of the receive queue while it drains the queue: whoever *)
(* pushes to it (get, the router, the answer, the timer) waits meanwhile.  *)
(***************************************************************************)
EXTENDS Naturals, Sequences, FiniteSets

CONSTANTS Requests,
          Configured,   (* internal ids m_Sensors is built with            *)
          Unknown,      (* an internal id that is not configured           *)
          Malformed,    (* the query asks for no sensor, or for no number  *)
          None,         (* no request, or no query                         *)
          PoolSize,     (* threads of the HTTP library                     *)
          MaxUpdates    (* bound: measurements that arrive                 *)

ASSUME NamesAssumption ==
    /\ Unknown \notin Configured
    /\ Malformed \notin Configured \cup {Unknown}
    /\ None \notin Requests \cup Configured \cup {Unknown, Malformed}

(* A thread of the library waits in get until HTTPManager has drained its  *)
(* queue, and that may wait for a reply, which needs a thread of the       *)
(* library: with more requests at a time than threads they all wait.       *)
ASSUME PoolAssumption ==
    /\ IsFiniteSet(Requests)
    /\ Requests # {}
    /\ PoolSize \in Nat
    /\ PoolSize >= Cardinality(Requests)

ASSUME BoundAssumption == MaxUpdates \in Nat

Queries == Configured \cup {Unknown, Malformed}
RequestIds == 1..Cardinality(Requests)

(* A Sensor: whose it is, and the measurement, counted. Sensor() is        *)
(* DefaultSensor.                                                          *)
DefaultSensor == [sensor |-> Unknown, measured |-> 0]
SensorData == [sensor : Configured, measured : 0..MaxUpdates] \cup {DefaultSensor}

Gets == [job : {"get"}, request : Requests]
Answers == [job : {"answer"}, id : RequestIds, data : SensorData]
Callbacks == [job : {"callback"}]
Reads == [cmd : {"read"}, id : RequestIds, sensor : Configured \cup {Unknown}]
Writes == [cmd : {"write"}, sensor : Configured]

VARIABLES
    query,        (* query[r], of the requests that have come              *)
    inGet,        (* requests whose library thread is in HTTPManager::get  *)
    httpThread,   (* HTTPManager's: "idle", "busy", "callback", "waiting"  *)
    httpRx,       (* its receive queue: jobs                               *)
    httpTx,       (* its send queue: reads                                 *)
    requestId,    (* m_RequestId                                           *)
    requestMap,   (* m_Map: requestMap[id] is a request or None            *)
    taskQueue,    (* m_RequestTaskQueue: requests whose reply it watches   *)
    waitsFor,     (* the request whose reply Callback waits for, or None   *)
    task,         (* task[r]: the reply's: "none", "pending", "done",      *)
                  (* "failed"                                              *)
    sensorThread, (* SensorManager's: "idle", "busy", "answering"          *)
    sensorRx,     (* its receive queue: reads and writes                   *)
    sensors,      (* m_Sensors: the measurement of each sensor             *)
    answer,       (* the job SensorManager is about to push                *)
    since,        (* since[r]: m_Sensors when the request came             *)
    replies       (* the replies, in order                                 *)

library == <<query, inGet, since>>
http == <<httpThread, requestId, requestMap, taskQueue, waitsFor>>
sensorManager == <<sensorThread, sensors, answer>>
vars == <<library, http, httpRx, httpTx, task, sensorManager, sensorRx, replies>>

NoAnswer == [job |-> "answer", id |-> 1, data |-> DefaultSensor]

Init ==
    /\ query = [r \in Requests |-> None]
    /\ inGet = {}
    /\ httpThread = "idle"
    /\ httpRx = <<>>
    /\ httpTx = <<>>
    /\ requestId = 1
    /\ requestMap = [id \in RequestIds |-> None]
    /\ taskQueue = <<>>
    /\ waitsFor = None
    /\ task = [r \in Requests |-> "none"]
    /\ sensorThread = "idle"
    /\ sensorRx = <<>>
    /\ sensors = [s \in Configured |-> 0]
    /\ answer = NoAnswer
    /\ since = [r \in Requests |-> [s \in Configured |-> 0]]
    /\ replies = <<>>

-----------------------------------------------------------------------------
(* The threads of the HTTP library *)

Arrive(r) ==
    /\ query[r] = None
    /\ Cardinality(inGet) < PoolSize
    /\ \E q \in Queries : query' = [query EXCEPT ![r] = q]
    /\ since' = [since EXCEPT ![r] = sensors]
    /\ inGet' = inGet \cup {r}
    /\ UNCHANGED <<http, httpRx, httpTx, task, sensorManager, sensorRx, replies>>

(* PushMessageToRuntimeHandler, when it gets the mutex.                    *)
PushToHttp(job) ==
    /\ httpThread = "idle"
    /\ httpRx' = Append(httpRx, job)

get(r) ==
    /\ r \in inGet
    /\ PushToHttp([job |-> "get", request |-> r])
    /\ inGet' = inGet \ {r}
    /\ UNCHANGED <<query, since, http, httpTx, task, sensorManager, sensorRx, replies>>

(* A thread that is free sends a reply, or finds the client gone.          *)
ReplyEnds(r) ==
    /\ task[r] = "pending"
    /\ Cardinality(inGet) < PoolSize
    /\ \E end \in {"done", "failed"} : task' = [task EXCEPT ![r] = end]
    /\ UNCHANGED <<library, http, httpRx, httpTx, sensorManager, sensorRx, replies>>

-----------------------------------------------------------------------------
(* The timer of HTTPManager. Bound: one callback is queued at a time.      *)

Timer ==
    /\ \A i \in DOMAIN httpRx : httpRx[i] \notin Callbacks
    /\ PushToHttp([job |-> "callback"])
    /\ UNCHANGED <<library, http, httpTx, task, sensorManager, sensorRx, replies>>

-----------------------------------------------------------------------------
(* The thread of HTTPManager's runtime *)

WakeHttp ==
    /\ httpThread = "idle"
    /\ httpRx # <<>>
    /\ httpThread' = "busy"
    /\ UNCHANGED <<library, httpRx, httpTx, requestId, requestMap, taskQueue,
                   waitsFor, task, sensorManager, sensorRx, replies>>

Job(jobs) ==
    /\ httpThread = "busy"
    /\ httpRx # <<>>
    /\ Head(httpRx) \in jobs
    /\ httpRx' = Tail(httpRx)

(* HandleIncomingRequest: register the request and trigger the read.       *)
HandleIncomingRequest ==
    \E r \in Requests :
        /\ Job({[job |-> "get", request |-> r]})
        /\ query[r] # Malformed
        /\ requestMap' = [requestMap EXCEPT ![requestId] = r]
        /\ requestId' = requestId + 1
        /\ httpTx' = Append(httpTx, [cmd |-> "read", id |-> requestId, sensor |-> query[r]])
        /\ UNCHANGED <<library, httpThread, taskQueue, waitsFor, task,
                       sensorManager, sensorRx, replies>>

RegisterMalformed ==
    \E r \in Requests :
        /\ Job({[job |-> "get", request |-> r]})
        /\ query[r] = Malformed
        /\ requestMap' = [requestMap EXCEPT ![requestId] = r]
        /\ requestId' = requestId + 1
        /\ UNCHANGED <<library, httpThread, taskQueue, waitsFor, httpTx, task,
                       sensorManager, sensorRx, replies>>

(* No sensor is asked for, or stoi throws: nobody ever replies.            *)
IgnoreRequest ==
    \E r \in Requests :
        /\ Job({[job |-> "get", request |-> r]})
        /\ query[r] = Malformed
        /\ UNCHANGED <<library, http, httpTx, task, sensorManager, sensorRx, replies>>

ReplyTo(r, data) ==
    /\ task' = [task EXCEPT ![r] = "pending"]
    /\ taskQueue' = Append(taskQueue, r)
    /\ replies' = Append(replies, [request |-> r, data |-> data])

ReplyToNewest ==
    \E a \in Answers :
        /\ Job({a})
        /\ IF requestMap[requestId - 1] # None
           THEN ReplyTo(requestMap[requestId - 1], a.data)
           ELSE UNCHANGED <<task, taskQueue, replies>>
        /\ requestMap' = [requestMap EXCEPT ![a.id] = None]
        /\ UNCHANGED <<library, httpThread, requestId, waitsFor, httpTx,
                       sensorManager, sensorRx>>

(* sendBackToOwnContext: reply, and remove the request; a second answer    *)
(* would find nothing.                                                     *)
Reply ==
    \E a \in Answers :
        /\ Job({a})
        /\ IF requestMap[a.id] # None
           THEN ReplyTo(requestMap[a.id], a.data)
           ELSE UNCHANGED <<task, taskQueue, replies>>
        /\ requestMap' = [requestMap EXCEPT ![a.id] = None]
        /\ UNCHANGED <<library, httpThread, requestId, waitsFor, httpTx,
                       sensorManager, sensorRx>>

StartCallback ==
    /\ Job(Callbacks)
    /\ httpThread' = "callback"
    /\ UNCHANGED <<library, httpTx, requestId, requestMap, taskQueue, waitsFor, task,
                   sensorManager, sensorRx, replies>>

(* Callback: one reply task after the other; a failed one counts as done.  *)
PopTask ==
    /\ httpThread = "callback"
    /\ taskQueue # <<>>
    /\ taskQueue' = Tail(taskQueue)
    /\ IF task[Head(taskQueue)] = "pending"
       THEN httpThread' = "waiting" /\ waitsFor' = Head(taskQueue)
       ELSE UNCHANGED <<httpThread, waitsFor>>
    /\ UNCHANGED <<library, httpRx, httpTx, requestId, requestMap, task,
                   sensorManager, sensorRx, replies>>

KeepWaiting ==
    /\ httpThread = "waiting"
    /\ task[waitsFor] # "pending"
    /\ httpThread' = "callback"
    /\ UNCHANGED <<library, httpRx, httpTx, requestId, requestMap, taskQueue, waitsFor,
                   task, sensorManager, sensorRx, replies>>

(* wait returns, or throws out of Callback: the tasks left are for the     *)
(* next one.                                                               *)
WaitEnds ==
    /\ httpThread = "waiting"
    /\ task[waitsFor] # "pending"
    /\ httpThread' = IF task[waitsFor] = "failed" THEN "busy" ELSE "callback"
    /\ waitsFor' = None
    /\ UNCHANGED <<library, httpRx, httpTx, requestId, requestMap, taskQueue, task,
                   sensorManager, sensorRx, replies>>

CallbackEnds ==
    /\ httpThread = "callback"
    /\ taskQueue = <<>>
    /\ httpThread' = "busy"
    /\ UNCHANGED <<library, httpRx, httpTx, requestId, requestMap, taskQueue, waitsFor,
                   task, sensorManager, sensorRx, replies>>

HttpDrained ==
    /\ httpThread = "busy"
    /\ httpRx = <<>>
    /\ httpThread' = "idle"
    /\ UNCHANGED <<library, httpRx, httpTx, requestId, requestMap, taskQueue, waitsFor,
                   task, sensorManager, sensorRx, replies>>

-----------------------------------------------------------------------------
(* The router, and the measurements it brings from the network *)

PushToSensorManager(msg) ==
    /\ sensorThread = "idle"
    /\ sensorRx' = Append(sensorRx, msg)

Route ==
    /\ httpTx # <<>>
    /\ PushToSensorManager(Head(httpTx))
    /\ httpTx' = Tail(httpTx)
    /\ UNCHANGED <<library, http, httpRx, task, sensorManager, replies>>

Pending(s) == Cardinality({i \in DOMAIN sensorRx : sensorRx[i] = [cmd |-> "write", sensor |-> s]})

Measurement ==
    \E s \in Configured :
        /\ sensors[s] + Pending(s) < MaxUpdates
        /\ PushToSensorManager([cmd |-> "write", sensor |-> s])
        /\ UNCHANGED <<library, http, httpRx, httpTx, task, sensorManager, replies>>

-----------------------------------------------------------------------------
(* The thread of SensorManager's runtime *)

WakeSensors ==
    /\ sensorThread = "idle"
    /\ sensorRx # <<>>
    /\ sensorThread' = "busy"
    /\ UNCHANGED <<library, http, httpRx, httpTx, task, sensorRx, sensors, answer, replies>>

Received(msgs) ==
    /\ sensorThread = "busy"
    /\ sensorRx # <<>>
    /\ Head(sensorRx) \in msgs
    /\ sensorRx' = Tail(sensorRx)

HandleWrite ==
    \E s \in Configured :
        /\ Received({[cmd |-> "write", sensor |-> s]})
        /\ sensors' = [sensors EXCEPT ![s] = @ + 1]
        /\ UNCHANGED <<library, http, httpRx, httpTx, task, sensorThread, answer, replies>>

GetFirstSample(internalId) ==
    IF internalId \in Configured
    THEN [sensor |-> internalId, measured |-> 0]
    ELSE DefaultSensor

GetSensor(internalId) ==
    IF internalId \in Configured
    THEN [sensor |-> internalId, measured |-> sensors[internalId]]
    ELSE DefaultSensor

(* ReadWithDirectAnswer: the answer is pushed from this thread.            *)
HandleRead ==
    \E m \in Reads :
        /\ Received({m})
        /\ answer' = [job |-> "answer", id |-> m.id, data |-> GetSensor(m.sensor)]
        /\ sensorThread' = "answering"
        /\ UNCHANGED <<library, http, httpRx, httpTx, task, sensors, replies>>

AnswerIfIdle ==
    /\ sensorThread = "answering"
    /\ httpRx' = IF httpThread = "idle" THEN Append(httpRx, answer) ELSE httpRx
    /\ sensorThread' = "busy"
    /\ UNCHANGED <<library, http, httpTx, task, sensors, answer, sensorRx, replies>>

Answer ==
    /\ sensorThread = "answering"
    /\ PushToHttp(answer)
    /\ sensorThread' = "busy"
    /\ UNCHANGED <<library, http, httpTx, task, sensors, answer, sensorRx, replies>>

SensorsDrained ==
    /\ sensorThread = "busy"
    /\ sensorRx = <<>>
    /\ sensorThread' = "idle"
    /\ UNCHANGED <<library, http, httpRx, httpTx, task, sensorRx, sensors, answer, replies>>

-----------------------------------------------------------------------------
HttpThread ==
    \/ WakeHttp \/ HandleIncomingRequest \/ IgnoreRequest \/ Reply
    \/ StartCallback \/ PopTask \/ WaitEnds \/ CallbackEnds \/ HttpDrained

SensorThread == WakeSensors \/ HandleWrite \/ HandleRead \/ SensorsDrained

Next ==
    \/ \E r \in Requests : Arrive(r) \/ get(r) \/ ReplyEnds(r)
    \/ Timer \/ Route \/ Measurement
    \/ HttpThread \/ SensorThread \/ Answer

Spec == Init /\ [][Next]_vars

(* The runtimes run, a reply ends, and whoever waits for a mutex that is   *)
(* free again and again gets it (strong fairness).  No request and no      *)
(* measurement has to come.                                                *)
Fairness ==
    /\ WF_vars(HttpThread) /\ WF_vars(SensorThread)
    /\ SF_vars(Answer) /\ SF_vars(Route) /\ SF_vars(Timer)
    /\ \A r \in Requests : SF_vars(get(r)) /\ WF_vars(ReplyEnds(r))

FairSpec == Spec /\ Fairness

-----------------------------------------------------------------------------
(* Properties *)

(* Types, and: only the thread that waits has a reply to wait for.         *)
TypeOK ==
    /\ query \in [Requests -> Queries \cup {None}]
    /\ inGet \in SUBSET Requests
    /\ httpThread \in {"idle", "busy", "callback", "waiting"}
    /\ httpRx \in Seq(Gets \cup Answers \cup Callbacks)
    /\ httpTx \in Seq(Reads)
    /\ requestId \in 1..(Cardinality(Requests) + 1)
    /\ requestMap \in [RequestIds -> Requests \cup {None}]
    /\ taskQueue \in Seq(Requests)
    /\ waitsFor \in Requests \cup {None}
    /\ waitsFor # None <=> httpThread = "waiting"
    /\ task \in [Requests -> {"none", "pending", "done", "failed"}]
    /\ sensorThread \in {"idle", "busy", "answering"}
    /\ sensorRx \in Seq(Reads \cup Writes)
    /\ sensors \in [Configured -> 0..MaxUpdates]
    /\ answer \in Answers
    /\ since \in [Requests -> [Configured -> 0..MaxUpdates]]
    /\ replies \in Seq([request : Requests, data : SensorData])

(* "register request, to ensure that we only make one response"            *)
(* (HTTPManager.cpp:80): a second reply to an http_request throws.         *)
OneReply ==
    \A i, j \in DOMAIN replies : replies[i].request = replies[j].request => i = j

(* Answers find their way back by the id of the request alone: a reply     *)
(* carries the sensor its own request asked for, the default sensor if     *)
(* there is none such.                                                     *)
RightSensor ==
    \A i \in DOMAIN replies : replies[i].data.sensor = query[replies[i].request]

(* Requests and replies match, by a number that is all they share.         *)
OneRightReply == OneReply /\ RightSensor

(* A reply is no older than its request: what SensorManager had stored     *)
(* when the request came is in it, or newer.                               *)
Fresh ==
    \A i \in DOMAIN replies :
        LET r == replies[i].request
            d == replies[i].data
        IN  d.sensor \in Configured => d.measured >= since[r][d.sensor]

(* m_Map has no entry whose answer is not on its way: nothing would ever   *)
(* remove it ("mark it handled by removing", HTTPManager.cpp:55).          *)
OnItsWay(id) ==
    \/ \E i \in DOMAIN httpTx : httpTx[i].id = id
    \/ \E i \in DOMAIN sensorRx : sensorRx[i].cmd = "read" /\ sensorRx[i].id = id
    \/ sensorThread = "answering" /\ answer.id = id
    \/ \E i \in DOMAIN httpRx : httpRx[i].job = "answer" /\ httpRx[i].id = id

NoEntryForgotten == \A id \in RequestIds : requestMap[id] # None => OnItsWay(id)

(* Every request for a sensor gets its reply, although the library's       *)
(* threads, the router and the two managers wait for each other's mutex.   *)
Replied(r) == \E i \in DOMAIN replies : replies[i].request = r

AllReplied ==
    \A r \in Requests : query[r] \in Configured \cup {Unknown} ~> Replied(r)

(* No reply task stays in the queue for good, failed replies or not.       *)
TasksReaped ==
    \A r \in Requests : Replied(r) ~> \A i \in DOMAIN taskQueue : taskQueue[i] # r

(* From the request to the end of its reply's task.                        *)
RequestsEnd == AllReplied /\ TasksReaped
=============================================================================
