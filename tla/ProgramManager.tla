--------------------------- MODULE ProgramManager ---------------------------
(***************************************************************************)
(* The life of the program: main() builds the managers one after the       *)
(* other, each of which registers a Thread with a handler and a timer of   *)
(* its own; runs the main loop; after Ctrl-C destroys the managers in      *)
(* reverse order and then, as a member built before them, the list of      *)
(* Threads.                                                                *)
(*                                                                         *)
(* A Thread is in m_Threads from RegisterRuntime on, so its timer already  *)
(* calls the manager back while the rest of its members are initialised,   *)
(* and it outlives the manager.  What a call on an object that is not yet  *)
(* or no longer there does is undefined: the program may crash, or go on.  *)
(*                                                                         *)
(* As in MessageBus the mutex of a Thread is free exactly when its handler *)
(* waits or has ended; the handler is seen inside the manager as well, and *)
(* only the kind of an entry in m_RxQueue is kept:                         *)
(*   run              of the timer, to call Callback;                      *)
(*   message, read    of the router; a read is to be answered directly;    *)
(*   request          of a thread of the HTTP library, in HTTPManager::get;*)
(*   answer           of the handler of the manager that was read from;    *)
(*   end              of ~Thread.                                          *)
(* The configuration is read before all this (module Configuration), the   *)
(* sockets open and close in their own modules.                            *)
(***************************************************************************)
EXTENDS Integers, Sequences

CONSTANTS M,           (* managers, numbered in the order they are built    *)
          StopsTimer,  (* those whose destructor calls Stop                 *)
          UsesLater,   (* those whose Callback uses members that are        *)
                       (* initialised after RegisterRuntime was called      *)
          Readers,     (* the one that is called by the HTTP library and    *)
                       (* reads from others, HTTPManager, if it is there    *)
          Answerers,   (* those whose handler pushes the answer to a read   *)
                       (* into the queue of the reader: SensorManager       *)
          MaxWaiting   (* bound: entries waiting in one m_RxQueue           *)

Managers == 1..M

ASSUME MAssumption == M \in Nat \ {0}
ASSUME SubsetAssumption == StopsTimer \subseteq Managers /\ UsesLater \subseteq Managers
ASSUME ReadersAssumption ==
    /\ Readers \subseteq Managers
    /\ \A i, j \in Readers : i = j
    /\ Answerers \subseteq Managers \ Readers
    /\ Answerers # {} => Readers # {}
ASSUME WaitingAssumption == MaxWaiting \in Nat \ {0}

VARIABLES
    main,      (* where the main thread stands                             *)
    at,        (* the manager it is building, pushing to or destroying     *)
    m_Run,     (* ProgramManager::m_Run                                    *)
    rx,        (* rx[i]: what waits in the m_RxQueue of manager i's Thread *)
    handler,   (* handler[i]: where HandleNewMessage stands                *)
    ending,    (* ending[i]: Thread::m_Run is false                        *)
    timer,     (* timer[i]: where the timer thread stands                  *)
    m_StopThread  (* m_StopThread[i]: the timer has been told to stop      *)

threads == <<rx, handler, ending, timer, m_StopThread>>
programVars == <<main, at, m_Run, rx, handler, ending, timer, m_StopThread>>

QueueEntries == {"run", "message", "read", "request", "answer", "end"}

Over == main \in {"crashed", "terminated"}

ProgramInit ==
    /\ main = "registering"
    /\ at = 1
    /\ m_Run = TRUE
    /\ rx = [i \in Managers |-> <<>>]
    /\ handler = [i \in Managers |-> "none"]
    /\ ending = [i \in Managers |-> FALSE]
    /\ timer = [i \in Managers |-> "none"]
    /\ m_StopThread = [i \in Managers |-> FALSE]

(* The constructor of i has returned, its destructor has not yet run.      *)
UnderConstruction(i) == main \in {"registering", "building"} /\ i >= at

Destroyed(i) ==
    \/ main \in {"unlisting", "lastJoin", "terminated"}
    \/ main \in {"stopping", "joining"} /\ i > at

(* HandleNewMessage holds it from one entry to the last one waiting.       *)
MutexFree(i) == handler[i] \in {"waiting", "ended"}

Push(i, entry) == rx' = [rx EXCEPT ![i] = Append(@, entry)]

-----------------------------------------------------------------------------
(* The timer and the handler thread of a manager *)

TimerCallback(i) ==
    /\ ~Over
    /\ timer[i] = "calling"
    /\ MutexFree(i)
    /\ Len(rx[i]) < MaxWaiting
    /\ Push(i, "run")
    /\ timer' = [timer EXCEPT ![i] = "sleeping"]
    /\ UNCHANGED <<main, at, m_Run, handler, ending, m_StopThread>>

TimerNeverLooks(i) ==
    /\ ~Over
    /\ timer[i] = "sleeping"
    /\ timer' = [timer EXCEPT ![i] = "calling"]
    /\ UNCHANGED <<main, at, m_Run, rx, handler, ending, m_StopThread>>

(* The period is over: while (!m_StopThread).                              *)
TimerWakes(i) ==
    /\ ~Over
    /\ timer[i] = "sleeping"
    /\ timer' = [timer EXCEPT ![i] = IF m_StopThread[i] THEN "ended"
                                     ELSE "calling"]
    /\ UNCHANGED <<main, at, m_Run, rx, handler, ending, m_StopThread>>

WakeHandler(i) ==
    /\ ~Over
    /\ handler[i] = "waiting"
    /\ rx[i] # <<>>
    /\ handler' = [handler EXCEPT ![i] = "draining"]
    /\ UNCHANGED <<main, at, m_Run, rx, ending, timer, m_StopThread>>

(* One turn of the drain loop, into Callback, into HandleMessage, or into  *)
(* one of the functions of HTTPManager; the entry of ~Thread is handled at *)
(* once.                                                                   *)
HandleNewMessage(i) ==
    /\ ~Over
    /\ handler[i] = "draining"
    /\ rx[i] # <<>>
    /\ LET entry == Head(rx[i])
       IN  /\ handler' = [handler EXCEPT ![i] =
                             CASE entry = "run" -> "inCallback"
                               [] entry = "message" -> "inHandleMessage"
                               [] entry = "read" -> "answering"
                               [] entry \in {"request", "answer"} -> "inFunction"
                               [] OTHER -> "draining"]
           /\ ending' = [ending EXCEPT ![i] = @ \/ entry = "end"]
    /\ rx' = [rx EXCEPT ![i] = Tail(@)]
    /\ UNCHANGED <<main, at, m_Run, timer, m_StopThread>>

InManager(i) ==
    handler[i] \in {"inCallback", "inHandleMessage", "answering", "inFunction"}

(* A call on a manager that is not there, or whose members are not: the    *)
(* program may crash.                                                      *)
Crash(i) ==
    /\ ~Over
    /\ InManager(i)
    /\ Destroyed(i) \/ (UnderConstruction(i) /\ i \in UsesLater)
    /\ main' = "crashed"
    /\ UNCHANGED <<at, m_Run, threads>>

Return(i) ==
    /\ ~Over
    /\ InManager(i)
    /\ handler[i] # "answering"
    /\ handler' = [handler EXCEPT ![i] = "draining"]
    /\ UNCHANGED <<main, at, m_Run, rx, ending, timer, m_StopThread>>

(* HandleMessage of a read calls the function that came with it: the       *)
(* answer goes straight into the queue of the Thread of the reader, which  *)
(* may have been destroyed; its Thread has not.                            *)
Answer(j) ==
    /\ ~Over
    /\ handler[j] = "answering"
    /\ \E i \in Readers :
           /\ MutexFree(i)
           /\ Len(rx[i]) < MaxWaiting
           /\ Push(i, "answer")
    /\ handler' = [handler EXCEPT ![j] = "draining"]
    /\ UNCHANGED <<main, at, m_Run, ending, timer, m_StopThread>>

(* Pop returned nothing: the mutex is free again, unless the loop ends.    *)
QueueDrained(i) ==
    /\ ~Over
    /\ handler[i] = "draining"
    /\ rx[i] = <<>>
    /\ handler' = [handler EXCEPT ![i] = IF ending[i] THEN "ended"
                                         ELSE "waiting"]
    /\ UNCHANGED <<main, at, m_Run, rx, ending, timer, m_StopThread>>

-----------------------------------------------------------------------------
(* The threads of the HTTP library *)

ServerOutlivesManager(i) ==
    /\ ~Over
    /\ main \in {"registering", "building"} => i < at

(* HTTPServer is built after HTTPManager and destroyed before it, and its  *)
(* destructor waits for the calls that are underway.                       *)
ServerOpen(i) ==
    \/ main \in {"registering", "building"} /\ i < at
    \/ main \in {"running", "routing", "pushing"}
    \/ main = "stopping" /\ i <= at
    \/ main = "joining" /\ i < at

get(i) ==
    /\ ServerOpen(i)
    /\ MutexFree(i)
    /\ Len(rx[i]) < MaxWaiting
    /\ Push(i, "request")
    /\ UNCHANGED <<main, at, m_Run, handler, ending, timer, m_StopThread>>

-----------------------------------------------------------------------------
(* The main thread: construction *)

(* RegisterRuntime, from the initializer list of the manager: the members  *)
(* m_MessageHandlerThread and m_Timer of the new Thread start at once.     *)
RegisterRuntime ==
    /\ main = "registering"
    /\ handler' = [handler EXCEPT ![at] = "waiting"]
    /\ timer' = [timer EXCEPT ![at] = "calling"]
    /\ main' = "building"
    /\ UNCHANGED <<at, m_Run, rx, ending, m_StopThread>>

BuildOneMore ==
    /\ main = "building"
    /\ IF at <= M THEN main' = "registering" /\ at' = at + 1
                  ELSE main' = "running" /\ UNCHANGED at
    /\ UNCHANGED <<m_Run, threads>>

(* The other members and the body of the constructor.  After the last      *)
(* manager main sets g_ProgramManager and calls Run.                       *)
FinishManager ==
    /\ main = "building"
    /\ IF at < M THEN main' = "registering" /\ at' = at + 1
                 ELSE main' = "running" /\ UNCHANGED at
    /\ UNCHANGED <<m_Run, threads>>

-----------------------------------------------------------------------------
(* The main loop *)

(* ConsoleHandler, which is installed under _WIN32 only: elsewhere the     *)
(* signal ends the process where it stands, and no destructor runs.        *)
(* Without g_ProgramManager the signal is lost.                            *)
CtrlC ==
    /\ main \notin {"registering", "building"}
    /\ ~Over
    /\ m_Run' = FALSE
    /\ UNCHANGED <<main, at, threads>>

StartTurn ==
    /\ main = "running"
    /\ m_Run
    /\ main' = "routing"
    /\ UNCHANGED <<at, m_Run, threads>>

(* ProcessMessages has a message for the runtime of i.                     *)
RouteTo(i) ==
    /\ main = "routing"
    /\ Len(rx[i]) < MaxWaiting
    /\ main' = "pushing"
    /\ at' = i
    /\ UNCHANGED <<m_Run, threads>>

Messages(i) == IF i \in Answerers THEN {"message", "read"} ELSE {"message"}

PushMessageToRuntimeHandler ==
    /\ main = "pushing"
    /\ MutexFree(at)
    /\ \E msg \in Messages(at) : Push(at, msg)
    /\ main' = "routing"
    /\ UNCHANGED <<at, m_Run, handler, ending, timer, m_StopThread>>

(* No m_TxQueue holds a message: sleep for a millisecond.                  *)
EndTurn ==
    /\ main = "routing"
    /\ main' = "running"
    /\ UNCHANGED <<at, m_Run, threads>>

LeaveLoop ==
    /\ main = "running"
    /\ ~m_Run
    /\ main' = "stopping"
    /\ at' = M
    /\ UNCHANGED <<m_Run, threads>>

-----------------------------------------------------------------------------
(* Destruction *)

NextDestructor ==
    IF at > 1 THEN main' = "stopping" /\ at' = at - 1
              ELSE main' = "unlisting" /\ UNCHANGED at

(* A destructor that does not call Stop leaves the timer running.          *)
DestroyWithoutStop ==
    /\ main = "stopping"
    /\ at \notin StopsTimer
    /\ NextDestructor
    /\ UNCHANGED <<m_Run, threads>>

(* Timer::Stop: tell the timer thread, ...                                 *)
StopTimer ==
    /\ main = "stopping"
    /\ at \in StopsTimer
    /\ m_StopThread' = [m_StopThread EXCEPT ![at] = TRUE]
    /\ main' = "joining"
    /\ UNCHANGED <<at, m_Run, rx, handler, ending, timer>>

(* ... and wait for its end.                                               *)
JoinTimer ==
    /\ main = "joining"
    /\ timer[at] = "ended"
    /\ NextDestructor
    /\ UNCHANGED <<m_Run, threads>>

(* ~ThreadManager destroys the Threads from the first on.  ~Thread pushes  *)
(* the entry that ends the handler; then its members go, the timer first.  *)
DestroyFirstThread ==
    /\ main = "unlisting"
    /\ MutexFree(1)
    /\ Push(1, "end")
    /\ m_StopThread' = [m_StopThread EXCEPT ![1] = TRUE]
    /\ main' = "lastJoin"
    /\ UNCHANGED <<at, m_Run, handler, ending, timer>>

(* m_MessageHandlerThread is destroyed without having been joined:         *)
(* std::terminate.                                                         *)
Terminate ==
    /\ main = "lastJoin"
    /\ timer[1] = "ended"
    /\ main' = "terminated"
    /\ UNCHANGED <<at, m_Run, threads>>

-----------------------------------------------------------------------------
HandlerThread(i) ==
    \/ WakeHandler(i)
    \/ HandleNewMessage(i)
    \/ Return(i)
    \/ Answer(i)
    \/ QueueDrained(i)

Loop == StartTurn \/ EndTurn \/ LeaveLoop

Main ==
    \/ RegisterRuntime
    \/ FinishManager
    \/ Loop
    \/ \E i \in Managers : RouteTo(i)
    \/ PushMessageToRuntimeHandler
    \/ DestroyWithoutStop
    \/ StopTimer
    \/ JoinTimer
    \/ DestroyFirstThread
    \/ Terminate

ProgramNext ==
    \/ Main
    \/ CtrlC
    \/ \E i \in Readers : get(i)
    \/ \E i \in Managers :
           TimerCallback(i) \/ TimerWakes(i) \/ HandlerThread(i) \/ Crash(i)

ProgramSpec == ProgramInit /\ [][ProgramNext]_programVars

(* The threads run and calls on managers return.  A push, of the timer, of *)
(* main or of an answer, competes for the mutex with the handler, which    *)
(* takes it again and again, and gets it in the end.  Managers do not send *)
(* without a pause, so a turn of the main loop ends; nobody has to press   *)
(* Ctrl-C or to send a request.                                            *)
ProgramFairness ==
    /\ WF_programVars(RegisterRuntime \/ FinishManager)
    /\ SF_programVars(EndTurn)
    /\ WF_programVars(StartTurn \/ LeaveLoop)
    /\ SF_programVars(PushMessageToRuntimeHandler)
    /\ WF_programVars(DestroyWithoutStop \/ StopTimer \/ JoinTimer \/ Terminate)
    /\ SF_programVars(DestroyFirstThread)
    /\ \A i \in Managers :
           /\ SF_programVars(TimerCallback(i))
           /\ WF_programVars(TimerWakes(i))
           /\ WF_programVars(HandlerThread(i))
    /\ \A j \in Answerers : SF_programVars(Answer(j))

ProgramFairSpec == ProgramSpec /\ ProgramFairness

-----------------------------------------------------------------------------
(* Properties *)

(* Types of main's position and of the state of every Thread.              *)
ProgramTypeOK ==
    /\ main \in {"registering", "building", "running", "routing", "pushing",
                 "stopping", "joining", "unlisting", "lastJoin", "crashed",
                 "terminated"}
    /\ at \in Managers
    /\ m_Run \in BOOLEAN
    /\ rx \in [Managers -> Seq(QueueEntries)]
    /\ handler \in [Managers -> {"none", "waiting", "draining", "inCallback",
                                 "inHandleMessage", "answering", "inFunction",
                                 "ended"}]
    /\ ending \in [Managers -> BOOLEAN]
    /\ timer \in [Managers -> {"none", "calling", "sleeping", "ended"}]
    /\ m_StopThread \in [Managers -> BOOLEAN]

Takes(i) == rx[i] # <<>> /\ rx'[i] = Tail(rx[i])
Gets(i, entry) == rx'[i] = Append(rx[i], entry)

(* What may still happen to the queue of a destroyed manager: it shrinks,  *)
(* ~Thread ends the first handler, or somebody who was asked answers.      *)
LeftAlone(i) ==
    rx'[i] # rx[i] =>
        \/ Takes(i)
        \/ i = 1 /\ Gets(i, "end")
        \/ /\ i \in Readers
           /\ Gets(i, "answer")
           /\ \E j \in Managers :
                  handler[j] = "answering" /\ handler'[j] # "answering"

(* Reads are not put into the queue of j, and each is answered once.       *)
NoNewRead(j) ==
    /\ rx'[j] # rx[j] =>
           Takes(j) \/ \E entry \in QueueEntries \ {"read"} : Gets(j, entry)
    /\ handler'[j] = "answering" /\ handler[j] # "answering" =>
           Takes(j) /\ Head(rx[j]) = "read"

(* What can still be called on a manager that stops its timer, once its    *)
(* destructor is past the join: what waited already, and one answer for    *)
(* each read that was waiting for its answer then.  No timer, no message   *)
(* and no request reaches its queue any more.                              *)
SilentAfterStop ==
    [][\A i \in StopsTimer : Destroyed(i) =>
           LeftAlone(i) /\ \A j \in Managers : NoNewRead(j)]_programVars

(* A timer that is due is heard: its manager is called back, unless the    *)
(* program ends before.  And after Ctrl-C it does end, although main waits *)
(* for the mutex of busy handlers and for timers that wait for the same    *)
(* mutex, and a handler that answers waits for that of the reader.         *)
CalledBackUntilStopped ==
    /\ \A i \in Managers :
           timer[i] = "calling" ~> handler[i] = "inCallback" \/ Over
    /\ ~m_Run ~> Over
=============================================================================
