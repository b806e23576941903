---------------------------- MODULE TeslaManager ----------------------------
(***************************************************************************)
(* TeslaManager: how often the state of a car is read from the website of  *)
(* its maker.                                                              *)
(*                                                                         *)
(* Callback, once a second in the thread of the runtime, goes one step of  *)
(* a state machine. A step that wants to wait arms a one-shot timer, whose *)
(* function runs in a thread of its own, sets the next state there and,    *)
(* while the car sleeps, reads the website itself and wakes the car.       *)
(*                                                                         *)
(* make_unique starts the new timer's thread; the assignment to            *)
(* m_OneShotTimer then joins the old one's; only then is m_State set to    *)
(* WaitForStateChange, which the function of the new timer must follow.    *)
(*                                                                         *)
(* HandleMessage, in the thread of the runtime as well, answers with the   *)
(* data that was read last and changes nothing.                            *)
(***************************************************************************)
EXTENDS Naturals

CONSTANTS RetryWakeUps,   (* m_RetryWakeUps                                *)
          MaxRate         (* m_maxSlowingRateForVerySlowReads              *)

ASSUME TeslaAssumption ==
    /\ RetryWakeUps \in Nat
    /\ MaxRate \in Nat \ {0}

ReaderStates == {"CheckState", "CarIsAwake", "CarIsAwakeAndDriving",
                 "CarIsAwakeAndCharging", "EnterCarIsSleepingMode",
                 "CarIsSleeping", "WaitForStateChange"}

(* A OneShotTimer: its function only sets CheckState, or wakes the car.    *)
OneShotTimer == [function : {"check", "wake"},
                 at : {"sleeping", "reading", "waking", "returning", "ended"},
                 tries : 0..RetryWakeUps]

VARIABLES
    m_State,
    m_Rate,
    m_OneShotTimer,   (* the timer, or the one that replaces it            *)
    replaced,         (* the timer that is being joined                    *)
    callback,         (* the runtime's thread: "idle", "reading", "joining"*)
    driving,          (* static in isCarDriving                            *)
    terminated        (* an exception left the thread of a timer           *)

machine == <<m_State, m_Rate>>
timers == <<m_OneShotTimer, replaced>>
teslaVars == <<machine, timers, callback, driving, terminated>>

NoTimer == [function |-> "check", at |-> "ended", tries |-> 0]

TeslaInit ==
    /\ m_State = "CheckState"
    /\ m_Rate = 1
    /\ m_OneShotTimer = NoTimer
    /\ replaced = NoTimer
    /\ callback = "idle"
    /\ driving = FALSE
    /\ terminated = FALSE

CallbackIn(state) == ~terminated /\ callback = "idle" /\ m_State = state

(* ReadDataFromTeslaWebsite ends with the data of a car, with a null       *)
(* response, or with an exception: no connection, or not the JSON expected.*)
Cars == [speed : {"zero", "moving"}, current : {"zero", "charging"}]

-----------------------------------------------------------------------------
(* The thread of the runtime: Callback *)

ReadBegins ==
    /\ CallbackIn("CheckState")
    /\ callback' = "reading"
    /\ UNCHANGED <<machine, timers, driving, terminated>>

(* A car that stands still has been driving until the timeout, which has   *)
(* passed or not.                                                          *)
isCarDriving(car, timeout) == car.speed = "moving" \/ (driving /\ ~timeout)

isCarCharging(car) == car.current = "charging"

ReadData ==
    /\ ~terminated
    /\ callback = "reading"
    /\ \E car \in Cars, timeout \in BOOLEAN :
        /\ driving' = isCarDriving(car, timeout)
        /\ m_State' = IF driving' THEN "CarIsAwakeAndDriving"
                      ELSE IF isCarCharging(car) THEN "CarIsAwakeAndCharging"
                      ELSE "CarIsAwake"
    /\ callback' = "idle"
    /\ UNCHANGED <<m_Rate, timers, terminated>>

ReadNothing ==
    /\ ~terminated
    /\ callback = "reading"
    /\ m_State' = "EnterCarIsSleepingMode"
    /\ callback' = "idle"
    /\ UNCHANGED <<m_Rate, timers, driving, terminated>>

(* make_unique, and the assignment that joins the old thread.              *)
Arm(function) ==
    /\ m_OneShotTimer' = [function |-> function, at |-> "sleeping", tries |-> 0]
    /\ replaced' = m_OneShotTimer
    /\ callback' = "joining"

(* The exception is caught, and the next check is far away.                *)
ReadThrows ==
    /\ ~terminated
    /\ callback = "reading"
    /\ Arm("check")
    /\ UNCHANGED <<machine, driving, terminated>>

CarIsAwake ==
    /\ CallbackIn("CarIsAwake")
    /\ m_State' = "EnterCarIsSleepingMode"
    /\ UNCHANGED <<m_Rate, timers, callback, driving, terminated>>

CarIsAwakeAndDriving ==
    /\ CallbackIn("CarIsAwakeAndDriving")
    /\ Arm("check")
    /\ UNCHANGED <<machine, driving, terminated>>

CarIsAwakeAndCharging ==
    /\ CallbackIn("CarIsAwakeAndCharging")
    /\ Arm("check")
    /\ UNCHANGED <<machine, driving, terminated>>

EnterCarIsSleepingMode ==
    /\ CallbackIn("EnterCarIsSleepingMode")
    /\ m_Rate' = 1
    /\ m_State' = "CarIsSleeping"
    /\ UNCHANGED <<timers, callback, driving, terminated>>

CarIsSleeping ==
    /\ CallbackIn("CarIsSleeping")
    /\ Arm("wake")
    /\ UNCHANGED <<machine, driving, terminated>>

Joined ==
    /\ ~terminated
    /\ callback = "joining"
    /\ replaced.at = "ended"
    /\ replaced' = NoTimer
    /\ m_State' = "WaitForStateChange"
    /\ callback' = "idle"
    /\ UNCHANGED <<m_Rate, m_OneShotTimer, driving, terminated>>

-----------------------------------------------------------------------------
(* The threads of the timers. The last thing a timer's function does is to *)
(* set m_State; its thread may still be there when it is replaced.         *)

AtTimer(function, at) ==
    /\ ~terminated
    /\ m_OneShotTimer.function = function
    /\ m_OneShotTimer.at = at

TimerGoesTo(at) ==
    /\ m_OneShotTimer' = [m_OneShotTimer EXCEPT !.at = at]
    /\ UNCHANGED replaced

SetCheckState ==
    /\ TimerGoesTo("returning")
    /\ m_State' = "CheckState"

AnyPeriodPassed == TRUE

(* The periods are configured in seconds and are taken as positive, long   *)
(* enough for Callback to join a thread that is returning: a period of 0   *)
(* could end before m_State is set to WaitForStateChange.                  *)
PeriodPassed == callback # "joining"

CheckTimer ==
    /\ AtTimer("check", "sleeping")
    /\ PeriodPassed
    /\ SetCheckState
    /\ UNCHANGED <<m_Rate, callback, driving, terminated>>

WakeTimer ==
    /\ AtTimer("wake", "sleeping")
    /\ PeriodPassed
    /\ TimerGoesTo("reading")
    /\ UNCHANGED <<machine, callback, driving, terminated>>

CarIsFoundAwake ==
    /\ AtTimer("wake", "reading")
    /\ SetCheckState
    /\ UNCHANGED <<m_Rate, callback, driving, terminated>>

StateBeforeWakeUp ==
    /\ AtTimer("wake", "reading")
    /\ TimerGoesTo("waking")
    /\ m_State' = "CheckState"
    /\ UNCHANGED <<m_Rate, callback, driving, terminated>>

CarIsFoundAsleep ==
    /\ AtTimer("wake", "reading")
    /\ TimerGoesTo("waking")
    /\ UNCHANGED <<machine, callback, driving, terminated>>

(* post("wake_up") answers that the car is online.                         *)
CarWakes ==
    /\ AtTimer("wake", "waking")
    /\ m_OneShotTimer.tries < RetryWakeUps
    /\ SetCheckState
    /\ m_Rate' = IF m_Rate + 1 >= MaxRate THEN MaxRate ELSE m_Rate + 1
    /\ UNCHANGED <<callback, driving, terminated>>

StaysAsleepOnceMore ==
    /\ AtTimer("wake", "waking")
    /\ m_OneShotTimer.tries <= RetryWakeUps
    /\ m_OneShotTimer' = [m_OneShotTimer EXCEPT !.tries = @ + 1]
    /\ UNCHANGED <<machine, replaced, callback, driving, terminated>>

CarStaysAsleep ==
    /\ AtTimer("wake", "waking")
    /\ m_OneShotTimer.tries < RetryWakeUps
    /\ m_OneShotTimer' = [m_OneShotTimer EXCEPT !.tries = @ + 1]
    /\ UNCHANGED <<machine, replaced, callback, driving, terminated>>

GiveUpInSilence ==
    /\ AtTimer("wake", "waking")
    /\ m_OneShotTimer.tries = RetryWakeUps
    /\ TimerGoesTo("returning")
    /\ UNCHANGED <<machine, callback, driving, terminated>>

GiveUp ==
    /\ AtTimer("wake", "waking")
    /\ m_OneShotTimer.tries = RetryWakeUps
    /\ SetCheckState
    /\ UNCHANGED <<m_Rate, callback, driving, terminated>>

TimerReturns ==
    /\ AtTimer(m_OneShotTimer.function, "returning")
    /\ TimerGoesTo("ended")
    /\ UNCHANGED <<machine, callback, driving, terminated>>

ReplacedReturns ==
    /\ ~terminated
    /\ replaced.at = "returning"
    /\ replaced' = [replaced EXCEPT !.at = "ended"]
    /\ UNCHANGED <<machine, m_OneShotTimer, callback, driving, terminated>>

(* Nothing in the thread of the timer catches what a read, a response that *)
(* is no JSON or a missing field throws: std::terminate.                   *)
TimerThrows ==
    /\ AtTimer("wake", "reading") \/ AtTimer("wake", "waking")
    /\ m_OneShotTimer.at = "waking" => m_OneShotTimer.tries < RetryWakeUps
    /\ terminated' = TRUE
    /\ UNCHANGED <<machine, timers, callback, driving>>

TeslaCallback ==
    \/ ReadBegins \/ ReadData \/ ReadNothing \/ ReadThrows
    \/ CarIsAwake \/ CarIsAwakeAndDriving \/ CarIsAwakeAndCharging
    \/ EnterCarIsSleepingMode \/ CarIsSleeping
    \/ Joined

Timer ==
    \/ CheckTimer \/ WakeTimer
    \/ CarIsFoundAwake \/ CarIsFoundAsleep
    \/ CarWakes \/ CarStaysAsleep \/ GiveUp
    \/ TimerReturns \/ ReplacedReturns
    \/ TimerThrows

TeslaNext == TeslaCallback \/ Timer

TeslaSpec == TeslaInit /\ [][TeslaNext]_teslaVars

(* The callback comes every second, the timer's thread runs, and requests  *)
(* end, one way or another.                                                *)
TeslaFairSpec == TeslaSpec /\ WF_teslaVars(TeslaCallback) /\ WF_teslaVars(Timer)

-----------------------------------------------------------------------------
(* Properties *)

(* States, rate and timers have their types.                               *)
TeslaTypeOK ==
    /\ m_State \in ReaderStates
    /\ m_Rate \in 1..MaxRate
    /\ m_OneShotTimer \in OneShotTimer
    /\ replaced \in OneShotTimer
    /\ callback \in {"idle", "reading", "joining"}
    /\ driving \in BOOLEAN
    /\ terminated \in BOOLEAN

(* Whenever the state machine waits, there is a timer that has yet to set  *)
(* its state: the order of arming, joining and setting m_State never loses *)
(* the change the machine waits for.                                       *)
WaitsForATimer ==
    callback = "idle" /\ m_State = "WaitForStateChange" =>
        m_OneShotTimer.at \in {"sleeping", "reading", "waking"}

(* The connection to the website, which has no lock, and m_State are in    *)
(* the hands of one thread at a time: the timer's function does not run    *)
(* while Callback reads or sets a state.                                   *)
OneThreadAtATime ==
    m_OneShotTimer.at \in {"reading", "waking"} =>
        callback = "idle" /\ m_State = "WaitForStateChange"

(* The car is read again and again, whatever the website answers and       *)
(* whether the car sleeps, drives or charges, as long as no exception ends *)
(* the program.                                                            *)
KeepsReading == []<>(callback = "reading" \/ terminated)

=============================================================================
