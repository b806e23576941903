--------------------------- MODULE ManagersProofs ---------------------------
(***************************************************************************)
(* Three modules about managers, their threads and their timers, for every *)
(* value of their constants.  They have no name in common and no step of   *)
(* one is a step of another: what is said here is said of each alone.      *)
(*                                                                         *)
(* ScheduleManager: every entry fires once in its minute, every day, for   *)
(* any entries, offsets and length of the day.                             *)
(*                                                                         *)
(* TeslaManager: the state machine and the timer it waits for never lose   *)
(* each other, and only one of the two threads is at work.                 *)
(*                                                                         *)
(* ProgramManager: the types, and that a manager which has stopped its     *)
(* timer is left alone but for the answers it is still owed, for any       *)
(* number of managers, any choice of those that stop their timers, and     *)
(* whoever it is that reads and answers.                                   *)
(***************************************************************************)
EXTENDS ScheduleManager, TeslaManager, ProgramManager, TLAPS

-----------------------------------------------------------------------------
(* ScheduleManager: the clock *)


(* Quotient and remainder make up the number.                              *)
LEMMA Division ==
    ASSUME NEW t \in Int, NEW m \in Int, m > 0
    PROVE  /\ (t \div m) \in Int
           /\ (t % m) \in 0..(m - 1)
           /\ t - m * (t \div m) = t % m
<1>1. (t \div m) \in Int /\ (t % m) \in 0..(m - 1)
  BY SMTT(30)
<1>2. t - m * (t \div m) = t % m
  BY SMTT(30)
<1> QED
  BY <1>1, <1>2

(* Two multiples of a number greater than 1 are not neighbours.            *)
LEMMA MultiplesApart ==
    ASSUME NEW a \in Int, NEW b \in Int, NEW m \in Int, NEW r \in Int, m > 1
    PROVE  m * a + r + 1 # m * b + r
<1> SUFFICES ASSUME m * a + r + 1 = m * b + r PROVE FALSE
  OBVIOUS
<1>1. m * (b - a) = 1
  OBVIOUS
<1>2. CASE b - a <= 0
  BY <1>1, <1>2, SMTT(30)
<1>3. CASE b - a >= 1
  BY <1>1, <1>3, SMTT(30)
<1> QED
  BY <1>2, <1>3

(* Modulo a number greater than 1 the successor is another number.         *)
LEMMA SuccessorDiffers ==
    ASSUME NEW t \in Int, NEW m \in Int, m > 1
    PROVE  (t + 1) % m # t % m
<1> DEFINE a == t \div m
           b == (t + 1) \div m
           r == t % m
<1>1. a \in Int /\ b \in Int /\ r \in Int
  BY Division
<1>2. t - m * a = r
  BY Division
<1>3. (t + 1) - m * b = (t + 1) % m
  BY Division
<1>4. SUFFICES ASSUME (t + 1) % m = r PROVE FALSE
  OBVIOUS
<1>5. (t + 1) - m * b = r
  BY <1>3, <1>4
<1> HIDE DEF a, b, r
<1>6. m * a + r + 1 # m * b + r
  BY <1>1, MultiplesApart
<1>7. m * a \in Int /\ m * b \in Int
  BY <1>1
<1> QED
  BY <1>1, <1>2, <1>5, <1>6, <1>7

(* The hour and the minute of a time are on the clock.                     *)
LEMMA OnTheClock ==
    ASSUME NEW t \in Int
    PROVE  HourOf(t) \in Hours /\ MinuteOf(t) \in Minutes
<1>1. (t \div MinutesPerHour) \in Int /\ MinuteOf(t) \in Minutes
  BY ClockAssumption, Division DEF MinuteOf, Minutes
<1>2. ASSUME NEW n \in Int PROVE n % HoursPerDay \in Hours
  BY ClockAssumption, Division DEF Hours
<1>3. HourOf(t) \in Hours
  BY <1>1, <1>2 DEF HourOf
<1> QED
  BY <1>1, <1>3

(* A minute later the clock shows something else.                          *)
LEMMA ClockMoves ==
    ASSUME NEW t \in Int
    PROVE  HourOf(t + 1) # HourOf(t) \/ MinuteOf(t + 1) # MinuteOf(t)
<1> HoursPerDay \in Int /\ MinutesPerHour \in Int
  BY ClockAssumption
<1>1. CASE MinutesPerHour > 1
  BY <1>1, SuccessorDiffers, Zenon DEF MinuteOf
<1>2. CASE MinutesPerHour = 1
  <2>1. HoursPerDay > 1
    BY <1>2, ClockAssumption
  <2>2. ASSUME NEW n \in Int PROVE n \div 1 = n
    <3>1. (n \div 1) \in Int /\ n % 1 \in 0..(1 - 1) /\ n - 1 * (n \div 1) = n % 1
      BY <2>2, 1 \in Int, 1 > 0, Division, Zenon
    <3> QED
      BY <3>1
  <2>3. t \div MinutesPerHour = t /\ (t + 1) \div MinutesPerHour = t + 1
    BY <1>2, <2>2
  <2>4. (t + 1) % HoursPerDay # t % HoursPerDay
    BY <2>1, SuccessorDiffers, Zenon
  <2> QED
    BY <2>3, <2>4 DEF HourOf
<1> QED
  BY <1>1, <1>2, ClockAssumption

(* So an entry is not due for two minutes in a row.                        *)
LEMMA NotTwiceInARow ==
    ASSUME NEW i \in Entries, NEW t \in Int, IsTimeOf(i, t)
    PROVE  ~IsTimeOf(i, t + 1)
BY ClockMoves DEF IsTimeOf

(* What Callback compares is whether it is the time of the entry.          *)
LEMMA DueAtItsTime ==
    ASSUME TypeOK, NEW i \in Entries
    PROVE  IsDue(m_Schedules[i]) <=> IsTimeOf(i, now)
<1>1. now \in Int
  BY DEF TypeOK
<1>2. HourOf(now) \in Hours
  BY <1>1, OnTheClock
<1> QED
  BY <1>2 DEF IsDue, IsTimeOf, ConvertHoursToMyTimezone

-----------------------------------------------------------------------------
(* ScheduleManager: histories *)

(* Appending a number greater than all of an increasing sequence leaves it *)
(* increasing and adds the number to its range.                            *)
Increasing(s) == \A j, k \in DOMAIN s : j < k => s[j] < s[k]

LEMMA AppendGreater ==
    ASSUME NEW S, S \subseteq Nat, NEW s \in Seq(S), NEW n \in Nat,
           Increasing(s), \A t \in Range(s) : t < n
    PROVE  /\ Range(Append(s, n)) = Range(s) \cup {n}
           /\ Increasing(Append(s, n))
<1> DEFINE a == Append(s, n)
<1>1. /\ DOMAIN s = 1..Len(s)
      /\ Len(s) \in Nat
      /\ DOMAIN a = 1..(Len(s) + 1)
      /\ a[Len(s) + 1] = n
      /\ \A j \in 1..Len(s) : a[j] = s[j]
  OBVIOUS
<1>2. \A j \in 1..Len(s) : s[j] \in Range(s) /\ s[j] \in Nat
  <2>1. \A j \in 1..Len(s) : s[j] \in S
    OBVIOUS
  <2> QED
    BY <1>1, <2>1 DEF Range
<1> HIDE DEF a
<1>3. DOMAIN a = DOMAIN s \cup {Len(s) + 1}
  BY <1>1
<1>4. Range(a) = Range(s) \cup {n}
  <2>1. Range(a) \subseteq Range(s) \cup {n}
    BY <1>1, <1>3 DEF Range
  <2>2. Range(s) \subseteq Range(a)
    BY <1>1, <1>3 DEF Range
  <2>3. n \in Range(a)
    BY <1>1, <1>3 DEF Range
  <2> QED
    BY <2>1, <2>2, <2>3
<1>5. ASSUME NEW j \in DOMAIN a, NEW k \in DOMAIN a, j < k PROVE a[j] < a[k]
  <2>1. j \in 1..Len(s)
    BY <1>1, <1>5
  <2>2. CASE k \in 1..Len(s)
    BY <1>1, <1>5, <2>1, <2>2 DEF Increasing
  <2>3. CASE k = Len(s) + 1
    <3>1. a[j] = s[j] /\ a[k] = n
      BY <1>1, <2>1, <2>3
    <3>2. s[j] < n
      BY <1>2, <2>1
    <3> QED
      BY <3>1, <3>2
  <2> QED
    BY <1>1, <2>2, <2>3
<1>6. Increasing(a)
  BY <1>5 DEF Increasing
<1> QED
  BY <1>4, <1>6 DEF a

-----------------------------------------------------------------------------
(* ScheduleManager: the inductive invariant *)

(* m_Handled tells whether this is the minute of the entry; before the     *)
(* first callback in a minute, it may still tell so of the last one.       *)
HandledInItsMinute ==
    \A i \in Entries :
        /\ polls > 0 => (m_Schedules[i].m_Handled <=> IsTimeOf(i, now))
        /\ polls = 0 /\ m_Schedules[i].m_Handled => IsTimeOf(i, now - 1)

ScheduleInv == TypeOK /\ HandledInItsMinute /\ FiresOncePerDay

(* Nothing is due or handled before the first callback.                    *)
LEMMA ScheduleInit == Init => ScheduleInv
<1> SUFFICES ASSUME Init PROVE ScheduleInv
  OBVIOUS
<1>1. TypeOK
  <2>1. 0 \in 0..LastMinute /\ 0 \in 0..PollsPerMinute
    BY ConfigurationAssumption, ClockAssumption
  <2>2. fired \in [Entries -> Seq(0..LastMinute)]
    BY DEF Init
  <2> QED
    BY <2>1, <2>2 DEF Init, TypeOK
<1>2. HandledInItsMinute
  BY DEF Init, HandledInItsMinute
<1>3. FiresOncePerDay
  <2> SUFFICES ASSUME NEW i \in Entries
               PROVE  /\ Range(fired[i]) =
                            {t \in 0..now : IsTimeOf(i, t) /\ (t < now \/ polls > 0)}
                      /\ \A j, k \in DOMAIN fired[i] : j < k => fired[i][j] < fired[i][k]
    BY DEF FiresOncePerDay
  <2>1. fired[i] = <<>> /\ now = 0 /\ polls = 0
    BY DEF Init
  <2>2. Range(fired[i]) = {} /\ DOMAIN fired[i] = {}
    BY <2>1 DEF Range
  <2>3. {t \in 0..now : IsTimeOf(i, t) /\ (t < now \/ polls > 0)} = {}
    BY <2>1
  <2> QED
    BY <2>2, <2>3
<1> QED
  BY <1>1, <1>2, <1>3 DEF ScheduleInv

(* A callback handles the entries that are due and forgets that it did     *)
(* when they no longer are.                                                *)
LEMMA ScheduleCallback == ScheduleInv /\ Callback => ScheduleInv'
<1> SUFFICES ASSUME ScheduleInv, Callback PROVE ScheduleInv'
  OBVIOUS
<1> USE DEF ScheduleInv
<1>1. /\ now \in 0..LastMinute /\ now \in Nat /\ polls \in Nat
      /\ polls' = polls + 1 /\ polls' \in 0..PollsPerMinute
      /\ now' = now /\ m_UTCOffset' = m_UTCOffset
  BY ConfigurationAssumption, ClockAssumption DEF TypeOK, Callback
<1>2. ASSUME NEW i \in Entries
      PROVE  /\ m_Schedules'[i] \in Schedule
             /\ m_Schedules'[i].m_StartHours = m_Schedules[i].m_StartHours
             /\ m_Schedules'[i].m_StartMinutes = m_Schedules[i].m_StartMinutes
             /\ m_Schedules'[i].m_Handled = IsDue(m_Schedules[i])
  <2>1. m_Schedules[i] \in Schedule
    BY DEF TypeOK
  <2>2. m_Schedules'[i] = [m_Schedules[i] EXCEPT !.m_Handled = IsDue(m_Schedules[i])]
    BY DEF Callback
  <2>3. IsDue(m_Schedules[i]) \in BOOLEAN
    BY DEF IsDue
  <2> QED
    BY <2>1, <2>2, <2>3, Zenon DEF Schedule
<1>3. ASSUME NEW i \in Entries, NEW t \in Int PROVE IsTimeOf(i, t)' <=> IsTimeOf(i, t)
  BY <1>1, <1>2 DEF IsTimeOf
<1>4. ASSUME NEW i \in Entries PROVE IsDue(m_Schedules[i]) <=> IsTimeOf(i, now)
  BY DueAtItsTime
<1>5. ASSUME NEW i \in Entries
      PROVE  /\ fired'[i] \in Seq(0..LastMinute)
             /\ Range(fired'[i]) = {t \in 0..now : IsTimeOf(i, t)}
             /\ Increasing(fired'[i])
  <2>1. /\ fired[i] \in Seq(0..LastMinute)
        /\ Range(fired[i]) = {t \in 0..now : IsTimeOf(i, t) /\ (t < now \/ polls > 0)}
        /\ Increasing(fired[i])
    BY DEF TypeOK, FiresOncePerDay, Increasing
  <2>2. fired'[i] = IF IsDue(m_Schedules[i]) THEN HandleSchedulerEvent(i) ELSE fired[i]
    BY DEF Callback
  <2>3. CASE IsDue(m_Schedules[i]) /\ ~m_Schedules[i].m_Handled
    <3>1. fired'[i] = Append(fired[i], now)
      BY <2>2, <2>3 DEF HandleSchedulerEvent
    <3>2. polls = 0 /\ IsTimeOf(i, now)
      BY <1>1, <1>4, <2>3 DEF HandledInItsMinute
    <3>3. \A t \in Range(fired[i]) : t < now
      BY <1>1, <2>1, <3>2
    <3>4. 0..LastMinute \subseteq Nat
      OBVIOUS
    <3>5. Range(fired'[i]) = Range(fired[i]) \cup {now} /\ Increasing(fired'[i])
      BY <1>1, <2>1, <3>1, <3>3, <3>4, AppendGreater
    <3>6. Range(fired'[i]) = {t \in 0..now : IsTimeOf(i, t)}
      BY <1>1, <2>1, <3>2, <3>5
    <3>7. fired'[i] \in Seq(0..LastMinute)
      BY <1>1, <2>1, <3>1
    <3> QED
      BY <3>5, <3>6, <3>7
  <2>4. CASE ~(IsDue(m_Schedules[i]) /\ ~m_Schedules[i].m_Handled)
    <3>1. fired'[i] = fired[i]
      BY <2>2, <2>4 DEF HandleSchedulerEvent
    <3>2. polls = 0 => ~IsTimeOf(i, now)
      <4> SUFFICES ASSUME polls = 0, IsTimeOf(i, now) PROVE FALSE
        OBVIOUS
      <4>1. IsTimeOf(i, now - 1)
        BY <1>4, <2>4 DEF HandledInItsMinute
      <4>2. now - 1 \in Int /\ (now - 1) + 1 = now
        BY <1>1
      <4>3. ~IsTimeOf(i, (now - 1) + 1)
        BY <4>1, <4>2, NotTwiceInARow, Zenon
      <4> QED
        BY <4>2, <4>3
    <3>3. Range(fired[i]) = {t \in 0..now : IsTimeOf(i, t)}
      BY <1>1, <2>1, <3>2
    <3> QED
      BY <2>1, <3>1, <3>3
  <2> QED
    BY <2>3, <2>4
<1>6. TypeOK'
  <2>1. m_Schedules' \in [Entries -> Schedule]
    BY <1>2, Zenon DEF Callback
  <2>2. fired' \in [Entries -> Seq(0..LastMinute)]
    BY <1>5, Zenon DEF Callback
  <2> QED
    BY <1>1, <2>1, <2>2 DEF TypeOK
<1>7. HandledInItsMinute'
  BY <1>1, <1>2, <1>3, <1>4 DEF HandledInItsMinute
<1>8. FiresOncePerDay'
  <2> SUFFICES ASSUME NEW i \in Entries
               PROVE  /\ Range(fired'[i]) =
                            {t \in 0..now' : IsTimeOf(i, t)' /\ (t < now' \/ polls' > 0)}
                      /\ Increasing(fired'[i])
    BY DEF FiresOncePerDay, Increasing
  <2>1. {t \in 0..now' : IsTimeOf(i, t)' /\ (t < now' \/ polls' > 0)}
            = {t \in 0..now : IsTimeOf(i, t)}
    BY <1>1, <1>3
  <2> QED
    BY <1>5, <2>1
<1> QED
  BY <1>6, <1>7, <1>8

(* In the next minute nothing is due that has not been seen.               *)
LEMMA ScheduleMinute == ScheduleInv /\ Minute => ScheduleInv'
<1> SUFFICES ASSUME ScheduleInv, Minute PROVE ScheduleInv'
  OBVIOUS
<1> USE DEF ScheduleInv
<1>1. /\ now \in Nat /\ polls \in Nat /\ polls > 0
      /\ now' = now + 1 /\ now' \in 0..LastMinute
      /\ polls' = 0 /\ polls' \in 0..PollsPerMinute
      /\ m_Schedules' = m_Schedules /\ m_UTCOffset' = m_UTCOffset /\ fired' = fired
  BY ConfigurationAssumption, ClockAssumption DEF TypeOK, Minute
<1>2. ASSUME NEW i \in Entries, NEW t \in Int PROVE IsTimeOf(i, t)' <=> IsTimeOf(i, t)
  BY <1>1 DEF IsTimeOf
<1>3. TypeOK'
  BY <1>1 DEF TypeOK
<1>4. HandledInItsMinute'
  <2> SUFFICES ASSUME NEW i \in Entries, m_Schedules[i].m_Handled
               PROVE  IsTimeOf(i, now - 1)'
    BY <1>1 DEF HandledInItsMinute
  <2>1. IsTimeOf(i, now)
    BY <1>1 DEF HandledInItsMinute
  <2>2. now' - 1 = now
    BY <1>1
  <2> QED
    BY <1>1, <2>1, <2>2 DEF IsTimeOf
<1>5. FiresOncePerDay'
  <2> SUFFICES ASSUME NEW i \in Entries
               PROVE  /\ Range(fired[i]) =
                            {t \in 0..now' : IsTimeOf(i, t)' /\ (t < now' \/ polls' > 0)}
                      /\ Increasing(fired[i])
    BY <1>1 DEF FiresOncePerDay, Increasing
  <2>1. /\ Range(fired[i]) = {t \in 0..now : IsTimeOf(i, t) /\ (t < now \/ polls > 0)}
        /\ Increasing(fired[i])
    BY DEF FiresOncePerDay, Increasing
  <2>2. {t \in 0..now' : IsTimeOf(i, t)' /\ (t < now' \/ polls' > 0)}
            = {t \in 0..now : IsTimeOf(i, t) /\ (t < now \/ polls > 0)}
    BY <1>1, <1>2
  <2> QED
    BY <2>1, <2>2
<1> QED
  BY <1>3, <1>4, <1>5

-----------------------------------------------------------------------------
(* ScheduleManager: theorems *)

(* m_Handled, the history and the clock belong together in every state.    *)
THEOREM ScheduleInvariance == Spec => []ScheduleInv
<1>1. ScheduleInv /\ UNCHANGED vars => ScheduleInv'
  BY DEF ScheduleInv, TypeOK, HandledInItsMinute, FiresOncePerDay, IsTimeOf, vars
<1>2. ScheduleInv /\ [Next]_vars => ScheduleInv'
  BY <1>1, ScheduleCallback, ScheduleMinute DEF Next
<1> QED
  BY ScheduleInit, <1>2, PTL DEF Spec

(* Entries, clock and history have their types.                            *)
THEOREM ScheduleTypeCorrect == Spec => []TypeOK
<1>1. ScheduleInv => TypeOK
  BY DEF ScheduleInv
<1> QED
  BY <1>1, ScheduleInvariance, PTL

(* An entry fires once in its minute, every day, and at no other time, for *)
(* any number of entries, offset, length of the day and of the hour, and   *)
(* however often Callback is called in a minute.                           *)
THEOREM OncePerDay == Spec => []FiresOncePerDay
<1>1. ScheduleInv => FiresOncePerDay
  BY DEF ScheduleInv
<1> QED
  BY <1>1, ScheduleInvariance, PTL

-----------------------------------------------------------------------------
(* TeslaManager: turns *)

(* The runtime's thread and the timer's take turns. The timer's function   *)
(* has yet to set a state exactly when the machine waits for one; while a  *)
(* timer is being replaced, the new one sleeps and the old one returns.    *)
Turns ==
    /\ callback = "idle" =>
        (m_State = "WaitForStateChange" <=>
            m_OneShotTimer.at \in {"sleeping", "reading", "waking"})
    /\ callback = "reading" =>
        m_State # "WaitForStateChange" /\ m_OneShotTimer.at \in {"returning", "ended"}
    /\ callback = "joining" =>
        m_OneShotTimer.at = "sleeping" /\ replaced.at \in {"returning", "ended"}
    /\ callback # "joining" => replaced.at = "ended"

TeslaInv == TeslaTypeOK /\ Turns

(* Initially there is no timer, and the machine does not wait.             *)
LEMMA TeslaStart == TeslaInit => TeslaInv
<1> SUFFICES ASSUME TeslaInit PROVE TeslaInv
  OBVIOUS
<1>1. NoTimer \in OneShotTimer
  BY TeslaAssumption DEF NoTimer, OneShotTimer
<1>2. 1 \in 1..MaxRate /\ 0 \in 0..MaxRate
  BY TeslaAssumption
<1>3. TeslaTypeOK
  BY <1>1, <1>2, Zenon DEF TeslaInit, TeslaTypeOK, ReaderStates
<1>4. Turns
  BY DEF TeslaInit, Turns, NoTimer
<1> QED
  BY <1>3, <1>4 DEF TeslaInv

(* Every step of the runtime's thread keeps the turns.                     *)
LEMMA CallbackStep == TeslaInv /\ TeslaCallback => TeslaInv'
<1> SUFFICES ASSUME TeslaInv, TeslaCallback PROVE TeslaInv'
  OBVIOUS
<1> USE TeslaAssumption
    DEF TeslaInv, TeslaTypeOK, Turns, NoTimer, OneShotTimer, ReaderStates,
        machine, timers, CallbackIn, Arm
<1>1. CASE ReadBegins
  BY <1>1 DEF ReadBegins
<1>2. CASE ReadData
  <2>1. PICK car \in Cars, timeout \in BOOLEAN : driving' = isCarDriving(car, timeout)
    BY <1>2 DEF ReadData
  <2>2. driving' \in BOOLEAN
    BY <2>1 DEF isCarDriving
  <2>3. m_State' \in {"CarIsAwakeAndDriving", "CarIsAwakeAndCharging", "CarIsAwake"}
    BY <1>2 DEF ReadData
  <2> QED
    BY <1>2, <2>2, <2>3 DEF ReadData
<1>3. CASE ReadNothing
  BY <1>3 DEF ReadNothing
<1>4. CASE ReadThrows
  BY <1>4 DEF ReadThrows
<1>5. CASE CarIsAwake
  BY <1>5 DEF CarIsAwake
<1>6. CASE CarIsAwakeAndDriving
  BY <1>6 DEF CarIsAwakeAndDriving
<1>7. CASE CarIsAwakeAndCharging
  BY <1>7 DEF CarIsAwakeAndCharging
<1>8. CASE EnterCarIsSleepingMode
  BY <1>8 DEF EnterCarIsSleepingMode
<1>9. CASE CarIsSleeping
  <2>1. m_OneShotTimer' \in OneShotTimer /\ replaced' \in OneShotTimer
    BY <1>9 DEF CarIsSleeping
  <2> QED
    BY <1>9, <2>1 DEF CarIsSleeping
<1>10. CASE Joined
  BY <1>10 DEF Joined
<1> QED
  BY <1>1, <1>2, <1>3, <1>4, <1>5, <1>6, <1>7, <1>8, <1>9, <1>10 DEF TeslaCallback

(* Every step of a timer's thread keeps them.                              *)
LEMMA TimerStep == TeslaInv /\ Timer => TeslaInv'
<1> SUFFICES ASSUME TeslaInv, Timer PROVE TeslaInv'
  OBVIOUS
<1> USE TeslaAssumption
    DEF TeslaInv, TeslaTypeOK, Turns, NoTimer, OneShotTimer, ReaderStates,
        machine, timers, AtTimer, TimerGoesTo, SetCheckState
<1>1. CASE CheckTimer
  BY <1>1 DEF CheckTimer, PeriodPassed
<1>2. CASE WakeTimer
  BY <1>2 DEF WakeTimer, PeriodPassed
<1>3. CASE CarIsFoundAwake
  BY <1>3 DEF CarIsFoundAwake
<1>4. CASE CarIsFoundAsleep
  BY <1>4 DEF CarIsFoundAsleep
<1>5. CASE CarWakes
  BY <1>5 DEF CarWakes
<1>6. CASE CarStaysAsleep
  BY <1>6 DEF CarStaysAsleep
<1>7. CASE GiveUp
  BY <1>7 DEF GiveUp
<1>8. CASE TimerReturns
  BY <1>8 DEF TimerReturns
<1>9. CASE ReplacedReturns
  BY <1>9 DEF ReplacedReturns
<1>10. CASE TimerThrows
  BY <1>10 DEF TimerThrows
<1> QED
  BY <1>1, <1>2, <1>3, <1>4, <1>5, <1>6, <1>7, <1>8, <1>9, <1>10 DEF Timer

(* The turns are kept, for any number of retries and any limit of the rate.*)
THEOREM TeslaInvariance == TeslaSpec => []TeslaInv
<1>1. TeslaInv /\ UNCHANGED teslaVars => TeslaInv'
  BY DEF TeslaInv, TeslaTypeOK, Turns, teslaVars, machine, timers
<1>2. TeslaInv /\ [TeslaNext]_teslaVars => TeslaInv'
  BY <1>1, CallbackStep, TimerStep DEF TeslaNext
<1> QED
  BY TeslaStart, <1>2, PTL DEF TeslaSpec

(* States, rate and timers keep their types; the rate stays within its     *)
(* limit.                                                                  *)
THEOREM TeslaTypeCorrect == TeslaSpec => []TeslaTypeOK
<1>1. TeslaInv => TeslaTypeOK
  BY DEF TeslaInv
<1> QED
  BY <1>1, TeslaInvariance, PTL

(* Whenever the machine waits, a timer has yet to set its state.           *)
THEOREM NoLostChange == TeslaSpec => []WaitsForATimer
<1>1. TeslaInv => WaitsForATimer
  BY DEF TeslaInv, Turns, WaitsForATimer
<1> QED
  BY <1>1, TeslaInvariance, PTL

(* The timer's function and Callback are never at work at the same time.   *)
THEOREM MutualExclusion == TeslaSpec => []OneThreadAtATime
<1>1. TeslaInv => OneThreadAtATime
  BY DEF TeslaInv, TeslaTypeOK, Turns, OneThreadAtATime
<1> QED
  BY <1>1, TeslaInvariance, PTL

-----------------------------------------------------------------------------
(* ProgramManager: queues *)

(* Why it is silent: between telling the timer thread to end and the next  *)
(* destructor main waits until it has ended, and nothing starts it anew.   *)
EndedWhenDestroyed ==
    \A i \in StopsTimer : Destroyed(i) => timer[i] = "ended"

ProgramInv == ProgramTypeOK /\ EndedWhenDestroyed

(* Where a push takes the queues.                                          *)
LEMMA PushType ==
    ASSUME NEW i \in Managers, NEW entry \in QueueEntries,
           rx \in [Managers -> Seq(QueueEntries)], Push(i, entry)
    PROVE  rx' \in [Managers -> Seq(QueueEntries)]
<1>1. Append(rx[i], entry) \in Seq(QueueEntries)
  OBVIOUS
<1> QED
  BY <1>1 DEF Push

LEMMA TailType ==
    ASSUME NEW s \in Seq(QueueEntries), s # <<>>
    PROVE  Tail(s) \in Seq(QueueEntries)
OBVIOUS

-----------------------------------------------------------------------------
(* ProgramManager: types *)

LEMMA ProgramTypeStart == ProgramInit => ProgramTypeOK
<1> SUFFICES ASSUME ProgramInit PROVE ProgramTypeOK
  OBVIOUS
<1>1. at \in Managers
  BY MAssumption DEF ProgramInit, Managers
<1>2. rx \in [Managers -> Seq(QueueEntries)]
  BY DEF ProgramInit
<1> QED
  BY <1>1, <1>2 DEF ProgramInit, ProgramTypeOK

LEMMA ProgramTypeStep == ProgramTypeOK /\ [ProgramNext]_programVars => ProgramTypeOK'
<1> SUFFICES ASSUME ProgramTypeOK, [ProgramNext]_programVars PROVE ProgramTypeOK'
  OBVIOUS
<1> USE DEF ProgramTypeOK
<1>1. CASE RegisterRuntime
  BY <1>1 DEF RegisterRuntime
<1>2. CASE FinishManager
  BY <1>2, MAssumption DEF FinishManager, Managers, threads
<1>3. CASE Loop \/ CtrlC
  <2>1. at' \in Managers
    BY <1>3, MAssumption DEF Loop, StartTurn, EndTurn, LeaveLoop, CtrlC, Managers
  <2>2. m_Run' \in BOOLEAN
    BY <1>3 DEF Loop, StartTurn, EndTurn, LeaveLoop, CtrlC
  <2>3. UNCHANGED threads
    BY <1>3 DEF Loop, StartTurn, EndTurn, LeaveLoop, CtrlC
  <2>4. main' \in {"running", "routing", "stopping", main}
    BY <1>3 DEF Loop, StartTurn, EndTurn, LeaveLoop, CtrlC
  <2> QED
    BY <2>1, <2>2, <2>3, <2>4 DEF threads
<1>4. ASSUME NEW i \in Managers, RouteTo(i) PROVE ProgramTypeOK'
  BY <1>4 DEF RouteTo, threads
<1>5. CASE PushMessageToRuntimeHandler
  <2>1. PICK msg \in QueueEntries : Push(at, msg)
    BY <1>5 DEF PushMessageToRuntimeHandler, Messages, QueueEntries
  <2>2. rx' \in [Managers -> Seq(QueueEntries)]
    BY <2>1, PushType
  <2> QED
    BY <1>5, <2>2 DEF PushMessageToRuntimeHandler
<1>6. CASE DestroyWithoutStop \/ JoinTimer
  BY <1>6, MAssumption DEF DestroyWithoutStop, JoinTimer, NextDestructor, Managers,
                           threads
<1>7. CASE StopTimer
  BY <1>7 DEF StopTimer
<1>8. CASE DestroyFirstThread
  <2>1. 1 \in Managers /\ "end" \in QueueEntries
    BY MAssumption DEF Managers, QueueEntries
  <2>2. rx' \in [Managers -> Seq(QueueEntries)]
    BY <1>8, <2>1, PushType DEF DestroyFirstThread
  <2> QED
    BY <1>8, <2>2 DEF DestroyFirstThread
<1>9. CASE Terminate
  BY <1>9 DEF Terminate, threads
<1>10. ASSUME NEW i \in Managers, TimerCallback(i) PROVE ProgramTypeOK'
  <2>1. rx' \in [Managers -> Seq(QueueEntries)]
    BY <1>10, PushType DEF TimerCallback, QueueEntries
  <2> QED
    BY <1>10, <2>1 DEF TimerCallback
<1>11. ASSUME NEW i \in Managers, TimerWakes(i) PROVE ProgramTypeOK'
  BY <1>11 DEF TimerWakes
<1>12. ASSUME NEW i \in Managers, WakeHandler(i) \/ Return(i) \/ QueueDrained(i)
       PROVE ProgramTypeOK'
  BY <1>12 DEF WakeHandler, Return, QueueDrained
<1>13. ASSUME NEW i \in Managers, HandleNewMessage(i) PROVE ProgramTypeOK'
  <2>1. rx' \in [Managers -> Seq(QueueEntries)]
    BY <1>13, TailType DEF HandleNewMessage
  <2>2. handler' \in [Managers -> {"none", "waiting", "draining", "inCallback",
                                   "inHandleMessage", "answering", "inFunction",
                                   "ended"}]
    BY <1>13 DEF HandleNewMessage
  <2>3. ending' \in [Managers -> BOOLEAN]
    BY <1>13 DEF HandleNewMessage
  <2> QED
    BY <1>13, <2>1, <2>2, <2>3 DEF HandleNewMessage
<1>14. ASSUME NEW i \in Managers, Crash(i) PROVE ProgramTypeOK'
  BY <1>14 DEF Crash, threads
<1>15. ASSUME NEW j \in Managers, Answer(j) PROVE ProgramTypeOK'
  <2>1. PICK i \in Managers : Push(i, "answer")
    BY <1>15, ReadersAssumption DEF Answer
  <2>2. rx' \in [Managers -> Seq(QueueEntries)]
    BY <2>1, PushType DEF QueueEntries
  <2> QED
    BY <1>15, <2>2 DEF Answer
<1>16. ASSUME NEW i \in Readers, get(i) PROVE ProgramTypeOK'
  <2>1. i \in Managers
    BY ReadersAssumption
  <2>2. rx' \in [Managers -> Seq(QueueEntries)]
    BY <1>16, <2>1, PushType DEF get, QueueEntries
  <2> QED
    BY <1>16, <2>2 DEF get
<1>17. CASE UNCHANGED programVars
  BY <1>17 DEF programVars
<1> QED
  BY <1>1, <1>2, <1>3, <1>4, <1>5, <1>6, <1>7, <1>8, <1>9, <1>10, <1>11, <1>12,
     <1>13, <1>14, <1>15, <1>16, <1>17 DEF ProgramNext, Main, HandlerThread

-----------------------------------------------------------------------------
(* ProgramManager: timers that have ended *)

LEMMA EndedStart == ProgramInit => EndedWhenDestroyed
BY DEF ProgramInit, EndedWhenDestroyed, Destroyed

(* An ended timer stays so while nobody registers a manager.               *)
LEMMA EndedStays ==
    ASSUME ProgramTypeOK, [ProgramNext]_programVars, main # "registering",
           NEW i \in Managers, timer[i] = "ended"
    PROVE  timer'[i] = "ended"
<1>1. ASSUME NEW j \in Managers, TimerCallback(j) \/ TimerWakes(j)
      PROVE  timer'[i] = "ended"
  BY <1>1 DEF TimerCallback, TimerWakes, ProgramTypeOK
<1>2. ASSUME NEW j \in Managers, HandlerThread(j) \/ Crash(j) \/ RouteTo(j)
      PROVE  timer' = timer
  BY <1>2 DEF HandlerThread, WakeHandler, HandleNewMessage, Return, Answer,
              QueueDrained, Crash, RouteTo, threads
<1>3. CASE Main /\ ~ \E j \in Managers : RouteTo(j)
  BY <1>3 DEF Main, RegisterRuntime, FinishManager, Loop, StartTurn, EndTurn,
              LeaveLoop, PushMessageToRuntimeHandler, DestroyWithoutStop, StopTimer,
              JoinTimer, DestroyFirstThread, Terminate, threads
<1>4. CASE CtrlC \/ \E j \in Readers : get(j)
  BY <1>4 DEF CtrlC, get, threads
<1>5. CASE UNCHANGED programVars
  BY <1>5 DEF programVars
<1> QED
  BY <1>1, <1>2, <1>3, <1>4, <1>5 DEF ProgramNext, Main

(* A step that leaves main and at alone destroys nobody.                   *)
LEMMA EndedStep == ProgramInv /\ [ProgramNext]_programVars => EndedWhenDestroyed'
<1> SUFFICES ASSUME ProgramTypeOK, EndedWhenDestroyed, [ProgramNext]_programVars,
                    NEW i \in StopsTimer, Destroyed(i)'
             PROVE  timer'[i] = "ended"
  BY DEF ProgramInv, EndedWhenDestroyed
<1>1. i \in Managers /\ i \in Nat \ {0} /\ at \in Nat /\ M \in Nat /\ i <= M
  BY SubsetAssumption, MAssumption DEF ProgramTypeOK, Managers
<1>2. CASE Destroyed(i)
  <2>1. timer[i] = "ended" /\ main # "registering"
    BY <1>2 DEF EndedWhenDestroyed, Destroyed
  <2> QED
    BY <1>1, <2>1, EndedStays
<1>3. CASE ~Destroyed(i)
  <2>1. CASE RegisterRuntime \/ FinishManager \/ Loop \/ PushMessageToRuntimeHandler
    BY <1>1, <1>3, <2>1 DEF Destroyed, RegisterRuntime, FinishManager, Loop, StartTurn,
         EndTurn, LeaveLoop, PushMessageToRuntimeHandler, threads
  <2>2. CASE \/ \E j \in Managers : RouteTo(j) \/ Crash(j)
             \/ StopTimer \/ DestroyFirstThread \/ Terminate
    BY <1>1, <1>3, <2>2 DEF Destroyed, RouteTo, Crash, StopTimer, DestroyFirstThread,
         Terminate, threads
  <2>3. CASE DestroyWithoutStop
    <3>1. i # at
      BY <2>3 DEF DestroyWithoutStop
    <3>2. i < at
      BY <1>1, <1>3, <2>3, <3>1 DEF Destroyed, DestroyWithoutStop
    <3> QED
      BY <1>1, <2>3, <3>2 DEF Destroyed, DestroyWithoutStop, NextDestructor, ProgramTypeOK,
                              Managers
  <2>4. CASE JoinTimer
    <3>1. i <= at
      BY <1>1, <1>3, <2>4 DEF Destroyed, JoinTimer
    <3>2. i < at => ~Destroyed(i)'
      BY <1>1, <2>4 DEF Destroyed, JoinTimer, NextDestructor
    <3> QED
      BY <1>1, <2>4, <3>1, <3>2 DEF JoinTimer, threads
  <2>5. CASE \/ CtrlC \/ UNCHANGED programVars
             \/ \E j \in Readers : get(j)
             \/ \E j \in Managers : TimerCallback(j) \/ TimerWakes(j) \/ HandlerThread(j)
    <3>1. main' = main /\ at' = at
      BY <2>5 DEF CtrlC, programVars, get, TimerCallback, TimerWakes, HandlerThread,
                  WakeHandler, HandleNewMessage, Return, Answer, QueueDrained, threads
    <3> QED
      BY <1>3, <3>1 DEF Destroyed
  <2> QED
    BY <2>1, <2>2, <2>3, <2>4, <2>5 DEF ProgramNext, Main
<1> QED
  BY <1>2, <1>3

-----------------------------------------------------------------------------
(* Positions, queues and timers keep their types, whatever the number of   *)
(* managers; and timers that must have ended have.                         *)
THEOREM ProgramInvariance == ProgramSpec => []ProgramInv
<1>1. ProgramInit => ProgramInv
  BY ProgramTypeStart, EndedStart DEF ProgramInv
<1>2. ProgramInv /\ [ProgramNext]_programVars => ProgramInv'
  BY ProgramTypeStep, EndedStep DEF ProgramInv
<1> QED
  BY <1>1, <1>2, PTL DEF ProgramSpec

THEOREM ProgramTypeCorrect == ProgramSpec => []ProgramTypeOK
<1>1. ProgramInv => ProgramTypeOK
  BY DEF ProgramInv
<1> QED
  BY <1>1, ProgramInvariance, PTL

-----------------------------------------------------------------------------
(* ProgramManager: what is still called *)

(* A push reaches one queue.                                               *)
LEMMA OnePush ==
    ASSUME ProgramTypeOK, NEW k \in Managers, NEW entry, Push(k, entry)
    PROVE  /\ Gets(k, entry)
           /\ \A j \in Managers \ {k} : rx'[j] = rx[j]
BY DEF Push, Gets, ProgramTypeOK

(* While main is in a later destructor, the router is silent and the HTTP  *)
(* server closed; what is left to push are timers of others, an answer,    *)
(* and the end of the first Thread.                                        *)
LEMMA LeftAloneStep ==
    ASSUME ProgramInv, ProgramNext, NEW i \in StopsTimer, Destroyed(i)
    PROVE  LeftAlone(i) /\ \A j \in Managers : NoNewRead(j)
<1>1. i \in Managers /\ ProgramTypeOK /\ timer[i] = "ended" /\ 1 \in Managers
  BY SubsetAssumption, MAssumption DEF ProgramInv, EndedWhenDestroyed, Managers
<1>2. ASSUME NEW k \in Managers, TimerCallback(k)
      PROVE  LeftAlone(i) /\ \A j \in Managers : NoNewRead(j)
  <2>1. k # i /\ Push(k, "run") /\ handler' = handler
    BY <1>1, <1>2 DEF TimerCallback
  <2>2. Gets(k, "run") /\ \A j \in Managers \ {k} : rx'[j] = rx[j]
    BY <1>1, <2>1, OnePush
  <2>3. "run" \in QueueEntries \ {"read"}
    BY DEF QueueEntries
  <2> QED
    BY <1>1, <2>1, <2>2, <2>3 DEF LeftAlone, NoNewRead
<1>3. ASSUME NEW k \in Managers, HandleNewMessage(k)
      PROVE  LeftAlone(i) /\ \A j \in Managers : NoNewRead(j)
  <2>1. Takes(k) /\ \A j \in Managers \ {k} : rx'[j] = rx[j] /\ handler'[j] = handler[j]
    BY <1>1, <1>3 DEF HandleNewMessage, Takes, ProgramTypeOK
  <2>2. handler'[k] = "answering" => Head(rx[k]) = "read"
    BY <1>1, <1>3 DEF HandleNewMessage, ProgramTypeOK
  <2> QED
    BY <1>1, <2>1, <2>2 DEF LeftAlone, NoNewRead
<1>4. ASSUME NEW k \in Managers, Answer(k)
      PROVE  LeftAlone(i) /\ \A j \in Managers : NoNewRead(j)
  <2>1. PICK reader \in Readers : Push(reader, "answer")
    BY <1>4 DEF Answer
  <2>2. /\ Gets(reader, "answer")
        /\ \A j \in Managers \ {reader} : rx'[j] = rx[j]
    BY <1>1, <2>1, OnePush, ReadersAssumption
  <2>3. handler[k] = "answering" /\ handler' = [handler EXCEPT ![k] = "draining"]
    BY <1>4 DEF Answer
  <2>4. \A j \in Managers : handler'[j] = handler[j] \/ handler'[j] = "draining"
    BY <1>1, <2>3 DEF ProgramTypeOK
  <2>5. handler'[k] # "answering" /\ "answer" \in QueueEntries \ {"read"}
    BY <1>1, <2>3 DEF ProgramTypeOK, QueueEntries
  <2> QED
    BY <1>1, <2>2, <2>3, <2>4, <2>5 DEF LeftAlone, NoNewRead
<1>5. ASSUME NEW k \in Readers, get(k)
      PROVE  LeftAlone(i) /\ \A j \in Managers : NoNewRead(j)
  <2>1. k \in Managers /\ ServerOpen(k) /\ Push(k, "request") /\ handler' = handler
    BY <1>5, ReadersAssumption DEF get
  <2>2. k # i
    BY <1>1, <2>1, MAssumption DEF ServerOpen, Destroyed, ProgramTypeOK, Managers
  <2>3. Gets(k, "request") /\ \A j \in Managers \ {k} : rx'[j] = rx[j]
    BY <1>1, <2>1, OnePush
  <2>4. "request" \in QueueEntries \ {"read"}
    BY DEF QueueEntries
  <2> QED
    BY <1>1, <2>1, <2>2, <2>3, <2>4 DEF LeftAlone, NoNewRead
<1>6. CASE PushMessageToRuntimeHandler
  BY <1>6 DEF PushMessageToRuntimeHandler, Destroyed
<1>7. CASE DestroyFirstThread
  <2>1. Gets(1, "end") /\ \A j \in Managers \ {1} : rx'[j] = rx[j]
    BY <1>1, <1>7, OnePush DEF DestroyFirstThread
  <2>2. handler' = handler /\ "end" \in QueueEntries \ {"read"}
    BY <1>7 DEF DestroyFirstThread, QueueEntries
  <2> QED
    BY <1>1, <2>1, <2>2 DEF LeftAlone, NoNewRead
<1>8. CASE \/ FinishManager \/ Loop \/ CtrlC
           \/ DestroyWithoutStop \/ StopTimer \/ JoinTimer \/ Terminate
           \/ \E k \in Managers : RouteTo(k) \/ TimerWakes(k) \/ Crash(k)
  <2>1. rx' = rx /\ handler' = handler
    BY <1>8 DEF FinishManager, Loop, StartTurn, EndTurn, LeaveLoop, CtrlC,
         DestroyWithoutStop, StopTimer, JoinTimer, Terminate, RouteTo, TimerWakes,
         Crash, threads
  <2> QED
    BY <1>1, <2>1 DEF LeftAlone, NoNewRead
<1>9. CASE RegisterRuntime
  BY <1>9 DEF RegisterRuntime, Destroyed
<1>10. ASSUME NEW k \in Managers, WakeHandler(k) \/ Return(k) \/ QueueDrained(k)
       PROVE  LeftAlone(i) /\ \A j \in Managers : NoNewRead(j)
  <2>1. rx' = rx
    BY <1>10 DEF WakeHandler, Return, QueueDrained
  <2>2. \A j \in Managers : handler'[j] = handler[j] \/ handler'[j] # "answering"
    BY <1>1, <1>10 DEF WakeHandler, Return, QueueDrained, ProgramTypeOK
  <2> QED
    BY <1>1, <2>1, <2>2 DEF LeftAlone, NoNewRead
<1> QED
  BY <1>2, <1>3, <1>4, <1>5, <1>6, <1>7, <1>8, <1>9, <1>10
     DEF ProgramNext, Main, HandlerThread

(* A manager that stopped its timer is, once destroyed, left alone but for *)
(* the end of the first Thread and for one answer to each read that waited *)
(* when its destructor was past the join: no timer, no message and no      *)
(* request reaches its queue, for any number of managers and any choice of *)
(* those that stop their timers, read and answer.                          *)
THEOREM StoppedIsSilent == ProgramSpec => SilentAfterStop
<1> DEFINE Silent ==
      \A i \in StopsTimer : Destroyed(i) =>
          LeftAlone(i) /\ \A j \in Managers : NoNewRead(j)
<1>1. ProgramInv /\ [ProgramNext]_programVars => [Silent]_programVars
  BY LeftAloneStep
<1>2. ProgramSpec => [][Silent]_programVars
  BY <1>1, ProgramInvariance, PTL DEF ProgramSpec
<1> QED
  BY <1>2 DEF SilentAfterStop
=============================================================================
