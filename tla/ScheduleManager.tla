-------------------------- MODULE ScheduleManager --------------------------
(***************************************************************************)
(* ScheduleManager: entries that switch lights at a time of the day.       *)
(*                                                                         *)
(* The timer calls back every 30 seconds, so that Callback sees every      *)
(* minute of the clock, and most of them twice. An entry is due for a      *)
(* whole minute; m_Handled keeps it from firing again in that minute, and  *)
(* is cleared by the first Callback outside of it.                         *)
(*                                                                         *)
(* What an entry sends, one write to each of its lights, is taken as one   *)
(* event here. Lights has the writes.                                      *)
(***************************************************************************)
EXTENDS Integers, Sequences, Functions

CONSTANTS NumEntries,      (* entries in the configuration                 *)
          HoursPerDay,
          MinutesPerHour,
          UTCOffsets,      (* offsets that may be configured               *)
          PollsPerMinute,  (* callbacks that fit into a minute             *)
          LastMinute       (* bound: the clock stops here                  *)

ASSUME ClockAssumption ==
    /\ HoursPerDay \in Nat \ {0}
    /\ MinutesPerHour \in Nat \ {0}
    /\ HoursPerDay * MinutesPerHour > 1
    /\ PollsPerMinute \in Nat \ {0}

ASSUME ConfigurationAssumption ==
    /\ NumEntries \in Nat
    /\ UTCOffsets \subseteq Int
    /\ LastMinute \in Nat

Hours == 0..(HoursPerDay - 1)
Minutes == 0..(MinutesPerHour - 1)
Entries == 1..NumEntries
Schedule == [m_StartHours : Hours, m_StartMinutes : Minutes, m_Handled : BOOLEAN]

VARIABLES m_Schedules,   (* the entries, in the order of the configuration *)
          m_UTCOffset,
          now,           (* minutes since a midnight, UTC                  *)
          polls,         (* callbacks in this minute so far                *)
          fired          (* history: fired[i], the minutes entry i fired in *)

vars == <<m_Schedules, m_UTCOffset, now, polls, fired>>

HourOf(t) == (t \div MinutesPerHour) % HoursPerDay
MinuteOf(t) == t % MinutesPerHour

(* Any configuration. *)
Init ==
    /\ m_Schedules \in [Entries -> {s \in Schedule : ~s.m_Handled}]
    /\ m_UTCOffset \in UTCOffsets
    /\ now = 0
    /\ polls = 0
    /\ fired = [i \in Entries |-> <<>>]

ConvertHoursToMyTimezone(hour, offset) == hour + offset

IsDue(s) ==
    /\ HourOf(now) = ConvertHoursToMyTimezone(s.m_StartHours, m_UTCOffset)
    /\ MinuteOf(now) = s.m_StartMinutes

HandleAlways(i) == Append(fired[i], now)

(* The entry's lights are switched, unless they have been in this minute.  *)
HandleSchedulerEvent(i) ==
    IF m_Schedules[i].m_Handled THEN fired[i] ELSE Append(fired[i], now)

CallbackTooOften ==
    /\ polls' = polls + 1
    /\ fired' = [i \in Entries |->
            IF IsDue(m_Schedules[i]) THEN HandleSchedulerEvent(i) ELSE fired[i]]
    /\ m_Schedules' = [i \in Entries |->
            [m_Schedules[i] EXCEPT !.m_Handled = IsDue(m_Schedules[i])]]
    /\ UNCHANGED <<m_UTCOffset, now>>

Callback ==
    /\ polls < PollsPerMinute
    /\ polls' = polls + 1
    /\ fired' = [i \in Entries |->
            IF IsDue(m_Schedules[i]) THEN HandleSchedulerEvent(i) ELSE fired[i]]
    /\ m_Schedules' = [i \in Entries |->
            [m_Schedules[i] EXCEPT !.m_Handled = IsDue(m_Schedules[i])]]
    /\ UNCHANGED <<m_UTCOffset, now>>

(* A minute passes. The timer's period is half of it and Callback only     *)
(* queues messages, so it ran in that minute.                              *)
Minute ==
    /\ now < LastMinute
    /\ polls > 0
    /\ now' = now + 1
    /\ polls' = 0
    /\ UNCHANGED <<m_Schedules, m_UTCOffset, fired>>

Next == Callback \/ Minute

Spec == Init /\ [][Next]_vars

-----------------------------------------------------------------------------
(* Properties *)

(* Entries, clock and history have their types.                            *)
TypeOK ==
    /\ m_Schedules \in [Entries -> Schedule]
    /\ m_UTCOffset \in UTCOffsets
    /\ now \in 0..LastMinute
    /\ polls \in 0..PollsPerMinute
    /\ fired \in [Entries -> Seq(0..LastMinute)]

(* The clock an entry was written by, the offset's away from UTC, shows    *)
(* its time at t. An entry that the offset moves to the day before or      *)
(* after never fires (ScheduleManager.cpp:57): it is left out by name.     *)
IsTimeOf(i, t) ==
    LET utcHour == m_Schedules[i].m_StartHours + m_UTCOffset
    IN  utcHour \in Hours /\ HourOf(t) = utcHour /\ MinuteOf(t) = m_Schedules[i].m_StartMinutes

(* Every day, in its minute, an entry fires once, and in no other minute,  *)
(* however many callbacks there are in it and on which days it fired       *)
(* before.                                                                 *)
FiresOncePerDay ==
    \A i \in Entries :
        /\ Range(fired[i]) =
             {t \in 0..now : IsTimeOf(i, t) /\ (t < now \/ polls > 0)}
        /\ \A j, k \in DOMAIN fired[i] : j < k => fired[i][j] < fired[i][k]
=============================================================================
