---------------------------- MODULE Configuration ----------------------------
(***************************************************************************)
(* Configuration.cpp: the program reads Configuration.json once, section   *)
(* by section, before it builds any manager.  A reader works inside a try  *)
(* block that catches everything and falls back to an empty configuration, *)
(* so an unreadable entry never stops the program; what it may lose is the *)
(* rest of its section.                                                    *)
(*                                                                         *)
(* A file is a function from the section names to what web::json finds     *)
(* there: Nothing (no file, not JSON, no such section, or null), or a      *)
(* record with                                                             *)
(*   fields   the names whose value has the type the reader asks for,      *)
(*   blank    those among them that hold an empty string,                  *)
(*   items    the section's array, or NotAnArray.                          *)
(* An entry of the array has a number, tells whether each of its fields    *)
(* has the right type and, in a schedule, holds an array of ids.           *)
(* operator[] of a JSON value throws where the value is not an object: for *)
(* the readers that is the same as a section without any field.            *)
(***************************************************************************)
EXTENDS Integers, Sequences, SequencesExt

CONSTANTS Nothing,      (* std::nullopt                                    *)
          Thrown,       (* the reader left by an exception                 *)
          NotAnArray    (* is_array() is false                             *)

Sections ==
    {"Sonos", "PhilipsHue", "Telldus", "RemoteManager", "Sensors",
     "Scheduler", "Tesla"}

TokenFields == {"access_token", "refresh_token", "token_type", "token_scope"}

SonosFields ==
    {"secret", "key", "authUrl", "tokenUrl", "scope", "redirectUrl",
     "controlUrl"} \cup TokenFields

TeslaFields ==
    {"controlUrl", "vehicleId", "retryWakeUps", "retrySleepInSeconds",
     "fastReadTimeInSeconds", "verySlowReadTimeInSeconds",
     "maxSlowingRateForVerySlowReads"} \cup TokenFields

HueFields == {"ip", "key"}

SchedulerFields == {"UTCOffset"}

(* A light, a sensor, an id; a schedule, whose ids may be an array.        *)
Entry == [no : Nat, readable : BOOLEAN, ids : {NotAnArray}]
ScheduleEntry == [no : Nat, readable : BOOLEAN, ids : {NotAnArray} \cup Seq(Entry)]

(* The readers of Sonos and Tesla never look for an array.                 *)
Items(name) ==
    CASE name \in {"Sonos", "Tesla"} -> {NotAnArray}
      [] name = "Scheduler" -> {NotAnArray} \cup Seq(ScheduleEntry)
      [] OTHER -> {NotAnArray} \cup Seq(Entry)

(* An exception is none of the values a reader returns.                    *)
ASSUME ThrownAssumption ==
    /\ \A fields \in UNION {SUBSET SonosFields, SUBSET TeslaFields,
                            SUBSET HueFields, SUBSET SchedulerFields} :
           Thrown # fields
    /\ Thrown \notin Nat /\ Thrown \notin Seq(Nat)
    /\ Thrown \notin [no : Nat, ids : Seq(Nat)]
    /\ Thrown \notin Seq([no : Nat, ids : Seq(Nat)])

(* What a manager gets: given, the fields with a value from the file (the  *)
(* others are "" or the numbers written into the fallback), and list, the  *)
(* vector of lights, sensors, ids or schedules.                            *)
Given(given, list) == [given |-> given, list |-> list]

Empty == Given({}, <<>>)

(* value() of an empty optional throws as well.                            *)
AsGiven(section, fields) ==
    IF section # Nothing /\ fields \subseteq section.fields
    THEN fields \ section.blank ELSE Thrown

-----------------------------------------------------------------------------
(* The loops over arrays: one entry that cannot be read leaves the whole   *)
(* loop, and the vector built so far goes with it.                         *)
ReadLoop(reads) ==
    FoldLeft(LAMBDA vector, read :
                 IF Thrown \in {vector, read} THEN Thrown ELSE Append(vector, read),
             <<>>, reads)

ReadEntry(entry) == IF entry.readable THEN entry.no ELSE Thrown

ReadEntries(array) ==
    IF array = NotAnArray THEN <<>>
    ELSE ReadLoop([i \in DOMAIN array |-> ReadEntry(array[i])])

ReadConfiguredLights(section) ==
    IF section = Nothing THEN <<>> ELSE ReadEntries(section.items)

ReadConfiguredTempHumiditySensors(section) ==
    IF section = Nothing THEN <<>> ELSE ReadEntries(section.items)

(* A schedule whose InternalIds is no array is kept, without any id.       *)
ReadSchedule(entry) ==
    LET ids == ReadEntries(entry.ids)
    IN  IF ~entry.readable \/ ids = Thrown THEN Thrown
        ELSE [no |-> entry.no, ids |-> ids]

ReadConfiguredSchedules(section) ==
    IF section = Nothing \/ section.items = NotAnArray THEN <<>>
    ELSE ReadLoop([i \in DOMAIN section.items |-> ReadSchedule(section.items[i])])

OrEmptyParts(given, list) ==
    Given(IF given = Thrown THEN {} ELSE given,
          IF list = Thrown THEN <<>> ELSE list)

(* try { return ...; } catch (...) {} return the empty configuration;      *)
OrEmpty(given, list) ==
    IF given = Thrown \/ list = Thrown THEN Empty ELSE Given(given, list)

ReadSonosConfiguration(section) ==
    OrEmpty(AsGiven(section, SonosFields), <<>>)

ReadTeslaConfiguration(section) ==
    OrEmpty(AsGiven(section, TeslaFields), <<>>)

ReadPhilipsHueConfiguration(section) ==
    OrEmpty(AsGiven(section, HueFields), ReadConfiguredLights(section))

ReadTelldusConfiguration(section) ==
    OrEmpty({}, ReadConfiguredLights(section))

(* The only reader that looks into the optional without asking whether it  *)
(* holds a value: undefined when the section is missing.  The outcomes are *)
(* a crash, Thrown here, and whatever is read from no value, at best no    *)
(* array.                                                                  *)
ReadRemoteManagerConfiguration(section) ==
    IF section = Nothing THEN {Thrown, Empty}
    ELSE {OrEmpty({}, ReadEntries(section.items))}

ReadSensorManagerConfigurationConfiguration(section) ==
    OrEmpty({}, ReadConfiguredTempHumiditySensors(section))

(* Without a UTCOffset the schedules are lost as well.                     *)
ReadScheduleManagerConfigurationConfiguration(section) ==
    OrEmpty(AsGiven(section, SchedulerFields), ReadConfiguredSchedules(section))

(* The configurations the constructor may end with, Thrown where it        *)
(* crashes in between.                                                     *)
ImplConfiguration(file) ==
    {IF remote = Thrown THEN Thrown
     ELSE [Sonos |-> ReadSonosConfiguration(file["Sonos"]),
           PhilipsHue |-> ReadPhilipsHueConfiguration(file["PhilipsHue"]),
           Telldus |-> ReadTelldusConfiguration(file["Telldus"]),
           RemoteManager |-> remote,
           Sensors |->
               ReadSensorManagerConfigurationConfiguration(file["Sensors"]),
           Scheduler |->
               ReadScheduleManagerConfigurationConfiguration(file["Scheduler"]),
           Tesla |-> ReadTeslaConfiguration(file["Tesla"])] :
     remote \in ReadRemoteManagerConfiguration(file["RemoteManager"])}

-----------------------------------------------------------------------------
(* What a reader of the configuration file would expect, without folds.    *)

FieldsOf(name) ==
    CASE name = "Sonos" -> SonosFields
      [] name = "Tesla" -> TeslaFields
      [] name = "PhilipsHue" -> HueFields
      [] name = "Scheduler" -> SchedulerFields
      [] OTHER -> {}

WholeEntry(entry) ==
    /\ entry.readable
    /\ entry.ids # NotAnArray => \A i \in DOMAIN entry.ids : entry.ids[i].readable

(* The section of that name can be read from one end to the other.         *)
Whole(name, section) ==
    /\ section # Nothing
    /\ FieldsOf(name) \subseteq section.fields
    /\ section.items # NotAnArray =>
           \A i \in DOMAIN section.items : WholeEntry(section.items[i])

(* conf shows every entry and every field of the section.                  *)
ShowsAll(name, section, conf) ==
    /\ conf.given = FieldsOf(name) \ section.blank
    /\ section.items = NotAnArray => conf.list = <<>>
    /\ section.items # NotAnArray =>
           /\ Len(conf.list) = Len(section.items)
           /\ \A i \in DOMAIN section.items :
                  LET entry == section.items[i]
                  IN  IF name = "Scheduler"
                      THEN /\ conf.list[i].no = entry.no
                           /\ entry.ids # NotAnArray =>
                                 conf.list[i].ids =
                                     [j \in DOMAIN entry.ids |-> entry.ids[j].no]
                      ELSE conf.list[i] = entry.no
=============================================================================
