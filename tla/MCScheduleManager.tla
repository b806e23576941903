------------------------- MODULE MCScheduleManager -------------------------
(***************************************************************************)
(* Instances of ScheduleManager for TLC.                                   *)
(***************************************************************************)
EXTENDS ScheduleManager

(* Local time ahead of UTC, behind it, and UTC itself.                     *)
MCUTCOffsets == {-2, -1, 0, 1}
=============================================================================
