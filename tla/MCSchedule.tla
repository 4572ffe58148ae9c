----------------------------- MODULE MCSchedule -----------------------------
(***************************************************************************)
(* Instance of Schedule: two calendars every platform takes and one that   *)
(* it refuses.                                                             *)
(***************************************************************************)
EXTENDS Schedule

MCCalendars == {"daily", "weekly", "custom"}
MCUnsupported == {"custom"}
=============================================================================
