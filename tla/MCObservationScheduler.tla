------------------------ MODULE MCObservationScheduler ------------------------
(***************************************************************************)
(* Instances of ObservationScheduler for TLC.  A quarter-hour is two ticks,*)
(* as is the lease unless a .cfg says otherwise; a day is two quarter-     *)
(* hours and the weekly cycle two days, so a few ticks hold a daily slot,  *)
(* a weekly one and retries.                                               *)
(* Type 1 is daily (spf), type 2 weekly (caa).                             *)
(***************************************************************************)
EXTENDS ObservationScheduler

MCDailySlot == [o \in Org |-> (o + 1) % 2]
MCWeeklySlot == [o \in Org |-> o % 4]
MCRetryOffset == [o \in Org |-> (o + 1) % 2]
MCMissing == Key
=============================================================================
