--------------------------- MODULE MCJobScheduler ---------------------------
(***************************************************************************)
(* A one-shot job at instant 3, a cron job that fires at 1 and 2 and then  *)
(* never again, and instants 0 to 3: the clock meets an instant of the     *)
(* cron job while the runs of an earlier one may still be alive, and the   *)
(* instant that the fallback gives a job whose expression has no next one. *)
(***************************************************************************)
EXTENDS JobScheduler

CONSTANTS once, often
MCJobs == {once, often}
MCOneShot == {once} \cap Jobs
MCSchedule == [j \in Jobs |-> IF j = once THEN {3} ELSE {1, 2}]
=============================================================================
