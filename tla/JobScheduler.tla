---------------------------- MODULE JobScheduler ----------------------------
(***************************************************************************)
(* Scheduled jobs: the scheduled_jobs table that the cron tool writes, the *)
(* executor loop that polls it every 30 seconds, and the tasks it spawns.  *)
(* Every store call is atomic (one connection behind a mutex); the tasks   *)
(* interleave with each other, with the tool and with the polls.           *)
(*                                                                         *)
(* Time is counted in poll periods.  A schedule is the set of instants at  *)
(* which it fires.  Runs of one job cannot be told apart (a run re-reads   *)
(* its job when it ends), so a job has a number of runs in each stage.     *)
(***************************************************************************)
EXTENDS Integers, FiniteSets

CONSTANTS
  Jobs,         \* the UUIDs jobs may get
  OneShot,      \* the jobs whose schedule is a timestamp
  Schedule,     \* [Jobs -> set of instants]
  Fallback,     \* delay used when a cron expression has no next instant
  MaxLive,      \* runs of one job alive at a time
  MaxLag,       \* poll periods the loop may be late
  MaxTime,      \* bound on the clock
  MaxFaults,    \* storage calls that may fail
  MaxRestarts   \* times the process may stop and start again

ASSUME SchedulerAssumption ==
  /\ IsFiniteSet(Jobs) /\ OneShot \subseteq Jobs
  /\ Schedule \in [Jobs -> SUBSET Nat]
  /\ \A j \in Jobs : IsFiniteSet(Schedule[j])
  /\ \A j \in OneShot : Cardinality(Schedule[j]) = 1
  /\ Fallback \in Nat \ {0}
  /\ MaxLive \in Nat /\ MaxLag \in Nat /\ MaxTime \in Nat
  /\ MaxFaults \in Nat /\ MaxRestarts \in Nat

VARIABLES
  clock,       \* Utc::now(), in poll periods
  polls,       \* interval ticks taken; a late loop catches up in a burst
  jobs,        \* the rows of scheduled_jobs
  created,     \* UUIDs already drawn
  runs,        \* per job and stage: the number of spawned tasks
  rows,        \* ephemeral conversations in the conversations table
  faults, restarts,
  owed,        \* history: an instant passed while no run of the job was alive
               \*   and no result has been sent since
  unsent       \* history: a run has ended since that instant whose result
               \*   was not sent

vars == <<clock, polls, jobs, created, runs, rows, faults, restarts, owed, unsent>>

Stages == {"spawned", "running", "deliver", "mark", "clean"}
WithRow == Stages \ {"spawned"}

NoJob == [held |-> FALSE, enabled |-> FALSE, next_run_at |-> 0]

Live(j) == \E s \in Stages : runs[j][s] > 0
Alive(j) == runs[j]["spawned"] + runs[j]["running"] + runs[j]["deliver"]
            + runs[j]["mark"] + runs[j]["clean"]

(* get_due_jobs *)
Due(j) == jobs[j].held /\ jobs[j].enabled /\ jobs[j].next_run_at <= clock

Later(j, now) == {t \in Schedule[j] : t > now}

(* compute_next_cron_run, and the hour that stands in when it fails.       *)
NextAfter(j, now) ==
  IF Later(j, now) = {} THEN now + Fallback
  ELSE CHOOSE t \in Later(j, now) : \A u \in Later(j, now) : t <= u

Init ==
  /\ clock = 0 /\ polls = 0
  /\ jobs = [j \in Jobs |-> NoJob]
  /\ created = {}
  /\ runs = [j \in Jobs |-> [s \in Stages |-> 0]]
  /\ rows = 0
  /\ faults = 0 /\ restarts = 0
  /\ owed = [j \in Jobs |-> FALSE]
  /\ unsent = [j \in Jobs |-> FALSE]

Fail == faults < MaxFaults /\ faults' = faults + 1

(* An instant of the job comes while no run of it is alive.                *)
Missed(j) ==
  jobs[j].held /\ jobs[j].enabled /\ ~Live(j) /\ clock + 1 \in Schedule[j]

Tick ==
  /\ clock < MaxTime /\ clock < polls + MaxLag
  /\ clock' = clock + 1
  /\ owed' = [j \in Jobs |-> owed[j] \/ Missed(j)]
  /\ unsent' = [j \in Jobs |-> unsent[j] /\ ~Missed(j)]
  /\ UNCHANGED <<polls, jobs, created, runs, rows, faults, restarts>>

-----------------------------------------------------------------------------
(* The cron tool.  A timestamp in the past, or an expression that never    *)
(* fires, is refused.                                                      *)
CreateJob(j) ==
  /\ j \notin created
  /\ Later(j, clock) # {}
  /\ created' = created \cup {j}
  /\ jobs' = [jobs EXCEPT ![j] =
       [held |-> TRUE, enabled |-> TRUE, next_run_at |-> NextAfter(j, clock)]]
  /\ UNCHANGED <<clock, polls, runs, rows, faults, restarts, owed, unsent>>

DeleteJob(j) ==
  /\ jobs[j].held
  /\ jobs' = [jobs EXCEPT ![j] = NoJob]
  /\ owed' = [owed EXCEPT ![j] = FALSE]
  /\ unsent' = [unsent EXCEPT ![j] = FALSE]
  /\ UNCHANGED <<clock, polls, created, runs, rows, faults, restarts>>

-----------------------------------------------------------------------------
(* Mutant: a job is rearmed when it is spawned, not when it has run.       *)
PollRearming ==
  /\ polls <= clock
  /\ polls' = IF clock = MaxTime THEN polls ELSE polls + 1
  /\ \A j \in Jobs : Due(j) => Alive(j) < MaxLive
  /\ runs' = [j \in Jobs |->
       IF Due(j) THEN [runs[j] EXCEPT !["spawned"] = @ + 1] ELSE runs[j]]
  /\ jobs' = [j \in Jobs |->
       IF ~Due(j) THEN jobs[j]
       ELSE IF j \in OneShot THEN [jobs[j] EXCEPT !.enabled = FALSE]
       ELSE [jobs[j] EXCEPT !.next_run_at = NextAfter(j, clock)]]
  /\ UNCHANGED <<clock, created, rows, faults, restarts, owed, unsent>>

(* One turn of the executor loop: every due job is spawned, also when an   *)
(* earlier run of it is still alive.  At the end of the modelled time the  *)
(* loop goes on while the clock stands still.                              *)
Poll ==
  /\ polls <= clock
  /\ polls' = IF clock = MaxTime THEN polls ELSE polls + 1
  /\ \/ /\ \A j \in Jobs : Due(j) => Alive(j) < MaxLive
        /\ runs' = [j \in Jobs |->
             IF Due(j) THEN [runs[j] EXCEPT !["spawned"] = @ + 1] ELSE runs[j]]
        /\ UNCHANGED faults
     \/ /\ Fail
        /\ UNCHANGED runs
  /\ UNCHANGED <<clock, jobs, created, rows, restarts, owed, unsent>>

(* A run of job j goes from one stage to the next, or leaves.              *)
Move(j, from, to) ==
  /\ runs[j][from] > 0
  /\ runs' = [runs EXCEPT ![j] = [s \in Stages |->
       runs[j][s] - (IF s = from THEN 1 ELSE 0) + (IF s = to THEN 1 ELSE 0)]]

(* The ephemeral conversation; a failure ends the task.                    *)
CreateConversation(j) ==
  /\ \/ /\ Move(j, "spawned", "running")
        /\ rows' = rows + 1
        /\ UNCHANGED faults
     \/ /\ Move(j, "spawned", "gone")
        /\ Fail
        /\ UNCHANGED rows
  /\ UNCHANGED <<clock, polls, jobs, created, restarts, owed, unsent>>

(* The agent answers or fails: either way there is a text to deliver.  The *)
(* conversation it is asked about is the empty one created above with the  *)
(* system prompt: the job's prompt only selects a profile.                 *)
FinishRun(j) ==
  /\ Move(j, "running", "deliver")
  /\ UNCHANGED <<clock, polls, jobs, created, rows, faults, restarts, owed, unsent>>

(* The text goes to the job's channel.  A send that fails is only logged;  *)
(* a job without a channel, with one that is not set up, or with a chat id *)
(* that is not a number sends nothing: the run goes on to its mark.        *)
Deliver(j) ==
  /\ Move(j, "deliver", "mark")
  /\ \/ /\ owed' = [owed EXCEPT ![j] = FALSE]
        /\ unsent' = [unsent EXCEPT ![j] = FALSE]
     \/ /\ unsent' = [unsent EXCEPT ![j] = owed[j]]
        /\ UNCHANGED owed
  /\ UNCHANGED <<clock, polls, jobs, created, rows, faults, restarts>>

(* Mutant: the next instant is counted from the one the run was due for.   *)
MarkFromDue(j) ==
  /\ Move(j, "mark", "clean")
  /\ jobs' = IF ~jobs[j].held THEN jobs
             ELSE IF j \in OneShot THEN [jobs EXCEPT ![j].enabled = FALSE]
             ELSE [jobs EXCEPT ![j].next_run_at = NextAfter(j, @)]
  /\ UNCHANGED <<clock, polls, created, rows, faults, restarts, owed, unsent>>

(* Mutant: a failed mark returns before the conversation is deleted.       *)
MarkReturningEarly(j) ==
  /\ UNCHANGED <<clock, polls, created, rows, faults, restarts, owed, unsent>>
  /\ \/ /\ jobs[j].held
        /\ Move(j, "mark", "clean")
        /\ jobs' = IF j \in OneShot
                   THEN [jobs EXCEPT ![j].enabled = FALSE]
                   ELSE [jobs EXCEPT ![j].next_run_at = NextAfter(j, clock)]
     \/ /\ ~jobs[j].held
        /\ Move(j, "mark", "gone")
        /\ UNCHANGED jobs

(* Mutant: the update of a one-shot job forgets the enabled flag.          *)
MarkIgnoringOneShot(j) ==
  /\ Move(j, "mark", "clean")
  /\ jobs' = IF ~jobs[j].held \/ j \in OneShot THEN jobs
             ELSE [jobs EXCEPT ![j].next_run_at = NextAfter(j, clock)]
  /\ UNCHANGED <<clock, polls, created, rows, faults, restarts, owed, unsent>>

(* mark_executed reads the row and the clock under the connection's lock;  *)
(* a deleted job is an error, and any error is only logged.                *)
MarkExecuted(j) ==
  /\ Move(j, "mark", "clean")
  /\ \/ /\ jobs[j].held
        /\ jobs' = IF j \in OneShot
                   THEN [jobs EXCEPT ![j].enabled = FALSE]
                   ELSE [jobs EXCEPT ![j].next_run_at = NextAfter(j, clock)]
        /\ UNCHANGED faults
     \/ /\ ~jobs[j].held
        /\ UNCHANGED <<jobs, faults>>
     \/ /\ jobs[j].held /\ Fail
        /\ UNCHANGED jobs
  /\ UNCHANGED <<clock, polls, created, rows, restarts, owed, unsent>>

CleanUp(j) ==
  /\ Move(j, "clean", "gone")
  /\ \/ /\ rows' = rows - 1
        /\ UNCHANGED faults
     \/ /\ Fail
        /\ UNCHANGED rows
  /\ UNCHANGED <<clock, polls, jobs, created, restarts, owed, unsent>>

-----------------------------------------------------------------------------
(* The process stops and starts again: the table stays, the tasks are gone *)
(* and the first tick of the new interval is immediate.                    *)
Restart ==
  /\ restarts < MaxRestarts
  /\ restarts' = restarts + 1
  /\ runs' = [j \in Jobs |-> [s \in Stages |-> 0]]
  /\ polls' = clock
  /\ UNCHANGED <<clock, jobs, created, rows, faults, owed, unsent>>

RunStep(j) ==
  \/ CreateConversation(j) \/ FinishRun(j) \/ Deliver(j)
  \/ MarkExecuted(j) \/ CleanUp(j)

Next ==
  \/ Tick \/ Poll \/ Restart
  \/ \E j \in Jobs : CreateJob(j) \/ DeleteJob(j) \/ RunStep(j)

Spec == Init /\ [][Next]_vars

(* The interval ticks for ever, the runtime polls every spawned task, and  *)
(* an agent run ends (its iterations, tool calls and model calls are       *)
(* bounded).                                                               *)
Fairness ==
  /\ WF_vars(Tick) /\ WF_vars(Poll)
  /\ \A j \in Jobs :
       /\ WF_vars(CreateConversation(j)) /\ WF_vars(FinishRun(j))
       /\ WF_vars(Deliver(j)) /\ WF_vars(MarkExecuted(j)) /\ WF_vars(CleanUp(j))

FairSpec == Spec /\ Fairness

-----------------------------------------------------------------------------
(* Every variable keeps its shape.                                         *)
TypeOK ==
  /\ clock \in 0..MaxTime /\ polls \in 0..MaxTime
  /\ jobs \in [Jobs -> [held : BOOLEAN, enabled : BOOLEAN, next_run_at : Nat]]
  /\ created \subseteq Jobs
  /\ runs \in [Jobs -> [Stages -> Nat]]
  /\ rows \in Nat
  /\ faults \in 0..MaxFaults /\ restarts \in 0..MaxRestarts
  /\ owed \in [Jobs -> BOOLEAN] /\ unsent \in [Jobs -> BOOLEAN]

(* Scheduling is at least once: an instant that found no run of its job    *)
(* alive keeps the job due until a result has been sent, across crashes    *)
(* and storage failures at any point of the run.  Only a run that ended    *)
(* after the instant and whose own send failed, or had nowhere to go, may  *)
(* rearm the job with nothing sent.                                        *)
ServedBeforeRearmed == \A j \in Jobs : owed[j] => Due(j) \/ unsent[j]

(* Runs of a recurring job that overlap and end in any order never move it *)
(* back, nor leave it due for an instant that has already passed.          *)
NextRunAdvances ==
  [][\A j \in Jobs :
       jobs[j].held /\ jobs'[j].held /\ jobs'[j].next_run_at # jobs[j].next_run_at
         => /\ jobs'[j].next_run_at > jobs[j].next_run_at
            /\ jobs'[j].next_run_at > clock]_vars

(* Without storage failures and restarts every ephemeral conversation has  *)
(* a run that will delete it, whatever happened to the job meanwhile.      *)
RunsWithRow ==
  {r \in (Jobs \X WithRow) \X (1..MaxLive) : r[2] <= runs[r[1][1]][r[1][2]]}
RowsHaveRuns ==
  faults = 0 /\ restarts = 0 => rows = Cardinality(RunsWithRow)

(* A due job is eventually run and marked, or deleted.                     *)
DueJobsHandled == \A j \in Jobs : Due(j) ~> ~Due(j)

=============================================================================
