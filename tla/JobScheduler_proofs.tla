------------------------ MODULE JobScheduler_proofs ------------------------
(***************************************************************************)
(* The job scheduler for any jobs, schedules, storage failures, restarts   *)
(* and orders in which runs of a job end.                                  *)
(***************************************************************************)
EXTENDS JobScheduler, FiniteSetTheorems, WellFoundedInduction, TLAPS

(* A job in the table waits for the first instant of its schedule that is  *)
(* still to come, or for an earlier one, and is never put off by more than *)
(* the fallback beyond the last.                                           *)
NextIsFirst ==
  \A j \in Jobs : jobs[j].held =>
    /\ j \in created
    /\ \A t \in Later(j, clock) : jobs[j].next_run_at <= t
    /\ Later(j, clock) = {} => jobs[j].next_run_at <= clock + Fallback

(* While an instant is owed and no send has failed since, no run is past   *)
(* its delivery and about to rearm.                                        *)
OwedIsUndelivered ==
  \A j \in Jobs : owed[j] /\ ~unsent[j] => runs[j]["mark"] = 0

(* A poll spawns no run beyond the bound, and no other step adds one.      *)
LiveBounded == \A j \in Jobs : Alive(j) <= MaxLive

(* A run past its first stage has a row, failures only leave more of them. *)
RowsCovered ==
  /\ Cardinality(RunsWithRow) <= rows
  /\ RowsHaveRuns

IInv ==
  /\ TypeOK /\ NextIsFirst /\ ServedBeforeRearmed /\ OwedIsUndelivered
  /\ LiveBounded /\ RowsCovered

-----------------------------------------------------------------------------
(* A set of natural numbers has a least element.                           *)
LEMMA LeastElement ==
  ASSUME NEW S \in SUBSET Nat, S # {}
  PROVE  \E m \in S : \A n \in S : m <= n
<1> DEFINE R == {p \in Nat \X Nat : p[1] < p[2]}
<1>1. IsWellFoundedOn(R, Nat)
  BY NatLessThanWellFounded DEF OpToRel
<1>2. \A m, n \in Nat : <<n, m>> \notin R => m <= n
  OBVIOUS
<1>3. \E m \in S : \A n \in S : <<n, m>> \notin R
  <2> HIDE DEF R
  <2> QED
    BY <1>1, WFMin, Zenon
<1>4. QED
  <2> HIDE DEF R
  <2> QED
    BY <1>2, <1>3

(* The next run is the first later instant of the schedule, if it has one, *)
(* and in any case later than now.                                         *)
LEMMA NextAfterIsFirst ==
  ASSUME NEW j \in Jobs, NEW now \in Nat
  PROVE  /\ NextAfter(j, now) \in Nat /\ NextAfter(j, now) > now
         /\ \A t \in Later(j, now) : NextAfter(j, now) <= t
         /\ Later(j, now) = {} => NextAfter(j, now) = now + Fallback
         /\ Later(j, now) # {} => NextAfter(j, now) \in Later(j, now)
<1>1. Later(j, now) \in SUBSET Nat /\ \A t \in Later(j, now) : t > now
  BY SchedulerAssumption DEF Later
<1>2. CASE Later(j, now) = {}
  BY <1>2, SchedulerAssumption DEF NextAfter
<1>3. CASE Later(j, now) # {}
  <2>1. \E t \in Later(j, now) : \A u \in Later(j, now) : t <= u
    BY <1>1, <1>3, LeastElement
  <2>2. /\ NextAfter(j, now) \in Later(j, now)
        /\ \A u \in Later(j, now) : NextAfter(j, now) <= u
    BY <1>3, <2>1 DEF NextAfter
  <2>3. QED
    BY <1>1, <1>3, <2>2
<1>4. QED
  BY <1>2, <1>3

(* What a move of a run does to the numbers of runs.                       *)
LEMMA MoveRuns ==
  ASSUME TypeOK, NEW j \in Jobs, NEW from \in Stages, NEW to \in Stages \cup {"gone"},
         from # to, Move(j, from, to)
  PROVE  /\ runs' \in [Jobs -> [Stages -> Nat]]
         /\ \A k \in Jobs, s \in Stages :
              runs'[k][s] = IF k = j /\ s = from THEN runs[k][s] - 1
                            ELSE IF k = j /\ s = to THEN runs[k][s] + 1
                            ELSE runs[k][s]
         /\ runs[j][from] > 0
<1>1. runs \in [Jobs -> [Stages -> Nat]] /\ runs[j][from] > 0
  BY DEF TypeOK, Move
<1> DEFINE new == [s \in Stages |->
       runs[j][s] - (IF s = from THEN 1 ELSE 0) + (IF s = to THEN 1 ELSE 0)]
<1>2. \A s \in Stages : new[s] = IF s = from THEN runs[j][s] - 1
                                 ELSE IF s = to THEN runs[j][s] + 1 ELSE runs[j][s]
  BY <1>1
<1>3. new \in [Stages -> Nat]
  BY <1>1
<1>4. runs' = [runs EXCEPT ![j] = new]
  BY DEF Move
<1> HIDE DEF new
<1>5. QED
  BY <1>1, <1>2, <1>3, <1>4

(* A move keeps the number of live runs, or lowers it.                     *)
LEMMA MoveBounded ==
  ASSUME TypeOK, LiveBounded, NEW j \in Jobs, NEW from \in Stages,
         NEW to \in Stages \cup {"gone"}, from # to, Move(j, from, to)
  PROVE  LiveBounded' /\ (to \in Stages => runs[j][to] + 1 <= MaxLive)
<1>1. \A k \in Jobs, s \in Stages : runs[k][s] \in Nat /\ runs'[k][s] \in Nat
  BY MoveRuns DEF TypeOK
<1>2. \A k \in Jobs : Alive(k)' <= Alive(k)
  <2> SUFFICES ASSUME NEW k \in Jobs PROVE Alive(k)' <= Alive(k)
    OBVIOUS
  <2>1. \A s \in Stages : runs'[k][s] = IF k = j /\ s = from THEN runs[k][s] - 1
                            ELSE IF k = j /\ s = to THEN runs[k][s] + 1
                            ELSE runs[k][s]
    BY MoveRuns
  <2>2. CASE k # j
    BY <1>1, <2>1, <2>2 DEF Alive, Stages
  <2>3. CASE k = j
    <3> DEFINE D(s) == (IF s = to THEN 1 ELSE 0) - (IF s = from THEN 1 ELSE 0)
    <3>1. \A s \in Stages : runs'[k][s] = runs[k][s] + D(s) /\ D(s) \in Int
      BY <1>1, <2>1, <2>3
    <3>2. D("spawned") + D("running") + D("deliver") + D("mark") + D("clean") <= 0
      BY DEF Stages
    <3> HIDE DEF D
    <3>3. QED
      BY <1>1, <3>1, <3>2 DEF Alive, Stages
  <2>4. QED
    BY <2>2, <2>3
<1>3. Alive(j) <= MaxLive /\ \A k \in Jobs : Alive(k) \in Nat /\ Alive(k)' \in Nat
  BY <1>1 DEF LiveBounded, Alive, Stages
<1>4. to \in Stages => runs[j][to] + 1 <= Alive(j)
  <2>1. runs[j][from] > 0
    BY MoveRuns
  <2>2. QED
    BY <1>1, <2>1 DEF Alive, Stages
<1>5. QED
  BY <1>1, <1>2, <1>3, <1>4, SchedulerAssumption DEF LiveBounded

(* The runs with a row are finitely many.                                  *)
LEMMA RunsFinite == IsFiniteSet(RunsWithRow) /\ Cardinality(RunsWithRow) \in Nat
<1>1. IsFiniteSet(WithRow)
  <2>1. WithRow = {"running"} \cup {"deliver"} \cup {"mark"} \cup {"clean"}
    BY DEF WithRow, Stages
  <2>2. QED
    BY <2>1, FS_Singleton, FS_Union
<1>2. IsFiniteSet(1..MaxLive)
  BY FS_Interval, SchedulerAssumption
<1>3. IsFiniteSet((Jobs \X WithRow) \X (1..MaxLive))
  BY <1>1, <1>2, FS_Product, SchedulerAssumption
<1>4. RunsWithRow \subseteq (Jobs \X WithRow) \X (1..MaxLive)
  BY DEF RunsWithRow
<1>5. QED
  BY <1>3, <1>4, FS_Subset, FS_CardinalityType
(* What a move does to the number of runs with a row.                      *)
LEMMA MoveCount ==
  ASSUME TypeOK, LiveBounded, NEW j \in Jobs, NEW from \in Stages,
         NEW to \in Stages \cup {"gone"}, from # to, Move(j, from, to)
  PROVE  Cardinality(RunsWithRow') =
           Cardinality(RunsWithRow) - (IF from \in WithRow THEN 1 ELSE 0)
                                    + (IF to \in WithRow THEN 1 ELSE 0)
<1> DEFINE out == <<<<j, from>>, runs[j][from]>>
           in == <<<<j, to>>, runs[j][to] + 1>>
           rest == IF from \in WithRow THEN RunsWithRow \ {out} ELSE RunsWithRow
<1>1. \A k \in Jobs, s \in Stages : runs[k][s] \in Nat /\ runs'[k][s] \in Nat
  BY MoveRuns DEF TypeOK
<1>2. /\ runs[j][from] > 0
      /\ \A k \in Jobs, s \in WithRow :
           runs'[k][s] = IF k = j /\ s = from THEN runs[k][s] - 1
                         ELSE IF k = j /\ s = to THEN runs[k][s] + 1
                         ELSE runs[k][s]
  BY MoveRuns DEF WithRow
<1>3. /\ runs[j][from] \in 1..MaxLive
      /\ to \in Stages => runs[j][to] + 1 \in 1..MaxLive
  <2>1. Alive(j) <= MaxLive /\ runs[j][from] <= Alive(j)
    BY <1>1 DEF LiveBounded, Alive, Stages
  <2>2. Alive(j) \in Nat
    BY <1>1 DEF Alive, Stages
  <2>3. QED
    BY <1>1, <1>2, <2>1, <2>2, MoveBounded, SchedulerAssumption
<1>4. /\ IsFiniteSet(rest)
      /\ Cardinality(rest) = Cardinality(RunsWithRow) - (IF from \in WithRow THEN 1 ELSE 0)
  <2>1. from \in WithRow => out \in RunsWithRow
    BY <1>1, <1>3 DEF RunsWithRow
  <2> HIDE DEF out
  <2>2. /\ IsFiniteSet(RunsWithRow \ {out})
        /\ Cardinality(RunsWithRow \ {out}) =
             IF out \in RunsWithRow THEN Cardinality(RunsWithRow) - 1
                                    ELSE Cardinality(RunsWithRow)
    BY RunsFinite, FS_RemoveElement
  <2>3. QED
    BY <2>1, <2>2, RunsFinite
<1>5. in \notin rest
  <2>1. to \in Stages => runs[j][to] \in Nat
    BY <1>1
  <2>2. in \in RunsWithRow => to \in Stages /\ runs[j][to] + 1 <= runs[j][to]
    BY DEF RunsWithRow, WithRow
  <2>3. rest \subseteq RunsWithRow
    OBVIOUS
  <2>4. QED
    BY <2>1, <2>2, <2>3
<1>6. RunsWithRow' = IF to \in WithRow THEN rest \cup {in} ELSE rest
  <2>1. \A k \in Jobs, s \in WithRow, n \in 1..MaxLive :
          n <= runs'[k][s] <=>
            \/ n <= runs[k][s] /\ ~(k = j /\ s = from /\ n = runs[j][from])
            \/ k = j /\ s = to /\ n = runs[j][to] + 1
    BY <1>1, <1>2, SchedulerAssumption DEF WithRow
  <2>2. \A r \in (Jobs \X WithRow) \X (1..MaxLive) :
          /\ r = <<<<r[1][1], r[1][2]>>, r[2]>>
          /\ r[1][1] \in Jobs /\ r[1][2] \in WithRow /\ r[2] \in 1..MaxLive
    OBVIOUS
  <2>3. \A r \in (Jobs \X WithRow) \X (1..MaxLive) :
          r \in RunsWithRow' <=>
            \/ r \in RunsWithRow /\ ~(from \in WithRow /\ r = out)
            \/ to \in WithRow /\ r = in
    <3> SUFFICES ASSUME NEW k \in Jobs, NEW s \in WithRow, NEW n \in 1..MaxLive
                 PROVE  <<<<k, s>>, n>> \in RunsWithRow' <=>
                          \/ /\ <<<<k, s>>, n>> \in RunsWithRow
                             /\ ~(from \in WithRow /\ <<<<k, s>>, n>> = out)
                          \/ to \in WithRow /\ <<<<k, s>>, n>> = in
      BY <2>2
    <3>1. /\ <<<<k, s>>, n>> \in RunsWithRow <=> n <= runs[k][s]
          /\ <<<<k, s>>, n>> \in RunsWithRow' <=> n <= runs'[k][s]
      BY DEF RunsWithRow
    <3>2. QED
      BY <2>1, <3>1
  <2>4. RunsWithRow' \subseteq (Jobs \X WithRow) \X (1..MaxLive)
    BY DEF RunsWithRow
  <2>5. RunsWithRow \subseteq (Jobs \X WithRow) \X (1..MaxLive)
    BY DEF RunsWithRow
  <2>6. to \in WithRow => in \in (Jobs \X WithRow) \X (1..MaxLive)
    BY <1>3 DEF WithRow
  <2> HIDE DEF out, in
  <2>7. QED
    BY <2>3, <2>4, <2>5, <2>6
<1>7. Cardinality(rest) \in Nat
  BY <1>4, FS_CardinalityType
<1> HIDE DEF rest, in
<1>8. Cardinality(rest \cup {in}) = Cardinality(rest) + 1
  BY <1>4, <1>5, FS_AddElement
<1>9. QED
  BY <1>4, <1>6, <1>7, <1>8, RunsFinite

(* They are so after a step as well.                                       *)
LEMMA RunsFiniteNext ==
  IsFiniteSet(RunsWithRow') /\ Cardinality(RunsWithRow') \in Nat
<1>1. IsFiniteSet(RunsWithRow)' /\ (Cardinality(RunsWithRow) \in Nat)'
  BY RunsFinite, PTL
<1>2. QED
  BY <1>1

-----------------------------------------------------------------------------
(* The type invariant is preserved by every step.                          *)
LEMMA TypeStep ==
  TypeOK /\ LiveBounded /\ RowsCovered /\ [Next]_vars => TypeOK'
<1> SUFFICES ASSUME TypeOK, LiveBounded, RowsCovered, [Next]_vars PROVE TypeOK'
  OBVIOUS
<1> USE SchedulerAssumption DEF TypeOK, NoJob, Fail
<1>1. CASE Tick
  BY <1>1 DEF Tick
<1>2. CASE Poll
  <2>1. runs' \in [Jobs -> [Stages -> Nat]]
    <3>1. \A j \in Jobs : [runs[j] EXCEPT !["spawned"] = @ + 1] \in [Stages -> Nat]
      BY DEF Stages
    <3>2. QED
      BY <1>2, <3>1 DEF Poll
  <2>2. polls' \in 0..MaxTime
    BY <1>2 DEF Poll
  <2>3. QED
    BY <1>2, <2>1, <2>2 DEF Poll
<1>3. CASE Restart
  BY <1>3 DEF Restart
<1>4. ASSUME NEW j \in Jobs, CreateJob(j) PROVE TypeOK'
  BY <1>4, NextAfterIsFirst DEF CreateJob
<1>5. ASSUME NEW j \in Jobs, DeleteJob(j) PROVE TypeOK'
  BY <1>5 DEF DeleteJob
<1>6. ASSUME NEW j \in Jobs, CreateConversation(j) PROVE TypeOK'
  <2>1. runs' \in [Jobs -> [Stages -> Nat]]
    BY <1>6, MoveRuns DEF CreateConversation, Stages
  <2>2. QED
    BY <1>6, <2>1 DEF CreateConversation
<1>7. ASSUME NEW j \in Jobs, FinishRun(j) PROVE TypeOK'
  <2>1. runs' \in [Jobs -> [Stages -> Nat]]
    BY <1>7, MoveRuns DEF FinishRun, Stages
  <2>2. QED
    BY <1>7, <2>1 DEF FinishRun
<1>8. ASSUME NEW j \in Jobs, Deliver(j) PROVE TypeOK'
  <2>1. runs' \in [Jobs -> [Stages -> Nat]]
    BY <1>8, MoveRuns DEF Deliver, Stages
  <2>2. QED
    BY <1>8, <2>1 DEF Deliver
<1>9. ASSUME NEW j \in Jobs, MarkExecuted(j) PROVE TypeOK'
  <2>1. runs' \in [Jobs -> [Stages -> Nat]]
    BY <1>9, MoveRuns DEF MarkExecuted, Stages
  <2>2. NextAfter(j, clock) \in Nat
    BY NextAfterIsFirst
  <2>3. jobs' \in [Jobs -> [held : BOOLEAN, enabled : BOOLEAN, next_run_at : Nat]]
    <3>1. \/ jobs' = jobs
          \/ jobs' = [jobs EXCEPT ![j].enabled = FALSE]
          \/ jobs' = [jobs EXCEPT ![j].next_run_at = NextAfter(j, clock)]
      BY <1>9 DEF MarkExecuted
    <3>2. CASE jobs' = jobs
      BY <3>2
    <3>3. CASE jobs' = [jobs EXCEPT ![j].enabled = FALSE]
      BY <3>3
    <3>4. CASE jobs' = [jobs EXCEPT ![j].next_run_at = NextAfter(j, clock)]
      BY <2>2, <3>4
    <3>5. QED
      BY <3>1, <3>2, <3>3, <3>4
  <2>4. QED
    BY <1>9, <2>1, <2>3 DEF MarkExecuted
<1>10. ASSUME NEW j \in Jobs, CleanUp(j) PROVE TypeOK'
  <2>1. Move(j, "clean", "gone")
    BY <1>10 DEF CleanUp
  <2>2. runs' \in [Jobs -> [Stages -> Nat]]
    BY <2>1, MoveRuns DEF Stages
  <2>3. Cardinality(RunsWithRow') = Cardinality(RunsWithRow) - 1
    <3>1. /\ "clean" \in Stages /\ "gone" \in Stages \cup {"gone"} /\ "clean" # "gone"
          /\ "clean" \in WithRow /\ "gone" \notin WithRow
      BY DEF Stages, WithRow
    <3>2. Cardinality(RunsWithRow') =
            Cardinality(RunsWithRow) - (IF "clean" \in WithRow THEN 1 ELSE 0)
                                     + (IF "gone" \in WithRow THEN 1 ELSE 0)
      BY <2>1, <3>1, MoveCount
    <3>3. QED
      BY <3>1, <3>2, RunsFinite
  <2>4. Cardinality(RunsWithRow') \in Nat
    BY <2>2, RunsFiniteNext
  <2>5. rows' \in Nat
    BY <1>10, <2>3, <2>4, RunsFinite DEF CleanUp, RowsCovered
  <2>6. QED
    BY <1>10, <2>2, <2>5 DEF CleanUp
<1>11. CASE UNCHANGED vars
  BY <1>11 DEF vars
<1>12. QED
  BY <1>1, <1>2, <1>3, <1>4, <1>5, <1>6, <1>7,
     <1>8, <1>9, <1>10, <1>11 DEF Next, RunStep

-----------------------------------------------------------------------------
(* A job in the table waits for its first instant to come.                 *)
LEMMA FirstStep ==
  TypeOK /\ NextIsFirst /\ [Next]_vars => NextIsFirst'
<1> SUFFICES ASSUME TypeOK, NextIsFirst, [Next]_vars PROVE NextIsFirst'
  OBVIOUS
<1> USE SchedulerAssumption DEF TypeOK, NextIsFirst, NoJob
<1>1. CASE Tick
  <2> SUFFICES ASSUME NEW j \in Jobs, jobs[j].held
               PROVE  /\ \A t \in Later(j, clock + 1) : jobs[j].next_run_at <= t
                      /\ Later(j, clock + 1) = {} =>
                           jobs[j].next_run_at <= clock + 1 + Fallback
    BY <1>1 DEF Tick
  <2>1. Later(j, clock + 1) \subseteq Later(j, clock)
    BY DEF Later
  <2>2. \A t \in Later(j, clock) \ Later(j, clock + 1) : t <= clock + 1
    BY DEF Later
  <2>3. \A t \in Later(j, clock) : t \in Nat
    BY DEF Later
  <2>4. CASE Later(j, clock) = {}
    BY <2>1, <2>4
  <2>5. CASE Later(j, clock) # {}
    BY <2>1, <2>2, <2>3, <2>5
  <2>6. QED
    BY <2>4, <2>5
<1>2. CASE Poll
  BY <1>2 DEF Poll, Later
<1>3. CASE Restart
  BY <1>3 DEF Restart, Later
<1>4. ASSUME NEW j \in Jobs, CreateJob(j) PROVE NextIsFirst'
  BY <1>4, NextAfterIsFirst DEF CreateJob, Later
<1>5. ASSUME NEW j \in Jobs, DeleteJob(j) PROVE NextIsFirst'
  BY <1>5 DEF DeleteJob, Later
<1>6. ASSUME NEW j \in Jobs, CreateConversation(j) PROVE NextIsFirst'
  BY <1>6 DEF CreateConversation, Later
<1>7. ASSUME NEW j \in Jobs, FinishRun(j) PROVE NextIsFirst'
  BY <1>7 DEF FinishRun, Later
<1>8. ASSUME NEW j \in Jobs, Deliver(j) PROVE NextIsFirst'
  BY <1>8 DEF Deliver, Later
<1>9. ASSUME NEW j \in Jobs, MarkExecuted(j) PROVE NextIsFirst'
  <2>1. clock' = clock /\ created' = created /\ \A k \in Jobs : Later(k, clock)' = Later(k, clock)
    BY <1>9 DEF MarkExecuted, Later
  <2>2. \A k \in Jobs : jobs'[k].held = jobs[k].held
    BY <1>9, ZenonT(60) DEF MarkExecuted
  <2>3. \A k \in Jobs : \/ jobs'[k].next_run_at = jobs[k].next_run_at
                        \/ k = j /\ jobs'[k].next_run_at = NextAfter(j, clock)
    BY <1>9 DEF MarkExecuted
  <2>4. NextAfter(j, clock) \in Nat
        /\ (\A t \in Later(j, clock) : NextAfter(j, clock) <= t)
        /\ (Later(j, clock) = {} => NextAfter(j, clock) = clock + Fallback)
    BY NextAfterIsFirst
  <2>5. QED
    BY <2>1, <2>2, <2>3, <2>4
<1>10. ASSUME NEW j \in Jobs, CleanUp(j) PROVE NextIsFirst'
  BY <1>10 DEF CleanUp, Later
<1>11. CASE UNCHANGED vars
  BY <1>11 DEF vars, Later
<1>12. QED
  BY <1>1, <1>2, <1>3, <1>4, <1>5, <1>6, <1>7,
     <1>8, <1>9, <1>10, <1>11 DEF Next, RunStep

-----------------------------------------------------------------------------
(* What is owed stays owed to a job that is due, until a run could send.   *)
LEMMA OwedStep ==
  TypeOK /\ NextIsFirst /\ ServedBeforeRearmed /\ OwedIsUndelivered /\ [Next]_vars
    => ServedBeforeRearmed' /\ OwedIsUndelivered'
<1> DEFINE P == ServedBeforeRearmed /\ OwedIsUndelivered
<1> SUFFICES ASSUME TypeOK, NextIsFirst, P, [Next]_vars PROVE P'
  OBVIOUS
<1> USE SchedulerAssumption DEF TypeOK, ServedBeforeRearmed, OwedIsUndelivered, Due, Stages
<1>1. CASE Tick
  <2>1. \A j \in Jobs : Missed(j) =>
          /\ jobs[j].held /\ jobs[j].enabled
          /\ runs[j]["mark"] = 0 /\ clock + 1 \in Later(j, clock)
    BY DEF Missed, Live, Later
  <2>2. \A j \in Jobs : jobs[j].held /\ clock + 1 \in Later(j, clock)
                        => jobs[j].next_run_at <= clock + 1
    BY DEF NextIsFirst
  <2>3. QED
    BY <1>1, <2>1, <2>2 DEF Tick
<1>2. CASE Poll
  <2>1. \A j \in Jobs : runs'[j]["mark"] = runs[j]["mark"]
    BY <1>2, SMTT(20) DEF Poll
  <2>2. QED
    BY <1>2, <2>1 DEF Poll
<1>3. CASE Restart
  BY <1>3 DEF Restart
<1>4. ASSUME NEW j \in Jobs, CreateJob(j) PROVE P'
  <2>1. ~jobs[j].held
    BY <1>4 DEF CreateJob, NextIsFirst
  <2>2. QED
    BY <1>4, <2>1 DEF CreateJob
<1>5. ASSUME NEW j \in Jobs, DeleteJob(j) PROVE P'
  BY <1>5 DEF DeleteJob, NoJob
<1>6. ASSUME NEW j \in Jobs, CreateConversation(j) PROVE P'
  <2>1. \A k \in Jobs : runs'[k]["mark"] = runs[k]["mark"]
    BY <1>6, MoveRuns DEF CreateConversation
  <2>2. QED
    BY <1>6, <2>1 DEF CreateConversation
<1>7. ASSUME NEW j \in Jobs, FinishRun(j) PROVE P'
  <2>1. \A k \in Jobs : runs'[k]["mark"] = runs[k]["mark"]
    BY <1>7, MoveRuns DEF FinishRun
  <2>2. QED
    BY <1>7, <2>1 DEF FinishRun
<1>8. ASSUME NEW j \in Jobs, Deliver(j) PROVE P'
  <2>1. \A k \in Jobs : k # j => runs'[k]["mark"] = runs[k]["mark"]
    BY <1>8, MoveRuns DEF Deliver
  <2>2. \A k \in Jobs : k # j => owed'[k] = owed[k] /\ unsent'[k] = unsent[k]
    BY <1>8, Zenon DEF Deliver
  <2>3. owed'[j] => unsent'[j]
    BY <1>8, Zenon DEF Deliver
  <2>4. jobs' = jobs /\ clock' = clock
    BY <1>8 DEF Deliver
  <2>5. QED
    BY <2>1, <2>2, <2>3, <2>4
<1>9. ASSUME NEW j \in Jobs, MarkExecuted(j) PROVE P'
  <2>1. runs[j]["mark"] > 0
    BY <1>9, MoveRuns DEF MarkExecuted
  <2>2. \A k \in Jobs : k # j => runs'[k]["mark"] = runs[k]["mark"] /\ jobs'[k] = jobs[k]
    <3>1. \A k \in Jobs : k # j => runs'[k]["mark"] = runs[k]["mark"]
      BY <1>9, MoveRuns DEF MarkExecuted
    <3>2. \/ jobs' = jobs
          \/ jobs' = [jobs EXCEPT ![j].enabled = FALSE]
          \/ jobs' = [jobs EXCEPT ![j].next_run_at = NextAfter(j, clock)]
      BY <1>9 DEF MarkExecuted
    <3>3. \A k \in Jobs : k # j => jobs'[k] = jobs[k]
      BY <3>2
    <3>4. QED
      BY <3>1, <3>3
  <2>3. /\ owed' = owed /\ unsent' = unsent /\ clock' = clock
        /\ owed[j] => unsent[j]
    BY <1>9, <2>1 DEF MarkExecuted
  <2>4. QED
    BY <2>2, <2>3
<1>10. ASSUME NEW j \in Jobs, CleanUp(j) PROVE P'
  <2>1. \A k \in Jobs : runs'[k]["mark"] = runs[k]["mark"]
    BY <1>10, MoveRuns DEF CleanUp
  <2>2. QED
    BY <1>10, <2>1 DEF CleanUp
<1>11. CASE UNCHANGED vars
  BY <1>11 DEF vars
<1>12. QED
  BY <1>1, <1>2, <1>3, <1>4, <1>5, <1>6, <1>7,
     <1>8, <1>9, <1>10, <1>11 DEF Next, RunStep

-----------------------------------------------------------------------------
(* What a poll does to the numbers of runs.                                *)
LEMMA PollRuns ==
  ASSUME TypeOK, Poll
  PROVE  /\ \A j \in Jobs, s \in Stages \ {"spawned"} : runs'[j][s] = runs[j][s]
         /\ \A j \in Jobs : \/ runs'[j]["spawned"] = runs[j]["spawned"]
                           \/ /\ runs'[j]["spawned"] = runs[j]["spawned"] + 1
                              /\ Alive(j) < MaxLive
<1> SUFFICES ASSUME NEW j \in Jobs
             PROVE  /\ \A s \in Stages \ {"spawned"} : runs'[j][s] = runs[j][s]
                    /\ \/ runs'[j]["spawned"] = runs[j]["spawned"]
                       \/ /\ runs'[j]["spawned"] = runs[j]["spawned"] + 1
                          /\ Alive(j) < MaxLive
  OBVIOUS
<1>1. \/ runs'[j] = runs[j]
      \/ /\ runs'[j] = [runs[j] EXCEPT !["spawned"] = @ + 1]
         /\ Alive(j) < MaxLive
  BY DEF Poll
<1>2. runs[j] \in [Stages -> Nat] /\ "spawned" \in Stages
  BY DEF TypeOK, Stages
<1>3. QED
  BY <1>1, <1>2

(* A move that a failing storage call or nothing at all accompanies.       *)
LEMMA MoveKeepsCount ==
  ASSUME TypeOK, LiveBounded, RowsCovered, NEW j \in Jobs,
         NEW from \in WithRow, NEW to \in WithRow, from # to, Move(j, from, to),
         rows' = rows, faults' \in {faults, faults + 1}, restarts' = restarts
  PROVE  LiveBounded' /\ RowsCovered'
<1>1. from \in Stages /\ to \in Stages
  BY DEF WithRow
<1>2. Cardinality(RunsWithRow') = Cardinality(RunsWithRow)
  BY <1>1, MoveCount, RunsFinite
<1>3. QED
  BY <1>1, <1>2, MoveBounded DEF RowsCovered, RowsHaveRuns, TypeOK

(* The number of runs stays bounded and the rows cover them.               *)
LEMMA CountStep ==
  TypeOK /\ LiveBounded /\ RowsCovered /\ [Next]_vars => LiveBounded' /\ RowsCovered'
<1> DEFINE P == LiveBounded /\ RowsCovered
<1> SUFFICES ASSUME TypeOK, LiveBounded, RowsCovered, [Next]_vars PROVE P'
  OBVIOUS
<1> USE SchedulerAssumption DEF Fail
<1>0. runs' = runs /\ rows' = rows /\ faults' = faults /\ restarts' = restarts => P'
  BY DEF LiveBounded, Alive, RowsCovered, RowsHaveRuns, RunsWithRow
<1>1. CASE Tick
  BY <1>0, <1>1 DEF Tick
<1>2. CASE Poll
  <2>1. /\ \A j \in Jobs, s \in Stages \ {"spawned"} : runs'[j][s] = runs[j][s]
        /\ \A j \in Jobs : \/ runs'[j]["spawned"] = runs[j]["spawned"]
                          \/ /\ runs'[j]["spawned"] = runs[j]["spawned"] + 1
                             /\ Alive(j) < MaxLive
    BY <1>2, PollRuns
  <2>2. RunsWithRow' = RunsWithRow
    BY <2>1 DEF RunsWithRow, WithRow
  <2>3. LiveBounded'
    <3> SUFFICES ASSUME NEW j \in Jobs PROVE Alive(j)' <= MaxLive
      BY DEF LiveBounded
    <3>1. \A s \in Stages : runs[j][s] \in Nat
      BY DEF TypeOK
    <3>2. Alive(j) <= MaxLive
      BY DEF LiveBounded
    <3>3. QED
      BY <2>1, <3>1, <3>2 DEF Alive, Stages
  <2>4. QED
    BY <1>2, <2>2, <2>3 DEF Poll, RowsCovered, RowsHaveRuns, TypeOK
<1>3. CASE Restart
  <2>1. \A j \in Jobs, s \in Stages : runs'[j][s] = 0
    BY <1>3 DEF Restart
  <2>2. LiveBounded'
    BY <2>1 DEF LiveBounded, Alive, Stages
  <2>3. RunsWithRow' = {}
    BY <2>1 DEF RunsWithRow, WithRow
  <2>4. QED
    BY <1>3, <2>2, <2>3, FS_EmptySet DEF Restart, RowsCovered, RowsHaveRuns, TypeOK
<1>4. ASSUME NEW j \in Jobs, CreateJob(j) PROVE P'
  BY <1>0, <1>4 DEF CreateJob
<1>5. ASSUME NEW j \in Jobs, DeleteJob(j) PROVE P'
  BY <1>0, <1>5 DEF DeleteJob
<1>6. ASSUME NEW j \in Jobs, CreateConversation(j) PROVE P'
  <2>0. /\ "spawned" \in Stages /\ "spawned" \notin WithRow
        /\ "running" \in Stages /\ "running" \in WithRow /\ "gone" \notin WithRow
        /\ "spawned" # "gone" /\ "spawned" # "running"
    BY DEF Stages, WithRow
  <2>1. CASE Move(j, "spawned", "running") /\ rows' = rows + 1 /\ UNCHANGED faults
    <3>1. Cardinality(RunsWithRow') = Cardinality(RunsWithRow) + 1 /\ LiveBounded'
      BY <2>0, <2>1, MoveCount, MoveBounded, RunsFinite
    <3>2. QED
      BY <1>6, <2>1, <3>1, RunsFinite
         DEF CreateConversation, RowsCovered, RowsHaveRuns, TypeOK
  <2>2. CASE Move(j, "spawned", "gone") /\ Fail /\ UNCHANGED rows
    <3>1. Cardinality(RunsWithRow') = Cardinality(RunsWithRow) /\ LiveBounded'
      BY <2>0, <2>2, MoveCount, MoveBounded, RunsFinite
    <3>2. QED
      BY <1>6, <2>2, <3>1, RunsFinite
         DEF CreateConversation, RowsCovered, RowsHaveRuns, TypeOK
  <2>3. QED
    BY <1>6, <2>1, <2>2 DEF CreateConversation
<1>7. ASSUME NEW j \in Jobs, FinishRun(j) PROVE P'
  BY <1>7, MoveKeepsCount DEF FinishRun, WithRow, Stages
<1>8. ASSUME NEW j \in Jobs, Deliver(j) PROVE P'
  BY <1>8, MoveKeepsCount DEF Deliver, WithRow, Stages
<1>9. ASSUME NEW j \in Jobs, MarkExecuted(j) PROVE P'
  <2>1. /\ Move(j, "mark", "clean")
        /\ rows' = rows /\ restarts' = restarts /\ faults' \in {faults, faults + 1}
    BY <1>9 DEF MarkExecuted
  <2>2. QED
    BY <2>1, MoveKeepsCount DEF WithRow, Stages
<1>10. ASSUME NEW j \in Jobs, CleanUp(j) PROVE P'
  <2>1. Move(j, "clean", "gone")
    BY <1>10 DEF CleanUp
  <2>2. /\ "clean" \in Stages /\ "clean" \in WithRow /\ "gone" \notin WithRow
        /\ "clean" # "gone"
    BY DEF Stages, WithRow
  <2>3. Cardinality(RunsWithRow') = Cardinality(RunsWithRow) - 1 /\ LiveBounded'
    BY <2>1, <2>2, MoveCount, MoveBounded, RunsFinite
  <2>4. QED
    BY <1>10, <2>3, RunsFinite DEF CleanUp, RowsCovered, RowsHaveRuns, TypeOK
<1>11. CASE UNCHANGED vars
  BY <1>0, <1>11 DEF vars
<1>12. QED
  BY <1>1, <1>2, <1>3, <1>4, <1>5, <1>6, <1>7,
     <1>8, <1>9, <1>10, <1>11 DEF Next, RunStep

-----------------------------------------------------------------------------
LEMMA Initially == Init => IInv
<1> SUFFICES ASSUME Init PROVE IInv
  OBVIOUS
<1> USE SchedulerAssumption DEF Init
<1>1. TypeOK
  BY DEF TypeOK, NoJob
<1>2. NextIsFirst /\ ServedBeforeRearmed /\ OwedIsUndelivered
  BY DEF NextIsFirst, NoJob, ServedBeforeRearmed, OwedIsUndelivered
<1>3. \A j \in Jobs, s \in Stages : runs[j][s] = 0
  OBVIOUS
<1>4. LiveBounded
  BY <1>3 DEF LiveBounded, Alive, Stages
<1>5. RunsWithRow = {}
  BY <1>3 DEF RunsWithRow, WithRow
<1>6. RowsCovered
  BY <1>5, FS_EmptySet DEF RowsCovered, RowsHaveRuns
<1>7. QED
  BY <1>1, <1>2, <1>4, <1>6 DEF IInv

LEMMA Inductive == IInv /\ [Next]_vars => IInv'
  BY TypeStep, FirstStep, OwedStep, CountStep DEF IInv

(* The inductive invariant holds in every reachable state.                 *)
THEOREM Invariance == Spec => []IInv
  BY Initially, Inductive, PTL DEF Spec

(* Every variable of the scheduler keeps its shape; that the number of     *)
(* rows never goes below zero needs the count of the runs that own one.    *)
THEOREM TypeCorrect == Spec => []TypeOK
<1>1. IInv => TypeOK
  BY DEF IInv
<1>2. QED
  BY Invariance, <1>1, PTL

(* Scheduling is at least once for any schedules and any number of storage *)
(* failures, failed sends and restarts: an instant that found no run of    *)
(* its job keeps the job due until a result was sent, or until a run that  *)
(* ended after the instant could not send its own.                         *)
THEOREM AtLeastOnce == Spec => []ServedBeforeRearmed
<1>1. IInv => ServedBeforeRearmed
  BY DEF IInv
<1>2. QED
  BY Invariance, <1>1, PTL

(* Without failures and restarts every ephemeral conversation has a run    *)
(* that will delete it, for any number of overlapping runs of any jobs.    *)
THEOREM RowsOwned == Spec => []RowsHaveRuns
<1>1. IInv => RowsHaveRuns
  BY DEF IInv, RowsCovered
<1>2. QED
  BY Invariance, <1>1, PTL

(* Runs that overlap and end in any order move their job's next run only   *)
(* forward, and always beyond the instant at which they end.               *)
THEOREM NeverRearmedBackwards == Spec => NextRunAdvances
<1> DEFINE Advances ==
      \A j \in Jobs :
        jobs[j].held /\ jobs'[j].held /\ jobs'[j].next_run_at # jobs[j].next_run_at
          => /\ jobs'[j].next_run_at > jobs[j].next_run_at
             /\ jobs'[j].next_run_at > clock
<1>1. IInv /\ [Next]_vars => Advances
  <2> SUFFICES ASSUME IInv, [Next]_vars, NEW j \in Jobs, jobs[j].held,
                      jobs'[j].held, jobs'[j].next_run_at # jobs[j].next_run_at
               PROVE  /\ jobs'[j].next_run_at > jobs[j].next_run_at
                      /\ jobs'[j].next_run_at > clock
    OBVIOUS
  <2>1. TypeOK /\ NextIsFirst
    BY DEF IInv
  <2>2. MarkExecuted(j)
    BY <2>1 DEF Next, vars, Tick, Poll, Restart, CreateJob, DeleteJob, RunStep, NextIsFirst,
       CreateConversation, FinishRun, Deliver, MarkExecuted, CleanUp, TypeOK, NoJob
  <2>3. jobs'[j].next_run_at = NextAfter(j, clock)
    BY <2>1, <2>2 DEF MarkExecuted, TypeOK
  <2>4. /\ clock \in Nat /\ jobs[j].next_run_at \in Nat
        /\ \A t \in Later(j, clock) : t \in Nat
    BY <2>1, SchedulerAssumption DEF TypeOK, Later
  <2>5. NextAfter(j, clock) \in Nat /\ NextAfter(j, clock) > clock
    BY <2>4, NextAfterIsFirst
  <2>6. jobs[j].next_run_at <= NextAfter(j, clock)
    <3>1. Later(j, clock) # {} => NextAfter(j, clock) \in Later(j, clock)
      BY <2>4, NextAfterIsFirst
    <3>2. Later(j, clock) = {} => NextAfter(j, clock) = clock + Fallback
      BY <2>4, NextAfterIsFirst
    <3>3. QED
      BY <2>1, <3>1, <3>2 DEF NextIsFirst
  <2>7. QED
    BY <2>3, <2>4, <2>5, <2>6
<1>2. QED
  BY Invariance, <1>1, PTL DEF Spec, NextRunAdvances

=============================================================================
