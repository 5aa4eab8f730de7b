---------------------------- MODULE MemoryStore ----------------------------
(***************************************************************************)
(* The long-term memory: the tables of memory.db (storage.rs), the writer  *)
(* that saves a fact (writer.rs) with the background check it spawns, the  *)
(* retriever (retrieval.rs), and the lifecycle manager (lifecycle.rs) that *)
(* the idle sweep and the shutdown of the binary drive (main.rs).          *)
(*                                                                         *)
(* A storage call is one statement or transaction under the connection's   *)
(* mutex: an action is the piece of an operation from one such call to the *)
(* next, so that anything may happen in between.  A recall's four arms run *)
(* under tokio::join and are one step; its ranking is left out.            *)
(*                                                                         *)
(* Every statement filters by agent_id, of which a data directory has one: *)
(* it is left out.  Time is counted in units of which the thresholds are   *)
(* multiples.                                                              *)
(***************************************************************************)
EXTENDS Integers, FiniteSets

CONSTANTS
  Content,        \* texts of facts
  Duplicate,      \* pairs {c, d} of texts with a similarity of at least 0.95
  Related,        \* pairs with one of at least 0.85
  Features,       \* Features[c]: what compute_importance sees in text c
  Saves,          \* <<text, stage>>: the saves there are; memory_save asks
                  \* for episodic, retain_with_stage for working as well
  Deletable,      \* bound: texts whose rows memory_delete is called for
  Saver,          \* concurrent saves
  MaxLinks,       \* links that detect_near_duplicates makes per memory
  WorkingIdle, PromoteAge, PromoteCount, ArchiveIdle, ArchiveIdleVital,
  TombstoneIdle, RecentWindow,    \* thresholds of MemoryConfig, as idle times
  Vital,          \* the importance from which ArchiveIdleVital applies
  TombstoneImportance,            \* in hundredths
  MaxRows, MaxTime, MaxSessions    \* bounds

ASSUME MemoryAssumption ==
  /\ Duplicate \subseteq Related /\ \A p \in Related : p \subseteq Content
  /\ Saves \subseteq Content \X {"working", "episodic"}
  /\ Deletable \subseteq Content
  /\ Features \in [Content -> [entities : Nat, strong : Nat, tool : BOOLEAN,
                               flagged : BOOLEAN, temporal : BOOLEAN]]
  /\ IsFiniteSet(Saver)
  /\ {MaxLinks, WorkingIdle, PromoteAge, PromoteCount, ArchiveIdle,
      ArchiveIdleVital, TombstoneIdle, RecentWindow, Vital, MaxRows,
      MaxTime} \subseteq Nat
  /\ MaxSessions \in Nat \ {0}
  \* main.rs takes MemoryConfig::default(), whose threshold is 0.3
  /\ TombstoneImportance \in 0..30

VARIABLES
  mem,       \* table memories: id -> row; rows are never removed
  chunked,   \* ids with a row in table chunks
  fts,       \* ids in the keyword index memories_fts
  links,     \* table memory_links: <<source, target>>
  saver,     \* per Saver: where its save is
  check,     \* background tasks: id -> where it is, and the twin it found
  sweep,     \* the sweep or finalization in progress, and its now
  recall,    \* the recall in progress
  phase,     \* "up", "closing" (shutdown) or "down"
  session,   \* number of the process, its session_id
  now

tables == <<mem, chunked, fts, links>>
vars == <<tables, saver, check, sweep, recall, phase, session, now>>

Id == 1..MaxRows
Stages == {"working", "episodic", "semantic", "archival", "tombstone"}

(* LifecycleStage::is_retrievable.                                         *)
Retrievable(stage) == stage \in {"working", "episodic", "semantic"}

(* compute_importance in hundredths: named entities and strong words       *)
(* counted up to a limit, temporal markers; save_fact passes default       *)
(* metadata, so that tool use and the user's flag are only for other       *)
(* callers.                                                                *)
AtMost(n, k) == IF n < k THEN n ELSE k

Baseline == 30

Importance(f) ==
  AtMost(100, Baseline + 5 * AtMost(f.entities, 5) + 5 * AtMost(f.strong, 3)
                 + (IF f.tool THEN 15 ELSE 0) + (IF f.flagged THEN 30 ELSE 0)
                 + (IF f.temporal THEN 5 ELSE 0))

(* A row of table memories, the columns that steer anything.  by is 0 for  *)
(* none; last is last_accessed_at, or created_at while there is none.      *)
Row == [content : Content, stage : Stages, valid : BOOLEAN, by : 0..MaxRows,
        session : 1..MaxSessions, count : 0..PromoteCount,
        created : 0..MaxTime, last : 0..MaxTime, importance : 30..100]

Rows == DOMAIN mem

(* The queries.                                                            *)
FindByContentHash(c) == {i \in Rows : mem[i].content = c /\ mem[i].valid}

ListByStage(stage) == {i \in Rows : mem[i].stage = stage /\ mem[i].valid}

ListBySessionAndStage(s, stage) ==
  {i \in ListByStage(stage) : mem[i].session = s}

ListRetrievable == {i \in Rows : mem[i].valid /\ Retrievable(mem[i].stage)}

ListByTimeRange == {i \in ListRetrievable : now - mem[i].created <= RecentWindow}

ChunkEmbeddings == ListRetrievable \cap chunked

LinksFrom(sources) == {l[2] : l \in {m \in links : m[1] \in sources}}

(* The updates, on the contents m of the table.                            *)
RecordAccess(m, ids) ==
  [i \in DOMAIN m |-> IF i \in ids
     THEN [m[i] EXCEPT !.count = AtMost(@ + 1, PromoteCount), !.last = now]
     ELSE m[i]]

Invalidate(m, id, by) ==
  [i \in DOMAIN m |-> IF i = id
     THEN [m[i] EXCEPT !.valid = FALSE, !.stage = "tombstone", !.by = by]
     ELSE m[i]]

BatchUpdateStages(m, updates) ==
  [i \in DOMAIN m |-> IF \E s \in Stages : <<i, s>> \in updates
     THEN [m[i] EXCEPT !.stage = CHOOSE s \in Stages : <<i, s>> \in updates]
     ELSE m[i]]

UpsertMemory(m, id, row) ==
  [i \in DOMAIN m \cup {id} |-> IF i = id THEN row ELSE m[i]]

(* The cosine similarity of two texts reaches dedup_auto_merge_threshold.  *)
SameMeaning(c, d) == c = d \/ {c, d} \in Duplicate
Similar(c, d) == c = d \/ {c, d} \in Related

---------------------------------------------------------------------------
(* content and stage: of a row to insert; id: of a row that is there.      *)
AtRow(pc, i) == [pc |-> pc, content |-> "none", stage |-> "none", id |-> i]
NoSave == AtRow("idle", 0)
Sweeping(k, at) == [pc |-> "list", k |-> k, todo |-> {}, now |-> at]
NoSweep == [pc |-> "none", k |-> 0, todo |-> {}, now |-> 0]
Comparing == [pc |-> "compare", twin |-> 0]
NoRecall == [pc |-> "idle", id |-> 0, dead |-> FALSE]

Init ==
  /\ mem = <<>> /\ chunked = {} /\ fts = {} /\ links = {}
  /\ saver = [s \in Saver |-> NoSave]
  /\ check = <<>>
  /\ sweep = NoSweep
  /\ recall = NoRecall
  /\ phase = "up" /\ session = 1 /\ now = 0

Running == phase # "down"

Tick ==
  /\ now < MaxTime
  /\ now' = now + 1
  /\ UNCHANGED <<tables, saver, check, sweep, recall, phase, session>>

---------------------------------------------------------------------------
(* memory_save -> save_fact -> retain_with_stage.                          *)

(* Rows there are and rows that saves in progress are about to insert.     *)
Claimed ==
  Cardinality(Rows) + Cardinality({s \in Saver : saver[s].pc = "insert"})

(* Deduplication by content hash, the first await of a save.               *)
SaveStart(s, c, stage) ==
  /\ Running /\ saver[s].pc = "idle"
  /\ Claimed < MaxRows
  /\ LET same == FindByContentHash(c)
     IN IF same = {}
        THEN saver' = [saver EXCEPT ![s] =
               [pc |-> "insert", content |-> c, stage |-> stage, id |-> 0]]
        ELSE \E i \in same :
               saver' = [saver EXCEPT ![s] = AtRow("touch", i)]
  /\ UNCHANGED <<tables, check, sweep, recall, phase, session, now>>

Acknowledge(s) == saver' = [saver EXCEPT ![s] = NoSave]

(* An exact duplicate: its row is touched and its id returned.             *)
SaveTouch(s) ==
  /\ Running /\ saver[s].pc = "touch"
  /\ mem' = RecordAccess(mem, {saver[s].id})
  /\ Acknowledge(s)
  /\ UNCHANGED <<chunked, fts, links, check, sweep, recall, phase,
                 session, now>>

SaveInsert(s) ==
  /\ Running /\ saver[s].pc = "insert"
  /\ LET id == Cardinality(Rows) + 1
     IN /\ mem' = UpsertMemory(mem, id,
             [content |-> saver[s].content, stage |-> saver[s].stage,
              valid |-> TRUE, by |-> 0, session |-> session, count |-> 0,
              created |-> now, last |-> now,
              importance |-> Importance(Features[saver[s].content])])
        /\ saver' = [saver EXCEPT ![s] = AtRow("embed", id)]
  /\ UNCHANGED <<chunked, fts, links, check, sweep, recall, phase,
                 session, now>>

SaveChunks(s) ==
  /\ Running /\ saver[s].pc = "embed"
  /\ chunked' = chunked \cup {saver[s].id}
  /\ saver' = [saver EXCEPT ![s].pc = "index"]
  /\ UNCHANGED <<mem, fts, links, check, sweep, recall, phase, session,
                 now>>

(* The keyword index, then the background task, then the answer.           *)
SaveIndex(s) ==
  /\ Running /\ saver[s].pc = "index"
  /\ fts' = fts \cup {saver[s].id}
  /\ check' = [i \in DOMAIN check \cup {saver[s].id} |->
                 IF i = saver[s].id THEN Comparing ELSE check[i]]
  /\ Acknowledge(s)
  /\ UNCHANGED <<mem, chunked, links, sweep, recall, phase, session,
                 now>>

(* The embedder or a statement fails: the save ends with an error and what *)
(* it wrote so far stays.                                                  *)
SaveFails(s) ==
  /\ Running /\ saver[s].pc \in {"insert", "embed", "index"}
  /\ saver' = [saver EXCEPT ![s] = NoSave]
  /\ UNCHANGED <<tables, check, sweep, recall, phase, session, now>>

---------------------------------------------------------------------------
(* The task a save spawns compares the new embedding with those of the     *)
(* agent's other memories, in any order.  The facts it extracts first are  *)
(* left out: nothing reads their table.                                    *)
Twins(i) ==
  {j \in ChunkEmbeddings \ {i} : SameMeaning(mem[i].content, mem[j].content)}

Without(f, i) == [j \in DOMAIN f \ {i} |-> f[j]]

CheckCompare(i) ==
  /\ Running /\ i \in DOMAIN check /\ check[i].pc = "compare"
  /\ IF i \in chunked /\ Twins(i) # {}
     THEN \E j \in Twins(i) :
            check' = [check EXCEPT ![i] = [pc |-> "merge", twin |-> j]]
     ELSE check' = Without(check, i)
  /\ UNCHANGED <<mem, chunked, fts, links, saver, sweep, recall, phase,
                 session, now>>

CheckMerge(i) ==
  /\ Running /\ i \in DOMAIN check /\ check[i].pc = "merge"
  /\ mem' = Invalidate(mem, i, check[i].twin)
  /\ check' = [check EXCEPT ![i].pc = "touch"]
  /\ UNCHANGED <<chunked, fts, links, saver, sweep, recall, phase,
                 session, now>>

CheckTouch(i) ==
  /\ Running /\ i \in DOMAIN check /\ check[i].pc = "touch"
  /\ mem' = RecordAccess(mem, {check[i].twin})
  /\ check' = Without(check, i)
  /\ UNCHANGED <<chunked, fts, links, saver, sweep, recall, phase,
                 session, now>>

---------------------------------------------------------------------------
(* memory_delete, with the id of any row: the row is invalidated.          *)
Delete(i) ==
  /\ Running /\ i \in Rows /\ mem[i].content \in Deletable
  /\ mem' = Invalidate(mem, i, 0)
  /\ UNCHANGED <<chunked, fts, links, saver, check, sweep, recall,
                 phase, session, now>>

---------------------------------------------------------------------------
(* MemoryRetriever::recall, followed for one of its candidates: what it    *)
(* does with a memory depends on the others only through the limit, which  *)
(* may cut any off.  dead: the memory was invalid when the recall began.   *)

(* The arms: the embeddings, what the keyword index matches (any of it),   *)
(* the targets of links, the recent rows.                                  *)
Candidates ==
  ChunkEmbeddings \cup fts \cup LinksFrom(ChunkEmbeddings) \cup ListByTimeRange

RecallSearch(i) ==
  /\ Running /\ recall.pc = "idle"
  /\ i \in Candidates
  /\ recall' = [pc |-> "fetch", id |-> i, dead |-> ~mem[i].valid]
  /\ UNCHANGED <<tables, saver, check, sweep, phase, session, now>>

(* Mutant: of the row that get_memories reads only the stage is looked at. *)
KeptByStage(i) == Retrievable(mem[i].stage)
Kept(i) == mem[i].valid /\ Retrievable(mem[i].stage)

RecallFetch ==
  /\ Running /\ recall.pc = "fetch"
  /\ \/ Kept(recall.id) /\ recall' = [recall EXCEPT !.pc = "touch"]
     \/ recall' = NoRecall
  /\ UNCHANGED <<tables, saver, check, sweep, phase, session, now>>

(* The memory is among the results.                                        *)
RecallTouch ==
  /\ Running /\ recall.pc = "touch"
  /\ mem' = RecordAccess(mem, {recall.id})
  /\ recall' = NoRecall
  /\ UNCHANGED <<chunked, fts, links, saver, check, sweep, phase, session, now>>

---------------------------------------------------------------------------
(* The lifecycle sweep: three stages in turn, each listed and then updated *)
(* in a transaction of its own (episodic rows in two).  Step 0 is          *)
(* finalize_session, which only a shutdown takes.  A sweep reads the clock *)
(* once, when it begins: what is touched later has a negative idle time.   *)
Idle(i) == sweep.now - mem[i].last

(* The score importance * e^(-decay * idle) falls below the threshold.     *)
Faded(i) ==
  Idle(i) > (IF mem[i].importance >= Vital THEN ArchiveIdleVital ELSE ArchiveIdle)

Unimportant(i) == mem[i].importance < TombstoneImportance

Promotable(i) ==
  /\ mem[i].count >= PromoteCount
  /\ sweep.now - mem[i].created >= PromoteAge

Fading == {j \in ListByStage("episodic") : ~Promotable(j) /\ Faded(j)}

Updates(k) ==
  CASE k = 0 -> {<<i, "episodic">> : i \in ListBySessionAndStage(session, "working")}
    [] k = 1 -> {<<i, "episodic">> : i \in {j \in ListByStage("working") :
                                              Idle(j) >= WorkingIdle}}
    [] k = 2 -> {<<i, "semantic">> : i \in {j \in ListByStage("episodic") :
                                              Promotable(j)}}
                \cup
                {<<i, "archival">> : i \in Fading}
    [] k = 3 -> {<<i, "tombstone">> : i \in {j \in ListByStage("archival") :
                   Idle(j) >= TombstoneIdle /\ Unimportant(j)}}

(* The idle timer of main.rs; nothing ever notifies its activity signal.   *)
SweepStart ==
  /\ phase = "up" /\ sweep = NoSweep
  /\ sweep' = Sweeping(1, now)
  /\ UNCHANGED <<tables, saver, check, recall, phase, session, now>>

AfterStage ==
  CASE sweep.k = 0 -> Sweeping(1, now)
    [] sweep.k \in 1..2 -> Sweeping(sweep.k + 1, sweep.now)
    [] sweep.k = 3 -> NoSweep

(* A sweep that the shutdown awaits ends with the process.                 *)
EndsProcess == phase = "closing" /\ sweep'.pc = "none"

SweepList ==
  /\ Running /\ sweep.pc = "list"
  /\ sweep' = IF Updates(sweep.k) = {} THEN AfterStage
              ELSE [sweep EXCEPT !.pc = "apply", !.todo = Updates(sweep.k)]
  /\ phase' = IF EndsProcess THEN "ending" ELSE phase
  /\ UNCHANGED <<tables, saver, check, recall, session, now>>

(* Promotions are committed before demotions.                              *)
Batch(todo) ==
  LET up == {u \in todo : u[2] = "semantic"} IN IF up = {} THEN todo ELSE up

SweepApply ==
  /\ Running /\ sweep.pc = "apply"
  /\ mem' = BatchUpdateStages(mem, Batch(sweep.todo))
  /\ LET rest == sweep.todo \ Batch(sweep.todo)
     IN sweep' = IF rest = {} THEN AfterStage
                 ELSE [sweep EXCEPT !.todo = rest]
  /\ phase' = IF EndsProcess THEN "ending" ELSE phase
  /\ UNCHANGED <<chunked, fts, links, saver, check, recall, session,
                 now>>

(* detect_near_duplicates, which end_session calls: links both ways, at    *)
(* most MaxLinks started per memory.  One step: each link is an upsert of  *)
(* its own and nothing reads them but the graph arm.                       *)
Partners(i) ==
  {j \in ChunkEmbeddings : j > i /\ Similar(mem[i].content, mem[j].content)}

DetectNearDuplicates ==
  /\ phase = "up"
  /\ Cardinality(ListRetrievable) >= 2
  /\ LET linked == {p \in ChunkEmbeddings \X ChunkEmbeddings :
           /\ p[2] \in Partners(p[1])
           /\ Cardinality({j \in Partners(p[1]) : j < p[2]}) < MaxLinks}
     IN links' = links \cup linked \cup {<<p[2], p[1]>> : p \in linked}
  /\ UNCHANGED <<mem, chunked, fts, saver, check, sweep, recall, phase,
                 session, now>>

---------------------------------------------------------------------------
(* The server has stopped: the idle sweep is aborted wherever it is, the   *)
(* session is finalized and a last sweep run.                              *)
Shutdown ==
  /\ phase = "up" /\ session < MaxSessions
  /\ phase' = "closing"
  /\ sweep' = Sweeping(0, now)
  /\ UNCHANGED <<tables, saver, check, recall, session, now>>

(* The process ends, in order or by a crash: what is not in the database   *)
(* is gone.                                                                *)
Stop ==
  /\ Running /\ session < MaxSessions
  /\ phase' = "down"
  /\ saver' = [s \in Saver |-> NoSave]
  /\ check' = <<>>
  /\ sweep' = NoSweep
  /\ recall' = NoRecall
  /\ UNCHANGED <<tables, session, now>>

(* Mutant: the index is trusted.                                           *)
IndexKept == fts
(* The start of a process re-indexes every retrievable row.                *)
Reindexed == fts \cup ListRetrievable

Restart ==
  /\ phase = "down"
  /\ phase' = "up"
  /\ session' = session + 1
  /\ fts' = Reindexed
  /\ UNCHANGED <<mem, chunked, links, saver, check, sweep, recall, now>>

---------------------------------------------------------------------------
SweepSteps == SweepStart \/ SweepList \/ SweepApply

Next ==
  \/ Tick
  \/ \E s \in Saver :
       \/ \E save \in Saves : SaveStart(s, save[1], save[2])
       \/ SaveTouch(s) \/ SaveInsert(s) \/ SaveChunks(s) \/ SaveIndex(s)
       \/ SaveFails(s)
  \/ \E i \in Id : CheckCompare(i) \/ CheckMerge(i) \/ CheckTouch(i) \/ Delete(i)
                   \/ RecallSearch(i)
  \/ RecallFetch \/ RecallTouch
  \/ SweepSteps
  \/ DetectNearDuplicates
  \/ Shutdown \/ Stop \/ Restart

Spec == Init /\ [][Next]_vars

---------------------------------------------------------------------------
(* Types; what refers to a memory refers to a row of the table.            *)
TypeOK ==
  /\ Rows \subseteq Id /\ \A i \in Rows : mem[i] \in Row
  /\ chunked \cup fts \subseteq Rows
  /\ links \subseteq Rows \X Rows
  /\ \A s \in Saver :
       /\ saver[s].pc \in {"idle", "touch", "insert", "embed", "index"}
       /\ saver[s].pc \in {"touch", "embed", "index"} => saver[s].id \in Rows
  /\ DOMAIN check \subseteq Rows /\ \A i \in DOMAIN check : check[i].twin \in Rows \cup {0}
  /\ sweep.pc \in {"none", "list", "apply"} /\ sweep.now \in 0..MaxTime
  /\ sweep.todo \subseteq Rows \X Stages
  /\ recall.pc \in {"idle", "fetch", "touch"} /\ recall.id \in Rows \cup {0}
  /\ phase \in {"up", "closing", "ending", "down"}
  /\ session \in 1..MaxSessions /\ now \in 0..MaxTime

(* A recall never returns a memory that had been deleted, or merged into   *)
(* another, before it began: although the keyword index and the links keep *)
(* naming it, and although a sweep that had listed it may since have       *)
(* overwritten the stage the deletion set.                                 *)
DeletedNotRecalled ==
  recall.pc = "touch" => ~recall.dead

(* Demotion ends at the tombstone: no sweep that runs to its end leaves an *)
(* archival memory, idle for as long as the threshold asks, of the least   *)
(* importance that a memory can have.                                      *)
SweepEnds == sweep.k = 3 /\ sweep' = NoSweep /\ phase' # "down"

DemotionReachesTombstone ==
  [][SweepEnds => ~ \E i \in Rows :
       /\ mem'[i].valid /\ mem'[i].stage = "archival"
       /\ mem'[i].importance = Baseline
       /\ sweep.now - mem'[i].last >= TombstoneIdle]_vars

(* What an earlier process left retrievable, whole or half written, is in  *)
(* the keyword index once the next one is up.                              *)
OldRowsIndexed ==
  phase = "up" => {i \in ListRetrievable : mem[i].session < session} \subseteq fts

(* A memory that was merged away lives on in the row it was merged into,   *)
(* unless that one was deleted: no group of rows is merged into itself.    *)
SavedFactSurvives ==
  ~ \E S \in (SUBSET Rows) \ {{}} : \A i \in S : mem[i].by \in S
=============================================================================
