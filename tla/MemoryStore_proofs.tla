------------------------ MODULE MemoryStore_proofs ------------------------
(***************************************************************************)
(* The long-term memory for any texts, saves, thresholds and numbers of    *)
(* rows, whatever saves, checks, deletions, recalls, sweeps, crashes and   *)
(* restarts do in between each other's statements.                         *)
(***************************************************************************)
EXTENDS MemoryStore, FiniteSetTheorems, TLAPS

(* Ids are given in order and stay within the bound, so that an insert     *)
(* never lands on a row that is there.                                     *)
RowsNumbered ==
  /\ Cardinality(Rows) \in Nat /\ Rows = 1..Cardinality(Rows)
  /\ mem \in [Rows -> Row]
  /\ Claimed <= MaxRows

(* What saves, checks, the sweep and the recall hold on to.                *)
SaverPcs == {"idle", "touch", "insert", "embed", "index"}

HoldersTyped ==
  /\ saver \in [Saver -> [pc : SaverPcs, content : Content \cup {"none"},
                          stage : Stages \cup {"none"}, id : Nat]]
  /\ \A s \in Saver :
       /\ saver[s].pc \in {"touch", "embed", "index"} => saver[s].id \in Rows
       /\ saver[s].pc = "insert" => /\ saver[s].content \in Content
                                    /\ saver[s].stage \in {"working", "episodic"}
  /\ chunked \subseteq Rows /\ fts \subseteq Rows /\ links \subseteq Rows \X Rows
  /\ DOMAIN check \subseteq Rows
  /\ \A i \in DOMAIN check :
       check[i] \in [pc : {"compare", "merge", "touch"}, twin : Rows \cup {0}]
  /\ sweep \in [pc : {"none", "list", "apply"}, k : 0..3,
                todo : SUBSET (Rows \X Stages), now : 0..MaxTime]
  /\ recall \in [pc : {"idle", "fetch", "touch"}, id : Rows \cup {0}, dead : BOOLEAN]
  /\ recall.pc # "idle" => recall.id \in Rows
  /\ phase \in {"up", "closing", "ending", "down"}
  /\ session \in 1..MaxSessions /\ now \in 0..MaxTime

(* What a stopped process leaves: nothing but the tables.                  *)
DownIsEmpty == phase = "down" => sweep = NoSweep /\ session < MaxSessions

(* The memory a recall follows, if dead when it began, is so still.        *)
DeadStaysDead ==
  /\ recall.pc = "fetch" /\ recall.dead => ~mem[recall.id].valid
  /\ DeletedNotRecalled

(* A row is at the tombstone stage only once deleted or merged away, which *)
(* clears its flag, and no update of the sweep makes a tombstone.          *)
TombstonesAreDeletions ==
  \A i \in Rows : mem[i].stage = "tombstone" => ~mem[i].valid

SweepSparesRows ==
  /\ \A u \in sweep.todo : u[2] # "tombstone"
  /\ TombstonesAreDeletions

(* No row is of a later process, and what the sweep is about to make       *)
(* retrievable is so already or has been deleted meanwhile.                *)
SweepKeepsRetrievable ==
  /\ \A i \in Rows : mem[i].session <= session
  /\ \A u \in sweep.todo :
       mem[u[1]].valid /\ Retrievable(u[2]) => Retrievable(mem[u[1]].stage)
  /\ OldRowsIndexed

IInv ==
  /\ RowsNumbered /\ HoldersTyped /\ DownIsEmpty
  /\ DeadStaysDead /\ SweepSparesRows /\ SweepKeepsRetrievable

-----------------------------------------------------------------------------
(* Every importance that compute_importance gives is one of the baseline   *)
(* or more.                                                                *)
LEMMA ImportanceBounded == \A c \in Content : Importance(Features[c]) \in 30..100
  BY MemoryAssumption DEF Importance, AtMost, Baseline

(* The rows after an update are those before it, of the same kind.  A row  *)
(* that is valid was so; only a sweep or a deletion changes a stage.       *)
SameRow(r, q) ==
  /\ r.content = q.content /\ r.session = q.session /\ r.importance = q.importance

LEMMA InvalidRow ==
  ASSUME NEW r \in Row, NEW n \in 0..MaxRows
  PROVE  /\ [r EXCEPT !.valid = FALSE, !.stage = "tombstone", !.by = n] \in Row
         /\ SameRow([r EXCEPT !.valid = FALSE, !.stage = "tombstone", !.by = n], r)
         /\ [r EXCEPT !.valid = FALSE, !.stage = "tombstone", !.by = n].valid = FALSE
  BY DEF Row, Stages, SameRow

LEMMA RecordAccessRows ==
  ASSUME NEW m \in [Rows -> Row], NEW ids, now \in 0..MaxTime
  PROVE  /\ RecordAccess(m, ids) \in [Rows -> Row]
         /\ \A i \in Rows :
              /\ SameRow(RecordAccess(m, ids)[i], m[i])
              /\ RecordAccess(m, ids)[i].valid = m[i].valid
              /\ RecordAccess(m, ids)[i].stage = m[i].stage
<1>1. \A i \in Rows : AtMost(m[i].count + 1, PromoteCount) \in 0..PromoteCount
  BY MemoryAssumption DEF AtMost, Row
<1>2. \A i \in Rows : RecordAccess(m, ids)[i] =
        IF i \in ids
        THEN [m[i] EXCEPT !.count = AtMost(m[i].count + 1, PromoteCount), !.last = now]
        ELSE m[i]
  BY DEF RecordAccess
<1>3. ASSUME NEW i \in Rows
      PROVE  /\ RecordAccess(m, ids)[i] \in Row
             /\ SameRow(RecordAccess(m, ids)[i], m[i])
             /\ RecordAccess(m, ids)[i].valid = m[i].valid
             /\ RecordAccess(m, ids)[i].stage = m[i].stage
  <2>1. m[i] \in Row
    OBVIOUS
  <2>2. CASE i \in ids
    <3> DEFINE n == AtMost(m[i].count + 1, PromoteCount)
    <3>1. /\ n \in 0..PromoteCount
          /\ RecordAccess(m, ids)[i] = [m[i] EXCEPT !.count = n, !.last = now]
      BY <1>1, <1>2, <2>2
    <3> HIDE DEF n
    <3>2. QED
      BY <2>1, <3>1, ZenonT(60) DEF Row, SameRow
  <2>3. CASE i \notin ids
    BY <1>2, <2>1, <2>3 DEF SameRow
  <2>4. QED
    BY <2>2, <2>3
<1>4. RecordAccess(m, ids) = [i \in Rows |-> RecordAccess(m, ids)[i]]
  BY DEF RecordAccess
<1>5. QED
  BY <1>3, <1>4

LEMMA InvalidateRows ==
  ASSUME NEW m \in [Rows -> Row], NEW id, NEW by \in 0..MaxRows
  PROVE  /\ Invalidate(m, id, by) \in [Rows -> Row]
         /\ \A i \in Rows :
              /\ SameRow(Invalidate(m, id, by)[i], m[i])
              /\ Invalidate(m, id, by)[i].valid =>
                   m[i].valid /\ Invalidate(m, id, by)[i].stage = m[i].stage
              /\ Invalidate(m, id, by)[i].stage = "tombstone" =>
                   m[i].stage = "tombstone" \/ ~Invalidate(m, id, by)[i].valid
<1>1. \A i \in Rows : Invalidate(m, id, by)[i] =
        IF i = id THEN [m[i] EXCEPT !.valid = FALSE, !.stage = "tombstone", !.by = by]
        ELSE m[i]
  BY DEF Invalidate
<1>2. ASSUME NEW i \in Rows
      PROVE  /\ Invalidate(m, id, by)[i] \in Row
             /\ SameRow(Invalidate(m, id, by)[i], m[i])
             /\ Invalidate(m, id, by)[i].valid =>
                  m[i].valid /\ Invalidate(m, id, by)[i].stage = m[i].stage
             /\ Invalidate(m, id, by)[i].stage = "tombstone" =>
                  m[i].stage = "tombstone" \/ ~Invalidate(m, id, by)[i].valid
  <2>1. m[i] \in Row
    OBVIOUS
  <2>2. CASE i = id
    BY <1>1, <2>1, <2>2, InvalidRow, ZenonT(60)
  <2>3. CASE i # id
    BY <1>1, <2>1, <2>3 DEF SameRow
  <2>4. QED
    BY <2>2, <2>3
<1>3. Invalidate(m, id, by) = [i \in Rows |-> Invalidate(m, id, by)[i]]
  BY DEF Invalidate
<1>4. QED
  BY <1>2, <1>3

LEMMA BatchRows ==
  ASSUME NEW m \in [Rows -> Row], NEW updates
  PROVE  /\ BatchUpdateStages(m, updates) \in [Rows -> Row]
         /\ \A i \in Rows :
              /\ SameRow(BatchUpdateStages(m, updates)[i], m[i])
              /\ BatchUpdateStages(m, updates)[i].valid = m[i].valid
              /\ \/ BatchUpdateStages(m, updates)[i].stage = m[i].stage
                 \/ <<i, BatchUpdateStages(m, updates)[i].stage>> \in updates
<1> SUFFICES ASSUME NEW i \in Rows
             PROVE  /\ BatchUpdateStages(m, updates)[i] \in Row
                    /\ SameRow(BatchUpdateStages(m, updates)[i], m[i])
                    /\ BatchUpdateStages(m, updates)[i].valid = m[i].valid
                    /\ \/ BatchUpdateStages(m, updates)[i].stage = m[i].stage
                       \/ <<i, BatchUpdateStages(m, updates)[i].stage>> \in updates
  BY DEF BatchUpdateStages
<1>1. CASE \E s \in Stages : <<i, s>> \in updates
  <2> DEFINE s == CHOOSE s \in Stages : <<i, s>> \in updates
  <2>1. s \in Stages /\ <<i, s>> \in updates
    BY <1>1
  <2>2. BatchUpdateStages(m, updates)[i] = [m[i] EXCEPT !.stage = s]
    BY <1>1 DEF BatchUpdateStages
  <2> HIDE DEF s
  <2>3. QED
    BY <2>1, <2>2 DEF SameRow, Row
<1>2. CASE ~ \E s \in Stages : <<i, s>> \in updates
  BY <1>2 DEF BatchUpdateStages, SameRow
<1>3. QED
  BY <1>1, <1>2

LEMMA RowsBounded == ASSUME RowsNumbered PROVE Cardinality(Rows) <= MaxRows /\ Rows \subseteq Id
<1>1. IsFiniteSet({s \in Saver : saver[s].pc = "insert"})
  BY FS_Subset, MemoryAssumption
<1>2. Cardinality({s \in Saver : saver[s].pc = "insert"}) \in Nat
  BY <1>1, FS_CardinalityType
<1>3. QED
  BY <1>2, MemoryAssumption, SMTT(20) DEF RowsNumbered, Claimed, Id

(* A save that is about to insert has room to do so.                       *)
LEMMA InsertRoom ==
  ASSUME RowsNumbered, NEW s \in Saver, saver[s].pc = "insert"
  PROVE  Cardinality(Rows) < MaxRows
<1> DEFINE inserting == {t \in Saver : saver[t].pc = "insert"}
<1>1. IsFiniteSet(inserting) /\ s \in inserting
  BY FS_Subset, MemoryAssumption
<1>2. Cardinality(Rows) + Cardinality(inserting) <= MaxRows
  BY DEF RowsNumbered, Claimed
<1> HIDE DEF inserting
<1>3. Cardinality(inserting) \in Nat /\ Cardinality(inserting) # 0
  BY <1>1, FS_CardinalityType, FS_EmptySet
<1>4. QED
  BY <1>2, <1>3, MemoryAssumption DEF RowsNumbered

LEMMA UpsertRows ==
  ASSUME RowsNumbered, NEW row \in Row, Cardinality(Rows) < MaxRows
  PROVE  LET id == Cardinality(Rows) + 1
             m == UpsertMemory(mem, id, row)
         IN /\ DOMAIN m = 1..id /\ id \in 1..MaxRows /\ id \notin Rows
            /\ m \in [1..id -> Row]
            /\ m[id] = row
            /\ \A i \in Rows : m[i] = mem[i]
            /\ Rows \subseteq DOMAIN m
<1> DEFINE id == Cardinality(Rows) + 1
           m == UpsertMemory(mem, id, row)
<1>1. Cardinality(Rows) \in Nat /\ Rows = 1..Cardinality(Rows) /\ MaxRows \in Nat
  BY MemoryAssumption DEF RowsNumbered
<1>2. id \in 1..MaxRows /\ id \notin Rows /\ Rows \cup {id} = 1..id
  BY <1>1
<1>3. m = [i \in Rows \cup {id} |-> IF i = id THEN row ELSE mem[i]]
  BY DEF UpsertMemory, Rows
<1>4. \A i \in Rows : mem[i] \in Row
  BY DEF RowsNumbered
<1> HIDE DEF id, m
<1>5. /\ DOMAIN m = 1..id /\ m \in [1..id -> Row] /\ m[id] = row
      /\ \A i \in Rows : m[i] = mem[i]
  BY <1>2, <1>3, <1>4
<1>6. Rows \subseteq DOMAIN m
  BY <1>2, <1>5
<1>7. QED
  BY <1>2, <1>5, <1>6 DEF id, m

(* What no step undoes: rows stay, deleted ones stay deleted, and a row    *)
(* gets a new stage only from the sweep.                                   *)
RowsKept ==
  /\ Rows' = 1..Cardinality(Rows') /\ Cardinality(Rows') \in Nat
  /\ mem' \in [Rows' -> Row]
  /\ Rows \subseteq Rows'
  /\ Rows' = Rows \/ \E s \in Saver : SaveInsert(s)
  /\ \A i \in Rows :
       /\ SameRow(mem'[i], mem[i])
       /\ mem'[i].valid => mem[i].valid
       /\ mem'[i].stage = "tombstone" =>
            \/ mem[i].stage = "tombstone" \/ ~mem'[i].valid
            \/ <<i, "tombstone">> \in sweep.todo
       /\ Retrievable(mem'[i].stage) /\ mem'[i].valid =>
            \/ Retrievable(mem[i].stage)
            \/ \E u \in sweep.todo : u[1] = i /\ Retrievable(u[2])
  /\ SweepApply \/ \A i \in Rows : mem'[i].valid => mem'[i].stage = mem[i].stage
  /\ \A i \in Rows' \ Rows :
       /\ mem'[i].session = session
       /\ mem'[i].stage \in {"working", "episodic"}

LEMMA SameDomain ==
  ASSUME RowsNumbered, mem' \in [Rows -> Row]
  PROVE  Rows' = Rows /\ Cardinality(Rows') = Cardinality(Rows)
<1>1. Rows' = Rows
  BY DEF Rows
<1>2. QED
  BY <1>1

LEMMA RowsStep == RowsNumbered /\ HoldersTyped /\ [Next]_vars => RowsKept
<1> SUFFICES ASSUME RowsNumbered, HoldersTyped, [Next]_vars PROVE RowsKept
  OBVIOUS
<1>0. /\ mem \in [Rows -> Row] /\ now \in 0..MaxTime
      /\ Cardinality(Rows) \in Nat /\ Rows = 1..Cardinality(Rows)
  BY DEF RowsNumbered, HoldersTyped
<1>1. CASE mem' = mem
  BY <1>0, <1>1, SameDomain DEF RowsKept, SameRow
<1>2. ASSUME NEW ids, mem' = RecordAccess(mem, ids) PROVE RowsKept
  <2>1. /\ mem' \in [Rows -> Row]
        /\ \A i \in Rows : /\ SameRow(mem'[i], mem[i])
                           /\ mem'[i].valid = mem[i].valid
                           /\ mem'[i].stage = mem[i].stage
    BY <1>0, <1>2, RecordAccessRows
  <2>2. QED
    BY <1>0, <2>1, SameDomain DEF RowsKept
<1>3. ASSUME NEW id, NEW by \in 0..MaxRows, mem' = Invalidate(mem, id, by) PROVE RowsKept
  <2>1. /\ mem' \in [Rows -> Row]
        /\ \A i \in Rows : /\ SameRow(mem'[i], mem[i])
                           /\ mem'[i].valid => mem[i].valid /\ mem'[i].stage = mem[i].stage
    BY <1>0, <1>3, InvalidateRows
  <2>2. QED
    BY <1>0, <2>1, SameDomain DEF RowsKept
<1>4. ASSUME NEW s \in Saver, SaveInsert(s) PROVE RowsKept
  <2> DEFINE id == Cardinality(Rows) + 1
             row == [content |-> saver[s].content, stage |-> saver[s].stage,
              valid |-> TRUE, by |-> 0, session |-> session, count |-> 0,
              created |-> now, last |-> now,
              importance |-> Importance(Features[saver[s].content])]
  <2>1. row \in Row /\ row.session = session /\ row.stage \in {"working", "episodic"}
    BY <1>0, <1>4, ImportanceBounded, MemoryAssumption, SMTT(20)
       DEF HoldersTyped, Row, SaveInsert, Stages
  <2>2. Cardinality(Rows) < MaxRows
    BY <1>4, InsertRoom DEF SaveInsert
  <2>3. mem' = UpsertMemory(mem, id, row)
    BY <1>4 DEF SaveInsert
  <2> HIDE DEF row
  <2>4. /\ DOMAIN mem' = 1..id /\ id \in 1..MaxRows /\ id \notin Rows
        /\ mem' \in [1..id -> Row] /\ mem'[id] = row
        /\ \A i \in Rows : mem'[i] = mem[i]
        /\ Rows \subseteq DOMAIN mem'
    BY <2>1, <2>2, <2>3, UpsertRows
  <2>5. Rows' = 1..id /\ Cardinality(Rows') = id /\ id \in Nat
    <3>1. Rows' = 1..id /\ id \in Nat
      BY <1>0, <2>4 DEF Rows
    <3>2. QED
      BY <3>1, FS_Interval
  <2>6. \A i \in Rows' \ Rows : i = id
    BY <1>0, <2>5
  <2>7. QED
    BY <1>4, <2>1, <2>4, <2>5, <2>6 DEF RowsKept, SameRow
<1>5. ASSUME NEW i, CheckMerge(i) PROVE RowsKept
  <2>1. check[i].twin \in 0..MaxRows
    <3>1. check[i].twin = 0 \/ check[i].twin \in Id
      BY <1>5, RowsBounded DEF CheckMerge, HoldersTyped
    <3>2. MaxRows \in Nat
      BY MemoryAssumption
    <3>3. QED
      BY <3>1, <3>2 DEF Id
  <2>2. QED
    BY <1>3, <1>5, <2>1 DEF CheckMerge
<1>6. CASE SweepApply
  <2>1. mem' = BatchUpdateStages(mem, Batch(sweep.todo)) /\ Batch(sweep.todo) \subseteq sweep.todo
    BY <1>6 DEF SweepApply, Batch
  <2>2. /\ mem' \in [Rows -> Row]
        /\ \A i \in Rows : /\ SameRow(mem'[i], mem[i])
                           /\ mem'[i].valid = mem[i].valid
                           /\ \/ mem'[i].stage = mem[i].stage
                              \/ <<i, mem'[i].stage>> \in sweep.todo
    BY <1>0, <2>1, BatchRows
  <2>3. \A i \in Rows : Retrievable(mem'[i].stage) =>
          \/ Retrievable(mem[i].stage)
          \/ \E u \in sweep.todo : u[1] = i /\ Retrievable(u[2])
    <3> SUFFICES ASSUME NEW i \in Rows, Retrievable(mem'[i].stage)
                 PROVE  \/ Retrievable(mem[i].stage)
                        \/ \E u \in sweep.todo : u[1] = i /\ Retrievable(u[2])
      OBVIOUS
    <3>1. CASE mem'[i].stage = mem[i].stage
      BY <3>1
    <3>2. CASE <<i, mem'[i].stage>> \in sweep.todo
      BY <3>2
    <3>3. QED
      BY <2>2, <3>1, <3>2
  <2>4. QED
    BY <1>0, <1>6, <2>2, <2>3, SameDomain DEF RowsKept
<1>7. \/ mem' = mem
      \/ \E ids : mem' = RecordAccess(mem, ids)
      \/ \E i : mem' = Invalidate(mem, i, 0)
      \/ \E s \in Saver : SaveInsert(s)
      \/ \E i \in Id : CheckMerge(i)
      \/ SweepApply
  <2>1. ASSUME NEW s \in Saver, NEW save \in Saves, SaveStart(s, save[1], save[2])
        PROVE  mem' = mem
    BY <2>1 DEF SaveStart, tables
  <2>2. ASSUME NEW s \in Saver, SaveChunks(s) \/ SaveIndex(s) \/ SaveFails(s)
        PROVE  mem' = mem
    BY <2>2 DEF SaveChunks, SaveIndex, SaveFails, tables
  <2>3. ASSUME NEW i \in Id, CheckCompare(i) \/ RecallSearch(i) PROVE mem' = mem
    BY <2>3 DEF CheckCompare, RecallSearch, tables
  <2>4. CASE Tick \/ RecallFetch \/ SweepStart \/ SweepList \/ DetectNearDuplicates
    BY <2>4 DEF Tick, RecallFetch, SweepStart, SweepList, DetectNearDuplicates, tables
  <2>5. CASE Shutdown \/ Stop \/ Restart \/ UNCHANGED vars
    BY <2>5 DEF Shutdown, Stop, Restart, vars, tables
  <2>6. ASSUME NEW s \in Saver, SaveTouch(s) PROVE \E ids : mem' = RecordAccess(mem, ids)
    BY <2>6 DEF SaveTouch
  <2>7. RecallTouch => \E ids : mem' = RecordAccess(mem, ids)
    BY DEF RecallTouch
  <2>10. ASSUME NEW i \in Id, CheckTouch(i) PROVE \E ids : mem' = RecordAccess(mem, ids)
    BY <2>10 DEF CheckTouch
  <2>8. ASSUME NEW i \in Id, Delete(i) PROVE \E k : mem' = Invalidate(mem, k, 0)
    BY <2>8 DEF Delete
  <2>9. QED
    BY <2>1, <2>2, <2>3, <2>4, <2>5, <2>6, <2>7, <2>8, <2>10 DEF Next, SweepSteps
<1>8. 0 \in 0..MaxRows
  BY MemoryAssumption
<1>9. QED
  BY <1>1, <1>2, <1>3, <1>4, <1>5, <1>6, <1>7, <1>8

-----------------------------------------------------------------------------
(* A step keeps the ids in order and within the bound.                     *)
LEMMA NumberedStep ==
  RowsNumbered /\ HoldersTyped /\ [Next]_vars => RowsNumbered'
<1> SUFFICES ASSUME RowsNumbered, HoldersTyped, [Next]_vars PROVE RowsNumbered'
  OBVIOUS
<1> DEFINE inserting == {s \in Saver : saver[s].pc = "insert"}
<1>1. RowsKept
  BY RowsStep
<1>2. \A S \in SUBSET Saver : IsFiniteSet(S) /\ Cardinality(S) \in Nat
  BY FS_Subset, FS_CardinalityType, MemoryAssumption
<1>3. Cardinality(Rows) + Cardinality(inserting) <= MaxRows
  BY DEF RowsNumbered, Claimed
<1>4. Cardinality(Rows') + Cardinality(inserting') <= MaxRows
  <2>1. inserting \in SUBSET Saver /\ inserting' \in SUBSET Saver
    OBVIOUS
  <2>2. Cardinality(Rows) \in Nat
    BY DEF RowsNumbered
  <2>3. CASE Rows' = Rows /\ inserting' \subseteq inserting
    <3> HIDE DEF inserting
    <3>1. Cardinality(inserting') <= Cardinality(inserting)
      BY <1>2, <2>1, <2>3, FS_Subset
    <3>2. QED
      BY <1>2, <1>3, <2>1, <2>2, <2>3, <3>1, MemoryAssumption
  <2>4. ASSUME NEW s \in Saver, NEW c, NEW stage, SaveStart(s, c, stage)
        PROVE  Cardinality(Rows') + Cardinality(inserting') <= MaxRows
    <3>1. Rows' = Rows /\ Cardinality(Rows) + Cardinality(inserting) < MaxRows
      BY <2>4 DEF SaveStart, Claimed, tables, Rows
    <3>2. inserting' \subseteq inserting \cup {s}
      BY <2>4 DEF SaveStart, HoldersTyped
    <3> HIDE DEF inserting
    <3>3. /\ IsFiniteSet(inserting \cup {s})
          /\ Cardinality(inserting \cup {s}) <= Cardinality(inserting) + 1
          /\ Cardinality(inserting \cup {s}) \in Nat
      BY <1>2, <2>1, FS_AddElement, FS_CardinalityType
    <3>4. Cardinality(inserting') <= Cardinality(inserting \cup {s})
      BY <3>2, <3>3, FS_Subset
    <3>5. QED
      BY <1>2, <2>1, <2>2, <3>1, <3>3, <3>4, MemoryAssumption
  <2>5. ASSUME NEW s \in Saver, SaveInsert(s)
        PROVE  Cardinality(Rows') + Cardinality(inserting') <= MaxRows
    <3> DEFINE id == Cardinality(Rows) + 1
    <3>1. Rows' = Rows \cup {id}
      BY <2>5 DEF SaveInsert, UpsertMemory, Rows
    <3>2. Rows = 1..Cardinality(Rows)
      BY DEF RowsNumbered
    <3>3. Rows' = 1..id /\ id \in Nat
      BY <2>2, <3>1, <3>2
    <3>4. Cardinality(Rows') = id
      <4> HIDE DEF id
      <4> QED
        BY <3>3, FS_Interval
    <3>5. s \in inserting /\ inserting' = inserting \ {s}
      BY <2>5 DEF SaveInsert, AtRow, HoldersTyped
    <3> HIDE DEF inserting
    <3>6. Cardinality(inserting \ {s}) = Cardinality(inserting) - 1
      BY <1>2, <2>1, <3>5, FS_RemoveElement
    <3>7. QED
      BY <1>2, <1>3, <2>1, <2>2, <3>4, <3>5, <3>6, MemoryAssumption
  <2>6. ASSUME NEW s \in Saver, \/ SaveTouch(s) \/ SaveChunks(s) \/ SaveIndex(s) \/ SaveFails(s)
        PROVE  inserting' \subseteq inserting
    BY <2>6 DEF SaveTouch, SaveChunks, SaveIndex, SaveFails, Acknowledge, NoSave, AtRow, HoldersTyped
  <2>7. Stop => inserting' \subseteq inserting
    BY DEF Stop, NoSave, AtRow
  <2>8. \/ inserting' \subseteq inserting
        \/ \E s \in Saver : \E c, stage : SaveStart(s, c, stage)
        \/ \E s \in Saver : SaveInsert(s)
    <3>1. CASE saver' = saver
      BY <3>1
    <3>2. QED
      BY <2>6, <2>7, <3>1 DEF Next, vars, tables, Tick, CheckCompare, CheckMerge, CheckTouch, Delete,
         RecallSearch, RecallFetch, RecallTouch, SweepSteps, SweepStart, SweepList, SweepApply,
         DetectNearDuplicates, Shutdown, Restart
  <2>9. QED
    BY <1>1, <2>3, <2>4, <2>5, <2>8 DEF RowsKept
<1>5. QED
  BY <1>1, <1>4 DEF RowsKept, RowsNumbered, Claimed

-----------------------------------------------------------------------------
(* What the updates of a stage of the sweep name are valid rows, moved     *)
(* between retrievable stages, to the archive, or to the tombstone when    *)
(* their importance is below the threshold, which none is.                 *)
LEMMA UpdatesSound ==
  ASSUME RowsNumbered, NEW k \in 0..3
  PROVE  /\ Updates(k) \subseteq Rows \X Stages
         /\ \A u \in Updates(k) :
              /\ u[2] # "tombstone"
              /\ Retrievable(u[2]) => Retrievable(mem[u[1]].stage)
<1>1. \A i \in Rows : ~Unimportant(i)
  <2>1. \A i \in Rows : mem[i].importance \in 30..100
    BY DEF RowsNumbered, Row
  <2>2. TombstoneImportance \in 0..30
    BY MemoryAssumption
  <2>3. QED
    BY <2>1, <2>2 DEF Unimportant
<1>2. \A stage \in Stages : \A i \in ListByStage(stage) : i \in Rows /\ mem[i].stage = stage
  BY DEF ListByStage
<1>3. CASE k = 0
  BY <1>2, <1>3 DEF Updates, ListBySessionAndStage, Retrievable, Stages
<1>4. CASE k = 1
  BY <1>2, <1>4 DEF Updates, Retrievable, Stages
<1>5. CASE k = 2
  BY <1>2, <1>5 DEF Updates, Fading, Retrievable, Stages
<1>6. CASE k = 3
  <2>1. Updates(3) = {}
    BY <1>1, <1>2 DEF Updates, Stages
  <2>2. QED
    BY <1>6, <2>1
<1>7. QED
  BY <1>3, <1>4, <1>5, <1>6

(* The sweep goes on with the next stage, or is over.                      *)
LEMMA AfterStageTyped ==
  ASSUME HoldersTyped
  PROVE  /\ AfterStage.todo = {}
         /\ \A S : AfterStage \in [pc : {"none", "list", "apply"}, k : 0..3,
                                   todo : SUBSET S, now : 0..MaxTime]
<1>1. sweep.k \in 0..3 /\ sweep.now \in 0..MaxTime /\ now \in 0..MaxTime /\ 0 \in 0..MaxTime
  BY MemoryAssumption DEF HoldersTyped
<1>2. CASE sweep.k = 0
  BY <1>1, <1>2 DEF AfterStage, Sweeping
<1>3. CASE sweep.k \in 1..2
  BY <1>1, <1>3 DEF AfterStage, Sweeping
<1>4. CASE sweep.k = 3
  BY <1>1, <1>4 DEF AfterStage, NoSweep
<1>5. QED
  BY <1>1, <1>2, <1>3, <1>4

(* Types.                                                                  *)
LEMMA HoldersStep ==
  RowsNumbered /\ HoldersTyped /\ DownIsEmpty /\ [Next]_vars => HoldersTyped' /\ DownIsEmpty'
<1> SUFFICES ASSUME RowsNumbered, HoldersTyped, DownIsEmpty, [Next]_vars
             PROVE  HoldersTyped' /\ DownIsEmpty'
  OBVIOUS
<1>1. Rows \subseteq Rows' /\ RowsNumbered' /\ (Rows' = Rows \/ \E s \in Saver : SaveInsert(s))
  BY RowsStep, NumberedStep DEF RowsKept
<1> DEFINE SaversOK ==
             /\ saver \in [Saver -> [pc : SaverPcs, content : Content \cup {"none"},
                                     stage : Stages \cup {"none"}, id : Nat]]
             /\ \A s \in Saver :
                  /\ saver[s].pc \in {"touch", "embed", "index"} => saver[s].id \in Rows
                  /\ saver[s].pc = "insert" =>
                       /\ saver[s].content \in Content
                       /\ saver[s].stage \in {"working", "episodic"}
           TablesOK ==
             chunked \subseteq Rows /\ fts \subseteq Rows /\ links \subseteq Rows \X Rows
           ChecksOK ==
             /\ DOMAIN check \subseteq Rows
             /\ \A i \in DOMAIN check :
                  check[i] \in [pc : {"compare", "merge", "touch"}, twin : Rows \cup {0}]
           SweepOK ==
             sweep \in [pc : {"none", "list", "apply"}, k : 0..3,
                       todo : SUBSET (Rows \X Stages), now : 0..MaxTime]
           RecallOK ==
             /\ recall \in [pc : {"idle", "fetch", "touch"}, id : Rows \cup {0}, dead : BOOLEAN]
             /\ recall.pc # "idle" => recall.id \in Rows
           PhaseOK ==
             /\ phase \in {"up", "closing", "ending", "down"}
             /\ session \in 1..MaxSessions /\ now \in 0..MaxTime
<1>0. SaversOK /\ TablesOK /\ ChecksOK /\ SweepOK /\ RecallOK /\ PhaseOK
  BY DEF HoldersTyped
<1>2. SaversOK'
  <2>1. CASE saver' = saver
    BY <1>0, <1>1, <2>1
  <2>2. ASSUME NEW s \in Saver, NEW save \in Saves, SaveStart(s, save[1], save[2])
        PROVE  SaversOK'
    <3>1. save[1] \in Content /\ save[2] \in {"working", "episodic"}
      BY MemoryAssumption
    <3>2. FindByContentHash(save[1]) \subseteq Rows /\ Rows \subseteq Nat
      BY DEF FindByContentHash, RowsNumbered
    <3>5. Rows' = Rows
      BY <2>2 DEF SaveStart, tables, Rows
    <3>3. \/ saver' = [saver EXCEPT ![s] =
               [pc |-> "insert", content |-> save[1], stage |-> save[2], id |-> 0]]
          \/ \E i \in Rows : saver' = [saver EXCEPT ![s] =
               [pc |-> "touch", content |-> "none", stage |-> "none", id |-> i]]
      BY <2>2, <3>2 DEF SaveStart, AtRow
    <3>4. QED
      BY <1>0, <3>1, <3>2, <3>3, <3>5 DEF SaverPcs, Stages
  <2>3. ASSUME NEW s \in Saver, SaveInsert(s) PROVE SaversOK'
    <3> DEFINE id == Cardinality(Rows) + 1
    <3>1. saver' = [saver EXCEPT ![s] =
               [pc |-> "embed", content |-> "none", stage |-> "none", id |-> id]]
      BY <2>3 DEF SaveInsert, AtRow
    <3>2. Rows' = Rows \cup {id}
      BY <2>3 DEF SaveInsert, UpsertMemory, Rows
    <3>3. id \in Nat
      BY DEF RowsNumbered
    <3> HIDE DEF id
    <3>4. QED
      BY <1>0, <3>1, <3>2, <3>3 DEF SaverPcs
  <2>4. ASSUME NEW s \in Saver, SaveChunks(s) PROVE SaversOK'
    BY <1>0, <1>1, <2>4 DEF SaveChunks, SaverPcs
  <2>5. ASSUME NEW s \in Saver, \/ SaveTouch(s) \/ SaveIndex(s) \/ SaveFails(s)
        PROVE  SaversOK'
    <3>1. saver' = [saver EXCEPT ![s] =
               [pc |-> "idle", content |-> "none", stage |-> "none", id |-> 0]]
      BY <2>5 DEF SaveTouch, SaveIndex, SaveFails, Acknowledge, NoSave, AtRow
    <3>2. QED
      BY <1>0, <1>1, <3>1 DEF SaverPcs
  <2>6. Stop => SaversOK'
    BY DEF Stop, NoSave, AtRow, SaverPcs
  <2>7. QED
    BY <2>1, <2>2, <2>3, <2>4, <2>5, <2>6
    DEF Next, vars, tables, Tick, CheckCompare, CheckMerge, CheckTouch, Delete,
        RecallSearch, RecallFetch, RecallTouch, SweepSteps, SweepStart, SweepList, SweepApply,
        DetectNearDuplicates, Shutdown, Restart
<1>3. TablesOK'
  <2>1. CASE UNCHANGED <<chunked, fts, links>>
    BY <1>0, <1>1, <2>1
  <2>2. ASSUME NEW s \in Saver, SaveChunks(s) \/ SaveIndex(s) PROVE TablesOK'
    BY <1>0, <1>1, <2>2 DEF SaveChunks, SaveIndex
  <2>3. Restart => TablesOK'
    BY <1>0, <1>1 DEF Restart, Reindexed, ListRetrievable
  <2>4. ASSUME DetectNearDuplicates PROVE TablesOK'
    <3> DEFINE linked == {p \in ChunkEmbeddings \X ChunkEmbeddings :
           /\ p[2] \in Partners(p[1])
           /\ Cardinality({j \in Partners(p[1]) : j < p[2]}) < MaxLinks}
    <3>1. linked \subseteq Rows \X Rows
      BY DEF ChunkEmbeddings, ListRetrievable
    <3>2. links' = links \cup linked \cup {<<p[2], p[1]>> : p \in linked}
          /\ UNCHANGED <<chunked, fts>>
      BY <2>4 DEF DetectNearDuplicates
    <3> HIDE DEF linked
    <3>3. {<<p[2], p[1]>> : p \in linked} \subseteq Rows \X Rows
      BY <3>1
    <3>4. links' \subseteq Rows \X Rows
      BY <1>0, <3>1, <3>2, <3>3
    <3>5. QED
      BY <1>0, <1>1, <3>2, <3>4
  <2>5. QED
    BY <2>1, <2>2, <2>3, <2>4
    DEF Next, vars, tables, Tick, SaveStart, SaveTouch, SaveInsert, SaveFails, CheckCompare,
        CheckMerge, CheckTouch, Delete, RecallSearch, RecallFetch, RecallTouch, SweepSteps, SweepStart,
        SweepList, SweepApply, Shutdown, Stop
<1>4. ChecksOK'
  <2>1. CASE check' = check
    BY <1>0, <1>1, <2>1
  <2>2. ASSUME NEW s \in Saver, SaveIndex(s) PROVE ChecksOK'
    BY <1>0, <1>1, <2>2 DEF SaveIndex, Comparing
  <2>3. ASSUME NEW i \in Id, CheckCompare(i) PROVE ChecksOK'
    <3>1. Twins(i) \subseteq Rows
      BY DEF Twins, ChunkEmbeddings, ListRetrievable
    <3>2. QED
      BY <1>0, <1>1, <2>3, <3>1 DEF CheckCompare, Without
  <2>4. ASSUME NEW i \in Id, CheckMerge(i) \/ CheckTouch(i) PROVE ChecksOK'
    BY <1>0, <1>1, <2>4 DEF CheckMerge, CheckTouch, Without
  <2>5. Stop => ChecksOK'
    BY DEF Stop
  <2>6. QED
    BY <2>1, <2>2, <2>3, <2>4, <2>5
    DEF Next, vars, tables, Tick, SaveStart, SaveTouch, SaveInsert, SaveChunks, SaveFails, Delete,
        RecallSearch, RecallFetch, RecallTouch, SweepSteps, SweepStart, SweepList, SweepApply,
        DetectNearDuplicates, Shutdown, Restart
<1>5. SweepOK'
  <2>1. CASE sweep' = sweep
    BY <1>0, <1>1, <2>1
  <2>2. CASE SweepStart \/ Shutdown \/ Stop
    BY <1>0, <2>2, MemoryAssumption DEF SweepStart, Shutdown, Stop, NoSweep, Sweeping
  <2>3. CASE SweepList
    <3>1. sweep' = AfterStage \/ sweep' = [sweep EXCEPT !.pc = "apply", !.todo = Updates(sweep.k)]
      BY <2>3 DEF SweepList
    <3>2. sweep.k \in 0..3 /\ Updates(sweep.k) \subseteq Rows' \X Stages
      BY <1>0, <1>1, UpdatesSound
    <3>3. CASE sweep' = [sweep EXCEPT !.pc = "apply", !.todo = Updates(sweep.k)]
      BY <1>0, <3>2, <3>3
    <3>4. QED
      BY <1>0, <3>1, <3>3, AfterStageTyped
  <2>4. CASE SweepApply
    <3>1. \/ sweep' = AfterStage
          \/ sweep' = [sweep EXCEPT !.todo = sweep.todo \ Batch(sweep.todo)]
      BY <2>4 DEF SweepApply
    <3>2. QED
      BY <1>0, <1>1, <3>1, AfterStageTyped
  <2>5. QED
    BY <2>1, <2>2, <2>3, <2>4
    DEF Next, vars, tables, Tick, SaveStart, SaveTouch, SaveInsert, SaveChunks, SaveIndex,
        SaveFails, CheckCompare, CheckMerge, CheckTouch, Delete, RecallSearch, RecallFetch, RecallTouch,
        SweepSteps, DetectNearDuplicates, Restart
<1>6. RecallOK'
  <2>1. CASE recall' = recall
    BY <1>0, <1>1, <2>1
  <2>2. ASSUME NEW i \in Id, RecallSearch(i) PROVE RecallOK'
    <3>1. i \in Rows
      BY <1>0, <2>2 DEF RecallSearch, Candidates, ChunkEmbeddings, ListRetrievable,
         LinksFrom, ListByTimeRange
    <3> DEFINE dead == ~mem[i].valid
    <3>2. recall' = [pc |-> "fetch", id |-> i, dead |-> dead] /\ dead \in BOOLEAN
      BY <2>2 DEF RecallSearch
    <3> HIDE DEF dead
    <3>3. QED
      BY <1>1, <3>1, <3>2
  <2>3. CASE RecallFetch \/ RecallTouch \/ Stop
    <3>1. \/ recall' = NoRecall
          \/ recall.pc = "fetch" /\ recall' = [recall EXCEPT !.pc = "touch"]
      BY <2>3 DEF RecallFetch, RecallTouch, Stop
    <3>2. CASE recall' = NoRecall
      BY <3>2 DEF NoRecall
    <3>3. CASE recall.pc = "fetch" /\ recall' = [recall EXCEPT !.pc = "touch"]
      BY <1>0, <1>1, <3>3
    <3>4. QED
      BY <3>1, <3>2, <3>3
  <2>4. QED
    BY <2>1, <2>2, <2>3
    DEF Next, vars, tables, Tick, SaveStart, SaveTouch, SaveInsert, SaveChunks, SaveIndex,
        SaveFails, CheckCompare, CheckMerge, CheckTouch, Delete, SweepSteps, SweepStart, SweepList,
        SweepApply, DetectNearDuplicates, Shutdown, Restart
<1>7. PhaseOK' /\ DownIsEmpty'
  <2>1. CASE UNCHANGED <<phase, session, now, sweep>>
    BY <1>0, <2>1 DEF DownIsEmpty
  <2>2. CASE Tick
    BY <1>0, <2>2, MemoryAssumption DEF Tick, DownIsEmpty
  <2>3. CASE SweepStart \/ SweepList \/ SweepApply
    BY <1>0, <2>3 DEF SweepStart, SweepList, SweepApply, Running, DownIsEmpty
  <2>4. CASE Shutdown \/ Stop \/ Restart
    BY <1>0, <2>4, MemoryAssumption, SMTT(20) DEF Shutdown, Stop, Restart, DownIsEmpty
  <2>5. QED
    BY <2>1, <2>2, <2>3, <2>4
    DEF Next, vars, tables, SaveStart, SaveTouch, SaveInsert, SaveChunks, SaveIndex,
        SaveFails, CheckCompare, CheckMerge, CheckTouch, Delete, RecallSearch, RecallFetch, RecallTouch,
        SweepSteps, DetectNearDuplicates
<1>8. QED
  BY <1>2, <1>3, <1>4, <1>5, <1>6, <1>7 DEF HoldersTyped

-----------------------------------------------------------------------------
(* A recall whose memory was dead when it began drops it at the fetch.     *)
LEMMA DeadStep ==
  RowsNumbered /\ HoldersTyped /\ DeadStaysDead /\ [Next]_vars => DeadStaysDead'
<1> SUFFICES ASSUME RowsNumbered, HoldersTyped, DeadStaysDead, [Next]_vars
             PROVE  DeadStaysDead'
  OBVIOUS
<1>1. \A i \in Rows : mem'[i].valid => mem[i].valid
  BY RowsStep DEF RowsKept
<1>2. CASE recall' = recall
  BY <1>1, <1>2 DEF DeadStaysDead, DeletedNotRecalled, HoldersTyped
<1>3. ASSUME NEW i \in Id, RecallSearch(i) PROVE DeadStaysDead'
  BY <1>3 DEF RecallSearch, tables, DeadStaysDead, DeletedNotRecalled
<1>4. CASE RecallFetch
  <2>1. CASE Kept(recall.id) /\ recall.pc = "fetch" /\ recall' = [recall EXCEPT !.pc = "touch"]
    BY <2>1 DEF Kept, DeadStaysDead, DeletedNotRecalled, HoldersTyped
  <2>2. CASE recall' = NoRecall
    BY <2>2 DEF NoRecall, DeadStaysDead, DeletedNotRecalled
  <2>3. QED
    BY <1>4, <2>1, <2>2 DEF RecallFetch
<1>5. CASE RecallTouch \/ Stop
  BY <1>5 DEF RecallTouch, Stop, NoRecall, DeadStaysDead, DeletedNotRecalled
<1>6. QED
  BY <1>2, <1>3, <1>4, <1>5
  DEF Next, vars, tables, Tick, SaveStart, SaveTouch, SaveInsert, SaveChunks, SaveIndex,
      SaveFails, CheckCompare, CheckMerge, CheckTouch, Delete, SweepSteps, SweepStart, SweepList,
      SweepApply, DetectNearDuplicates, Shutdown, Restart

(* What the sweep has still to apply was listed by it, in this step or an  *)
(* earlier one.                                                            *)
LEMMA TodoStep ==
  ASSUME RowsNumbered, HoldersTyped, [Next]_vars
  PROVE  \/ sweep'.todo \subseteq sweep.todo
         \/ SweepList /\ sweep'.todo = Updates(sweep.k) /\ sweep.k \in 0..3
<1>1. CASE sweep' = sweep
  BY <1>1
<1>2. CASE SweepStart \/ Shutdown \/ Stop
  BY <1>2 DEF SweepStart, Shutdown, Stop, NoSweep, Sweeping
<1>3. CASE SweepList
  BY <1>3, AfterStageTyped DEF SweepList, HoldersTyped
<1>4. CASE SweepApply
  BY <1>4, AfterStageTyped DEF SweepApply, HoldersTyped
<1>5. QED
  BY <1>1, <1>2, <1>3, <1>4
  DEF Next, vars, tables, Tick, SaveStart, SaveTouch, SaveInsert, SaveChunks, SaveIndex,
      SaveFails, CheckCompare, CheckMerge, CheckTouch, Delete, RecallSearch, RecallFetch, RecallTouch,
      SweepSteps, DetectNearDuplicates, Restart

(* A stage of tombstone comes with the flag of a deletion.                 *)
LEMMA TombstoneStep ==
  RowsNumbered /\ HoldersTyped /\ SweepSparesRows /\ [Next]_vars => SweepSparesRows'
<1> SUFFICES ASSUME RowsNumbered, HoldersTyped, SweepSparesRows, [Next]_vars
             PROVE  SweepSparesRows'
  OBVIOUS
<1>1. RowsKept
  BY RowsStep
<1>2. \A u \in sweep'.todo : u[2] # "tombstone"
  BY TodoStep, UpdatesSound DEF SweepSparesRows
<1>3. \A i \in Rows : mem'[i].stage = "tombstone" => ~mem'[i].valid
  <2>1. \A i \in Rows : <<i, "tombstone">> \notin sweep.todo
    BY DEF SweepSparesRows
  <2>2. QED
    BY <1>1, <2>1 DEF RowsKept, SweepSparesRows, TombstonesAreDeletions
<1>4. \A i \in Rows' \ Rows : mem'[i].stage # "tombstone"
  BY <1>1 DEF RowsKept
<1>5. QED
  BY <1>2, <1>3, <1>4 DEF SweepSparesRows, TombstonesAreDeletions

(* Rows of earlier processes leave the retrievable ones and never join     *)
(* them, while the keyword index only grows.                               *)
LEMMA IndexStep ==
  RowsNumbered /\ HoldersTyped /\ DownIsEmpty /\ SweepKeepsRetrievable /\ [Next]_vars
    => SweepKeepsRetrievable'
<1> SUFFICES ASSUME RowsNumbered, HoldersTyped, DownIsEmpty, SweepKeepsRetrievable, [Next]_vars
             PROVE  SweepKeepsRetrievable'
  OBVIOUS
<1>1. RowsKept
  BY RowsStep
<1>2. /\ session \in Nat /\ session' \in Nat /\ session' >= session
      /\ phase' = "up" => phase = "up" \/ Restart
      /\ session' # session => Restart
  <2>1. session \in Nat
    BY MemoryAssumption DEF HoldersTyped
  <2>2. CASE UNCHANGED <<session, phase>>
    BY <2>1, <2>2
  <2>3. CASE SweepStart \/ SweepList \/ SweepApply
    BY <2>1, <2>3 DEF SweepStart, SweepList, SweepApply
  <2>4. CASE Shutdown \/ Stop \/ Restart
    BY <2>1, <2>4 DEF Shutdown, Stop, Restart
  <2>5. QED
    BY <2>2, <2>3, <2>4
    DEF Next, vars, tables, Tick, SaveStart, SaveTouch, SaveInsert, SaveChunks,
        SaveIndex, SaveFails, CheckCompare, CheckMerge, CheckTouch, Delete, RecallSearch, RecallFetch,
        RecallTouch, SweepSteps, DetectNearDuplicates
<1>3. fts \subseteq fts'
  BY DEF Next, vars, tables, Tick, SaveStart, SaveTouch, SaveInsert, SaveChunks,
      SaveIndex, SaveFails, CheckCompare, CheckMerge, CheckTouch, Delete, RecallSearch, RecallFetch,
      RecallTouch, SweepSteps, SweepStart, SweepList, SweepApply, DetectNearDuplicates,
      Shutdown, Stop, Restart, Reindexed
<1>4. \A i \in Rows' : mem'[i].session <= session'
  <2>1. \A i \in Rows : mem'[i].session = mem[i].session
    BY <1>1 DEF RowsKept, SameRow
  <2>2. \A i \in Rows : mem[i].session <= session
    BY DEF SweepKeepsRetrievable
  <2>3. \A i \in Rows : mem[i].session \in Nat
    BY MemoryAssumption, SMTT(20) DEF RowsNumbered, Row
  <2>4. \A i \in Rows' \ Rows : mem'[i].session = session
    BY <1>1 DEF RowsKept
  <2>5. QED
    BY <1>2, <2>1, <2>2, <2>3, <2>4
<1>5. \A i \in Rows : Retrievable(mem'[i].stage) /\ mem'[i].valid
        => Retrievable(mem[i].stage) /\ mem[i].valid
  BY <1>1 DEF RowsKept, SweepKeepsRetrievable
<1>6. OldRowsIndexed'
  <2> SUFFICES ASSUME phase' = "up", NEW i \in Rows', mem'[i].valid,
                      Retrievable(mem'[i].stage), mem'[i].session < session'
               PROVE  i \in fts'
    BY DEF OldRowsIndexed, ListRetrievable
  <2>1. CASE Restart
    <3>1. i \in ListRetrievable
      BY <2>1 DEF Restart, ListRetrievable, Rows
    <3>2. QED
      BY <2>1, <3>1 DEF Restart, Reindexed
  <2>2. CASE ~Restart
    <3>1. session' = session /\ phase = "up"
      BY <1>2, <2>2
    <3>2. i \in Rows
      BY <1>1, <1>2, <3>1 DEF RowsKept
    <3>3. mem'[i].session = mem[i].session
      BY <1>1, <3>2 DEF RowsKept, SameRow
    <3>4. i \in ListRetrievable
      BY <1>5, <3>2 DEF ListRetrievable
    <3>5. QED
      BY <1>3, <3>1, <3>3, <3>4 DEF SweepKeepsRetrievable, OldRowsIndexed
  <2>3. QED
    BY <2>1, <2>2
<1>7. ASSUME NEW u \in sweep'.todo, mem'[u[1]].valid, Retrievable(u[2])
      PROVE  Retrievable(mem'[u[1]].stage)
  <2>1. CASE SweepList
    BY <1>7, <2>1, TodoStep, UpdatesSound DEF SweepKeepsRetrievable, SweepList, tables
  <2>2. CASE SweepApply
    <3> DEFINE batch == Batch(sweep.todo)
    <3>1. /\ u \in sweep.todo \ batch /\ u[1] \in Rows /\ mem[u[1]].valid
      <4>1. sweep'.todo = {} \/ sweep'.todo = sweep.todo \ batch
        BY <2>2, AfterStageTyped DEF SweepApply, HoldersTyped
      <4>2. u \in sweep.todo \ batch /\ u[1] \in Rows
        BY <1>7, <4>1 DEF HoldersTyped
      <4>3. QED
        BY <1>1, <1>7, <4>2 DEF RowsKept
    <3>2. Retrievable(mem[u[1]].stage)
      BY <1>7, <3>1 DEF SweepKeepsRetrievable
    <3>3. \A v \in batch : v[2] = "semantic"
      BY <3>1 DEF Batch
    <3>4. /\ mem' = BatchUpdateStages(mem, batch) /\ mem \in [Rows -> Row]
      BY <2>2 DEF SweepApply, RowsNumbered
    <3>5. mem'[u[1]].stage = mem[u[1]].stage \/ <<u[1], mem'[u[1]].stage>> \in batch
      BY <3>1, <3>4, BatchRows
    <3>6. CASE <<u[1], mem'[u[1]].stage>> \in batch
      <4>1. <<u[1], mem'[u[1]].stage>>[2] = "semantic"
        BY <3>3, <3>6
      <4>2. QED
        BY <4>1 DEF Retrievable
    <3>7. QED
      BY <3>2, <3>5, <3>6
  <2>3. CASE ~SweepList /\ ~SweepApply
    <3>0. u \in sweep.todo
      BY <1>7, <2>3, TodoStep
    <3>1. u[1] \in Rows /\ mem[u[1]].valid
      BY <1>1, <1>7, <3>0 DEF RowsKept, HoldersTyped
    <3>2. Retrievable(mem[u[1]].stage)
      BY <1>7, <3>0, <3>1 DEF SweepKeepsRetrievable
    <3>3. mem'[u[1]].stage = mem[u[1]].stage
      BY <1>1, <1>7, <2>3, <3>1 DEF RowsKept
    <3>4. QED
      BY <3>2, <3>3
  <2>4. QED
    BY <2>1, <2>2, <2>3
<1>8. QED
  BY <1>4, <1>6, <1>7 DEF SweepKeepsRetrievable

-----------------------------------------------------------------------------
LEMMA Initially == Init => IInv
<1> SUFFICES ASSUME Init PROVE IInv
  OBVIOUS
<1> USE MemoryAssumption DEF Init
<1>1. Rows = {} /\ mem \in [Rows -> Row] /\ Cardinality(Rows) = 0
  <2>1. mem = <<>>
    OBVIOUS
  <2>2. DOMAIN mem = {} /\ mem \in [{} -> Row]
    BY <2>1
  <2>3. QED
    BY <2>2, FS_EmptySet DEF Rows
<1>2. {s \in Saver : saver[s].pc = "insert"} = {}
  BY DEF NoSave, AtRow
<1>3. RowsNumbered
  <2>1. Claimed = 0
    <3>1. Cardinality({s \in Saver : saver[s].pc = "insert"}) = 0
      BY <1>2, FS_EmptySet
    <3>2. QED
      BY <1>1, <3>1 DEF Claimed
  <2>2. Rows = 1..Cardinality(Rows)
    BY <1>1
  <2>3. QED
    BY <1>1, <2>1, <2>2 DEF RowsNumbered
<1>4. HoldersTyped
  BY <1>1 DEF HoldersTyped, NoSave, AtRow, NoSweep, NoRecall, SaverPcs
<1>5. DownIsEmpty /\ DeadStaysDead /\ SweepSparesRows
  BY <1>1 DEF DownIsEmpty, DeadStaysDead, DeletedNotRecalled, NoRecall,
     SweepSparesRows, NoSweep, TombstonesAreDeletions
<1>6. SweepKeepsRetrievable
  BY <1>1 DEF SweepKeepsRetrievable, NoSweep, OldRowsIndexed, ListRetrievable
<1>7. QED
  BY <1>3, <1>4, <1>5, <1>6 DEF IInv

LEMMA Inductive == IInv /\ [Next]_vars => IInv'
  BY NumberedStep, HoldersStep, DeadStep, TombstoneStep, IndexStep DEF IInv

(* The inductive invariant holds in every reachable state.                 *)
THEOREM Invariance == Spec => []IInv
  BY Initially, Inductive, PTL DEF Spec

(* Every reference to a memory, from the index, a link, a chunk, a save, a *)
(* check, the sweep or a recall, is to a row of the table.                 *)
THEOREM TypeCorrect == Spec => []TypeOK
<1>1. IInv => TypeOK
  <2> SUFFICES ASSUME IInv PROVE TypeOK
    OBVIOUS
  <2>1. Rows \subseteq Id /\ \A i \in Rows : mem[i] \in Row
    BY RowsBounded DEF IInv, RowsNumbered
  <2>2. QED
    BY <2>1 DEF IInv, HoldersTyped, TypeOK, SaverPcs
<1>2. QED
  BY Invariance, <1>1, PTL

(* A recall never returns a memory that was deleted or merged before it    *)
(* began, whatever the index, the links and an overlapping sweep do.       *)
THEOREM DeletedStaysUnread == Spec => []DeletedNotRecalled
<1>1. IInv => DeletedNotRecalled
  BY DEF IInv, DeadStaysDead
<1>2. QED
  BY Invariance, <1>1, PTL

(* The last stage of the sweep never makes a tombstone, with any           *)
(* thresholds of idleness and any importance threshold up to the default   *)
(* one: compute_importance starts at that threshold and only adds.         *)
THEOREM SweepMakesNoTombstone == Spec => []TombstonesAreDeletions
<1>1. IInv => TombstonesAreDeletions
  BY DEF IInv, SweepSparesRows
<1>2. QED
  BY Invariance, <1>1, PTL

(* Whatever a crash left half written is in the keyword index once the     *)
(* next process is up, for any number of processes.                        *)
THEOREM IndexRecovers == Spec => []OldRowsIndexed
<1>1. IInv => OldRowsIndexed
  BY DEF IInv, SweepKeepsRetrievable
<1>2. QED
  BY Invariance, <1>1, PTL

=============================================================================
