--------------------------- MODULE Keeping_proofs ---------------------------
(***************************************************************************)
(* What the components that must keep something keep, for any callers,     *)
(* messages, processes, keys and bounds.                                   *)
(***************************************************************************)
EXTENDS Keeping, FiniteSetTheorems, TLAPS

(* A member of a sequence.                                                 *)
InSeq(u, s) == \E i \in DOMAIN s : s[i] = u

LEMMA AppendMembers ==
  ASSUME NEW S, NEW s \in Seq(S), NEW e \in S
  PROVE  /\ Append(s, e) \in Seq(S)
         /\ \A u : InSeq(u, Append(s, e)) <=> InSeq(u, s) \/ u = e
<1>1. /\ Append(s, e) \in Seq(S) /\ Len(s) \in Nat
      /\ DOMAIN s = 1..Len(s) /\ DOMAIN Append(s, e) = 1..(Len(s) + 1)
      /\ \A i \in 1..Len(s) : Append(s, e)[i] = s[i]
      /\ Append(s, e)[Len(s) + 1] = e
  OBVIOUS
<1>2. ASSUME NEW u PROVE InSeq(u, Append(s, e)) <=> InSeq(u, s) \/ u = e
  BY <1>1 DEF InSeq
<1>3. QED
  BY <1>1, <1>2

LEMMA TailMembers ==
  ASSUME NEW S, NEW s \in Seq(S), s # <<>>
  PROVE  /\ Tail(s) \in Seq(S) /\ Head(s) \in S
         /\ \A u : InSeq(u, s) => InSeq(u, Tail(s)) \/ u = Head(s)
<1>1. /\ Tail(s) \in Seq(S) /\ Head(s) \in S /\ Head(s) = s[1]
      /\ Len(s) \in Nat \ {0} /\ DOMAIN s = 1..Len(s) /\ DOMAIN Tail(s) = 1..(Len(s) - 1)
      /\ \A i \in 1..(Len(s) - 1) : Tail(s)[i] = s[i + 1]
  OBVIOUS
<1>2. ASSUME NEW i \in 1..Len(s) PROVE InSeq(s[i], Tail(s)) \/ s[i] = Head(s)
  <2>1. CASE i = 1
    BY <1>1, <2>1
  <2>2. CASE i # 1
    <3>1. i - 1 \in DOMAIN Tail(s) /\ Tail(s)[i - 1] = s[(i - 1) + 1] /\ (i - 1) + 1 = i
      BY <1>1, <2>2
    <3>2. QED
      BY <3>1 DEF InSeq
  <2>3. QED
    BY <2>1, <2>2
<1>3. QED
  BY <1>1, <1>2 DEF InSeq

-----------------------------------------------------------------------------
(* The Signal channel: a message the server has forgotten is in the poll's *)
(* answer, in the queue, or was hurt.                                      *)
SignalInv ==
  /\ arrived \in 0..Len(KindOf) /\ conf \subseteq 1..arrived
  /\ batch \in Seq(1..Len(KindOf)) /\ queue \in Seq(1..Len(KindOf))
  /\ \A u \in conf : KindOf[u] = "text" => InSeq(u, queue) \/ InSeq(u, batch) \/ u \in hurt

LEMMA SignalStep == SignalInv /\ [Signal!Next]_signalVars => SignalInv'
<1> SUFFICES ASSUME SignalInv, [Signal!Next]_signalVars PROVE SignalInv'
  OBVIOUS
<1> DEFINE M == 1..Len(KindOf)
<1>0. /\ Len(KindOf) \in Nat /\ DOMAIN KindOf = M /\ arrived \in Nat /\ 1..arrived \subseteq M
      /\ batch \in Seq(M) /\ queue \in Seq(M)
  BY KeepingAssumption DEF Signal!SignalAssumption, SignalInv
<1> USE DEF SignalInv
<1>1. CASE Signal!Arrive
  BY <1>0, <1>1 DEF Signal!Arrive
<1>2. CASE Signal!Poll
  <2>1. /\ conf' = 1..arrived /\ batch = <<>> /\ batch' \in Signal!InOrder((1..arrived) \ conf)
        /\ UNCHANGED <<arrived, queue, hurt>>
    BY <1>2 DEF Signal!Poll, Signal!Waiting
  <2>2. PICK n \in 0..arrived : batch' \in [1..n -> (1..arrived) \ conf]
    BY <2>1 DEF Signal!InOrder
  <2>3. batch' \in Seq(M)
    BY <1>0, <2>2
  <2>4. \A u \in (1..arrived) \ conf : InSeq(u, batch')
    BY <2>1 DEF Signal!InOrder, InSeq
  <2>5. \A u : ~InSeq(u, batch)
    BY <2>1 DEF InSeq
  <2>6. QED
    BY <2>1, <2>3, <2>4, <2>5
<1>3. CASE Signal!PollFails
  BY <1>0, <1>3 DEF Signal!PollFails, Signal!Waiting
<1>4. CASE Signal!HandleNext
  <2> DEFINE h == Head(batch)
  <2>1. /\ batch' = Tail(batch) /\ UNCHANGED <<arrived, conf, hurt>> /\ batch # <<>>
        /\ queue' = IF KindOf[h] = "text" THEN Append(queue, h) ELSE queue
    BY <1>4 DEF Signal!HandleNext, Signal!HandleEnvelope
  <2>2. /\ batch' \in Seq(M) /\ h \in M
        /\ \A u : InSeq(u, batch) => InSeq(u, batch') \/ u = h
    BY <1>0, <2>1, TailMembers
  <2>3. /\ Append(queue, h) \in Seq(M)
        /\ \A u : InSeq(u, Append(queue, h)) <=> InSeq(u, queue) \/ u = h
    BY <1>0, <2>2, AppendMembers
  <2> HIDE DEF h
  <2>4. queue' \in Seq(M) /\ \A u : InSeq(u, queue) => InSeq(u, queue')
    BY <1>0, <2>1, <2>3
  <2>5. KindOf[h] = "text" => InSeq(h, queue')
    BY <2>1, <2>3
  <2>6. QED
    BY <1>0, <2>1, <2>2, <2>4, <2>5
<1>5. ASSUME NEW u, Signal!WebhookPost(u) PROVE SignalInv'
  <2>1. /\ u \in 1..arrived /\ u \in M /\ UNCHANGED <<arrived, batch>> /\ conf' = conf \cup {u}
        /\ \/ hurt' = hurt \cup {u} /\ queue' = queue
           \/ hurt' = hurt /\ queue' = IF KindOf[u] = "text" THEN Append(queue, u) ELSE queue
    BY <1>0, <1>5 DEF Signal!WebhookPost, Signal!Waiting, Signal!HandleEnvelope
  <2>2. /\ Append(queue, u) \in Seq(M)
        /\ \A v : InSeq(v, Append(queue, u)) <=> InSeq(v, queue) \/ v = u
    BY <1>0, <2>1, AppendMembers
  <2>3. queue' \in Seq(M) /\ \A v : InSeq(v, queue) => InSeq(v, queue')
    BY <1>0, <2>1, <2>2
  <2>4. KindOf[u] = "text" => InSeq(u, queue') \/ u \in hurt'
    BY <2>1, <2>2
  <2>5. QED
    BY <1>0, <2>1, <2>3, <2>4
<1>6. CASE Signal!Crash
  <2>1. \A u \in conf : InSeq(u, queue) \/ InSeq(u, batch) => u \in hurt'
    BY <1>0, <1>6 DEF Signal!Crash, Signal!Queued, Signal!Fetched, Signal!SignalMessage, InSeq
  <2>2. hurt \subseteq hurt' /\ conf' = conf /\ arrived' = arrived /\ queue' = <<>> /\ batch' = <<>>
    BY <1>6 DEF Signal!Crash
  <2>3. QED
    BY <1>0, <2>1, <2>2
<1>7. CASE UNCHANGED <<arrived, conf, batch, queue, hurt>>
  BY <1>7
<1>8. QED
  BY <1>1, <1>2, <1>3, <1>4, <1>5, <1>6, <1>7 DEF Signal!Next, Signal!PauseEnds, signalVars

-----------------------------------------------------------------------------
(* The process tools.                                                      *)
JobRecord == [at : {"off", "write", "spawn", "wait", "clean", "lock", "kill", "reap"},
              kind : {"start", "stop", "list", "exec", "code"},
              pid : Pid \cup {"none"}, id : Nat]
OsRecord == [state : {"free", "running", "dying", "exited"}, by : Nat]

ProcessTyped ==
  /\ os \in [Pid -> OsRecord] /\ children \in [Pid -> Nat]
  /\ job \in [Starter -> JobRecord] /\ begun \in Nat
  /\ \A c \in Starter : job[c].at = "lock" /\ job[c].kind = "stop" => job[c].pid \in Pid

(* A call that has the handle of a child in its hands.                     *)
HasHandle(j) == j.at \in {"wait", "kill", "reap"} \/ (j.at = "lock" /\ j.kind = "start")

Lives(p, id) == os[p].by = id /\ os[p].state # "free"

(* The handle of a child is in one place, and while it is, the pid is that *)
(* child's: nobody else can reap it.                                       *)
OneHandle ==
  /\ \A p \in Pid : children[p] # 0 => Lives(p, children[p])
  /\ \A c \in Starter : HasHandle(job[c]) =>
       job[c].pid \in Pid /\ Lives(job[c].pid, job[c].id) /\ children[job[c].pid] = 0
  /\ \A c, d \in Starter :
       c # d /\ HasHandle(job[c]) /\ HasHandle(job[d]) => job[c].pid # job[d].pid

ProcessInv == ProcessTyped /\ OneHandle

(* A step that gives call c the job r without a handle, and leaves children *)
(* and their processes alone but for the one whose handle c had.            *)
LEMMA LetsGo ==
  ASSUME ProcessInv, NEW c \in Starter, NEW r \in JobRecord, ~HasHandle(r),
         r.at = "lock" /\ r.kind = "stop" => r.pid \in Pid,
         job' = [job EXCEPT ![c] = r], children' = children, begun' \in Nat,
         \/ os' = os
         \/ HasHandle(job[c]) /\ os' = [os EXCEPT ![job[c].pid] = Process!NoProcess]
  PROVE  ProcessInv'
<1> USE DEF ProcessInv, ProcessTyped, OneHandle, Lives
<1>1. /\ job' \in [Starter -> JobRecord] /\ job'[c] = r
      /\ \A d \in Starter \ {c} : job'[d] = job[d]
  OBVIOUS
<1>2. os' \in [Pid -> OsRecord] /\ \A p \in Pid : p = job[c].pid \/ os'[p] = os[p]
  BY DEF Process!NoProcess, OsRecord
<1>3. ASSUME NEW p \in Pid, children[p] # 0 PROVE os'[p] = os[p]
  BY <1>2, <1>3
<1>4. ASSUME NEW d \in Starter, HasHandle(job'[d]) PROVE d # c /\ os'[job[d].pid] = os[job[d].pid]
  BY <1>1, <1>2, <1>4
<1>5. QED
  BY <1>1, <1>2, <1>3, <1>4

(* A step that gives call c the handle of the child under pid p, from the   *)
(* map or by starting the child.                                            *)
LEMMA Takes ==
  ASSUME ProcessInv, NEW c \in Starter, NEW p \in Pid,
         job' \in [Starter -> JobRecord], \A d \in Starter \ {c} : job'[d] = job[d],
         ~HasHandle(job[c]), HasHandle(job'[c]), job'[c].pid = p, begun' \in Nat,
         \/ /\ children[p] # 0 /\ job'[c].id = children[p]
            /\ children' = [children EXCEPT ![p] = 0] /\ os' = os
         \/ /\ os[p].state = "free" /\ children' = children
            /\ os' = [os EXCEPT ![p] = [state |-> "running", by |-> job'[c].id]]
  PROVE  ProcessInv'
<1> USE DEF ProcessInv, ProcessTyped, OneHandle, Lives
<1>1. ASSUME NEW d \in Starter, HasHandle(job[d]) PROVE job[d].pid \in Pid \ {p}
  BY <1>1
<1>2. job'[c].id \in Nat
  BY DEF JobRecord
<1>3. children' \in [Pid -> Nat] /\ children'[p] = 0
      /\ \A q \in Pid \ {p} : children'[q] = children[q]
  OBVIOUS
<1>4. /\ os' \in [Pid -> OsRecord]
      /\ os'[p].by = job'[c].id /\ os'[p].state # "free"
      /\ \A q \in Pid \ {p} : os'[q] = os[q]
  <2>1. [state |-> "running", by |-> job'[c].id] \in OsRecord
    BY <1>2 DEF OsRecord
  <2>2. QED
    BY <2>1
<1>5. QED
  BY <1>1, <1>3, <1>4 DEF HasHandle

LEMMA ProcessStep == ProcessInv /\ [Process!Next]_processVars => ProcessInv'
<1> SUFFICES ASSUME ProcessInv, [Process!Next]_processVars PROVE ProcessInv'
  OBVIOUS
<1>0. ProcessTyped /\ OneHandle
  BY DEF ProcessInv
<1>n. Process!NoJob \in JobRecord /\ ~HasHandle(Process!NoJob) /\ Process!NoJob.at = "off"
  BY DEF Process!NoJob, Process!NoPid, JobRecord, HasHandle
<1>1. ASSUME NEW c \in Starter, Process!Execute(c) PROVE ProcessInv'
  <2>1. begun + 1 \in Nat
    BY <1>0 DEF ProcessTyped
  <2> DEFINE J(a, k, p) == [at |-> a, kind |-> k, pid |-> p, id |-> begun + 1]
  <2>2. ASSUME NEW a \in {"spawn", "write", "lock"},
               NEW k \in {"start", "stop", "list", "exec", "code"}, NEW p \in Pid \cup {"none"},
               a = "lock" => k = "list" \/ (k = "stop" /\ p \in Pid),
               job' = [job EXCEPT ![c] = J(a, k, p)]
        PROVE  ProcessInv'
    <3>1. J(a, k, p) \in JobRecord /\ ~HasHandle(J(a, k, p))
          /\ (J(a, k, p).at = "lock" /\ J(a, k, p).kind = "stop" => J(a, k, p).pid \in Pid)
      BY <2>1, <2>2 DEF JobRecord, HasHandle
    <3> HIDE DEF J
    <3>2. QED
      BY <1>1, <2>1, <2>2, <3>1, LetsGo DEF Process!Execute
  <2>3. \/ \E k \in {"start", "exec"} : job' = [job EXCEPT ![c] = J("spawn", k, "none")]
        \/ job' = [job EXCEPT ![c] = J("write", "code", "none")]
        \/ \E p \in Pid : job' = [job EXCEPT ![c] = J("lock", "stop", p)]
        \/ job' = [job EXCEPT ![c] = J("lock", "list", "none")]
    BY <1>1 DEF Process!Execute, Process!NoPid
  <2> HIDE DEF J
  <2>4. QED
    BY <2>2, <2>3
<1>2. ASSUME NEW c \in Starter,
             \/ Process!WriteScript(c) \/ Process!SpawnFails(c) \/ Process!ToolTimeout(c)
             \/ Process!RemoveScript(c) \/ Process!List(c) \/ Process!AttemptTimeout(c)
      PROVE  ProcessInv'
  <2>1. job[c] \in JobRecord
    BY <1>0 DEF ProcessTyped
  <2>2. \A a \in {"spawn", "clean"} : [job[c] EXCEPT !.at = a] \in JobRecord
                                      /\ [job[c] EXCEPT !.at = a].at = a
    BY <2>1 DEF JobRecord
  <2>3. \E r \in JobRecord :
          job' = [job EXCEPT ![c] = r] /\ r.at \in {"spawn", "clean", "off"}
    BY <1>2, <1>n, <2>2
    DEF Process!WriteScript, Process!SpawnFails, Process!ToolTimeout,
        Process!RemoveScript, Process!List, Process!AttemptTimeout
  <2>4. UNCHANGED <<os, children, begun>>
    BY <1>2
    DEF Process!WriteScript, Process!SpawnFails, Process!ToolTimeout,
        Process!RemoveScript, Process!List, Process!AttemptTimeout
  <2>5. QED
    BY <1>0, <2>3, <2>4, LetsGo DEF HasHandle, ProcessTyped
<1>3. ASSUME NEW c \in Starter, Process!Output(c) PROVE ProcessInv'
  <2>1. job[c] \in JobRecord /\ HasHandle(job[c])
    BY <1>0, <1>3 DEF ProcessTyped, Process!Output, HasHandle
  <2>2. [job[c] EXCEPT !.at = "clean"] \in JobRecord /\ [job[c] EXCEPT !.at = "clean"].at = "clean"
    BY <2>1 DEF JobRecord
  <2>3. \E r \in JobRecord : job' = [job EXCEPT ![c] = r] /\ r.at \in {"clean", "off"}
    BY <1>3, <1>n, <2>2 DEF Process!Output
  <2>4. QED
    BY <1>0, <1>3, <2>1, <2>3, LetsGo DEF HasHandle, ProcessTyped, Process!Output
<1>4. ASSUME NEW c \in Starter, Process!Reap(c) PROVE ProcessInv'
  BY <1>0, <1>4, <1>n, LetsGo DEF HasHandle, ProcessTyped, Process!Reap
<1>5. ASSUME NEW c \in Starter, Process!Spawn(c) PROVE ProcessInv'
  <2>1. PICK p \in Pid :
          /\ job[c].at = "spawn" /\ os[p].state = "free" /\ children' = children /\ begun' = begun
          /\ os' = [os EXCEPT ![p] = [state |-> "running", by |-> job[c].id]]
          /\ job' = [job EXCEPT ![c].at = IF job[c].kind = "start" THEN "lock" ELSE "wait",
                                ![c].pid = p]
    BY <1>5 DEF Process!Spawn
  <2>2. job[c] \in JobRecord /\ job \in [Starter -> JobRecord]
    BY <1>0 DEF ProcessTyped
  <2>3. /\ job' \in [Starter -> JobRecord] /\ \A d \in Starter \ {c} : job'[d] = job[d]
        /\ job'[c].pid = p /\ job'[c].id = job[c].id
        /\ job'[c].at = "wait" \/ (job'[c].at = "lock" /\ job'[c].kind = "start")
    BY <2>1, <2>2 DEF JobRecord
  <2>4. HasHandle(job'[c]) /\ ~HasHandle(job[c])
    BY <2>1, <2>3 DEF HasHandle
  <2>5. QED
    BY <1>0, <2>1, <2>3, <2>4, Takes DEF ProcessTyped
<1>6. ASSUME NEW c \in Starter, Process!Stop(c) PROVE ProcessInv'
  <2>1. job[c] \in JobRecord /\ job \in [Starter -> JobRecord] /\ job[c].pid \in Pid
    BY <1>0, <1>6 DEF ProcessTyped, Process!Stop
  <2>2. CASE children[job[c].pid] = 0
    BY <1>0, <1>6, <1>n, <2>2, LetsGo DEF ProcessTyped, Process!Stop
  <2>3. CASE children[job[c].pid] # 0
    <3>1. /\ job' \in [Starter -> JobRecord] /\ \A d \in Starter \ {c} : job'[d] = job[d]
          /\ job'[c].pid = job[c].pid /\ job'[c].at = "kill"
          /\ job'[c].id = children[job[c].pid]
      BY <1>0, <1>6, <2>1, <2>3 DEF JobRecord, Process!Stop, ProcessTyped
    <3>2. /\ HasHandle(job'[c]) /\ ~HasHandle(job[c]) /\ os' = os /\ begun' = begun
          /\ children' = [children EXCEPT ![job[c].pid] = 0]
      BY <1>6, <2>3, <3>1 DEF HasHandle, Process!Stop
    <3>3. QED
      BY <1>0, <2>1, <2>3, <3>1, <3>2, Takes DEF ProcessTyped
  <2>4. QED
    BY <2>2, <2>3
<1>7. ASSUME NEW c \in Starter, Process!Insert(c) PROVE ProcessInv'
  <2>1. /\ HasHandle(job[c]) /\ job' = [job EXCEPT ![c] = Process!NoJob]
        /\ children' = [children EXCEPT ![job[c].pid] = job[c].id]
        /\ os' = os /\ begun' = begun
    BY <1>7 DEF Process!Insert, HasHandle
  <2>2. /\ job' \in [Starter -> JobRecord] /\ ~HasHandle(job'[c]) /\ job'[c].at # "lock"
        /\ \A d \in Starter \ {c} : job'[d] = job[d]
    BY <1>0, <1>n, <2>1 DEF ProcessTyped
  <2>3. /\ job[c].pid \in Pid /\ job[c].id \in Nat /\ children' \in [Pid -> Nat]
        /\ children'[job[c].pid] = job[c].id
        /\ \A p \in Pid \ {job[c].pid} : children'[p] = children[p]
    BY <1>0, <2>1 DEF ProcessTyped, OneHandle, JobRecord
  <2>4. QED
    BY <1>0, <2>1, <2>2, <2>3 DEF ProcessInv, ProcessTyped, OneHandle, Lives
<1>8. ASSUME NEW c \in Starter, Process!Kill(c) PROVE ProcessInv'
  <2>1. job[c] \in JobRecord /\ HasHandle(job[c])
    BY <1>0, <1>8 DEF ProcessTyped, Process!Kill, HasHandle
  <2>2. /\ job' \in [Starter -> JobRecord]
        /\ \A d \in Starter : /\ job'[d].pid = job[d].pid /\ job'[d].id = job[d].id
                              /\ HasHandle(job'[d]) = HasHandle(job[d])
                              /\ job'[d].at = "lock" => job'[d] = job[d]
    BY <1>0, <1>8, <2>1 DEF ProcessTyped, Process!Kill, HasHandle, JobRecord
  <2>3. /\ os' \in [Pid -> OsRecord]
        /\ \A p \in Pid : os'[p].by = os[p].by
                          /\ (os[p].state # "free" => os'[p].state # "free")
    BY <1>0, <1>8 DEF ProcessTyped, Process!Kill, OsRecord
  <2>4. children' = children /\ begun' = begun
    BY <1>8 DEF Process!Kill
  <2>5. QED
    BY <1>0, <2>2, <2>3, <2>4 DEF ProcessInv, ProcessTyped, OneHandle, Lives
<1>9. ASSUME NEW p \in Pid, Process!Exits(p) PROVE ProcessInv'
  <2>1. /\ os' \in [Pid -> OsRecord]
        /\ \A q \in Pid : os'[q].by = os[q].by
                          /\ (os[q].state # "free" => os'[q].state # "free")
    BY <1>0, <1>9 DEF ProcessTyped, Process!Exits, OsRecord
  <2>2. QED
    BY <1>0, <1>9, <2>1 DEF ProcessInv, ProcessTyped, OneHandle, Lives, Process!Exits
<1>10. ASSUME NEW p \in Pid, Process!Orphaned(p) PROVE ProcessInv'
  <2>1. /\ os' \in [Pid -> OsRecord] /\ \A q \in Pid \ {p} : os'[q] = os[q]
    BY <1>0, <1>10 DEF ProcessTyped, Process!Orphaned, Process!NoProcess, OsRecord
  <2>2. /\ children[p] = 0 /\ UNCHANGED <<children, job, begun>>
        /\ \A c \in Starter : job[c].pid = p => job[c].id # os[p].by
    BY <1>0, <1>10 DEF Process!Orphaned, Process!Retained
  <2>3. \A c \in Starter : HasHandle(job[c]) => job[c].pid # p
    BY <1>0, <2>2 DEF OneHandle, Lives
  <2>4. QED
    BY <1>0, <2>1, <2>2, <2>3 DEF ProcessInv, ProcessTyped, OneHandle, Lives
<1>11. CASE UNCHANGED processVars
  BY <1>0, <1>11 DEF processVars, ProcessInv, ProcessTyped, OneHandle, Lives
<1>12. QED
  BY <1>1, <1>2, <1>3, <1>4, <1>5, <1>6, <1>7, <1>8, <1>9, <1>10, <1>11 DEF Process!Next

-----------------------------------------------------------------------------
(* The master key.  A start that found no key saves the one it makes: the  *)
(* store still has none then, or the entry was written since, or this one  *)
(* could not read it.                                                      *)
ProcShape(p) ==
  DOMAIN secretProcs[p] = {"pc", "key", "env", "for", "held", "from"}

SecretInv ==
  /\ DOMAIN secretProcs = {"server", "cli"} /\ ProcShape("server") /\ ProcShape("cli")
  /\ DOMAIN rows = Secret!Name
  /\ \A p \in {"server", "cli"} :
       secretProcs[p].pc = "generate" => p \in stale \/ ringKey = Secret!None

(* What a step that begins no look for a key may do to a process.          *)
Passes(p) ==
  /\ ProcShape(p)'
  /\ secretProcs'[p].pc = "generate" => secretProcs'[p] = secretProcs[p]

LEMMA SecretStep == SecretInv /\ [Secret!Next]_secretVars => SecretInv'
<1> SUFFICES ASSUME SecretInv, [Secret!Next]_secretVars PROVE SecretInv'
  OBVIOUS
<1> USE DEF SecretInv
<1>k. MaxKeys \in Nat
  BY KeepingAssumption DEF Secret!SecretAssumption
<1>s. ASSUME NEW r, DOMAIN r = {"pc", "key", "env", "for", "held", "from"},
             NEW p \in {"server", "cli"}, secretProcs' = [secretProcs EXCEPT ![p] = r],
             r.pc # "generate"
      PROVE  DOMAIN secretProcs' = {"server", "cli"} /\ Passes("server") /\ Passes("cli")
  BY <1>s DEF Passes, ProcShape
<1>i. /\ DOMAIN Secret!Idle = {"pc", "key", "env", "for", "held", "from"}
      /\ Secret!Idle.pc # "generate"
  BY DEF Secret!Idle
<1>q. ASSUME DOMAIN secretProcs' = {"server", "cli"}, Passes("server"), Passes("cli"),
             DOMAIN rows' = Secret!Name,
             \/ ringKey' = ringKey /\ stale' = stale
             \/ ringKey' = Secret!None
             \/ stale' = Secret!Making
      PROVE  SecretInv'
  BY <1>q DEF Passes, Secret!Making, Secret!Process
<1> DEFINE Fields == {"pc", "key", "env", "for", "held", "from"}
<1>c. ASSUME NEW p \in {"server", "cli"},
             \E r : /\ DOMAIN r = Fields /\ r.pc # "generate"
                    /\ secretProcs' = [secretProcs EXCEPT ![p] = r],
             DOMAIN rows' = Secret!Name, ringKey' = ringKey, stale' = stale
      PROVE  SecretInv'
  BY <1>c, <1>s, <1>q
<1>1. CASE Secret!StartServer
  <2>1. PICK env \in SUBSET (Secret!Name \cup {"master"}) :
          secretProcs' = [secretProcs EXCEPT !["server"] =
            [Secret!Idle EXCEPT !.pc = "key", !.env = env]]
    BY <1>1 DEF Secret!StartServer, Secret!Begin
  <2> DEFINE r == [Secret!Idle EXCEPT !.pc = "key", !.env = env]
  <2>2. DOMAIN r = Fields /\ r.pc # "generate"
    BY <1>i
  <2>3. secretProcs' = [secretProcs EXCEPT !["server"] = r]
    BY <2>1
  <2> HIDE DEF r
  <2>4. QED
    BY <1>1, <1>c, <2>2, <2>3 DEF Secret!StartServer
<1>2. ASSUME NEW n \in Secret!Name, Secret!CliSet(n) PROVE SecretInv'
  <2>1. PICK env \in SUBSET {"master"} :
          secretProcs' = [secretProcs EXCEPT !["cli"] =
            IF db THEN [Secret!Idle EXCEPT !.pc = "key", !.env = env,
                                           !.for = n, !.held = values + 1]
            ELSE Secret!Idle]
    BY <1>2 DEF Secret!CliSet, Secret!Begin
  <2> DEFINE r == IF db THEN [Secret!Idle EXCEPT !.pc = "key", !.env = env,
                                                 !.for = n, !.held = values + 1]
                  ELSE Secret!Idle
  <2>2. DOMAIN r = Fields /\ r.pc # "generate"
    BY <1>i
  <2>3. secretProcs' = [secretProcs EXCEPT !["cli"] = r]
    BY <2>1
  <2> HIDE DEF r
  <2>4. QED
    BY <1>2, <1>c, <2>2, <2>3 DEF Secret!CliSet
<1>3. CASE Secret!CliMigrate
  <2>1. PICK env \in SUBSET {"master"} :
          secretProcs' = [secretProcs EXCEPT !["cli"] =
            [Secret!Idle EXCEPT !.pc = "key", !.env = env, !.for = "check"]]
    BY <1>3 DEF Secret!CliMigrate, Secret!Begin
  <2> DEFINE r == [Secret!Idle EXCEPT !.pc = "key", !.env = env, !.for = "check"]
  <2>2. DOMAIN r = Fields /\ r.pc # "generate"
    BY <1>i
  <2>3. secretProcs' = [secretProcs EXCEPT !["cli"] = r]
    BY <2>1
  <2> HIDE DEF r
  <2>4. QED
    BY <1>3, <1>c, <2>2, <2>3 DEF Secret!CliMigrate
<1>r. CASE Secret!CliResolveAgain
  <2> DEFINE c == secretProcs["cli"]
             r == IF db THEN [c EXCEPT !.pc = "key", !.key = Secret!None, !.for = "all"]
                  ELSE Secret!Idle
  <2>1. DOMAIN r = Fields /\ r.pc # "generate"
    BY <1>i DEF ProcShape
  <2>2. secretProcs' = [secretProcs EXCEPT !["cli"] = r]
    BY <1>r DEF Secret!CliResolveAgain
  <2> HIDE DEF r
  <2>3. QED
    BY <1>r, <1>c, <2>1, <2>2 DEF Secret!CliResolveAgain
<1>w. ASSUME NEW key, Secret!CliSetKey(key) \/ Secret!ToolWritesKey(key) PROVE SecretInv'
  <2>1. DOMAIN secretProcs' = {"server", "cli"} /\ Passes("server") /\ Passes("cli")
    <3>1. CASE Secret!CliSetKey(key)
      BY <1>i, <1>s, <3>1 DEF Secret!CliSetKey, Secret!Begin
    <3>2. CASE Secret!ToolWritesKey(key)
      BY <3>2 DEF Secret!ToolWritesKey, Passes, ProcShape
    <3>3. QED
      BY <1>w, <3>1, <3>2
  <2>2. stale' = Secret!Making /\ rows' = rows
    BY <1>w DEF Secret!CliSetKey, Secret!ToolWritesKey
  <2>3. QED
    BY <1>q, <2>1, <2>2
<1>4. ASSUME NEW p \in {"server", "cli"}, rows' = rows,
             Secret!NoKey(p) \/ \E k : Secret!Opens(p, k),
             \/ ringKey' = ringKey /\ stale \ {p} \subseteq stale'
             \/ Secret!Making \ {p} \subseteq stale'
      PROVE  SecretInv'
  <2>1. /\ DOMAIN secretProcs' = {"server", "cli"} /\ ProcShape("server")' /\ ProcShape("cli")'
        /\ secretProcs'[p].pc # "generate"
        /\ \A q \in {"server", "cli"} : q # p => secretProcs'[q] = secretProcs[q]
    <3>1. CASE Secret!NoKey(p)
      <4> DEFINE c == secretProcs[p]
                 r == IF c.for = "check" THEN [c EXCEPT !.pc = "open"] ELSE Secret!Idle
      <4>1. DOMAIN r = Fields /\ r.pc # "generate"
        BY <1>i DEF ProcShape
      <4>2. secretProcs' = [secretProcs EXCEPT ![p] = r]
        BY <3>1 DEF Secret!NoKey
      <4> HIDE DEF r
      <4>3. QED
        BY <4>1, <4>2 DEF ProcShape
    <3>2. CASE \E k : Secret!Opens(p, k)
      BY <3>2 DEF Secret!Opens, ProcShape
    <3>3. QED
      BY <1>4, <3>1, <3>2
  <2>2. ASSUME NEW q \in {"server", "cli"}, secretProcs'[q].pc = "generate"
        PROVE  q \in stale' \/ ringKey' = Secret!None
    <3>1. q # p /\ secretProcs[q].pc = "generate"
      BY <2>1, <2>2
    <3>2. q \in Secret!Making /\ (q \in stale \/ ringKey = Secret!None)
      BY <3>1 DEF Secret!Making, Secret!Process
    <3>3. QED
      BY <1>4, <3>1, <3>2
  <2>3. QED
    BY <1>4, <2>1, <2>2
<1>5. ASSUME NEW p \in {"server", "cli"}, Secret!FindKey(p) PROVE SecretInv'
  <2>0. ringKey' = ringKey /\ rows' = rows
    BY <1>5 DEF Secret!FindKey
  <2>1. CASE (Secret!NoKey(p) \/ \E k : Secret!Opens(p, k)) /\ stale' = stale
    BY <1>4, <2>0, <2>1
  <2>2. CASE Secret!KeyFound(p) = Secret!None /\ Secret!Available
             /\ Secret!Goto(p, "generate") /\ stale' = stale \ {p}
    <3>1. ringKey = Secret!None
      BY <1>k, <2>2 DEF Secret!KeyFound, Secret!None
    <3>2. DOMAIN secretProcs' = {"server", "cli"} /\ ProcShape("server")' /\ ProcShape("cli")'
      BY <2>2 DEF ProcShape, Secret!Goto
    <3>3. QED
      BY <2>0, <3>1, <3>2
  <2>3. QED
    BY <1>5, <2>1, <2>2 DEF Secret!FindKey
<1>6. ASSUME NEW p \in {"server", "cli"}, Secret!MissKey(p) PROVE SecretInv'
  <2>0. ringKey' = ringKey /\ rows' = rows
    BY <1>6 DEF Secret!MissKey
  <2>1. CASE Secret!NoKey(p) /\ stale' = stale
    BY <1>4, <2>0, <2>1
  <2>2. CASE Secret!Goto(p, "generate") /\ stale' = stale \cup {p}
    <3>1. /\ DOMAIN secretProcs' = {"server", "cli"} /\ ProcShape("server")' /\ ProcShape("cli")'
          /\ \A q \in {"server", "cli"} : q # p => secretProcs'[q] = secretProcs[q]
      BY <2>2 DEF ProcShape, Secret!Goto
    <3>2. QED
      BY <2>0, <2>2, <3>1
  <2>3. QED
    BY <1>6, <2>1, <2>2 DEF Secret!MissKey
<1>7. ASSUME NEW p \in {"server", "cli"}, Secret!SaveKey(p) PROVE SecretInv'
  <2>0. rows' = rows
    BY <1>7 DEF Secret!SaveKey
  <2>1. CASE Secret!NoKey(p) /\ ringKey' = ringKey /\ stale' = stale \ {p}
    BY <1>4, <2>0, <2>1
  <2>2. CASE Secret!Opens(p, keys + 1) /\ stale' = Secret!Making \ {p}
    BY <1>4, <2>0, <2>2
  <2>3. QED
    BY <1>7, <2>1, <2>2 DEF Secret!SaveKey
<1>8. CASE Secret!CliEnds
  <2>1. DOMAIN rows' = Secret!Name
    BY <1>8 DEF Secret!CliEnds, Secret!StoreSet
  <2>2. QED
    BY <1>8, <1>s, <1>i, <1>q, <2>1 DEF Secret!CliEnds
<1>9. ASSUME \/ secretProcs' = [secretProcs EXCEPT !["server"] = Secret!Idle]
             \/ \E pc \in {"resolve", "running"} :
                  secretProcs' = [secretProcs EXCEPT !["server"].pc = pc]
             \/ \E v, from :
                  secretProcs' = [secretProcs EXCEPT !["server"].pc = "persist",
                                    !["server"].held = v, !["server"].from = from]
             \/ secretProcs' = secretProcs,
             DOMAIN rows' = Secret!Name, ringKey' = ringKey, stale' = stale
      PROVE  SecretInv'
  <2>1. ASSUME secretProcs' = [secretProcs EXCEPT !["server"] = Secret!Idle]
        PROVE  SecretInv'
    <3>1. DOMAIN secretProcs' = {"server", "cli"} /\ Passes("server") /\ Passes("cli")
      BY <1>s, <1>i, <2>1
    <3>2. QED
      BY <1>9, <1>q, <3>1
  <2>2. ASSUME NEW pc \in {"resolve", "running"},
               secretProcs' = [secretProcs EXCEPT !["server"].pc = pc]
        PROVE  SecretInv'
    <3>1. DOMAIN secretProcs' = {"server", "cli"} /\ Passes("server") /\ Passes("cli")
      BY <2>2 DEF Passes, ProcShape
    <3>2. QED
      BY <1>9, <1>q, <3>1
  <2>3. ASSUME NEW v, NEW from,
               secretProcs' = [secretProcs EXCEPT !["server"].pc = "persist",
                                 !["server"].held = v, !["server"].from = from]
        PROVE  SecretInv'
    <3>1. /\ DOMAIN secretProcs' = {"server", "cli"} /\ ProcShape("server")'
          /\ secretProcs'["server"].pc = "persist" /\ secretProcs'["cli"] = secretProcs["cli"]
      BY <2>3 DEF ProcShape
    <3>2. Passes("server") /\ Passes("cli")
      BY <3>1 DEF Passes, ProcShape
    <3>3. QED
      BY <1>9, <1>q, <3>1, <3>2
  <2>4. ASSUME secretProcs' = secretProcs PROVE SecretInv'
    BY <1>9, <1>q, <2>4 DEF Passes, ProcShape
  <2>5. CASE \E v, from :
               secretProcs' = [secretProcs EXCEPT !["server"].pc = "persist",
                                 !["server"].held = v, !["server"].from = from]
    <3>1. PICK v, from :
            secretProcs' = [secretProcs EXCEPT !["server"].pc = "persist",
                              !["server"].held = v, !["server"].from = from]
      BY <2>5
    <3>2. QED
      BY <2>3, <3>1
  <2>6. CASE \E pc \in {"resolve", "running"} :
               secretProcs' = [secretProcs EXCEPT !["server"].pc = pc]
    BY <2>2, <2>6
  <2>7. QED
    BY <1>9, <2>1, <2>4, <2>5, <2>6
<1>10. CASE Secret!Validate
  BY <1>9, <1>10 DEF Secret!Validate, Secret!Goto
<1>11. CASE Secret!Resolve
  <2> DEFINE keep(v, from) ==
        secretProcs' = [secretProcs EXCEPT !["server"].pc = "persist",
                          !["server"].held = v, !["server"].from = from]
  <2>0. \/ keep(Secret!EnvValue, "env")
        \/ keep(Secret!RingGet("auth"), "ring")
        \/ keep(Secret!StoreGet("server", "auth"), "store")
        \/ keep(values + 1, "new")
    BY <1>11 DEF Secret!Resolve
  <2> HIDE DEF keep
  <2>1. \E v, from : keep(v, from)
    BY <2>0
  <2> USE DEF keep
  <2>2. rows' = rows /\ ringKey' = ringKey /\ stale' = stale
    BY <1>11 DEF Secret!Resolve
  <2>3. QED
    BY <1>9, <2>1, <2>2
<1>12. CASE Secret!Persist
  <2>1. DOMAIN rows' = Secret!Name
    BY <1>12 DEF Secret!Persist, Secret!StoreSet
  <2>2. QED
    BY <1>9, <1>12, <2>1 DEF Secret!Persist, Secret!Goto
<1>13. ASSUME NEW n \in Secret!Name, Secret!ToolWrites(n) PROVE SecretInv'
  <2>1. \/ rows' = rows
        \/ \E x : rows' = [rows EXCEPT ![n] = x]
    BY <1>13 DEF Secret!ToolWrites, Secret!StoreSet
  <2>2. QED
    BY <1>9, <1>13, <2>1 DEF Secret!ToolWrites
<1>14. CASE Secret!Rotate \/ Secret!Stop \/ Secret!Outage
  <2>1. CASE Secret!Rotate
    BY <1>9, <2>1 DEF Secret!Rotate
  <2>2. CASE Secret!Stop
    BY <1>9, <2>2 DEF Secret!Stop
  <2>3. CASE Secret!Outage
    BY <1>9, <2>3 DEF Secret!Outage
  <2>4. QED
    BY <1>14, <2>1, <2>2, <2>3
<1>15. CASE Secret!Reboot
  <2>1. DOMAIN secretProcs' = {"server", "cli"} /\ Passes("server") /\ Passes("cli")
    BY <1>15, <1>i DEF Secret!Reboot, Secret!Process, Passes, ProcShape
  <2>2. QED
    BY <1>15, <1>q, <2>1 DEF Secret!Reboot
<1>16. CASE UNCHANGED secretVars
  BY <1>9, <1>16 DEF secretVars
<1>17. QED
  BY <1>1, <1>2, <1>3, <1>r, <1>w, <1>5, <1>6, <1>7, <1>8, <1>10, <1>11, <1>12, <1>13, <1>14,
     <1>15, <1>16 DEF Secret!Next, Secret!Process

-----------------------------------------------------------------------------
(* A reply on its way to Telegram: what the chat shows of it is all that   *)
(* lies before the chunk it is at, and maybe that chunk too, when the      *)
(* answer that the chunk was sent had been lost.                           *)
SendInv ==
  /\ \A f \in {at, mode, shown} : DOMAIN f = Reply
  /\ \A r \in Reply :
       /\ at[r] \in 1..Chunks /\ shown[r] \in Nat
       /\ mode[r] \in {"markdown", "plain"} => shown[r] \in {at[r] - 1, at[r]}
       /\ mode[r] = "ok" => shown[r] = Chunks

(* What a step may do to a reply: it goes on with what is shown, it shows  *)
(* the chunk it is at, or it is done with that one.                        *)
SendMoves(r) ==
  /\ Outbound!Sending(r) /\ shown' \in {shown, [shown EXCEPT ![r] = at[r]]}
  /\ \/ at' = at /\ \E m \in {"markdown", "plain", "error"} : mode' = [mode EXCEPT ![r] = m]
     \/ UNCHANGED <<at, mode>>
     \/ Outbound!NextChunk(r) /\ shown' = [shown EXCEPT ![r] = at[r]]

LEMMA SendMoved ==
  ASSUME NEW r \in Reply, Outbound!Accepted(r) \/ Outbound!BadRequest(r) \/ Outbound!Forbidden(r)
                          \/ Outbound!NotTaken(r) \/ Outbound!AnswerLost(r)
  PROVE  SendMoves(r)
<1>1. ASSUME Outbound!GiveUp(r)
      PROVE  at' = at /\ \E m \in {"markdown", "plain", "error"} : mode' = [mode EXCEPT ![r] = m]
  BY <1>1 DEF Outbound!GiveUp, Outbound!AsPlainText, Outbound!StopWithError
<1>2. ASSUME Outbound!RetryOr(r, Outbound!GiveUp)
      PROVE  \/ at' = at /\ \E m \in {"markdown", "plain", "error"} : mode' = [mode EXCEPT ![r] = m]
             \/ UNCHANGED <<at, mode>>
  BY <1>1, <1>2 DEF Outbound!RetryOr
<1>3. CASE Outbound!Accepted(r)
  BY <1>3 DEF SendMoves, Outbound!Accepted
<1>4. CASE Outbound!BadRequest(r)
  BY <1>4 DEF SendMoves, Outbound!BadRequest, Outbound!AsPlainText, Outbound!StopWithError
<1>5. CASE Outbound!Forbidden(r)
  BY <1>1, <1>5 DEF SendMoves, Outbound!Forbidden
<1>6. CASE Outbound!NotTaken(r)
  BY <1>2, <1>6 DEF SendMoves, Outbound!NotTaken
<1>7. CASE Outbound!AnswerLost(r)
  BY <1>2, <1>7 DEF SendMoves, Outbound!AnswerLost
<1>8. QED
  BY <1>3, <1>4, <1>5, <1>6, <1>7

LEMMA SendStep ==
  SendInv /\ [Outbound!Next]_outboundVars =>
    SendInv' /\ \A r \in Reply : shown'[r] \in {shown[r], shown[r] + 1}
<1> SUFFICES ASSUME SendInv, [Outbound!Next]_outboundVars
             PROVE  SendInv' /\ \A r \in Reply : shown'[r] \in {shown[r], shown[r] + 1}
  OBVIOUS
<1>0. Chunks \in Nat /\ Chunks > 0
  BY KeepingAssumption DEF Outbound!SendAssumption
<1>1. ASSUME NEW r \in Reply, SendMoves(r)
      PROVE  SendInv' /\ \A q \in Reply : shown'[q] \in {shown[q], shown[q] + 1}
  <2>1. /\ at[r] \in 1..Chunks /\ shown[r] \in {at[r] - 1, at[r]}
        /\ DOMAIN at = Reply /\ DOMAIN mode = Reply /\ DOMAIN shown = Reply
    BY <1>1 DEF SendMoves, SendInv, Outbound!Sending
  <2>2. /\ DOMAIN at' = Reply /\ DOMAIN mode' = Reply /\ DOMAIN shown' = Reply
        /\ \A q \in Reply : q # r => at'[q] = at[q] /\ mode'[q] = mode[q] /\ shown'[q] = shown[q]
    BY <1>1, <2>1 DEF SendMoves, Outbound!NextChunk
  <2>3. shown'[r] \in {shown[r], at[r]}
    BY <1>1, <2>1 DEF SendMoves
  <2>4. /\ at'[r] \in 1..Chunks
        /\ mode'[r] \in {"markdown", "plain"} => shown'[r] \in {at'[r] - 1, at'[r]}
        /\ mode'[r] = "ok" => shown'[r] = Chunks
    <3>1. CASE at' = at /\ mode'[r] \in {"markdown", "plain", "error"}
      BY <2>1, <2>3, <3>1
    <3>2. CASE Outbound!NextChunk(r) /\ shown'[r] = at[r]
      <4>1. CASE at[r] = Chunks
        BY <1>0, <2>1, <3>2, <4>1 DEF Outbound!NextChunk
      <4>2. CASE at[r] # Chunks
        BY <1>0, <2>1, <3>2, <4>2 DEF Outbound!NextChunk
      <4>3. QED
        BY <4>1, <4>2
    <3>3. QED
      BY <1>1, <2>1, <3>1, <3>2 DEF SendMoves, Outbound!Sending
  <2>5. shown'[r] \in Nat /\ shown'[r] \in {shown[r], shown[r] + 1}
    BY <1>0, <2>1, <2>3
  <2>6. \A q \in Reply : shown'[q] \in {shown[q], shown[q] + 1}
    BY <2>2, <2>5
  <2>7. ASSUME NEW q \in Reply
        PROVE  /\ at'[q] \in 1..Chunks /\ shown'[q] \in Nat
               /\ mode'[q] \in {"markdown", "plain"} => shown'[q] \in {at'[q] - 1, at'[q]}
               /\ mode'[q] = "ok" => shown'[q] = Chunks
    <3>1. CASE q = r
      BY <2>4, <2>5, <3>1
    <3>2. CASE q # r
      BY <2>2, <3>2 DEF SendInv
    <3>3. QED
      BY <3>1, <3>2
  <2>8. QED
    BY <2>2, <2>6, <2>7 DEF SendInv
<1>2. CASE UNCHANGED outboundVars
  BY <1>2 DEF outboundVars, SendInv
<1>3. QED
  BY <1>1, <1>2, SendMoved DEF Outbound!Next

-----------------------------------------------------------------------------
(* The video projects.  A project on disk is the one its call was answered *)
(* with, and is in that call's hands no more; a call that is to write or   *)
(* to lint names one on disk.                                              *)
VideoCall ==
  [kind : Video!Kinds \cup {"none"},
   pc : Video!Commands \cup {"idle", "made", "not_made", "read", "again", "ok", "failed"},
   try : Nat, id : (Author \X Nat) \cup {Video!NoProject}, copy : Seq(Author)]

VideoTyped ==
  /\ call \in [Author -> VideoCall]
  /\ procs \subseteq Author \X Nat \X Video!Commands
  /\ cache \subseteq DOMAIN dirs
  /\ DOMAIN dirs \subseteq Author \X Nat /\ \A id \in DOMAIN dirs : dirs[id] \in Seq(Author)

Staged(c) ==
  /\ c.pc \in {"init", "made", "not_made"} => c.kind = "create"
  /\ c.pc = "render" => c.kind = "render"
  /\ c.kind = "add" /\ c.pc \in {"read", "lint", "ok"} => c.id \in DOMAIN dirs

Handed(id) == call[id[1]].id = id /\ call[id[1]].kind = "create" /\ call[id[1]].pc = "ok"

Added(k) == call[k].kind = "add" /\ call[k].pc \in {"lint", "ok"} /\ k \notin overlap

VideoInv ==
  /\ VideoTyped
  /\ \A k \in Author : Staged(call[k])
  /\ \A id \in DOMAIN dirs : Handed(id)
  /\ \A k \in Author : Added(k) => InSeq(k, dirs[call[k].id])

LEMMA ElementsInSeq == ASSUME NEW s, NEW u PROVE u \in Video!Elements(s) <=> InSeq(u, s)
BY DEF Video!Elements, InSeq

(* A call stays one when one of its fields is set.                         *)
LEMMA VideoUpdate ==
  ASSUME NEW c \in VideoCall
  PROVE  /\ \A x \in Video!Kinds : [c EXCEPT !.kind = x] \in VideoCall
         /\ \A x \in Video!Commands \cup {"made", "not_made", "read", "again", "ok", "failed"} :
              [c EXCEPT !.pc = x] \in VideoCall
         /\ \A x \in Nat : [c EXCEPT !.try = x] \in VideoCall
         /\ \A x \in Author \X Nat : [c EXCEPT !.id = x] \in VideoCall
         /\ \A x \in Seq(Author) : [c EXCEPT !.copy = x] \in VideoCall
<1>1. ASSUME NEW x \in Video!Kinds PROVE [c EXCEPT !.kind = x] \in VideoCall
  BY DEF VideoCall
<1>2. ASSUME NEW x \in Video!Commands \cup {"made", "not_made", "read", "again", "ok", "failed"}
      PROVE  [c EXCEPT !.pc = x] \in VideoCall
  BY DEF VideoCall
<1>3. ASSUME NEW x \in Nat PROVE [c EXCEPT !.try = x] \in VideoCall
  BY DEF VideoCall
<1>4. ASSUME NEW x \in Author \X Nat PROVE [c EXCEPT !.id = x] \in VideoCall
  BY DEF VideoCall
<1>5. ASSUME NEW x \in Seq(Author) PROVE [c EXCEPT !.copy = x] \in VideoCall
  BY DEF VideoCall
<1>6. QED
  BY <1>1, <1>2, <1>3, <1>4, <1>5

LEMMA VideoStep == VideoInv /\ [Video!Next]_videoVars => VideoInv'
<1> SUFFICES ASSUME VideoInv, [Video!Next]_videoVars PROVE VideoInv'
  OBVIOUS
<1>0. /\ VideoTyped
      /\ \A k \in Author : Staged(call[k])
      /\ \A id \in DOMAIN dirs : Handed(id)
      /\ \A k \in Author : Added(k) => InSeq(k, dirs[call[k].id])
  BY DEF VideoInv
<1>q. ASSUME NEW k \in Author, NEW r \in VideoCall, call' = [call EXCEPT ![k] = r],
             call[k].pc # "ok", Staged(r),
             r.kind = "add" /\ r.pc \in {"lint", "ok"} =>
               call[k].kind = "add" /\ call[k].pc = "lint" /\ r.id = call[k].id,
             procs' \subseteq Author \X Nat \X Video!Commands,
             UNCHANGED <<dirs, cache, overlap>>
      PROVE  VideoInv'
  <2>1. /\ call' \in [Author -> VideoCall] /\ call'[k] = r
        /\ \A j \in Author \ {k} : call'[j] = call[j]
    BY <1>0, <1>q DEF VideoTyped
  <2>2. VideoTyped'
    BY <1>0, <1>q, <2>1 DEF VideoTyped
  <2>3. \A j \in Author : Staged(call[j])'
    BY <1>0, <1>q, <2>1 DEF Staged
  <2>4. ASSUME NEW id \in DOMAIN dirs' PROVE Handed(id)'
    <3>1. id \in DOMAIN dirs /\ id[1] \in Author /\ call[id[1]].pc = "ok"
      BY <1>0, <1>q DEF VideoTyped, Handed
    <3>2. QED
      BY <1>0, <1>q, <2>1, <3>1 DEF Handed
  <2>5. ASSUME NEW j \in Author, Added(j)' PROVE InSeq(j, dirs'[call'[j].id])
    <3>1. Added(j) /\ call'[j].id = call[j].id
      BY <1>q, <2>1, <2>5 DEF Added
    <3>2. QED
      BY <1>0, <1>q, <3>1
  <2>6. QED
    BY <2>2, <2>3, <2>4, <2>5 DEF VideoInv
<1>d. ASSUME NEW id, NEW comp, Video!SetDir(id, comp)
      PROVE  /\ DOMAIN dirs' = DOMAIN dirs \cup {id} /\ dirs'[id] = comp
             /\ \A i \in DOMAIN dirs : i # id => dirs'[i] = dirs[i]
  BY <1>d DEF Video!SetDir
<1>1. ASSUME NEW k \in Author, Video!StartInit(k) PROVE VideoInv'
  <2> DEFINE r == [[call[k] EXCEPT !.kind = "create"] EXCEPT !.pc = "init"]
  <2>1. r \in VideoCall /\ r.kind = "create" /\ r.pc = "init" /\ <<k, call[k].try, "init">> \in
          Author \X Nat \X Video!Commands
    <3>1. call[k] \in VideoCall
      BY <1>0 DEF VideoTyped
    <3>2. [call[k] EXCEPT !.kind = "create"] \in VideoCall
      BY <3>1, VideoUpdate DEF Video!Kinds
    <3>3. r \in VideoCall
      BY <3>2, VideoUpdate DEF Video!Commands
    <3>4. QED
      BY <3>1, <3>3 DEF VideoCall, Video!Commands
  <2>2. /\ call[k].pc \in {"idle", "again"} /\ UNCHANGED <<dirs, cache, overlap>>
        /\ call' = [call EXCEPT ![k] = r]
        /\ procs' = procs \cup {<<k, call[k].try, "init">>}
    BY <1>1 DEF Video!StartInit, Video!Run, Video!At
  <2> HIDE DEF r
  <2>3. Staged(r)
    BY <2>1 DEF Staged
  <2>4. procs' \subseteq Author \X Nat \X Video!Commands
    BY <1>0, <2>1, <2>2 DEF VideoTyped
  <2>5. QED
    BY <1>q, <2>1, <2>2, <2>3, <2>4
<1>2. ASSUME NEW k \in Author, Video!Place(k) PROVE VideoInv'
  <2>1. call[k].pc \in {"made", "not_made"} /\ call[k].kind = "create" /\ UNCHANGED <<procs, overlap>>
    BY <1>0, <1>2 DEF Video!Place, Staged
  <2>2. CASE call' = [call EXCEPT ![k].pc = "failed"] /\ UNCHANGED <<dirs, cache>>
    <3> DEFINE r == [call[k] EXCEPT !.pc = "failed"]
    <3>1. r \in VideoCall /\ r.kind = "create" /\ r.pc = "failed"
      <4>1. call[k] \in VideoCall
        BY <1>0 DEF VideoTyped
      <4>2. r \in VideoCall
        BY <4>1, VideoUpdate
      <4>3. QED
        BY <2>1, <4>1, <4>2 DEF VideoCall
    <3>2. call' = [call EXCEPT ![k] = r]
      BY <2>2
    <3> HIDE DEF r
    <3>3. Staged(r)
      BY <3>1 DEF Staged
    <3>4. QED
      BY <1>0, <1>q, <2>1, <2>2, <3>1, <3>2, <3>3 DEF VideoTyped
  <2>3. CASE /\ Video!SetDir(Video!NewId(k), <<>>) /\ cache' = cache \cup {Video!NewId(k)}
             /\ call' = [call EXCEPT ![k].pc = "ok", ![k].id = Video!NewId(k)]
    <3> DEFINE new == Video!NewId(k)
    <3>1. new \in Author \X Nat /\ new[1] = k
      BY <1>0 DEF VideoTyped, VideoCall, Video!NewId
    <3>2. /\ DOMAIN dirs' = DOMAIN dirs \cup {new} /\ dirs'[new] = <<>>
          /\ \A i \in DOMAIN dirs : i # new => dirs'[i] = dirs[i]
      BY <1>d, <2>3
    <3>3. new \notin DOMAIN dirs
      BY <1>0, <2>1, <3>1 DEF Handed
    <3>4. /\ call' \in [Author -> VideoCall] /\ call'[k].pc = "ok" /\ call'[k].kind = "create"
          /\ call'[k].id = new /\ \A j \in Author \ {k} : call'[j] = call[j]
      <4> DEFINE c == [[call[k] EXCEPT !.pc = "ok"] EXCEPT !.id = new]
      <4>1. call \in [Author -> VideoCall] /\ call[k] \in VideoCall
        BY <1>0 DEF VideoTyped
      <4>2. [call[k] EXCEPT !.pc = "ok"] \in VideoCall
        BY <4>1, VideoUpdate
      <4>3. c \in VideoCall
        BY <3>1, <4>2, VideoUpdate
      <4>4. c.pc = "ok" /\ c.kind = "create" /\ c.id = new
        BY <2>1, <4>1 DEF VideoCall
      <4>5. call' = [call EXCEPT ![k] = c]
        BY <2>3, <4>1
      <4> HIDE DEF c
      <4>6. QED
        BY <4>1, <4>3, <4>4, <4>5
    <3> HIDE DEF new
    <3>5. VideoTyped'
      <4>1. ASSUME NEW id \in DOMAIN dirs' PROVE dirs'[id] \in Seq(Author)
        <5>1. CASE id = new
          BY <3>2, <5>1
        <5>2. CASE id # new
          BY <1>0, <3>2, <5>2 DEF VideoTyped
        <5>3. QED
          BY <5>1, <5>2
      <4>2. cache' \subseteq DOMAIN dirs'
        BY <1>0, <2>3, <3>2 DEF VideoTyped, new
      <4>3. QED
        BY <1>0, <2>1, <3>1, <3>2, <3>4, <4>1, <4>2 DEF VideoTyped
    <3>6. \A j \in Author : Staged(call[j])'
      BY <1>0, <3>2, <3>4 DEF Staged
    <3>7. ASSUME NEW id \in DOMAIN dirs' PROVE Handed(id)'
      <4>1. CASE id = new
        BY <3>1, <3>4, <4>1 DEF Handed
      <4>2. CASE id # new
        <5>1. id \in DOMAIN dirs /\ id[1] \in Author /\ id[1] # k
          BY <1>0, <2>1, <3>2, <4>2 DEF VideoTyped, Handed
        <5>2. QED
          BY <1>0, <3>4, <5>1 DEF Handed
      <4>3. QED
        BY <4>1, <4>2
    <3>8. ASSUME NEW j \in Author, Added(j)' PROVE InSeq(j, dirs'[call'[j].id])
      <4>1. j # k /\ Added(j) /\ call'[j].id = call[j].id
        BY <2>1, <3>4, <3>8 DEF Added
      <4>2. call[j].id \in DOMAIN dirs
        BY <1>0, <4>1 DEF Added, Staged
      <4>3. QED
        BY <1>0, <3>2, <3>3, <4>1, <4>2
    <3>9. QED
      BY <3>5, <3>6, <3>7, <3>8 DEF VideoInv
  <2>4. QED
    BY <1>2, <2>2, <2>3 DEF Video!Place
<1>p. ASSUME NEW k \in Author, NEW kind, NEW id, Video!Project(k, kind, id)
      PROVE  id \in DOMAIN dirs /\ id \in Author \X Nat /\ call[k].pc # "ok"
  BY <1>0, <1>p DEF Video!Project, Video!At, VideoTyped
<1>3. ASSUME NEW k \in Author, NEW id \in cache, Video!AddRead(k, id) PROVE VideoInv'
  <2>0. id \in DOMAIN dirs /\ id \in Author \X Nat /\ call[k].pc # "ok"
    BY <1>p, <1>3 DEF Video!AddRead
  <2> DEFINE r == [call[k] EXCEPT !.kind = "add", !.pc = "read", !.id = id, !.copy = dirs[id]]
  <2>1. r \in VideoCall /\ r.kind = "add" /\ r.pc = "read" /\ r.id = id
    <3> DEFINE c == [[call[k] EXCEPT !.kind = "add"] EXCEPT !.pc = "read"]
    <3>1. call[k] \in VideoCall /\ dirs[id] \in Seq(Author)
      BY <1>0, <2>0 DEF VideoTyped
    <3>2. [call[k] EXCEPT !.kind = "add"] \in VideoCall
      BY <3>1, VideoUpdate DEF Video!Kinds
    <3>3. c \in VideoCall
      BY <3>2, VideoUpdate
    <3>4. [c EXCEPT !.id = id] \in VideoCall
      BY <2>0, <3>3, VideoUpdate
    <3>5. [[c EXCEPT !.id = id] EXCEPT !.copy = dirs[id]] \in VideoCall
      BY <3>1, <3>4, VideoUpdate
    <3>6. r \in VideoCall
      BY <3>5
    <3>7. QED
      BY <3>1, <3>6 DEF VideoCall
  <2>2. call' = [call EXCEPT ![k] = r] /\ UNCHANGED <<dirs, cache, procs, overlap>>
    BY <1>3 DEF Video!AddRead
  <2> HIDE DEF r
  <2>3. Staged(r)
    BY <2>0, <2>1 DEF Staged
  <2>4. QED
    BY <1>0, <1>q, <2>0, <2>1, <2>2, <2>3 DEF VideoTyped
<1>w. ASSUME NEW k \in Author, NEW id \in DOMAIN dirs, NEW comp \in Seq(Author),
             Video!SetDir(id, comp), NEW r \in VideoCall, call' = [call EXCEPT ![k] = r],
             call[k].pc # "ok", r.pc = "lint", r.id = id, r.kind = "add" => InSeq(k, comp),
             \A u : InSeq(u, dirs[id]) => InSeq(u, comp) \/ u \in overlap',
             overlap \subseteq overlap', cache' = cache,
             procs' \subseteq Author \X Nat \X Video!Commands
      PROVE  VideoInv'
  <2>1. /\ call' \in [Author -> VideoCall] /\ call'[k] = r
        /\ \A j \in Author \ {k} : call'[j] = call[j]
    BY <1>0, <1>w DEF VideoTyped
  <2>2. /\ DOMAIN dirs' = DOMAIN dirs /\ dirs'[id] = comp
        /\ \A i \in DOMAIN dirs : i # id => dirs'[i] = dirs[i]
    <3>1. /\ DOMAIN dirs' = DOMAIN dirs \cup {id} /\ dirs'[id] = comp
          /\ \A i \in DOMAIN dirs : i # id => dirs'[i] = dirs[i]
      BY <1>w DEF Video!SetDir
    <3>2. DOMAIN dirs \cup {id} = DOMAIN dirs
      OBVIOUS
    <3>3. QED
      BY <3>1, <3>2
  <2>3. VideoTyped'
    BY <1>0, <1>w, <2>1, <2>2 DEF VideoTyped
  <2>4. \A j \in Author : Staged(call[j])'
    BY <1>0, <1>w, <2>1, <2>2 DEF Staged
  <2>5. ASSUME NEW i \in DOMAIN dirs' PROVE Handed(i)'
    <3>1. i \in DOMAIN dirs /\ i[1] \in Author /\ call[i[1]].pc = "ok"
      BY <1>0, <2>2 DEF VideoTyped, Handed
    <3>2. QED
      BY <1>0, <1>w, <2>1, <3>1 DEF Handed
  <2>6. ASSUME NEW j \in Author, Added(j)' PROVE InSeq(j, dirs'[call'[j].id])
    <3>1. CASE j = k
      BY <1>w, <2>1, <2>2, <2>6, <3>1 DEF Added
    <3>2. CASE j # k
      <4>1. call'[j] = call[j] /\ Added(j) /\ j \notin overlap'
        BY <1>w, <2>1, <2>6, <3>2 DEF Added
      <4>2. call[j].id \in DOMAIN dirs /\ InSeq(j, dirs[call[j].id])
        BY <1>0, <4>1 DEF Added, Staged
      <4>3. CASE call[j].id = id
        BY <1>w, <2>2, <4>1, <4>2, <4>3
      <4>4. CASE call[j].id # id
        BY <2>2, <4>1, <4>2, <4>4
      <4>5. QED
        BY <4>3, <4>4
    <3>3. QED
      BY <3>1, <3>2
  <2>7. QED
    BY <2>3, <2>4, <2>5, <2>6 DEF VideoInv
<1>4. ASSUME NEW k \in Author, Video!AddWrite(k) PROVE VideoInv'
  <2> DEFINE id == call[k].id
             comp == Append(call[k].copy, k)
             r == [[call[k] EXCEPT !.copy = <<>>] EXCEPT !.pc = "lint"]
  <2>0. call[k].kind = "add" /\ call[k].pc = "read" /\ id \in DOMAIN dirs
    BY <1>0, <1>4 DEF Video!AddWrite, Video!At, Staged
  <2>1. /\ Video!SetDir(id, comp)
        /\ overlap' = overlap \cup (Video!Elements(dirs[id]) \ Video!Elements(call[k].copy))
        /\ call' = [call EXCEPT ![k] = r] /\ cache' = cache
        /\ procs' = procs \cup {<<k, call[k].try, "lint">>}
    BY <1>4 DEF Video!AddWrite, Video!InsertElement, Video!Run
  <2>2. call[k].copy \in Seq(Author)
    BY <1>0 DEF VideoTyped, VideoCall
  <2>3. comp \in Seq(Author) /\ \A u : InSeq(u, comp) <=> InSeq(u, call[k].copy) \/ u = k
    BY <2>2, AppendMembers
  <2>4. /\ r \in VideoCall /\ r.pc = "lint" /\ r.id = id
        /\ <<k, call[k].try, "lint">> \in Author \X Nat \X Video!Commands
    <3>1. call[k] \in VideoCall /\ <<>> \in Seq(Author)
      BY <1>0 DEF VideoTyped
    <3>2. [call[k] EXCEPT !.copy = <<>>] \in VideoCall
      BY <3>1, VideoUpdate
    <3>3. r \in VideoCall
      BY <3>2, VideoUpdate DEF Video!Commands
    <3>4. QED
      BY <3>1, <3>3 DEF VideoCall, Video!Commands
  <2>5. procs' \subseteq Author \X Nat \X Video!Commands
    BY <1>0, <2>1, <2>4 DEF VideoTyped
  <2>6. \A u : InSeq(u, dirs[id]) => InSeq(u, comp) \/ u \in overlap'
    BY <2>1, <2>3, ElementsInSeq
  <2> HIDE DEF id, comp, r
  <2>7. overlap \subseteq overlap' /\ InSeq(k, comp)
    BY <2>1, <2>3
  <2>8. QED
    BY <1>w, <2>0, <2>1, <2>3, <2>4, <2>5, <2>6, <2>7
<1>5. ASSUME NEW k \in Author, NEW id \in cache, Video!SetWhole(k, id) PROVE VideoInv'
  <2> DEFINE comp == <<k>>
             r == [[call[k] EXCEPT !.kind = "set", !.id = id] EXCEPT !.pc = "lint"]
  <2>0. id \in DOMAIN dirs /\ id \in Author \X Nat /\ call[k].pc # "ok"
    BY <1>p, <1>5 DEF Video!SetWhole
  <2>1. /\ Video!SetDir(id, comp)
        /\ overlap' = overlap \cup Video!Elements(dirs[id])
        /\ call' = [call EXCEPT ![k] = r] /\ cache' = cache
        /\ procs' = procs \cup {<<k, call[k].try, "lint">>}
    BY <1>5 DEF Video!SetWhole, Video!Run
  <2>2. comp \in Seq(Author)
    OBVIOUS
  <2>3. /\ r \in VideoCall /\ r.pc = "lint" /\ r.id = id /\ r.kind = "set"
        /\ <<k, call[k].try, "lint">> \in Author \X Nat \X Video!Commands
    <3>1. call[k] \in VideoCall
      BY <1>0 DEF VideoTyped
    <3>2. [call[k] EXCEPT !.kind = "set"] \in VideoCall
      BY <3>1, VideoUpdate DEF Video!Kinds
    <3>3. [[call[k] EXCEPT !.kind = "set"] EXCEPT !.id = id] \in VideoCall
      BY <2>0, <3>2, VideoUpdate
    <3>4. [[[call[k] EXCEPT !.kind = "set"] EXCEPT !.id = id] EXCEPT !.pc = "lint"] \in VideoCall
      BY <3>3, VideoUpdate DEF Video!Commands
    <3>5. r \in VideoCall
      BY <3>4
    <3>6. QED
      BY <3>1, <3>5 DEF VideoCall, Video!Commands
  <2>4. procs' \subseteq Author \X Nat \X Video!Commands
    BY <1>0, <2>1, <2>3 DEF VideoTyped
  <2>5. \A u : InSeq(u, dirs[id]) => u \in overlap'
    BY <2>1, ElementsInSeq
  <2> HIDE DEF comp, r
  <2>6. QED
    BY <1>w, <2>0, <2>1, <2>2, <2>3, <2>4, <2>5
<1>6. ASSUME NEW k \in Author, NEW id \in cache, Video!StartRender(k, id) PROVE VideoInv'
  <2> DEFINE r == [[call[k] EXCEPT !.kind = "render", !.id = id] EXCEPT !.pc = "render"]
  <2>0. id \in DOMAIN dirs /\ id \in Author \X Nat /\ call[k].pc # "ok"
    BY <1>p, <1>6 DEF Video!StartRender
  <2>1. /\ r \in VideoCall /\ r.kind = "render" /\ r.pc = "render"
        /\ <<k, call[k].try, "render">> \in Author \X Nat \X Video!Commands
    <3>1. call[k] \in VideoCall
      BY <1>0 DEF VideoTyped
    <3>2. [call[k] EXCEPT !.kind = "render"] \in VideoCall
      BY <3>1, VideoUpdate DEF Video!Kinds
    <3>3. [[call[k] EXCEPT !.kind = "render"] EXCEPT !.id = id] \in VideoCall
      BY <2>0, <3>2, VideoUpdate
    <3>4. [[[call[k] EXCEPT !.kind = "render"] EXCEPT !.id = id] EXCEPT !.pc = "render"] \in VideoCall
      BY <3>3, VideoUpdate DEF Video!Commands
    <3>5. r \in VideoCall
      BY <3>4
    <3>6. QED
      BY <3>1, <3>5 DEF VideoCall, Video!Commands
  <2>2. /\ call' = [call EXCEPT ![k] = r] /\ UNCHANGED <<dirs, cache, overlap>>
        /\ procs' = procs \cup {<<k, call[k].try, "render">>}
    BY <1>6 DEF Video!StartRender, Video!Run
  <2> HIDE DEF r
  <2>3. Staged(r)
    BY <2>1 DEF Staged
  <2>4. procs' \subseteq Author \X Nat \X Video!Commands
    BY <1>0, <2>1, <2>2 DEF VideoTyped
  <2>5. QED
    BY <1>q, <2>0, <2>1, <2>2, <2>3, <2>4
<1>7. ASSUME NEW p \in procs, NEW ok \in BOOLEAN, Video!ProcessEnds(p, ok) PROVE VideoInv'
  <2> DEFINE k == p[1]
             pc == Video!After(p[3], ok)
             r == [call[k] EXCEPT !.pc = pc]
  <2>0. /\ k \in Author /\ p[3] \in Video!Commands /\ UNCHANGED <<dirs, cache, overlap>>
        /\ procs' \subseteq Author \X Nat \X Video!Commands
    BY <1>0, <1>7 DEF VideoTyped, Video!ProcessEnds
  <2>1. CASE call' = call
    BY <1>0, <2>0, <2>1 DEF VideoInv, VideoTyped, Staged, Handed, Added
  <2>2. CASE call[k].pc = p[3] /\ call' = [call EXCEPT ![k].pc = pc]
    <3>1. /\ pc \in {"made", "not_made", "ok", "failed"}
          /\ pc \in {"made", "not_made"} => p[3] = "init"
          /\ pc = "ok" => p[3] \in {"lint", "render"}
      BY <2>0 DEF Video!After, Video!Commands
    <3> HIDE DEF pc
    <3>2. /\ r \in VideoCall /\ r.pc = pc /\ r.kind = call[k].kind /\ r.id = call[k].id
          /\ call' = [call EXCEPT ![k] = r]
      <4>1. call[k] \in VideoCall
        BY <1>0, <2>0 DEF VideoTyped
      <4>2. r \in VideoCall
        BY <3>1, <4>1, VideoUpdate
      <4>3. QED
        BY <2>2, <4>1, <4>2 DEF VideoCall
    <3> HIDE DEF r
    <3>3. Staged(call[k]) /\ call[k].pc \in Video!Commands
      BY <1>0, <2>0, <2>2
    <3>4. Staged(r)
      BY <2>2, <3>1, <3>2, <3>3 DEF Staged
    <3>5. r.kind = "add" /\ r.pc \in {"lint", "ok"} => call[k].pc = "lint"
      BY <2>2, <3>1, <3>2, <3>3 DEF Staged
    <3>6. call[k].pc # "ok"
      BY <3>3 DEF Video!Commands
    <3> HIDE DEF k
    <3>7. QED
      BY <1>q, <2>0, <3>2, <3>4, <3>5, <3>6
  <2>3. QED
    BY <1>7, <2>1, <2>2 DEF Video!ProcessEnds
<1>8. ASSUME NEW k \in Author, Video!Drop(k) PROVE VideoInv'
  <2>1. /\ call[k].pc \in Video!Commands /\ call[k].pc # "ok"
        /\ UNCHANGED <<dirs, cache, procs, overlap>>
    BY <1>8 DEF Video!Drop, Video!Commands
  <2>2. ASSUME NEW r \in VideoCall, call' = [call EXCEPT ![k] = r],
               r.pc \in {"failed", "again"}
        PROVE  VideoInv'
    <3>1. Staged(r)
      BY <2>2 DEF Staged
    <3>2. QED
      BY <1>0, <1>q, <2>1, <2>2, <3>1 DEF VideoTyped
  <2>3. CASE call' = [call EXCEPT ![k].pc = "failed"]
    <3> DEFINE r == [call[k] EXCEPT !.pc = "failed"]
    <3>1. r \in VideoCall /\ r.pc = "failed" /\ call' = [call EXCEPT ![k] = r]
      <4>1. call[k] \in VideoCall
        BY <1>0 DEF VideoTyped
      <4>2. r \in VideoCall
        BY <4>1, VideoUpdate
      <4>3. QED
        BY <2>3, <4>1, <4>2 DEF VideoCall
    <3> HIDE DEF r
    <3>2. QED
      BY <2>2, <3>1
  <2>4. CASE call' = [call EXCEPT ![k].pc = "again", ![k].try = @ + 1]
    <3> DEFINE r == [call[k] EXCEPT !.pc = "again", !.try = @ + 1]
    <3>0. call[k] \in VideoCall /\ call[k].try + 1 \in Nat
      BY <1>0 DEF VideoTyped, VideoCall
    <3>1. r \in VideoCall /\ r.pc = "again"
      <4>1. [call[k] EXCEPT !.pc = "again"] \in VideoCall
        BY <3>0, VideoUpdate
      <4>2. [[call[k] EXCEPT !.pc = "again"] EXCEPT !.try = call[k].try + 1] \in VideoCall
        BY <3>0, <4>1, VideoUpdate
      <4>3. r = [[call[k] EXCEPT !.pc = "again"] EXCEPT !.try = call[k].try + 1]
        OBVIOUS
      <4>4. QED
        BY <3>0, <4>2, <4>3 DEF VideoCall
    <3>2. call' = [call EXCEPT ![k] = r]
      BY <1>0, <2>4 DEF VideoTyped, VideoCall
    <3> HIDE DEF r
    <3>3. QED
      BY <2>2, <3>1, <3>2
  <2>5. QED
    BY <1>8, <2>3, <2>4 DEF Video!Drop
<1>9. CASE Video!Restart
  <2> DEFINE r(k) == [call[k] EXCEPT !.pc = "failed", !.copy = <<>>]
  <2>1. /\ cache' = {} /\ UNCHANGED <<dirs, procs, overlap>>
        /\ call' = [k \in Author |-> IF call[k].pc \in {"idle", "ok"} THEN call[k] ELSE r(k)]
    BY <1>9 DEF Video!Restart
  <2>2. ASSUME NEW k \in Author
        PROVE  r(k) \in VideoCall /\ r(k).pc = "failed"
    <3>1. call[k] \in VideoCall /\ <<>> \in Seq(Author)
      BY <1>0 DEF VideoTyped
    <3>2. [call[k] EXCEPT !.pc = "failed"] \in VideoCall
      BY <3>1, VideoUpdate
    <3>3. [[call[k] EXCEPT !.pc = "failed"] EXCEPT !.copy = <<>>] \in VideoCall
      BY <3>1, <3>2, VideoUpdate
    <3>4. QED
      BY <3>1, <3>3 DEF VideoCall
  <2> HIDE DEF r
  <2>3. ASSUME NEW k \in Author
        PROVE  /\ call'[k] \in VideoCall
               /\ call'[k] = call[k] \/ call'[k].pc = "failed"
               /\ call[k].pc = "ok" => call'[k] = call[k]
    BY <1>0, <2>1, <2>2 DEF VideoTyped
  <2>4. VideoTyped'
    BY <1>0, <2>1, <2>3 DEF VideoTyped
  <2>5. \A k \in Author : Staged(call[k])'
    BY <1>0, <2>1, <2>3 DEF Staged
  <2>6. ASSUME NEW id \in DOMAIN dirs' PROVE Handed(id)'
    <3>1. id \in DOMAIN dirs /\ id[1] \in Author
      BY <1>0, <2>1 DEF VideoTyped
    <3>2. QED
      BY <1>0, <2>3, <3>1 DEF Handed
  <2>7. ASSUME NEW k \in Author, Added(k)' PROVE InSeq(k, dirs'[call'[k].id])
    <3>1. Added(k) /\ call'[k] = call[k]
      BY <2>1, <2>3, <2>7 DEF Added
    <3>2. QED
      BY <1>0, <2>1, <3>1
  <2>8. QED
    BY <2>4, <2>5, <2>6, <2>7 DEF VideoInv
<1>10. CASE UNCHANGED videoVars
  BY <1>0, <1>10 DEF videoVars, VideoInv, VideoTyped, Staged, Handed, Added
<1>11. QED
  BY <1>1, <1>2, <1>3, <1>4, <1>5, <1>6, <1>7, <1>8, <1>9, <1>10 DEF Video!Next

-----------------------------------------------------------------------------
(* The file tools.                                                         *)
FileText == [state : {"text", "cut", "mixed", "missing"}, base : BOOLEAN, n : [Editor -> Nat]]
FileCall == [kind : FileTool!Kinds, files : Seq(File), at : Nat, try : Nat,
             pc : {"idle", "start", "mkdir", "made", "write", "ok", "failed"}]
FileOp == [by : Editor, try : Nat, what : {"mkdir", "write"}, file : File,
           data : FileText, cut : BOOLEAN]

(* A call is at one of its files, which are different ones.                *)
CallSound(c) ==
  /\ c \in FileCall /\ c.try \in 1..(Retries + 1)
  /\ c.pc = "idle" => c.kind = "read" /\ c.try = 1
  /\ c.pc = "made" => c.kind \in FileTool!Writing
  /\ c.pc # "idle" => c.at \in DOMAIN c.files
  /\ \A i, j \in DOMAIN c.files : i # j => c.files[i] # c.files[j]
  /\ ~FileTool!Repeats(c.kind) => Len(c.files) <= 1

LEMMA KindsApart ==
  ASSUME NEW kind \in FileTool!Kinds
  PROVE  /\ kind \in FileTool!Writing =>
              kind # "read" /\ kind \notin FileTool!Changing /\ ~FileTool!Repeats(kind)
         /\ kind \in FileTool!Changing => kind # "read" /\ kind \notin FileTool!Writing
         /\ kind \in FileTool!Changing \ DOMAIN Edits => FileTool!Repeats(kind)
         /\ kind = "patch" => FileTool!Repeats(kind)
BY KeepingAssumption
   DEF FileTool!FileAssumption, FileTool!Kinds, FileTool!Writing, FileTool!Changing, FileTool!Repeats

(* The attempt of c has still to write f; it has written f.                *)
Ahead(c, f) ==
  \E i \in DOMAIN c.files : c.files[i] = f /\ (i > c.at \/ (i = c.at /\ c.pc = "start"))
Wrote(c, f) ==
  c.kind # "read" /\ \E i \in DOMAIN c.files : c.files[i] = f /\ (i < c.at \/ c.pc = "ok")

(* The most changes of the call c a text of f may have.                    *)
Limit(c, f) ==
  IF c.pc = "idle" THEN 0
  ELSE IF ~FileTool!Repeats(c.kind) THEN 1
  ELSE IF Ahead(c, f) THEN c.try - 1 ELSE c.try

(* A call that moves on raises its limit for f, and has written f only if  *)
(* it had.                                                                 *)
MovesOn(c, d, f) ==
  /\ d.kind = c.kind \/ c.pc = "idle"
  /\ Limit(c, f) <= Limit(d, f) /\ (Wrote(d, f) => Wrote(c, f))

LEMMA FailedMoves ==
  ASSUME NEW c, CallSound(c), c.pc # "idle", NEW f, Retries \in Nat
  PROVE  /\ CallSound(FileTool!Failed(c)) /\ MovesOn(c, FileTool!Failed(c), f)
         /\ FileTool!Failed(c).pc \in {"start", "failed"}
         /\ FileTool!Failed(c).kind = c.kind
         /\ FileTool!Failed(c).try > c.try \/ (/\ FileTool!Failed(c).pc = "failed"
                                               /\ FileTool!Failed(c).try = c.try)
<1>0. /\ c \in FileCall /\ c.try \in Nat /\ c.at \in Nat /\ c.at \in DOMAIN c.files
      /\ DOMAIN c.files = 1..Len(c.files) /\ Len(c.files) \in Nat
  BY DEF CallSound, FileCall
<1>1. CASE c.try > Retries
  <2> DEFINE d == [c EXCEPT !.pc = "failed"]
  <2>1. FileTool!Failed(c) = d
    BY <1>1 DEF FileTool!Failed
  <2>2. d \in FileCall /\ d.kind = c.kind /\ d.files = c.files /\ d.at = c.at /\ d.try = c.try
        /\ d.pc = "failed"
    BY <1>0 DEF FileCall
  <2> HIDE DEF d
  <2>3. CallSound(d)
    BY <2>2 DEF CallSound
  <2>4. Ahead(d, f) => Ahead(c, f)
    BY <2>2 DEF Ahead
  <2>5. Wrote(d, f) => Wrote(c, f)
    BY <2>2 DEF Wrote
  <2>6. Limit(c, f) <= Limit(d, f)
    BY <1>0, <2>2, <2>4 DEF Limit
  <2>7. QED
    BY <1>0, <2>1, <2>2, <2>3, <2>5, <2>6 DEF MovesOn
<1>2. CASE ~(c.try > Retries)
  <2> DEFINE d == [c EXCEPT !.pc = "start", !.at = 1, !.try = @ + 1]
  <2>1. FileTool!Failed(c) = d
    BY <1>2 DEF FileTool!Failed
  <2>2. d \in FileCall /\ d.kind = c.kind /\ d.files = c.files /\ d.at = 1 /\ d.try = c.try + 1
        /\ d.pc = "start"
    <3> DEFINE e == [c EXCEPT !.pc = "start"]
               g == [e EXCEPT !.at = 1]
    <3>1. e \in FileCall /\ e.kind = c.kind /\ e.files = c.files /\ e.try = c.try /\ e.pc = "start"
      BY <1>0 DEF FileCall
    <3>2. d = [g EXCEPT !.try = c.try + 1]
      BY <1>0 DEF FileCall
    <3> HIDE DEF e, d
    <3>3. g \in FileCall /\ g.kind = c.kind /\ g.files = c.files /\ g.at = 1 /\ g.try = c.try
          /\ g.pc = "start"
      BY <3>1 DEF FileCall
    <3> HIDE DEF g
    <3>4. QED
      BY <1>0, <3>2, <3>3 DEF FileCall
  <2> HIDE DEF d
  <2>3. CallSound(d)
    <3>1. d.try \in 1..(Retries + 1) /\ 1 \in DOMAIN c.files
      BY <1>0, <1>2, <2>2
    <3>2. QED
      BY <2>2, <3>1 DEF CallSound
  <2>4. ~Wrote(d, f)
    BY <1>0, <2>2 DEF Wrote
  <2>5. Limit(c, f) <= Limit(d, f)
    BY <1>0, <2>2 DEF Limit
  <2>6. QED
    BY <1>0, <2>1, <2>2, <2>3, <2>4, <2>5 DEF MovesOn
<1>3. QED
  BY <1>1, <1>2

(* A call that goes from pc to pc within its attempt.                      *)
LEMMA GotoMoves ==
  ASSUME NEW c, CallSound(c), c.pc \notin {"idle", "ok"}, NEW f, NEW q,
         \/ q \in {"mkdir", "write", "failed"}
         \/ q = "made" /\ c.kind \in FileTool!Writing
         \/ q = "ok" /\ c.kind = "read"
  PROVE  CallSound([c EXCEPT !.pc = q]) /\ MovesOn(c, [c EXCEPT !.pc = q], f)
<1>0. c \in FileCall /\ c.try \in Nat
  BY DEF CallSound, FileCall
<1> DEFINE d == [c EXCEPT !.pc = q]
<1>1. d \in FileCall /\ d.kind = c.kind /\ d.files = c.files /\ d.at = c.at /\ d.try = c.try
      /\ d.pc = q /\ q # "idle"
  BY <1>0 DEF FileCall
<1> HIDE DEF d
<1>2. CallSound(d)
  BY <1>1 DEF CallSound
<1>3. Ahead(d, f) => Ahead(c, f)
  BY <1>1 DEF Ahead
<1>4. Wrote(d, f) => Wrote(c, f)
  BY <1>1 DEF Wrote
<1>5. Limit(c, f) <= Limit(d, f)
  BY <1>0, <1>1, <1>3 DEF Limit
<1>6. QED
  BY <1>1, <1>2, <1>4, <1>5 DEF MovesOn, d

(* A write that is over takes the call to its next file, or to its end.    *)
LEMMA AfterWriteMoves ==
  ASSUME NEW c, CallSound(c), c.pc = "write", NEW f
  PROVE  /\ CallSound(FileTool!AfterWrite(c)) /\ FileTool!AfterWrite(c).try = c.try
         /\ FileTool!AfterWrite(c).kind = c.kind /\ FileTool!AfterWrite(c).pc \in {"start", "ok"}
         /\ Limit(c, f) <= Limit(FileTool!AfterWrite(c), f)
         /\ f # c.files[c.at] => MovesOn(c, FileTool!AfterWrite(c), f)
<1>0. /\ c \in FileCall /\ c.try \in Nat /\ c.at \in Nat /\ c.at \in DOMAIN c.files
      /\ DOMAIN c.files = 1..Len(c.files) /\ Len(c.files) \in Nat
  BY DEF CallSound, FileCall
<1>1. CASE c.at < Len(c.files)
  <2> DEFINE d == [c EXCEPT !.pc = "start", !.at = @ + 1]
  <2>1. FileTool!AfterWrite(c) = d
    BY <1>1 DEF FileTool!AfterWrite
  <2>2. d \in FileCall /\ d.kind = c.kind /\ d.files = c.files /\ d.at = c.at + 1 /\ d.try = c.try
        /\ d.pc = "start"
    <3> DEFINE e == [c EXCEPT !.pc = "start"]
    <3>1. /\ e \in FileCall /\ e.kind = c.kind /\ e.files = c.files /\ e.try = c.try
          /\ e.pc = "start" /\ e.at = c.at
      BY <1>0 DEF FileCall
    <3>2. d = [e EXCEPT !.at = c.at + 1]
      BY <1>0 DEF FileCall
    <3> HIDE DEF e, d
    <3>3. QED
      BY <1>0, <3>1, <3>2 DEF FileCall
  <2> HIDE DEF d
  <2>3. CallSound(d)
    <3>1. d.at \in DOMAIN d.files
      BY <1>0, <1>1, <2>2
    <3>2. d.pc # "idle" /\ d.pc # "made"
      BY <2>2
    <3>3. QED
      BY <2>2, <3>1, <3>2 DEF CallSound
  <2>4. Ahead(d, f) => Ahead(c, f)
    BY <1>0, <2>2 DEF Ahead
  <2>5. Wrote(d, f) /\ f # c.files[c.at] => Wrote(c, f)
    BY <1>0, <2>2 DEF Wrote
  <2>6. Limit(c, f) <= Limit(d, f)
    BY <1>0, <2>2, <2>4 DEF Limit
  <2>7. QED
    BY <1>0, <2>1, <2>2, <2>3, <2>5, <2>6 DEF MovesOn
<1>2. CASE ~(c.at < Len(c.files))
  <2> DEFINE d == [c EXCEPT !.pc = "ok"]
  <2>1. FileTool!AfterWrite(c) = d
    BY <1>2 DEF FileTool!AfterWrite
  <2>2. d \in FileCall /\ d.kind = c.kind /\ d.files = c.files /\ d.at = c.at /\ d.try = c.try
        /\ d.pc = "ok"
    BY <1>0 DEF FileCall
  <2> HIDE DEF d
  <2>3. CallSound(d)
    BY <2>2 DEF CallSound
  <2>4. Ahead(d, f) => Ahead(c, f)
    BY <2>2 DEF Ahead
  <2>5. Wrote(d, f) /\ f # c.files[c.at] => Wrote(c, f)
    BY <1>0, <1>2, <2>2 DEF Wrote
  <2>6. Limit(c, f) <= Limit(d, f)
    BY <1>0, <2>2, <2>4 DEF Limit
  <2>7. QED
    BY <1>0, <2>1, <2>2, <2>3, <2>5, <2>6 DEF MovesOn
<1>3. QED
  BY <1>1, <1>2
(* What write and skill_create fill a file with.                           *)
NewText(k) == FileTool!Text(FALSE, [FileTool!Unchanged EXCEPT ![k] = 1])

(* What an operation on a thread is of, and its attempt waits for it or    *)
(* has been given up.                                                      *)
OpSound(o, c) ==
  /\ c.pc # "idle" /\ o.try \in 1..c.try
  /\ o.cut => o.what = "write"
  /\ o.what = "mkdir" => c.kind \in FileTool!Writing
  /\ o.try = c.try => c.pc = "failed" \/ (c.pc = o.what /\ o.file = c.files[c.at])
  /\ o.what = "write" =>
       /\ c.kind # "read" /\ o.data.state = "text" /\ o.data.n[o.by] >= 1
       /\ c.kind \in FileTool!Writing =>
            o.data = NewText(o.by)

FileTyped ==
  /\ disk \in [File -> FileText] /\ ops \subseteq FileOp
  /\ DOMAIN fileCall = Editor /\ \A k \in Editor : CallSound(fileCall[k])
  /\ \A o \in ops : OpSound(o, fileCall[o.by])
  /\ \A o, p \in ops : o.by = p.by /\ o.try = p.try => o = p

(* A text of f has the original, and every change as often as it should.   *)
Sound(t, f) ==
  /\ f \in Existing => t.base
  /\ \A k \in Editor : /\ t.n[k] <= Limit(fileCall[k], f)
                       /\ Wrote(fileCall[k], f) => t.n[k] >= 1

Writes(f) == {o \in ops : o.what = "write" /\ o.file = f}
IsCut(f) == \E o \in Writes(f) : o.cut

(* The writes of an undisturbed file are of one call and of one text, which *)
(* goes on from the one in the file; that, or the one about to fill the     *)
(* file, is sound.                                                         *)
FileSound(f) ==
  /\ \A o, p \in Writes(f) :
       /\ o.by = p.by /\ o.data = p.data
       /\ FileTool!Repeats(fileCall[o.by].kind) => o = p
  /\ \A o \in Writes(f) : o.cut => disk[f] \in {FileTool!NoText("cut"), o.data}
  /\ \/ disk[f].state = "text" \/ disk[f] = FileTool!NoText("missing")
     \/ disk[f] = FileTool!NoText("cut") /\ IsCut(f)
  /\ \A o \in Writes(f) : fileCall[o.by].kind \in FileTool!Changing /\ ~IsCut(f) =>
       \/ disk[f].state = "text" /\ o.data = FileTool!Changed(disk[f], o.by)
       \/ ~FileTool!Repeats(fileCall[o.by].kind) /\ disk[f] = o.data
  /\ ~IsCut(f) => Sound(disk[f], f)
  /\ \A o \in Writes(f) : o.cut \/ fileCall[o.by].kind \in FileTool!Changing => Sound(o.data, f)

FileInv == FileTyped /\ \A f \in File \ disturbed : FileSound(f)

LEMMA LimitTyped == ASSUME NEW c, CallSound(c), NEW f PROVE Limit(c, f) \in Nat
<1>1. c.try \in Nat \ {0}
  BY DEF CallSound, FileCall
<1>2. QED
  BY <1>1 DEF Limit

LEMMA OpMoves ==
  ASSUME NEW o, NEW c, NEW d, OpSound(o, c), d.kind = c.kind, d.pc # "idle",
         o.try \in Nat, c.try \in Nat, d.try \in Nat, c.try <= d.try,
         o.try # d.try \/ d.pc = "failed"
  PROVE  OpSound(o, d)
<1>1. o.try \in 1..d.try
  BY DEF OpSound
<1>2. o.try = d.try => d.pc = "failed" \/ (d.pc = o.what /\ o.file = d.files[d.at])
  OBVIOUS
<1>3. QED
  BY <1>1, <1>2 DEF OpSound

LEMMA SoundKept ==
  ASSUME FileTyped, FileTyped', NEW t \in FileText, NEW f, Sound(t, f),
         \A k \in Editor : MovesOn(fileCall[k], fileCall'[k], f)
  PROVE  Sound(t, f)'
<1>1. ASSUME NEW k \in Editor
      PROVE  t.n[k] <= Limit(fileCall'[k], f) /\ (Wrote(fileCall'[k], f) => t.n[k] >= 1)
  <2>1. Limit(fileCall[k], f) \in Nat /\ Limit(fileCall'[k], f) \in Nat
    BY LimitTyped DEF FileTyped
  <2>2. t.n[k] \in Nat
    BY DEF FileText
  <2>3. QED
    BY <2>1, <2>2 DEF Sound, MovesOn
<1>2. QED
  BY <1>1 DEF Sound, Limit, Wrote, Ahead

(* A file whose text stays, and none of whose writes is new.               *)
LEMMA FileKept ==
  ASSUME FileInv, FileTyped', NEW f \in File \ disturbed, disk'[f] = disk[f],
         Writes(f)' \subseteq Writes(f), \A o \in Writes(f) : o.cut => o \in Writes(f)',
         \A k \in Editor : MovesOn(fileCall[k], fileCall'[k], f)
  PROVE  FileSound(f)'
<1>0. FileSound(f) /\ FileTyped /\ disk[f] \in FileText
  BY DEF FileInv, FileTyped
<1>1. IsCut(f)' = IsCut(f)
  BY DEF IsCut
<1>2. ASSUME NEW o \in Writes(f) PROVE fileCall'[o.by].kind = fileCall[o.by].kind /\ o.data \in FileText
  <2>1. o \in ops /\ o.by \in Editor /\ o.data \in FileText
    BY <1>0 DEF Writes, FileTyped, FileOp
  <2>2. fileCall[o.by].pc # "idle"
    BY <1>0, <2>1 DEF FileTyped, OpSound
  <2>3. QED
    BY <2>1, <2>2 DEF MovesOn
<1>3. ~IsCut(f) => Sound(disk[f], f)'
  BY <1>0, SoundKept DEF FileSound
<1>4. ASSUME NEW o \in Writes(f)', o.cut \/ fileCall'[o.by].kind \in FileTool!Changing
      PROVE  Sound(o.data, f)'
  BY <1>0, <1>2, <1>4, SoundKept DEF FileSound
<1>5. QED
  BY <1>0, <1>1, <1>2, <1>3, <1>4 DEF FileSound

(* A step that moves one call on, and hands nothing to a thread.           *)
LEMMA TypedMove ==
  ASSUME FileTyped, NEW k \in Editor, NEW d, CallSound(d), d.pc # "idle",
         d.kind = fileCall[k].kind \/ fileCall[k].pc = "idle", fileCall[k].try <= d.try,
         fileCall' = [fileCall EXCEPT ![k] = d], disk' \in [File -> FileText], ops' \subseteq ops,
         \A o \in ops' : o.by = k => o.try # d.try \/ d.pc = "failed"
  PROVE  FileTyped'
<1>1. DOMAIN fileCall' = Editor /\ \A j \in Editor : CallSound(fileCall'[j])
  BY DEF FileTyped
<1>2. ASSUME NEW o \in ops' PROVE OpSound(o, fileCall'[o.by])
  <2>1. o \in ops /\ o.by \in Editor /\ o.try \in Nat /\ OpSound(o, fileCall[o.by])
    BY DEF FileTyped, FileOp
  <2>2. CASE o.by = k
    <3>1. OpSound(o, fileCall[k]) /\ fileCall[k].pc # "idle" /\ fileCall'[k] = d
      BY <2>1, <2>2 DEF FileTyped, OpSound
    <3>2. fileCall[k].try \in Nat /\ d.try \in Nat
      BY DEF FileTyped, CallSound
    <3>3. o.try # d.try \/ d.pc = "failed"
      BY <2>2
    <3>4. OpSound(o, d)
      BY <2>1, <3>1, <3>2, <3>3, OpMoves
    <3>5. QED
      BY <2>2, <3>1, <3>4
  <2>3. CASE o.by # k
    BY <2>1, <2>3 DEF FileTyped
  <2>4. QED
    BY <2>2, <2>3
<1>3. QED
  BY <1>1, <1>2 DEF FileTyped

LEMMA CallTyped ==
  ASSUME FileTyped, NEW k \in Editor
  PROVE  /\ CallSound(fileCall[k]) /\ fileCall[k].try \in Nat
         /\ fileCall[k].pc # "idle" => /\ FileTool!Current(k) \in File
                                       /\ fileCall[k].at \in DOMAIN fileCall[k].files
         /\ fileCall[k].pc \in {"start", "made"} =>
              \A o \in ops : o.by = k => o.try # fileCall[k].try /\ o.try <= fileCall[k].try
<1>1. CallSound(fileCall[k]) /\ fileCall[k].try \in Nat /\ fileCall[k].files \in Seq(File)
  BY DEF FileTyped, CallSound, FileCall
<1>2. fileCall[k].pc # "idle" => fileCall[k].at \in DOMAIN fileCall[k].files
  BY <1>1 DEF CallSound
<1>3. fileCall[k].pc # "idle" => FileTool!Current(k) \in File
  BY <1>1, <1>2 DEF FileTool!Current
<1>4. ASSUME fileCall[k].pc \in {"start", "made"}, NEW o \in ops, o.by = k
      PROVE  o.try # fileCall[k].try /\ o.try <= fileCall[k].try
  <2>1. OpSound(o, fileCall[k]) /\ o.what \in {"mkdir", "write"}
    BY <1>4 DEF FileTyped, FileOp
  <2>2. o.try \in 1..fileCall[k].try
    BY <2>1 DEF OpSound
  <2>3. o.try # fileCall[k].try
    BY <1>4, <2>1 DEF OpSound
  <2>4. QED
    BY <1>1, <2>2, <2>3
<1>5. QED
  BY <1>1, <1>2, <1>3, <1>4

(* A step that hands an operation to a thread, and waits for it.           *)
LEMMA Hands ==
  ASSUME FileTyped, NEW k \in Editor, fileCall[k].pc \in {"start", "made"},
         NEW what \in {"mkdir", "write"}, NEW data \in FileText, FileTool!Hand(k, what, data),
         disk' = disk, what = "mkdir" => fileCall[k].kind \in FileTool!Writing,
         what = "write" =>
           /\ fileCall[k].kind # "read" /\ data.state = "text" /\ data.n[k] >= 1
           /\ fileCall[k].kind \in FileTool!Writing => data = NewText(k)
  PROVE  /\ FileTyped' /\ \A j \in Editor : \A f : MovesOn(fileCall[j], fileCall'[j], f)
         /\ fileCall'[k].pc = what /\ fileCall'[k].kind = fileCall[k].kind
         /\ fileCall'[k].files = fileCall[k].files /\ fileCall'[k].at = fileCall[k].at
         /\ fileCall'[k].try = fileCall[k].try
         /\ \E o : /\ ops' = ops \cup {o} /\ o.by = k /\ o.what = what /\ o.data = data
                   /\ o.file = FileTool!Current(k) /\ o.cut = FALSE
<1> DEFINE c == fileCall[k]
           d == [c EXCEPT !.pc = what]
           o == FileTool!Op(k, what, data)
<1>0. CallSound(c) /\ c \in FileCall /\ c.try \in Nat \ {0} /\ FileTool!Current(k) \in File
      /\ DOMAIN fileCall = Editor
  <2>1. CallSound(c) /\ FileTool!Current(k) \in File
    BY CallTyped
  <2>2. QED
    BY <2>1 DEF CallSound, FileTyped
<1>1. fileCall' = [fileCall EXCEPT ![k] = d]
  BY DEF FileTool!Hand, FileTool!Goto
<1>2. /\ d.pc = what /\ d.kind = c.kind /\ d.try = c.try /\ d.files = c.files /\ d.at = c.at
  BY <1>0 DEF FileCall
<1>3. /\ ops' = ops \cup {o} /\ o \in FileOp /\ o.by = k /\ o.try = c.try /\ o.what = what
      /\ o.file = c.files[c.at] /\ o.file = FileTool!Current(k) /\ o.data = data /\ o.cut = FALSE
  BY <1>0 DEF FileTool!Hand, FileTool!Op, FileTool!Current, FileOp
<1>4. CallSound(d) /\ \A f : MovesOn(c, d, f)
  BY <1>0, GotoMoves
<1> HIDE DEF c, d, o
<1>5. ASSUME NEW j \in Editor, NEW f PROVE MovesOn(fileCall[j], fileCall'[j], f)
  <2>1. CASE j = k
    BY <1>0, <1>1, <1>4, <2>1 DEF c
  <2>2. CASE j # k
    <3>1. fileCall'[j] = fileCall[j] /\ CallSound(fileCall[j])
      BY <1>1, <2>2, CallTyped
    <3>2. Limit(fileCall[j], f) <= Limit(fileCall[j], f)
      BY <3>1, LimitTyped
    <3>3. QED
      BY <3>1, <3>2 DEF MovesOn
  <2>3. QED
    BY <2>1, <2>2
<1>6. OpSound(o, d)
  <2>1. d.pc # "idle" /\ o.try \in 1..d.try /\ (o.cut => o.what = "write")
    BY <1>0, <1>2, <1>3
  <2>2. o.what = "mkdir" => d.kind \in FileTool!Writing
    BY <1>2, <1>3 DEF c
  <2>3. d.pc = o.what /\ o.file = d.files[d.at]
    BY <1>2, <1>3
  <2>4. o.what = "write" =>
          /\ d.kind # "read" /\ o.data.state = "text" /\ o.data.n[o.by] >= 1
          /\ d.kind \in FileTool!Writing => o.data = NewText(o.by)
    BY <1>2, <1>3 DEF c
  <2>5. QED
    BY <2>1, <2>2, <2>3, <2>4 DEF OpSound
<1>7. ASSUME NEW p \in ops PROVE OpSound(p, fileCall'[p.by]) /\ ~(p.by = k /\ p.try = c.try)
  <2>1. p.by \in Editor /\ p.try \in Nat /\ OpSound(p, fileCall[p.by])
    BY DEF FileTyped, FileOp
  <2>2. CASE p.by = k
    <3>1. p.try # c.try /\ OpSound(p, c)
      BY <2>1, <2>2, CallTyped DEF c
    <3>2. d.pc # "idle" /\ c.try <= d.try /\ p.try # d.try /\ d.try \in Nat
      BY <1>0, <1>2, <3>1
    <3>3. OpSound(p, d)
      BY <1>0, <1>2, <2>1, <3>1, <3>2, OpMoves
    <3>4. QED
      BY <1>0, <1>1, <2>2, <3>1, <3>3
  <2>3. CASE p.by # k
    BY <1>1, <2>1, <2>3
  <2>4. QED
    BY <2>2, <2>3
<1>8. FileTyped'
  <2>1. ops' \subseteq FileOp /\ disk' \in [File -> FileText]
    BY <1>3 DEF FileTyped
  <2>2. DOMAIN fileCall' = Editor /\ \A j \in Editor : CallSound(fileCall'[j])
    BY <1>0, <1>1, <1>4, CallTyped
  <2>3. \A p \in ops' : OpSound(p, fileCall'[p.by])
    BY <1>0, <1>1, <1>3, <1>6, <1>7
  <2>4. ASSUME NEW p \in ops', NEW q \in ops', p.by = q.by, p.try = q.try PROVE p = q
    BY <1>3, <1>7, <2>4 DEF FileTyped
  <2>5. QED
    BY <2>1, <2>2, <2>3, <2>4 DEF FileTyped
<1>9. fileCall'[k] = d
  BY <1>0, <1>1
<1>10. QED
  BY <1>2, <1>3, <1>5, <1>8, <1>9 DEF c

(* The files a step leaves alone.                                          *)
LEMMA MovesTrivially ==
  ASSUME FileTyped, NEW j \in Editor, NEW f PROVE MovesOn(fileCall[j], fileCall[j], f)
<1>1. Limit(fileCall[j], f) \in Nat
  BY CallTyped, LimitTyped
<1>2. QED
  BY <1>1 DEF MovesOn

LEMMA OthersMove ==
  ASSUME FileTyped, NEW k \in Editor, NEW d, fileCall' = [fileCall EXCEPT ![k] = d],
         NEW f, MovesOn(fileCall[k], d, f)
  PROVE  \A j \in Editor : MovesOn(fileCall[j], fileCall'[j], f)
<1>1. ASSUME NEW j \in Editor PROVE MovesOn(fileCall[j], fileCall'[j], f)
  <2>1. CASE j = k
    BY <2>1 DEF FileTyped
  <2>2. CASE j # k
    BY <2>2, MovesTrivially DEF FileTyped
  <2>3. QED
    BY <2>1, <2>2
<1>2. QED
  BY <1>1

(* An attempt that begins, or fails without an operation of its own.        *)
LEMMA CallStep ==
  ASSUME FileInv, NEW k \in Editor, NEW d, CallSound(d), d.pc # "idle",
         \A f : MovesOn(fileCall[k], d, f), fileCall[k].try <= d.try,
         fileCall' = [fileCall EXCEPT ![k] = d],
         \A o \in ops : o.by = k => o.try # d.try \/ d.pc = "failed",
         UNCHANGED <<disk, ops, disturbed>>
  PROVE  FileInv'
<1>1. FileTyped'
  <2>1. d.kind = fileCall[k].kind \/ fileCall[k].pc = "idle"
    BY DEF MovesOn
  <2>2. QED
    BY <2>1, TypedMove DEF FileInv, FileTyped
<1>2. ASSUME NEW f \in File \ disturbed PROVE FileSound(f)'
  <2>1. Writes(f)' = Writes(f) /\ disk'[f] = disk[f]
    BY DEF Writes
  <2>2. \A j \in Editor : MovesOn(fileCall[j], fileCall'[j], f)
    BY OthersMove DEF FileInv
  <2>3. QED
    BY <1>1, <2>1, <2>2, FileKept
<1>3. QED
  BY <1>1, <1>2 DEF FileInv

LEMMA FailStep ==
  ASSUME FileInv, NEW k \in Editor, fileCall[k].pc # "idle", FileTool!Fail(k),
         UNCHANGED <<disk, ops, disturbed>>
  PROVE  FileInv'
<1> DEFINE d == FileTool!Failed(fileCall[k])
<1>0. FileTyped /\ CallSound(fileCall[k]) /\ fileCall[k].try \in Nat /\ Retries \in Nat
  BY CallTyped, KeepingAssumption DEF FileInv, FileTool!FileAssumption
<1>1. /\ CallSound(d) /\ \A f : MovesOn(fileCall[k], d, f) 
      /\ d.pc \in {"start", "failed"}
      /\ d.try > fileCall[k].try \/ (d.pc = "failed" /\ d.try = fileCall[k].try)
  BY <1>0, FailedMoves
<1>2. fileCall' = [fileCall EXCEPT ![k] = d]
  BY DEF FileTool!Fail
<1> HIDE DEF d
<1>3. d.try \in Nat
  BY <1>1 DEF CallSound
<1>4. ASSUME NEW o \in ops, o.by = k PROVE o.try # d.try \/ d.pc = "failed"
  <2>1. OpSound(o, fileCall[k])
    BY <1>0, <1>4 DEF FileTyped
  <2>2. o.try \in 1..fileCall[k].try
    BY <2>1 DEF OpSound
  <2>3. QED
    BY <1>0, <1>1, <1>3, <2>2
<1>5. d.pc # "idle" /\ fileCall[k].try <= d.try
  BY <1>0, <1>1, <1>3
<1>6. QED
  BY <1>1, <1>2, <1>4, <1>5, CallStep

LEMMA ExecuteStep == ASSUME FileInv, NEW k \in Editor, FileTool!Execute(k) PROVE FileInv'
<1>0. FileTyped /\ fileCall[k].pc = "idle" /\ Retries \in Nat
      /\ CallSound(fileCall[k]) /\ UNCHANGED <<disk, ops, disturbed>>
  <2>1. FileTyped /\ Retries \in Nat
    BY KeepingAssumption DEF FileInv, FileTool!FileAssumption
  <2>2. CallSound(fileCall[k])
    BY <2>1, CallTyped
  <2>3. fileCall[k].pc = "idle" /\ UNCHANGED <<disk, ops, disturbed>>
    BY DEF FileTool!Execute
  <2>4. QED
    BY <2>1, <2>2, <2>3
<1>a. PICK kind \in FileTool!Kinds : \E fs \in FileTool!Files(kind) :
        fileCall' = [fileCall EXCEPT ![k] =
          [FileTool!Fresh EXCEPT !.kind = kind, !.files = fs, !.pc = "start"]]
  BY DEF FileTool!Execute
<1>1. PICK fs \in FileTool!Files(kind) :
        fileCall' = [fileCall EXCEPT ![k] =
          [FileTool!Fresh EXCEPT !.kind = kind, !.files = fs, !.pc = "start"]]
  BY <1>a
<1>2. /\ fs \in Seq(File) /\ 1 \in DOMAIN fs /\ (~FileTool!Repeats(kind) => Len(fs) = 1)
      /\ \A i, j \in DOMAIN fs : i # j => fs[i] # fs[j]
  <2>1. CASE \E f \in File : fs = <<f>>
    BY <2>1
  <2>2. CASE kind = "patch" /\ \E p \in File \X File : p[1] # p[2] /\ fs = p
    <3>1. PICK f \in File, g \in File : f # g /\ fs = <<f, g>>
      BY <2>2
    <3>2. FileTool!Repeats(kind)
      BY <2>2 DEF FileTool!Repeats
    <3>3. QED
      BY <3>1, <3>2
  <2>3. QED
    BY <2>1, <2>2 DEF FileTool!Files
<1> DEFINE d == [FileTool!Fresh EXCEPT !.kind = kind, !.files = fs, !.pc = "start"]
<1>3. /\ d.kind = kind /\ d.files = fs /\ d.at = 1 /\ d.try = 1 /\ d.pc = "start"
      /\ d \in FileCall
  <2>1. d = [kind |-> kind, files |-> fs, at |-> 1, try |-> 1, pc |-> "start"]
    <3> DEFINE e == [FileTool!Fresh EXCEPT !.kind = kind]
               g == [e EXCEPT !.files = fs]
    <3>1. e = [kind |-> kind, files |-> <<>>, at |-> 1, try |-> 1, pc |-> "idle"]
      BY DEF FileTool!Fresh
    <3>2. d = [g EXCEPT !.pc = "start"]
      OBVIOUS
    <3> HIDE DEF e, d
    <3>3. g = [kind |-> kind, files |-> fs, at |-> 1, try |-> 1, pc |-> "idle"]
      BY <3>1
    <3> HIDE DEF g
    <3>4. QED
      BY <3>2, <3>3
  <2> HIDE DEF d
  <2>2. QED
    BY <1>2, <2>1 DEF FileCall
<1>4. fileCall' = [fileCall EXCEPT ![k] = d]
  BY <1>1
<1> HIDE DEF d
<1>5. CallSound(d)
  BY <1>0, <1>2, <1>3 DEF CallSound
<1>6. \A f : MovesOn(fileCall[k], d, f)
  <2> TAKE f
  <2>1. Limit(fileCall[k], f) = 0 /\ Limit(d, f) \in Nat
    BY <1>0, <1>5, LimitTyped DEF Limit
  <2>2. ~Wrote(d, f)
    BY <1>2, <1>3 DEF Wrote
  <2>3. QED
    BY <1>0, <2>1, <2>2 DEF MovesOn
<1>7. ASSUME NEW o \in ops PROVE o.by # k
  BY <1>0 DEF FileTyped, OpSound
<1>8. fileCall[k].try <= d.try
  BY <1>0, <1>3 DEF CallSound
<1>9. QED
  BY <1>0, <1>3, <1>4, <1>5, <1>6, <1>7, <1>8, CallStep

(* A file that is not the one an operation is handed for.                  *)
LEMMA HandedElsewhere ==
  ASSUME FileInv, FileTyped', NEW f \in File \ disturbed, disk' = disk, NEW o,
         ops' = ops \cup {o}, o.what # "write" \/ o.file # f,
         \A j \in Editor : MovesOn(fileCall[j], fileCall'[j], f)
  PROVE  FileSound(f)'
<1>1. Writes(f)' = Writes(f) /\ disk'[f] = disk[f]
  BY DEF Writes
<1>2. QED
  BY <1>1, FileKept

LEMMA MakeDirStep ==
  ASSUME FileInv, NEW k \in Editor, fileCall[k].pc \in {"start", "made"},
         FileTool!Hand(k, "mkdir", FileTool!NoText("missing")),
         fileCall[k].kind \in FileTool!Writing, UNCHANGED <<disk, disturbed>>
  PROVE  FileInv'
<1>1. FileTool!NoText("missing") \in FileText
  BY DEF FileTool!NoText, FileTool!Unchanged, FileText
<1>2. /\ FileTyped' /\ \A j \in Editor : \A f : MovesOn(fileCall[j], fileCall'[j], f)
      /\ \E o : ops' = ops \cup {o} /\ o.what = "mkdir"
  <2>1. FileTyped /\ disk' = disk /\ "mkdir" # "write" /\ "mkdir" \in {"mkdir", "write"}
    BY DEF FileInv
  <2>2. \E o : ops' = ops \cup {o} /\ o.what = "mkdir"
    <3> DEFINE o == FileTool!Op(k, "mkdir", FileTool!NoText("missing"))
    <3>1. ops' = ops \cup {o}
      BY DEF FileTool!Hand
    <3>2. o.what = "mkdir"
      BY DEF FileTool!Op
    <3> HIDE DEF o
    <3>3. QED
      BY <3>1, <3>2
  <2>3. FileTyped' /\ \A j \in Editor : \A f : MovesOn(fileCall[j], fileCall'[j], f)
    BY <1>1, <2>1, Hands
  <2>4. QED
    BY <2>2, <2>3
<1>3. ASSUME NEW f \in File \ disturbed PROVE FileSound(f)'
  BY <1>2, <1>3, HandedElsewhere
<1>4. QED
  BY <1>2, <1>3 DEF FileInv

LEMMA NewTextIs ==
  ASSUME NEW k \in Editor
  PROVE  /\ NewText(k) \in FileText /\ NewText(k).state = "text" /\ NewText(k).base = FALSE
         /\ NewText(k).n[k] = 1 /\ \A j \in Editor \ {k} : NewText(k).n[j] = 0
BY DEF NewText, FileTool!Text, FileTool!Unchanged, FileText

LEMMA WriteNewStep == ASSUME FileInv, NEW k \in Editor, FileTool!WriteNew(k) PROVE FileInv'
<1>f. PICK f : f = FileTool!Current(k)
  OBVIOUS
<1>0. /\ fileCall[k].pc = "made" /\ disk' = disk /\ FileTyped /\ f \in File
      /\ fileCall[k].kind \in FileTool!Writing
      /\ FileTool!Hand(k, "write", NewText(k))
      /\ disturbed \subseteq disturbed' /\ (f \notin disturbed' => ~FileTool!Shared(k))
  <2>1. /\ fileCall[k].pc = "made" /\ disk' = disk /\ FileTool!Hand(k, "write", NewText(k))
        /\ FileTool!DisturbedIf(FileTool!Shared(k), f)
    BY <1>f DEF FileTool!WriteNew, NewText
  <2>2. CallSound(fileCall[k]) /\ f \in File /\ FileTyped
    BY <1>f, <2>1, CallTyped DEF FileInv
  <2>3. QED
    BY <2>1, <2>2 DEF CallSound, FileTool!DisturbedIf
<1>1. fileCall[k].kind # "read" /\ ~FileTool!Repeats(fileCall[k].kind)
      /\ fileCall[k].kind \notin FileTool!Changing
  <2>1. fileCall[k].kind \in FileTool!Kinds
    BY <1>0, CallTyped DEF CallSound, FileCall
  <2>2. QED
    BY <1>0, <2>1, KindsApart
<1>2. /\ FileTyped' /\ \A j \in Editor : \A g : MovesOn(fileCall[j], fileCall'[j], g)
      /\ \E o : /\ ops' = ops \cup {o} /\ o.by = k /\ o.what = "write" /\ o.data = NewText(k)
                /\ o.file = f /\ o.cut = FALSE
  <2>n. PICK new : new = NewText(k)
    OBVIOUS
  <2>1. new \in FileText /\ new.state = "text" /\ new.n[k] >= 1
    <3>1. NewText(k) \in FileText
      BY NewTextIs
    <3>2. NewText(k).state = "text"
      BY NewTextIs
    <3>3. NewText(k).n[k] = 1
      BY NewTextIs
    <3>4. NewText(k).n[k] >= 1
      BY <3>3
    <3>5. QED
      BY <2>n, <3>1, <3>2, <3>4
  <2>2. "write" # "mkdir" /\ "write" \in {"mkdir", "write"} /\ fileCall[k].pc \in {"start", "made"}
        /\ FileTool!Hand(k, "write", new)
    BY <1>0, <2>n
  <2>3. \E o : /\ ops' = ops \cup {o} /\ o.by = k /\ o.what = "write" /\ o.data = new
               /\ o.file = FileTool!Current(k) /\ o.cut = FALSE
    BY <1>0, <1>1, <2>1, <2>2, <2>n, Hands
  <2>4. /\ FileTyped' /\ \A j \in Editor : \A g : MovesOn(fileCall[j], fileCall'[j], g)
    BY <1>0, <1>1, <2>1, <2>2, <2>n, Hands
  <2>5. QED
    BY <1>f, <2>3, <2>4, <2>n
<1>3. PICK o : /\ ops' = ops \cup {o} /\ o.by = k /\ o.what = "write" /\ o.data = NewText(k)
               /\ o.file = f /\ o.cut = FALSE
  BY <1>2
<1>4. ASSUME NEW g \in File \ disturbed', g # f PROVE FileSound(g)'
  BY <1>0, <1>2, <1>3, <1>4, HandedElsewhere
<1>5. ASSUME f \notin disturbed' PROVE FileSound(f)'
  <2>1. FileSound(f) /\ ~FileTool!Shared(k) /\ disk[f] \in FileText
    BY <1>0, <1>5 DEF FileInv, FileTyped
  <2>2. Writes(f)' = Writes(f) \cup {o} /\ IsCut(f)' = IsCut(f)
    BY <1>3 DEF Writes, IsCut
  <2>3. ASSUME NEW p \in Writes(f) PROVE p.by = k /\ p.data = NewText(k)
    <3>1. p \in ops /\ p.what = "write" /\ p.file = f
      BY DEF Writes
    <3>2. p.by = k
      BY <1>f, <2>1, <3>1 DEF FileTool!Shared
    <3>3. OpSound(p, fileCall[k])
      BY <1>0, <3>1, <3>2 DEF FileTyped
    <3>4. QED
      BY <1>0, <3>1, <3>2, <3>3 DEF OpSound
  <2>4. \A p \in Writes(f)' : p.by = k /\ p.data = NewText(k)
    BY <1>3, <2>2, <2>3
  <2>5. fileCall'[k].kind = fileCall[k].kind
    BY <1>0, <1>2 DEF MovesOn
  <2>6. \A p \in Writes(f)' : p.cut => p \in Writes(f)
    BY <1>3, <2>2
  <2>7. ~IsCut(f) => Sound(disk[f], f)'
    BY <1>0, <1>2, <2>1, SoundKept DEF FileSound
  <2>8. ASSUME NEW p \in Writes(f)', p.cut PROVE Sound(p.data, f)'
    <3>1. Sound(p.data, f) /\ p.data \in FileText
      BY <2>1, <2>3, <2>6, <2>8, NewTextIs DEF FileSound
    <3>2. QED
      BY <1>0, <1>2, <3>1, SoundKept
  <2>9. /\ \A p \in Writes(f)' : p.cut => disk'[f] \in {FileTool!NoText("cut"), p.data}
        /\ disk'[f].state = "text" \/ disk'[f] = FileTool!NoText("missing")
             \/ (disk'[f] = FileTool!NoText("cut") /\ IsCut(f)')
    <3>1. disk'[f] = disk[f]
      BY <1>0
    <3>2. \A p \in Writes(f) : p.cut => disk[f] \in {FileTool!NoText("cut"), p.data}
      BY <2>1 DEF FileSound
    <3>3. disk[f].state = "text" \/ disk[f] = FileTool!NoText("missing")
             \/ (disk[f] = FileTool!NoText("cut") /\ IsCut(f))
      BY <2>1 DEF FileSound
    <3>4. QED
      BY <2>2, <2>6, <3>1, <3>2, <3>3
  <2>10. QED
    BY <1>0, <1>1, <2>2, <2>4, <2>5, <2>7, <2>8, <2>9 DEF FileSound
<1>6. QED
  BY <1>0, <1>2, <1>4, <1>5 DEF FileInv

LEMMA ChangedIs ==
  ASSUME NEW t \in FileText, NEW k \in Editor
  PROVE  /\ FileTool!Changed(t, k) \in FileText /\ FileTool!Changed(t, k).state = "text"
         /\ FileTool!Changed(t, k).base = t.base /\ FileTool!Changed(t, k).n[k] = t.n[k] + 1
         /\ \A j \in Editor \ {k} : FileTool!Changed(t, k).n[j] = t.n[j]
<1>1. t.n \in [Editor -> Nat] /\ t.base \in BOOLEAN
  BY DEF FileText
<1>2. [t.n EXCEPT ![k] = @ + 1] \in [Editor -> Nat]
  BY <1>1
<1>3. QED
  BY <1>1, <1>2 DEF FileTool!Changed, FileTool!Text, FileText

LEMMA ReadStep == ASSUME FileInv, NEW k \in Editor, FileTool!Read(k) PROVE FileInv'
<1>0. /\ fileCall[k].pc = "start" /\ fileCall[k].kind = "read"
      /\ UNCHANGED <<disk, ops, disturbed>>
      /\ FileTool!Fail(k) \/ FileTool!Goto(k, "ok")
  BY DEF FileTool!Read
<1>1. CASE FileTool!Fail(k)
  BY <1>0, <1>1, FailStep
<1>2. CASE FileTool!Goto(k, "ok")
  <2> DEFINE c == fileCall[k]
             d == [c EXCEPT !.pc = "ok"]
  <2>1. FileTyped /\ CallSound(c) /\ c \in FileCall /\ c.try \in Nat
    <3>1. FileTyped /\ CallSound(c) /\ c.try \in Nat
      BY CallTyped DEF FileInv
    <3>2. QED
      BY <3>1 DEF CallSound
  <2>2. fileCall' = [fileCall EXCEPT ![k] = d]
    BY <1>2 DEF FileTool!Goto
  <2>3. d.pc = "ok" /\ d.try = c.try
    BY <2>1 DEF FileCall
  <2>4. CallSound(d) /\ \A f : MovesOn(c, d, f)
    BY <1>0, <2>1, GotoMoves
  <2>5. \A o \in ops : o.by = k => o.try # c.try
    BY <1>0, <2>1, CallTyped
  <2> HIDE DEF d
  <2>6. d.pc # "idle" /\ c.try <= d.try
    BY <2>1, <2>3
  <2>7. \A o \in ops : o.by = k => o.try # d.try \/ d.pc = "failed"
    BY <2>3, <2>5
  <2>8. QED
    BY <1>0, <2>2, <2>4, <2>6, <2>7, CallStep
<1>3. QED
  BY <1>0, <1>1, <1>2

LEMMA CheckNewStep ==
  ASSUME FileInv, NEW k \in Editor, FileTool!CheckNew(k) \/ FileTool!StartWrite(k) PROVE FileInv'
<1>1. /\ fileCall[k].pc = "start" /\ fileCall[k].kind \in FileTool!Writing
      /\ UNCHANGED <<disk, disturbed>>
      /\ (FileTool!Fail(k) /\ ops' = ops) \/ FileTool!Hand(k, "mkdir", FileTool!NoText("missing"))
  BY DEF FileTool!CheckNew, FileTool!StartWrite, FileTool!Writing
<1>2. CASE FileTool!Fail(k) /\ ops' = ops
  BY <1>1, <1>2, FailStep
<1>3. CASE FileTool!Hand(k, "mkdir", FileTool!NoText("missing"))
  BY <1>1, <1>3, MakeDirStep
<1>4. QED
  BY <1>1, <1>2, <1>3

LEMMA TimeoutStep == ASSUME FileInv, NEW k \in Editor, FileTool!AttemptTimeout(k) PROVE FileInv'
<1>1. fileCall[k].pc # "idle" /\ FileTool!Fail(k) /\ UNCHANGED <<disk, ops, disturbed>>
  BY DEF FileTool!AttemptTimeout, FileTool!Open
<1>2. QED
  BY <1>1, FailStep

(* edit and apply_patch: what is written is the text that is there, with     *)
(* one more change.                                                        *)
LEMMA ReadToChangeStep ==
  ASSUME FileInv, NEW k \in Editor, FileTool!ReadToChange(k) PROVE FileInv'
<1>f. PICK f : f = FileTool!Current(k)
  OBVIOUS
<1>t. PICK t : t = disk[f]
  OBVIOUS
<1>0. /\ fileCall[k].pc = "start" /\ fileCall[k].kind \in FileTool!Changing /\ disk' = disk
      /\ FileTyped /\ f \in File /\ t \in FileText
      /\ CallSound(fileCall[k])
  <2>1. fileCall[k].pc = "start" /\ fileCall[k].kind \in FileTool!Changing /\ disk' = disk
    BY DEF FileTool!ReadToChange
  <2>2. FileTyped /\ CallSound(fileCall[k]) /\ f \in File
    BY <1>f, <2>1, CallTyped DEF FileInv
  <2>3. QED
    BY <1>t, <2>1, <2>2 DEF FileTyped
<1>1. CASE FileTool!Fail(k) /\ UNCHANGED <<ops, disturbed>>
  BY <1>0, <1>1, FailStep
<1>2. CASE /\ fileCall[k].kind \in DOMAIN Edits => FileTool!Matches(t, k)
           /\ FileTool!Hand(k, "write", FileTool!Changed(t, k))
           /\ FileTool!DisturbedIf(FileTool!Shared(k) \/ t.state # "text", f)
  <2>n. PICK new : new = FileTool!Changed(t, k)
    OBVIOUS
  <2>a. fileCall[k].kind \in FileTool!Kinds
    BY <1>0 DEF CallSound, FileCall
  <2>b. ~FileTool!Repeats(fileCall[k].kind) => t.n[k] = 0
    <3>1. ASSUME ~FileTool!Repeats(fileCall[k].kind) PROVE t.n[k] = 0
      <4>1. fileCall[k].kind \in DOMAIN Edits
        BY <1>0, <2>a, <3>1, KindsApart
      <4>2. FileTool!Matches(t, k)
        BY <1>2, <4>1
      <4>3. ~FileTool!Replaces(Edits[fileCall[k].kind], Edits[fileCall[k].kind].again)
        BY <3>1, <4>1 DEF FileTool!Repeats
      <4>4. ~FileTool!Replaces(Edits[fileCall[k].kind], 0)
        BY DEF FileTool!Replaces
      <4>5. QED
        BY <4>2, <4>3, <4>4 DEF FileTool!Matches, FileTool!Occurrences
    <3>2. QED
      BY <3>1
  <2>0. /\ new \in FileText /\ new.state = "text" /\ new.base = t.base /\ new.n[k] = t.n[k] + 1
        /\ \A j \in Editor \ {k} : new.n[j] = t.n[j]
        /\ t.n \in [Editor -> Nat]
        /\ new.n[k] >= 1
    <3>1. /\ new \in FileText /\ new.state = "text" /\ new.base = t.base /\ new.n[k] = t.n[k] + 1
          /\ \A j \in Editor \ {k} : new.n[j] = t.n[j]
      BY <1>0, <2>n, ChangedIs
    <3>2. t.n \in [Editor -> Nat]
      BY <1>0 DEF FileText
    <3>3. new.n[k] >= 1
      BY <3>1, <3>2
    <3>4. QED
      BY <3>1, <3>2, <3>3
  <2>1. /\ disturbed \subseteq disturbed' /\ FileTool!Hand(k, "write", new)
        /\ f \notin disturbed' => ~FileTool!Shared(k) /\ t.state = "text"
    BY <1>2, <2>n DEF FileTool!DisturbedIf
  <2>2. /\ FileTyped' /\ \A j \in Editor : \A g : MovesOn(fileCall[j], fileCall'[j], g)
        /\ fileCall'[k].pc = "write" /\ fileCall'[k].kind = fileCall[k].kind
        /\ fileCall'[k].files = fileCall[k].files /\ fileCall'[k].at = fileCall[k].at
        /\ fileCall'[k].try = fileCall[k].try
        /\ \E o : /\ ops' = ops \cup {o} /\ o.by = k /\ o.what = "write" /\ o.data = new
                  /\ o.file = f /\ o.cut = FALSE
    <3>1. /\ fileCall[k].pc \in {"start", "made"} /\ "write" \in {"mkdir", "write"}
          /\ "write" # "mkdir" /\ fileCall[k].kind # "read"
          /\ fileCall[k].kind \notin FileTool!Writing
      BY <1>0, <2>a, KindsApart
    <3>2. /\ FileTyped' /\ \A j \in Editor : \A g : MovesOn(fileCall[j], fileCall'[j], g)
          /\ fileCall'[k].pc = "write" /\ fileCall'[k].kind = fileCall[k].kind
          /\ fileCall'[k].files = fileCall[k].files /\ fileCall'[k].at = fileCall[k].at
          /\ fileCall'[k].try = fileCall[k].try
      BY <1>0, <2>0, <2>1, <3>1, Hands
    <3>3. \E o : /\ ops' = ops \cup {o} /\ o.by = k /\ o.what = "write" /\ o.data = new
                 /\ o.file = FileTool!Current(k) /\ o.cut = FALSE
      BY <1>0, <2>0, <2>1, <3>1, Hands
    <3>4. QED
      BY <1>f, <3>2, <3>3
  <2>3. PICK o : /\ ops' = ops \cup {o} /\ o.by = k /\ o.what = "write" /\ o.data = new
                 /\ o.file = f /\ o.cut = FALSE
    BY <2>2
  <2>4. ASSUME NEW g \in File \ disturbed', g # f PROVE FileSound(g)'
    BY <1>0, <2>1, <2>2, <2>3, <2>4, HandedElsewhere
  <2>5. ASSUME f \notin disturbed' PROVE FileSound(f)'
    <3>1. FileSound(f) /\ ~FileTool!Shared(k) /\ t.state = "text"
      BY <1>0, <2>1, <2>5 DEF FileInv
    <3>2. Writes(f)' = Writes(f) \cup {o} /\ IsCut(f)' = IsCut(f)
      BY <2>3 DEF Writes, IsCut
    <3>3. ASSUME NEW p \in Writes(f)
          PROVE  p.by = k /\ ~FileTool!Repeats(fileCall[k].kind) /\ p.data.n[k] >= 1
      <4>1. p \in ops /\ p.what = "write" /\ p.file = f
        BY DEF Writes
      <4>2. p.by = k /\ ~FileTool!Repeats(fileCall[k].kind)
        BY <1>f, <3>1, <4>1 DEF FileTool!Shared
      <4>3. OpSound(p, fileCall[k])
        BY <1>0, <4>1, <4>2 DEF FileTyped
      <4>4. QED
        BY <1>0, <4>1, <4>2, <4>3 DEF OpSound, FileTool!Changing
    <3>4. ASSUME NEW p \in Writes(f) PROVE ~p.cut /\ p.data = new
      <4>1. ~FileTool!Repeats(fileCall[k].kind) /\ p.by = k /\ t.n[k] = 0 /\ p.data # t
        BY <2>b, <3>3
      <4>2. t # FileTool!NoText("cut")
        BY <3>1 DEF FileTool!NoText
      <4>3. ASSUME NEW q \in Writes(f) PROVE ~q.cut
        <5>1. q.data # t
          BY <3>3, <4>1
        <5>2. q.cut => t \in {FileTool!NoText("cut"), q.data}
          BY <1>t, <3>1 DEF FileSound
        <5>3. QED
          BY <4>2, <5>1, <5>2
      <4>4. ~IsCut(f)
        BY <4>3 DEF IsCut
      <4>5. p.data = FileTool!Changed(t, k)
        BY <1>0, <1>t, <3>1, <4>1, <4>4 DEF FileSound
      <4>6. QED
        BY <2>n, <4>3, <4>5
    <3>5. ~IsCut(f) /\ Sound(t, f)
      <4>1. ~IsCut(f)
        BY <3>4 DEF IsCut
      <4>2. QED
        BY <1>t, <3>1, <4>1 DEF FileSound
    <3>6. Sound(t, f)'
      BY <1>0, <2>2, <3>5, SoundKept
    <3>7. Sound(new, f)'
      <4>1. t.n[k] + 1 <= Limit(fileCall'[k], f)
        <5>1. CASE ~FileTool!Repeats(fileCall[k].kind)
          <6>1. t.n[k] = 0 /\ Limit(fileCall'[k], f) = 1
            BY <2>b, <2>2, <5>1 DEF Limit
          <6>2. QED
            BY <6>1
        <5>2. CASE FileTool!Repeats(fileCall[k].kind)
          <6>1. /\ fileCall[k].at \in DOMAIN fileCall[k].files
                /\ fileCall[k].files[fileCall[k].at] = f
                /\ \A i, j \in DOMAIN fileCall[k].files :
                     i # j => fileCall[k].files[i] # fileCall[k].files[j]
                /\ DOMAIN fileCall[k].files \subseteq Nat
                /\ fileCall[k].try \in Nat
            BY <1>0, <1>f DEF CallSound, FileCall, FileTool!Current
          <6>2. Ahead(fileCall[k], f)
            BY <1>0, <6>1 DEF Ahead
          <6>3. ~Ahead(fileCall'[k], f)
            BY <2>2, <6>1 DEF Ahead
          <6>4. t.n[k] <= fileCall[k].try - 1
            BY <1>0, <3>5, <5>2, <6>2 DEF Sound, Limit
          <6>5. Limit(fileCall'[k], f) = fileCall[k].try
            BY <2>2, <5>2, <6>3 DEF Limit
          <6>6. QED
            BY <2>0, <6>1, <6>4, <6>5
        <5>3. QED
          BY <5>1, <5>2
      <4>2. ASSUME NEW j \in Editor
            PROVE  /\ new.n[j] <= Limit(fileCall'[j], f)
                   /\ Wrote(fileCall'[j], f) => new.n[j] >= 1
        <5>1. CASE j = k
          BY <2>0, <4>1, <5>1
        <5>2. CASE j # k
          <6>1. new.n[j] = t.n[j]
            BY <2>0, <5>2
          <6>2. t.n[j] <= Limit(fileCall'[j], f) /\ (Wrote(fileCall'[j], f) => t.n[j] >= 1)
            BY <3>6 DEF Sound, Limit, Wrote, Ahead
          <6>3. QED
            BY <6>1, <6>2
        <5>3. QED
          BY <5>1, <5>2
      <4>3. f \in Existing => new.base
        BY <2>0, <3>5 DEF Sound
      <4>4. QED
        BY <4>2, <4>3 DEF Sound, Limit, Wrote, Ahead
    <3>8. \A p \in Writes(f)' : p.by = k /\ p.data = new /\ ~p.cut
      BY <2>3, <3>2, <3>3, <3>4
    <3>9. FileTool!Repeats(fileCall'[k].kind) => Writes(f)' = {o}
      BY <2>2, <3>2, <3>3
    <3>10. disk'[f] = t /\ ~IsCut(f)'
      BY <1>0, <1>t, <3>2, <3>5
    <3>11. QED
      BY <2>n, <3>1, <3>6, <3>7, <3>8, <3>9, <3>10 DEF FileSound
  <2>6. QED
    BY <1>0, <2>1, <2>2, <2>4, <2>5 DEF FileInv
<1>3. QED
  <2>1. \/ FileTool!Fail(k) /\ UNCHANGED <<ops, disturbed>>
        \/ /\ fileCall[k].kind \in DOMAIN Edits => FileTool!Matches(t, k)
           /\ FileTool!Hand(k, "write", FileTool!Changed(t, k))
           /\ FileTool!DisturbedIf(FileTool!Shared(k) \/ t.state # "text", f)
    BY <1>f, <1>t DEF FileTool!ReadToChange
  <2>2. QED
    BY <1>1, <1>2, <2>1

(* An operation that is over, and the call that waited for it goes on as d.  *)
LEMMA OverTyped ==
  ASSUME FileTyped, NEW o \in ops, ops' = ops \ {o}, disk' \in [File -> FileText],
         NEW d, CallSound(d), d.pc # "idle", d.kind = fileCall[o.by].kind,
         fileCall[o.by].try <= d.try,
         fileCall' = IF FileTool!Waits(o) THEN [fileCall EXCEPT ![o.by] = d] ELSE fileCall
  PROVE  FileTyped'
<1>1. CASE FileTool!Waits(o)
  <2>0. o.by \in Editor /\ fileCall[o.by].try \in Nat /\ d.try \in Nat
        /\ fileCall[o.by].try = o.try
    <3>1. o.by \in Editor
      BY DEF FileTyped, FileOp
    <3>2. fileCall[o.by].try \in Nat
      BY <3>1, CallTyped
    <3>3. QED
      BY <1>1, <3>1, <3>2 DEF FileTool!Waits, CallSound
  <2>1. ASSUME NEW p \in ops', p.by = o.by PROVE p.try # d.try
    <3>1. p \in ops /\ p # o
      OBVIOUS
    <3>2. p.try # o.try
      BY <2>1, <3>1 DEF FileTyped
    <3>3. OpSound(p, fileCall[o.by])
      BY <2>1, <3>1 DEF FileTyped
    <3>4. p.try \in 1..fileCall[o.by].try
      BY <3>3 DEF OpSound
    <3>5. QED
      BY <2>0, <3>2, <3>4
  <2>2. PICK e \in Editor : e = o.by
    BY <2>0
  <2>3. /\ fileCall' = [fileCall EXCEPT ![e] = d] /\ ops' \subseteq ops
        /\ d.kind = fileCall[e].kind /\ fileCall[e].try <= d.try
    BY <1>1, <2>2
  <2>4. \A p \in ops' : p.by = e => p.try # d.try \/ d.pc = "failed"
    BY <2>1, <2>2
  <2>5. QED
    BY <2>3, <2>4, TypedMove
<1>2. CASE ~FileTool!Waits(o)
  <2>1. fileCall' = fileCall
    BY <1>2
  <2>2. QED
    BY <2>1 DEF FileTyped
<1>3. QED
  BY <1>1, <1>2

LEMMA OverFile ==
  ASSUME FileInv, FileTyped', NEW o \in ops, ops' = ops \ {o}, NEW d,
         fileCall' = IF FileTool!Waits(o) THEN [fileCall EXCEPT ![o.by] = d] ELSE fileCall,
         NEW f \in File \ disturbed, disk'[f] = disk[f], o.cut => o.file # f,
         FileTool!Waits(o) => MovesOn(fileCall[o.by], d, f)
  PROVE  FileSound(f)'
<1>1. /\ Writes(f)' \subseteq Writes(f) /\ \A p \in Writes(f) : p.cut => p \in Writes(f)'
  BY DEF Writes
<1>2. \A j \in Editor : MovesOn(fileCall[j], fileCall'[j], f)
  <2>1. o.by \in Editor /\ FileTyped
    BY DEF FileInv, FileTyped, FileOp
  <2>2. CASE FileTool!Waits(o)
    BY <2>1, <2>2, OthersMove
  <2>3. CASE ~FileTool!Waits(o)
    BY <2>1, <2>3, MovesTrivially
  <2>4. QED
    BY <2>2, <2>3
<1>3. QED
  BY <1>1, <1>2, FileKept

LEMMA OpTyped ==
  ASSUME FileTyped, NEW o \in ops
  PROVE  /\ o \in FileOp /\ o.by \in Editor /\ OpSound(o, fileCall[o.by]) /\ CallSound(fileCall[o.by])
         /\ fileCall[o.by].try \in Nat /\ fileCall[o.by].pc # "idle"
<1>1. o \in FileOp /\ o.by \in Editor /\ OpSound(o, fileCall[o.by])
  BY DEF FileTyped, FileOp
<1>2. QED
  BY <1>1, CallTyped DEF OpSound

LEMMA MakeDirOver == ASSUME FileInv, NEW o \in ops, FileTool!MakeDir(o) PROVE FileInv'
<1> DEFINE c == fileCall[o.by]
           d == [c EXCEPT !.pc = "made"]
<1>0. /\ o.what = "mkdir" /\ ops' = ops \ {o} /\ UNCHANGED <<disk, disturbed>>
      /\ fileCall' = IF FileTool!Waits(o) THEN [fileCall EXCEPT ![o.by] = d] ELSE fileCall
  BY DEF FileTool!MakeDir, FileTool!Over
<1>1. /\ FileTyped /\ OpSound(o, c) /\ CallSound(c) /\ c \in FileCall /\ c.try \in Nat
      /\ disk \in [File -> FileText] /\ ~o.cut
  <2>1. FileTyped /\ OpSound(o, c) /\ CallSound(c) /\ c.try \in Nat
    BY OpTyped DEF FileInv
  <2>2. QED
    BY <1>0, <2>1 DEF CallSound, OpSound, FileTyped
<1>2. d.pc = "made" /\ d.kind = c.kind /\ d.try = c.try
  BY <1>1 DEF FileCall
<1>3. FileTool!Waits(o) => CallSound(d) /\ \A f : MovesOn(c, d, f)
  <2>1. FileTool!Waits(o) => c.pc \notin {"idle", "ok"} /\ c.kind \in FileTool!Writing
    BY <1>0, <1>1 DEF FileTool!Waits, OpSound
  <2>2. QED
    BY <1>1, <2>1, GotoMoves
<1> HIDE DEF d
<1>4. FileTyped'
  <2>1. CASE FileTool!Waits(o)
    <3>1. d.pc # "idle" /\ c.try <= d.try
      BY <1>1, <1>2
    <3>2. disk' \in [File -> FileText]
      BY <1>0, <1>1
    <3>3. QED
      BY <1>0, <1>1, <1>2, <1>3, <2>1, <3>1, <3>2, OverTyped
  <2>2. CASE ~FileTool!Waits(o)
    <3>1. fileCall' = fileCall
      BY <1>0, <2>2
    <3>2. QED
      BY <1>0, <1>1, <3>1 DEF FileTyped
  <2>3. QED
    BY <2>1, <2>2
<1>5. ASSUME NEW f \in File \ disturbed PROVE FileSound(f)'
  BY <1>0, <1>1, <1>3, <1>4, OverFile
<1>6. QED
  BY <1>0, <1>4, <1>5 DEF FileInv

LEMMA OpFailsOver == ASSUME FileInv, NEW o \in ops, FileTool!OpFails(o) PROVE FileInv'
<1> DEFINE c == fileCall[o.by]
           d == FileTool!Failed(c)
<1>0. /\ ops' = ops \ {o} /\ disk' = disk
      /\ disturbed \subseteq disturbed' /\ (o.cut => o.file \in disturbed')
      /\ fileCall' = IF FileTool!Waits(o) THEN [fileCall EXCEPT ![o.by] = d] ELSE fileCall
  BY DEF FileTool!OpFails, FileTool!Over, FileTool!DisturbedIf
<1>1. /\ FileTyped /\ CallSound(c) /\ c.pc # "idle" /\ Retries \in Nat /\ c.try \in Nat
      /\ disk \in [File -> FileText]
  <2>1. FileTyped /\ CallSound(c) /\ c.pc # "idle" /\ c.try \in Nat
    BY OpTyped DEF FileInv
  <2>2. QED
    BY <2>1, KeepingAssumption DEF FileTool!FileAssumption, FileTyped
<1>2. /\ CallSound(d) /\ \A f : MovesOn(c, d, f) 
      /\ d.pc \in {"start", "failed"} /\ d.kind = c.kind
      /\ d.try > c.try \/ (d.pc = "failed" /\ d.try = c.try)
  BY <1>1, FailedMoves
<1> HIDE DEF d
<1>3. d.pc # "idle" /\ c.try <= d.try
  <2>1. d.try \in Nat
    BY <1>2 DEF CallSound
  <2>2. QED
    BY <1>1, <1>2, <2>1
<1>4. FileTyped'
  <2>1. disk' \in [File -> FileText]
    BY <1>0, <1>1
  <2>2. QED
    BY <1>0, <1>1, <1>2, <1>3, <2>1, OverTyped
<1>5. ASSUME NEW f \in File \ disturbed' PROVE FileSound(f)'
  <2>1. f \in File \ disturbed /\ disk'[f] = disk[f] /\ (o.cut => o.file # f)
    BY <1>0
  <2>2. MovesOn(fileCall[o.by], d, f)
    BY <1>2
  <2>3. QED
    BY <1>0, <1>4, <2>1, <2>2, OverFile
<1>6. QED
  BY <1>0, <1>4, <1>5 DEF FileInv

LEMMA CrashStep == ASSUME FileInv, FileTool!Crash PROVE FileInv'
<1>0. /\ fileCall' = [k \in Editor |-> IF FileTool!Open(k) THEN [fileCall[k] EXCEPT !.pc = "failed"]
                                       ELSE fileCall[k]]
      /\ ops' = {} /\ disk' = disk /\ disturbed \subseteq disturbed'
      /\ \A o \in ops : o.cut => o.file \in disturbed'
  BY DEF FileTool!Crash
<1>1. ASSUME NEW k \in Editor
      PROVE  CallSound(fileCall'[k]) /\ \A f : MovesOn(fileCall[k], fileCall'[k], f)
  <2>1. FileTyped /\ CallSound(fileCall[k])
    BY CallTyped DEF FileInv
  <2>2. CASE FileTool!Open(k)
    <3>1. fileCall[k].pc \notin {"idle", "ok"}
      BY <2>2 DEF FileTool!Open
    <3>2. CallSound([fileCall[k] EXCEPT !.pc = "failed"])
          /\ \A f : MovesOn(fileCall[k], [fileCall[k] EXCEPT !.pc = "failed"], f)
      BY <2>1, <3>1, GotoMoves
    <3>3. QED
      BY <1>0, <2>2, <3>2
  <2>3. CASE ~FileTool!Open(k)
    BY <1>0, <2>1, <2>3, MovesTrivially
  <2>4. QED
    BY <2>2, <2>3
<1>2. FileTyped'
  BY <1>0, <1>1 DEF FileInv, FileTyped
<1>3. ASSUME NEW f \in File \ disturbed' PROVE FileSound(f)'
  <2>1. Writes(f)' = {} /\ \A o \in Writes(f) : ~o.cut
    BY <1>0 DEF Writes
  <2>2. QED
    BY <1>0, <1>1, <1>2, <2>1, FileKept
<1>4. QED
  BY <1>0, <1>2, <1>3 DEF FileInv

LEMMA NoTextIs ==
  ASSUME NEW state \in {"cut", "missing", "mixed"}
  PROVE  /\ FileTool!NoText(state) \in FileText /\ FileTool!NoText(state).state = state
         /\ FileTool!NoText(state).base = FALSE
         /\ \A j \in Editor : FileTool!NoText(state).n[j] = 0
BY DEF FileTool!NoText, FileTool!Unchanged, FileText

LEMMA SameMoves == ASSUME FileTyped, fileCall' = fileCall
  PROVE  \A j \in Editor : \A f : MovesOn(fileCall[j], fileCall'[j], f)
BY MovesTrivially

(* Truncate marks the operation: it is still the same write.                 *)
LEMMA TruncateTyped == ASSUME FileTyped, NEW o \in ops, FileTool!Truncate(o) PROVE FileTyped'
<1> DEFINE m == [o EXCEPT !.cut = TRUE]
<1>0. /\ o.what = "write" /\ ops' = (ops \ {o}) \cup {m} /\ fileCall' = fileCall
      /\ disk' = [disk EXCEPT ![o.file] = FileTool!NoText("cut")]
  BY DEF FileTool!Truncate
<1>1. o \in FileOp /\ o.by \in Editor /\ OpSound(o, fileCall[o.by])
  BY OpTyped
<1>2. /\ m \in FileOp /\ m.by = o.by /\ m.try = o.try /\ m.what = o.what
      /\ m.file = o.file /\ m.data = o.data
  BY <1>1 DEF FileOp
<1> HIDE DEF m
<1>3. OpSound(m, fileCall[o.by])
  BY <1>0, <1>1, <1>2 DEF OpSound
<1>4. disk' \in [File -> FileText]
  <2>1. FileTool!NoText("cut") \in FileText
    BY NoTextIs
  <2>2. QED
    BY <1>0, <2>1 DEF FileTyped
<1>5. ops' \subseteq FileOp /\ \A p \in ops' : OpSound(p, fileCall'[p.by])
  <2>1. ops' \subseteq FileOp
    BY <1>0, <1>2 DEF FileTyped
  <2>2. ASSUME NEW p \in ops' PROVE OpSound(p, fileCall'[p.by])
    <3>1. CASE p = m
      BY <1>0, <1>2, <1>3, <3>1
    <3>2. CASE p # m
      BY <1>0, <3>2 DEF FileTyped
    <3>3. QED
      BY <3>1, <3>2
  <2>3. QED
    BY <2>1, <2>2
<1>6. ASSUME NEW p \in ops', NEW q \in ops', p.by = q.by, p.try = q.try PROVE p = q
  <2>1. CASE p = m /\ q = m
    BY <2>1
  <2>2. CASE p = m /\ q # m
    <3>1. q \in ops /\ q # o /\ q.by = o.by /\ q.try = o.try
      BY <1>0, <1>2, <1>6, <2>2
    <3>2. QED
      BY <3>1 DEF FileTyped
  <2>3. CASE p # m /\ q = m
    <3>1. p \in ops /\ p # o /\ p.by = o.by /\ p.try = o.try
      BY <1>0, <1>2, <1>6, <2>3
    <3>2. QED
      BY <3>1 DEF FileTyped
  <2>4. CASE p # m /\ q # m
    <3>1. p \in ops /\ q \in ops
      BY <1>0, <2>4
    <3>2. QED
      BY <1>6, <3>1 DEF FileTyped
  <2>5. QED
    BY <2>1, <2>2, <2>3, <2>4
<1>7. DOMAIN fileCall' = Editor /\ \A j \in Editor : CallSound(fileCall'[j])
  BY <1>0 DEF FileTyped
<1>8. QED
  BY <1>4, <1>5, <1>6, <1>7 DEF FileTyped

(* The text that a file is cut for is sound: what was there was of no other  *)
(* call, or was that text already.                                         *)
LEMMA CutForSound ==
  ASSUME FileInv, NEW o \in ops, o.what = "write", NEW f \in File \ disturbed, o.file = f,
         fileCall[o.by].kind \in FileTool!Writing =>
           disk[f] \in {FileTool!NoText("missing"), FileTool!NoText("cut"), o.data}
  PROVE  Sound(o.data, f)
<1>0. /\ FileTyped /\ FileSound(f) /\ o \in Writes(f) /\ OpSound(o, fileCall[o.by])
      /\ o.by \in Editor /\ CallSound(fileCall[o.by])
      /\ KeepingAssumption
  <2>1. FileTyped /\ FileSound(f) /\ o \in Writes(f)
    BY DEF FileInv, Writes
  <2>2. QED
    BY <2>1, OpTyped, KeepingAssumption
<1>1. CASE fileCall[o.by].kind \in FileTool!Changing
  BY <1>0, <1>1 DEF FileSound
<1>2. CASE IsCut(f)
  BY <1>0, <1>2 DEF FileSound, IsCut
<1>3. CASE fileCall[o.by].kind \in FileTool!Writing /\ ~IsCut(f)
  <2>1. Sound(disk[f], f)
    BY <1>0, <1>3 DEF FileSound
  <2>2. disk[f] # FileTool!NoText("cut")
    <3>1. FileTool!NoText("cut").state = "cut" /\ FileTool!NoText("missing").state = "missing"
      BY NoTextIs
    <3>2. disk[f].state = "text" \/ disk[f] = FileTool!NoText("missing")
      BY <1>0, <1>3 DEF FileSound
    <3>3. QED
      BY <3>1, <3>2
  <2>3. CASE disk[f] = o.data
    BY <2>1, <2>3
  <2>4. CASE disk[f] = FileTool!NoText("missing")
    <3>p. PICK k \in Editor : k = o.by
      BY <1>0
    <3>0. fileCall[k].kind \in FileTool!Kinds
      BY <1>0, <3>p DEF CallSound, FileCall
    <3>1. o.data = NewText(k) /\ ~FileTool!Repeats(fileCall[k].kind) /\ fileCall[k].pc # "idle"
      BY <1>0, <1>3, <3>0, <3>p, KindsApart DEF OpSound
    <3>2. disk[f].base = FALSE /\ \A j \in Editor : disk[f].n[j] = 0
      BY <2>4, NoTextIs
    <3>3. f \notin Existing
      BY <2>1, <3>2 DEF Sound
    <3>4. ASSUME NEW j \in Editor
          PROVE  /\ NewText(k).n[j] <= Limit(fileCall[j], f)
                 /\ Wrote(fileCall[j], f) => NewText(k).n[j] >= 1
      <4>1. ~Wrote(fileCall[j], f)
        BY <2>1, <3>2 DEF Sound
      <4>2. Limit(fileCall[j], f) \in Nat
        BY <1>0, CallTyped, LimitTyped
      <4>3. CASE j = k
        <5>1. NewText(k).n[j] = 1 /\ Limit(fileCall[j], f) = 1
          BY <3>1, <4>3, NewTextIs DEF Limit
        <5>2. QED
          BY <4>1, <5>1
      <4>4. CASE j # k
        <5>1. NewText(k).n[j] = 0
          BY <4>4, NewTextIs
        <5>2. QED
          BY <4>1, <4>2, <5>1
      <4>5. QED
        BY <4>3, <4>4
    <3>5. QED
      BY <3>1, <3>3, <3>4 DEF Sound
  <2>5. QED
    BY <1>3, <2>2, <2>3, <2>4
<1>4. QED
  BY <1>0, <1>1, <1>2, <1>3 DEF OpSound, FileCall, CallSound, FileTool!Kinds

LEMMA TruncateStep == ASSUME FileInv, NEW o \in ops, FileTool!Truncate(o) PROVE FileInv'
<1>m. PICK m : m = [o EXCEPT !.cut = TRUE]
  OBVIOUS
<1>0. /\ o.what = "write" /\ ~o.cut /\ ops' = (ops \ {o}) \cup {m} /\ fileCall' = fileCall
      /\ disk' = [disk EXCEPT ![o.file] = FileTool!NoText("cut")]
      /\ disturbed \subseteq disturbed'
      /\ \/ fileCall[o.by].kind \in FileTool!Writing =>
              disk[o.file] \in {FileTool!NoText("missing"), FileTool!NoText("cut"), o.data}
         \/ o.file \in disturbed'
  BY <1>m DEF FileTool!Truncate, FileTool!DisturbedIf
<1>1. /\ FileTyped /\ o \in FileOp /\ o.by \in Editor /\ OpSound(o, fileCall[o.by])
      /\ FileTyped'
  <2>1. FileTyped
    BY DEF FileInv
  <2>2. QED
    BY <2>1, OpTyped, TruncateTyped
<1>2. /\ m.by = o.by /\ m.what = o.what /\ m.file = o.file /\ m.data = o.data /\ m.cut
  BY <1>1, <1>m DEF FileOp
<1>3. \A j \in Editor : \A f : MovesOn(fileCall[j], fileCall'[j], f)
  BY <1>0, <1>1, SameMoves
<1>4. ASSUME NEW f \in File \ disturbed', f # o.file PROVE FileSound(f)'
  <2>1. Writes(f)' = Writes(f)
    BY <1>0, <1>2, <1>4 DEF Writes
  <2>2. disk'[f] = disk[f]
    BY <1>0, <1>1, <1>4 DEF FileTyped
  <2>3. QED
    BY <1>0, <1>1, <1>3, <2>1, <2>2, FileKept
<1>5. ASSUME NEW f \in File \ disturbed', f = o.file PROVE FileSound(f)'
  <2>1. FileSound(f) /\ o \in Writes(f)
    BY <1>0, <1>5 DEF FileInv, Writes
  <2>2. Writes(f)' = (Writes(f) \ {o}) \cup {m} /\ IsCut(f)'
    <3>1. Writes(f)' = (Writes(f) \ {o}) \cup {m}
      BY <1>0, <1>2, <1>5 DEF Writes
    <3>2. QED
      BY <1>2, <3>1 DEF IsCut
  <2>3. Sound(o.data, f)
    BY <1>0, <1>5, CutForSound
  <2>4. Sound(o.data, f)'
    <3>1. o.data \in FileText
      BY <1>1 DEF FileOp
    <3>2. QED
      BY <1>1, <1>3, <2>3, <3>1, SoundKept
  <2>5. disk'[f] = FileTool!NoText("cut")
    BY <1>0, <1>1, <1>5 DEF FileTyped
  <2>6. \A p \in Writes(f)' : p.by = o.by /\ p.data = o.data
    BY <1>2, <2>1, <2>2 DEF FileSound
  <2>7. FileTool!Repeats(fileCall'[o.by].kind) => Writes(f)' = {m}
    BY <1>0, <2>1, <2>2 DEF FileSound
  <2>8. QED
    BY <2>2, <2>4, <2>5, <2>6, <2>7 DEF FileSound
<1>6. QED
  BY <1>0, <1>1, <1>4, <1>5 DEF FileInv

(* The file gets its text: it was cut for it, or has it from a write of the  *)
(* same text.                                                              *)
LEMMA FillStep == ASSUME FileInv, NEW o \in ops, FileTool!Fill(o) PROVE FileInv'
<1>k. PICK k \in Editor : k = o.by
  BY OpTyped DEF FileInv
<1> DEFINE d == FileTool!AfterWrite(fileCall[k])
<1>0. /\ o.what = "write" /\ o.cut /\ ops' = ops \ {o} /\ disturbed' = disturbed
      /\ fileCall' = IF FileTool!Waits(o) THEN [fileCall EXCEPT ![k] = d] ELSE fileCall
      /\ \/ disk' = [disk EXCEPT ![o.file] = o.data]
         \/ /\ disk[o.file] \notin {FileTool!NoText("cut"), o.data}
            /\ disk' = [disk EXCEPT ![o.file] = FileTool!NoText("mixed")]
  BY <1>k DEF FileTool!Fill, FileTool!Over
<1>1. /\ FileTyped /\ o \in FileOp /\ OpSound(o, fileCall[k]) /\ CallSound(fileCall[k])
      /\ fileCall[k].try \in Nat /\ o.data \in FileText /\ o.file \in File
      /\ DOMAIN fileCall = Editor
  <2>1. FileTyped /\ o \in FileOp /\ OpSound(o, fileCall[k]) /\ CallSound(fileCall[k])
        /\ fileCall[k].try \in Nat
    BY <1>k, OpTyped DEF FileInv
  <2>2. QED
    BY <2>1 DEF FileTyped, FileOp
<1>2. FileTool!Waits(o) =>
        /\ CallSound(d) /\ d.try = fileCall[k].try /\ d.kind = fileCall[k].kind /\ d.pc # "idle"
        /\ \A f : Limit(fileCall[k], f) <= Limit(d, f)
        /\ \A f : f # o.file => MovesOn(fileCall[k], d, f)
  <2>1. ASSUME FileTool!Waits(o)
        PROVE  fileCall[k].pc = "write" /\ o.file = fileCall[k].files[fileCall[k].at]
    BY <1>0, <1>1, <1>k, <2>1 DEF FileTool!Waits, OpSound
  <2>2. QED
    BY <1>1, <2>1, AfterWriteMoves
<1> HIDE DEF d
<1>3. disk' \in [File -> FileText]
  <2>1. FileTool!NoText("mixed") \in FileText
    BY NoTextIs
  <2>2. QED
    BY <1>0, <1>1, <2>1 DEF FileTyped
<1>4. FileTyped'
  <2>1. CASE FileTool!Waits(o)
    <3>1. d.kind = fileCall[o.by].kind /\ fileCall[o.by].try <= d.try
      BY <1>1, <1>2, <1>k, <2>1
    <3>2. fileCall' = IF FileTool!Waits(o) THEN [fileCall EXCEPT ![o.by] = d] ELSE fileCall
      BY <1>0, <1>k
    <3>3. CallSound(d) /\ d.pc # "idle"
      BY <1>2, <2>1
    <3>4. QED
      BY <1>0, <1>1, <1>3, <3>1, <3>2, <3>3, OverTyped
  <2>2. CASE ~FileTool!Waits(o)
    BY <1>0, <1>1, <1>3, <2>2 DEF FileTyped
  <2>3. QED
    BY <2>1, <2>2
<1>5. ASSUME NEW f \in File \ disturbed', f # o.file PROVE FileSound(f)'
  <2>1. f \in File \ disturbed /\ disk'[f] = disk[f] /\ (o.cut => o.file # f)
    BY <1>0, <1>1, <1>5 DEF FileTyped
  <2>2. FileTool!Waits(o) => MovesOn(fileCall[o.by], d, f)
    BY <1>2, <1>5, <1>k
  <2>3. fileCall' = IF FileTool!Waits(o) THEN [fileCall EXCEPT ![o.by] = d] ELSE fileCall
    BY <1>0, <1>k
  <2>4. QED
    BY <1>0, <1>4, <2>1, <2>2, <2>3, OverFile
<1>6. ASSUME NEW f \in File \ disturbed', f = o.file PROVE FileSound(f)'
  <2>1. FileSound(f) /\ o \in Writes(f)
    BY <1>0, <1>6 DEF FileInv, Writes
  <2>2. disk'[f] = o.data
    <3>1. disk[f] \in {FileTool!NoText("cut"), o.data}
      BY <1>0, <2>1 DEF FileSound
    <3>2. QED
      BY <1>0, <1>1, <1>6, <3>1 DEF FileTyped
  <2>3. Writes(f)' = Writes(f) \ {o}
    BY <1>0 DEF Writes
  <2>4. \A p \in Writes(f)' : p.by = k /\ p.data = o.data
    BY <1>k, <2>1, <2>3 DEF FileSound
  <2>5. fileCall'[k].kind = fileCall[k].kind
    BY <1>0, <1>1, <1>2
  <2>6. FileTool!Repeats(fileCall'[k].kind) => Writes(f)' = {}
    BY <1>k, <2>1, <2>3, <2>5 DEF FileSound
  <2>7. Sound(o.data, f)'
    <3>1. Sound(o.data, f)
      BY <1>0, <2>1 DEF FileSound
    <3>2. o.data.n \in [Editor -> Nat] /\ o.data.n[k] >= 1
      BY <1>0, <1>1, <1>k DEF FileText, OpSound
    <3>3. ASSUME NEW j \in Editor
          PROVE  /\ o.data.n[j] <= Limit(fileCall'[j], f)
                 /\ Wrote(fileCall'[j], f) => o.data.n[j] >= 1
      <4>0. /\ o.data.n[j] <= Limit(fileCall[j], f)
            /\ Wrote(fileCall[j], f) => o.data.n[j] >= 1
        BY <3>1 DEF Sound
      <4>1. CASE FileTool!Waits(o) /\ j = k
        <5>1. fileCall'[j] = d
          BY <1>0, <1>1, <4>1
        <5>2. Limit(fileCall[k], f) <= Limit(d, f)
          BY <1>2, <4>1
        <5>3. Limit(fileCall[k], f) \in Nat /\ Limit(d, f) \in Nat
          BY <1>1, <1>2, <4>1, LimitTyped
        <5>4. QED
          BY <3>2, <4>0, <4>1, <5>1, <5>2, <5>3
      <4>2. CASE ~(FileTool!Waits(o) /\ j = k)
        <5>1. fileCall'[j] = fileCall[j]
          BY <1>0, <4>2
        <5>2. QED
          BY <4>0, <5>1
      <4>3. QED
        BY <4>1, <4>2
    <3>4. QED
      BY <3>1, <3>3 DEF Sound, Limit, Wrote, Ahead
  <2>8. o.data.state = "text"
    BY <1>0, <1>1 DEF OpSound
  <2>9. QED
    <3>1. \A p \in Writes(f)' : /\ ~FileTool!Repeats(fileCall'[p.by].kind)
                                /\ Sound(p.data, f)'
      BY <2>4, <2>6, <2>7
    <3>2. QED
      BY <2>2, <2>4, <2>7, <2>8, <3>1 DEF FileSound, FileTool!Changing
<1>7. QED
  BY <1>4, <1>5, <1>6 DEF FileInv

LEMMA FileInit == FileTool!Init => FileInv
<1> SUFFICES ASSUME FileTool!Init PROVE FileInv
  OBVIOUS
<1>1. /\ ops = {} /\ disturbed = {} /\ fileCall = [k \in Editor |-> FileTool!Fresh]
      /\ disk = [f \in File |-> IF f \in Existing THEN FileTool!Text(TRUE, FileTool!Unchanged)
                                ELSE FileTool!NoText("missing")]
      /\ Retries \in Nat
  BY KeepingAssumption DEF FileTool!Init, FileTool!FileAssumption
<1>2. ASSUME NEW k \in Editor
      PROVE  CallSound(fileCall[k]) /\ \A f : ~Wrote(fileCall[k], f)
  BY <1>1 DEF FileTool!Fresh, CallSound, FileCall, FileTool!Kinds, Wrote
<1>3. ASSUME NEW f \in File
      PROVE  /\ disk[f] \in FileText /\ (f \in Existing => disk[f].base)
             /\ \A k \in Editor : disk[f].n[k] = 0
             /\ disk[f].state = "text" \/ disk[f] = FileTool!NoText("missing")
  BY <1>1 DEF FileTool!Text, FileTool!NoText, FileTool!Unchanged, FileText
<1>4. FileTyped
  BY <1>1, <1>2, <1>3 DEF FileTyped
<1>5. ASSUME NEW f \in File PROVE FileSound(f)
  <2>1. Writes(f) = {}
    BY <1>1 DEF Writes
  <2>2. Sound(disk[f], f)
    <3>1. ASSUME NEW k \in Editor PROVE Limit(fileCall[k], f) \in Nat
      BY <1>2, LimitTyped
    <3>2. QED
      BY <1>2, <1>3, <3>1 DEF Sound
  <2>3. QED
    BY <1>3, <2>1, <2>2 DEF FileSound
<1>6. QED
  BY <1>4, <1>5 DEF FileInv

LEMMA FileStep == FileInv /\ [FileTool!Next]_fileVars => FileInv'
<1> SUFFICES ASSUME FileInv, [FileTool!Next]_fileVars PROVE FileInv'
  OBVIOUS
<1>1. CASE UNCHANGED fileVars
  BY <1>1 DEF fileVars, FileInv, FileTyped, FileSound, Writes, IsCut, Sound, Limit, Wrote, Ahead
<1>2. ASSUME NEW k \in Editor,
             \/ FileTool!Execute(k) \/ FileTool!Read(k) \/ FileTool!ReadToChange(k)
             \/ FileTool!CheckNew(k) \/ FileTool!StartWrite(k) \/ FileTool!WriteNew(k)
             \/ FileTool!AttemptTimeout(k)
      PROVE  FileInv'
  BY <1>2, ExecuteStep, ReadStep, ReadToChangeStep, CheckNewStep, WriteNewStep, TimeoutStep
<1>3. ASSUME NEW o \in ops,
             \/ FileTool!MakeDir(o) \/ FileTool!Truncate(o) \/ FileTool!Fill(o)
             \/ FileTool!OpFails(o)
      PROVE  FileInv'
  BY <1>3, MakeDirOver, TruncateStep, FillStep, OpFailsOver
<1>4. CASE FileTool!Crash
  BY <1>4, CrashStep
<1>5. QED
  BY <1>1, <1>2, <1>3, <1>4 DEF FileTool!Next

LEMMA FileSafe == FileInv => ReportedChangesKept
<1> SUFFICES ASSUME FileInv, NEW f \in File \ disturbed, \A o \in ops : o.file = f => ~o.cut
             PROVE  /\ f \in Existing => disk[f].base
                    /\ \A k \in Editor :
                         /\ fileCall[k].pc = "ok" /\ fileCall[k].kind # "read"
                         /\ \E i \in DOMAIN fileCall[k].files : fileCall[k].files[i] = f
                         => disk[f].n[k] \in
                              1..(IF FileTool!Repeats(fileCall[k].kind) THEN fileCall[k].try ELSE 1)
  BY DEF ReportedChangesKept, FileTool!ReportedChangesKept
<1>1. Sound(disk[f], f) /\ disk[f] \in FileText /\ FileTyped
  BY DEF FileInv, FileSound, FileTyped, IsCut, Writes
<1>2. ASSUME NEW k \in Editor, fileCall[k].pc = "ok", fileCall[k].kind # "read",
             NEW i \in DOMAIN fileCall[k].files, fileCall[k].files[i] = f
      PROVE  disk[f].n[k] \in 1..(IF FileTool!Repeats(fileCall[k].kind) THEN fileCall[k].try ELSE 1)
  <2>1. Wrote(fileCall[k], f)
    BY <1>2 DEF Wrote
  <2>2. disk[f].n[k] \in Nat /\ disk[f].n[k] >= 1 /\ disk[f].n[k] <= Limit(fileCall[k], f)
    BY <1>1, <2>1 DEF Sound, FileText
  <2>3. fileCall[k].try \in Nat
    BY <1>1, CallTyped
  <2>4. Limit(fileCall[k], f) <= IF FileTool!Repeats(fileCall[k].kind) THEN fileCall[k].try ELSE 1
    BY <1>2, <2>3 DEF Limit
  <2>5. Limit(fileCall[k], f) \in Nat
    BY <1>1, CallTyped, LimitTyped
  <2>6. QED
    BY <2>2, <2>3, <2>4, <2>5
<1>3. QED
  BY <1>1, <1>2 DEF Sound

-----------------------------------------------------------------------------
(* Cutting texts.  Every set of numbers has a least one; this stands in for  *)
(* an induction, which is what makes the ends of windows and pieces known.  *)
LEMMA Least == ASSUME NEW T \in SUBSET Nat, T # {} PROVE \E x \in T : \A y \in T : x <= y
<1> DEFINE R == {p \in Nat \X Nat : p[1] < p[2]}
<1>1. R = OpToRel(<, Nat)
  BY DEF OpToRel
<1>2. IsWellFoundedOn(R, Nat)
  BY <1>1, NatLessThanWellFounded
<1>3. PICK x \in T : \A y \in T : <<y, x>> \notin R
  <2> HIDE DEF R
  <2>1. QED
    BY <1>2, WFMin
<1>4. ASSUME NEW y \in T PROVE x <= y
  <2>1. x \in Nat /\ y \in Nat /\ <<y, x>> \notin R
    BY <1>3
  <2>2. QED
    BY <2>1
<1>5. QED
  BY <1>4

LEMMA MinIs ==
  ASSUME NEW T \in SUBSET Nat, T # {}
  PROVE  Split!Min(T) \in T /\ \A y \in T : Split!Min(T) <= y
BY Least DEF Split!Min

LEMMA MaxIs ==
  ASSUME NEW n \in Nat, NEW T \in SUBSET (0..n), T # {}
  PROVE  Split!Max(T) \in T /\ \A y \in T : Split!Max(T) >= y
<1>1. \E x \in T : \A y \in T : x >= y
  <2> DEFINE U == {i \in Nat : n - i \in T}
  <2>1. U # {}
    <3>1. PICK x \in T : TRUE
      OBVIOUS
    <3>2. n - x \in Nat /\ n - (n - x) = x
      BY <3>1
    <3>3. QED
      BY <3>1, <3>2
  <2>2. PICK u \in U : \A v \in U : u <= v
    <3> HIDE DEF U
    <3>1. U \in SUBSET Nat
      BY DEF U
    <3>2. QED
      BY <2>1, <3>1, Least
  <2>3. ASSUME NEW y \in T PROVE n - u >= y
    <3>1. n - y \in Nat /\ n - (n - y) = y
      OBVIOUS
    <3>2. n - y \in U
      BY <3>1
    <3>3. QED
      BY <2>2, <3>1, <3>2
  <2>4. n - u \in T
    BY <2>2
  <2>5. QED
    BY <2>3, <2>4
<1>2. QED
  BY <1>1 DEF Split!Max

LEMMA SplitCounts == \A S : Split!Cardinality(S) = Cardinality(S)
BY DEF Split!Cardinality, Cardinality

LEMMA BytesType ==
  ASSUME NEW lo \in Nat, NEW hi \in Nat
  PROVE  /\ Split!Bytes(lo, hi) \in Nat
         /\ IsFiniteSet(lo..hi) /\ IsFiniteSet({i \in lo..hi : cutText[i] = "w"})
         /\ Cardinality({i \in lo..hi : cutText[i] = "w"}) \in Nat
<1>1. IsFiniteSet(lo..hi) /\ Cardinality(lo..hi) \in Nat
  <2>1. IsFiniteSet(lo..hi)
    BY FS_Interval
  <2>2. QED
    BY <2>1, FS_CardinalityType
<1>2. IsFiniteSet({i \in lo..hi : cutText[i] = "w"})
  BY <1>1, FS_Subset
<1>3. Cardinality({i \in lo..hi : cutText[i] = "w"}) \in Nat
  BY <1>2, FS_CardinalityType
<1>4. QED
  BY <1>1, <1>2, <1>3, SplitCounts DEF Split!Bytes

(* Nothing has no bytes, and a character one or two.                       *)
LEMMA BytesEmpty == ASSUME NEW n \in Nat PROVE Split!Bytes(n + 1, n) = 0
<1>1. Cardinality((n + 1)..n) = 0
  BY FS_Interval
<1>2. (n + 1)..n = {}
  OBVIOUS
<1>3. {i \in (n + 1)..n : cutText[i] = "w"} = {}
  BY <1>2
<1>4. Cardinality({i \in (n + 1)..n : cutText[i] = "w"}) = 0
  BY <1>3, FS_EmptySet
<1>5. QED
  BY <1>1, <1>4, SplitCounts DEF Split!Bytes

LEMMA BytesNext ==
  ASSUME NEW lo \in Nat, NEW hi \in Nat, lo <= hi + 1
  PROVE  /\ Split!Bytes(lo, hi + 1) >= Split!Bytes(lo, hi) + 1
         /\ Split!Bytes(lo, hi + 1) <= Split!Bytes(lo, hi) + 2
<1> DEFINE W(h) == {i \in lo..h : cutText[i] = "w"}
<1>1. /\ Cardinality(lo..hi) \in Nat /\ Cardinality(lo..(hi + 1)) = Cardinality(lo..hi) + 1
  <2>1. PICK h \in Nat : h = hi + 1
    OBVIOUS
  <2>2. Cardinality(lo..hi) = h - lo
    BY <2>1, FS_Interval
  <2>3. Cardinality(lo..h) = h - lo + 1
    BY <2>1, FS_Interval
  <2>4. QED
    BY <2>1, <2>2, <2>3
<1>2. IsFiniteSet(W(hi)) /\ Cardinality(W(hi)) \in Nat
  BY BytesType
<1>3. W(hi + 1) = W(hi) \/ W(hi + 1) = W(hi) \cup {hi + 1}
  OBVIOUS
<1>4. Cardinality(W(hi) \cup {hi + 1}) \in {Cardinality(W(hi)), Cardinality(W(hi)) + 1}
  <2> HIDE DEF W
  <2>1. QED
    BY <1>2, FS_AddElement
<1>5. Cardinality(W(hi + 1)) \in {Cardinality(W(hi)), Cardinality(W(hi)) + 1}
  <2> HIDE DEF W
  <2>1. QED
    BY <1>3, <1>4
<1>6. /\ Split!Bytes(lo, hi) = Cardinality(lo..hi) + Cardinality(W(hi))
      /\ Split!Bytes(lo, hi + 1) = Cardinality(lo..(hi + 1)) + Cardinality(W(hi + 1))
  BY SplitCounts DEF Split!Bytes
<1> HIDE DEF W
<1>7. QED
  BY <1>1, <1>2, <1>5, <1>6

LEMMA BytesFirst == ASSUME NEW n \in Nat PROVE Split!Bytes(n + 1, n + 1) \in 1..2
<1>1. PICK lo \in Nat : lo = n + 1
  OBVIOUS
<1>2. Split!Bytes(lo, n) = 0
  BY <1>1, BytesEmpty
<1>3. Split!Bytes(lo, n + 1) >= 1 /\ Split!Bytes(lo, n + 1) <= 2
  <2>1. lo <= n + 1
    BY <1>1
  <2>2. QED
    BY <1>2, <2>1, BytesNext
<1>4. Split!Bytes(lo, lo) \in Nat
  BY BytesType
<1>5. QED
  BY <1>1, <1>3, <1>4

LEMMA BytesGrow ==
  ASSUME NEW lo \in Nat, NEW h \in Nat, NEW hi \in Nat, h <= hi
  PROVE  Split!Bytes(lo, h) <= Split!Bytes(lo, hi)
<1> DEFINE W(e) == {i \in lo..e : cutText[i] = "w"}
<1>1. lo..h \subseteq lo..hi /\ W(h) \subseteq W(hi)
  OBVIOUS
<1>2. Cardinality(lo..h) <= Cardinality(lo..hi) /\ Cardinality(lo..h) \in Nat
      /\ Cardinality(lo..hi) \in Nat
  <2>1. Cardinality(lo..h) = IF lo > h THEN 0 ELSE h - lo + 1
    BY FS_Interval
  <2>2. Cardinality(lo..hi) = IF lo > hi THEN 0 ELSE hi - lo + 1
    BY FS_Interval
  <2>3. QED
    BY <2>1, <2>2
<1>3. IsFiniteSet(W(hi)) /\ Cardinality(W(hi)) \in Nat /\ Cardinality(W(h)) \in Nat
  BY BytesType
<1>4. /\ Split!Bytes(lo, h) = Cardinality(lo..h) + Cardinality(W(h))
      /\ Split!Bytes(lo, hi) = Cardinality(lo..hi) + Cardinality(W(hi))
  BY SplitCounts DEF Split!Bytes
<1> HIDE DEF W
<1>5. Cardinality(W(h)) <= Cardinality(W(hi))
  BY <1>1, <1>3, FS_Subset
<1>6. QED
  BY <1>2, <1>3, <1>4, <1>5

(* The bytes of two stretches that meet.                                   *)
LEMMA BytesAdd ==
  ASSUME NEW lo \in Nat, NEW m \in Nat, NEW hi \in Nat, lo <= m + 1, m <= hi
  PROVE  Split!Bytes(lo, hi) = Split!Bytes(lo, m) + Split!Bytes(m + 1, hi)
<1> DEFINE W(l, h) == {i \in l..h : cutText[i] = "w"}
<1>0. PICK n \in Nat : n = m + 1
  OBVIOUS
<1>1. /\ lo..hi = (lo..m) \cup (n..hi) /\ (lo..m) \cap (n..hi) = {}
  BY <1>0
<1>2. W(lo, hi) = W(lo, m) \cup W(n, hi) /\ W(lo, m) \cap W(n, hi) = {}
  BY <1>1
<1>3. /\ IsFiniteSet(lo..m) /\ IsFiniteSet(n..hi) /\ IsFiniteSet(W(lo, m)) /\ IsFiniteSet(W(n, hi))
      /\ Cardinality(lo..m) \in Nat /\ Cardinality(n..hi) \in Nat
      /\ Cardinality(W(lo, m)) \in Nat /\ Cardinality(W(n, hi)) \in Nat
  <2>1. IsFiniteSet(lo..m) /\ IsFiniteSet(n..hi) /\ IsFiniteSet(W(lo, m)) /\ IsFiniteSet(W(n, hi))
        /\ Cardinality(W(lo, m)) \in Nat /\ Cardinality(W(n, hi)) \in Nat
    BY BytesType
  <2>2. QED
    BY <2>1, FS_CardinalityType
<1>4. Cardinality({}) = 0
  BY FS_EmptySet
<1>5. Cardinality(lo..hi) = Cardinality(lo..m) + Cardinality(n..hi)
  <2>1. Cardinality((lo..m) \cup (n..hi)) =
          Cardinality(lo..m) + Cardinality(n..hi) - Cardinality((lo..m) \cap (n..hi))
    BY <1>3, FS_Union
  <2>2. /\ Cardinality(lo..hi) = Cardinality((lo..m) \cup (n..hi))
        /\ Cardinality((lo..m) \cap (n..hi)) = 0
    BY <1>1, <1>4, Zenon
  <2>3. QED
    BY <1>3, <2>1, <2>2
<1>6. Cardinality(W(lo, hi)) = Cardinality(W(lo, m)) + Cardinality(W(n, hi))
  <2> HIDE DEF W
  <2>1. Cardinality(W(lo, m) \cup W(n, hi)) =
          Cardinality(W(lo, m)) + Cardinality(W(n, hi)) - Cardinality(W(lo, m) \cap W(n, hi))
    BY <1>3, FS_Union
  <2>2. /\ Cardinality(W(lo, hi)) = Cardinality(W(lo, m) \cup W(n, hi))
        /\ Cardinality(W(lo, m) \cap W(n, hi)) = 0
    BY <1>2, <1>4, Zenon
  <2>3. QED
    BY <1>3, <2>1, <2>2
<1>7. /\ Split!Bytes(lo, hi) = Cardinality(lo..hi) + Cardinality(W(lo, hi))
      /\ Split!Bytes(lo, m) = Cardinality(lo..m) + Cardinality(W(lo, m))
      /\ Split!Bytes(n, hi) = Cardinality(n..hi) + Cardinality(W(n, hi))
  BY SplitCounts DEF Split!Bytes
<1> HIDE DEF W
<1>8. QED
  BY <1>0, <1>3, <1>5, <1>6, <1>7

(* A break is in its window, behind the first place.                       *)
LEMMA EndIsIn ==
  ASSUME NEW lo \in Nat, NEW hi \in Nat, NEW ps \in Seq(Seq(Split!Char)),
         \A i \in DOMAIN ps : Len(ps[i]) >= 1
  PROVE  Split!BestEnd(ps, lo, hi) = hi \/ Split!BestEnd(ps, lo, hi) \in lo..hi
<1> DEFINE found == {i \in DOMAIN ps : Split!Ends(ps[i], lo, hi) # {}}
<1>1. CASE found = {}
  BY <1>1 DEF Split!BestEnd
<1>2. CASE found # {}
  <2>1. found \in SUBSET Nat
    OBVIOUS
  <2>2. Split!Min(found) \in found
    <3> HIDE DEF found
    <3>1. QED
      BY <1>2, <2>1, MinIs
  <2>3. PICK i \in DOMAIN ps : i = Split!Min(found) /\ Split!Ends(ps[i], lo, hi) # {}
    BY <2>2
  <2>4. Split!Ends(ps[i], lo, hi) \subseteq lo..hi
    <3>1. ps[i] \in Seq(Split!Char) /\ Len(ps[i]) \in Nat /\ Len(ps[i]) >= 1
      OBVIOUS
    <3> HIDE DEF found
    <3>2. QED
      BY <3>1 DEF Split!Ends
  <2>5. Split!Max(Split!Ends(ps[i], lo, hi)) \in Split!Ends(ps[i], lo, hi)
    <3>1. Split!Ends(ps[i], lo, hi) \in SUBSET (0..hi)
      BY <2>4
    <3>2. QED
      BY <2>3, <3>1, MaxIs
  <2>6. Split!BestEnd(ps, lo, hi) = Split!Max(Split!Ends(ps[i], lo, hi))
    BY <1>2, <2>3 DEF Split!BestEnd
  <2>7. QED
    BY <2>4, <2>5, <2>6
<1>3. QED
  BY <1>1, <1>2

(* The chunks begin at or before at, one after the other, and hold what is  *)
(* before at but blanks of a message; the text goes on at at with a          *)
(* character that is no blank, unless it is the first.                       *)
SplitTyped ==
  /\ cutter \in {"telegram", "memory"} /\ cutText \in Seq(Split!Char) /\ cutAt \in 0..Len(cutText)

LeftOut(i) == cutter = "telegram" /\ cutText[i] \in Split!Blank

Fits(lo, hi) == Split!Bytes(lo, hi) <= IF cutter = "telegram" THEN MaxLen ELSE MaxLen + 1

ChunksLie(ch, a) ==
  /\ ch \in Seq(Nat \X Nat)
  /\ \A c \in DOMAIN ch :
       /\ ch[c][1] \in 1..a /\ Fits(ch[c][1], ch[c][2])
       /\ c > 1 => ch[c - 1][1] < ch[c][1]
       /\ ch[c][2] < ch[c][1] => c = 1 /\ cutText[1] \in Split!Blank
  /\ \A i \in 1..a : LeftOut(i) \/ \E c \in DOMAIN ch : ch[c][1] <= i /\ i <= ch[c][2]

GoesOn(a) == cutter = "telegram" /\ a > 0 /\ a < Len(cutText) => cutText[a + 1] \notin Split!Blank

SharesEnough(hi, lo) ==
  Split!Bytes(lo, hi) <= Overlap /\ Split!Bytes(lo - 1, hi) > Overlap

(* The chunk that comes next repeats as much of the last one as is meant.  *)
GoesBack(ch, a) ==
  cutter = "memory" =>
    /\ \A c \in 2..Len(ch) : SharesEnough(ch[c - 1][2], ch[c][1])
    /\ ch # <<>> /\ a < Len(cutText) => SharesEnough(ch[Len(ch)][2], a + 1)

SplitInv ==
  /\ SplitTyped /\ ChunksLie(cutChunks, cutAt) /\ GoesOn(cutAt)
  /\ GoesBack(cutChunks, cutAt)

(* The window that fits has a character at least.                          *)
LEMMA FittingIs ==
  ASSUME SplitTyped, cutAt < Len(cutText)
  PROVE  Split!Fitting \in (cutAt + 1)..Len(cutText)
         /\ Split!Bytes(cutAt + 1, Split!Fitting) <= MaxLen
<1> DEFINE T == {hi \in cutAt..Len(cutText) : Split!Bytes(cutAt + 1, hi) <= MaxLen}
<1>0. Len(cutText) \in Nat /\ cutAt \in Nat /\ MaxLen \in Nat /\ MaxLen >= 2
  BY KeepingAssumption DEF SplitTyped, Split!SplitAssumption
<1>1. Split!Bytes(cutAt + 1, cutAt + 1) <= MaxLen
  <2>1. Split!Bytes(cutAt + 1, cutAt + 1) \in 1..2
    BY <1>0, BytesFirst
  <2>2. QED
    BY <1>0, <2>1
<1>2. cutAt + 1 \in T /\ T \in SUBSET (0..Len(cutText))
  BY <1>0, <1>1
<1>3. Split!Max(T) \in T /\ \A y \in T : Split!Max(T) >= y
  <2> HIDE DEF T
  <2>1. QED
    BY <1>0, <1>2, MaxIs
<1>4. Split!Fitting = Split!Max(T)
  BY DEF Split!Fitting
<1>5. Split!Max(T) >= cutAt + 1
  <2> HIDE DEF T
  <2>1. QED
    BY <1>2, <1>3
<1>6. QED
  BY <1>0, <1>3, <1>4, <1>5

(* Snap gives the first place that many bytes after at, or the end.        *)
LEMMA SnapIs ==
  ASSUME SplitTyped, NEW n \in Nat
  PROVE  /\ Split!Snap(n) \in cutAt..Len(cutText)
         /\ \A hi \in cutAt..Len(cutText) :
              Split!Bytes(cutAt + 1, hi) >= n => Split!Snap(n) <= hi
         /\ Split!Snap(n) = Len(cutText) \/ Split!Bytes(cutAt + 1, Split!Snap(n)) >= n
<1> DEFINE T == {hi \in cutAt..Len(cutText) : Split!Bytes(cutAt + 1, hi) >= n}
           U == {Len(cutText)} \cup T
<1>0. Len(cutText) \in Nat /\ cutAt \in 0..Len(cutText)
  BY DEF SplitTyped
<1>1. Len(cutText) \in U /\ U \in SUBSET Nat /\ U \subseteq cutAt..Len(cutText) /\ T \subseteq U
  BY <1>0
<1>2. Split!Min(U) \in U /\ \A y \in U : Split!Min(U) <= y
  <2> HIDE DEF U
  <2>1. QED
    BY <1>1, MinIs
<1>3. Split!Snap(n) = Split!Min(U)
  BY DEF Split!Snap
<1>4. Split!Min(U) \in T \/ Split!Min(U) = Len(cutText)
  BY <1>2
<1>5. QED
  BY <1>1, <1>2, <1>3, <1>4

(* It does not stay where it is, and steps over at most one byte more.     *)
LEMMA SnapMoves ==
  ASSUME SplitTyped, cutAt < Len(cutText), NEW n \in Nat, n >= 1
  PROVE  /\ Split!Snap(n) \in (cutAt + 1)..Len(cutText)
         /\ Split!Bytes(cutAt + 1, Split!Snap(n)) <= n + 1
<1>0. Len(cutText) \in Nat /\ cutAt \in Nat
  BY DEF SplitTyped
<1>1. Split!Bytes(cutAt + 1, cutAt) = 0
  BY <1>0, BytesEmpty
<1>2. PICK s : s = Split!Snap(n)
  OBVIOUS
<1>3. /\ s \in cutAt..Len(cutText)
      /\ s = Len(cutText) \/ Split!Bytes(cutAt + 1, s) >= n
      /\ \A hi \in cutAt..Len(cutText) : Split!Bytes(cutAt + 1, hi) >= n => s <= hi
  BY <1>2, SnapIs
<1>4. s # cutAt
  BY <1>0, <1>1, <1>3
<1>5. PICK r \in Nat : s = r + 1
  <2>1. s - 1 \in Nat /\ s = (s - 1) + 1
    BY <1>0, <1>3, <1>4
  <2>2. QED
    BY <2>1
<1>6. PICK lo \in Nat : lo = cutAt + 1
  BY <1>0
<1>7. Split!Bytes(lo, s) \in Nat /\ Split!Bytes(lo, r) \in Nat
  <2>1. s \in Nat
    BY <1>5
  <2>2. QED
    BY <2>1, BytesType
<1>8. Split!Bytes(lo, r) < n
  <2>1. r \in cutAt..Len(cutText) /\ ~(s <= r)
    BY <1>0, <1>3, <1>4, <1>5
  <2>2. ~(Split!Bytes(lo, r) >= n)
    BY <1>3, <1>6, <2>1
  <2>3. QED
    BY <1>7, <2>2
<1>9. Split!Bytes(lo, s) <= Split!Bytes(lo, r) + 2
  <2>1. lo <= r + 1
    BY <1>0, <1>3, <1>4, <1>5, <1>6
  <2>2. QED
    BY <1>5, <2>1, BytesNext
<1>10. Split!Bytes(lo, s) <= n + 1
  BY <1>7, <1>8, <1>9
<1>11. QED
  BY <1>0, <1>2, <1>3, <1>4, <1>6, <1>10

LEMMA PatternsAre ==
  /\ \A hi \in Nat, lo \in Nat :
       Split!BestEnd(<<Split!Paragraph, Split!Line, Split!Sentence, Split!Word>>, lo, hi)
         \in {hi} \cup (lo..hi)
  /\ \A hi \in Nat, lo \in Nat :
       Split!BestEnd(<<Split!Sentence, Split!Line, Split!Word>>, lo, hi) \in {hi} \cup (lo..hi)
<1>0. PICK p, l, e, w : p = Split!Paragraph /\ l = Split!Line /\ e = Split!Sentence /\ w = Split!Word
  OBVIOUS
<1>c. PICK S : S = Split!Char /\ {"nl", ".", " "} \subseteq S
  BY DEF Split!Char
<1>1. /\ p \in Seq(S) /\ Len(p) = 2 /\ l \in Seq(S) /\ Len(l) = 1
      /\ e \in Seq(S) /\ Len(e) = 2 /\ w \in Seq(S) /\ Len(w) = 1
  <2>1. p \in Seq(S) /\ Len(p) = 2
    <3>1. Split!Paragraph \in Seq(Split!Char) /\ Len(Split!Paragraph) = 2
      BY DEF Split!Paragraph, Split!Char
    <3>2. QED
      BY <1>0, <1>c, <3>1
  <2>2. l \in Seq(S) /\ Len(l) = 1
    <3>1. Split!Line \in Seq(Split!Char) /\ Len(Split!Line) = 1
      BY DEF Split!Line, Split!Char
    <3>2. QED
      BY <1>0, <1>c, <3>1
  <2>3. e \in Seq(S) /\ Len(e) = 2
    <3>1. Split!Sentence \in Seq(Split!Char) /\ Len(Split!Sentence) = 2
      BY DEF Split!Sentence, Split!Char
    <3>2. QED
      BY <1>0, <1>c, <3>1
  <2>4. w \in Seq(S) /\ Len(w) = 1
    <3>1. Split!Word \in Seq(Split!Char) /\ Len(Split!Word) = 1
      BY DEF Split!Word, Split!Char
    <3>2. QED
      BY <1>0, <1>c, <3>1
  <2>5. QED
    BY <2>1, <2>2, <2>3, <2>4
<1>2. PICK q, r : q = <<p, l, e, w>> /\ r = <<e, l, w>>
  OBVIOUS
<1>3. q \in Seq(Seq(S)) /\ \A i \in DOMAIN q : Len(q[i]) >= 1
  <2>1. q \in Seq(Seq(S)) /\ DOMAIN q = 1..4
    BY <1>1, <1>2
  <2>2. Len(q[1]) >= 1 /\ Len(q[2]) >= 1 /\ Len(q[3]) >= 1 /\ Len(q[4]) >= 1
    <3>1. q[1] = p /\ q[2] = l /\ q[3] = e /\ q[4] = w
      BY <1>2
    <3>2. Len(q[1]) = 2 /\ Len(q[2]) = 1 /\ Len(q[3]) = 2 /\ Len(q[4]) = 1
      BY <1>1, <3>1, Zenon
    <3>3. QED
      BY <3>2
  <2>3. \A i \in DOMAIN q : i = 1 \/ i = 2 \/ i = 3 \/ i = 4
    BY <2>1
  <2>4. \A i \in DOMAIN q : Len(q[i]) >= 1
    BY <2>2, <2>3
  <2>5. QED
    BY <2>1, <2>4
<1>4. r \in Seq(Seq(S)) /\ \A i \in DOMAIN r : Len(r[i]) >= 1
  <2>1. r \in Seq(Seq(S)) /\ DOMAIN r = 1..3
    BY <1>1, <1>2
  <2>2. Len(r[1]) >= 1 /\ Len(r[2]) >= 1 /\ Len(r[3]) >= 1
    <3>1. r[1] = e /\ r[2] = l /\ r[3] = w
      BY <1>2
    <3>2. Len(r[1]) = 2 /\ Len(r[2]) = 1 /\ Len(r[3]) = 1
      BY <1>1, <3>1, Zenon
    <3>3. QED
      BY <3>2
  <2>3. \A i \in DOMAIN r : i = 1 \/ i = 2 \/ i = 3
    BY <2>1
  <2>4. \A i \in DOMAIN r : Len(r[i]) >= 1
    BY <2>2, <2>3
  <2>5. QED
    BY <2>1, <2>4
<1>5. ASSUME NEW lo \in Nat, NEW hi \in Nat
      PROVE  /\ Split!BestEnd(q, lo, hi) \in {hi} \cup (lo..hi)
             /\ Split!BestEnd(r, lo, hi) \in {hi} \cup (lo..hi)
  BY <1>3, <1>4, <1>c, EndIsIn
<1>6. QED
  BY <1>0, <1>2, <1>5

(* The piece that is added: it lies after at, fits, and what it leaves of   *)
(* the way to the next place is blank.                                     *)
LEMMA PieceAdded ==
  ASSUME NEW ch, NEW a \in Nat, ChunksLie(ch, a), GoesOn(a), a < Len(cutText), cutText \in Seq(Split!Char),
         NEW hi \in Nat, NEW next \in Nat, a < next, next <= Len(cutText),
         Fits(a + 1, hi), hi < a + 1 => LeftOut(a + 1),
         \A i \in (a + 1)..next : i > hi => LeftOut(i)
  PROVE  ChunksLie(Append(ch, <<a + 1, hi>>), next)
<1> DEFINE new == Append(ch, <<a + 1, hi>>)
<1>1. /\ ch \in Seq(Nat \X Nat) /\ new \in Seq(Nat \X Nat)
      /\ Len(ch) \in Nat /\ DOMAIN ch = 1..Len(ch) /\ DOMAIN new = 1..(Len(ch) + 1)
      /\ \A c \in DOMAIN ch : new[c] = ch[c]
  BY SMTT(30) DEF ChunksLie
<1>2. new[Len(ch) + 1][1] = a + 1 /\ new[Len(ch) + 1][2] = hi
  BY <1>1
<1> HIDE DEF new
<1>n. PICK n \in Nat : /\ n = Len(ch) /\ DOMAIN ch = 1..n /\ DOMAIN new = 1..(n + 1)
                      /\ new[n + 1][1] = a + 1 /\ new[n + 1][2] = hi
  BY <1>1, <1>2
<1>o. \A c \in DOMAIN ch : new[c] = ch[c]
  BY <1>1
<1>3. ASSUME NEW c \in DOMAIN new
      PROVE  /\ new[c][1] \in 1..next /\ Fits(new[c][1], new[c][2])
             /\ c > 1 => new[c - 1][1] < new[c][1]
             /\ new[c][2] < new[c][1] => c = 1 /\ cutText[1] \in Split!Blank
  <2>1. CASE c \in DOMAIN ch
    <3>1. /\ ch[c][1] \in 1..a /\ Fits(ch[c][1], ch[c][2])
          /\ c > 1 => ch[c - 1][1] < ch[c][1]
          /\ ch[c][2] < ch[c][1] => c = 1 /\ cutText[1] \in Split!Blank
      BY <2>1 DEF ChunksLie
    <3>2. new[c] = ch[c] /\ (c > 1 => new[c - 1] = ch[c - 1])
      <4>1. c > 1 => c - 1 \in DOMAIN ch
        BY <1>n, <2>1
      <4>2. QED
        BY <1>o, <2>1, <4>1, Zenon
    <3>3. ch[c][1] \in 1..next
      BY <3>1
    <3>4. QED
      BY <3>1, <3>2, <3>3
  <2>2. CASE c = n + 1
    <3>1. new[c][1] = a + 1 /\ new[c][2] = hi /\ a + 1 \in 1..next
      BY <1>n, <2>2
    <3>2. c > 1 => new[c - 1][1] < a + 1
      <4>1. ASSUME c > 1 PROVE c - 1 \in DOMAIN ch
        BY <1>n, <2>2, <4>1
      <4>2. ASSUME c > 1 PROVE new[c - 1] = ch[c - 1] /\ ch[c - 1][1] \in 1..a
        BY <1>o, <4>1, <4>2 DEF ChunksLie
      <4>3. QED
        BY <4>2
    <3>3. ASSUME hi < a + 1 PROVE c = 1 /\ cutText[1] \in Split!Blank
      <4>1. cutter = "telegram" /\ cutText[a + 1] \in Split!Blank
        BY <3>3 DEF LeftOut
      <4>2. a = 0
        BY <4>1 DEF GoesOn
      <4>3. \A d \in DOMAIN ch : FALSE
        BY <4>2 DEF ChunksLie
      <4>4. n = 0
        BY <1>n, <4>3
      <4>5. a + 1 = 1 /\ c = 1
        BY <2>2, <4>2, <4>4
      <4>6. QED
        BY <4>1, <4>5, Zenon
    <3>4. QED
      BY <3>1, <3>2, <3>3
  <2>3. c \in DOMAIN ch \/ c = n + 1
    BY <1>n
  <2>4. QED
    BY <2>1, <2>2, <2>3
<1>4. ASSUME NEW i \in 1..next
      PROVE  LeftOut(i) \/ \E c \in DOMAIN new : new[c][1] <= i /\ i <= new[c][2]
  <2>1. CASE i \in 1..a
    <3>1. LeftOut(i) \/ \E c \in DOMAIN ch : ch[c][1] <= i /\ i <= ch[c][2]
      BY <2>1 DEF ChunksLie
    <3>2. \A c \in DOMAIN ch : c \in DOMAIN new /\ new[c] = ch[c]
      BY <1>1
    <3>3. QED
      BY <3>1, <3>2
  <2>2. CASE i \in (a + 1)..next
    <3>1. CASE i > hi
      BY <2>2, <3>1
    <3>2. CASE ~(i > hi)
      <4>1. n + 1 \in DOMAIN new
        BY <1>n
      <4>2. a + 1 <= i /\ i <= hi
        BY <2>2, <3>2
      <4>3. QED
        BY <1>n, <4>1, <4>2
    <3>3. QED
      BY <3>1, <3>2
  <2>3. i \in 1..a \/ i \in (a + 1)..next
    OBVIOUS
  <2>4. QED
    BY <2>1, <2>2, <2>3
<1>5. ChunksLie(new, next)
  BY <1>1, <1>3, <1>4 DEF ChunksLie
<1>6. QED
  BY <1>5 DEF new

(* What is trimmed off a message's end and off the rest's start is blank.    *)
LEMMA TrimmedIs ==
  ASSUME SplitTyped, cutAt < Len(cutText), NEW sp \in (cutAt + 1)..Len(cutText)
  PROVE  /\ Split!TrimmedEnd(sp) \in cutAt..sp
         /\ \A i \in (cutAt + 1)..sp : i > Split!TrimmedEnd(sp) => cutText[i] \in Split!Blank
         /\ Split!TrimmedStart(sp) \in sp..Len(cutText)
         /\ \A i \in (sp + 1)..Split!TrimmedStart(sp) : cutText[i] \in Split!Blank
         /\ Split!TrimmedStart(sp) = Len(cutText) \/ cutText[Split!TrimmedStart(sp) + 1] \notin Split!Blank
<1> DEFINE E == {i \in (cutAt + 1)..sp : cutText[i] \notin Split!Blank}
           U == {cutAt} \cup E
           B == {i \in sp..(Len(cutText) - 1) : cutText[i + 1] \notin Split!Blank}
           V == {Len(cutText)} \cup B
<1>0. Len(cutText) \in Nat /\ cutAt \in Nat /\ sp \in Nat
  BY DEF SplitTyped
<1>1. U \in SUBSET (0..sp) /\ cutAt \in U /\ E \subseteq U /\ U \subseteq cutAt..sp
  BY <1>0
<1>2. V \in SUBSET Nat /\ Len(cutText) \in V /\ B \subseteq V /\ V \subseteq sp..Len(cutText)
  BY <1>0
<1>3. Split!TrimmedEnd(sp) = Split!Max(U) /\ Split!TrimmedStart(sp) = Split!Min(V)
  BY DEF Split!TrimmedEnd, Split!TrimmedStart
<1>4. Split!Max(U) \in U /\ \A y \in U : Split!Max(U) >= y
  <2> HIDE DEF U
  <2>1. QED
    BY <1>0, <1>1, MaxIs
<1>5. Split!Min(V) \in V /\ \A y \in V : Split!Min(V) <= y
  <2> HIDE DEF V
  <2>1. QED
    BY <1>2, MinIs
<1>6. PICK e, s : e = Split!Max(U) /\ s = Split!Min(V)
  OBVIOUS
<1>7. /\ e \in cutAt..sp /\ s \in sp..Len(cutText)
      /\ \A y \in E : e >= y /\ y \in Nat
      /\ \A y \in B : s <= y
  <2> HIDE DEF U, V, E, B
  <2>1. \A y \in E : e >= y
    BY <1>1, <1>4, <1>6
  <2>2. \A y \in B : s <= y
    BY <1>2, <1>5, <1>6
  <2>3. e \in cutAt..sp /\ s \in sp..Len(cutText)
    BY <1>1, <1>2, <1>4, <1>5, <1>6
  <2>4. \A y \in E : y \in Nat
    BY <1>1
  <2>5. QED
    BY <2>1, <2>2, <2>3, <2>4
<1>8. ASSUME NEW i \in (cutAt + 1)..sp, i > e PROVE cutText[i] \in Split!Blank
  <2>1. i \notin E
    <3> HIDE DEF E
    <3>1. QED
      BY <1>0, <1>7, <1>8
  <2>2. QED
    BY <2>1
<1>9. ASSUME NEW i \in (sp + 1)..s PROVE cutText[i] \in Split!Blank
  <2>1. PICK j \in Nat : i = j + 1 /\ j \in sp..(Len(cutText) - 1) /\ j < s
    <3>1. i - 1 \in Nat /\ i = (i - 1) + 1 /\ i - 1 \in sp..(Len(cutText) - 1) /\ i - 1 < s
      BY <1>0, <1>7, <1>9
    <3>2. QED
      BY <3>1
  <2>2. j \notin B
    <3> HIDE DEF B
    <3>1. QED
      BY <1>0, <1>7, <2>1
  <2>3. QED
    BY <2>1, <2>2
<1>10. s = Len(cutText) \/ s \in B
  BY <1>5, <1>6
<1>11. s = Len(cutText) \/ cutText[s + 1] \notin Split!Blank
  BY <1>10
<1> HIDE DEF U, V, E, B
<1>12. Split!TrimmedEnd(sp) = e /\ Split!TrimmedStart(sp) = s
  BY <1>3, <1>6
<1>13. QED
  BY <1>7, <1>8, <1>9, <1>11, <1>12

LEMMA MessageSent ==
  ASSUME SplitInv, Split!SplitMessage
  PROVE  ChunksLie(cutChunks', cutAt') /\ GoesOn(cutAt') /\ cutAt' \in 0..Len(cutText)
<1>0. /\ SplitTyped /\ ChunksLie(cutChunks, cutAt) /\ GoesOn(cutAt) /\ cutter = "telegram"
      /\ cutAt < Len(cutText) /\ Len(cutText) \in Nat /\ cutAt \in Nat /\ cutText \in Seq(Split!Char)
  BY DEF SplitInv, SplitTyped, Split!SplitMessage
<1>1. PICK a \in Nat, m \in Nat : a = cutAt /\ m = Len(cutText) /\ a < m
  BY <1>0
<1>2. CASE Split!Bytes(cutAt + 1, Len(cutText)) <= MaxLen
  <2>1. cutChunks' = Append(cutChunks, <<a + 1, m>>) /\ cutAt' = m
    BY <1>1, <1>2 DEF Split!SplitMessage
  <2>2. Fits(a + 1, m)
    BY <1>0, <1>1, <1>2 DEF Fits
  <2>3. ~(m < a + 1) /\ \A i \in (a + 1)..m : ~(i > m)
    BY <1>1
  <2>4. ChunksLie(Append(cutChunks, <<a + 1, m>>), m)
    BY <1>0, <1>1, <2>2, <2>3, PieceAdded
  <2>5. GoesOn(m)
    BY <1>1 DEF GoesOn
  <2>6. QED
    BY <1>1, <2>1, <2>4, <2>5
<1>3. CASE ~(Split!Bytes(cutAt + 1, Len(cutText)) <= MaxLen)
  <2>1. PICK sp : sp = Split!SplitPoint
    OBVIOUS
  <2>2. PICK e, s : e = Split!TrimmedEnd(sp) /\ s = Split!TrimmedStart(sp)
    OBVIOUS
  <2>3. cutChunks' = Append(cutChunks, <<a + 1, e>>) /\ cutAt' = s
    BY <1>1, <1>3, <2>1, <2>2 DEF Split!SplitMessage, Split!After
  <2>4. PICK f \in Nat : /\ f = Split!Fitting /\ f \in (a + 1)..m
                         /\ Split!Bytes(a + 1, f) <= MaxLen
    BY <1>0, <1>1, FittingIs
  <2>5. sp \in Nat /\ sp \in (a + 1)..f
    <3>1. sp \in {f} \cup ((a + 2)..f)
      <4>1. PICK lo \in Nat : lo = a + 2
        OBVIOUS
      <4>2. sp \in {f} \cup (lo..f)
        BY <1>1, <2>1, <2>4, <4>1, PatternsAre DEF Split!SplitPoint
      <4>3. QED
        BY <4>1, <4>2
    <3>2. QED
      BY <2>4, <3>1
  <2>6. sp \in (cutAt + 1)..Len(cutText)
    BY <1>1, <2>4, <2>5
  <2>7. /\ e \in a..sp /\ s \in sp..m
        /\ \A i \in (a + 1)..sp : i > e => cutText[i] \in Split!Blank
        /\ \A i \in (sp + 1)..s : cutText[i] \in Split!Blank
        /\ s = m \/ cutText[s + 1] \notin Split!Blank
    BY <1>0, <1>1, <2>2, <2>6, TrimmedIs
  <2>8. e \in Nat /\ s \in Nat /\ a < s /\ s <= m /\ e <= f
    BY <2>4, <2>5, <2>7
  <2>9. Fits(a + 1, e)
    <3>1. PICK lo \in Nat : lo = a + 1
      OBVIOUS
    <3>2. Split!Bytes(lo, e) <= Split!Bytes(lo, f) /\ Split!Bytes(lo, e) \in Nat /\ Split!Bytes(lo, f) \in Nat
      BY <2>8, BytesGrow, BytesType
    <3>3. Split!Bytes(lo, e) <= MaxLen
      <4>1. MaxLen \in Nat
        BY KeepingAssumption DEF Split!SplitAssumption
      <4>2. QED
        BY <2>4, <3>1, <3>2, <4>1
    <3>4. QED
      BY <1>0, <3>1, <3>3 DEF Fits
  <2>10. ASSUME NEW i \in (a + 1)..s, i > e PROVE LeftOut(i)
    <3>1. i \in (a + 1)..sp \/ i \in (sp + 1)..s
      BY <2>5, <2>8, <2>10
    <3>2. cutText[i] \in Split!Blank
      BY <2>7, <2>10, <3>1
    <3>3. QED
      BY <1>0, <3>2 DEF LeftOut
  <2>11. ASSUME e < a + 1 PROVE LeftOut(a + 1)
    <3>1. a + 1 \in (a + 1)..s /\ a + 1 > e
      BY <2>8, <2>11
    <3>2. QED
      BY <2>10, <3>1
  <2>12. ChunksLie(Append(cutChunks, <<a + 1, e>>), s)
    BY <1>0, <1>1, <2>8, <2>9, <2>10, <2>11, PieceAdded
  <2>13. GoesOn(s)
    BY <1>1, <2>7 DEF GoesOn
  <2>14. s \in 0..Len(cutText)
    BY <1>1, <2>8
  <2>15. QED
    BY <2>3, <2>12, <2>13, <2>14
<1>4. QED
  BY <1>2, <1>3

(* What the chunk after the one that is added repeats of it.               *)
LEMMA OverlapAdded ==
  ASSUME NEW ch, NEW a \in Nat, ch \in Seq(Nat \X Nat), GoesBack(ch, a), a < Len(cutText),
         NEW hi \in Nat, NEW next \in Nat, next < Len(cutText) => SharesEnough(hi, next + 1),
         cutter = "memory"
  PROVE  GoesBack(Append(ch, <<a + 1, hi>>), next)
<1>1. PICK new : new = Append(ch, <<a + 1, hi>>)
  OBVIOUS
<1>2. PICK n \in Nat : n = Len(ch)
  OBVIOUS
<1>3. /\ Len(new) = n + 1 /\ \A c \in 1..n : new[c] = ch[c]
      /\ new[n + 1] = <<a + 1, hi>>
  BY <1>1, <1>2
<1>4. new[n + 1][1] = a + 1 /\ new[n + 1][2] = hi
  BY <1>3
<1>5. ASSUME NEW c \in 2..Len(new) PROVE SharesEnough(new[c - 1][2], new[c][1])
  <2>1. CASE c \in 2..n
    <3>1. c \in 1..n /\ c - 1 \in 1..n
      BY <2>1
    <3>2. new[c] = ch[c] /\ new[c - 1] = ch[c - 1]
      BY <1>3, <3>1
    <3>3. SharesEnough(ch[c - 1][2], ch[c][1])
      BY <1>2, <2>1 DEF GoesBack
    <3>4. QED
      BY <3>2, <3>3
  <2>2. CASE c = n + 1 /\ n >= 1
    <3>1. c - 1 = n /\ n \in 1..n
      BY <2>2
    <3>2. new[c - 1] = ch[n]
      BY <1>3, <3>1
    <3>3. ch # <<>>
      BY <1>2, <2>2
    <3>4. SharesEnough(ch[n][2], a + 1)
      BY <1>2, <3>3 DEF GoesBack
    <3>5. QED
      BY <1>4, <2>2, <3>2, <3>4
  <2>3. QED
    BY <1>3, <2>1, <2>2
<1>6. next < Len(cutText) => SharesEnough(new[Len(new)][2], next + 1)
  BY <1>3, <1>4
<1>7. GoesBack(new, next)
  BY <1>5, <1>6 DEF GoesBack
<1>8. QED
  BY <1>1, <1>7

LEMMA TextChunked ==
  ASSUME SplitInv, Split!ChunkText
  PROVE  /\ ChunksLie(cutChunks', cutAt') /\ GoesOn(cutAt') /\ cutAt' \in 0..Len(cutText)
         /\ GoesBack(cutChunks', cutAt')
<1>0. /\ SplitTyped /\ ChunksLie(cutChunks, cutAt) /\ GoesOn(cutAt) /\ cutter = "memory"
      /\ GoesBack(cutChunks, cutAt)
      /\ cutAt < Len(cutText) /\ Len(cutText) \in Nat /\ cutAt \in Nat /\ cutText \in Seq(Split!Char)
  BY DEF SplitInv, SplitTyped, Split!ChunkText
<1>1. PICK a \in Nat, m \in Nat, lo \in Nat : a = cutAt /\ m = Len(cutText) /\ a < m /\ lo = a + 1
  BY <1>0
<1>2. MaxLen \in Nat /\ MaxLen >= 2 /\ Overlap \in Nat /\ 2 * Overlap <= MaxLen
  BY KeepingAssumption DEF Split!SplitAssumption
<1>3. PICK end \in Nat : /\ end = Split!Snap(MaxLen) /\ end \in lo..m
                         /\ Split!Bytes(lo, end) <= MaxLen + 1
  <2>1. MaxLen >= 1
    BY <1>2
  <2>2. /\ Split!Snap(MaxLen) \in (cutAt + 1)..Len(cutText)
        /\ Split!Bytes(cutAt + 1, Split!Snap(MaxLen)) <= MaxLen + 1
    BY <1>0, <1>2, <2>1, SnapMoves
  <2>3. PICK end : end = Split!Snap(MaxLen)
    OBVIOUS
  <2>4. end \in lo..m /\ Split!Bytes(lo, end) <= MaxLen + 1
    BY <1>1, <2>2, <2>3
  <2>5. end \in Nat
    BY <2>4
  <2>6. QED
    BY <2>3, <2>4, <2>5
<1>4. PICK b \in Nat : b = Split!BreakPoint /\ b \in lo..end
  <2>1. PICK n \in Nat : n = (3 * Split!Bytes(lo, end)) \div 4
    <3>1. PICK k \in Nat : k = Split!Bytes(lo, end)
      BY BytesType
    <3>2. (3 * k) \div 4 \in Nat
      OBVIOUS
    <3>3. QED
      BY <3>1, <3>2
  <2>2. PICK from \in Nat : from = Split!Snap(n) /\ from >= a
    BY SMTT(30), <1>0, <1>1, <2>1, SnapIs
  <2>3. CASE end = m
    BY <1>1, <1>3, <2>3 DEF Split!BreakPoint
  <2>4. CASE end # m
    <3>1. PICK f \in Nat : f = from + 1
      OBVIOUS
    <3>2. Split!BreakPoint = Split!BestEnd(<<Split!Sentence, Split!Line, Split!Word>>, f, end)
      BY <1>1, <1>3, <2>1, <2>2, <2>4, <3>1 DEF Split!BreakPoint
    <3>3. Split!BreakPoint \in {end} \cup (f..end)
      BY <3>2, PatternsAre
    <3>4. QED
      BY <1>1, <1>3, <2>2, <3>1, <3>3
  <2>5. QED
    BY <2>3, <2>4
<1>5. PICK k \in Nat : /\ k = Split!Bytes(lo, b) /\ k >= 1 /\ k <= MaxLen + 1
  <2>1. Split!Bytes(lo, lo) \in 1..2
    BY <1>1, BytesFirst
  <2>2. Split!Bytes(lo, lo) <= Split!Bytes(lo, b)
    BY <1>4, BytesGrow
  <2>3. Split!Bytes(lo, b) <= Split!Bytes(lo, end)
    BY <1>4, BytesGrow
  <2>4. Split!Bytes(lo, b) \in Nat /\ Split!Bytes(lo, end) \in Nat
    BY BytesType
  <2>5. QED
    BY <1>2, <1>3, <2>1, <2>2, <2>3, <2>4
<1>6. PICK s \in Nat : s = cutAt' /\ a < s /\ s <= m /\ s <= b
  <2>1. CASE b = m
    BY <1>1, <1>4, <2>1 DEF Split!ChunkText
  <2>2. CASE b # m
    <3>1. PICK v \in Nat : v = Split!Advance(k) /\ v >= 1 /\ v <= k
      BY <1>2, <1>5 DEF Split!Advance
    <3>2. cutAt' = Split!Snap(v)
      BY <1>1, <1>4, <1>5, <2>2, <3>1 DEF Split!ChunkText
    <3>3. Split!Snap(v) \in lo..m
      BY <1>0, <1>1, <3>1, SnapMoves
    <3>4. b \in cutAt..Len(cutText) /\ Split!Bytes(cutAt + 1, b) >= v
      BY <1>1, <1>3, <1>4, <1>5, <3>1
    <3>5. Split!Snap(v) <= b
      BY <1>0, <3>4, SnapIs
    <3>6. QED
      BY <1>1, <3>2, <3>3, <3>5
  <2>3. QED
    BY <2>1, <2>2
<1>7. cutChunks' = Append(cutChunks, <<a + 1, b>>)
  BY <1>1, <1>4 DEF Split!ChunkText
<1>8. Fits(a + 1, b)
  BY <1>0, <1>1, <1>5 DEF Fits
<1>9. ~(b < a + 1) /\ \A i \in (a + 1)..s : ~(i > b)
  BY <1>1, <1>4, <1>6
<1>10. ChunksLie(Append(cutChunks, <<a + 1, b>>), s)
  BY <1>0, <1>1, <1>6, <1>8, <1>9, PieceAdded
<1>11. GoesOn(s)
  BY <1>0 DEF GoesOn
<1>12. s \in 0..Len(cutText)
  BY <1>1, <1>6
<1>13. ASSUME s < m PROVE SharesEnough(b, s + 1)
  <2>1. b # m /\ end # m
    <3>1. b # m
      BY <1>1, <1>4, <1>6, <1>13 DEF Split!ChunkText
    <3>2. QED
      BY <1>1, <1>3, <1>4, <3>1 DEF Split!BreakPoint
  <2>2. k > Overlap
    <3>1. Split!Bytes(lo, end) >= MaxLen /\ Split!Bytes(lo, end) \in Nat
      BY <1>0, <1>1, <1>2, <1>3, <2>1, SnapIs, BytesType
    <3>2. CASE b = end
      BY <1>2, <1>5, <3>1, <3>2
    <3>3. CASE b # end
      <4>1. PICK z \in Nat, n \in Nat : z = Split!Bytes(lo, end) /\ n = (3 * z) \div 4 /\ 4 * n + 3 >= 3 * z
        <5>1. PICK z \in Nat : z = Split!Bytes(lo, end)
          BY <3>1
        <5>2. (3 * z) \div 4 \in Nat /\ 4 * ((3 * z) \div 4) + 3 >= 3 * z
          OBVIOUS
        <5>3. QED
          BY <5>1, <5>2
      <4>2. PICK from \in Nat : from = Split!Snap(n) /\ from >= a /\ from <= m
        <5>1. Split!Snap(n) \in cutAt..Len(cutText)
          BY <1>0, SnapIs
        <5>2. QED
          BY <1>1, <5>1
      <4>3. PICK f \in Nat : f = from + 1
        OBVIOUS
      <4>4. b \in f..end
        <5>1. Split!BreakPoint = Split!BestEnd(<<Split!Sentence, Split!Line, Split!Word>>, f, end)
          BY <1>1, <1>3, <2>1, <4>1, <4>2, <4>3 DEF Split!BreakPoint
        <5>2. Split!BreakPoint \in {end} \cup (f..end)
          BY <5>1, PatternsAre
        <5>3. QED
          BY <1>4, <3>3, <5>2
      <4>5. from # m
        BY <1>3, <4>3, <4>4
      <4>6. Split!Bytes(lo, from) >= n
        BY <1>0, <1>1, <4>2, <4>5, SnapIs
      <4>7. Split!Bytes(lo, from + 1) >= Split!Bytes(lo, from) + 1
        <5>1. lo <= from + 1
          BY <1>1, <4>2
        <5>2. QED
          BY <5>1, BytesNext
      <4>8. Split!Bytes(lo, f) <= Split!Bytes(lo, b)
        BY <4>3, <4>4, BytesGrow
      <4>9. Split!Bytes(lo, from) \in Nat /\ Split!Bytes(lo, f) \in Nat
        BY BytesType
      <4>10. k >= n + 1
        BY <1>5, <4>3, <4>6, <4>7, <4>8, <4>9
      <4>11. z >= MaxLen
        BY <3>1, <4>1
      <4>12. QED
        BY <1>2, <4>1, <4>10, <4>11
    <3>4. QED
      BY <3>2, <3>3
  <2>3. PICK v \in Nat : v = k - Overlap /\ v >= 1 /\ s = Split!Snap(v)
    <3>1. Split!Advance(k) = k - Overlap /\ k - Overlap \in Nat /\ k - Overlap >= 1
      BY <1>2, <1>5, <2>2 DEF Split!Advance
    <3>2. cutAt' = Split!Snap(Split!Advance(k))
      BY <1>1, <1>4, <1>5, <2>1 DEF Split!ChunkText
    <3>3. QED
      BY <1>6, <3>1, <3>2
  <2>4. Split!Bytes(lo, s) >= v
    BY <1>0, <1>1, <1>13, <2>3, SnapIs
  <2>5. PICK r \in Nat : s = r + 1 /\ r >= a
    <3>0. a < s
      BY <1>6
    <3>1. s - 1 \in Nat /\ s = (s - 1) + 1 /\ s - 1 >= a
      BY <3>0
    <3>2. QED
      BY <3>1
  <2>6. Split!Bytes(lo, r) < v
    <3>1. \A hi \in cutAt..Len(cutText) : Split!Bytes(cutAt + 1, hi) >= v => s <= hi
      BY <1>0, <2>3, SnapIs
    <3>2. r \in cutAt..Len(cutText) /\ ~(s <= r)
      BY <1>1, <1>6, <2>5
    <3>3. ~(Split!Bytes(lo, r) >= v)
      BY <1>1, <3>1, <3>2
    <3>4. Split!Bytes(lo, r) \in Nat
      BY BytesType
    <3>5. QED
      BY <3>3, <3>4
  <2>7. k = Split!Bytes(lo, s) + Split!Bytes(s + 1, b)
    <3>1. lo <= s + 1 /\ s <= b
      <4>1. lo = a + 1 /\ a < s /\ s <= b
        BY <1>1, <1>6, Zenon
      <4>2. QED
        BY <4>1
    <3>2. QED
      BY <1>5, <3>1, BytesAdd
  <2>8. k = Split!Bytes(lo, r) + Split!Bytes(s, b)
    <3>1. lo <= r + 1 /\ r <= b
      BY <1>1, <1>6, <2>5
    <3>2. QED
      BY <1>5, <2>5, <3>1, BytesAdd
  <2>9. PICK t \in Nat : t = s + 1 /\ t - 1 = s
    BY <2>5
  <2>10. /\ Split!Bytes(lo, s) \in Nat /\ Split!Bytes(lo, r) \in Nat
         /\ Split!Bytes(s, b) \in Nat /\ Split!Bytes(t, b) \in Nat
    BY BytesType
  <2>11. Split!Bytes(t, b) <= Overlap /\ Split!Bytes(t - 1, b) > Overlap
    BY <1>2, <1>5, <2>3, <2>4, <2>6, <2>7, <2>8, <2>9, <2>10
  <2>12. QED
    BY <2>9, <2>11 DEF SharesEnough
<1>14. GoesBack(Append(cutChunks, <<a + 1, b>>), s)
  <2>1. cutChunks \in Seq(Nat \X Nat)
    BY <1>0 DEF ChunksLie
  <2>2. s < Len(cutText) => SharesEnough(b, s + 1)
    BY <1>1, <1>13
  <2>3. QED
    BY <1>0, <1>1, <2>1, <2>2, OverlapAdded
<1>15. QED
  BY <1>6, <1>7, <1>10, <1>11, <1>12, <1>14

LEMMA SplitInit == ASSUME Split!Init PROVE SplitInv
<1>1. cutter \in {"telegram", "memory"} /\ cutText \in Seq(Split!Char) /\ cutAt = 0 /\ cutChunks = <<>>
  <2>1. PICK n \in 1..MaxText : cutText \in [1..n -> Split!Char]
    BY DEF Split!Init
  <2>2. n \in Nat
    BY <2>1, KeepingAssumption DEF Split!SplitAssumption
  <2>3. cutText \in Seq(Split!Char)
    BY <2>1, <2>2
  <2>4. QED
    BY <2>3 DEF Split!Init
<1>2. SplitTyped
  BY <1>1 DEF SplitTyped
<1>3. ChunksLie(<<>>, 0)
  BY DEF ChunksLie
<1>4. GoesBack(<<>>, 0)
  BY DEF GoesBack
<1>5. QED
  BY <1>1, <1>2, <1>3, <1>4 DEF SplitInv, GoesOn

LEMMA SplitStep == ASSUME SplitInv, [Split!Next]_splitVars PROVE SplitInv'
<1>1. CASE UNCHANGED splitVars
  <2>1. cutter' = cutter /\ cutText' = cutText /\ cutAt' = cutAt /\ cutChunks' = cutChunks
    BY <1>1 DEF splitVars
  <2>2. /\ SplitTyped' /\ ChunksLie(cutChunks, cutAt)' /\ GoesOn(cutAt)'
    BY <2>1 DEF SplitInv, SplitTyped, ChunksLie, GoesOn, Fits, LeftOut, Split!Bytes
  <2>3. \A lo, hi : SharesEnough(hi, lo)' = SharesEnough(hi, lo)
    BY <2>1 DEF SharesEnough, Split!Bytes
  <2>4. GoesBack(cutChunks, cutAt)'
    BY <2>1, <2>3 DEF SplitInv, GoesBack
  <2>5. QED
    BY <2>2, <2>4 DEF SplitInv
<1>2. CASE Split!Next
  <2>1. /\ ChunksLie(cutChunks', cutAt') /\ GoesOn(cutAt') /\ cutAt' \in 0..Len(cutText)
        /\ GoesBack(cutChunks', cutAt')
    <3>1. CASE Split!SplitMessage
      <4>1. GoesBack(cutChunks', cutAt')
        BY <3>1 DEF Split!SplitMessage, GoesBack
      <4>2. QED
        BY <3>1, <4>1, MessageSent
    <3>2. QED
      BY <1>2, <3>1, TextChunked DEF Split!Next
  <2>2. cutter' = cutter /\ cutText' = cutText
    BY <1>2 DEF Split!Next, Split!SplitMessage, Split!ChunkText
  <2>3. PICK ch, a : ch = cutChunks' /\ a = cutAt'
    OBVIOUS
  <2>4. \A lo, hi : Split!Bytes(lo, hi)' = Split!Bytes(lo, hi)
    BY <2>2 DEF Split!Bytes
  <2>5. ChunksLie(ch, a)' /\ GoesOn(a)'
    BY <2>1, <2>2, <2>3, <2>4 DEF ChunksLie, GoesOn, Fits, LeftOut
  <2>6. GoesBack(ch, a)'
    BY <2>1, <2>2, <2>3, <2>4 DEF GoesBack, SharesEnough
  <2>7. ChunksLie(cutChunks, cutAt)' /\ GoesOn(cutAt)'
    BY <2>3, <2>5 DEF ChunksLie, GoesOn, Fits, LeftOut
  <2>8. GoesBack(cutChunks, cutAt)'
    BY <2>3, <2>6 DEF GoesBack, SharesEnough
  <2>9. SplitTyped'
    BY <2>1, <2>2 DEF SplitInv, SplitTyped
  <2>10. QED
    BY <2>7, <2>8, <2>9 DEF SplitInv
<1>3. QED
  BY <1>1, <1>2

LEMMA OverlapSound == ASSUME SplitInv PROVE ChunksOverlap
<1>1. ASSUME cutter = "memory", NEW c \in 2..Len(cutChunks)
      PROVE  SharesEnough(cutChunks[c - 1][2], cutChunks[c][1])
  BY <1>1 DEF SplitInv, GoesBack
<1>2. QED
  BY <1>1, Zenon DEF SharesEnough, ChunksOverlap, Split!ChunksOverlap

LEMMA SplitSound == ASSUME SplitInv PROVE CutsAreSound
<1>1. ASSUME NEW i \in (1..cutAt) \ Split!Covered
      PROVE  cutter = "telegram" /\ cutText[i] \in Split!Blank
  <2>1. LeftOut(i) \/ \E c \in DOMAIN cutChunks : cutChunks[c][1] <= i /\ i <= cutChunks[c][2]
    BY <1>1 DEF SplitInv, ChunksLie
  <2>2. ASSUME NEW c \in DOMAIN cutChunks, cutChunks[c][1] <= i, i <= cutChunks[c][2]
        PROVE  FALSE
    <3>1. cutChunks[c] \in Nat \X Nat
      BY DEF SplitInv, ChunksLie
    <3>2. i \in Int /\ cutChunks[c][1] \in Nat /\ cutChunks[c][2] \in Nat
      BY <3>1
    <3>3. i \in cutChunks[c][1]..cutChunks[c][2]
      BY <2>2, <3>2
    <3>4. QED
      BY <1>1, <3>3 DEF Split!Covered
  <2>3. QED
    BY <2>1, <2>2 DEF LeftOut
<1>2. ASSUME NEW c \in DOMAIN cutChunks
      PROVE  /\ Split!Bytes(cutChunks[c][1], cutChunks[c][2])
                  <= IF cutter = "telegram" THEN MaxLen ELSE MaxLen + 1
             /\ c > 1 => cutChunks[c - 1][1] < cutChunks[c][1]
             /\ cutChunks[c][2] < cutChunks[c][1] => c = 1 /\ cutText[1] \in Split!Blank
  BY DEF SplitInv, ChunksLie, Fits
<1>3. QED
  BY <1>1, <1>2, Zenon DEF CutsAreSound, Split!CutsAreSound

-----------------------------------------------------------------------------
(* Voting.  The samples joined have ended; the responses are the texts of     *)
(* those that had one, each there and counted once.                           *)
LEMMA VoteCounts ==
  /\ \A S : Vote!Cardinality(S) = Cardinality(S)
  /\ \A S : Vote!IsFiniteSet(S) <=> IsFiniteSet(S)
BY DEF Vote!Cardinality, Cardinality, Vote!IsFiniteSet, IsFiniteSet

Texts(n) == {i \in 1..n : sample[i] = "text"}

VoteTyped ==
  /\ sample \in [Vote!Sample -> {"queued", "asking", "failed", "textless", "text"}]
  /\ voteText \in [Vote!Sample -> Vote!Text]
  /\ joined \in 0..Samples /\ responses \in Seq(Vote!Text)

VoteJoined ==
  /\ \A i \in 1..joined : ~Vote!Running(i)
  /\ Len(responses) = Cardinality(Texts(joined))
  /\ \A i \in Texts(joined) : \E j \in DOMAIN responses : responses[j] = voteText[i]

VoteOver ==
  /\ vote # "open" => joined = Samples
  /\ vote = "done" /\ result.unanimous =>
       \A j \in DOMAIN responses : Vote!Agrees(responses[j], result.answer)

VoteInv == VoteTyped /\ VoteJoined /\ VoteOver

LEMMA TextsFinite == ASSUME NEW n \in Nat PROVE IsFiniteSet(Texts(n))
<1>1. IsFiniteSet(1..n)
  BY FS_Interval
<1>2. Texts(n) \subseteq 1..n
  BY DEF Texts
<1>3. QED
  BY <1>1, <1>2, FS_Subset

(* A step of a sample that is not yet joined leaves those that are.         *)
LEMMA SampleMoves ==
  ASSUME VoteInv, NEW i \in Vote!Sample, Vote!Running(i), NEW s \in {"asking", "failed", "textless", "text"},
         NEW t \in Vote!Text,
         sample' = [sample EXCEPT ![i] = s],
         voteText' = voteText \/ voteText' = [voteText EXCEPT ![i] = t],
         joined' = joined, responses' = responses, vote' = vote, result' = result
  PROVE  VoteInv'
<1>0. Samples \in Nat /\ joined \in Nat /\ Vote!Sample = 1..Samples
  BY KeepingAssumption DEF VoteInv, VoteTyped, Vote!VotingAssumption, Vote!Sample
<1>1. i \notin 1..joined
  BY DEF VoteInv, VoteJoined
<1>2. 1..joined \subseteq Vote!Sample
  BY <1>0 DEF VoteInv, VoteTyped
<1>3. \A j \in 1..joined : sample'[j] = sample[j] /\ voteText'[j] = voteText[j]
  BY <1>1, <1>2 DEF VoteInv, VoteTyped
<1>4. Vote!Sample' = Vote!Sample /\ Vote!Text' = Vote!Text
  BY DEF Vote!Sample, Vote!Text
<1>5. VoteTyped'
  BY <1>4 DEF VoteInv, VoteTyped
<1>6. Texts(joined)' = Texts(joined)
  BY <1>3 DEF Texts
<1>7. VoteJoined'
  <2>1. \A j \in 1..joined : ~Vote!Running(j)'
    BY <1>3 DEF VoteInv, VoteJoined, Vote!Running
  <2>2. \A j \in Texts(joined) : voteText'[j] = voteText[j]
    BY <1>3 DEF Texts
  <2>3. QED
    BY <1>6, <2>1, <2>2 DEF VoteInv, VoteJoined
<1>8. VoteOver'
  BY DEF VoteInv, VoteOver, Vote!Agrees
<1>9. QED
  BY <1>5, <1>7, <1>8 DEF VoteInv

LEMMA SampleSteps ==
  ASSUME VoteInv, NEW i \in Vote!Sample,
         \/ Vote!Start(i)
         \/ \E how \in {"failed", "textless"} : Vote!NoText(i, how)
         \/ \E t \in Vote!Text : Vote!Answer(i, t)
  PROVE  VoteInv'
<1>0. {} \in Vote!Text
  BY FS_EmptySet, VoteCounts DEF Vote!Text
<1>1. CASE Vote!Start(i)
  <2>1. Vote!Running(i) /\ sample' = [sample EXCEPT ![i] = "asking"]
    BY <1>1 DEF Vote!Start, Vote!Running
  <2>2. voteText' = voteText /\ joined' = joined /\ responses' = responses /\ vote' = vote /\ result' = result
    BY <1>1 DEF Vote!Start
  <2>3. QED
    BY <1>0, <2>1, <2>2, SampleMoves
<1>2. ASSUME NEW how \in {"failed", "textless"}, Vote!NoText(i, how) PROVE VoteInv'
  <2>1. Vote!Running(i) /\ sample' = [sample EXCEPT ![i] = how]
    BY <1>2 DEF Vote!NoText, Vote!Running
  <2>2. voteText' = voteText /\ joined' = joined /\ responses' = responses /\ vote' = vote /\ result' = result
    BY <1>2 DEF Vote!NoText
  <2>3. QED
    BY <1>0, <2>1, <2>2, SampleMoves
<1>3. ASSUME NEW t \in Vote!Text, Vote!Answer(i, t) PROVE VoteInv'
  <2>1. Vote!Running(i) /\ sample' = [sample EXCEPT ![i] = "text"]
    BY <1>3 DEF Vote!Answer, Vote!Running
  <2>2. voteText' = [voteText EXCEPT ![i] = t] /\ joined' = joined /\ responses' = responses
        /\ vote' = vote /\ result' = result
    BY <1>3 DEF Vote!Answer
  <2>3. QED
    BY <2>1, <2>2, SampleMoves
<1>4. QED
  BY <1>1, <1>2, <1>3

LEMMA JoinStep == ASSUME VoteInv, Vote!Join PROVE VoteInv'
<1>0. Samples \in Nat /\ Vote!Sample = 1..Samples
  BY KeepingAssumption DEF Vote!VotingAssumption, Vote!Sample
<1>1. PICK n \in Nat : n = joined /\ n < Samples /\ joined' = n + 1 /\ n + 1 \in Vote!Sample
  BY <1>0 DEF VoteInv, VoteTyped, Vote!Join
<1>2. /\ sample' = sample /\ voteText' = voteText /\ vote = "open" /\ vote' = vote /\ result' = result
      /\ ~Vote!Running(n + 1)
  BY <1>1 DEF Vote!Join, Vote!PassOver
<1>3. voteText[n + 1] \in Vote!Text /\ responses \in Seq(Vote!Text)
  BY <1>1 DEF VoteInv, VoteTyped
<1>4. responses' = IF sample[n + 1] = "text" THEN Append(responses, voteText[n + 1]) ELSE responses
  BY <1>1 DEF Vote!Join, Vote!Collected
<1>5. /\ \A i \in 1..n : ~Vote!Running(i)
      /\ Len(responses) = Cardinality(Texts(n))
      /\ \A i \in Texts(n) : \E j \in DOMAIN responses : responses[j] = voteText[i]
  BY <1>1 DEF VoteInv, VoteJoined
<1>6. \A i \in 1..(n + 1) : i \in 1..n \/ i = n + 1
  BY <1>1
<1>7. \A i \in 1..(n + 1) : ~Vote!Running(i)'
  BY <1>2, <1>5, <1>6 DEF Vote!Running
<1>8. Texts(n + 1)' = Texts(n + 1)
  BY <1>2 DEF Texts
<1>9. /\ responses' \in Seq(Vote!Text)
      /\ Len(responses') = Cardinality(Texts(n + 1))
      /\ \A i \in Texts(n + 1) : \E j \in DOMAIN responses' : responses'[j] = voteText[i]
  <2>1. CASE sample[n + 1] = "text"
    <3>1. /\ responses' \in Seq(Vote!Text) /\ Len(responses') = Len(responses) + 1
          /\ Len(responses) \in Nat
          /\ \A j \in DOMAIN responses : j \in DOMAIN responses' /\ responses'[j] = responses[j]
          /\ Len(responses) + 1 \in DOMAIN responses'
          /\ responses'[Len(responses) + 1] = voteText[n + 1]
      BY <1>3, <1>4, <2>1
    <3>2. Texts(n + 1) = Texts(n) \cup {n + 1} /\ n + 1 \notin Texts(n)
      BY <1>6, <2>1 DEF Texts
    <3>3. Cardinality(Texts(n + 1)) = Cardinality(Texts(n)) + 1
      BY <3>2, TextsFinite, FS_AddElement
    <3>4. Len(responses') = Cardinality(Texts(n + 1))
      BY <1>5, <3>1, <3>3
    <3>5. ASSUME NEW i \in Texts(n + 1)
          PROVE  \E j \in DOMAIN responses' : responses'[j] = voteText[i]
      <4>1. CASE i \in Texts(n)
        BY <1>5, <3>1, <4>1
      <4>2. CASE i = n + 1
        BY <3>1, <4>2
      <4>3. QED
        BY <3>2, <4>1, <4>2
    <3>6. QED
      BY <3>1, <3>4, <3>5
  <2>2. CASE sample[n + 1] # "text"
    <3>1. Texts(n + 1) = Texts(n)
      BY <1>6, <2>2 DEF Texts
    <3>2. responses' = responses
      BY <1>4, <2>2
    <3>3. QED
      BY <1>3, <1>5, <3>1, <3>2
  <2>3. QED
    BY <2>1, <2>2
<1>10. Vote!Sample' = Vote!Sample /\ Vote!Text' = Vote!Text
  BY DEF Vote!Sample, Vote!Text
<1>11. VoteTyped'
  <2>1. n + 1 \in 0..Samples
    BY <1>0, <1>1
  <2>2. QED
    BY <1>1, <1>2, <1>9, <1>10, <2>1 DEF VoteInv, VoteTyped
<1>12. VoteJoined'
  <2>1. joined' = n + 1 /\ \A i \in Texts(n + 1) : voteText'[i] = voteText[i]
    BY <1>1, <1>2
  <2>2. QED
    BY <1>7, <1>8, <1>9, <2>1 DEF VoteJoined
<1>13. VoteOver'
  BY <1>2 DEF VoteOver
<1>14. QED
  BY <1>11, <1>12, <1>13 DEF VoteInv

LEMMA CountTo == \A n \in Nat : IsFiniteSet(1..n) /\ Cardinality(1..n) = n
<1> SUFFICES ASSUME NEW n \in Nat PROVE IsFiniteSet(1..n) /\ Cardinality(1..n) = n
  OBVIOUS
<1>1. IsFiniteSet(1..n) /\ Cardinality(1..n) = IF 1 > n THEN 0 ELSE n - 1 + 1
  BY FS_Interval
<1>2. QED
  BY <1>1

(* Who agrees with an answer is counted: all do if the count is theirs.     *)
LEMMA AllAgree ==
  ASSUME NEW a, responses \in Seq(Vote!Text), Vote!Agreement(a) = Len(responses)
  PROVE  \A j \in DOMAIN responses : Vote!Agrees(responses[j], a)
<1> DEFINE A == {i \in DOMAIN responses : Vote!Agrees(responses[i], a)}
<1>1. PICK n \in Nat : n = Len(responses) /\ DOMAIN responses = 1..n
  OBVIOUS
<1>2. IsFiniteSet(1..n) /\ Cardinality(1..n) = n
  BY CountTo
<1>3. A \in SUBSET (1..n)
  BY <1>1
<1>4. Cardinality(A) = n
  <2>1. Vote!Agreement(a) = Vote!Cardinality(A)
    BY DEF Vote!Agreement
  <2> HIDE DEF A
  <2>2. QED
    BY <1>1, <2>1, VoteCounts
<1> HIDE DEF A
<1>5. A = 1..n
  BY <1>2, <1>3, <1>4, FS_Subset
<1>6. QED
  BY <1>1, <1>5 DEF A

LEMMA AgreesWithItself == ASSUME NEW t \in Vote!Text PROVE Vote!Agrees(t, t)
<1>1. IsFiniteSet(t) /\ t \cap t = t
  BY VoteCounts DEF Vote!Text
<1>2. Cardinality(t) \in Nat /\ (Cardinality(t) = 0 <=> t = {})
  BY <1>1, FS_CardinalityType, FS_EmptySet
<1>3. t = {} \/ 2 * Cardinality(t) > Cardinality(t)
  BY <1>2
<1>4. QED
  BY <1>1, <1>3, VoteCounts DEF Vote!Agrees

LEMMA VerdictStep ==
  ASSUME VoteInv, joined = Samples, UNCHANGED <<sample, voteText, joined, responses>>,
         vote' = "done" /\ result'.unanimous =>
           \A j \in DOMAIN responses : Vote!Agrees(responses[j], result'.answer)
  PROVE  VoteInv'
<1>1. Vote!Sample' = Vote!Sample /\ Vote!Text' = Vote!Text /\ Texts(joined)' = Texts(joined)
  BY DEF Vote!Sample, Vote!Text, Texts
<1>2. VoteTyped' /\ VoteJoined'
  BY <1>1 DEF VoteInv, VoteTyped, VoteJoined, Vote!Running
<1>3. \A r : Vote!Agrees(r, result.answer)' <=> Vote!Agrees(r, result'.answer)
  BY DEF Vote!Agrees
<1>4. VoteOver'
  BY <1>3 DEF VoteOver, Vote!Agrees
<1>5. QED
  BY <1>2, <1>4 DEF VoteInv

LEMMA VoteInit == ASSUME Vote!Init PROVE VoteInv
<1>1. /\ sample = [i \in Vote!Sample |-> "queued"] /\ voteText = [i \in Vote!Sample |-> {}]
      /\ joined = 0 /\ responses = <<>> /\ vote = "open"
  BY DEF Vote!Init
<1>2. Samples \in Nat /\ {} \in Vote!Text
  BY KeepingAssumption, FS_EmptySet, VoteCounts DEF Vote!VotingAssumption, Vote!Text
<1>3. VoteTyped
  BY <1>1, <1>2 DEF VoteTyped
<1>4. Texts(0) = {} /\ Cardinality(Texts(0)) = 0
  <2>1. Texts(0) = {}
    BY DEF Texts
  <2>2. QED
    BY <2>1, FS_EmptySet
<1>5. VoteJoined
  BY <1>1, <1>4 DEF VoteJoined
<1>6. QED
  BY <1>1, <1>3, <1>5 DEF VoteInv, VoteOver

LEMMA VoteStep == ASSUME VoteInv, [Vote!Next]_voteVars PROVE VoteInv'
<1>1. CASE UNCHANGED voteVars
  <2>1. UNCHANGED <<sample, voteText, joined, responses, vote, result>>
    BY <1>1 DEF voteVars
  <2>2. QED
    BY <2>1 DEF VoteInv, VoteTyped, VoteJoined, VoteOver, Texts, Vote!Running, Vote!Agrees,
                Vote!Sample, Vote!Text
<1>2. CASE Vote!Join
  BY <1>2, JoinStep
<1>3. CASE Vote!NoResponse \/ Vote!ConsensusFails
  BY <1>3, VerdictStep DEF Vote!NoResponse, Vote!ConsensusFails
<1>4. CASE Vote!SingleResponse
  <2>1. /\ joined = Samples /\ UNCHANGED <<sample, voteText, joined, responses>>
        /\ Len(responses) = 1 /\ result'.answer = responses[1]
    BY <1>4 DEF Vote!SingleResponse, Vote!Result
  <2>2. responses \in Seq(Vote!Text)
    BY DEF VoteInv, VoteTyped
  <2>3. \A j \in DOMAIN responses : j = 1 /\ responses[j] \in Vote!Text
    BY SMTT(30), <2>1, <2>2
  <2>4. \A j \in DOMAIN responses : Vote!Agrees(responses[j], result'.answer)
    BY <2>1, <2>3, AgreesWithItself
  <2>5. QED
    BY <2>1, <2>4, VerdictStep
<1>5. ASSUME NEW answer \in Vote!Text, Vote!Consensus(answer) PROVE VoteInv'
  <2>1. /\ joined = Samples /\ UNCHANGED <<sample, voteText, joined, responses>>
        /\ result'.answer = answer
        /\ result'.unanimous => Vote!Agreement(answer) = Len(responses)
    BY <1>5 DEF Vote!Consensus, Vote!Result
  <2>2. result'.unanimous => \A j \in DOMAIN responses : Vote!Agrees(responses[j], answer)
    BY <2>1, AllAgree DEF VoteInv, VoteTyped
  <2>3. QED
    BY <2>1, <2>2, VerdictStep
<1>6. ASSUME NEW i \in Vote!Sample,
             \/ Vote!Start(i)
             \/ \E how \in {"failed", "textless"} : Vote!NoText(i, how)
             \/ \E t \in Vote!Text : Vote!Answer(i, t)
      PROVE  VoteInv'
  BY <1>6, SampleSteps
<1>7. QED
  BY <1>1, <1>2, <1>3, <1>4, <1>5, <1>6 DEF Vote!Next

LEMMA VoteSound == ASSUME VoteInv PROVE VoteCountsAll
<1>1. Samples \in Nat /\ Vote!Sample = 1..Samples
  BY KeepingAssumption DEF Vote!VotingAssumption, Vote!Sample
<1>2. ASSUME vote # "open"
      PROVE  /\ \A i \in Vote!Sample : ~Vote!Running(i)
             /\ Len(responses) = Vote!Cardinality({i \in Vote!Sample : sample[i] = "text"})
             /\ vote = "done" /\ result.unanimous =>
                  \A i \in Vote!Sample : sample[i] = "text" => Vote!Agrees(voteText[i], result.answer)
  <2>1. joined = Samples
    BY <1>2 DEF VoteInv, VoteOver
  <2>2. Texts(joined) = {i \in Vote!Sample : sample[i] = "text"}
    BY <1>1, <2>1 DEF Texts
  <2>3. Len(responses) = Vote!Cardinality({i \in Vote!Sample : sample[i] = "text"})
    BY <2>2, VoteCounts DEF VoteInv, VoteJoined
  <2>4. \A i \in Vote!Sample : ~Vote!Running(i)
    BY <1>1, <2>1 DEF VoteInv, VoteJoined
  <2>5. ASSUME vote = "done", result.unanimous, NEW i \in Vote!Sample, sample[i] = "text"
        PROVE  Vote!Agrees(voteText[i], result.answer)
    <3>1. i \in Texts(joined)
      BY <2>2, <2>5
    <3>2. PICK j \in DOMAIN responses : responses[j] = voteText[i]
      BY <3>1 DEF VoteInv, VoteJoined
    <3>3. Vote!Agrees(responses[j], result.answer)
      BY <2>5 DEF VoteInv, VoteOver
    <3>4. QED
      BY <3>2, <3>3
  <2>6. QED
    BY <2>3, <2>4, <2>5
<1>3. QED
  BY <1>2 DEF VoteCountsAll, Vote!VoteCountsAll

-----------------------------------------------------------------------------
(* Pages and notes.  What is said of a call's blocks is said of the body b   *)
(* they are in: those of try t are the batches 1 to m, in order.              *)
Its(b, k, t, i) == b[i].of = k /\ b[i].try = t

Counted(b, k, t, m) ==
  /\ \A i \in DOMAIN b : Its(b, k, t, i) => b[i].n \in 1..m
  /\ \A x \in 1..m : \E i \in DOMAIN b : Its(b, k, t, i) /\ b[i].n = x
  /\ \A i, j \in DOMAIN b : Its(b, k, t, i) /\ Its(b, k, t, j) /\ i < j => b[i].n < b[j].n

(* Two bodies with the same blocks of a call, at the same places.            *)
Alike(k, b, d) ==
  \A i : /\ i \in DOMAIN b /\ b[i].of = k =>
              i \in DOMAIN d /\ d[i].of = k /\ d[i].try = b[i].try /\ d[i].n = b[i].n
         /\ i \in DOMAIN d /\ d[i].of = k => i \in DOMAIN b /\ b[i].of = k

NoteBlock == [of : Writer, try : Nat, n : Nat, deleted : BOOLEAN]
NotePage == [title : Title, body : Seq(NoteBlock), archived : BOOLEAN]
NoteCall ==
  [kind : {"create", "entry", "append", "rename", "archive", "delete_block",
           "create_note", "append_content", "delete_note"},
   title : {"none"} \cup Title, page : {Note!NoPage} \cup (Writer \X Nat),
   markdown : BOOLEAN, batches : Nat \ {0}, at : Nat \ {0}, try : Nat \ {0},
   pc : {"idle", "request", "rest", "sync", "title", "ok", "failed"}, synced : BOOLEAN]

PagesTyped(P) ==
  /\ DOMAIN P \subseteq Writer \X (Nat \ {0})
  /\ P \in [DOMAIN P -> NotePage]

VaultTyped(V) == V \in [Title -> [there : BOOLEAN, texts : SUBSET Writer]]

NoteTyped == PagesTyped(pages) /\ VaultTyped(vault) /\ noteCall \in [Writer -> NoteCall]

TargetOf(k, c, t) == IF c.kind = "create" THEN <<k, t>> ELSE c.page

(* Blocks and pages are of the tries so far, and each try has left batches   *)
(* from the first on.                                                        *)
Tried(k, c, P) ==
  /\ \A p \in DOMAIN P : p[1] = k => p[2] <= c.try
  /\ \A p \in DOMAIN P : \A i \in DOMAIN P[p].body :
       P[p].body[i].of = k => P[p].body[i].try <= c.try
  /\ c.kind = "append" => c.page \in DOMAIN P
  /\ c.kind \in {"create", "append"} =>
       \A t \in Nat : TargetOf(k, c, t) \in DOMAIN P =>
         \E m \in 0..c.batches : Counted(P[TargetOf(k, c, t)].body, k, t, m)

(* What the try under way has left: nothing, the batches before its next,    *)
(* or all.                                                                   *)
Untouched(k, P) ==
  \A p \in DOMAIN P : p[1] # k /\ \A i \in DOMAIN P[p].body : P[p].body[i].of # k

InTarget(k, c, P, m) ==
  /\ TargetOf(k, c, c.try) \in DOMAIN P
  /\ Counted(P[TargetOf(k, c, c.try)].body, k, c.try, m)

Exact(k, c, P) ==
  /\ c.pc = "idle" => c.kind = "create" /\ Untouched(k, P)
  /\ c.pc = "request" /\ c.kind \in {"create", "entry"} =>
       c.at = 1 /\ \A p \in DOMAIN P : p[1] = k => p[2] < c.try
  /\ (c.pc = "request" /\ c.kind = "append") \/ (c.pc = "rest" /\ c.kind = "create") =>
       c.at <= c.batches /\ InTarget(k, c, P, c.at - 1)
  /\ c.pc \in {"sync", "title", "ok"} /\ c.kind \in {"create", "append"} =>
       InTarget(k, c, P, c.batches)

(* A text told to be synced is in its note, or the note was replaced.        *)
Told(k, c, V, R) ==
  /\ c.synced => c.pc = "ok" /\ c.title \in Title
  /\ c.synced /\ c.markdown => k \in V[c.title].texts \cup R
  /\ c.pc # "idle" /\ (c.kind = "append" => c.pc = "sync") => c.title \in Title

NoteInv ==
  /\ NoteTyped
  /\ \A k \in Writer : /\ Tried(k, noteCall[k], pages) /\ Exact(k, noteCall[k], pages)
                       /\ Told(k, noteCall[k], vault, replaced)

LEMMA PageTypes ==
  ASSUME NEW P, PagesTyped(P), NEW p \in DOMAIN P
  PROVE  /\ p[1] \in Writer /\ p[2] \in Nat /\ p = <<p[1], p[2]>>
         /\ P[p] \in NotePage /\ P[p].body \in Seq(NoteBlock)
         /\ \A i \in DOMAIN P[p].body : P[p].body[i] \in NoteBlock
<1>1. P[p] \in NotePage
  BY DEF PagesTyped
<1>2. P[p].body \in Seq(NoteBlock)
  BY <1>1 DEF NotePage
<1>3. \A i \in DOMAIN P[p].body : P[p].body[i] \in NoteBlock
  BY <1>2
<1>4. p \in Writer \X (Nat \ {0})
  BY DEF PagesTyped
<1>5. p[1] \in Writer /\ p[2] \in Nat /\ p = <<p[1], p[2]>>
  BY <1>4
<1>6. QED
  BY <1>1, <1>2, <1>3, <1>5

LEMMA AlikeCounted ==
  ASSUME NEW k, NEW b, NEW d, Alike(k, b, d), NEW t, NEW m, Counted(b, k, t, m)
  PROVE  Counted(d, k, t, m)
<1>1. \A i \in DOMAIN d : Its(d, k, t, i) => i \in DOMAIN b /\ Its(b, k, t, i) /\ d[i].n = b[i].n
  BY DEF Alike, Its
<1>2. \A i \in DOMAIN b : Its(b, k, t, i) => i \in DOMAIN d /\ Its(d, k, t, i) /\ d[i].n = b[i].n
  BY DEF Alike, Its
<1>3. QED
  BY <1>1, <1>2 DEF Counted

(* The pages of Q have of k what those of P had, and there is none new of k. *)
SamePages(k, P, Q) ==
  /\ DOMAIN P \subseteq DOMAIN Q
  /\ \A p \in DOMAIN P : Alike(k, P[p].body, Q[p].body)
  /\ \A p \in DOMAIN Q \ DOMAIN P : p[1] # k /\ \A i \in DOMAIN Q[p].body : Q[p].body[i].of # k

LEMMA SameTried ==
  ASSUME NEW k, NEW c, NEW P, NEW Q, SamePages(k, P, Q), Tried(k, c, P) PROVE Tried(k, c, Q)
<1>1. \A p \in DOMAIN Q : p[1] = k => p \in DOMAIN P
  BY DEF SamePages
<1>2. \A p \in DOMAIN Q : p[1] = k => p[2] <= c.try
  BY <1>1 DEF Tried
<1>3. ASSUME NEW p \in DOMAIN Q, NEW i \in DOMAIN Q[p].body, Q[p].body[i].of = k
      PROVE  Q[p].body[i].try <= c.try
  <2>1. p \in DOMAIN P /\ Alike(k, P[p].body, Q[p].body)
    BY <1>3 DEF SamePages
  <2>2. i \in DOMAIN P[p].body /\ P[p].body[i].of = k /\ Q[p].body[i].try = P[p].body[i].try
    BY <1>3, <2>1 DEF Alike
  <2>3. QED
    BY <2>1, <2>2 DEF Tried
<1>4. c.kind = "append" => c.page \in DOMAIN Q
  BY DEF Tried, SamePages
<1>5. ASSUME c.kind \in {"create", "append"}, NEW t \in Nat, TargetOf(k, c, t) \in DOMAIN Q
      PROVE  \E m \in 0..c.batches : Counted(Q[TargetOf(k, c, t)].body, k, t, m)
  <2>1. PICK p : p = TargetOf(k, c, t)
    OBVIOUS
  <2>2. p \in DOMAIN P
    <3>1. CASE c.kind = "create"
      BY <1>1, <1>5, <2>1, <3>1 DEF TargetOf
    <3>2. CASE c.kind = "append"
      BY <2>1, <3>2 DEF TargetOf, Tried
    <3>3. QED
      BY <1>5, <3>1, <3>2
  <2>3. PICK m \in 0..c.batches : Counted(P[p].body, k, t, m)
    BY <1>5, <2>1, <2>2 DEF Tried
  <2>4. Counted(Q[p].body, k, t, m)
    BY <2>2, <2>3, AlikeCounted DEF SamePages
  <2>5. QED
    BY <2>1, <2>4
<1>6. QED
  BY <1>2, <1>3, <1>4, <1>5 DEF Tried

LEMMA SameExact ==
  ASSUME NEW k, NEW c, NEW P, NEW Q, SamePages(k, P, Q), Exact(k, c, P) PROVE Exact(k, c, Q)
<1>1. ASSUME NEW m, InTarget(k, c, P, m) PROVE InTarget(k, c, Q, m)
  <2>1. PICK p : p = TargetOf(k, c, c.try)
    OBVIOUS
  <2>2. p \in DOMAIN P /\ Counted(P[p].body, k, c.try, m)
    BY <1>1, <2>1 DEF InTarget
  <2>3. p \in DOMAIN Q /\ Counted(Q[p].body, k, c.try, m)
    BY <2>2, AlikeCounted DEF SamePages
  <2>4. QED
    BY <2>1, <2>3 DEF InTarget
<1>2. ASSUME Untouched(k, P) PROVE Untouched(k, Q)
  BY <1>2 DEF Untouched, SamePages, Alike
<1>3. \A p \in DOMAIN Q : p[1] = k => p \in DOMAIN P
  BY DEF SamePages
<1>4. QED
  BY <1>1, <1>2, <1>3 DEF Exact

(* A step of one call, if it leaves the blocks and texts of the others.      *)
VaultMoves(V, R, W, S) == R \subseteq S /\ \A t \in Title : V[t].texts \subseteq W[t].texts \cup S

LEMMA CallMoves ==
  ASSUME NoteInv, NEW k \in Writer, NEW c \in NoteCall, noteCall' = [noteCall EXCEPT ![k] = c],
         PagesTyped(pages'), VaultTyped(vault'),
         \A j \in Writer \ {k} : SamePages(j, pages, pages'),
         VaultMoves(vault, replaced, vault', replaced'),
         Tried(k, c, pages'), Exact(k, c, pages'), Told(k, c, vault', replaced')
  PROVE  NoteInv'
<1>1. noteCall \in [Writer -> NoteCall]
  BY DEF NoteInv, NoteTyped
<1>2. noteCall' \in [Writer -> NoteCall] /\ noteCall'[k] = c
      /\ \A j \in Writer \ {k} : noteCall'[j] = noteCall[j]
  BY <1>1
<1>3. ASSUME NEW j \in Writer
      PROVE  /\ Tried(j, noteCall'[j], pages') /\ Exact(j, noteCall'[j], pages')
             /\ Told(j, noteCall'[j], vault', replaced')
  <2>1. CASE j = k
    BY <1>2, <2>1
  <2>2. CASE j # k
    <3>1. PICK e : e = noteCall[j] /\ noteCall'[j] = e
      BY <1>2, <2>2
    <3>2. Tried(j, e, pages) /\ Exact(j, e, pages) /\ Told(j, e, vault, replaced)
      BY <3>1 DEF NoteInv
    <3>3. Tried(j, e, pages') /\ Exact(j, e, pages')
      BY <2>2, <3>2, SameTried, SameExact
    <3>4. Told(j, e, vault', replaced')
      BY <3>2 DEF Told, VaultMoves
    <3>5. QED
      BY <3>1, <3>3, <3>4
  <2>3. QED
    BY <2>1, <2>2
<1>4. NoteTyped'
  BY <1>2 DEF NoteTyped, PagesTyped, VaultTyped, NoteCall, NotePage, NoteBlock, Note!NoPage
<1>5. QED
  BY <1>3, <1>4 DEF NoteInv

(* A try that fails is the last, or the call begins anew.                   *)
LEMMA FailedKeeps ==
  ASSUME NEW k, NEW c \in NoteCall, NEW P, PagesTyped(P), Tried(k, c, P), c.pc # "idle", ~c.synced,
         c.kind # "append" => c.title \in Title
  PROVE  /\ Note!Failed(c) \in NoteCall /\ Tried(k, Note!Failed(c), P) /\ Exact(k, Note!Failed(c), P)
         /\ \A V, R : Told(k, Note!Failed(c), V, R)
<1>0. PICK f : f = Note!Failed(c)
  OBVIOUS
<1>1. CASE c.try > Retries
  <2>1. f = [c EXCEPT !.pc = "failed"]
    BY <1>0, <1>1 DEF Note!Failed
  <2>2. /\ f \in NoteCall /\ f.kind = c.kind /\ f.page = c.page /\ f.try = c.try /\ f.pc = "failed"
        /\ f.batches = c.batches /\ f.synced = c.synced /\ f.title = c.title
    BY <2>1 DEF NoteCall
  <2>3. Tried(k, f, P)
    BY <2>2 DEF Tried, TargetOf
  <2>4. Exact(k, f, P) /\ \A V, R : Told(k, f, V, R)
    BY <2>2 DEF Exact, Told
  <2>5. QED
    BY <1>0, <2>2, <2>3, <2>4
<1>2. CASE ~(c.try > Retries)
  <2>1. f = [c EXCEPT !.pc = "request", !.at = 1, !.try = @ + 1]
    BY <1>0, <1>2 DEF Note!Failed
  <2>2. /\ f \in NoteCall /\ f.kind = c.kind /\ f.page = c.page /\ f.try = c.try + 1 /\ f.pc = "request"
        /\ f.batches = c.batches /\ f.synced = c.synced /\ f.title = c.title /\ f.at = 1
        /\ c.try \in Nat /\ c.batches \in Nat \ {0}
    <3>1. c.try \in Nat /\ c.try + 1 \in Nat \ {0} /\ c.batches \in Nat \ {0} /\ 1 \in Nat \ {0}
      BY DEF NoteCall
    <3>2. PICK t : t = c.try + 1
      OBVIOUS
    <3>3. f = [c EXCEPT !.pc = "request", !.at = 1, !.try = t]
      BY <2>1, <3>2
    <3>4. f \in NoteCall
      BY <3>1, <3>2, <3>3 DEF NoteCall
    <3>5. /\ f.kind = c.kind /\ f.page = c.page /\ f.try = t /\ f.pc = "request" /\ f.at = 1
          /\ f.batches = c.batches /\ f.synced = c.synced /\ f.title = c.title
      BY <3>3 DEF NoteCall
    <3>6. QED
      BY <3>1, <3>2, <3>4, <3>5
  <2>3. ASSUME NEW p \in DOMAIN P PROVE /\ p[2] \in Nat
                                        /\ \A i \in DOMAIN P[p].body : P[p].body[i].try \in Nat
    BY PageTypes DEF NoteBlock
  <2>4. \A p \in DOMAIN P : p[1] = k => p[2] < f.try
    BY <2>2, <2>3 DEF Tried
  <2>5. \A p \in DOMAIN P : \A i \in DOMAIN P[p].body : P[p].body[i].of = k => P[p].body[i].try < f.try
    BY <2>2, <2>3 DEF Tried
  <2>6. Tried(k, f, P)
    <3>1. \A p \in DOMAIN P : p[1] = k => p[2] <= f.try
      BY <2>2, <2>3, <2>4
    <3>2. \A p \in DOMAIN P : \A i \in DOMAIN P[p].body : P[p].body[i].of = k => P[p].body[i].try <= f.try
      BY <2>2, <2>3, <2>5
    <3>3. QED
      BY <2>2, <3>1, <3>2 DEF Tried, TargetOf
  <2>7. ASSUME f.kind = "append" PROVE InTarget(k, f, P, 0)
    <3>1. f.page \in DOMAIN P
      BY <2>2, <2>7 DEF Tried
    <3>2. \A i \in DOMAIN P[f.page].body : ~Its(P[f.page].body, k, f.try, i)
      BY <2>2, <2>3, <2>5, <3>1 DEF Its
    <3>3. QED
      BY <2>7, <3>1, <3>2 DEF InTarget, TargetOf, Counted
  <2>8. f.at <= f.batches /\ f.at - 1 = 0
    BY <2>2
  <2>9. Exact(k, f, P)
    BY <2>2, <2>4, <2>7, <2>8 DEF Exact
  <2>10. \A V, R : Told(k, f, V, R)
    BY <2>2 DEF Told
  <2>11. QED
    BY <1>0, <2>2, <2>6, <2>9, <2>10
<1>3. QED
  BY <1>1, <1>2

LEMMA SameItself ==
  /\ \A k, b : Alike(k, b, b)
  /\ \A k, P : SamePages(k, P, P)
  /\ \A V, R : VaultMoves(V, R, V, R)
BY DEF Alike, SamePages, VaultMoves

(* What a call in progress knows of itself.                                 *)
LEMMA InProgress ==
  ASSUME NoteInv, NEW k \in Writer, noteCall[k].pc \notin {"idle", "ok"}
  PROVE  /\ noteCall[k] \in NoteCall /\ PagesTyped(pages) /\ VaultTyped(vault)
         /\ Tried(k, noteCall[k], pages) /\ Exact(k, noteCall[k], pages)
         /\ ~noteCall[k].synced /\ (noteCall[k].kind # "append" => noteCall[k].title \in Title)
BY DEF NoteInv, NoteTyped, Told

(* An answer to a request to a page, or none.                               *)
LEMMA PageStep ==
  ASSUME NoteInv, NEW k \in Writer, NEW c, c = noteCall[k], c.pc \notin {"idle", "ok"},
         NEW next, NEW taken,
         \/ noteCall' = [noteCall EXCEPT ![k] = Note!Failed(c)]
         \/ taken = TRUE /\ noteCall' = [noteCall EXCEPT ![k] = next],
         vault' = vault, replaced' = replaced, PagesTyped(pages'),
         \A j \in Writer \ {k} : SamePages(j, pages, pages'), Tried(k, c, pages'),
         taken = TRUE => /\ next \in NoteCall /\ Tried(k, next, pages') /\ Exact(k, next, pages')
                         /\ Told(k, next, vault, replaced)
  PROVE  NoteInv'
<1>1. /\ c \in NoteCall /\ VaultTyped(vault) /\ ~c.synced /\ (c.kind # "append" => c.title \in Title)
  BY InProgress
<1>2. PICK d : /\ noteCall' = [noteCall EXCEPT ![k] = d] /\ d \in NoteCall
               /\ Tried(k, d, pages') /\ Exact(k, d, pages') /\ Told(k, d, vault, replaced)
  <2>1. CASE noteCall' = [noteCall EXCEPT ![k] = Note!Failed(c)]
    <3>1. PICK P : P = pages'
      OBVIOUS
    <3>2. /\ Note!Failed(c) \in NoteCall /\ Tried(k, Note!Failed(c), P) /\ Exact(k, Note!Failed(c), P)
          /\ Told(k, Note!Failed(c), vault, replaced)
      BY <1>1, <3>1, FailedKeeps
    <3>3. QED
      BY <2>1, <3>1, <3>2
  <2>2. CASE taken = TRUE /\ noteCall' = [noteCall EXCEPT ![k] = next]
    BY <2>2
  <2>3. QED
    BY <2>1, <2>2
<1>3. QED
  BY <1>1, <1>2, SameItself, CallMoves

LEMMA Refusal ==
  ASSUME NoteInv, NEW k \in Writer, noteCall[k].pc \notin {"idle", "ok"}, Note!Refused(k),
         UNCHANGED <<pages, vault, replaced>>
  PROVE  NoteInv'
<1>1. PICK c : c = noteCall[k]
  OBVIOUS
<1>2. noteCall' = [noteCall EXCEPT ![k] = Note!Failed(c)]
  BY <1>1 DEF Note!Refused
<1>3. QED
  BY <1>1, <1>2, InProgress, SameItself, PageStep

(* What Hear makes of the call.                                             *)
LEMMA Heard ==
  ASSUME NEW k \in Writer, NEW o \in Note!Outcomes, NEW next, NEW orElse, Note!Hear(k, o, next, orElse)
  PROVE  \/ noteCall' = [noteCall EXCEPT ![k] = Note!Failed(noteCall[k])]
         \/ noteCall' = [noteCall EXCEPT ![k] = orElse]
         \/ o.taken = TRUE /\ noteCall' = [noteCall EXCEPT ![k] = next]
<1>1. o.heard \in {"answer", "error", "nothing"} /\ o.taken \in BOOLEAN /\ (o.heard = "answer" => o.taken)
  BY DEF Note!Outcomes
<1>2. CASE o.heard = "answer"
  BY <1>1, <1>2 DEF Note!Hear
<1>3. CASE o.heard = "error"
  BY <1>3 DEF Note!Hear
<1>4. CASE o.heard = "nothing"
  BY <1>4 DEF Note!Hear
<1>5. QED
  BY <1>1, <1>2, <1>3, <1>4

(* A call begins with nothing of its own anywhere.                          *)
LEMMA Begins ==
  ASSUME NoteInv, NEW k \in Writer, noteCall[k].pc = "idle", NEW d \in NoteCall,
         d.at = 1, d.try = 1, d.pc = "request", ~d.synced,
         d.kind = "append" => d.page \in DOMAIN pages, d.kind # "append" => d.title \in Title,
         noteCall' = [noteCall EXCEPT ![k] = d], UNCHANGED <<pages, vault, replaced>>
  PROVE  NoteInv'
<1>1. Untouched(k, pages) /\ PagesTyped(pages) /\ VaultTyped(vault)
  BY DEF NoteInv, NoteTyped, Exact
<1>2. \A t \in Nat : <<k, t>> \notin DOMAIN pages
  BY <1>1 DEF Untouched
<1>3. d.batches \in Nat \ {0}
  BY DEF NoteCall
<1>4. \A p \in DOMAIN pages : \A t : Counted(pages[p].body, k, t, 0)
  BY <1>1 DEF Untouched, Counted, Its
<1>5. Tried(k, d, pages)
  <2>1. ASSUME d.kind \in {"create", "append"}, NEW t \in Nat, TargetOf(k, d, t) \in DOMAIN pages
        PROVE  \E m \in 0..d.batches : Counted(pages[TargetOf(k, d, t)].body, k, t, m)
    BY <1>3, <1>4, <2>1
  <2>2. QED
    BY <1>1, <2>1 DEF Tried, Untouched
<1>6. d.kind = "append" => InTarget(k, d, pages, 0)
  BY <1>4 DEF InTarget, TargetOf
<1>7. Exact(k, d, pages)
  <2>1. d.at <= d.batches /\ d.at - 1 = 0
    BY <1>3
  <2>2. QED
    BY <1>1, <1>6, <2>1 DEF Exact, Untouched
<1>8. Told(k, d, vault, replaced)
  BY DEF Told
<1>9. QED
  BY <1>1, <1>5, <1>7, <1>8, SameItself, CallMoves

LEMMA FreshIs ==
  /\ Note!Fresh \in NoteCall /\ Note!Fresh.at = 1 /\ Note!Fresh.try = 1 /\ ~Note!Fresh.synced
  /\ Note!Fresh.kind = "create" /\ Note!Fresh.pc = "idle"
<1>1. Note!NoPage \in {Note!NoPage} \cup (Writer \X Nat) /\ 1 \in Nat \ {0}
  OBVIOUS
<1>2. PICK p : p = Note!NoPage
  OBVIOUS
<1>3. Note!Fresh = [kind |-> "create", title |-> "none", page |-> p, markdown |-> FALSE, batches |-> 1,
                    at |-> 1, try |-> 1, pc |-> "idle", synced |-> FALSE]
  BY <1>2 DEF Note!Fresh
<1>4. QED
  BY <1>1, <1>2, <1>3 DEF NoteCall

LEMMA NoteExecutes == ASSUME NoteInv, NEW k \in Writer, Note!Execute(k) PROVE NoteInv'
<1>0. UNCHANGED <<pages, vault, replaced>> /\ PagesTyped(pages)
      /\ \A n \in 1..MaxBatches : n \in Nat \ {0}
  <2>1. MaxBatches \in Nat
    BY KeepingAssumption DEF Note!SyncAssumption
  <2>2. \A n \in 1..MaxBatches : n \in Nat \ {0}
    BY <2>1
  <2>3. UNCHANGED <<pages, vault, replaced>>
    BY DEF Note!Execute
  <2>4. QED
    BY <2>2, <2>3 DEF NoteInv, NoteTyped
<1>1. ASSUME NEW c \in NoteCall, Note!Begin(k, c), c.at = 1, c.try = 1, ~c.synced,
             c.kind = "append" => c.page \in DOMAIN pages, c.kind # "append" => c.title \in Title
      PROVE  NoteInv'
  <2>1. PICK d : d = [c EXCEPT !.pc = "request"]
    OBVIOUS
  <2>2. /\ d \in NoteCall /\ d.pc = "request" /\ d.at = c.at /\ d.try = c.try /\ d.synced = c.synced
        /\ d.kind = c.kind /\ d.page = c.page /\ d.title = c.title
    BY <2>1 DEF NoteCall
  <2>3. noteCall[k].pc = "idle" /\ noteCall' = [noteCall EXCEPT ![k] = d]
    BY <1>1, <2>1 DEF Note!Begin
  <2>4. QED
    BY <1>0, <1>1, <2>2, <2>3, Begins
<1>2. ASSUME NEW kind \in Note!Creating, NEW t \in Title, NEW md \in BOOLEAN, NEW n \in 1..MaxBatches,
             Note!Begin(k, [Note!Fresh EXCEPT !.kind = kind, !.title = t, !.markdown = md, !.batches = n])
      PROVE  NoteInv'
  <2>1. PICK c : c = [Note!Fresh EXCEPT !.kind = kind, !.title = t, !.markdown = md, !.batches = n]
    OBVIOUS
  <2>2. c \in NoteCall /\ c.at = 1 /\ c.try = 1 /\ ~c.synced /\ c.kind # "append" /\ c.title \in Title
    BY <1>0, <2>1, FreshIs DEF Note!Creating, NoteCall
  <2>3. QED
    BY <1>1, <1>2, <2>1, <2>2
<1>3. ASSUME NEW p \in DOMAIN pages, NEW md \in BOOLEAN, NEW n \in 1..MaxBatches,
             Note!Begin(k, [Note!Fresh EXCEPT !.kind = "append", !.page = p, !.markdown = md, !.batches = n])
      PROVE  NoteInv'
  <2>1. PICK c : c = [Note!Fresh EXCEPT !.kind = "append", !.page = p, !.markdown = md, !.batches = n]
    OBVIOUS
  <2>2. p \in Writer \X Nat
    BY <1>0 DEF PagesTyped
  <2>3. c \in NoteCall /\ c.at = 1 /\ c.try = 1 /\ ~c.synced /\ c.kind = "append" /\ c.page = p
    BY <1>0, <2>1, <2>2, FreshIs DEF NoteCall
  <2>4. QED
    BY <1>1, <1>3, <2>1, <2>3
<1>4. ASSUME NEW kind \in Note!OnPage \ {"append"}, NEW p \in DOMAIN pages, NEW t \in Title,
             Note!Begin(k, [Note!Fresh EXCEPT !.kind = kind, !.page = p, !.title = t])
      PROVE  NoteInv'
  <2>1. PICK c : c = [Note!Fresh EXCEPT !.kind = kind, !.page = p, !.title = t]
    OBVIOUS
  <2>2. p \in Writer \X Nat
    BY <1>0 DEF PagesTyped
  <2>3. c \in NoteCall /\ c.at = 1 /\ c.try = 1 /\ ~c.synced /\ c.kind # "append" /\ c.title \in Title
    BY <2>1, <2>2, FreshIs DEF Note!OnPage, NoteCall
  <2>4. QED
    BY <1>1, <1>4, <2>1, <2>3
<1>5. ASSUME NEW kind \in Note!OnNote, NEW t \in Title,
             Note!Begin(k, [Note!Fresh EXCEPT !.kind = kind, !.title = t])
      PROVE  NoteInv'
  <2>1. PICK c : c = [Note!Fresh EXCEPT !.kind = kind, !.title = t]
    OBVIOUS
  <2>2. c \in NoteCall /\ c.at = 1 /\ c.try = 1 /\ ~c.synced /\ c.kind # "append" /\ c.title \in Title
    BY <2>1, FreshIs DEF Note!OnNote, NoteCall
  <2>3. QED
    BY <1>1, <1>5, <2>1, <2>2
<1>6. QED
  BY <1>2, <1>3, <1>4, <1>5 DEF Note!Execute

(* A block that is added is the next of its try, and none of another's.      *)
LEMMA BlockAdded ==
  ASSUME NEW b \in Seq(NoteBlock), NEW x \in NoteBlock
  PROVE  /\ Append(b, x) \in Seq(NoteBlock)
         /\ \A j : j # x.of => Alike(j, b, Append(b, x))
         /\ \A t, m : t # x.try /\ Counted(b, x.of, t, m) => Counted(Append(b, x), x.of, t, m)
         /\ \A m \in Nat : x.n = m + 1 /\ Counted(b, x.of, x.try, m)
                             => Counted(Append(b, x), x.of, x.try, m + 1)
         /\ \A i \in DOMAIN Append(b, x) : (i \in DOMAIN b /\ Append(b, x)[i] = b[i]) \/ Append(b, x)[i] = x
<1>1. PICK d, l : d = Append(b, x) /\ l = Len(b) + 1
  OBVIOUS
<1>2. /\ d \in Seq(NoteBlock) /\ l \in Nat /\ l \notin DOMAIN b /\ DOMAIN d = DOMAIN b \cup {l} /\ d[l] = x
      /\ \A i \in DOMAIN b : d[i] = b[i] /\ i < l /\ i \in Nat
  BY <1>1
<1>3. ASSUME NEW j, j # x.of PROVE Alike(j, b, d)
  BY <1>2, <1>3 DEF Alike
<1>4. ASSUME NEW t, NEW m, t # x.try, Counted(b, x.of, t, m) PROVE Counted(d, x.of, t, m)
  BY SMTT(30), <1>2, <1>4 DEF Counted, Its
<1>5. ASSUME NEW m \in Nat, x.n = m + 1, Counted(b, x.of, x.try, m) PROVE Counted(d, x.of, x.try, m + 1)
  <2>1. \A i \in DOMAIN b : Its(b, x.of, x.try, i) => b[i].n \in 1..m
    BY <1>5 DEF Counted
  <2>2. \A i \in DOMAIN b : Its(d, x.of, x.try, i) <=> Its(b, x.of, x.try, i)
    BY <1>2 DEF Its
  <2>3. Its(d, x.of, x.try, l) /\ d[l].n = m + 1
    BY <1>2, <1>5 DEF Its
  <2>4. \A i \in DOMAIN d : Its(d, x.of, x.try, i) => d[i].n \in 1..(m + 1)
    BY <1>2, <2>1, <2>2, <2>3
  <2>5. ASSUME NEW y \in 1..(m + 1) PROVE \E i \in DOMAIN d : Its(d, x.of, x.try, i) /\ d[i].n = y
    <3>1. CASE y \in 1..m
      <4>1. PICK i \in DOMAIN b : Its(b, x.of, x.try, i) /\ b[i].n = y
        BY <1>5, <3>1 DEF Counted
      <4>2. QED
        BY <1>2, <2>2, <4>1
    <3>2. CASE y = m + 1
      BY <1>2, <2>3, <3>2
    <3>3. QED
      BY <3>1, <3>2
  <2>6. ASSUME NEW i \in DOMAIN d, NEW j \in DOMAIN d, Its(d, x.of, x.try, i), Its(d, x.of, x.try, j), i < j
        PROVE  d[i].n < d[j].n
    <3>1. i \in DOMAIN b
      BY <1>2, <2>6
    <3>2. CASE j \in DOMAIN b
      BY <1>2, <1>5, <2>2, <2>6, <3>1, <3>2 DEF Counted
    <3>3. CASE j = l
      <4>1. d[i].n \in 1..m /\ d[j].n = m + 1
        BY <1>2, <2>1, <2>2, <2>3, <2>6, <3>1, <3>3
      <4>2. QED
        BY <4>1
    <3>4. QED
      BY <1>2, <3>2, <3>3
  <2>7. QED
    BY <2>4, <2>5, <2>6 DEF Counted
<1>6. \A i \in DOMAIN d : (i \in DOMAIN b /\ d[i] = b[i]) \/ d[i] = x
  BY <1>2
<1>7. QED
  BY <1>1, <1>2, <1>3, <1>4, <1>5, <1>6

LEMMA BatchIs ==
  ASSUME NoteInv, NEW k \in Writer, noteCall[k].pc \notin {"idle", "ok"}
  PROVE  /\ Note!Batch(k) \in NoteBlock /\ Note!Batch(k).of = k /\ Note!Batch(k).try = noteCall[k].try
         /\ Note!Batch(k).n = noteCall[k].at /\ noteCall[k].at \in Nat \ {0}
         /\ noteCall[k].try \in Nat \ {0} /\ noteCall[k].batches \in Nat \ {0}
         /\ noteCall[k].at + 1 \in Nat \ {0} /\ 2 \in Nat \ {0}
<1>1. PICK c : c = noteCall[k] /\ c \in NoteCall
  BY InProgress
<1>2. c.at \in Nat \ {0} /\ c.try \in Nat \ {0} /\ c.batches \in Nat \ {0}
  BY <1>1 DEF NoteCall
<1>3. Note!Batch(k) = [of |-> k, try |-> c.try, n |-> c.at, deleted |-> FALSE]
  BY <1>1 DEF Note!Batch
<1>4. c.at + 1 \in Nat \ {0} /\ c.at \in Nat /\ c.try \in Nat
  BY <1>2
<1>5. Note!Batch(k) \in NoteBlock
  BY <1>3, <1>4 DEF NoteBlock
<1>6. QED
  BY <1>1, <1>2, <1>3, <1>4, <1>5

LEMMA PagePosts == ASSUME NoteInv, NEW k \in Writer, Note!PostPage(k) PROVE NoteInv'
<1>0. PICK c : c = noteCall[k]
  OBVIOUS
<1>1. c.kind \in {"create", "entry"} /\ c.pc = "request" /\ UNCHANGED <<vault, replaced>>
  BY <1>0 DEF Note!PostPage, Note!At, Note!Creating
<1>2. /\ c \in NoteCall /\ PagesTyped(pages) /\ Tried(k, c, pages) /\ Exact(k, c, pages)
      /\ ~c.synced /\ c.title \in Title
  BY <1>0, <1>1, InProgress
<1>3. PICK B, t, n : /\ B = Note!Batch(k) /\ t = c.try /\ n = c.batches
                     /\ B \in NoteBlock /\ B.of = k /\ B.try = t /\ B.n = c.at
                     /\ t \in Nat \ {0} /\ n \in Nat \ {0}
  BY <1>0, <1>1, BatchIs
<1>4. c.at = 1 /\ \A p \in DOMAIN pages : p[1] = k => p[2] < t
  BY <1>1, <1>2, <1>3 DEF Exact
<1>5. PICK id : id = <<k, t>> /\ id = Note!NewId(k) /\ id \in Writer \X (Nat \ {0})
  <2>1. Note!NewId(k) = <<k, t>>
    BY <1>0, <1>3 DEF Note!NewId
  <2>2. <<k, t>> \in Writer \X (Nat \ {0})
    BY <1>3
  <2>3. QED
    BY <2>1, <2>2
<1>6. id \notin DOMAIN pages
  BY <1>3, <1>4, <1>5
<1>7. CASE Note!Refused(k) /\ UNCHANGED pages
  BY <1>0, <1>1, <1>7, Refusal
<1>8. ASSUME NEW o \in Note!Outcomes,
             Note!Hear(k, o, Note!AfterPost(noteCall[k]), Note!Failed(noteCall[k])),
             pages' = IF ~o.taken THEN pages
                      ELSE [p \in DOMAIN pages \cup {Note!NewId(k)} |->
                              IF p = Note!NewId(k) THEN Note!NewPage(k) ELSE pages[p]]
      PROVE  NoteInv'
  <2>1. PICK next, taken : next = Note!AfterPost(c) /\ taken = o.taken /\ taken \in BOOLEAN
    BY DEF Note!Outcomes
  <2>2. \/ noteCall' = [noteCall EXCEPT ![k] = Note!Failed(c)]
        \/ taken = TRUE /\ noteCall' = [noteCall EXCEPT ![k] = next]
    <3>1. \/ noteCall' = [noteCall EXCEPT ![k] = Note!Failed(noteCall[k])]
          \/ o.taken = TRUE /\ noteCall' = [noteCall EXCEPT ![k] = Note!AfterPost(noteCall[k])]
      BY <1>8, Heard
    <3>2. QED
      BY <1>0, <2>1, <3>1
  <2>3. CASE taken = FALSE
    <3>1. pages' = pages
      BY <1>8, <2>1, <2>3
    <3>2. QED
      BY <1>0, <1>1, <1>2, <2>2, <2>3, <3>1, SameItself, PageStep
  <2>4. CASE taken = TRUE
    <3>1. PICK N : N = Note!NewPage(k) /\ N \in NotePage /\ N.body = <<B>>
      <4>1. Note!NewPage(k) = [title |-> c.title, body |-> <<B>>, archived |-> FALSE]
        BY <1>0, <1>3 DEF Note!NewPage
      <4>2. <<B>> \in Seq(NoteBlock)
        BY <1>3
      <4>3. PICK b : b = <<B>>
        OBVIOUS
      <4>4. [title |-> c.title, body |-> b, archived |-> FALSE] \in NotePage
        BY <1>2, <4>2, <4>3 DEF NotePage
      <4>5. QED
        BY <4>1, <4>3, <4>4
    <3>2. PICK Q : /\ Q = pages'
                   /\ Q = [p \in DOMAIN pages \cup {id} |-> IF p = id THEN N ELSE pages[p]]
      BY <1>5, <1>8, <2>1, <2>4, <3>1
    <3>3. DOMAIN Q = DOMAIN pages \cup {id} /\ Q[id] = N /\ \A p \in DOMAIN pages : Q[p] = pages[p]
      BY <1>6, <3>2
    <3>4. PagesTyped(Q)
      <4>1. \A p \in DOMAIN pages : pages[p] \in NotePage
        BY <1>2, PageTypes
      <4>2. \A p \in DOMAIN Q : Q[p] \in NotePage
        BY <3>1, <3>3, <4>1
      <4>3. Q \in [DOMAIN Q -> NotePage]
        BY <3>2, <4>2
      <4>4. QED
        BY <1>2, <1>5, <3>3, <4>3 DEF PagesTyped
    <3>5. DOMAIN N.body = {1} /\ N.body[1] = B
      BY <3>1
    <3>6. Counted(N.body, k, t, 1)
      BY <1>3, <1>4, <3>5 DEF Counted, Its
    <3>7. ASSUME NEW j \in Writer \ {k} PROVE SamePages(j, pages, Q)
      BY <1>3, <1>5, <1>6, <3>3, <3>5, SameItself DEF SamePages
    <3>8. Tried(k, c, Q)
      <4>1. \A p \in DOMAIN Q : p[1] = k => p[2] <= t
        <5>1. \A p \in DOMAIN pages : p[2] \in Nat
          BY <1>2, PageTypes
        <5>2. id[2] = t
          BY <1>5
        <5>3. QED
          BY <1>3, <1>4, <3>3, <5>1, <5>2
      <4>2. \A p \in DOMAIN Q : \A i \in DOMAIN Q[p].body : Q[p].body[i].of = k => Q[p].body[i].try <= t
        <5>1. ASSUME NEW p \in DOMAIN pages PROVE \A i \in DOMAIN Q[p].body : Q[p].body[i].of = k => Q[p].body[i].try <= t
          BY <1>2, <1>3, <3>3 DEF Tried
        <5>2. \A i \in DOMAIN Q[id].body : Q[id].body[i].try <= t
          BY <1>3, <3>3, <3>5
        <5>3. QED
          BY <3>3, <5>1, <5>2
      <4>3. ASSUME NEW u \in Nat, TargetOf(k, c, u) \in DOMAIN Q, c.kind = "create"
            PROVE  \E m \in 0..n : Counted(Q[TargetOf(k, c, u)].body, k, u, m)
        <5>1. TargetOf(k, c, u) = <<k, u>>
          BY <4>3 DEF TargetOf
        <5>2. CASE u = t
          BY <1>3, <1>5, <3>3, <3>6, <5>1, <5>2
        <5>3. CASE u # t
          <6>1. <<k, u>> \in DOMAIN pages
            BY <1>5, <3>3, <4>3, <5>1, <5>3
          <6>2. QED
            BY <1>2, <1>3, <3>3, <4>3, <5>1, <6>1 DEF Tried
        <5>4. QED
          BY <5>2, <5>3
      <4>4. QED
        BY <1>1, <1>3, <4>1, <4>2, <4>3 DEF Tried
    <3>9. \/ next = [c EXCEPT !.pc = "ok"] /\ c.kind = "entry"
          \/ next = [c EXCEPT !.pc = "rest", !.at = 2] /\ c.kind = "create" /\ n > 1
          \/ next = [c EXCEPT !.pc = "sync"] /\ c.kind = "create" /\ ~(n > 1)
      BY <1>1, <1>3, <2>1 DEF Note!AfterPost, Note!Done
    <3>10. /\ next \in NoteCall /\ next.kind = c.kind /\ next.try = t /\ next.batches = n
           /\ next.page = c.page /\ next.title = c.title /\ ~next.synced
           /\ \/ next.pc = "ok" /\ c.kind = "entry"
              \/ next.pc = "rest" /\ next.at = 2 /\ c.kind = "create" /\ n > 1
              \/ next.pc = "sync" /\ c.kind = "create" /\ ~(n > 1)
      <4>1. 2 \in Nat \ {0}
        OBVIOUS
      <4>2. CASE next = [c EXCEPT !.pc = "ok"] /\ c.kind = "entry"
        BY <1>2, <1>3, <4>2 DEF NoteCall
      <4>3. CASE next = [c EXCEPT !.pc = "rest", !.at = 2] /\ c.kind = "create" /\ n > 1
        BY <1>2, <1>3, <4>1, <4>3 DEF NoteCall
      <4>4. CASE next = [c EXCEPT !.pc = "sync"] /\ c.kind = "create" /\ ~(n > 1)
        BY <1>2, <1>3, <4>4 DEF NoteCall
      <4>5. QED
        BY <3>9, <4>2, <4>3, <4>4
    <3>11. Tried(k, next, Q)
      BY <1>3, <3>8, <3>10 DEF Tried, TargetOf
    <3>12. ASSUME c.kind = "create" PROVE InTarget(k, next, Q, 1)
      <4>1. TargetOf(k, next, next.try) = id
        BY <1>5, <3>10, <3>12 DEF TargetOf
      <4>2. QED
        BY <3>3, <3>6, <3>10, <4>1 DEF InTarget
    <3>13. Exact(k, next, Q)
      <4>1. n > 1 => 2 <= n /\ 2 - 1 = 1
        BY <1>3
      <4>2. ~(n > 1) => n = 1
        BY <1>3
      <4>3. QED
        BY <3>10, <3>12, <4>1, <4>2 DEF Exact
    <3>14. Told(k, next, vault, replaced)
      BY <1>2, <3>10 DEF Told
    <3>15. QED
      <4>1. /\ PagesTyped(pages') /\ \A j \in Writer \ {k} : SamePages(j, pages, pages')
            /\ Tried(k, c, pages') /\ Tried(k, next, pages') /\ Exact(k, next, pages')
        BY <3>2, <3>4, <3>7, <3>8, <3>11, <3>13
      <4>2. c.pc \notin {"idle", "ok"} /\ vault' = vault /\ replaced' = replaced /\ next \in NoteCall
        BY <1>1, <3>10
      <4>3. QED
        BY <1>0, <2>2, <3>14, <4>1, <4>2, PageStep
  <2>5. QED
    BY <2>1, <2>3, <2>4
<1>9. QED
  BY <1>7, <1>8 DEF Note!PostPage

LEMMA BatchAppended == ASSUME NoteInv, NEW k \in Writer, Note!AppendBatch(k) PROVE NoteInv'
<1>0. PICK c : c = noteCall[k]
  OBVIOUS
<1>1. /\ (c.kind = "create" /\ c.pc = "rest") \/ (c.kind = "append" /\ c.pc = "request")
      /\ UNCHANGED <<vault, replaced>>
  BY <1>0 DEF Note!AppendBatch, Note!At
<1>2. /\ c \in NoteCall /\ PagesTyped(pages) /\ Tried(k, c, pages) /\ Exact(k, c, pages)
      /\ ~c.synced /\ (c.kind # "append" => c.title \in Title)
  BY <1>0, <1>1, InProgress
<1>3. PICK B, t, n, a : /\ B = Note!Batch(k) /\ t = c.try /\ n = c.batches /\ a = c.at
                        /\ B \in NoteBlock /\ B.of = k /\ B.try = t /\ B.n = a
                        /\ t \in Nat \ {0} /\ n \in Nat \ {0} /\ a \in Nat \ {0} /\ a + 1 \in Nat \ {0}
  BY <1>0, <1>1, BatchIs
<1>4. a <= n /\ InTarget(k, c, pages, a - 1)
  BY <1>1, <1>2, <1>3 DEF Exact
<1>5. PICK p : p = TargetOf(k, c, t) /\ p \in DOMAIN pages /\ Counted(pages[p].body, k, t, a - 1)
  BY <1>3, <1>4 DEF InTarget
<1>6. Note!Target(k) = p
  BY <1>0, <1>1, <1>3, <1>5 DEF Note!Target, Note!NewId, TargetOf
<1>7. CASE Note!Refused(k) /\ UNCHANGED pages
  BY <1>0, <1>1, <1>7, Refusal
<1>8. ASSUME NEW o \in Note!Outcomes,
             Note!Hear(k, o, Note!AfterBatch(noteCall[k]), Note!Failed(noteCall[k])),
             pages' = IF ~o.taken THEN pages
                      ELSE [pages EXCEPT ![Note!Target(k)].body = Append(@, Note!Batch(k))]
      PROVE  NoteInv'
  <2>1. PICK next, taken : next = Note!AfterBatch(c) /\ taken = o.taken /\ taken \in BOOLEAN
    BY DEF Note!Outcomes
  <2>2. \/ noteCall' = [noteCall EXCEPT ![k] = Note!Failed(c)]
        \/ taken = TRUE /\ noteCall' = [noteCall EXCEPT ![k] = next]
    <3>1. \/ noteCall' = [noteCall EXCEPT ![k] = Note!Failed(noteCall[k])]
          \/ o.taken = TRUE /\ noteCall' = [noteCall EXCEPT ![k] = Note!AfterBatch(noteCall[k])]
      BY <1>8, Heard
    <3>2. QED
      BY <1>0, <2>1, <3>1
  <2>3. CASE taken = FALSE
    <3>1. pages' = pages
      BY <1>8, <2>1, <2>3
    <3>2. QED
      BY <1>0, <1>1, <1>2, <2>2, <2>3, <3>1, SameItself, PageStep
  <2>4. CASE taken = TRUE
    <3>1. PICK b, d : b = pages[p].body /\ d = Append(b, B)
      OBVIOUS
    <3>2. b \in Seq(NoteBlock) /\ pages[p] \in NotePage
      BY <1>2, <1>5, <3>1, PageTypes
    <3>3. /\ d \in Seq(NoteBlock) /\ \A j : j # k => Alike(j, b, d)
          /\ \A u, m : u # t /\ Counted(b, k, u, m) => Counted(d, k, u, m)
          /\ \A i \in DOMAIN d : (i \in DOMAIN b /\ d[i] = b[i]) \/ d[i] = B
      <4>1. /\ Append(b, B) \in Seq(NoteBlock) /\ \A j : j # B.of => Alike(j, b, Append(b, B))
            /\ \A i \in DOMAIN Append(b, B) :
                 (i \in DOMAIN b /\ Append(b, B)[i] = b[i]) \/ Append(b, B)[i] = B
        BY <1>3, <3>2, BlockAdded
      <4>2. \A u, m : u # B.try /\ Counted(b, B.of, u, m) => Counted(Append(b, B), B.of, u, m)
        BY <1>3, <3>2, BlockAdded
      <4>3. B.of = k /\ B.try = t
        BY <1>3
      <4>4. QED
        BY <3>1, <4>1, <4>2, <4>3, Zenon
    <3>4. Counted(d, k, t, a)
      <4>1. PICK m \in Nat : m = a - 1 /\ a = m + 1
        BY <1>3
      <4>2. Counted(b, k, t, m) /\ B.n = m + 1
        BY <1>3, <1>5, <3>1, <4>1
      <4>3. Counted(d, k, t, m + 1)
        BY <1>3, <3>1, <3>2, <4>2, BlockAdded
      <4>4. QED
        BY <4>1, <4>3
    <3>5. PICK N : N = [pages[p] EXCEPT !.body = d] /\ N \in NotePage /\ N.body = d
      <4>1. [pages[p] EXCEPT !.body = d] \in NotePage /\ [pages[p] EXCEPT !.body = d].body = d
        BY <3>2, <3>3 DEF NotePage
      <4>2. QED
        BY <4>1
    <3>6. PICK Q : Q = pages' /\ Q = [pages EXCEPT ![p] = N]
      <4>1. pages' = [pages EXCEPT ![p].body = Append(@, B)]
        BY <1>3, <1>6, <1>8, <2>1, <2>4
      <4>2. pages' = [pages EXCEPT ![p] = N]
        BY <1>2, <1>5, <3>1, <3>5, <4>1 DEF PagesTyped
      <4>3. QED
        BY <4>2
    <3>7. DOMAIN Q = DOMAIN pages /\ Q[p] = N /\ \A q \in DOMAIN pages : q # p => Q[q] = pages[q]
      BY <1>5, <3>6
    <3>8. PagesTyped(Q)
      BY <1>2, <3>5, <3>6, <3>7 DEF PagesTyped
    <3>9. ASSUME NEW j \in Writer \ {k} PROVE SamePages(j, pages, Q)
      <4>1. \A q \in DOMAIN pages : Alike(j, pages[q].body, Q[q].body)
        <5>1. ASSUME NEW q \in DOMAIN pages PROVE Alike(j, pages[q].body, Q[q].body)
          <6>1. CASE q = p
            BY <3>1, <3>3, <3>5, <3>7, <6>1
          <6>2. CASE q # p
            BY <3>7, <6>2, SameItself
          <6>3. QED
            BY <6>1, <6>2
        <5>2. QED
          BY <5>1
      <4>2. QED
        BY <3>7, <4>1 DEF SamePages
    <3>10. Tried(k, c, Q)
      <4>1. \A q \in DOMAIN Q : q[1] = k => q[2] <= t
        BY <1>2, <1>3, <3>7 DEF Tried
      <4>2. ASSUME NEW q \in DOMAIN Q, NEW i \in DOMAIN Q[q].body, Q[q].body[i].of = k
            PROVE  Q[q].body[i].try <= t
        <5>1. CASE q # p
          BY <1>2, <1>3, <3>7, <4>2, <5>1 DEF Tried
        <5>2. CASE q = p
          <6>1. i \in DOMAIN d /\ d[i].of = k /\ Q[q].body[i] = d[i]
            BY <3>5, <3>7, <4>2, <5>2
          <6>2. CASE d[i] = B
            BY <1>3, <6>1, <6>2
          <6>3. CASE i \in DOMAIN b /\ d[i] = b[i]
            <7>1. pages[p].body[i].of = k /\ i \in DOMAIN pages[p].body
              BY <3>1, <6>1, <6>3
            <7>2. pages[p].body[i].try <= t
              BY <1>2, <1>3, <1>5, <7>1 DEF Tried
            <7>3. QED
              BY <3>1, <6>1, <6>3, <7>2
          <6>4. QED
            BY <3>3, <6>1, <6>2, <6>3
        <5>3. QED
          BY <5>1, <5>2
      <4>3. ASSUME NEW u \in Nat, TargetOf(k, c, u) \in DOMAIN Q
            PROVE  \E m \in 0..n : Counted(Q[TargetOf(k, c, u)].body, k, u, m)
        <5>1. PICK q : q = TargetOf(k, c, u) /\ q \in DOMAIN pages
          BY <3>7, <4>3
        <5>2. PICK m \in 0..n : Counted(pages[q].body, k, u, m)
          BY <1>1, <1>2, <1>3, <5>1 DEF Tried
        <5>3. CASE q # p
          BY <3>7, <5>1, <5>2, <5>3
        <5>4. CASE q = p /\ u # t
          <6>1. Counted(b, k, u, m)
            BY <3>1, <5>2, <5>4
          <6>2. Counted(d, k, u, m)
            BY <3>3, <5>4, <6>1
          <6>3. Q[q].body = d
            BY <3>5, <3>7, <5>4
          <6>4. QED
            BY <5>1, <6>2, <6>3
        <5>5. CASE q = p /\ u = t
          <6>1. a \in 0..n
            BY <1>3, <1>4
          <6>2. Q[q].body = d /\ Counted(d, k, u, a)
            BY <3>4, <3>5, <3>7, <5>5
          <6>3. QED
            BY <5>1, <6>1, <6>2
        <5>6. QED
          BY <5>3, <5>4, <5>5
      <4>4. c.kind = "append" => c.page \in DOMAIN Q
        BY <1>2, <3>7 DEF Tried
      <4>5. QED
        BY <1>3, <4>1, <4>2, <4>3, <4>4 DEF Tried
    <3>11. \/ a < n /\ next = [c EXCEPT !.at = a + 1]
           \/ /\ ~(a < n) /\ next = [c EXCEPT !.pc = "sync"] /\ c.kind = "create"
           \/ /\ ~(a < n) /\ next = [c EXCEPT !.pc = "title"] /\ c.kind = "append"
           \/ /\ ~(a < n) /\ next = [c EXCEPT !.pc = "ok"] /\ c.kind = "append"
      BY <1>1, <1>3, <2>1 DEF Note!AfterBatch, Note!Done
    <3>12. /\ next \in NoteCall /\ next.kind = c.kind /\ next.try = t /\ next.batches = n
           /\ next.page = c.page /\ next.title = c.title /\ next.synced = c.synced
           /\ \/ a < n /\ next.at = a + 1 /\ next.pc = c.pc
              \/ ~(a < n) /\ next.pc = "sync" /\ c.kind = "create"
              \/ ~(a < n) /\ next.pc \in {"title", "ok"} /\ c.kind = "append"
      <4>1. CASE a < n /\ next = [c EXCEPT !.at = a + 1]
        BY <1>2, <1>3, <4>1 DEF NoteCall
      <4>2. CASE ~(a < n) /\ next = [c EXCEPT !.pc = "sync"] /\ c.kind = "create"
        BY <1>2, <1>3, <4>2 DEF NoteCall
      <4>3. CASE ~(a < n) /\ next = [c EXCEPT !.pc = "title"] /\ c.kind = "append"
        BY <1>2, <1>3, <4>3 DEF NoteCall
      <4>4. CASE ~(a < n) /\ next = [c EXCEPT !.pc = "ok"] /\ c.kind = "append"
        BY <1>2, <1>3, <4>4 DEF NoteCall
      <4>5. QED
        BY <3>11, <4>1, <4>2, <4>3, <4>4
    <3>13. Tried(k, next, Q)
      BY <1>3, <3>10, <3>12 DEF Tried, TargetOf
    <3>14. InTarget(k, next, Q, a)
      <4>1. TargetOf(k, next, next.try) = p
        BY <1>5, <3>12 DEF TargetOf
      <4>2. QED
        BY <1>5, <3>4, <3>5, <3>7, <3>12, <4>1 DEF InTarget
    <3>15. Exact(k, next, Q)
      <4>1. a < n => a + 1 <= n /\ (a + 1) - 1 = a
        BY <1>3
      <4>2. ~(a < n) => n = a
        BY <1>3, <1>4
      <4>3. CASE a < n /\ next.at = a + 1 /\ next.pc = c.pc
        BY <1>1, <3>12, <3>14, <4>1, <4>3 DEF Exact
      <4>4. CASE ~(a < n) /\ next.pc \in {"sync", "title", "ok"}
        BY <3>12, <3>14, <4>2, <4>4 DEF Exact
      <4>5. QED
        BY <3>12, <4>3, <4>4
    <3>16. Told(k, next, vault, replaced)
      BY <1>1, <1>2, <3>12 DEF Told
    <3>17. QED
      <4>1. /\ PagesTyped(pages') /\ \A j \in Writer \ {k} : SamePages(j, pages, pages')
            /\ Tried(k, c, pages') /\ Tried(k, next, pages') /\ Exact(k, next, pages')
        BY <3>6, <3>8, <3>9, <3>10, <3>13, <3>15
      <4>2. c.pc \notin {"idle", "ok"} /\ vault' = vault /\ replaced' = replaced /\ next \in NoteCall
        BY <1>1, <3>12
      <4>3. QED
        BY <1>0, <2>2, <3>16, <4>1, <4>2, PageStep
  <2>5. QED
    BY <2>1, <2>3, <2>4
<1>9. QED
  BY <1>7, <1>8 DEF Note!AppendBatch

LEMMA PageChanges == ASSUME NoteInv, NEW k \in Writer, Note!ChangePage(k) PROVE NoteInv'
<1>0. PICK c, p : c = noteCall[k] /\ p = noteCall[k].page
  OBVIOUS
<1>1. /\ c.kind \in {"rename", "archive", "delete_block"} /\ c.pc = "request"
      /\ UNCHANGED <<vault, replaced>>
  BY <1>0 DEF Note!ChangePage, Note!At, Note!OnPage
<1>2. /\ c \in NoteCall /\ PagesTyped(pages) /\ Tried(k, c, pages) /\ ~c.synced /\ c.title \in Title
  BY <1>0, <1>1, InProgress
<1>3. PICK o \in Note!Outcomes :
        /\ Note!Hear(k, o, Note!Done(noteCall[k]), Note!Failed(noteCall[k]))
        /\ CASE ~o.taken -> UNCHANGED pages
             [] c.kind = "rename" -> pages' = [pages EXCEPT ![p].title = c.title]
             [] c.kind = "archive" -> pages' = [pages EXCEPT ![p].archived = TRUE]
             [] OTHER -> \E i \in DOMAIN pages[p].body :
                           pages' = [pages EXCEPT ![p].body[i].deleted = TRUE]
  BY <1>0 DEF Note!ChangePage
<1>4. \/ UNCHANGED pages
      \/ pages' = [pages EXCEPT ![p].title = c.title]
      \/ pages' = [pages EXCEPT ![p].archived = TRUE]
      \/ \E i \in DOMAIN pages[p].body : pages' = [pages EXCEPT ![p].body[i].deleted = TRUE]
  BY <1>1, <1>3
<1>5. PICK next : next = Note!Done(c)
  OBVIOUS
<1>6. \/ noteCall' = [noteCall EXCEPT ![k] = Note!Failed(c)]
      \/ noteCall' = [noteCall EXCEPT ![k] = next]
  <2>1. \/ noteCall' = [noteCall EXCEPT ![k] = Note!Failed(noteCall[k])]
        \/ noteCall' = [noteCall EXCEPT ![k] = Note!Done(noteCall[k])]
    <3>1. Note!Hear(k, o, Note!Done(noteCall[k]), Note!Failed(noteCall[k]))
      BY <1>3
    <3>2. QED
      BY <3>1, Heard
  <2>2. QED
    BY <1>0, <1>5, <2>1
<1>7. ASSUME NEW N \in NotePage, p \in DOMAIN pages, pages' = [pages EXCEPT ![p] = N],
             \A j : Alike(j, pages[p].body, N.body)
      PROVE  PagesTyped(pages') /\ \A j : SamePages(j, pages, pages')
  <2>1. PICK Q : Q = pages' /\ Q = [pages EXCEPT ![p] = N]
    BY <1>7
  <2>2. DOMAIN Q = DOMAIN pages /\ Q[p] = N /\ \A q \in DOMAIN pages : q # p => Q[q] = pages[q]
    BY <1>7, <2>1
  <2>3. PagesTyped(Q)
    BY <1>2, <1>7, <2>1, <2>2 DEF PagesTyped
  <2>4. ASSUME NEW j PROVE SamePages(j, pages, Q)
    <3>1. ASSUME NEW q \in DOMAIN pages PROVE Alike(j, pages[q].body, Q[q].body)
      <4>1. CASE q = p
        BY <1>7, <2>2, <4>1
      <4>2. CASE q # p
        BY <2>2, <4>2, SameItself
      <4>3. QED
        BY <4>1, <4>2
    <3>2. QED
      BY <2>2, <3>1 DEF SamePages
  <2>5. QED
    BY <2>1, <2>3, <2>4
<1>8. PagesTyped(pages') /\ \A j : SamePages(j, pages, pages')
  <2>1. CASE UNCHANGED pages
    BY <1>2, <2>1, SameItself
  <2>2. CASE p \notin DOMAIN pages
    <3>1. pages' = pages
      <4>1. \A f : [pages EXCEPT ![p] = f] = pages
        BY <1>2, <2>2 DEF PagesTyped
      <4>2. QED
        BY <1>4, <4>1
    <3>2. QED
      BY <1>2, <3>1, SameItself
  <2>3. CASE p \in DOMAIN pages
    <3>1. pages[p] \in NotePage /\ pages[p].body \in Seq(NoteBlock)
      BY <1>2, <2>3, PageTypes
    <3>2. CASE pages' = [pages EXCEPT ![p].title = c.title]
      <4>1. PICK N : N = [pages[p] EXCEPT !.title = c.title]
        OBVIOUS
      <4>2. N \in NotePage /\ N.body = pages[p].body
        BY <1>2, <3>1, <4>1 DEF NotePage
      <4>3. pages' = [pages EXCEPT ![p] = N]
        BY <3>2, <4>1
      <4>4. QED
        BY <1>7, <2>3, <4>2, <4>3, SameItself
    <3>3. CASE pages' = [pages EXCEPT ![p].archived = TRUE]
      <4>1. PICK N : N = [pages[p] EXCEPT !.archived = TRUE]
        OBVIOUS
      <4>2. N \in NotePage /\ N.body = pages[p].body
        BY <3>1, <4>1 DEF NotePage
      <4>3. pages' = [pages EXCEPT ![p] = N]
        BY <3>3, <4>1
      <4>4. QED
        BY <1>7, <2>3, <4>2, <4>3, SameItself
    <3>4. ASSUME NEW i \in DOMAIN pages[p].body, pages' = [pages EXCEPT ![p].body[i].deleted = TRUE]
          PROVE  PagesTyped(pages') /\ \A j : SamePages(j, pages, pages')
      <4>1. PICK b, x : b = pages[p].body /\ x = [b[i] EXCEPT !.deleted = TRUE]
        OBVIOUS
      <4>2. b \in Seq(NoteBlock) /\ i \in DOMAIN b /\ b[i] \in NoteBlock
        BY <3>1, <3>4, <4>1
      <4>3. x \in NoteBlock /\ x.of = b[i].of /\ x.try = b[i].try /\ x.n = b[i].n
        BY <4>1, <4>2 DEF NoteBlock
      <4>4. PICK d : d = [b EXCEPT ![i] = x]
        OBVIOUS
      <4>5. /\ d \in Seq(NoteBlock) /\ DOMAIN d = DOMAIN b /\ d[i] = x
            /\ \A h \in DOMAIN b : h # i => d[h] = b[h]
        BY <4>2, <4>3, <4>4
      <4>6. \A h \in DOMAIN b : d[h].of = b[h].of /\ d[h].try = b[h].try /\ d[h].n = b[h].n
        BY <4>3, <4>5
      <4>7. \A j : Alike(j, b, d)
        BY <4>5, <4>6 DEF Alike
      <4>8. PICK N : N = [pages[p] EXCEPT !.body = d]
        OBVIOUS
      <4>9. N \in NotePage /\ N.body = d
        BY <3>1, <4>5, <4>8 DEF NotePage
      <4>10. pages' = [pages EXCEPT ![p] = N]
        BY <3>1, <3>4, <4>1, <4>4, <4>8
      <4>11. QED
        BY <1>7, <2>3, <4>1, <4>7, <4>9, <4>10
    <3>5. QED
      BY <1>4, <2>1, <3>2, <3>3, <3>4
  <2>4. QED
    BY <2>2, <2>3
<1>9. PICK Q : Q = pages'
  OBVIOUS
<1>10. Tried(k, c, Q)
  BY <1>2, <1>8, <1>9, SameTried
<1>11. /\ next \in NoteCall /\ next.kind = c.kind /\ next.try = c.try /\ next.page = c.page
       /\ next.batches = c.batches /\ next.pc = "ok" /\ next.title = c.title /\ next.synced = c.synced
  BY <1>2, <1>5 DEF Note!Done, NoteCall
<1>12. Tried(k, next, Q)
  BY <1>10, <1>11 DEF Tried, TargetOf
<1>13. Exact(k, next, Q) /\ Told(k, next, vault, replaced)
  BY <1>1, <1>2, <1>11 DEF Exact, Told
<1>14. PICK taken : taken = TRUE
  OBVIOUS
<1>15. Tried(k, c, pages') /\ Tried(k, next, pages') /\ Exact(k, next, pages')
  BY <1>9, <1>10, <1>12, <1>13
<1>16. c.pc \notin {"idle", "ok"} /\ vault' = vault /\ replaced' = replaced
  BY <1>1
<1>17. QED
  BY <1>0, <1>6, <1>8, <1>11, <1>13, <1>14, <1>15, <1>16, PageStep

(* The vault: a text goes only into what was replaced.                      *)
LEMMA NoteReplaced ==
  ASSUME VaultTyped(vault), NEW t \in Title, NEW S \in SUBSET Writer, Note!Replace(t, S)
  PROVE  /\ VaultTyped(vault') /\ VaultMoves(vault, replaced, vault', replaced')
         /\ vault'[t].texts = S
<1>1. PICK W, n : /\ W = vault' /\ n = [there |-> TRUE, texts |-> S] /\ W = [vault EXCEPT ![t] = n]
  BY DEF Note!Replace
<1>2. n \in [there : BOOLEAN, texts : SUBSET Writer] /\ n.texts = S
  BY <1>1
<1>3. W \in [Title -> [there : BOOLEAN, texts : SUBSET Writer]]
      /\ W[t] = n /\ \A u \in Title : u # t => W[u] = vault[u]
  BY <1>1, <1>2 DEF VaultTyped
<1>4. replaced' = replaced \cup (vault[t].texts \ S)
  BY DEF Note!Replace
<1>5. ASSUME NEW u \in Title PROVE vault[u].texts \subseteq W[u].texts \cup replaced'
  BY <1>2, <1>3, <1>4
<1>6. replaced \subseteq replaced'
  BY <1>4
<1>7. QED
  BY <1>1, <1>2, <1>3, <1>5, <1>6 DEF VaultTyped, VaultMoves

LEMMA NoteDeleted ==
  ASSUME VaultTyped(vault), NEW t \in Title, vault' = [vault EXCEPT ![t] = Note!NoNote],
         replaced' = replaced \cup vault[t].texts
  PROVE  VaultTyped(vault') /\ VaultMoves(vault, replaced, vault', replaced')
<1>1. PICK W, n : W = vault' /\ n = Note!NoNote /\ W = [vault EXCEPT ![t] = n]
  OBVIOUS
<1>2. n \in [there : BOOLEAN, texts : SUBSET Writer]
  BY <1>1 DEF Note!NoNote
<1>3. W \in [Title -> [there : BOOLEAN, texts : SUBSET Writer]]
      /\ W[t] = n /\ \A u \in Title : u # t => W[u] = vault[u]
  BY <1>1, <1>2 DEF VaultTyped
<1>4. ASSUME NEW u \in Title PROVE vault[u].texts \subseteq W[u].texts \cup replaced'
  BY <1>3
<1>5. QED
  BY <1>1, <1>3, <1>4 DEF VaultTyped, VaultMoves

LEMMA NoteExtended ==
  ASSUME VaultTyped(vault), NEW t \in Title, NEW x \in Writer, Note!Extend(t, x)
  PROVE  /\ VaultTyped(vault') /\ VaultMoves(vault, replaced, vault', replaced')
         /\ x \in vault'[t].texts
<1>1. vault[t] \in [there : BOOLEAN, texts : SUBSET Writer]
  BY DEF VaultTyped
<1>2. PICK W, n : /\ W = vault' /\ n = [vault[t] EXCEPT !.texts = @ \cup {x}] /\ W = [vault EXCEPT ![t] = n]
  BY DEF Note!Extend
<1>3. n \in [there : BOOLEAN, texts : SUBSET Writer] /\ n.texts = vault[t].texts \cup {x}
  BY <1>1, <1>2
<1>4. W \in [Title -> [there : BOOLEAN, texts : SUBSET Writer]]
      /\ W[t] = n /\ \A u \in Title : u # t => W[u] = vault[u]
  BY <1>2, <1>3 DEF VaultTyped
<1>5. replaced' = replaced
  BY DEF Note!Extend
<1>6. ASSUME NEW u \in Title PROVE vault[u].texts \subseteq W[u].texts \cup replaced'
  BY <1>3, <1>4
<1>7. QED
  BY <1>2, <1>3, <1>4, <1>5, <1>6 DEF VaultTyped, VaultMoves

(* The copy of a text ends: what it is told of it is so.                     *)
LEMMA CopyEnds ==
  ASSUME NEW k, NEW c \in NoteCall, NEW P, Tried(k, c, P), Exact(k, c, P), c.pc \in {"sync", "title"},
         c.kind \in {"create", "append"}, ~c.synced, c.kind = "create" \/ c.pc = "sync" => c.title \in Title
  PROVE  /\ /\ Note!Done(c) \in NoteCall /\ Tried(k, Note!Done(c), P) /\ Exact(k, Note!Done(c), P)
            /\ \A V, R : Told(k, Note!Done(c), V, R)
         /\ c.pc = "sync" =>
            /\ Note!Done([c EXCEPT !.synced = TRUE]) \in NoteCall
            /\ Tried(k, Note!Done([c EXCEPT !.synced = TRUE]), P)
            /\ Exact(k, Note!Done([c EXCEPT !.synced = TRUE]), P)
            /\ \A V, R : (c.markdown => k \in V[c.title].texts)
                           => Told(k, Note!Done([c EXCEPT !.synced = TRUE]), V, R)
<1>1. PICK d, e : d = Note!Done(c) /\ e = Note!Done([c EXCEPT !.synced = TRUE])
  OBVIOUS
<1>2. /\ d \in NoteCall /\ d.kind = c.kind /\ d.try = c.try /\ d.page = c.page
      /\ d.batches = c.batches /\ d.pc = "ok" /\ d.title = c.title /\ d.synced = c.synced
  BY <1>1 DEF Note!Done, NoteCall
<1>3. /\ e \in NoteCall /\ e.kind = c.kind /\ e.try = c.try /\ e.page = c.page /\ e.markdown = c.markdown
      /\ e.batches = c.batches /\ e.pc = "ok" /\ e.title = c.title /\ e.synced = TRUE
  BY <1>1 DEF Note!Done, NoteCall
<1>4. InTarget(k, c, P, c.batches)
  BY DEF Exact
<1>5. Tried(k, d, P) /\ Exact(k, d, P)
  BY <1>2, <1>4 DEF Tried, Exact, InTarget, TargetOf
<1>6. Tried(k, e, P) /\ Exact(k, e, P)
  BY <1>3, <1>4 DEF Tried, Exact, InTarget, TargetOf
<1>7. \A V, R : Told(k, d, V, R)
  BY <1>2 DEF Told
<1>8. ASSUME c.pc = "sync", NEW V, NEW R, c.markdown => k \in V[c.title].texts PROVE Told(k, e, V, R)
  BY <1>3, <1>8 DEF Told
<1>9. QED
  BY <1>1, <1>2, <1>3, <1>5, <1>6, <1>7, <1>8

LEMMA NewSynced == ASSUME NoteInv, NEW k \in Writer, Note!SyncNew(k) PROVE NoteInv'
<1>0. PICK c : c = noteCall[k]
  OBVIOUS
<1>1. c.kind = "create" /\ c.pc = "sync" /\ pages' = pages
  BY <1>0 DEF Note!SyncNew, Note!At
<1>2. /\ c \in NoteCall /\ PagesTyped(pages) /\ VaultTyped(vault) /\ Tried(k, c, pages)
      /\ Exact(k, c, pages) /\ ~c.synced /\ c.title \in Title
  BY <1>0, <1>1, InProgress
<1>3. PICK d, e, f : /\ d = Note!Done(c) /\ e = Note!Done([c EXCEPT !.synced = TRUE])
                     /\ f = Note!Failed(c)
  OBVIOUS
<1>4. /\ d \in NoteCall /\ Tried(k, d, pages) /\ Exact(k, d, pages) /\ \A V, R : Told(k, d, V, R)
      /\ e \in NoteCall /\ Tried(k, e, pages) /\ Exact(k, e, pages)
      /\ \A V, R : (c.markdown => k \in V[c.title].texts) => Told(k, e, V, R)
  BY <1>1, <1>2, <1>3, CopyEnds
<1>5. f \in NoteCall /\ Tried(k, f, pages) /\ Exact(k, f, pages) /\ \A V, R : Told(k, f, V, R)
  BY <1>1, <1>2, <1>3, FailedKeeps
<1>6. \A j \in Writer \ {k} : SamePages(j, pages, pages')
  BY <1>1, SameItself
<1>7. CASE noteCall' = [noteCall EXCEPT ![k] = Note!Done(@)] /\ UNCHANGED <<vault, replaced>>
  BY <1>0, <1>1, <1>2, <1>3, <1>4, <1>6, <1>7, SameItself, CallMoves
<1>8. ASSUME NEW o \in Note!Outcomes,
             Note!Hear(k, o, Note!Done([noteCall[k] EXCEPT !.synced = TRUE]), Note!Done(noteCall[k])),
             IF ~o.taken THEN UNCHANGED <<vault, replaced>>
             ELSE Note!Replace(noteCall[k].title, IF noteCall[k].markdown THEN {k} ELSE {})
      PROVE  NoteInv'
  <2>1. \/ noteCall' = [noteCall EXCEPT ![k] = f]
        \/ noteCall' = [noteCall EXCEPT ![k] = d]
        \/ o.taken = TRUE /\ noteCall' = [noteCall EXCEPT ![k] = e]
    <3>1. \/ noteCall' = [noteCall EXCEPT ![k] = Note!Failed(noteCall[k])]
          \/ noteCall' = [noteCall EXCEPT ![k] = Note!Done(noteCall[k])]
          \/ /\ o.taken = TRUE
             /\ noteCall' = [noteCall EXCEPT ![k] = Note!Done([noteCall[k] EXCEPT !.synced = TRUE])]
      BY <1>8, Heard
    <3>2. QED
      BY <1>0, <1>3, <3>1
  <2>2. /\ VaultTyped(vault') /\ VaultMoves(vault, replaced, vault', replaced')
        /\ o.taken = TRUE /\ c.markdown => k \in vault'[c.title].texts
    <3>1. CASE o.taken
      <4>1. PICK S \in SUBSET Writer : S = IF c.markdown THEN {k} ELSE {}
        OBVIOUS
      <4>2. Note!Replace(c.title, S)
        BY <1>0, <1>8, <3>1, <4>1
      <4>3. QED
        BY <1>2, <4>1, <4>2, NoteReplaced
    <3>2. CASE ~o.taken
      <4>1. vault' = vault /\ replaced' = replaced
        BY <1>8, <3>2
      <4>2. QED
        BY <1>2, <3>2, <4>1, SameItself
    <3>3. QED
      BY <3>1, <3>2
  <2>3. CASE noteCall' = [noteCall EXCEPT ![k] = f]
    BY <1>1, <1>2, <1>5, <1>6, <2>2, <2>3, CallMoves
  <2>4. CASE noteCall' = [noteCall EXCEPT ![k] = d]
    BY <1>1, <1>2, <1>4, <1>6, <2>2, <2>4, CallMoves
  <2>5. CASE o.taken = TRUE /\ noteCall' = [noteCall EXCEPT ![k] = e]
    <3>1. Told(k, e, vault', replaced')
      BY <1>4, <2>2, <2>5
    <3>2. QED
      BY <1>1, <1>2, <1>4, <1>6, <2>2, <2>5, <3>1, CallMoves
  <2>6. QED
    BY <2>1, <2>3, <2>4, <2>5
<1>9. QED
  BY <1>7, <1>8 DEF Note!SyncNew

LEMMA TitleLookedUp == ASSUME NoteInv, NEW k \in Writer, Note!LookUpTitle(k) PROVE NoteInv'
<1>0. PICK c : c = noteCall[k]
  OBVIOUS
<1>1. c.kind = "append" /\ c.pc = "title" /\ UNCHANGED <<pages, vault, replaced>>
  BY <1>0 DEF Note!LookUpTitle, Note!At
<1>2. /\ c \in NoteCall /\ PagesTyped(pages) /\ VaultTyped(vault) /\ Tried(k, c, pages)
      /\ Exact(k, c, pages) /\ ~c.synced
  BY <1>0, <1>1, InProgress
<1>3. PICK d, e, f : /\ d = Note!Done(c) /\ f = Note!Failed(c)
                     /\ e = [c EXCEPT !.pc = "sync", !.title = pages[c.page].title]
  OBVIOUS
<1>4. d \in NoteCall /\ Tried(k, d, pages) /\ Exact(k, d, pages) /\ \A V, R : Told(k, d, V, R)
  BY <1>1, <1>2, <1>3, CopyEnds
<1>5. f \in NoteCall /\ Tried(k, f, pages) /\ Exact(k, f, pages) /\ \A V, R : Told(k, f, V, R)
  BY <1>1, <1>2, <1>3, FailedKeeps
<1>6. /\ e \in NoteCall /\ e.kind = c.kind /\ e.try = c.try /\ e.page = c.page /\ e.title \in Title
      /\ e.batches = c.batches /\ e.pc = "sync" /\ e.synced = c.synced
  <2>1. c.page \in DOMAIN pages
    BY <1>1, <1>2 DEF Tried
  <2>2. PICK t : t = pages[c.page].title /\ t \in Title
    <3>1. pages[c.page] \in NotePage
      BY <1>2, <2>1, PageTypes
    <3>2. QED
      BY <3>1 DEF NotePage
  <2>3. e = [c EXCEPT !.pc = "sync", !.title = t]
    BY <1>3, <2>2
  <2>4. QED
    BY <1>2, <2>2, <2>3 DEF NoteCall
<1>7. Tried(k, e, pages) /\ Exact(k, e, pages) /\ Told(k, e, vault, replaced)
  <2>1. InTarget(k, c, pages, c.batches)
    BY <1>1, <1>2 DEF Exact
  <2>2. Tried(k, e, pages) /\ Exact(k, e, pages)
    BY <1>1, <1>2, <1>6, <2>1 DEF Tried, Exact, InTarget, TargetOf
  <2>3. Told(k, e, vault, replaced)
    BY <1>2, <1>6 DEF Told
  <2>4. QED
    BY <2>2, <2>3
<1>8. PICK o \in Note!Outcomes : Note!Hear(k, o, e, d)
  BY <1>0, <1>3 DEF Note!LookUpTitle
<1>9. \/ noteCall' = [noteCall EXCEPT ![k] = Note!Failed(noteCall[k])]
      \/ noteCall' = [noteCall EXCEPT ![k] = d]
      \/ noteCall' = [noteCall EXCEPT ![k] = e]
  BY <1>8, Heard
<1>10. \E x \in {d, e, f} : noteCall' = [noteCall EXCEPT ![k] = x]
  BY <1>0, <1>3, <1>9
<1>11. ASSUME NEW x \in {d, e, f}, noteCall' = [noteCall EXCEPT ![k] = x] PROVE NoteInv'
  <2>1. x \in NoteCall /\ Tried(k, x, pages) /\ Exact(k, x, pages) /\ Told(k, x, vault, replaced)
    BY <1>4, <1>5, <1>6, <1>7
  <2>2. QED
    BY <1>1, <1>2, <1>11, <2>1, SameItself, CallMoves
<1>12. QED
  BY <1>10, <1>11

LEMMA AppendSynced == ASSUME NoteInv, NEW k \in Writer, Note!SyncAppend(k) PROVE NoteInv'
<1>0. PICK c : c = noteCall[k]
  OBVIOUS
<1>1. c.kind = "append" /\ c.pc = "sync" /\ pages' = pages
  BY <1>0 DEF Note!SyncAppend, Note!At
<1>2. /\ c \in NoteCall /\ PagesTyped(pages) /\ VaultTyped(vault) /\ Tried(k, c, pages)
      /\ Exact(k, c, pages) /\ ~c.synced /\ c.title \in Title
  <2>1. c.title \in Title
    BY <1>0, <1>1 DEF NoteInv, Told
  <2>2. QED
    BY <1>0, <1>1, <2>1, InProgress
<1>3. PICK d, e, f : /\ d = Note!Done(c) /\ e = Note!Done([c EXCEPT !.synced = TRUE])
                     /\ f = Note!Failed(c)
  OBVIOUS
<1>4. /\ d \in NoteCall /\ Tried(k, d, pages) /\ Exact(k, d, pages) /\ \A V, R : Told(k, d, V, R)
      /\ e \in NoteCall /\ Tried(k, e, pages) /\ Exact(k, e, pages)
      /\ \A V, R : (c.markdown => k \in V[c.title].texts) => Told(k, e, V, R)
  BY <1>1, <1>2, <1>3, CopyEnds
<1>5. f \in NoteCall /\ Tried(k, f, pages) /\ Exact(k, f, pages) /\ \A V, R : Told(k, f, V, R)
  BY <1>1, <1>2, <1>3, FailedKeeps
<1>6. \A j \in Writer \ {k} : SamePages(j, pages, pages')
  BY <1>1, SameItself
<1>7. CASE noteCall' = [noteCall EXCEPT ![k] = Note!Done(@)] /\ UNCHANGED <<vault, replaced>>
  BY <1>0, <1>1, <1>2, <1>3, <1>4, <1>6, <1>7, SameItself, CallMoves
<1>8. ASSUME NEW o \in Note!Outcomes,
             Note!Hear(k, o, Note!Done([noteCall[k] EXCEPT !.synced = TRUE]), Note!Done(noteCall[k])),
             IF ~o.taken THEN UNCHANGED <<vault, replaced>> ELSE Note!Extend(noteCall[k].title, k)
      PROVE  NoteInv'
  <2>1. \/ noteCall' = [noteCall EXCEPT ![k] = f]
        \/ noteCall' = [noteCall EXCEPT ![k] = d]
        \/ o.taken = TRUE /\ noteCall' = [noteCall EXCEPT ![k] = e]
    <3>1. \/ noteCall' = [noteCall EXCEPT ![k] = Note!Failed(noteCall[k])]
          \/ noteCall' = [noteCall EXCEPT ![k] = Note!Done(noteCall[k])]
          \/ /\ o.taken = TRUE
             /\ noteCall' = [noteCall EXCEPT ![k] = Note!Done([noteCall[k] EXCEPT !.synced = TRUE])]
      BY <1>8, Heard
    <3>2. QED
      BY <1>0, <1>3, <3>1
  <2>2. /\ VaultTyped(vault') /\ VaultMoves(vault, replaced, vault', replaced')
        /\ o.taken = TRUE => k \in vault'[c.title].texts
    <3>1. CASE o.taken
      <4>1. Note!Extend(c.title, k)
        BY <1>0, <1>8, <3>1
      <4>2. QED
        BY <1>2, <4>1, NoteExtended
    <3>2. CASE ~o.taken
      <4>1. vault' = vault /\ replaced' = replaced
        BY <1>8, <3>2
      <4>2. QED
        BY <1>2, <3>2, <4>1, SameItself
    <3>3. QED
      BY <3>1, <3>2
  <2>3. CASE noteCall' = [noteCall EXCEPT ![k] = f]
    BY <1>1, <1>2, <1>5, <1>6, <2>2, <2>3, CallMoves
  <2>4. CASE noteCall' = [noteCall EXCEPT ![k] = d]
    BY <1>1, <1>2, <1>4, <1>6, <2>2, <2>4, CallMoves
  <2>5. CASE o.taken = TRUE /\ noteCall' = [noteCall EXCEPT ![k] = e]
    <3>1. Told(k, e, vault', replaced')
      BY <1>4, <2>2, <2>5
    <3>2. QED
      BY <1>1, <1>2, <1>4, <1>6, <2>2, <2>5, <3>1, CallMoves
  <2>6. QED
    BY <2>1, <2>3, <2>4, <2>5
<1>9. \/ noteCall' = [noteCall EXCEPT ![k] = Note!Done(@)] /\ UNCHANGED <<vault, replaced>>
      \/ \E o \in Note!Outcomes :
           /\ Note!Hear(k, o, Note!Done([noteCall[k] EXCEPT !.synced = TRUE]), Note!Done(noteCall[k]))
           /\ IF ~o.taken THEN UNCHANGED <<vault, replaced>> ELSE Note!Extend(noteCall[k].title, k)
  BY Zenon DEF Note!SyncAppend
<1>10. QED
  BY <1>7, <1>8, <1>9

LEMMA NoteChanges == ASSUME NoteInv, NEW k \in Writer, Note!ChangeNote(k) PROVE NoteInv'
<1>0. PICK c, t : c = noteCall[k] /\ t = noteCall[k].title
  OBVIOUS
<1>1. /\ c.kind \in {"create_note", "append_content", "delete_note"} /\ c.pc = "request"
      /\ pages' = pages
  BY <1>0 DEF Note!ChangeNote, Note!At, Note!OnNote
<1>2. /\ c \in NoteCall /\ PagesTyped(pages) /\ VaultTyped(vault) /\ Tried(k, c, pages)
      /\ ~c.synced /\ t \in Title /\ t = c.title
  BY <1>0, <1>1, InProgress
<1>3. PICK d, f : d = Note!Done(c) /\ f = Note!Failed(c)
  OBVIOUS
<1>4. d \in NoteCall /\ Tried(k, d, pages) /\ Exact(k, d, pages) /\ \A V, R : Told(k, d, V, R)
  <2>1. /\ d \in NoteCall /\ d.kind = c.kind /\ d.try = c.try /\ d.page = c.page
        /\ d.batches = c.batches /\ d.pc = "ok" /\ d.title = c.title /\ d.synced = c.synced
    BY <1>2, <1>3 DEF Note!Done, NoteCall
  <2>2. Tried(k, d, pages)
    BY <1>2, <2>1 DEF Tried, TargetOf
  <2>3. Exact(k, d, pages) /\ \A V, R : Told(k, d, V, R)
    BY <1>1, <1>2, <2>1 DEF Exact, Told
  <2>4. QED
    BY <2>1, <2>2, <2>3
<1>5. f \in NoteCall /\ Tried(k, f, pages) /\ Exact(k, f, pages) /\ \A V, R : Told(k, f, V, R)
  BY <1>1, <1>2, <1>3, FailedKeeps
<1>6. \A j \in Writer \ {k} : SamePages(j, pages, pages')
  BY <1>1, SameItself
<1>7. CASE Note!Refused(k) /\ UNCHANGED <<vault, replaced>>
  BY <1>0, <1>1, <1>7, Refusal
<1>8. ASSUME NEW o \in Note!Outcomes,
             Note!Hear(k, o, Note!Done(noteCall[k]), Note!Failed(noteCall[k])),
             \/ UNCHANGED <<vault, replaced>>
             \/ Note!Replace(t, {k})
             \/ Note!Extend(t, k)
             \/ vault' = [vault EXCEPT ![t] = Note!NoNote] /\ replaced' = replaced \cup vault[t].texts
      PROVE  NoteInv'
  <2>1. noteCall' = [noteCall EXCEPT ![k] = f] \/ noteCall' = [noteCall EXCEPT ![k] = d]
    <3>1. \/ noteCall' = [noteCall EXCEPT ![k] = Note!Failed(noteCall[k])]
          \/ noteCall' = [noteCall EXCEPT ![k] = Note!Done(noteCall[k])]
      BY <1>8, Heard
    <3>2. QED
      BY <1>0, <1>3, <3>1
  <2>2. VaultTyped(vault') /\ VaultMoves(vault, replaced, vault', replaced')
    <3>1. CASE UNCHANGED <<vault, replaced>>
      BY <1>2, <3>1, SameItself
    <3>2. CASE Note!Replace(t, {k})
      BY <1>2, <3>2, NoteReplaced
    <3>3. CASE Note!Extend(t, k)
      BY <1>2, <3>3, NoteExtended
    <3>4. CASE vault' = [vault EXCEPT ![t] = Note!NoNote] /\ replaced' = replaced \cup vault[t].texts
      BY <1>2, <3>4, NoteDeleted
    <3>5. QED
      BY <1>8, <3>1, <3>2, <3>3, <3>4
  <2>3. CASE noteCall' = [noteCall EXCEPT ![k] = f]
    BY <1>1, <1>2, <1>5, <1>6, <2>2, <2>3, CallMoves
  <2>4. CASE noteCall' = [noteCall EXCEPT ![k] = d]
    BY <1>1, <1>2, <1>4, <1>6, <2>2, <2>4, CallMoves
  <2>5. QED
    BY <2>1, <2>3, <2>4
<1>9. \/ Note!Refused(k) /\ UNCHANGED <<vault, replaced>>
      \/ \E o \in Note!Outcomes :
           /\ Note!Hear(k, o, Note!Done(noteCall[k]), Note!Failed(noteCall[k]))
           /\ \/ UNCHANGED <<vault, replaced>>
              \/ Note!Replace(t, {k})
              \/ Note!Extend(t, k)
              \/ vault' = [vault EXCEPT ![t] = Note!NoNote] /\ replaced' = replaced \cup vault[t].texts
  BY <1>0 DEF Note!ChangeNote
<1>10. QED
  BY <1>7, <1>8, <1>9

LEMMA NoteInit == ASSUME Note!Init PROVE NoteInv
<1>1. /\ pages = <<>> /\ vault = [t \in Title |-> Note!NoNote]
      /\ noteCall = [k \in Writer |-> Note!Fresh]
  BY DEF Note!Init
<1>2. DOMAIN pages = {} /\ PagesTyped(pages)
  BY <1>1 DEF PagesTyped
<1>3. Note!NoNote \in [there : BOOLEAN, texts : SUBSET Writer]
  BY DEF Note!NoNote
<1>4. VaultTyped(vault)
  BY <1>1, <1>3 DEF VaultTyped
<1>5. NoteTyped
  BY <1>1, <1>2, <1>4, FreshIs DEF NoteTyped
<1>6. ASSUME NEW k \in Writer
      PROVE  /\ Tried(k, noteCall[k], pages) /\ Exact(k, noteCall[k], pages)
             /\ Told(k, noteCall[k], vault, replaced)
  <2>1. PICK c : c = noteCall[k] /\ c.kind = "create" /\ c.pc = "idle" /\ ~c.synced
    BY <1>1, FreshIs
  <2>2. Tried(k, c, pages) /\ Exact(k, c, pages) /\ Told(k, c, vault, replaced)
    BY <1>2, <2>1 DEF Tried, Exact, Told, Untouched
  <2>3. QED
    BY <2>1, <2>2
<1>7. QED
  BY <1>5, <1>6 DEF NoteInv

LEMMA NoteStep == ASSUME NoteInv, [Note!Next]_noteVars PROVE NoteInv'
<1>1. CASE UNCHANGED noteVars
  <2>1. pages' = pages /\ vault' = vault /\ noteCall' = noteCall /\ replaced' = replaced
    BY <1>1 DEF noteVars
  <2>2. NoteTyped'
    BY <2>1 DEF NoteInv, NoteTyped, PagesTyped, VaultTyped, NoteCall, NotePage, NoteBlock, Note!NoPage
  <2>3. QED
    BY <2>1, <2>2 DEF NoteInv
<1>2. ASSUME NEW k \in Writer,
             \/ Note!Execute(k) \/ Note!PostPage(k) \/ Note!AppendBatch(k) \/ Note!ChangePage(k)
             \/ Note!SyncNew(k) \/ Note!LookUpTitle(k) \/ Note!SyncAppend(k) \/ Note!ChangeNote(k)
      PROVE  NoteInv'
  BY <1>2, NoteExecutes, PagePosts, BatchAppended, PageChanges, NewSynced, TitleLookedUp,
     AppendSynced, NoteChanges
<1>3. QED
  BY <1>1, <1>2 DEF Note!Next

LEMMA NoteSound == ASSUME NoteInv PROVE ReportedTextThere
<1>1. ASSUME NEW k, NEW try, NEW p, NEW m \in Nat, Counted(pages[p].body, k, try, m)
      PROVE  Note!Numbered(k, try, p, m)
  <2>1. \A i : i \in Note!Places(k, try, p) <=> i \in DOMAIN pages[p].body /\ Its(pages[p].body, k, try, i)
    BY DEF Note!Places, Its
  <2>2. {pages[p].body[i].n : i \in Note!Places(k, try, p)} = 1..m
    BY <1>1, <2>1 DEF Counted
  <2>3. \A i, j \in Note!Places(k, try, p) : i < j => pages[p].body[i].n < pages[p].body[j].n
    BY <1>1, <2>1 DEF Counted
  <2>4. QED
    BY <2>2, <2>3 DEF Note!Numbered
<1>2. Retries \in Nat /\ \A try \in 1..(Retries + 1) : try \in Nat
  BY KeepingAssumption DEF Note!SyncAssumption
<1>3. ASSUME NEW k \in Writer, noteCall[k].kind \in {"create", "append"},
             NEW try \in 1..(Retries + 1), NEW p,
             p = IF noteCall[k].kind = "create" THEN <<k, try>> ELSE noteCall[k].page
      PROVE  /\ p \in DOMAIN pages => \E m \in 0..noteCall[k].batches : Note!Numbered(k, try, p, m)
             /\ noteCall[k].pc = "ok" /\ noteCall[k].try = try =>
                  p \in DOMAIN pages /\ Note!Numbered(k, try, p, noteCall[k].batches)
  <2>1. PICK c : c = noteCall[k] /\ Tried(k, c, pages) /\ Exact(k, c, pages) /\ c \in NoteCall
    BY DEF NoteInv, NoteTyped
  <2>2. p = TargetOf(k, c, try) /\ c.batches \in Nat /\ \A m \in 0..c.batches : m \in Nat
    BY <1>3, <2>1 DEF TargetOf, NoteCall
  <2>3. ASSUME p \in DOMAIN pages PROVE \E m \in 0..c.batches : Note!Numbered(k, try, p, m)
    <3>1. PICK m \in 0..c.batches : Counted(pages[p].body, k, try, m)
      BY <1>2, <1>3, <2>1, <2>2, <2>3 DEF Tried
    <3>2. QED
      BY <1>1, <2>2, <3>1
  <2>4. ASSUME c.pc = "ok", c.try = try PROVE p \in DOMAIN pages /\ Note!Numbered(k, try, p, c.batches)
    <3>1. p \in DOMAIN pages /\ Counted(pages[p].body, k, try, c.batches)
      BY <1>3, <2>1, <2>2, <2>4 DEF Exact, InTarget
    <3>2. QED
      BY <1>1, <2>2, <3>1
  <2>5. QED
    BY <2>1, <2>3, <2>4
<1>4. ASSUME NEW k \in Writer, noteCall[k].synced, noteCall[k].markdown
      PROVE  k \in vault[noteCall[k].title].texts \cup replaced
  BY <1>4 DEF NoteInv, Told
<1>5. QED
  BY <1>3, <1>4 DEF ReportedTextThere, Note!ReportedTextThere

-----------------------------------------------------------------------------
(* The stream of a model.  Between two events, the answer is the one to the  *)
(* blocks before the one that comes, and the arguments of that one are those *)
(* whose pieces have come.                                                   *)
ModelMessage == [blocks : Seq(Model!Block \cup {"half"}), reason : Model!Reason]

CallLegible(x) == Model!Legible(x.block, x.arguments, Model!Arguments(said.blocks[x.block]))

ReadBefore(i) ==
  /\ Model!Lists(text, {j \in Model!TextPlaces(said) : j < i})
  /\ \A k \in DOMAIN text : Model!Legible(text[k].block, text[k].what, "full")
  /\ Model!Lists(calls, {j \in Model!CallPlaces(said) : j < i})
  /\ \A k \in DOMAIN calls : CallLegible(calls[k])

PiecesRead(i, j) ==
  /\ j = 1 => DOMAIN inputs = {}
  /\ j > 1 => i \in Model!CallPlaces(said) /\ provider = "anthropic" /\ DOMAIN inputs = {i}
  /\ j > 1 => /\ inputs[i] \in [pieces : Seq({"left", "right"}), what : {"full", "garbled"}]
              /\ inputs[i].what = "garbled" => i \in garbled
  /\ j = 2 => inputs[i].pieces = <<>>
  /\ j = 3 => inputs[i].pieces = <<"left">>
  /\ j = 4 => inputs[i].pieces = <<"left", "right">> /\ said.blocks[i] = "call"
  /\ j <= 4

LastReason ==
  stop = IF provider = "anthropic" \/ said.reason = "max_tokens" THEN said.reason ELSE "end_turn"

Reading ==
  /\ wire \in [block : Nat \ {0}, piece : Nat \ {0}]
  /\ wire.block <= Len(said.blocks) + 2
  /\ wire.block > Len(said.blocks) => wire.piece = 1
  /\ ReadBefore(wire.block) /\ PiecesRead(wire.block, wire.piece)
  /\ wire.block = Len(said.blocks) + 2 => LastReason
  /\ half => ~Model!Exhausted

ModelInv ==
  /\ provider \in {"anthropic", "ollama"} /\ cutShort \in BOOLEAN
  /\ text \in Seq([block : Nat, what : {"full", "garbled"}])
  /\ calls \in Seq([block : Nat, arguments : {"full", "none", "garbled"}])
  /\ cutShort => provider = "anthropic"
  /\ phase \in {"chat", "stream"} => said \in ModelMessage
  /\ phase \in {"start", "chat"} =>
       /\ wire = [block |-> 1, piece |-> 1] /\ ~half /\ ~cutShort
       /\ DOMAIN inputs = {} /\ text = <<>> /\ calls = <<>>
  /\ phase = "stream" => Reading
  /\ StreamReadsAnswer

(* A list goes on with a piece of a later block.                            *)
LEMMA ListGoesOn ==
  ASSUME NEW S, NEW list \in Seq(S), NEW P \in SUBSET Nat, NEW x \in S, x.block \in Nat,
         \A j \in P : j < x.block, Model!Lists(list, P)
  PROVE  Model!Lists(Append(list, x), P \cup {x.block})
<1>1. PICK d, n : d = Append(list, x) /\ n = Len(list) + 1
  OBVIOUS
<1>2. /\ n \in Nat /\ DOMAIN list = 1..(n - 1) /\ DOMAIN d = 1..n /\ d[n] = x
      /\ \A k \in DOMAIN list : k \in DOMAIN d /\ d[k] = list[k] /\ k < n
      /\ \A k \in DOMAIN d : k = n \/ (k \in DOMAIN list /\ k < n)
      /\ n \in DOMAIN d
  BY <1>1
<1>3. /\ P = {list[k].block : k \in DOMAIN list}
      /\ \A k, l \in DOMAIN list : k < l => list[k].block < list[l].block
  BY DEF Model!Lists
<1>4. {d[k].block : k \in DOMAIN d} = P \cup {x.block}
  <2>1. ASSUME NEW k \in DOMAIN d PROVE d[k].block \in P \cup {x.block}
    BY <1>2, <1>3
  <2>2. ASSUME NEW j \in P PROVE \E k \in DOMAIN d : j = d[k].block
    <3>1. PICK k \in DOMAIN list : j = list[k].block
      BY <1>3
    <3>2. QED
      BY <1>2, <3>1
  <2>3. \E k \in DOMAIN d : x.block = d[k].block
    BY <1>2
  <2>4. QED
    BY <2>1, <2>2, <2>3
<1>5. ASSUME NEW k \in DOMAIN d, NEW l \in DOMAIN d, k < l PROVE d[k].block < d[l].block
  <2>1. k \in DOMAIN list /\ d[k] = list[k]
    <3>1. k \in 1..n /\ l \in 1..n
      BY <1>2
    <3>2. k # n
      BY <1>2, <1>5, <3>1
    <3>3. QED
      BY <1>2, <3>2
  <2>2. CASE l = n
    <3>1. d[k].block \in P /\ d[l].block = x.block
      BY <1>2, <1>3, <2>1, <2>2
    <3>2. QED
      BY <3>1
  <2>3. CASE l # n
    BY <1>2, <1>3, <1>5, <2>1, <2>3
  <2>4. QED
    BY <2>2, <2>3
<1>6. QED
  BY <1>1, <1>4, <1>5 DEF Model!Lists

(* The blocks of a message that a piece may come from.                      *)
LEMMA PlacesAre ==
  ASSUME said \in ModelMessage
  PROVE  /\ Len(said.blocks) \in Nat /\ DOMAIN said.blocks = 1..Len(said.blocks)
         /\ Model!TextPlaces(said) \subseteq 1..Len(said.blocks)
         /\ Model!CallPlaces(said) \subseteq 1..Len(said.blocks)
         /\ \A i \in DOMAIN said.blocks : i \in Model!TextPlaces(said) \/ i \in Model!CallPlaces(said)
         /\ \A i \in Model!TextPlaces(said) : /\ i \notin Model!CallPlaces(said)
                                              /\ said.blocks[i] = "text"
         /\ \A i \in Model!CallPlaces(said) : said.blocks[i] \in {"call", "half"}
         /\ said.reason \in {"end_turn", "max_tokens", "tool_use"}
<1>1. said.blocks \in Seq({"text", "call", "half"}) /\ said.reason \in Model!Reason
  BY DEF ModelMessage, Model!Block
<1>2. \A i \in DOMAIN said.blocks : said.blocks[i] \in {"text", "call", "half"}
  BY <1>1
<1>3. Len(said.blocks) \in Nat /\ DOMAIN said.blocks = 1..Len(said.blocks)
  BY <1>1
<1>4. QED
  BY <1>1, <1>2, <1>3 DEF Model!TextPlaces, Model!CallPlaces, Model!Reason

(* Which event comes next tells which block it is of and how many are read. *)
LEMMA EventsAre ==
  ASSUME said \in ModelMessage, NEW i \in Nat \ {0}, NEW e, e = Model!Events(i)
  PROVE  \/ i \notin DOMAIN said.blocks /\ e = <<"end">>
         \/ i \in Model!TextPlaces(said) /\ e = <<"text">>
         \/ /\ i \in Model!CallPlaces(said)
            /\ \/ provider = "ollama" /\ e = <<"call">>
               \/ /\ provider # "ollama" /\ said.blocks[i] = "call"
                  /\ e = <<"start", "left", "right", "stop">>
               \/ /\ provider # "ollama" /\ said.blocks[i] = "half"
                  /\ e = <<"start", "left", "stop">>
<1>1. CASE i \notin DOMAIN said.blocks
  BY <1>1, PlacesAre DEF Model!Events
<1>2. CASE i \in Model!TextPlaces(said)
  <2>1. i \in DOMAIN said.blocks
    BY <1>2, PlacesAre
  <2>2. QED
    BY <1>2, <2>1, PlacesAre DEF Model!Events
<1>3. CASE i \in Model!CallPlaces(said)
  <2>1. i \in DOMAIN said.blocks /\ i \notin Model!TextPlaces(said)
        /\ said.blocks[i] \in {"call", "half"}
    BY <1>3, PlacesAre
  <2>2. e = IF provider = "ollama" THEN <<"call">>
            ELSE IF said.blocks[i] = "call" THEN <<"start", "left", "right", "stop">>
            ELSE <<"start", "left", "stop">>
    BY <1>3, <2>1 DEF Model!Events
  <2>3. QED
    BY <1>3, <2>1, <2>2
<1>4. QED
  BY <1>1, <1>2, <1>3, PlacesAre

EventFacts(i, j, n, e, v) ==
  /\ i \in 1..(Len(said.blocks) + 1) /\ j \in 1..4 /\ n \in 1..4
  /\ \/ e = "end" /\ i = Len(said.blocks) + 1 /\ j = 1 /\ n = 1
     \/ e = "text" /\ i \in Model!TextPlaces(said) /\ j = 1 /\ n = 1
     \/ /\ i \in Model!CallPlaces(said)
        /\ \/ e = "call" /\ provider = "ollama" /\ j = 1 /\ n = 1
           \/ /\ provider # "ollama"
              /\ \/ e = "start" /\ j = 1 /\ n >= 3
                 \/ e = "left" /\ j = 2 /\ n >= 3
                 \/ e = "right" /\ j = 3 /\ n = 4 /\ v = "call"
                 \/ e = "stop" /\ j = 3 /\ n = 3 /\ v = "half"
                 \/ e = "stop" /\ j = 4 /\ n = 4 /\ v = "call"

LEMMA EventIs ==
  ASSUME said \in ModelMessage, Reading, ~Model!Exhausted,
         NEW i, NEW j, NEW n, NEW e, NEW v, i = wire.block, j = wire.piece,
         n = Len(Model!Events(i)), e = Model!Event, v = said.blocks[i]
  PROVE  EventFacts(i, j, n, e, v)
<1> USE DEF EventFacts
<1>1. /\ i \in Nat \ {0} /\ j \in 1..4 /\ i <= Len(said.blocks) + 1 /\ Len(said.blocks) \in Nat
      /\ i > Len(said.blocks) => j = 1
      /\ j > 1 => i \in Model!CallPlaces(said) /\ provider = "anthropic"
      /\ j = 4 => said.blocks[i] = "call"
  BY PlacesAre DEF Reading, PiecesRead, Model!Exhausted
<1>2. i \in 1..(Len(said.blocks) + 1)
  BY <1>1
<1>3. PICK f : f = Model!Events(i) /\ e = f[j] /\ n = Len(f)
  BY DEF Model!Event
<1>4. CASE i \notin DOMAIN said.blocks /\ f = <<"end">>
  BY <1>1, <1>2, <1>3, <1>4, PlacesAre
<1>5. CASE i \in Model!TextPlaces(said) /\ f = <<"text">>
  <2>1. j = 1
    BY <1>1, <1>5, PlacesAre
  <2>2. QED
    BY <1>2, <1>3, <1>5, <2>1
<1>6. CASE i \in Model!CallPlaces(said) /\ provider = "ollama" /\ f = <<"call">>
  <2>1. j = 1
    BY <1>1, <1>6
  <2>2. QED
    BY <1>2, <1>3, <1>6, <2>1
<1>7. CASE /\ i \in Model!CallPlaces(said) /\ provider # "ollama" /\ v = "call"
           /\ f = <<"start", "left", "right", "stop">>
  <2>1. n = 4 /\ f[1] = "start" /\ f[2] = "left" /\ f[3] = "right" /\ f[4] = "stop"
    BY <1>3, <1>7
  <2>2. j = 1 \/ j = 2 \/ j = 3 \/ j = 4
    BY <1>1
  <2>3. QED
    BY <1>1, <1>2, <1>3, <1>7, <2>1, <2>2
<1>8. CASE /\ i \in Model!CallPlaces(said) /\ provider # "ollama" /\ v = "half"
           /\ f = <<"start", "left", "stop">>
  <2>1. n = 3 /\ f[1] = "start" /\ f[2] = "left" /\ f[3] = "stop"
    BY <1>3, <1>8
  <2>2. j = 1 \/ j = 2 \/ j = 3
    BY <1>1, <1>8
  <2>3. QED
    BY <1>1, <1>2, <1>3, <1>8, <2>1, <2>2
<1>9. QED
  BY <1>1, <1>3, <1>4, <1>5, <1>6, <1>7, <1>8, EventsAre

TextPiece == [block : Nat, what : {"full", "garbled"}]
CallPiece == [block : Nat, arguments : {"full", "none", "garbled"}]

(* What was legible stays so.                                               *)
LEMMA LegibleStays ==
  ASSUME garbled \subseteq garbled', NEW i, NEW read, NEW whole, Model!Legible(i, read, whole)
  PROVE  Model!Legible(i, read, whole)'
BY DEF Model!Legible

LEMMA PlacesUpTo ==
  ASSUME NEW P \in SUBSET Nat, NEW i \in Nat
  PROVE  {j \in P : j < i + 1} = {j \in P : j < i} \cup (IF i \in P THEN {i} ELSE {})
<1>1. ASSUME NEW j \in P PROVE j < i + 1 <=> (j < i \/ j = i)
  <2>1. j \in Nat
    OBVIOUS
  <2>2. QED
    BY <2>1
<1>2. CASE i \in P
  BY <1>1, <1>2
<1>3. CASE i \notin P
  <2>1. \A j \in P : j < i + 1 <=> j < i
    BY <1>1, <1>3
  <2>2. QED
    BY <1>3, <2>1
<1>4. QED
  BY <1>2, <1>3

(* A text is read: its piece is of the block that comes, as it was said or  *)
(* garbled.                                                                 *)
LEMMA TextReadOn ==
  ASSUME ModelInv, said \in ModelMessage, NEW i \in Model!TextPlaces(said), ReadBefore(i),
         NEW cut \in BOOLEAN, Model!AddText(i, cut), said' = said
  PROVE  /\ ReadBefore(i + 1)'
         /\ text' \in Seq(TextPiece) /\ calls' = calls /\ inputs' = inputs
<1>1. PICK w, x : w = Model!Decoded("full", cut) /\ x = [block |-> i, what |-> w]
  OBVIOUS
<1>2. /\ text' = Append(text, x) /\ garbled' = (IF cut THEN garbled \cup {i} ELSE garbled)
      /\ inputs' = inputs /\ calls' = calls
  BY <1>1 DEF Model!AddText, Model!Lost
<1>3. /\ i \in Nat /\ i \notin Model!CallPlaces(said)
      /\ Model!TextPlaces(said) \in SUBSET Nat /\ Model!CallPlaces(said) \in SUBSET Nat
  BY PlacesAre
<1>4. w \in {"full", "garbled"} /\ x \in TextPiece /\ x.block = i /\ x.what = w
  BY <1>1, <1>3 DEF TextPiece, Model!Decoded
<1>5. text \in Seq(TextPiece)
  BY DEF ModelInv, TextPiece
<1>6. garbled \subseteq garbled' /\ (w = "full" \/ i \in garbled')
  BY <1>1, <1>2 DEF Model!Decoded
<1>7. Model!Lists(text', {j \in Model!TextPlaces(said) : j < i + 1})
  <2>1. PICK P \in SUBSET Nat : P = {j \in Model!TextPlaces(said) : j < i}
    BY <1>3
  <2>2. Model!Lists(text, P) /\ \A j \in P : j < x.block
    BY <1>4, <2>1 DEF ReadBefore
  <2>3. Model!Lists(Append(text, x), P \cup {x.block})
    BY <1>3, <1>4, <1>5, <2>2, ListGoesOn
  <2>4. P \cup {x.block} = {j \in Model!TextPlaces(said) : j < i + 1}
    BY <1>3, <1>4, <2>1, PlacesUpTo
  <2>5. QED
    BY <1>2, <2>3, <2>4
<1>8. {j \in Model!CallPlaces(said) : j < i + 1} = {j \in Model!CallPlaces(said) : j < i}
  BY <1>3, PlacesUpTo
<1>9. ASSUME NEW k \in DOMAIN text'
      PROVE  Model!Legible(text[k].block, text[k].what, "full")'
  <2>1. (k \in DOMAIN text /\ text'[k] = text[k]) \/ text'[k] = x
    BY <1>2, <1>4, <1>5
  <2>2. CASE k \in DOMAIN text /\ text'[k] = text[k]
    <3>1. Model!Legible(text[k].block, text[k].what, "full")
      BY <2>2 DEF ReadBefore
    <3>2. QED
      BY <1>6, <2>2, <3>1 DEF Model!Legible
  <2>3. CASE text'[k] = x
    BY <1>4, <1>6, <2>3 DEF Model!Legible
  <2>4. QED
    BY <2>1, <2>2, <2>3
<1>10. Model!Lists(calls', {j \in Model!CallPlaces(said) : j < i + 1})
  BY <1>2, <1>8 DEF ReadBefore
<1>11. ASSUME NEW k \in DOMAIN calls' PROVE CallLegible(calls[k])'
  <2>1. k \in DOMAIN calls /\ CallLegible(calls[k])
    BY <1>2, <1>11 DEF ReadBefore
  <2>2. QED
    BY <1>2, <1>6, <2>1 DEF CallLegible, Model!Legible, Model!Arguments
<1>12. ReadBefore(i + 1)'
  <2>1. /\ {j \in Model!TextPlaces(said') : j < i + 1} = {j \in Model!TextPlaces(said) : j < i + 1}
        /\ {j \in Model!CallPlaces(said') : j < i + 1} = {j \in Model!CallPlaces(said) : j < i + 1}
    OBVIOUS
  <2>2. QED
    BY <1>7, <1>9, <1>10, <1>11, <2>1 DEF ReadBefore, Model!Lists
<1>13. QED
  BY <1>2, <1>4, <1>5, <1>12

(* A call is read, with its own arguments or with a character of them lost. *)
LEMMA CallReadOn ==
  ASSUME ModelInv, said \in ModelMessage, NEW i \in Model!CallPlaces(said), ReadBefore(i),
         NEW a, a \in {"full", "none", "garbled"}, garbled \subseteq garbled',
         Model!Legible(i, a, Model!Arguments(said.blocks[i]))',
         Model!AddCall(i, a), said' = said
  PROVE  /\ ReadBefore(i + 1)'
         /\ calls' \in Seq(CallPiece) /\ text' = text
<1>1. PICK x : x = [block |-> i, arguments |-> a]
  OBVIOUS
<1>2. calls' = Append(calls, x) /\ text' = text
  BY <1>1 DEF Model!AddCall
<1>3. /\ i \in Nat /\ i \notin Model!TextPlaces(said)
      /\ Model!TextPlaces(said) \in SUBSET Nat /\ Model!CallPlaces(said) \in SUBSET Nat
  BY PlacesAre
<1>4. x \in CallPiece /\ x.block = i /\ x.arguments = a
  BY <1>1, <1>3 DEF CallPiece
<1>5. calls \in Seq(CallPiece)
  BY DEF ModelInv, CallPiece
<1>6. Model!Lists(calls', {j \in Model!CallPlaces(said) : j < i + 1})
  <2>1. PICK P \in SUBSET Nat : P = {j \in Model!CallPlaces(said) : j < i}
    BY <1>3
  <2>2. Model!Lists(calls, P) /\ \A j \in P : j < x.block
    BY <1>4, <2>1 DEF ReadBefore
  <2>3. Model!Lists(Append(calls, x), P \cup {x.block})
    BY <1>3, <1>4, <1>5, <2>2, ListGoesOn
  <2>4. P \cup {x.block} = {j \in Model!CallPlaces(said) : j < i + 1}
    BY <1>3, <1>4, <2>1, PlacesUpTo
  <2>5. QED
    BY <1>2, <2>3, <2>4
<1>7. {j \in Model!TextPlaces(said) : j < i + 1} = {j \in Model!TextPlaces(said) : j < i}
  BY <1>3, PlacesUpTo
<1>8. ASSUME NEW k \in DOMAIN calls' PROVE CallLegible(calls[k])'
  <2>1. (k \in DOMAIN calls /\ calls'[k] = calls[k]) \/ calls'[k] = x
    BY <1>2, <1>4, <1>5
  <2>2. CASE k \in DOMAIN calls /\ calls'[k] = calls[k]
    <3>1. CallLegible(calls[k])
      BY <2>2 DEF ReadBefore
    <3>2. QED
      BY <2>2, <3>1 DEF CallLegible, Model!Legible, Model!Arguments
  <2>3. CASE calls'[k] = x
    BY <1>4, <2>3 DEF CallLegible, Model!Legible, Model!Arguments
  <2>4. QED
    BY <2>1, <2>2, <2>3
<1>9. Model!Lists(text', {j \in Model!TextPlaces(said) : j < i + 1})
  BY <1>2, <1>7 DEF ReadBefore
<1>10. ASSUME NEW k \in DOMAIN text'
       PROVE  Model!Legible(text[k].block, text[k].what, "full")'
  <2>1. Model!Legible(text[k].block, text[k].what, "full")
    BY <1>2, <1>10 DEF ReadBefore
  <2>2. QED
    BY <1>2, <2>1 DEF Model!Legible
<1>11. ReadBefore(i + 1)'
  <2>1. /\ {j \in Model!TextPlaces(said') : j < i + 1} = {j \in Model!TextPlaces(said) : j < i + 1}
        /\ {j \in Model!CallPlaces(said') : j < i + 1} = {j \in Model!CallPlaces(said) : j < i + 1}
    OBVIOUS
  <2>2. QED
    BY <1>6, <1>8, <1>9, <1>10, <2>1 DEF ReadBefore, Model!Lists
<1>12. QED
  BY <1>2, <1>4, <1>5, <1>11

(* Neither: the answer so far stays, to the end of a block without a piece. *)
LEMMA NoneReadOn ==
  ASSUME NEW i, ReadBefore(i), garbled \subseteq garbled', UNCHANGED <<said, text, calls>>
  PROVE  ReadBefore(i)'
<1>1. \A k \in DOMAIN text : Model!Legible(text[k].block, text[k].what, "full")'
  BY DEF ReadBefore, Model!Legible
<1>2. \A k \in DOMAIN calls : CallLegible(calls[k])'
  BY DEF ReadBefore, CallLegible, Model!Legible, Model!Arguments
<1>3. QED
  BY <1>1, <1>2 DEF ReadBefore, Model!Lists

LEMMA EndReadOn ==
  ASSUME said \in ModelMessage, NEW i, ReadBefore(i), i = Len(said.blocks) + 1,
         UNCHANGED <<said, text, calls, garbled>>
  PROVE  ReadBefore(i + 1)'
<1>1. /\ i \in Nat /\ i \notin Model!TextPlaces(said) /\ i \notin Model!CallPlaces(said)
      /\ Model!TextPlaces(said) \in SUBSET Nat /\ Model!CallPlaces(said) \in SUBSET Nat
  BY PlacesAre
<1>2. /\ {j \in Model!TextPlaces(said) : j < i + 1} = {j \in Model!TextPlaces(said) : j < i}
      /\ {j \in Model!CallPlaces(said) : j < i + 1} = {j \in Model!CallPlaces(said) : j < i}
  BY <1>1, PlacesUpTo
<1>3. ReadBefore(i + 1)
  BY <1>2 DEF ReadBefore
<1>4. QED
  BY <1>3, NoneReadOn

(* What is left of Reading when the answer has gone on to the next block,   *)
(* or to the next piece of this one.                                        *)
LEMMA BlockDone ==
  ASSUME said \in ModelMessage, NEW i \in 1..(Len(said.blocks) + 1),
         wire' = [block |-> i + 1, piece |-> 1], half' = FALSE,
         said' = said, DOMAIN inputs' = {}, ReadBefore(i + 1)',
         i = Len(said.blocks) + 1 => LastReason'
  PROVE  Reading'
<1>1. /\ wire'.block = i + 1 /\ wire'.piece = 1 /\ Len(said.blocks) \in Nat
      /\ i \in Nat /\ i + 1 \in Nat \ {0} /\ 1 \in Nat \ {0}
  BY PlacesAre
<1>2. wire' \in [block : Nat \ {0}, piece : Nat \ {0}]
  BY <1>1
<1>3. PiecesRead(i + 1, 1)'
  BY DEF PiecesRead
<1>4. QED
  BY <1>1, <1>2, <1>3 DEF Reading

LEMMA PieceDone ==
  ASSUME said \in ModelMessage, Reading, NEW i \in 1..Len(said.blocks), NEW j \in 1..3,
         i = wire.block, wire' = [block |-> i, piece |-> j + 1], half' = FALSE,
         said' = said, PiecesRead(i, j + 1)', UNCHANGED <<text, calls>>,
         garbled \subseteq garbled'
  PROVE  Reading'
<1>1. /\ wire'.block = i /\ wire'.piece = j + 1 /\ Len(said.blocks) \in Nat
      /\ i \in Nat \ {0} /\ j + 1 \in Nat \ {0}
  BY PlacesAre
<1>2. wire' \in [block : Nat \ {0}, piece : Nat \ {0}]
  BY <1>1
<1>3. ReadBefore(i)'
  BY NoneReadOn DEF Reading
<1>4. i <= Len(said.blocks)
  BY <1>1
<1>5. QED
  BY <1>1, <1>2, <1>3, <1>4 DEF Reading

LEMMA TwoPieces == \A a, b : Append(<<a>>, b) = <<a, b>>
<1> TAKE a, b
<1>1. PICK f : f = Append(<<a>>, b)
  OBVIOUS
<1>2. Len(f) = 2 /\ f[1] = a /\ f[2] = b /\ f \in Seq({a, b})
  BY <1>1
<1>3. f = <<f[1], f[2]>>
  BY <1>2
<1>4. QED
  BY <1>1, <1>2, <1>3

(* An event leaves the answer to the blocks before the next one.            *)
LEMMA EventRead ==
  ASSUME ModelInv, NEW cut \in BOOLEAN, Model!ReadSecondHalf(cut)
  PROVE  /\ Reading'
         /\ text' \in Seq(TextPiece) /\ calls' \in Seq(CallPiece)
<1>0. /\ phase = "stream" /\ half /\ half' = FALSE /\ Model!Advance
      /\ said' = said /\ provider' = provider /\ cutShort' = cutShort
      /\ provider = "anthropic" => Model!AnthropicEvent(wire.block, cut)
      /\ provider # "anthropic" => Model!OllamaLine(wire.block, cut)
  BY DEF Model!ReadSecondHalf, Model!requestVars
<1>1. /\ said \in ModelMessage /\ Reading /\ ~Model!Exhausted /\ provider \in {"anthropic", "ollama"}
      /\ text \in Seq(TextPiece) /\ calls \in Seq(CallPiece)
  BY <1>0 DEF ModelInv, Reading, TextPiece, CallPiece
<1>2. PICK i, j, n, e, v : /\ i = wire.block /\ j = wire.piece /\ n = Len(Model!Events(i))
                           /\ e = Model!Event /\ v = said.blocks[i]
  OBVIOUS
<1>3. EventFacts(i, j, n, e, v)
  BY <1>1, <1>2, EventIs
<1> USE DEF EventFacts
<1>4. /\ j < n => wire' = [block |-> i, piece |-> j + 1]
      /\ j = n => wire' = [block |-> i + 1, piece |-> 1]
  <2>1. wire \in [block : Nat \ {0}, piece : Nat \ {0}]
    BY <1>1 DEF Reading
  <2>2. wire = [block |-> i, piece |-> j]
    BY <1>2, <2>1
  <2>3. wire' = IF j < n THEN [wire EXCEPT !.piece = @ + 1] ELSE [block |-> i + 1, piece |-> 1]
    BY <1>0, <1>2 DEF Model!Advance
  <2>4. QED
    BY <1>3, <2>2, <2>3
<1>5. ReadBefore(i) /\ PiecesRead(i, j)
  BY <1>1, <1>2 DEF Reading
<1>6. Len(said.blocks) \in Nat /\ Model!CallPlaces(said) \subseteq 1..Len(said.blocks)
      /\ Model!TextPlaces(said) \subseteq 1..Len(said.blocks)
  BY <1>1, PlacesAre
<1>7. CASE e = "text"
  <2>1. Model!AddText(i, cut)
    BY <1>0, <1>2, <1>7 DEF Model!AnthropicEvent, Model!OllamaLine
  <2>2. i \in Model!TextPlaces(said) /\ j = 1 /\ n = 1 /\ i # Len(said.blocks) + 1
    BY <1>3, <1>6, <1>7
  <2>3. /\ ReadBefore(i + 1)'
        /\ text' \in Seq(TextPiece) /\ calls' = calls /\ inputs' = inputs
    BY <1>0, <1>1, <1>5, <2>1, <2>2, TextReadOn
  <2>4. DOMAIN inputs' = {}
    BY <1>5, <2>2, <2>3 DEF PiecesRead
  <2>5. QED
    BY <1>0, <1>1, <1>3, <1>4, <2>2, <2>3, <2>4, BlockDone
<1>8. CASE e = "end"
  <2>1. /\ UNCHANGED <<inputs, text, calls, garbled>>
        /\ stop' = IF provider = "anthropic" \/ said.reason = "max_tokens" THEN said.reason
                   ELSE "end_turn"
    BY <1>0, <1>2, <1>8 DEF Model!AnthropicEvent, Model!OllamaLine
  <2>2. i = Len(said.blocks) + 1 /\ j = 1 /\ n = 1
    BY <1>3, <1>8
  <2>3. ReadBefore(i + 1)'
    BY <1>0, <1>1, <1>5, <2>1, <2>2, EndReadOn
  <2>4. DOMAIN inputs' = {} /\ LastReason'
    BY <1>0, <1>5, <2>1, <2>2 DEF PiecesRead, LastReason
  <2>5. QED
    BY <1>0, <1>1, <1>3, <1>4, <2>1, <2>2, <2>3, <2>4, BlockDone
<1>9. CASE e = "call"
  <2>1. /\ i \in Model!CallPlaces(said) /\ provider = "ollama" /\ j = 1 /\ n = 1
        /\ i # Len(said.blocks) + 1
    BY <1>3, <1>6, <1>9
  <2>a. PICK a : a = Model!Decoded(Model!Arguments(said.blocks[i]), cut)
    OBVIOUS
  <2>2. Model!AddCall(i, a) /\ inputs' = inputs /\ Model!Lost(i, cut)
    BY <1>0, <1>2, <1>9, <2>1, <2>a DEF Model!OllamaLine
  <2>b. /\ garbled \subseteq garbled' /\ a \in {"full", "none", "garbled"}
        /\ Model!Legible(i, a, Model!Arguments(said.blocks[i]))'
    BY <1>0, <2>2, <2>a DEF Model!Lost, Model!Legible, Model!Decoded, Model!Arguments
  <2>3. /\ ReadBefore(i + 1)' /\ calls' \in Seq(CallPiece) /\ text' = text
    BY <1>0, <1>1, <1>5, <2>1, <2>2, <2>b, CallReadOn
  <2>4. DOMAIN inputs' = {}
    BY <1>5, <2>1, <2>2 DEF PiecesRead
  <2>5. QED
    BY <1>0, <1>1, <1>3, <1>4, <2>1, <2>3, <2>4, BlockDone
<1>10. CASE e \in {"start", "left", "right"}
  <2>1. /\ i \in Model!CallPlaces(said) /\ provider = "anthropic" /\ j < n /\ j \in 1..3
        /\ i \in 1..Len(said.blocks)
    BY <1>1, <1>3, <1>6, <1>10
  <2>2. UNCHANGED <<text, calls>> /\ garbled \subseteq garbled'
    BY <1>0, <1>2, <1>10, <2>1 DEF Model!AnthropicEvent, Model!Lost
  <2>3. ASSUME e = "start" PROVE PiecesRead(i, j + 1)'
    <3>1. /\ j = 1
          /\ inputs' = [k \in DOMAIN inputs \cup {i} |->
                          IF k = i THEN [pieces |-> <<>>, what |-> "full"] ELSE inputs[k]]
      BY <1>0, <1>2, <1>3, <2>1, <2>3 DEF Model!AnthropicEvent, Model!Opened
    <3>2. DOMAIN inputs = {}
      BY <1>5, <3>1 DEF PiecesRead
    <3>3. DOMAIN inputs' = {i} /\ inputs'[i] = [pieces |-> <<>>, what |-> "full"]
      BY <3>1, <3>2
    <3>4. /\ inputs'[i] \in [pieces : Seq({"left", "right"}), what : {"full", "garbled"}]
          /\ inputs'[i].what = "full" /\ inputs'[i].pieces = <<>>
      BY <3>3
    <3>5. QED
      BY <1>0, <2>1, <3>1, <3>3, <3>4 DEF PiecesRead
  <2>g. ASSUME e \in {"left", "right"}
        PROVE  /\ DOMAIN inputs = {i} /\ DOMAIN inputs' = {i}
               /\ inputs'[i] \in [pieces : Seq({"left", "right"}), what : {"full", "garbled"}]
               /\ inputs'[i].what = "garbled" => i \in garbled'
               /\ inputs'[i].pieces = Append(inputs[i].pieces, e)
    <3>1. /\ inputs' = [inputs EXCEPT ![i].pieces = Append(@, e),
                                     ![i].what = Model!Decoded(@, cut)]
          /\ garbled' = (IF cut THEN garbled \cup {i} ELSE garbled)
      BY <1>0, <1>2, <2>1, <2>g DEF Model!AnthropicEvent, Model!Lost
    <3>2. /\ DOMAIN inputs = {i} /\ (inputs[i].what = "garbled" => i \in garbled)
          /\ inputs[i] \in [pieces : Seq({"left", "right"}), what : {"full", "garbled"}]
      BY <1>3, <1>5, <2>g DEF PiecesRead
    <3>3. PICK d, ps, w : d = inputs[i] /\ ps = Append(d.pieces, e) /\ w = Model!Decoded(d.what, cut)
      OBVIOUS
    <3>4. ps \in Seq({"left", "right"}) /\ w \in {"full", "garbled"}
      BY <2>g, <3>2, <3>3 DEF Model!Decoded
    <3>5. inputs'[i] = [pieces |-> ps, what |-> w] /\ DOMAIN inputs' = {i}
      BY <3>1, <3>2, <3>3
    <3>6. w = "garbled" => i \in garbled'
      BY <3>1, <3>2, <3>3 DEF Model!Decoded
    <3>7. QED
      BY <3>2, <3>3, <3>4, <3>5, <3>6
  <2>4. ASSUME e = "left" PROVE PiecesRead(i, j + 1)'
    <3>1. j = 2
      BY <1>3, <2>4
    <3>2. inputs[i].pieces = <<>>
      BY <1>5, <3>1 DEF PiecesRead
    <3>3. inputs'[i].pieces = <<"left">>
      <4>1. Append(<<>>, "left") = <<"left">>
        OBVIOUS
      <4>2. QED
        BY <2>4, <2>g, <3>2, <4>1, Zenon
    <3>4. QED
      BY <1>0, <2>1, <2>4, <2>g, <3>1, <3>3 DEF PiecesRead
  <2>5. ASSUME e = "right" PROVE PiecesRead(i, j + 1)'
    <3>1. j = 3 /\ v = "call"
      BY <1>3, <2>5
    <3>2. inputs[i].pieces = <<"left">>
      BY <1>5, <3>1 DEF PiecesRead
    <3>4. Append(<<"left">>, "right") = <<"left", "right">>
      BY TwoPieces
    <3>5. inputs'[i].pieces = <<"left", "right">>
      BY <2>5, <2>g, <3>2, <3>4, Zenon
    <3>6. /\ said'.blocks[i] = "call" /\ i \in Model!CallPlaces(said') /\ provider' = "anthropic"
      BY <1>0, <1>2, <2>1, <3>1, Zenon
    <3>7. PICK m : m = j + 1 /\ m = 4
      BY <3>1
    <3>8. PiecesRead(i, m)'
      <4>1. m # 1 /\ m # 2 /\ m # 3 /\ m <= 4
        BY <3>7
      <4>2. QED
        BY <2>5, <2>g, <3>5, <3>6, <4>1, Zenon DEF PiecesRead
    <3>9. QED
      BY <3>7, <3>8
  <2>6. PiecesRead(i, j + 1)'
    BY <1>10, <2>3, <2>4, <2>5
  <2>7. Reading'
    BY <1>0, <1>1, <1>2, <1>4, <2>1, <2>2, <2>6, PieceDone
  <2>8. QED
    BY <1>1, <2>2, <2>7
<1>11. CASE e = "stop"
  <2>1. /\ i \in Model!CallPlaces(said) /\ provider = "anthropic" /\ j = n
        /\ i # Len(said.blocks) + 1
        /\ (j = 3 /\ v = "half") \/ (j = 4 /\ v = "call")
    BY <1>1, <1>3, <1>6, <1>11
  <2>a. PICK a : a = Model!Gathered(inputs[i])
    OBVIOUS
  <2>2. /\ inputs' = [k \in DOMAIN inputs \ {i} |-> inputs[k]]
        /\ Model!AddCall(i, a) /\ garbled' = garbled
    BY <1>0, <1>2, <1>11, <2>1, <2>a DEF Model!AnthropicEvent, Model!Closed
  <2>3. /\ DOMAIN inputs = {i} /\ (inputs[i].what = "garbled" => i \in garbled)
        /\ inputs[i].what \in {"full", "garbled"}
        /\ (v = "half" /\ inputs[i].pieces = <<"left">>)
           \/ (v = "call" /\ inputs[i].pieces = <<"left", "right">>)
    BY <1>5, <2>1 DEF PiecesRead
  <2>4. DOMAIN inputs' = {}
    BY <2>2, <2>3
  <2>5. a \in {"full", "none", "garbled"} /\ Model!Legible(i, a, Model!Arguments(said.blocks[i]))'
    <3>1. <<"left">> # <<"left", "right">>
      OBVIOUS
    <3>2. CASE v = "half"
      <4>1. a = "none" /\ Model!Arguments(said.blocks[i]) = "none"
        BY <1>2, <2>3, <2>a, <3>1, <3>2 DEF Model!Gathered, Model!Arguments
      <4>2. QED
        BY <1>0, <4>1 DEF Model!Legible, Model!Arguments
    <3>3. CASE v = "call"
      <4>1. /\ a = "full" \/ (a = "garbled" /\ i \in garbled)
            /\ Model!Arguments(said.blocks[i]) = "full"
        BY <1>2, <2>3, <2>a, <3>3 DEF Model!Gathered, Model!Arguments
      <4>2. QED
        BY <1>0, <2>2, <4>1 DEF Model!Legible, Model!Arguments
    <3>4. QED
      BY <2>1, <3>2, <3>3
  <2>6. garbled \subseteq garbled'
    BY <2>2
  <2>7. /\ ReadBefore(i + 1)' /\ calls' \in Seq(CallPiece) /\ text' = text
    BY <1>0, <1>1, <1>5, <2>1, <2>2, <2>5, <2>6, CallReadOn
  <2>8. QED
    BY <1>0, <1>1, <1>3, <1>4, <2>1, <2>4, <2>7, BlockDone
<1>12. QED
  BY <1>3, <1>7, <1>8, <1>9, <1>10, <1>11

(* The stream ends: what was read is the answer of chat, or its beginning   *)
(* if the server has cut it short.                                          *)
LEMMA AnswerEnds ==
  ASSUME ModelInv, Model!StreamEnds
  PROVE  /\ StreamReadsAnswer'
         /\ text' \in Seq(TextPiece) /\ calls' \in Seq(CallPiece)
<1>0. /\ phase = "stream" /\ Model!Exhausted /\ phase' = "ok"
      /\ text' = (IF provider = "ollama" /\ Len(calls) > 0 THEN <<>> ELSE text)
      /\ stop' = (IF provider = "ollama" /\ Len(calls) > 0 THEN "tool_use" ELSE stop)
      /\ UNCHANGED <<said, provider, calls, garbled, cutShort>>
  BY DEF Model!StreamEnds, Model!StopRead, Model!requestVars
<1>1. /\ said \in ModelMessage /\ Reading /\ (cutShort => provider = "anthropic")
      /\ text \in Seq(TextPiece) /\ calls \in Seq(CallPiece)
      /\ provider \in {"anthropic", "ollama"}
  BY <1>0 DEF ModelInv, TextPiece, CallPiece
<1>2. PICK i, l : i = wire.block /\ l = Len(said.blocks)
  OBVIOUS
<1>3. /\ i \in Nat \ {0} /\ l \in Nat /\ i <= l + 2 /\ ReadBefore(i)
      /\ i = l + 2 => LastReason
      /\ ~cutShort => i = l + 2
      /\ Model!TextPlaces(said) \subseteq 1..l /\ Model!CallPlaces(said) \subseteq 1..l
      /\ said.reason \in {"end_turn", "max_tokens", "tool_use"}
  <2>1. l \in Nat /\ Model!TextPlaces(said) \subseteq 1..l /\ Model!CallPlaces(said) \subseteq 1..l
        /\ said.reason \in {"end_turn", "max_tokens", "tool_use"}
    BY <1>1, <1>2, PlacesAre
  <2>2. /\ i \in Nat \ {0} /\ i <= l + 2 /\ ReadBefore(i) /\ (i = l + 2 => LastReason)
    BY <1>1, <1>2 DEF Reading
  <2>3. ~cutShort => i > l + 1
    BY <1>0, <1>2 DEF Model!Exhausted
  <2>4. QED
    BY <2>1, <2>2, <2>3
<1>4. PICK n \in 0..l : n = IF i - 1 <= l THEN i - 1 ELSE l
  BY <1>3
<1>5. /\ {j \in Model!TextPlaces(said) : j < i} = {j \in Model!TextPlaces(said) : j <= n}
      /\ {j \in Model!CallPlaces(said) : j < i} = {j \in Model!CallPlaces(said) : j <= n}
  <2>1. \A j \in 1..l : j < i <=> j <= n
    BY <1>3, <1>4
  <2>2. QED
    BY <1>3, <2>1
<1>6. /\ Model!Lists(text, {j \in Model!TextPlaces(said) : j <= n})
      /\ \A k \in DOMAIN text : Model!Legible(text[k].block, text[k].what, "full")
      /\ Model!Lists(calls, {j \in Model!CallPlaces(said) : j <= n})
      /\ \A k \in DOMAIN calls : CallLegible(calls[k])
  BY <1>3, <1>5 DEF ReadBefore
<1>7. ~cutShort => n = l
  BY <1>3, <1>4
<1>8. ~cutShort => (Len(calls) > 0 <=> Model!CallPlaces(said) # {})
  <2> SUFFICES ASSUME ~cutShort PROVE Len(calls) > 0 <=> Model!CallPlaces(said) # {}
    OBVIOUS
  <2>1. {j \in Model!CallPlaces(said) : j <= n} = Model!CallPlaces(said)
    BY <1>3, <1>7
  <2>2. {calls[k].block : k \in DOMAIN calls} = Model!CallPlaces(said)
    BY <1>6, <2>1 DEF Model!Lists
  <2>3. DOMAIN calls = 1..Len(calls) /\ Len(calls) \in Nat
    BY <1>1
  <2>4. CASE Len(calls) > 0
    <3>1. 1 \in DOMAIN calls
      BY <2>3, <2>4
    <3>2. QED
      BY <2>2, <2>4, <3>1
  <2>5. CASE ~(Len(calls) > 0)
    <3>1. DOMAIN calls = {}
      BY <2>3, <2>5
    <3>2. QED
      BY <2>2, <2>5, <3>1
  <2>6. QED
    BY <2>4, <2>5
<1>9. Model!Lists(text', {j \in Model!Kept(Model!TextPlaces(said)) : j <= n})
      /\ \A k \in DOMAIN text' : Model!Legible(text'[k].block, text'[k].what, "full")
  <2>1. CASE provider = "ollama" /\ Len(calls) > 0
    <3>1. text' = <<>> /\ Model!Kept(Model!TextPlaces(said)) = {}
      BY <1>0, <1>1, <1>8, <2>1 DEF Model!Kept
    <3>2. DOMAIN text' = {}
      BY <3>1
    <3>3. QED
      BY <3>1, <3>2 DEF Model!Lists
  <2>2. CASE ~(provider = "ollama" /\ Len(calls) > 0)
    <3>1. text' = text /\ Model!Kept(Model!TextPlaces(said)) = Model!TextPlaces(said)
      BY <1>0, <1>1, <1>8, <2>2 DEF Model!Kept
    <3>2. QED
      BY <1>6, <3>1
  <2>3. QED
    BY <2>1, <2>2
<1>10. ~cutShort => stop' = Model!StopOf(said)
  <2>1. ~cutShort => LastReason
    BY <1>3
  <2>2. CASE provider = "anthropic"
    BY <1>0, <2>1, <2>2 DEF LastReason, Model!StopOf
  <2>3. CASE provider = "ollama"
    BY <1>0, <1>8, <2>1, <2>3 DEF LastReason, Model!StopOf
  <2>4. QED
    BY <1>1, <2>2, <2>3
<1>11. StreamReadsAnswer'
  <2>1. Model!Kept(Model!TextPlaces(said))' = Model!Kept(Model!TextPlaces(said))
    BY <1>0 DEF Model!Kept
  <2>2. Model!Answers(n)'
    <3>1. \A k \in DOMAIN text' : Model!Legible(text[k].block, text[k].what, "full")'
      BY <1>0, <1>9 DEF Model!Legible
    <3>2. \A k \in DOMAIN calls' :
            Model!Legible(calls[k].block, calls[k].arguments,
                          Model!Arguments(said.blocks[calls[k].block]))'
      BY <1>0, <1>6 DEF CallLegible, Model!Legible, Model!Arguments
    <3>3. QED
      BY <1>0, <1>6, <1>9, <2>1, <3>1, <3>2 DEF Model!Answers, Model!Lists
  <2>3. ~cutShort' => n = Len(said'.blocks) /\ stop' = Model!StopOf(said)'
    BY <1>0, <1>2, <1>7, <1>10 DEF Model!StopOf
  <2>4. n \in 0..Len(said'.blocks)
    BY <1>0, <1>2
  <2>5. QED
    BY <2>2, <2>3, <2>4 DEF StreamReadsAnswer, Model!StreamReadsAnswer
<1>12. QED
  BY <1>0, <1>1, <1>11

(* chat gives the answer to all blocks.                                     *)
LEMMA OrderLists ==
  ASSUME NEW P, NEW o \in Model!Orders(P), NEW list, DOMAIN list = DOMAIN o,
         \A k \in DOMAIN o : list[k].block = o[k]
  PROVE  Model!Lists(list, P)
<1>1. {o[k] : k \in DOMAIN o} = P /\ \A k, l \in DOMAIN o : k < l => o[k] < o[l]
  BY DEF Model!Orders
<1>2. {list[k].block : k \in DOMAIN list} = {o[k] : k \in DOMAIN o}
  OBVIOUS
<1>3. QED
  BY <1>1, <1>2 DEF Model!Lists

LEMMA ModelCounts == \A S : Model!Cardinality(S) = Cardinality(S)
BY DEF Model!Cardinality, Cardinality

LEMMA ChatAnswers ==
  ASSUME ModelInv, phase = "chat", phase' = "ok", said' = said, provider' = provider,
         garbled' = garbled, cutShort' = cutShort,
         NEW t \in Model!Orders(Model!Kept(Model!TextPlaces(said))),
         NEW c \in Model!Orders(Model!CallPlaces(said)), Model!Parsed(t, c)
  PROVE  /\ StreamReadsAnswer'
         /\ text' \in Seq(TextPiece) /\ calls' \in Seq(CallPiece)
<1>1. said \in ModelMessage
  BY DEF ModelInv
<1>2. PICK P, Q, l : /\ P = Model!Kept(Model!TextPlaces(said)) /\ Q = Model!CallPlaces(said)
                     /\ l = Len(said.blocks)
  OBVIOUS
<1>3. /\ l \in Nat /\ P \subseteq 1..l /\ Q \subseteq 1..l
  BY <1>1, <1>2, PlacesAre DEF Model!Kept
<1>n. P \subseteq Nat /\ Q \subseteq Nat
  BY <1>3
<1>4. Cardinality(P) \in Nat /\ Cardinality(Q) \in Nat
  <2>1. IsFiniteSet(1..l)
    BY <1>3, FS_Interval
  <2>2. IsFiniteSet(P) /\ IsFiniteSet(Q)
    BY <1>3, <2>1, FS_Subset
  <2>3. QED
    BY <2>2, FS_CardinalityType
<1>5. t \in [1..Cardinality(P) -> P] /\ c \in [1..Cardinality(Q) -> Q]
  BY <1>2, ModelCounts DEF Model!Orders
<1>6. /\ text' = [k \in DOMAIN t |-> [block |-> t[k], what |-> "full"]]
      /\ calls' = [k \in DOMAIN c |-> [block |-> c[k], arguments |-> Model!Arguments(said.blocks[c[k]])]]
      /\ stop' = Model!StopOf(said)
  BY DEF Model!Parsed
<1>7. text' \in Seq(TextPiece)
  <2>1. \A k \in 1..Cardinality(P) : [block |-> t[k], what |-> "full"] \in TextPiece
    <3> TAKE k \in 1..Cardinality(P)
    <3>1. t[k] \in P
      BY <1>5
    <3>2. t[k] \in Nat
      BY <1>n, <3>1, Zenon
    <3>3. QED
      BY <3>2 DEF TextPiece
  <2>2. text' \in [1..Cardinality(P) -> TextPiece]
    BY <1>5, <1>6, <2>1
  <2>3. QED
    BY <1>4, <2>2
<1>8. calls' \in Seq(CallPiece)
  <2>1. \A k \in 1..Cardinality(Q) :
          [block |-> c[k], arguments |-> Model!Arguments(said.blocks[c[k]])] \in CallPiece
    <3> TAKE k \in 1..Cardinality(Q)
    <3>1. c[k] \in Nat
      <4>1. c[k] \in Q
        BY <1>5
      <4>2. QED
        BY <1>n, <4>1, Zenon
    <3>2. Model!Arguments(said.blocks[c[k]]) \in {"full", "none"}
      BY DEF Model!Arguments
    <3>3. QED
      BY <3>1, <3>2 DEF CallPiece
  <2>2. calls' \in [1..Cardinality(Q) -> CallPiece]
    BY <1>5, <1>6, <2>1
  <2>3. QED
    BY <1>4, <2>2
<1>9. /\ DOMAIN text' = DOMAIN t /\ DOMAIN calls' = DOMAIN c
      /\ \A k \in DOMAIN t : text'[k].block = t[k] /\ text'[k].what = "full"
      /\ \A k \in DOMAIN c : calls'[k].block = c[k]
                             /\ calls'[k].arguments = Model!Arguments(said.blocks[c[k]])
  BY <1>6
<1>10. Model!Lists(text', P) /\ Model!Lists(calls', Q)
  <2>1. \A k \in DOMAIN t : text'[k].block = t[k]
    BY <1>9
  <2>2. Model!Lists(text', P)
    BY <1>2, <1>9, <2>1, OrderLists
  <2>3. \A k \in DOMAIN c : calls'[k].block = c[k]
    BY <1>9, Zenon
  <2>4. Model!Lists(calls', Q)
    BY <1>2, <1>9, <2>3, OrderLists
  <2>5. QED
    BY <2>2, <2>4
<1>11. {i \in P : i <= l} = P /\ {i \in Q : i <= l} = Q
  <2>1. \A i \in 1..l : i <= l
    BY <1>3
  <2>2. (\A i \in P : i <= l) /\ (\A i \in Q : i <= l)
    BY <1>3, <2>1
  <2>3. QED
    BY <2>2
<1>12. /\ \A k \in DOMAIN text' : Model!Legible(text[k].block, text[k].what, "full")'
       /\ \A k \in DOMAIN calls' :
            Model!Legible(calls[k].block, calls[k].arguments,
                          Model!Arguments(said.blocks[calls[k].block]))'
  BY <1>9 DEF Model!Legible, Model!Arguments
<1>13. StreamReadsAnswer'
  <2>1. Model!Kept(Model!TextPlaces(said))' = P /\ Model!CallPlaces(said)' = Q
    BY <1>2 DEF Model!Kept
  <2>2. Model!Answers(l)'
    BY <1>9, <1>10, <1>11, <1>12, <2>1 DEF Model!Answers, Model!Lists
  <2>3. stop' = Model!StopOf(said)' /\ l = Len(said'.blocks)
    BY <1>2, <1>6 DEF Model!StopOf
  <2>4. l \in 0..Len(said'.blocks)
    BY <1>3, <2>3
  <2>5. QED
    BY <2>2, <2>3, <2>4 DEF StreamReadsAnswer, Model!StreamReadsAnswer
<1>14. QED
  BY <1>7, <1>8, <1>13

LEMMA SaidIs == Model!SaidInOrder \subseteq ModelMessage
<1> SUFFICES ASSUME NEW m \in Model!Said PROVE m \in ModelMessage
  BY DEF Model!SaidInOrder
<1>1. MaxBlocks \in Nat
  BY KeepingAssumption DEF Model!ProviderAssumption
<1>2. ASSUME NEW S \in SUBSET (Model!Block \cup {"half"}), NEW n \in 1..MaxBlocks, NEW b \in [1..n -> S]
      PROVE  b \in Seq(Model!Block \cup {"half"})
  <2>1. n \in Nat /\ b \in [1..n -> Model!Block \cup {"half"}]
    BY <1>1, <1>2
  <2>2. QED
    BY <2>1
<1>3. CASE \E n \in 1..MaxBlocks : \E b \in [1..n -> Model!Block] :
             \E r \in {"end_turn", "tool_use"} : m = [blocks |-> b, reason |-> r]
  <2>0. PICK n \in 1..MaxBlocks : \E b \in [1..n -> Model!Block], r \in {"end_turn", "tool_use"} :
          m = [blocks |-> b, reason |-> r]
    BY <1>3
  <2>1. PICK b \in [1..n -> Model!Block], r \in {"end_turn", "tool_use"} :
          m = [blocks |-> b, reason |-> r]
    BY <2>0
  <2>2. b \in Seq(Model!Block \cup {"half"})
    BY <1>2
  <2>3. QED
    BY <2>1, <2>2 DEF ModelMessage, Model!Reason
<1>4. CASE \E n \in 1..MaxBlocks : \E b \in [1..n -> Model!Block \cup {"half"}] :
             m = [blocks |-> b, reason |-> "max_tokens"]
  <2>0. PICK n \in 1..MaxBlocks : \E b \in [1..n -> Model!Block \cup {"half"}] :
          m = [blocks |-> b, reason |-> "max_tokens"]
    BY <1>4
  <2>1. PICK b \in [1..n -> Model!Block \cup {"half"}] : m = [blocks |-> b, reason |-> "max_tokens"]
    BY <2>0
  <2>2. b \in Seq(Model!Block \cup {"half"})
    BY <1>2
  <2>3. QED
    BY <2>1, <2>2 DEF ModelMessage, Model!Reason
<1>5. QED
  BY <1>3, <1>4 DEF Model!Said

(* A stream begins before its first event.                                  *)
LEMMA StreamBegins ==
  ASSUME ModelInv, phase = "start", said' \in ModelMessage,
         UNCHANGED <<provider, wire, half, inputs, text, calls, garbled, cutShort>>
  PROVE  Reading'
<1>1. /\ wire' = [block |-> 1, piece |-> 1] /\ ~half' /\ DOMAIN inputs' = {}
      /\ text' = <<>> /\ calls' = <<>>
  BY DEF ModelInv
<1>2. said'.blocks \in Seq(Model!Block \cup {"half"})
  BY DEF ModelMessage
<1>3. /\ Len(said'.blocks) \in Nat /\ DOMAIN said'.blocks = 1..Len(said'.blocks)
  BY <1>2
<1>4. Model!TextPlaces(said') \subseteq 1..Len(said'.blocks)
      /\ Model!CallPlaces(said') \subseteq 1..Len(said'.blocks)
  BY <1>3 DEF Model!TextPlaces, Model!CallPlaces
<1>5. /\ {j \in Model!TextPlaces(said') : j < 1} = {} /\ {j \in Model!CallPlaces(said') : j < 1} = {}
  BY <1>3, <1>4
<1>6. ReadBefore(1)'
  <2>1. DOMAIN text' = {} /\ DOMAIN calls' = {}
    BY <1>1
  <2>2. QED
    BY <1>5, <2>1 DEF ReadBefore, Model!Lists
<1>7. PiecesRead(1, 1)'
  BY <1>1 DEF PiecesRead
<1>8. wire' \in [block : Nat \ {0}, piece : Nat \ {0}] /\ wire'.block = 1 /\ wire'.piece = 1
  BY <1>1
<1>9. QED
  BY <1>1, <1>3, <1>6, <1>7, <1>8 DEF Reading

LEMMA ModelInit == ASSUME Model!Init PROVE ModelInv
<1>1. /\ phase = "start" /\ wire = [block |-> 1, piece |-> 1] /\ half = FALSE /\ inputs = <<>>
      /\ text = <<>> /\ calls = <<>> /\ cutShort = FALSE
      /\ provider \in {"anthropic", "ollama"}
  BY DEF Model!Init
<1>2. DOMAIN inputs = {} /\ text \in Seq(TextPiece) /\ calls \in Seq(CallPiece)
  BY <1>1
<1>3. QED
  BY <1>1, <1>2 DEF ModelInv, TextPiece, CallPiece, StreamReadsAnswer, Model!StreamReadsAnswer

(* What a step leaves of the invariant when it neither reads nor answers.   *)
LEMMA ModelStays ==
  ASSUME ModelInv, phase' # "ok", UNCHANGED <<provider, text, calls, inputs, garbled>>,
         cutShort' \in BOOLEAN, cutShort' => provider = "anthropic",
         phase' \in {"chat", "stream"} => said' \in ModelMessage,
         phase' \in {"start", "chat"} =>
           phase \in {"start", "chat"} /\ UNCHANGED <<wire, half, cutShort>>,
         phase' = "stream" => Reading'
  PROVE  ModelInv'
BY DEF ModelInv, StreamReadsAnswer, Model!StreamReadsAnswer

LEMMA ModelBegins ==
  ASSUME ModelInv, NEW m \in Model!SaidInOrder, NEW streaming \in BOOLEAN, Model!Begin(m, streaming)
  PROVE  ModelInv'
<1>1. /\ phase = "start" /\ said' = m /\ phase' \in {"stream", "chat"}
      /\ UNCHANGED <<provider, wire, half, inputs, text, calls, garbled, cutShort>>
  BY DEF Model!Begin, Model!answerVars
<1>2. said' \in ModelMessage
  BY <1>1, SaidIs
<1>3. Reading'
  BY <1>1, <1>2, StreamBegins
<1>4. cutShort \in BOOLEAN /\ (cutShort => provider = "anthropic")
  BY DEF ModelInv
<1>5. QED
  BY <1>1, <1>2, <1>3, <1>4, ModelStays

LEMMA ChatStep == ASSUME ModelInv, Model!ChatAnswer PROVE ModelInv'
<1>1. /\ phase = "chat" /\ UNCHANGED <<provider, said, wire, half, inputs, garbled, cutShort>>
  BY DEF Model!ChatAnswer, Model!requestVars
<1>2. /\ provider \in {"anthropic", "ollama"} /\ cutShort \in BOOLEAN
      /\ cutShort => provider = "anthropic"
      /\ said \in ModelMessage
  BY <1>1 DEF ModelInv
<1>3. CASE phase' = "ok" /\ \E t \in Model!Orders(Model!Kept(Model!TextPlaces(said))),
                               c \in Model!Orders(Model!CallPlaces(said)) : Model!Parsed(t, c)
  <2>1. /\ StreamReadsAnswer'
        /\ text' \in Seq(TextPiece) /\ calls' \in Seq(CallPiece)
    BY <1>1, <1>3, ChatAnswers
  <2>2. QED
    BY <1>1, <1>2, <1>3, <2>1 DEF ModelInv, TextPiece, CallPiece
<1>4. CASE phase' = "error" /\ UNCHANGED <<text, calls, stop>>
  BY <1>1, <1>2, <1>4, ModelStays
<1>5. QED
  BY <1>3, <1>4 DEF Model!ChatAnswer

LEMMA ModelStep == ASSUME ModelInv, [Model!Next]_modelVars PROVE ModelInv'
<1>0. /\ provider \in {"anthropic", "ollama"} /\ cutShort \in BOOLEAN
      /\ cutShort => provider = "anthropic"
      /\ phase \in {"chat", "stream"} => said \in ModelMessage
      /\ phase = "stream" => Reading
  BY DEF ModelInv
<1>1. CASE UNCHANGED modelVars
  <2>1. UNCHANGED <<provider, conv, system, phase, modelAttempt, said, wire, half, inputs,
                    text, calls, stop, garbled, cutShort>>
    BY <1>1 DEF modelVars
  <2>2. Reading' <=> Reading
    BY <2>1 DEF Reading, ReadBefore, PiecesRead, LastReason, CallLegible, Model!Lists, Model!Legible,
       Model!Exhausted
  <2>3. StreamReadsAnswer' <=> StreamReadsAnswer
    BY <2>1 DEF StreamReadsAnswer, Model!StreamReadsAnswer, Model!Answers, Model!Lists,
       Model!Legible, Model!Kept, Model!StopOf
  <2>4. QED
    BY <2>1, <2>2, <2>3 DEF ModelInv
<1>2. CASE Model!NothingToSay
  <2>1. /\ phase = "start" /\ phase' = "error"
        /\ UNCHANGED <<provider, said, inputs, text, calls, garbled, cutShort>>
    BY <1>2 DEF Model!NothingToSay, Model!requestVars, Model!answerVars
  <2>2. QED
    BY <1>0, <2>1, ModelStays
<1>3. CASE Model!ChatAnswer
  BY <1>3, ChatStep
<1>4. CASE Model!ReadFirstHalf
  <2>1. /\ phase = "stream" /\ ~Model!Exhausted /\ phase' = "stream"
        /\ UNCHANGED <<provider, said, wire, inputs, text, calls, stop, garbled, cutShort>>
    BY <1>4 DEF Model!ReadFirstHalf, Model!requestVars, Model!answerVars
  <2>2. Reading'
    <3>1. ReadBefore(wire.block)' /\ PiecesRead(wire.block, wire.piece)'
      BY <1>0, <2>1 DEF Reading, ReadBefore, PiecesRead, CallLegible, Model!Lists, Model!Legible
    <3>2. LastReason' <=> LastReason
      BY <2>1 DEF LastReason
    <3>3. ~Model!Exhausted'
      BY <2>1 DEF Model!Exhausted
    <3>4. QED
      BY <1>0, <2>1, <3>1, <3>2, <3>3 DEF Reading
  <2>3. QED
    BY <1>0, <2>1, <2>2, ModelStays
<1>5. CASE Model!CutShort
  <2>1. /\ phase = "stream" /\ phase' = "stream" /\ ~half /\ cutShort' = TRUE /\ provider = "anthropic"
        /\ UNCHANGED <<provider, said, wire, half, inputs, text, calls, stop, garbled>>
    BY <1>5 DEF Model!CutShort, Model!requestVars, Model!answerVars
  <2>2. Reading'
    <3>1. ReadBefore(wire.block)' /\ PiecesRead(wire.block, wire.piece)'
      BY <1>0, <2>1 DEF Reading, ReadBefore, PiecesRead, CallLegible, Model!Lists, Model!Legible
    <3>2. LastReason' <=> LastReason
      BY <2>1 DEF LastReason
    <3>3. QED
      BY <1>0, <2>1, <3>1, <3>2 DEF Reading
  <2>3. QED
    BY <1>0, <2>1, <2>2, ModelStays
<1>6. CASE Model!StreamEnds
  <2>1. /\ phase' = "ok" /\ phase = "stream" /\ UNCHANGED <<provider, said, inputs, garbled, cutShort>>
    BY <1>6 DEF Model!StreamEnds, Model!requestVars
  <2>2. /\ StreamReadsAnswer'
        /\ text' \in Seq(TextPiece) /\ calls' \in Seq(CallPiece)
    BY <1>6, AnswerEnds
  <2>3. QED
    BY <1>0, <2>1, <2>2 DEF ModelInv, TextPiece, CallPiece
<1>7. CASE Model!StreamFails
  <2>1. /\ phase = "stream" /\ phase' = "error"
        /\ UNCHANGED <<provider, said, inputs, text, calls, garbled, cutShort>>
    BY <1>7 DEF Model!StreamFails, Model!requestVars, Model!answerVars
  <2>2. QED
    BY <1>0, <2>1, ModelStays
<1>8. ASSUME NEW m \in Model!SaidInOrder, NEW streaming \in BOOLEAN, Model!Begin(m, streaming)
      PROVE  ModelInv'
  BY <1>8, ModelBegins
<1>9. ASSUME NEW retryable \in BOOLEAN, Model!ChatFails(retryable) PROVE ModelInv'
  <2>1. /\ phase = "chat" /\ phase' \in {"chat", "error"}
        /\ UNCHANGED <<provider, said, wire, half, inputs, text, calls, garbled, cutShort>>
    BY <1>9 DEF Model!ChatFails, Model!requestVars, Model!answerVars
  <2>2. QED
    BY <1>0, <2>1, ModelStays
<1>10. ASSUME NEW cut \in BOOLEAN, Model!ReadSecondHalf(cut) PROVE ModelInv'
  <2>1. /\ phase = "stream" /\ phase' = "stream" /\ UNCHANGED <<provider, said, cutShort>>
    BY <1>10 DEF Model!ReadSecondHalf, Model!requestVars
  <2>2. /\ Reading'
        /\ text' \in Seq(TextPiece) /\ calls' \in Seq(CallPiece)
    BY <1>10, EventRead
  <2>3. QED
    BY <1>0, <2>1, <2>2 DEF ModelInv, TextPiece, CallPiece, StreamReadsAnswer, Model!StreamReadsAnswer
<1>11. QED
  BY <1>1, <1>2, <1>3, <1>4, <1>5, <1>6, <1>7, <1>8, <1>9, <1>10 DEF Model!Next

LEMMA ModelSound == ASSUME ModelInv PROVE StreamReadsAnswer
BY DEF ModelInv

-----------------------------------------------------------------------------
(* The parts together: a step is one part's, or leaves a part as it is.    *)
IInv ==
  /\ SignalInv /\ ProcessInv /\ SecretInv /\ SendInv /\ VideoInv /\ FileInv
  /\ SplitInv /\ VoteInv /\ NoteInv /\ ModelInv

LEMMA PartSteps ==
  [Next]_vars => /\ [Video!Next]_videoVars
                 /\ [Outbound!Next]_outboundVars
                 /\ [Signal!Next]_signalVars
                 /\ [Secret!Next]_secretVars
                 /\ [Process!Next]_processVars
                 /\ [FileTool!Next]_fileVars
                 /\ [Split!Next]_splitVars
                 /\ [Vote!Next]_voteVars
                 /\ [Note!Next]_noteVars
                 /\ [Model!Next]_modelVars
<1> SUFFICES ASSUME [Next]_vars
             PROVE  /\ Video!Next \/ UNCHANGED videoVars
                    /\ Outbound!Next \/ UNCHANGED outboundVars
                    /\ Signal!Next \/ UNCHANGED signalVars
                    /\ Secret!Next \/ UNCHANGED secretVars
                    /\ Process!Next \/ UNCHANGED processVars
                    /\ FileTool!Next \/ UNCHANGED fileVars
                    /\ Split!Next \/ UNCHANGED splitVars
                    /\ Vote!Next \/ UNCHANGED voteVars
                    /\ Note!Next \/ UNCHANGED noteVars
                    /\ Model!Next \/ UNCHANGED modelVars
  OBVIOUS
<1>1. CASE VideoOnly /\ Video!Next
  BY <1>1 DEF VideoOnly
<1>2. CASE OutboundOnly /\ Outbound!Next
  BY <1>2 DEF OutboundOnly
<1>3. CASE SignalOnly /\ Signal!Next
  BY <1>3 DEF SignalOnly
<1>4. CASE SecretOnly /\ Secret!Next
  BY <1>4 DEF SecretOnly
<1>5. CASE ProcessOnly /\ Process!Next
  BY <1>5 DEF ProcessOnly
<1>6. CASE FileToolOnly /\ FileTool!Next
  BY <1>6 DEF FileToolOnly
<1>7. CASE SplitOnly /\ Split!Next
  BY <1>7 DEF SplitOnly
<1>8. CASE VoteOnly /\ Vote!Next
  BY <1>8 DEF VoteOnly
<1>9. CASE NoteOnly /\ Note!Next
  BY <1>9 DEF NoteOnly
<1>10. CASE ModelOnly /\ Model!Next
  BY <1>10 DEF ModelOnly
<1>11. CASE RateOnly /\ Rate!Next
  BY <1>11 DEF RateOnly
<1>12. CASE UNCHANGED vars
  BY <1>12 DEF vars
<1>13. QED
  BY <1>1, <1>2, <1>3, <1>4, <1>5, <1>6, <1>7, <1>8, <1>9, <1>10, <1>11, <1>12 DEF Next

LEMMA InitInv == Init => IInv
<1> SUFFICES ASSUME Init PROVE IInv
  OBVIOUS
<1>1. SignalInv
  <2>1. arrived = 0 /\ conf = {} /\ batch = <<>> /\ queue = <<>>
    BY DEF Init, Signal!Init
  <2>2. Len(KindOf) \in Nat
    BY KeepingAssumption DEF Signal!SignalAssumption
  <2>3. QED
    BY <2>1, <2>2 DEF SignalInv
<1>2. ProcessInv
  <2>1. /\ os = [p \in Pid |-> Process!NoProcess] /\ children = [p \in Pid |-> 0]
        /\ job = [c \in Starter |-> Process!NoJob] /\ begun = 0
    BY DEF Init, Process!Init
  <2>2. Process!NoJob \in JobRecord /\ Process!NoJob.at = "off"
    BY DEF Process!NoJob, Process!NoPid, JobRecord
  <2>3. Process!NoProcess \in OsRecord
    BY DEF Process!NoProcess, OsRecord
  <2>4. QED
    BY <2>1, <2>2, <2>3 DEF ProcessInv, ProcessTyped, OneHandle, HasHandle
<1>3. SecretInv
  BY DEF Init, Secret!Init, Secret!Process, Secret!Name, Secret!Idle, SecretInv, ProcShape
<1>4. SendInv
  BY KeepingAssumption DEF Init, Outbound!Init, Outbound!SendAssumption, SendInv
<1>5. VideoInv
  <2>1. dirs = <<>> /\ cache = {} /\ procs = {} /\ call = [k \in Author |-> Video!Fresh]
    BY DEF Init, Video!Init
  <2>2. Video!Fresh \in VideoCall /\ Video!Fresh.kind = "none" /\ Video!Fresh.pc = "idle"
    BY DEF Video!Fresh, VideoCall
  <2>3. DOMAIN dirs = {}
    BY <2>1
  <2>4. VideoTyped
    BY <2>1, <2>2, <2>3 DEF VideoTyped
  <2>5. QED
    BY <2>1, <2>2, <2>3, <2>4 DEF VideoInv, Staged, Added
<1>6. FileInv
  BY FileInit DEF Init
<1>7. SplitInv /\ VoteInv /\ NoteInv /\ ModelInv
  BY SplitInit, VoteInit, NoteInit, ModelInit DEF Init
<1>8. QED
  BY <1>1, <1>2, <1>3, <1>4, <1>5, <1>6, <1>7 DEF IInv

(* The inductive invariant holds in every reachable state.                 *)
THEOREM Invariance == Spec => []IInv
<1>1. IInv /\ [Next]_vars => IInv'
  BY PartSteps, SignalStep, ProcessStep, SecretStep, SendStep, VideoStep, FileStep,
     SplitStep, VoteStep, NoteStep, ModelStep DEF IInv
<1>2. QED
  BY <1>1, InitInv, PTL DEF Spec

(* What signal-cli has forgotten is in the queue or on its way into it,    *)
(* however the poller waits for a place and the webhook comes between.     *)
THEOREM SignalLosesNone == Spec => []HandedOverIsKept
<1>1. IInv => HandedOverIsKept
  <2>1. ASSUME SignalInv PROVE conf \subseteq Signal!SignalMessage
    <3>1. KindOf \in Seq({"text", "ignored"}) /\ arrived \in 0..Len(KindOf)
      BY <2>1, KeepingAssumption DEF SignalInv, Signal!SignalAssumption
    <3>2. DOMAIN KindOf = 1..Len(KindOf) /\ 1..arrived \subseteq 1..Len(KindOf)
      BY <3>1
    <3>3. QED
      BY <2>1, <3>2 DEF SignalInv, Signal!SignalMessage
  <2>2. QED
    BY <2>1 DEF IInv, SignalInv, InSeq, HandedOverIsKept, Signal!HandedOverIsKept,
       Signal!Queued, Signal!Fetched
<1>2. QED
  BY <1>1, Invariance, PTL

(* `stop` never signals a process of somebody else: while the map has a    *)
(* pid, the handle it holds keeps the system from using that pid again.    *)
THEOREM StopHitsItsOwn == Spec => []StopsOwnProcess
<1>1. IInv => StopsOwnProcess
  BY DEF IInv, ProcessInv, OneHandle, Lives, StopsOwnProcess, Process!StopsOwnProcess
<1>2. QED
  BY <1>1, Invariance, PTL

(* A create adds one project or none, and none its caller was not told of, *)
(* for any number of calls, attempts dropped and processes that go on.     *)
THEOREM CreateAddsOne == Spec => []OneProjectPerCreate
<1>1. IInv => OneProjectPerCreate
  BY DEF IInv, VideoInv, Handed, OneProjectPerCreate, Video!OneProjectPerCreate, Video!Listed
<1>2. QED
  BY <1>1, Invariance, PTL

(* An element whose call went on stays in its composition, unless another  *)
(* call wrote the composition that it had read without it.                 *)
THEOREM ElementsStay == Spec => []LostElementsOverlap
<1>1. IInv => LostElementsOverlap
  BY ElementsInSeq DEF IInv, VideoInv, Added, LostElementsOverlap, Video!LostElementsOverlap
<1>2. QED
  BY <1>1, Invariance, PTL

(* A file that no two writers met in, and no failure left cut, has its      *)
(* original text and each reported change: once however often its attempts *)
(* were dropped and went on writing, or, if it fits its own result, at most *)
(* once per attempt.                                                       *)
THEOREM ChangesStay == Spec => []ReportedChangesKept
<1>1. IInv => ReportedChangesKept
  BY FileSafe DEF IInv
<1>2. QED
  BY <1>1, Invariance, PTL

(* A text of any length is cut into pieces that fit, without losing of it   *)
(* more than white space between two messages.                             *)
THEOREM CutsStaySound == Spec => []CutsAreSound
<1>1. IInv => CutsAreSound
  BY SplitSound DEF IInv
<1>2. QED
  BY <1>1, Invariance, PTL

(* A chunk of the memory system begins with as much of the end of the chunk *)
(* before it as Overlap bytes hold of whole characters, for any text.       *)
THEOREM ChunksKeepOverlap == Spec => []ChunksOverlap
<1>1. IInv => ChunksOverlap
  BY OverlapSound DEF IInv
<1>2. QED
  BY <1>1, Invariance, PTL

(* A vote ends with every sample and counts each text, for any number of    *)
(* samples and permits, whichever fail, have no text or end last.           *)
THEOREM VoteCountsEach == Spec => []VoteCountsAll
<1>1. IInv => VoteCountsAll
  BY VoteSound DEF IInv
<1>2. QED
  BY <1>1, Invariance, PTL

(* The blocks of a try are in the page in order, and all of them if it is    *)
(* reported, and a text that is reported as synced is in its note or was     *)
(* replaced, for any calls, batches, tries and answers that get lost.       *)
THEOREM ReportedTextStays == Spec => []ReportedTextThere
<1>1. IInv => ReportedTextThere
  BY NoteSound DEF IInv
<1>2. QED
  BY <1>1, Invariance, PTL

(* Read as a stream, an answer of any length is the one chat would have      *)
(* given, wherever the chunks end, or its beginning if the server cuts it    *)
(* short: a text or the arguments of a call differ only where a chunk ended  *)
(* inside a character of that block, and no call is ever half read.          *)
THEOREM StreamsReadAnswers == Spec => []StreamReadsAnswer
<1>1. IInv => StreamReadsAnswer
  BY ModelSound DEF IInv
<1>2. QED
  BY <1>1, Invariance, PTL

(* The chat shows a reply from its start and without a gap, and to its end *)
(* when it is reported as sent, for any number of chunks, tries and        *)
(* answers that get lost.                                                  *)
THEOREM RepliesWithoutGaps == Spec => NoGaps
<1> DEFINE A == \A r \in Reply : /\ shown'[r] \in {shown[r], shown[r] + 1}
                                 /\ mode'[r] = "ok" => shown'[r] = Chunks
<1>1. IInv /\ [Next]_vars => [A]_outboundVars
  <2>1. IInv /\ [Next]_vars => SendInv' /\ \A r \in Reply : shown'[r] \in {shown[r], shown[r] + 1}
    BY PartSteps, SendStep DEF IInv
  <2>2. SendInv' => \A r \in Reply : mode'[r] = "ok" => shown'[r] = Chunks
    BY DEF SendInv
  <2>3. QED
    BY <2>1, <2>2
<1>2. Spec => [][A]_outboundVars
  BY <1>1, Invariance, PTL DEF Spec
<1>3. QED
  BY <1>2 DEF NoGaps, Outbound!NoGaps, Outbound!vars, outboundVars

(* No step makes a secret unreadable with the kept master key, but a       *)
(* deletion, a reboot, a process under another key, a write of the key's   *)
(* own entry, or a start that could not read the key or looked for it      *)
(* before somebody stored one.                                             *)
THEOREM SecretsStayReadable == Spec => RowsKeptReadable
<1> DEFINE Lost(n) ==
             \/ rows'[n] = Secret!NoRow \/ ringKey' = Secret!None
             \/ \E p \in Secret!Process :
                  rows'[n].key = secretProcs[p].key /\ secretProcs[p].key # ringKey
             \/ \E t \in Secret!Texts : Secret!CliSetKey(t) \/ Secret!ToolWritesKey(t)
             \/ \E p \in stale : Secret!SaveKey(p)
<1>1. IInv /\ [Next]_vars => [Secret!KeptReadable]_secretVars
  <2> SUFFICES ASSUME SecretInv, [Secret!Next]_secretVars, NEW n \in Secret!Name,
                      Secret!RingReads(n), ~Secret!RingReads(n)'
               PROVE  Lost(n)
    BY PartSteps DEF IInv, Secret!KeptReadable
  <2>0. /\ rows[n] # Secret!NoRow /\ ringKey # Secret!None /\ rows[n].key = ringKey
        /\ ~(rows'[n] # Secret!NoRow /\ ringKey' # Secret!None /\ rows'[n].key = ringKey')
        /\ n \in DOMAIN rows
    BY DEF Secret!RingReads, Secret!NoRow, Secret!None, SecretInv
  <2>1. ASSUME rows'[n] = rows[n], ringKey' = ringKey PROVE Lost(n)
    BY <2>0, <2>1
  <2>2. ASSUME NEW p \in Secret!Process, NEW m, NEW v, rows' = Secret!StoreSet(p, m, v),
               ringKey' = ringKey
        PROVE  Lost(n)
    <3>1. CASE m # n
      BY <2>0, <2>1, <2>2, <3>1 DEF Secret!StoreSet
    <3>2. CASE m = n
      <4>1. rows'[n] = [val |-> v, key |-> secretProcs[p].key]
        BY <2>0, <2>2, <3>2 DEF Secret!StoreSet
      <4>2. rows'[n].key = secretProcs[p].key
        BY <4>1
      <4>3. QED
        BY <2>0, <2>2, <4>2
    <3>3. QED
      BY <3>1, <3>2
  <2>3. ASSUME NEW p \in Secret!Process, Secret!SaveKey(p) PROVE Lost(n)
    <3>1. p \in stale
      BY <2>0, <2>3 DEF Secret!SaveKey, SecretInv, Secret!Process
    <3>2. QED
      BY <2>3, <3>1
  <2>w. ASSUME NEW t \in Secret!Texts \cup {Secret!None},
               Secret!CliSetKey(t) \/ Secret!ToolWritesKey(t), t = Secret!None => Secret!ToolWritesKey(t)
        PROVE  Lost(n)
    <3>1. CASE t \in Secret!Texts
      BY <2>w, <3>1
    <3>2. CASE t = Secret!None
      BY <2>w, <3>2 DEF Secret!ToolWritesKey
    <3>3. QED
      BY <3>1, <3>2
  <2>4. ASSUME NEW m \in Secret!Name, Secret!ToolWrites(m) PROVE Lost(n)
    <3>1. ringKey' = ringKey /\ "server" \in Secret!Process
      BY <2>4 DEF Secret!ToolWrites, Secret!Process
    <3>2. CASE rows' = [rows EXCEPT ![m] = Secret!NoRow]
      BY <2>0, <2>1, <3>1, <3>2
    <3>3. CASE \E v : rows' = Secret!StoreSet("server", m, v)
      BY <2>2, <3>1, <3>3
    <3>4. CASE rows' = rows
      BY <2>1, <3>1, <3>4
    <3>5. QED
      BY <2>4, <3>2, <3>3, <3>4 DEF Secret!ToolWrites
  <2>5. CASE Secret!CliEnds
    <3>1. ringKey' = ringKey /\ "cli" \in Secret!Process
      BY <2>5 DEF Secret!CliEnds, Secret!Process
    <3>2. rows' = rows \/ \E m, v : rows' = Secret!StoreSet("cli", m, v)
      BY <2>5 DEF Secret!CliEnds
    <3>3. QED
      BY <2>1, <2>2, <3>1, <3>2
  <2>6. CASE Secret!Persist
    <3>1. ringKey' = ringKey /\ "server" \in Secret!Process
      BY <2>6 DEF Secret!Persist, Secret!Process
    <3>2. rows' = rows \/ \E m, v : rows' = Secret!StoreSet("server", m, v)
      BY <2>6 DEF Secret!Persist
    <3>3. QED
      BY <2>1, <2>2, <3>1, <3>2
  <2>7. CASE Secret!Reboot
    BY <2>7 DEF Secret!Reboot
  <2>8. CASE rows' = rows /\ ringKey' = ringKey
    BY <2>1, <2>8
  <2> HIDE DEF Lost
  <2>9. QED
    <3>1. CASE \/ \E t \in Secret!Texts : Secret!CliSetKey(t)
               \/ \E t \in Secret!Texts \cup {Secret!None} : Secret!ToolWritesKey(t)
      <4>1. CASE \E t \in Secret!Texts : Secret!CliSetKey(t)
        <5>1. PICK t \in Secret!Texts : Secret!CliSetKey(t)
          BY <4>1
        <5>2. QED
          BY <5>1 DEF Lost
      <4>2. CASE \E t \in Secret!Texts \cup {Secret!None} : Secret!ToolWritesKey(t)
        <5>1. PICK t \in Secret!Texts \cup {Secret!None} : Secret!ToolWritesKey(t)
          BY <4>2
        <5>2. QED
          BY <2>w, <5>1
      <4>3. QED
        BY <3>1, <4>1, <4>2
    <3>2. QED
      BY <2>3, <2>4, <2>5, <2>6, <2>7, <2>8, <3>1
      DEF Secret!Next, secretVars, Secret!StartServer, Secret!CliMigrate, Secret!CliResolveAgain,
        Secret!CliSet, Secret!FindKey, Secret!MissKey, Secret!Validate, Secret!Resolve, Secret!Rotate,
        Secret!Stop, Secret!Outage
<1>2. Spec => [][Secret!KeptReadable]_secretVars
  BY <1>1, Invariance, PTL DEF Spec
<1>3. QED
  BY <1>2 DEF RowsKeptReadable, Secret!RowsKeptReadable, Secret!vars, secretVars

-----------------------------------------------------------------------------
(* The rate limiter was proved in a module of its own.  A step of the      *)
(* composition is a step of the limiter or leaves it alone, ...            *)
RateProof == INSTANCE RateLimiter_proofs

LEMMA RateSteps == Spec => Rate!Init /\ [][Rate!Next]_rateVars
<1>1. Init => Rate!Init
  BY DEF Init
<1>2. [Next]_vars => [Rate!Next]_rateVars
  <2> SUFFICES ASSUME Next \/ UNCHANGED vars PROVE Rate!Next \/ UNCHANGED rateVars
    OBVIOUS
  <2>1. CASE \/ VideoOnly \/ SplitOnly \/ OutboundOnly \/ SignalOnly \/ VoteOnly
             \/ ModelOnly \/ SecretOnly \/ ProcessOnly \/ FileToolOnly \/ NoteOnly
    BY <2>1 DEF VideoOnly, SplitOnly, OutboundOnly, SignalOnly, VoteOnly, ModelOnly, SecretOnly,
      ProcessOnly, FileToolOnly, NoteOnly
  <2>2. CASE UNCHANGED vars
    BY <2>2 DEF vars
  <2>3. QED
    BY <2>1, <2>2 DEF Next
<1>3. QED
  BY <1>1, <1>2, PTL DEF Spec

(* ... and the limiter composed here is the one that was proved.           *)
LEMMA SameLimiter == Spec => RateProof!Spec
<1>1. Rate!Init => RateProof!Init
  BY DEF Rate!Init, Rate!NotLocked, RateProof!Init, RateProof!NotLocked
<1>2. [Rate!Next]_rateVars => [RateProof!Next]_(RateProof!vars)
  <2>1. Rate!Tick => RateProof!Tick
    BY DEF Rate!Tick, RateProof!Tick
  <2>2. ASSUME NEW ip \in IPs PROVE Rate!CheckLocked(ip) => RateProof!CheckLocked(ip)
    BY DEF
      Rate!Call, Rate!CheckLocked, Rate!LockedOut, Rate!NotLocked, RateProof!Call,
      RateProof!CheckLocked, RateProof!LockedOut, RateProof!NotLocked
  <2>3. ASSUME NEW ip \in IPs PROVE Rate!CheckOverLimit(ip) => RateProof!CheckOverLimit(ip)
    BY Zenon DEF
      Rate!Cardinality, RateProof!Cardinality, Rate!Call, Rate!CheckOverLimit,
      Rate!LockedOut, Rate!NotLocked, Rate!Retained, RateProof!Call,
      RateProof!CheckOverLimit, RateProof!LockedOut, RateProof!NotLocked, RateProof!Retained
  <2>4. ASSUME NEW ip \in IPs PROVE Rate!CheckAllowed(ip) => RateProof!CheckAllowed(ip)
    BY Zenon DEF
      Rate!Cardinality, RateProof!Cardinality, Rate!Call, Rate!CheckAllowed, Rate!LockedOut,
      Rate!NotLocked, Rate!Retained, Rate!Stale, Rate!AtMost, Rate!Prunable, RateProof!Call,
      RateProof!CheckAllowed, RateProof!LockedOut, RateProof!NotLocked, RateProof!Retained,
      RateProof!Stale, RateProof!AtMost, RateProof!Prunable
  <2>5. Rate!Next => RateProof!Next
    BY <2>1, <2>2, <2>3, <2>4, Zenon DEF Rate!Next, RateProof!Next
  <2>6. UNCHANGED rateVars => UNCHANGED RateProof!vars
    BY DEF rateVars, RateProof!vars
  <2>7. QED
    BY <2>5, <2>6
<1>3. QED
  BY <1>1, <1>2, RateSteps, PTL DEF RateProof!Spec

(* No client is granted more requests in any window than the limit, for    *)
(* any clients, limit, window, longer lockout and pruning parameters.      *)
THEOREM RatesBounded == Spec => []WindowBound
<1>1. RateProof!RateAssumption
  BY KeepingAssumption DEF RateProof!RateAssumption, Rate!RateAssumption
<1>2. RateProof!Spec => []RateProof!WindowBound
  BY <1>1, RateProof!RateIsBounded
<1>3. RateProof!WindowBound => WindowBound
  BY DEF
    WindowBound, Rate!Cardinality, RateProof!Cardinality, Rate!WindowBound,
    RateProof!WindowBound, Rate!InPeriod, RateProof!InPeriod
<1>4. QED
  BY <1>2, <1>3, SameLimiter, PTL

(* With its records, lazy expiry and pruning the limiter implements the    *)
(* sliding window with lockouts.                                           *)
THEOREM LimiterIsWindow == Spec => ImplementsPromise
<1>1. RateProof!RateAssumption
  BY KeepingAssumption DEF RateProof!RateAssumption, Rate!RateAssumption
<1>2. RateProof!Spec => RateProof!ImplementsPromise
  BY <1>1, RateProof!Implementation
<1>3. RateProof!Promise!Init => Rate!Promise!Init
  BY DEF Rate!Promise!Init, RateProof!Promise!Init
<1>4. [RateProof!Promise!Next]_(RateProof!Promise!vars)
        => [Rate!Promise!Next]_(Rate!Promise!vars)
  BY Zenon DEF
    Rate!Promise!Next, Rate!Promise!vars, Rate!Promise!Tick, Rate!Promise!Grant,
    Rate!Promise!RefuseAndBan, Rate!Promise!Refuse, Rate!Promise!Recent,
    RateProof!Promise!Next, RateProof!Promise!vars, RateProof!Promise!Tick,
    RateProof!Promise!Grant, RateProof!Promise!RefuseAndBan, RateProof!Promise!Refuse,
    RateProof!Promise!Recent, Rate!Promise!Cardinality, RateProof!Promise!Cardinality
<1>5. QED
  BY <1>2, <1>3, <1>4, SameLimiter, PTL
  DEF
    ImplementsPromise, Rate!ImplementsPromise, RateProof!ImplementsPromise,
    Rate!Promise!Spec, RateProof!Promise!Spec
=============================================================================
