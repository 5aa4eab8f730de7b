---------------------------- MODULE Subprocesses ----------------------------
(***************************************************************************)
(* The tools that start programs: process.rs keeps background processes in  *)
(* a map, exec.rs and code_execution.rs wait for one program's output.      *)
(* None of them asks tokio to kill a child whose handle is dropped: such a  *)
(* child goes on and is reaped by the runtime when it exits.  The sandbox   *)
(* drops a call at its time limit, wherever it is.  Processes are told      *)
(* apart by their birth number; the system uses a pid again only once the   *)
(* process before was reaped.                                               *)
(***************************************************************************)
EXTENDS Naturals

CONSTANTS Call,         \* tool calls in flight at once
          Pid,          \* pids the system hands out
          MaxCalls      \* bound: attempts begun (and so processes born)

ProcessAssumption ==
  /\ MaxCalls \in Nat /\ "nobody" \notin Call /\ "none" \notin Pid

VARIABLES os,           \* pid -> the process it names
          children,     \* pid -> birth number of the handle kept, or 0
          holder,       \* who holds the lock of `children`
          job,          \* call -> what it is doing
          files,        \* attempts whose script is in the temporary directory
          begun

vars == <<os, children, holder, job, files, begun>>

Nobody == "nobody"
NoPid == "none"
NoJob == [at |-> "off", kind |-> "list", pid |-> NoPid, id |-> 0]
NoProcess == [state |-> "free", by |-> 0]

TypeOK ==
  /\ os \in [Pid -> [state : {"free", "running", "dying", "exited"}, by : 0..MaxCalls]]
  /\ children \in [Pid -> 0..MaxCalls]
  /\ holder \in Call \cup {Nobody}
  /\ job \in [Call -> [at : {"off", "write", "spawn", "wait", "clean", "lock", "kill", "reap"},
                       kind : {"start", "stop", "list", "exec", "code"},
                       pid : Pid \cup {NoPid}, id : 0..MaxCalls]]
  /\ files \subseteq 1..begun /\ begun \in 0..MaxCalls
  /\ \A c \in Call : job[c].at \in {"kill", "reap"} <=> holder = c

Init ==
  /\ os = [p \in Pid |-> NoProcess] /\ children = [p \in Pid |-> 0]
  /\ holder = Nobody /\ job = [c \in Call |-> NoJob]
  /\ files = {} /\ begun = 0

(* A call starts with a command or a script that passes its checks, or with  *)
(* the pid to stop.                                                          *)
Execute(c) ==
  /\ job[c].at = "off" /\ begun < MaxCalls
  /\ begun' = begun + 1
  /\ \/ \E k \in {"start", "exec"} :
          job' = [job EXCEPT ![c] = [at |-> "spawn", kind |-> k, pid |-> NoPid, id |-> begun + 1]]
     \/ job' = [job EXCEPT ![c] = [at |-> "write", kind |-> "code", pid |-> NoPid,
                                   id |-> begun + 1]]
     \/ \E p \in Pid :
          job' = [job EXCEPT ![c] = [at |-> "lock", kind |-> "stop", pid |-> p, id |-> begun + 1]]
     \/ job' = [job EXCEPT ![c] = [at |-> "lock", kind |-> "list", pid |-> NoPid,
                                   id |-> begun + 1]]
  /\ UNCHANGED <<os, children, holder, files>>

(* Each attempt has a script file of its own.                                *)
WriteScript(c) ==
  /\ job[c].at = "write"
  /\ files' = files \cup {job[c].id}
  /\ job' = [job EXCEPT ![c].at = "spawn"]
  /\ UNCHANGED <<os, children, holder, begun>>

Spawn(c) ==
  /\ job[c].at = "spawn"
  /\ \E p \in Pid :
       /\ os[p].state = "free"
       /\ os' = [os EXCEPT ![p] = [state |-> "running", by |-> job[c].id]]
       /\ job' = [job EXCEPT ![c].at = IF job[c].kind = "start" THEN "lock" ELSE "wait",
                             ![c].pid = p]
  /\ UNCHANGED <<children, holder, files, begun>>

SpawnFails(c) ==
  /\ job[c].at = "spawn"
  /\ job' = [job EXCEPT ![c] = IF @.kind = "code" THEN [@ EXCEPT !.at = "clean"] ELSE NoJob]
  /\ UNCHANGED <<os, children, holder, files, begun>>

(* Command::output ends with the exit of the child, which it reaps, or the     *)
(* tool's own time limit drops it.                                             *)
Output(c) ==
  /\ job[c].at = "wait" /\ os[job[c].pid].state = "exited"
  /\ os' = [os EXCEPT ![job[c].pid] = NoProcess]
  /\ job' = [job EXCEPT ![c] = IF @.kind = "code" THEN [@ EXCEPT !.at = "clean"] ELSE NoJob]
  /\ UNCHANGED <<children, holder, files, begun>>

ToolTimeout(c) ==
  /\ job[c].at = "wait"
  /\ job' = [job EXCEPT ![c] = IF @.kind = "code" THEN [@ EXCEPT !.at = "clean"] ELSE NoJob]
  /\ UNCHANGED <<os, children, holder, files, begun>>

RemoveScript(c) ==
  /\ job[c].at = "clean"
  /\ files' = files \ {job[c].id}
  /\ job' = [job EXCEPT ![c] = NoJob]
  /\ UNCHANGED <<os, children, holder, begun>>

(* The three uses of the map.  start inserts its handle and list reads the      *)
(* keys at once; stop takes the handle out and keeps the lock to the end.       *)
Insert(c) ==
  /\ job[c].at = "lock" /\ job[c].kind = "start" /\ holder = Nobody
  /\ children' = [children EXCEPT ![job[c].pid] = job[c].id]
  /\ job' = [job EXCEPT ![c] = NoJob]
  /\ UNCHANGED <<os, holder, files, begun>>

List(c) ==
  /\ job[c].at = "lock" /\ job[c].kind = "list" /\ holder = Nobody
  /\ job' = [job EXCEPT ![c] = NoJob]
  /\ UNCHANGED <<os, children, holder, files, begun>>

Stop(c) ==
  /\ job[c].at = "lock" /\ job[c].kind = "stop" /\ holder = Nobody
  /\ IF children[job[c].pid] = 0
     THEN job' = [job EXCEPT ![c] = NoJob] /\ UNCHANGED <<children, holder>>
     ELSE /\ children' = [children EXCEPT ![job[c].pid] = 0]
          /\ job' = [job EXCEPT ![c].at = "kill", ![c].id = children[job[c].pid]]
          /\ holder' = c
  /\ UNCHANGED <<os, files, begun>>

Kill(c) ==
  /\ job[c].at = "kill"
  /\ os' = IF os[job[c].pid].state = "running"
           THEN [os EXCEPT ![job[c].pid].state = "dying"] ELSE os
  /\ job' = [job EXCEPT ![c].at = "reap"]
  /\ UNCHANGED <<children, holder, files, begun>>

Reap(c) ==
  /\ job[c].at = "reap" /\ os[job[c].pid].state = "exited"
  /\ os' = [os EXCEPT ![job[c].pid] = NoProcess]
  /\ job' = [job EXCEPT ![c] = NoJob] /\ holder' = Nobody
  /\ UNCHANGED <<children, files, begun>>

(* The sandbox's limit drops the future: its lock, its handle and its clean-up.  *)
AttemptTimeout(c) ==
  /\ job[c].at # "off"
  /\ job' = [job EXCEPT ![c] = NoJob]
  /\ holder' = IF holder = c THEN Nobody ELSE holder
  /\ UNCHANGED <<os, children, files, begun>>

Exits(p) ==
  /\ os[p].state \in {"running", "dying"}
  /\ os' = [os EXCEPT ![p].state = "exited"]
  /\ UNCHANGED <<children, holder, job, files, begun>>

(* Mutant: the map keeps the pid and not the handle.                              *)
HandleInCall(p) == \E c \in Call : job[c].pid = p /\ job[c].id = os[p].by

(* Somebody has the handle: the map, or the call that is busy with the child.      *)
Retained(p) == children[p] # 0 \/ \E c \in Call : job[c].pid = p /\ job[c].id = os[p].by

(* The runtime reaps children whose handle was dropped.                            *)
Orphaned(p) ==
  /\ os[p].state = "exited" /\ ~Retained(p)
  /\ os' = [os EXCEPT ![p] = NoProcess]
  /\ UNCHANGED <<children, holder, job, files, begun>>

Next ==
  \/ \E c \in Call :
       \/ Execute(c) \/ WriteScript(c) \/ Spawn(c) \/ SpawnFails(c) \/ Output(c)
       \/ ToolTimeout(c) \/ RemoveScript(c) \/ Insert(c) \/ List(c) \/ Stop(c)
       \/ Kill(c) \/ Reap(c) \/ AttemptTimeout(c)
  \/ \E p \in Pid : Exits(p) \/ Orphaned(p)

Spec == Init /\ [][Next]_vars

-----------------------------------------------------------------------------

(* A pid in the map names the process that this tool started under it, however   *)
(* long ago that ended: the handle keeps the pid from being used again, so that   *)
(* `stop` cannot kill a process of somebody else.                                 *)
StopsOwnProcess ==
  \A p \in Pid : children[p] # 0 => os[p].by = children[p] /\ os[p].state # "free"
=============================================================================
