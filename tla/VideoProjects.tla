--------------------------- MODULE VideoProjects ---------------------------
(***************************************************************************)
(* The video projects: directories with a composition and a metadata file  *)
(* (video.rs of the channels), and the tool over them with its cache of    *)
(* projects (video.rs of the tools).  Calls of one batch run in parallel,  *)
(* on threads of their own; files are read and written without a lock.     *)
(*                                                                         *)
(* The hyperframes CLI is an outside process that is awaited for at most   *)
(* 300 seconds.  The attempt that waits for it is dropped after 30, since  *)
(* the tool asks for no network (runner.rs), and repeated; the process of  *)
(* a dropped attempt goes on.                                              *)
(***************************************************************************)
EXTENDS Naturals, FiniteSets, Sequences

CONSTANTS
  Call,       \* tool calls
  Retries,    \* max_tool_retries
  MaxRestarts \* bound

VideoAssumption == {Retries, MaxRestarts} \subseteq Nat

VARIABLES
  dirs,     \* projects with a directory and metadata: id -> composition,
            \* the sequence of calls that put an element in it
  named,    \* the directory that hyperframes init made is not renamed so
            \* far; one name is enough, the tool defaults to "untitled"
  cache,    \* ids in VideoTool.projects
  call,     \* per Call: its action and where it is
  procs,    \* processes of the CLI: <<call, attempt, subcommand>>
  overlap,  \* history: elements whose composition was written by a call
            \* that had read it before them, or set as a whole after them
  restarts

vars == <<dirs, named, cache, call, procs, overlap, restarts>>

Kinds == {"create", "add", "set", "render"}
Commands == {"init", "lint", "render"}

(* A project is called by the attempt that drew its id.                    *)
Id == Call \X (1..(Retries + 1))
NoProject == <<"none", 0>>

Fresh == [kind |-> "none", pc |-> "idle", try |-> 1, id |-> NoProject, copy |-> <<>>]

Init ==
  /\ dirs = <<>> /\ named = FALSE /\ cache = {}
  /\ call = [k \in Call |-> Fresh]
  /\ procs = {}
  /\ overlap = {}
  /\ restarts = 0

At(k, kind, pc) == call[k].kind = kind /\ call[k].pc = pc
Elements(seq) == {seq[i] : i \in DOMAIN seq}

SetDir(id, comp) ==
  dirs' = [i \in DOMAIN dirs \cup {id} |-> IF i = id THEN comp ELSE dirs[i]]

(* run_npx: the call goes on when the process ends.                        *)
Run(k, command, c) ==
  /\ procs' = procs \cup {<<k, c.try, command>>}
  /\ call' = [call EXCEPT ![k] = [c EXCEPT !.pc = command]]

(* get_project, for a call of the tool and when it is repeated.            *)
Project(k, kind, id) ==
  /\ id \in cache
  /\ \/ call[k].pc = "idle"
     \/ At(k, kind, "again") /\ call[k].id = id

---------------------------------------------------------------------------
(* create_project.                                                         *)

(* Mutant: the metadata is written first.                                  *)
StartInitWithMeta(k) ==
  /\ call[k].pc = "idle" \/ At(k, "create", "again")
  /\ Run(k, "init", [call[k] EXCEPT !.kind = "create"])
  /\ SetDir(<<k, call[k].try>>, <<>>)
  /\ UNCHANGED <<named, cache, overlap, restarts>>

StartInit(k) ==
  /\ call[k].pc = "idle" \/ At(k, "create", "again")
  /\ Run(k, "init", [call[k] EXCEPT !.kind = "create"])
  /\ UNCHANGED <<dirs, named, cache, overlap, restarts>>

(* After the CLI: its directory is renamed, or the composition written here *)
(* if it failed; then the metadata, for which the directory must be there, *)
(* and the entry of the cache.                                             *)
NewId(k) == <<k, call[k].try>>

Place(k) ==
  /\ call[k].pc \in {"made", "not_made"}
  /\ named' = (named /\ call[k].pc = "not_made")
  /\ IF named \/ call[k].pc = "not_made"
     THEN /\ SetDir(NewId(k), <<>>)
          /\ cache' = cache \cup {NewId(k)}
          /\ call' = [call EXCEPT ![k].pc = "ok", ![k].id = NewId(k)]
     ELSE call' = [call EXCEPT ![k].pc = "failed"] /\ UNCHANGED <<dirs, cache>>
  /\ UNCHANGED <<procs, overlap, restarts>>

---------------------------------------------------------------------------
(* add_element: the composition is read and written back with one element  *)
(* more, then linted.                                                      *)
AddRead(k, id) ==
  /\ Project(k, "add", id)
  /\ call' = [call EXCEPT ![k] =
       [@ EXCEPT !.kind = "add", !.pc = "read", !.id = id, !.copy = dirs[id]]]
  /\ UNCHANGED <<dirs, named, cache, procs, overlap, restarts>>

(* Mutant: the element is put in place of what was read.                   *)
InsertAlone(copy, k) == <<k>>
InsertElement(copy, k) == Append(copy, k)

AddWrite(k) ==
  /\ At(k, "add", "read")
  /\ LET id == call[k].id
     IN /\ SetDir(id, InsertElement(call[k].copy, k))
        /\ overlap' = overlap \cup (Elements(dirs[id]) \ Elements(call[k].copy))
  /\ Run(k, "lint", [call[k] EXCEPT !.copy = <<>>])
  /\ UNCHANGED <<named, cache, restarts>>

(* set_composition.                                                        *)
SetWhole(k, id) ==
  /\ Project(k, "set", id)
  /\ SetDir(id, <<k>>)
  /\ overlap' = overlap \cup Elements(dirs[id])
  /\ Run(k, "lint", [call[k] EXCEPT !.kind = "set", !.id = id])
  /\ UNCHANGED <<named, cache, restarts>>

(* render, by the CLI: mcp_enabled is never set by the binary.             *)
StartRender(k, id) ==
  /\ Project(k, "render", id)
  /\ Run(k, "render", [call[k] EXCEPT !.kind = "render", !.id = id])
  /\ UNCHANGED <<dirs, named, cache, overlap, restarts>>

---------------------------------------------------------------------------
(* The process ends, whether its attempt still waits or not.  An init that *)
(* succeeded has made the directory of its name; a failing lint is part of *)
(* a successful answer.                                                    *)
After(command, ok) ==
  CASE command = "init" -> IF ok THEN "made" ELSE "not_made"
    [] command = "lint" -> "ok"
    [] command = "render" -> IF ok THEN "ok" ELSE "failed"

ProcessEnds(p, ok) ==
  /\ procs' = procs \ {p}
  /\ named' = (named \/ (ok /\ p[3] = "init"))
  /\ call' = IF call[p[1]].try = p[2] /\ call[p[1]].pc = p[3]
             THEN [call EXCEPT ![p[1]].pc = After(p[3], ok)] ELSE call
  /\ UNCHANGED <<dirs, cache, overlap, restarts>>

(* The 30 seconds are over: the future of the attempt is dropped.          *)
Drop(k) ==
  /\ call[k].pc \in Commands
  /\ call' = IF call[k].try > Retries
             THEN [call EXCEPT ![k].pc = "failed"]
             ELSE [call EXCEPT ![k].pc = "again", ![k].try = @ + 1]
  /\ UNCHANGED <<dirs, named, cache, procs, overlap, restarts>>

(* A new process of the program knows no project: those on disk are listed *)
(* and cannot be used.                                                     *)
Restart ==
  /\ restarts < MaxRestarts
  /\ restarts' = restarts + 1
  /\ cache' = {}
  /\ call' = [k \in Call |-> IF call[k].pc \in {"idle", "ok"} THEN call[k]
                             ELSE [call[k] EXCEPT !.pc = "failed", !.copy = <<>>]]
  /\ UNCHANGED <<dirs, named, procs, overlap>>

Next ==
  \/ \E k \in Call :
       \/ StartInit(k) \/ Place(k)
       \/ \E id \in cache : AddRead(k, id) \/ SetWhole(k, id) \/ StartRender(k, id)
       \/ AddWrite(k) \/ Drop(k)
  \/ \E p \in procs, ok \in BOOLEAN : ProcessEnds(p, ok)
  \/ Restart

Spec == Init /\ [][Next]_vars

---------------------------------------------------------------------------
(* list_projects: the directories with metadata.                           *)
Listed == DOMAIN dirs

TypeOK ==
  /\ DOMAIN dirs \subseteq Id /\ cache \subseteq DOMAIN dirs
  /\ named \in BOOLEAN
  /\ \A k \in Call :
       /\ call[k].kind \in Kinds \cup {"none"}
       /\ call[k].pc \in Commands \cup {"idle", "made", "not_made", "read", "again", "ok", "failed"}
       /\ call[k].try \in 1..(Retries + 1) /\ call[k].id \in Id \cup {NoProject}
  /\ procs \subseteq Call \X (1..(Retries + 1)) \X Commands

(* A create that was retried after its attempt was dropped, or ran beside  *)
(* another one of the same name, adds one project to the list or none, and *)
(* none that its caller was not told of.                                   *)
OneProjectPerCreate == \A id \in Listed : call[id[1]].id = id /\ call[id[1]].pc = "ok"

(* An element that was written stays in its composition, unless a call     *)
(* wrote it that had read it before, or set it as a whole.                 *)
LostElementsOverlap ==
  \A k \in Call : call[k].kind = "add" /\ call[k].pc \in {"lint", "ok"} /\ k \notin overlap
                  => k \in Elements(dirs[call[k].id])
=============================================================================
