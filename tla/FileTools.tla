----------------------------- MODULE FileTools -----------------------------
(***************************************************************************)
(* The tools that change text files: edit, write, apply_patch and          *)
(* skill_create (and read, which looks at them).  Calls of one batch and of *)
(* other chats work on the same files, without a lock.                     *)
(*                                                                         *)
(* tokio::fs runs each directory or file operation on a blocking thread.   *)
(* The sandbox drops an attempt after 30 seconds and the runner repeats it  *)
(* (runner.rs); what the attempt had handed to a thread still happens.      *)
(* Writing truncates the file first and fills it then.                     *)
(*                                                                         *)
(* The text of a file is what is left of the original (base) and how often  *)
(* it has the change of each call.                                         *)
(***************************************************************************)
EXTENDS Naturals, Sequences

CONSTANTS
  Call,      \* tool calls
  File, Present,  \* files, and those that are there at the start
  Edits,     \* the calls of edit, each by a name: how often the original has
             \* the old string, how often the edited text (the new string may
             \* contain the old one), and replace_all
  Retries,   \* max_tool_retries
  MaxFaults  \* bound: file operations that fail, and crashes

FileAssumption ==
  /\ Present \subseteq File /\ {Retries, MaxFaults} \subseteq Nat
  /\ Edits \in [DOMAIN Edits -> [found : Nat, again : Nat, all : BOOLEAN]]
  /\ DOMAIN Edits \cap {"patch", "write", "skill", "read"} = {}

VARIABLES
  disk,       \* File -> its text
  dirs,       \* the files whose directory is there
  call,       \* per Call: its arguments and where it is
  ops,        \* operations on the blocking threads
  disturbed,  \* history: files that two attempts wrote at once, or that
              \* were rewritten as a whole, patched while cut, or left cut
  faults

vars == <<disk, dirs, call, ops, disturbed, faults>>

Changing == DOMAIN Edits \cup {"patch"}
Writing == {"write", "skill"}
Kinds == Changing \cup Writing \cup {"read"}

Unchanged == [k \in Call |-> 0]
NoText(state) == [state |-> state, base |-> FALSE, n |-> Unchanged]
Text(base, n) == [state |-> "text", base |-> base, n |-> n]

Fresh == [kind |-> "read", files |-> <<>>, at |-> 1, try |-> 1, pc |-> "idle"]

Init ==
  /\ disk = [f \in File |-> IF f \in Present THEN Text(TRUE, Unchanged) ELSE NoText("missing")]
  /\ dirs = Present
  /\ call = [k \in Call |-> Fresh]
  /\ ops = {} /\ disturbed = {} /\ faults = 0

(* A patch names its files; the other tools take one.                      *)
Files(kind) ==
  {<<f>> : f \in IF kind = "skill" THEN File \ Present ELSE File}
    \cup (IF kind = "patch" THEN {p \in File \X File : p[1] # p[2]} ELSE {})

Execute(k) ==
  /\ call[k].pc = "idle"
  /\ \E kind \in Kinds : \E files \in Files(kind) :
       call' = [call EXCEPT ![k] = [Fresh EXCEPT !.kind = kind, !.files = files, !.pc = "start"]]
  /\ UNCHANGED <<disk, dirs, ops, disturbed, faults>>

Current(k) == call[k].files[call[k].at]

Goto(k, pc) == call' = [call EXCEPT ![k].pc = pc]

(* execute_with_retries: none of the errors here is of a kind that is not   *)
(* repeated.                                                               *)
Failed(c) ==
  IF c.try > Retries THEN [c EXCEPT !.pc = "failed"]
  ELSE [c EXCEPT !.pc = "start", !.at = 1, !.try = @ + 1]

Fail(k) == call' = [call EXCEPT ![k] = Failed(@)]

Op(k, what, data) ==
  [by |-> k, try |-> call[k].try, what |-> what, file |-> Current(k), data |-> data, cut |-> FALSE]

Hand(k, what, data) ==
  /\ ops' = ops \cup {Op(k, what, data)}
  /\ Goto(k, what)

(* edit: the old string is there once, or replace_all takes every one.        *)
Replaces(edit, count) == count = 1 \/ (count > 1 /\ edit.all)

(* The change can be made again to the text it has made: a patch always can.  *)
Repeats(kind) ==
  kind = "patch" \/ (kind \in DOMAIN Edits /\ Replaces(Edits[kind], Edits[kind].again))

(* Somebody writes the file: another call, or an earlier attempt of one that  *)
(* repeats its change.                                                       *)
Shared(k) ==
  \E o \in ops : /\ o.what = "write" /\ o.file = Current(k)
                 /\ o.by # k \/ Repeats(call[k].kind)

DisturbedIf(condition, f) == disturbed' = disturbed \cup (IF condition THEN {f} ELSE {})

(* read: what it finds, even an empty text that is about to be filled.      *)
Read(k) ==
  /\ call[k].pc = "start" /\ call[k].kind = "read"
  /\ IF disk[Current(k)].state = "missing" THEN Fail(k) ELSE Goto(k, "ok")
  /\ UNCHANGED <<disk, dirs, ops, disturbed, faults>>

(* Mutant: an old_string that is not there is no error.                     *)
MatchesAnyway(text, k) == text.state # "missing"

(* content.matches(old_string): the old string of a call is of the original.  *)
Occurrences(text, k) ==
  LET edit == Edits[call[k].kind] IN
  IF ~text.base THEN 0 ELSE IF text.n[k] = 0 THEN edit.found ELSE edit.again

Matches(text, k) == Replaces(Edits[call[k].kind], Occurrences(text, k))

Changed(text, k) == Text(text.base, [text.n EXCEPT ![k] = @ + 1])

(* edit and apply_patch read a file and write it back.  apply_hunks goes by   *)
(* line numbers: it compares no line, and never fails.                       *)
ReadToChange(k) ==
  /\ call[k].pc = "start" /\ call[k].kind \in Changing
  /\ LET text == disk[Current(k)] IN
     IF text.state = "missing" \/ (call[k].kind \in DOMAIN Edits /\ ~Matches(text, k))
     THEN Fail(k) /\ UNCHANGED <<ops, disturbed>>
     ELSE /\ Hand(k, "write", Changed(text, k))
          /\ DisturbedIf(Shared(k) \/ text.state # "text", Current(k))
  /\ UNCHANGED <<disk, dirs, faults>>

(* skill_create: its directory may not be there yet.                         *)
CheckNew(k) ==
  /\ call[k].pc = "start" /\ call[k].kind = "skill"
  /\ IF Current(k) \in dirs THEN Fail(k) /\ UNCHANGED ops
     ELSE Hand(k, "mkdir", NoText("missing"))
  /\ UNCHANGED <<disk, dirs, disturbed, faults>>

(* write: create_dir_all of the parent first.                                *)
StartWrite(k) ==
  /\ call[k].pc = "start" /\ call[k].kind = "write"
  /\ Hand(k, "mkdir", NoText("missing"))
  /\ UNCHANGED <<disk, dirs, disturbed, faults>>

WriteNew(k) ==
  /\ call[k].pc = "made"
  /\ Hand(k, "write", Text(FALSE, [Unchanged EXCEPT ![k] = 1]))
  /\ DisturbedIf(Shared(k), Current(k))
  /\ UNCHANGED <<disk, dirs, faults>>

---------------------------------------------------------------------------
(* The blocking threads.                                                     *)

(* An operation is over: the attempt that waits for it goes on.              *)
Waits(o) == call[o.by].try = o.try /\ call[o.by].pc = o.what

Over(o, next(_)) ==
  /\ ops' = ops \ {o}
  /\ call' = IF Waits(o) THEN [call EXCEPT ![o.by] = next(@)] ELSE call

MakeDir(o) ==
  /\ o.what = "mkdir"
  /\ dirs' = dirs \cup {o.file}
  /\ Over(o, LAMBDA c : [c EXCEPT !.pc = "made"])
  /\ UNCHANGED <<disk, disturbed, faults>>

Truncate(o) ==
  /\ o.what = "write" /\ ~o.cut
  /\ ops' = (ops \ {o}) \cup {[o EXCEPT !.cut = TRUE]}
  /\ disk' = [disk EXCEPT ![o.file] = NoText("cut")]
  /\ DisturbedIf(/\ call[o.by].kind \in Writing
                 /\ disk[o.file] \notin {NoText("missing"), NoText("cut"), o.data}, o.file)
  /\ UNCHANGED <<dirs, call, faults>>

(* A patch goes on with its next file.                                       *)
AfterWrite(c) ==
  IF c.at < Len(c.files) THEN [c EXCEPT !.pc = "start", !.at = @ + 1]
  ELSE [c EXCEPT !.pc = "ok"]

(* Other text that a thread has put there since stays behind a shorter one.   *)
Fill(o) ==
  /\ o.what = "write" /\ o.cut
  /\ \/ disk' = [disk EXCEPT ![o.file] = o.data]
     \/ /\ disk[o.file] \notin {NoText("cut"), o.data}
        /\ disk' = [disk EXCEPT ![o.file] = NoText("mixed")]
  /\ Over(o, AfterWrite)
  /\ UNCHANGED <<dirs, disturbed, faults>>

OpFails(o) ==
  /\ faults < MaxFaults /\ faults' = faults + 1
  /\ Over(o, Failed)
  /\ DisturbedIf(o.cut, o.file)
  /\ UNCHANGED <<disk, dirs>>

---------------------------------------------------------------------------
(* The sandbox's limit: the attempt is dropped, and repeated.                *)
Open(k) == call[k].pc \notin {"idle", "ok", "failed"}

AttemptTimeout(k) ==
  /\ Open(k) /\ Fail(k)
  /\ UNCHANGED <<disk, dirs, ops, disturbed, faults>>

(* The program ends, and with it its threads.                                *)
Crash ==
  /\ faults < MaxFaults /\ faults' = faults + 1
  /\ call' = [k \in Call |-> IF Open(k) THEN [call[k] EXCEPT !.pc = "failed"] ELSE call[k]]
  /\ ops' = {}
  /\ disturbed' = disturbed \cup {o.file : o \in {p \in ops : p.cut}}
  /\ UNCHANGED <<disk, dirs>>

Next ==
  \/ \E k \in Call :
       \/ Execute(k) \/ Read(k) \/ ReadToChange(k) \/ CheckNew(k)
       \/ StartWrite(k) \/ WriteNew(k) \/ AttemptTimeout(k)
  \/ \E o \in ops : MakeDir(o) \/ Truncate(o) \/ Fill(o) \/ OpFails(o)
  \/ Crash

Spec == Init /\ [][Next]_vars

---------------------------------------------------------------------------
TypeOK ==
  /\ \A f \in File :
       /\ disk[f].state \in {"text", "cut", "mixed", "missing"}
       /\ disk[f].base \in BOOLEAN /\ disk[f].n \in [Call -> Nat]
  /\ dirs \subseteq File /\ disturbed \subseteq File /\ faults \in 0..MaxFaults
  /\ \A k \in Call :
       /\ call[k].kind \in Kinds /\ call[k].files \in Seq(File)
       /\ call[k].try \in 1..(Retries + 1)
       /\ call[k].pc \in {"idle", "start", "mkdir", "made", "write", "ok", "failed"}
  /\ \A o \in ops : o.by \in Call /\ o.file \in dirs \cup {Current(o.by)}

(* Unless two attempts wrote a file at once, it was rewritten, patched while   *)
(* it was cut, or left cut by a failure, it keeps its text and has every       *)
(* change that was reported, and once however often it was tried; a patch, and *)
(* an edit whose new string has the old one, at most once per attempt.         *)
(* Attempts that were dropped may still write then.                            *)
ReportedChangesKept ==
  \A f \in File \ disturbed : (\A o \in ops : o.file = f => ~o.cut) =>
    /\ f \in Present => disk[f].base
    /\ \A k \in Call : /\ call[k].pc = "ok" /\ call[k].kind # "read"
                       /\ \E i \in DOMAIN call[k].files : call[k].files[i] = f
         => disk[f].n[k] \in 1..(IF Repeats(call[k].kind) THEN call[k].try ELSE 1)
=============================================================================
