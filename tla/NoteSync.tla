------------------------------ MODULE NoteSync ------------------------------
(***************************************************************************)
(* The notion tool, which copies what it writes in markdown to a note of    *)
(* the Obsidian vault, and the obsidian tool on the same vault.            *)
(*                                                                         *)
(* Blocks go to Notion in batches of at most 100, one request each; the     *)
(* note is found by the title of the page.  A request may fail, or take     *)
(* effect and its answer be lost; the runner then repeats the whole call    *)
(* (runner.rs).  Reading, searching and listing change nothing and are left *)
(* out, and so is setup, which only stores its parameters.                 *)
(***************************************************************************)
EXTENDS Naturals, Sequences

CONSTANTS
  Call,        \* tool calls
  Title,
  Linked,      \* is there an obsidian_api_key?
  MaxBatches,  \* bound: batches of one call
  Retries,     \* max_tool_retries
  MaxFaults    \* bound: requests that fail or whose answer is lost

SyncAssumption == Linked \in BOOLEAN /\ {MaxBatches, Retries, MaxFaults} \subseteq Nat

VARIABLES
  pages,     \* Notion: id -> title, body and whether it is archived
  vault,     \* Obsidian: title -> is there a note, and the texts in it
  call,      \* per Call: its arguments and where it is
  replaced,  \* history: texts whose note was deleted or written anew
  faults

vars == <<pages, vault, call, replaced, faults>>

(* A page is called by the attempt that made it.  A batch in a body is one  *)
(* of an attempt of a call; a deleted block stays, marked.                 *)
Id == Call \X (1..(Retries + 1))
NoPage == <<"none", 0>>
NoNote == [there |-> FALSE, texts |-> {}]

Creating == {"create", "entry"}
OnPage == {"append", "rename", "archive", "delete_block"}
OnNote == {"create_note", "append_content", "delete_note"}

Fresh ==
  [kind |-> "create", title |-> "none", page |-> NoPage, markdown |-> FALSE, batches |-> 1,
   at |-> 1, try |-> 1, pc |-> "idle", synced |-> FALSE]

Init ==
  /\ pages = <<>> /\ vault = [t \in Title |-> NoNote]
  /\ call = [k \in Call |-> Fresh]
  /\ replaced = {} /\ faults = 0

(* NotionTool::execute and ObsidianTool::execute.                           *)
Begin(k, c) == call[k].pc = "idle" /\ call' = [call EXCEPT ![k] = [c EXCEPT !.pc = "request"]]

Execute(k) ==
  /\ \/ \E kind \in Creating, t \in Title, md \in BOOLEAN, n \in 1..MaxBatches :
          /\ md => kind = "create"
          /\ Begin(k, [Fresh EXCEPT !.kind = kind, !.title = t, !.markdown = md, !.batches = n])
     \/ \E p \in DOMAIN pages, md \in BOOLEAN, n \in 1..MaxBatches :
          Begin(k, [Fresh EXCEPT !.kind = "append", !.page = p, !.markdown = md, !.batches = n])
     \/ \E kind \in OnPage \ {"append"}, p \in DOMAIN pages, t \in Title :
          Begin(k, [Fresh EXCEPT !.kind = kind, !.page = p, !.title = t])
     \/ \E kind \in OnNote, t \in Title :
          Begin(k, [Fresh EXCEPT !.kind = kind, !.title = t])
  /\ UNCHANGED <<pages, vault, replaced, faults>>

(* execute_with_retries: every error of these tools is repeated.            *)
Failed(c) ==
  IF c.try > Retries THEN [c EXCEPT !.pc = "failed"]
  ELSE [c EXCEPT !.pc = "request", !.at = 1, !.try = @ + 1]

(* How a request ends: taken or not, with an answer, an error, or nothing until  *)
(* the sandbox drops the attempt.                                                *)
Outcomes == {o \in [taken : BOOLEAN, heard : {"answer", "error", "nothing"}] :
               o.heard = "answer" => o.taken}

Hear(k, o, next, orElse) ==
  /\ call' = [call EXCEPT ![k] = CASE o.heard = "answer" -> next
                                    [] o.heard = "error" -> orElse
                                    [] o.heard = "nothing" -> Failed(@)]
  /\ IF o.heard = "answer" THEN UNCHANGED faults
     ELSE faults < MaxFaults /\ faults' = faults + 1

(* send_and_parse: an error status is an error.                              *)
Refused(k) == call' = [call EXCEPT ![k] = Failed(@)] /\ UNCHANGED faults

At(k, kinds, pc) == call[k].kind \in kinds /\ call[k].pc = pc
Batch(k) == [of |-> k, try |-> call[k].try, n |-> call[k].at, deleted |-> FALSE]
Done(c) == [c EXCEPT !.pc = "ok"]

---------------------------------------------------------------------------
(* create_page, create_database and add_database_entry.                      *)
NewId(k) == <<k, call[k].try>>
NewPage(k) == [title |-> call[k].title, body |-> <<Batch(k)>>, archived |-> FALSE]

(* Markdown is converted as a whole: Notion refuses more than one batch.      *)
Oversized(k) == call[k].kind = "create" /\ call[k].markdown /\ call[k].batches > 1

(* Mutant: what is beyond the first batch is left out, as add_database_entry   *)
(* does.                                                                      *)
FirstBatchOnly(c) == [c EXCEPT !.pc = "sync"]

(* The remaining batches of a page, and then its note; an entry of a database,  *)
(* and a database itself, have the first batch at most, and no note.          *)
AfterPost(c) ==
  IF c.kind = "entry" THEN Done(c)
  ELSE IF c.batches > 1 THEN [c EXCEPT !.pc = "rest", !.at = 2] ELSE [c EXCEPT !.pc = "sync"]

PostPage(k) ==
  /\ At(k, Creating, "request")
  /\ \/ Oversized(k) /\ Refused(k) /\ UNCHANGED pages
     \/ /\ ~Oversized(k)
        /\ \E o \in Outcomes :
             /\ Hear(k, o, AfterPost(call[k]), Failed(call[k]))
             /\ pages' = IF ~o.taken THEN pages
                         ELSE [p \in DOMAIN pages \cup {NewId(k)} |->
                                 IF p = NewId(k) THEN NewPage(k) ELSE pages[p]]
  /\ UNCHANGED <<vault, replaced>>

(* append_blocks_batched, of a new page or of one that is there.               *)
Target(k) == IF call[k].kind = "create" THEN NewId(k) ELSE call[k].page

AfterBatch(c) ==
  IF c.at < c.batches THEN [c EXCEPT !.at = @ + 1]
  ELSE IF c.kind = "create" THEN [c EXCEPT !.pc = "sync"]
  ELSE IF c.markdown /\ Linked THEN [c EXCEPT !.pc = "title"] ELSE Done(c)

AppendBatch(k) ==
  /\ At(k, {"create"}, "rest") \/ At(k, {"append"}, "request")
  /\ \/ pages[Target(k)].archived /\ Refused(k) /\ UNCHANGED pages
     \/ /\ ~pages[Target(k)].archived
        /\ \E o \in Outcomes :
             /\ Hear(k, o, AfterBatch(call[k]), Failed(call[k]))
             /\ pages' = IF ~o.taken THEN pages
                         ELSE [pages EXCEPT ![Target(k)].body = Append(@, Batch(k))]
  /\ UNCHANGED <<vault, replaced>>

(* update_page and delete_block.                                               *)
ChangePage(k) ==
  /\ At(k, OnPage \ {"append"}, "request")
  /\ LET p == call[k].page
     IN \E o \in Outcomes :
          /\ Hear(k, o, Done(call[k]), Failed(call[k]))
          /\ CASE ~o.taken -> UNCHANGED pages
               [] call[k].kind = "rename" -> pages' = [pages EXCEPT ![p].title = call[k].title]
               [] call[k].kind = "archive" -> pages' = [pages EXCEPT ![p].archived = TRUE]
               [] OTHER -> \E i \in DOMAIN pages[p].body :
                             pages' = [pages EXCEPT ![p].body[i].deleted = TRUE]
  /\ UNCHANGED <<vault, replaced>>

---------------------------------------------------------------------------
(* The vault.  An error of the copy is told and is none of the call.           *)
Replace(t, texts) ==
  /\ vault' = [vault EXCEPT ![t] = [there |-> TRUE, texts |-> texts]]
  /\ replaced' = replaced \cup (vault[t].texts \ texts)

Extend(t, text) ==
  /\ vault' = [vault EXCEPT ![t].texts = @ \cup {text}]
  /\ UNCHANGED replaced

(* try_sync_to_obsidian: blocks that are not markdown leave the note empty.     *)
SyncNew(k) ==
  /\ At(k, {"create"}, "sync")
  /\ IF ~Linked THEN call' = [call EXCEPT ![k] = Done(@)] /\ UNCHANGED <<vault, replaced, faults>>
     ELSE \E o \in Outcomes :
            /\ Hear(k, o, Done([call[k] EXCEPT !.synced = TRUE]), Done(call[k]))
            /\ IF ~o.taken THEN UNCHANGED <<vault, replaced>>
               ELSE Replace(call[k].title, IF call[k].markdown THEN {k} ELSE {})
  /\ UNCHANGED pages

(* The title the page has now; without one the copy is left out, untold.        *)
LookUpTitle(k) ==
  /\ At(k, {"append"}, "title")
  /\ \E o \in Outcomes :
       Hear(k, o, [call[k] EXCEPT !.pc = "sync", !.title = pages[call[k].page].title], Done(call[k]))
  /\ UNCHANGED <<pages, vault, replaced>>

(* try_sync_append_to_obsidian: an error if the note is not there.               *)
SyncAppend(k) ==
  /\ At(k, {"append"}, "sync")
  /\ LET t == call[k].title IN
     \/ /\ ~vault[t].there
        /\ call' = [call EXCEPT ![k] = Done(@)]
        /\ UNCHANGED <<vault, replaced, faults>>
     \/ /\ vault[t].there
        /\ \E o \in Outcomes :
             /\ Hear(k, o, Done([call[k] EXCEPT !.synced = TRUE]), Done(call[k]))
             /\ IF ~o.taken THEN UNCHANGED <<vault, replaced>> ELSE Extend(t, k)
  /\ UNCHANGED pages

(* create_note, append_content and delete_note of the obsidian tool: an error    *)
(* without the key, or for a note that is not there.                             *)
ChangeNote(k) ==
  /\ At(k, OnNote, "request")
  /\ LET t == call[k].title
         possible == Linked /\ (call[k].kind = "create_note" \/ vault[t].there) IN
     \/ ~possible /\ Refused(k) /\ UNCHANGED <<vault, replaced>>
     \/ /\ possible
        /\ \E o \in Outcomes :
             /\ Hear(k, o, Done(call[k]), Failed(call[k]))
             /\ CASE ~o.taken -> UNCHANGED <<vault, replaced>>
                  [] call[k].kind = "create_note" -> Replace(t, {k})
                  [] call[k].kind = "append_content" -> Extend(t, k)
                  [] OTHER -> /\ vault' = [vault EXCEPT ![t] = NoNote]
                              /\ replaced' = replaced \cup vault[t].texts
  /\ UNCHANGED pages

Next ==
  \E k \in Call :
    \/ Execute(k) \/ PostPage(k) \/ AppendBatch(k) \/ ChangePage(k)
    \/ SyncNew(k) \/ LookUpTitle(k) \/ SyncAppend(k) \/ ChangeNote(k)

Spec == Init /\ [][Next]_vars

---------------------------------------------------------------------------
TypeOK ==
  /\ DOMAIN pages \subseteq Id
  /\ \A p \in DOMAIN pages :
       /\ pages[p].title \in Title /\ pages[p].archived \in BOOLEAN
       /\ \A i \in DOMAIN pages[p].body :
            pages[p].body[i] \in [of : Call, try : Nat, n : 1..MaxBatches, deleted : BOOLEAN]
  /\ vault \in [Title -> [there : BOOLEAN, texts : SUBSET Call]]
  /\ \A k \in Call :
       /\ call[k].kind \in Creating \cup OnPage \cup OnNote
       /\ call[k].pc \in {"idle", "request", "rest", "sync", "title", "ok", "failed"}
       /\ call[k].try \in 1..(Retries + 1) /\ call[k].at \in 1..MaxBatches
  /\ replaced \subseteq Call /\ faults \in 0..MaxFaults

(* What a call reports is there.  The blocks that one of its attempts put into    *)
(* the page are its batches in order, whoever else wrote there, and all of them   *)
(* if that attempt succeeded; an attempt that failed leaves the first ones.  A     *)
(* text that was reported as synced is in the note of its title, unless the note   *)
(* was deleted or written anew.                                                    *)
Places(k, try, p) ==
  {i \in DOMAIN pages[p].body : pages[p].body[i].of = k /\ pages[p].body[i].try = try}

(* They are the batches 1 to m, one after the other.                               *)
Numbered(k, try, p, m) ==
  /\ {pages[p].body[i].n : i \in Places(k, try, p)} = 1..m
  /\ \A i, j \in Places(k, try, p) : i < j => pages[p].body[i].n < pages[p].body[j].n

ReportedTextThere ==
  \A k \in Call :
    /\ call[k].kind \in {"create", "append"} =>
         \A try \in 1..(Retries + 1) :
           LET p == IF call[k].kind = "create" THEN <<k, try>> ELSE call[k].page IN
           /\ p \in DOMAIN pages => \E m \in 0..call[k].batches : Numbered(k, try, p, m)
           /\ call[k].pc = "ok" /\ call[k].try = try =>
                p \in DOMAIN pages /\ Numbered(k, try, p, call[k].batches)
    /\ call[k].synced /\ call[k].markdown => k \in vault[call[k].title].texts \cup replaced
=============================================================================
