---------------------------- MODULE TelegramLoop ----------------------------
(***************************************************************************)
(* The Telegram side of the command line binary: telegram_agent_loop       *)
(* spawns one tokio task per inbound message, and the tasks share          *)
(*   - chat_states, the in-memory map behind a tokio Mutex, which holds    *)
(*     the conversation and the busy flag of a (chat, thread) pair,        *)
(*   - chat_map and the conversations table, both in SQLite, each call     *)
(*     atomic because it runs under the connection's mutex.                *)
(* A task's program counter stops wherever the code awaits, unlocks or     *)
(* leaves one critical section for another: between two of its steps any   *)
(* other task may run.                                                     *)
(*                                                                         *)
(* A conversation's content is the set of user messages it holds; a        *)
(* message stands for the whole turn the agent appends after it.           *)
(***************************************************************************)
EXTENDS Naturals, FiniteSets

CONSTANTS
  Msgs,         \* inbound channel messages
  Keys,         \* (chat_id, thread_id) pairs
  KeyOf,        \* [Msgs -> Keys], where each message comes from
  Resets,       \* the messages that carry the structured reset flag
  ConvIds,      \* the UUIDs conversations may get
  NoConv,       \* no conversation
  NoTask,       \* no holder of the chat_states mutex
  MaxFaults,    \* storage calls that may fail
  MaxRestarts,  \* times the process may stop and start again
  MaxDeletes    \* DELETE /api/conversations/{id} calls

ASSUME TelegramAssumption ==
  /\ KeyOf \in [Msgs -> Keys]
  /\ Resets \subseteq Msgs
  /\ NoConv \notin ConvIds
  /\ NoTask \notin Msgs
  /\ MaxFaults \in Nat /\ MaxRestarts \in Nat /\ MaxDeletes \in Nat

VARIABLES
  pc,             \* where each message's task is
  conv_id,        \* the conversation the task resolved
  snapshot,       \* the task's private copy of the conversation
  outcome,        \* the answer the task sends
  lock,           \* holder of the chat_states mutex across an await
  chat_states,    \* per key: conversation and busy flag
  chat_map,       \* persisted key -> conversation
  rows,           \* conversations with a row in the table
  messages,       \* the messages each row holds
  created,        \* UUIDs already drawn
  faults, restarts, deletes,
  saved,          \* history: tasks whose final save succeeded
  overlapped      \* history: conversations two tasks held copies of at once

task == <<pc, conv_id, snapshot, outcome>>
memory == <<lock, chat_states>>
disk == <<chat_map, rows, messages, created>>
history == <<saved, overlapped>>
vars == <<task, memory, disk, history, faults, restarts, deletes>>

Stages == {"unsent", "check", "notify", "dropEntry", "dropMap", "resolve",
           "persist", "apologise", "mark", "load", "run", "clear", "reply",
           "done", "lost"}
Outcomes == {"none", "busy", "internal", "agentError", "stalled", "answer"}

(* A key the HashMap does not hold. *)
Absent == [conv_id |-> NoConv, busy |-> FALSE]
Present(k) == chat_states[k] # Absent

Ended(m) == pc[m] \in {"unsent", "done", "lost"}

-----------------------------------------------------------------------------
Init ==
  /\ pc = [m \in Msgs |-> "unsent"]
  /\ conv_id = [m \in Msgs |-> NoConv]
  /\ snapshot = [m \in Msgs |-> {}]
  /\ outcome = [m \in Msgs |-> "none"]
  /\ lock = NoTask
  /\ chat_states = [k \in Keys |-> Absent]
  /\ chat_map = [k \in Keys |-> NoConv]
  /\ rows = {} /\ created = {}
  /\ messages = [c \in ConvIds |-> {}]
  /\ faults = 0 /\ restarts = 0 /\ deletes = 0
  /\ saved = {} /\ overlapped = {}

Goto(m, from, to) ==
  /\ pc[m] = from
  /\ pc' = [pc EXCEPT ![m] = to]

(* n of the storage calls of a step fail, within the bound on faults.      *)
Spend(n) == faults + n <= MaxFaults /\ faults' = faults + n
Fail == Spend(1)
Succeed == Spend(0)

(* rx.recv() followed by tokio::spawn.                                     *)
Arrive(m) ==
  /\ Goto(m, "unsent", "check")
  /\ UNCHANGED <<conv_id, snapshot, outcome, memory, disk, history, faults,
                 restarts, deletes>>

(* First critical section.  A busy chat is answered at once, and the guard *)
(* on chat_states stays alive while the notice is sent.                    *)
CheckBusy(m) ==
  /\ lock = NoTask
  /\ \/ /\ chat_states[KeyOf[m]].busy
        /\ Goto(m, "check", "notify")
        /\ outcome' = [outcome EXCEPT ![m] = "busy"]
        /\ lock' = m
     \/ /\ ~chat_states[KeyOf[m]].busy
        /\ Goto(m, "check", IF m \in Resets THEN "dropEntry" ELSE "resolve")
        /\ UNCHANGED <<outcome, lock>>
  /\ UNCHANGED <<conv_id, snapshot, chat_states, disk, history, faults,
                 restarts, deletes>>

(* send_text has returned, whatever its result; the guard is dropped.      *)
ReleaseAfterSend(m) ==
  /\ pc[m] \in {"notify", "apologise"}
  /\ pc' = [pc EXCEPT ![m] = "done"]
  /\ lock' = NoTask
  /\ UNCHANGED <<conv_id, snapshot, outcome, chat_states, disk, history,
                 faults, restarts, deletes>>

DropEntry(m) ==
  /\ lock = NoTask
  /\ Goto(m, "dropEntry", "dropMap")
  /\ chat_states' = [chat_states EXCEPT ![KeyOf[m]] = Absent]
  /\ UNCHANGED <<conv_id, snapshot, outcome, lock, disk, history, faults,
                 restarts, deletes>>

(* ChatMapStore::remove; a failure is only logged.                         *)
DropMap(m) ==
  /\ Goto(m, "dropMap", "done")
  /\ \/ Fail /\ UNCHANGED chat_map
     \/ Succeed /\ chat_map' = [chat_map EXCEPT ![KeyOf[m]] = NoConv]
  /\ UNCHANGED <<conv_id, snapshot, outcome, memory, rows, messages, created,
                 history, restarts, deletes>>

-----------------------------------------------------------------------------
(* Mutant: the in-memory map is keyed by chat, not by (chat, thread).      *)
AdoptForEveryThread(m, c) ==
  chat_states' = [k \in Keys |-> [conv_id |-> c, busy |-> FALSE]]

(* Second critical section: the conversation comes from memory, else from  *)
(* the chat map, else it is created.                                       *)
Adopt(m, c) ==
  chat_states' =
    [chat_states EXCEPT ![KeyOf[m]] = [conv_id |-> c, busy |-> FALSE]]

(* ConversationStore::create, which saves the empty conversation.          *)
CreateConversation(c) ==
  /\ c \notin created
  /\ created' = created \cup {c}
  /\ rows' = rows \cup {c}

ResolveInMemory(m) ==
  /\ lock = NoTask /\ Present(KeyOf[m])
  /\ Goto(m, "resolve", "mark")
  /\ conv_id' = [conv_id EXCEPT ![m] = chat_states[KeyOf[m]].conv_id]
  /\ UNCHANGED <<snapshot, outcome, memory, disk, history, faults, restarts,
                 deletes>>

ResolveFromMap(m) ==
  /\ lock = NoTask /\ ~Present(KeyOf[m])
  /\ chat_map[KeyOf[m]] # NoConv
  /\ Goto(m, "resolve", "mark")
  /\ conv_id' = [conv_id EXCEPT ![m] = chat_map[KeyOf[m]]]
  /\ Adopt(m, chat_map[KeyOf[m]])
  /\ UNCHANGED <<snapshot, outcome, lock, disk, history, faults, restarts,
                 deletes>>

(* lookup(..).ok().flatten(): a failed lookup looks like a missing mapping *)
(* and the chat gets a new conversation, entered in memory first.          *)
ResolveByCreating(m) ==
  /\ lock = NoTask /\ ~Present(KeyOf[m])
  /\ Goto(m, "resolve", "persist")
  /\ \/ chat_map[KeyOf[m]] = NoConv /\ Succeed
     \/ Fail
  /\ \E c \in ConvIds : CreateConversation(c) /\ Adopt(m, c)
  /\ lock' = m
  /\ UNCHANGED <<conv_id, snapshot, outcome, chat_map, messages, history,
                 restarts, deletes>>

(* Mutant: the new conversation is not recorded in the chat map.           *)
PersistNothing(m) ==
  /\ Goto(m, "persist", "mark")
  /\ conv_id' = [conv_id EXCEPT ![m] = chat_states[KeyOf[m]].conv_id]
  /\ lock' = NoTask
  /\ UNCHANGED <<snapshot, outcome, chat_states, disk, history, faults,
                 restarts, deletes>>

(* ChatMapStore::upsert, a second statement under the same guard: a stop   *)
(* before it leaves an empty conversation that nothing refers to.  A       *)
(* failure is only logged; the guard is dropped.                           *)
PersistMapping(m) ==
  /\ Goto(m, "persist", "mark")
  /\ conv_id' = [conv_id EXCEPT ![m] = chat_states[KeyOf[m]].conv_id]
  /\ \/ /\ Succeed
        /\ chat_map' =
             [chat_map EXCEPT ![KeyOf[m]] = chat_states[KeyOf[m]].conv_id]
     \/ /\ Fail
        /\ UNCHANGED chat_map
  /\ lock' = NoTask
  /\ UNCHANGED <<snapshot, outcome, chat_states, rows, messages, created,
                 history, restarts, deletes>>

(* create() failed: the apology is sent with the guard still held.         *)
ResolveFails(m) ==
  /\ lock = NoTask /\ ~Present(KeyOf[m])
  /\ Spend(IF chat_map[KeyOf[m]] = NoConv THEN 1 ELSE 2)
  /\ Goto(m, "resolve", "apologise")
  /\ outcome' = [outcome EXCEPT ![m] = "internal"]
  /\ lock' = m
  /\ UNCHANGED <<conv_id, snapshot, chat_states, disk, history, restarts,
                 deletes>>

(* Mutant: the guard on chat_states is kept for the run.                   *)
MarkBusyHoldingLock(m) ==
  /\ lock = NoTask
  /\ Goto(m, "mark", "load")
  /\ chat_states' = [chat_states EXCEPT ![KeyOf[m]].busy = TRUE]
  /\ lock' = m
  /\ UNCHANGED <<conv_id, snapshot, outcome, disk, history, faults, restarts,
                 deletes>>

(* Third critical section: the flag the first one tested is set only now.  *)
MarkBusy(m) ==
  /\ lock = NoTask
  /\ Goto(m, "mark", "load")
  /\ chat_states' = IF Present(KeyOf[m])
                    THEN [chat_states EXCEPT ![KeyOf[m]].busy = TRUE]
                    ELSE chat_states
  /\ UNCHANGED <<conv_id, snapshot, outcome, lock, disk, history, faults,
                 restarts, deletes>>

-----------------------------------------------------------------------------
(* Mutant: the copy starts empty instead of from the stored conversation.  *)
LoadEmpty(m) ==
  /\ conv_id[m] \in rows
  /\ Goto(m, "load", "run")
  /\ snapshot' = [snapshot EXCEPT ![m] = {m}]
  /\ UNCHANGED <<conv_id, outcome, memory, disk, history, faults, restarts,
                 deletes>>

(* process_telegram_message: ConversationStore::get and push of the user   *)
(* message into the private copy.                                          *)
Load(m) ==
  /\ conv_id[m] \in rows
  /\ Goto(m, "load", "run")
  /\ snapshot' = [snapshot EXCEPT ![m] = messages[conv_id[m]] \cup {m}]
  /\ overlapped' =
       IF \E n \in Msgs : pc[n] = "run" /\ conv_id[n] = conv_id[m]
       THEN overlapped \cup {conv_id[m]} ELSE overlapped
  /\ UNCHANGED <<conv_id, outcome, memory, disk, saved, faults, restarts,
                 deletes>>

(* Mutant: the early return on a failed load skips the busy clearing.      *)
LoadFailsKeepingMark(m) ==
  /\ IF conv_id[m] \in rows THEN Fail ELSE Succeed
  /\ Goto(m, "load", "reply")
  /\ outcome' = [outcome EXCEPT ![m] = "internal"]
  /\ UNCHANGED <<conv_id, snapshot, memory, disk, history, restarts, deletes>>

LoadFails(m) ==
  /\ IF conv_id[m] \in rows THEN Fail ELSE Succeed
  /\ Goto(m, "load", "clear")
  /\ outcome' = [outcome EXCEPT ![m] = "internal"]
  /\ UNCHANGED <<conv_id, snapshot, memory, disk, history, restarts, deletes>>

(* The agent future or the heartbeat monitor finishes first; the private   *)
(* copy is saved in every case, and a save that fails is only logged.      *)
FinishRun(m) ==
  /\ Goto(m, "run", "clear")
  /\ \E o \in {"answer", "agentError", "stalled"} :
       outcome' = [outcome EXCEPT ![m] = o]
  /\ \/ /\ Succeed
        /\ rows' = rows \cup {conv_id[m]}
        /\ messages' = [messages EXCEPT ![conv_id[m]] = snapshot[m]]
        /\ saved' = saved \cup {m}
     \/ /\ Fail
        /\ UNCHANGED <<rows, messages, saved>>
  /\ UNCHANGED <<conv_id, snapshot, memory, chat_map, created, overlapped,
                 restarts, deletes>>

(* Fourth critical section.                                                *)
ClearBusy(m) ==
  /\ lock = NoTask
  /\ Goto(m, "clear", "reply")
  /\ chat_states' = IF Present(KeyOf[m])
                    THEN [chat_states EXCEPT ![KeyOf[m]].busy = FALSE]
                    ELSE chat_states
  /\ UNCHANGED <<conv_id, snapshot, outcome, lock, disk, history, faults,
                 restarts, deletes>>

(* The reply is sent without the lock; a failed send is only logged.       *)
SendReply(m) ==
  /\ Goto(m, "reply", "done")
  /\ UNCHANGED <<conv_id, snapshot, outcome, memory, disk, history, faults,
                 restarts, deletes>>

-----------------------------------------------------------------------------
(* The gateway's DELETE handler removes the row; chat_map is not touched.  *)
DeleteConversation(c) ==
  /\ c \in rows /\ deletes < MaxDeletes
  /\ rows' = rows \ {c}
  /\ messages' = [messages EXCEPT ![c] = {}]
  /\ deletes' = deletes + 1
  /\ UNCHANGED <<task, memory, chat_map, created, history, faults, restarts>>

(* The process stops (a crash, ctrl-c, or a panic: release builds abort)   *)
(* and starts again: tasks and chat_states are gone, SQLite stays.         *)
Restart ==
  /\ restarts < MaxRestarts
  /\ restarts' = restarts + 1
  /\ pc' = [m \in Msgs |-> IF Ended(m) THEN pc[m] ELSE "lost"]
  /\ lock' = NoTask
  /\ chat_states' = [k \in Keys |-> Absent]
  /\ snapshot' = [m \in Msgs |-> {}]
  /\ UNCHANGED <<conv_id, outcome, disk, history, faults, deletes>>

(* A task's own steps; how long a run takes is up to the model provider.   *)
OwnStep(m) ==
  \/ CheckBusy(m) \/ ReleaseAfterSend(m) \/ DropEntry(m) \/ DropMap(m)
  \/ ResolveInMemory(m) \/ ResolveFromMap(m) \/ ResolveByCreating(m)
  \/ PersistMapping(m) \/ ResolveFails(m) \/ MarkBusy(m) \/ Load(m)
  \/ LoadFails(m) \/ ClearBusy(m) \/ SendReply(m)

Next ==
  \/ \E m \in Msgs : Arrive(m) \/ OwnStep(m) \/ FinishRun(m)
  \/ \E c \in ConvIds : DeleteConversation(c)
  \/ Restart

Spec == Init /\ [][Next]_vars

-----------------------------------------------------------------------------
(* The tokio Mutex hands the lock over in FIFO order, so a task waiting    *)
(* for a lock that is free again and again gets it (strong fairness);      *)
(* sends time out and storage calls return.  A run ends for the messages   *)
(* in Bounded only: the heartbeat bounds silence, not the length of a run. *)
Fairness(Bounded) ==
  /\ \A m \in Msgs : SF_vars(OwnStep(m))
  /\ \A m \in Bounded : WF_vars(FinishRun(m))

-----------------------------------------------------------------------------
(* Every variable keeps the shape the code gives it.                       *)
TypeOK ==
  /\ pc \in [Msgs -> Stages]
  /\ conv_id \in [Msgs -> ConvIds \cup {NoConv}]
  /\ snapshot \in [Msgs -> SUBSET Msgs]
  /\ outcome \in [Msgs -> Outcomes]
  /\ lock \in Msgs \cup {NoTask}
  /\ chat_states \in [Keys -> [conv_id : ConvIds \cup {NoConv}, busy : BOOLEAN]]
  /\ chat_map \in [Keys -> ConvIds \cup {NoConv}]
  /\ rows \subseteq ConvIds /\ created \subseteq ConvIds
  /\ messages \in [ConvIds -> SUBSET Msgs]
  /\ faults \in 0..MaxFaults
  /\ restarts \in 0..MaxRestarts
  /\ deletes \in 0..MaxDeletes
  /\ saved \subseteq Msgs /\ overlapped \subseteq ConvIds

(* A busy flag is never left behind: while a chat is marked busy one of    *)
(* its tasks is still on the way to the step that clears the mark, also    *)
(* when storage fails, entries are reset or the process restarted.         *)
BusyHasOwner ==
  \A k \in Keys : chat_states[k].busy =>
    \E m \in Msgs : KeyOf[m] = k /\ pc[m] \in {"load", "run", "clear"}

(* get-run-save loses a saved turn only when two runs held copies of the   *)
(* conversation at once; deletions that a late save undoes, failed saves   *)
(* and restarts never do.                                                  *)
LostTurnsOverlap ==
  \A m \in saved :
    conv_id[m] \in rows \ overlapped => m \in messages[conv_id[m]]

(* Without storage faults and resets a chat keeps one conversation: tasks  *)
(* that race to create it agree, and a restart finds it again, also when   *)
(* it fell between the creation of a conversation and its mapping.         *)
OneConversationPerChat ==
  faults = 0 /\ (\A r \in Resets : pc[r] = "unsent") =>
    \A m, n \in Msgs :
      KeyOf[m] = KeyOf[n] /\ NoConv \notin {conv_id[m], conv_id[n]}
        => conv_id[m] = conv_id[n]

(* No conversation ever mixes the messages of two chats or threads.        *)
ChatsIsolated ==
  \A c \in ConvIds : \A m, n \in messages[c] : KeyOf[m] = KeyOf[n]

(* "Within a single chat+thread, messages are serialized": two runs of one *)
(* chat are never in progress together.                                    *)
MessagesSerialized ==
  \A m, n \in Msgs :
    KeyOf[m] = KeyOf[n] /\ pc[m] = "run" /\ pc[n] = "run" => m = n
=============================================================================
