------------------------ MODULE TelegramLoop_proofs ------------------------
(***************************************************************************)
(* The Telegram loop for any number of messages, chats, conversations,     *)
(* failing storage calls, restarts and deletions.                          *)
(***************************************************************************)
EXTENDS TelegramLoop, TLAPS

Before == {"unsent", "check", "notify", "dropEntry", "dropMap", "resolve",
           "persist"}
Resolved == {"mark", "load", "run", "clear", "reply"}

(* A task has a conversation exactly from the second critical section on.  *)
Progress ==
  \A m \in Msgs :
    /\ pc[m] \in Before => conv_id[m] = NoConv
    /\ pc[m] \in Resolved => conv_id[m] # NoConv
    /\ pc[m] \in {"dropEntry", "dropMap"} => m \in Resets
    /\ m \in saved => pc[m] \in {"clear", "reply", "done", "lost"}
                      /\ conv_id[m] # NoConv

(* An entry of chat_states without a conversation is no entry.             *)
EntriesHaveConversations ==
  \A k \in Keys : chat_states[k].conv_id = NoConv => chat_states[k] = Absent

(* A task that sends a notice, or creates a conversation, under the guard  *)
(* of chat_states has it to itself; the entry it made is still there.      *)
GuardHeld ==
  \A m \in Msgs :
    /\ pc[m] \in {"notify", "apologise", "persist"} => lock = m
    /\ pc[m] = "persist" => chat_states[KeyOf[m]].conv_id # NoConv

(* The places that hold a chat's conversation.                             *)
Refers(k, c) ==
  \/ chat_states[k].conv_id = c
  \/ chat_map[k] = c
  \/ \E m \in Msgs : KeyOf[m] = k /\ conv_id[m] = c

(* Only drawn UUIDs are referred to, each by one chat.                     *)
ReferredCreated == \A k \in Keys, c \in ConvIds : Refers(k, c) => c \in created

OwnersUnique ==
  \A k, l \in Keys, c \in ConvIds : Refers(k, c) /\ Refers(l, c) => k = l

(* A conversation, and every copy of it, holds only its own tasks' turns.  *)
ContentOwned ==
  /\ \A c \in ConvIds : \A m \in messages[c] : conv_id[m] = c
  /\ \A m \in Msgs : pc[m] = "run" =>
       \A n \in snapshot[m] : conv_id[n] = conv_id[m]

(* Two copies of a conversation at once have been recorded.                *)
OverlapsRecorded ==
  \A m, n \in Msgs :
    /\ pc[m] = "run" /\ pc[n] = "run" /\ m # n
    /\ conv_id[m] = conv_id[n]
    => conv_id[m] \in overlapped

(* A lone copy holds its own turn and every turn saved before it.          *)
CopiesComplete ==
  \A m \in Msgs : pc[m] = "run" /\ conv_id[m] \notin overlapped =>
    /\ m \in snapshot[m]
    /\ \A n \in saved : conv_id[n] = conv_id[m] => n \in snapshot[m]

(* Without faults and resets the map knows what memory and tasks know, but *)
(* for a conversation that is being created.                               *)
Quiet == faults = 0 /\ \A r \in Resets : pc[r] = "unsent"
Creating(k) == \E m \in Msgs : KeyOf[m] = k /\ pc[m] = "persist"

MapAgrees ==
  Quiet => /\ \A k \in Keys :
                IF Creating(k) THEN chat_map[k] = NoConv
                ELSE chat_states[k].conv_id \in {NoConv, chat_map[k]}
           /\ \A m \in Msgs : conv_id[m] \in {NoConv, chat_map[KeyOf[m]]}

IInv ==
  /\ TypeOK /\ BusyHasOwner
  /\ Progress /\ EntriesHaveConversations /\ GuardHeld /\ ReferredCreated /\ OwnersUnique
  /\ ContentOwned /\ OverlapsRecorded /\ CopiesComplete /\ LostTurnsOverlap
  /\ MapAgrees

-----------------------------------------------------------------------------
(* The type invariant is preserved by every step.                          *)
LEMMA TypeStep == TypeOK /\ Progress /\ [Next]_vars => TypeOK'
<1> SUFFICES ASSUME TypeOK, Progress, [Next]_vars PROVE TypeOK'
  OBVIOUS
<1> USE TelegramAssumption DEF TypeOK, Stages, Outcomes, Goto, task, memory,
        disk, history, Absent, Spend, Fail, Succeed
<1>1. ASSUME NEW m \in Msgs, Arrive(m) PROVE TypeOK'
  BY <1>1 DEF Arrive
<1>2. ASSUME NEW m \in Msgs, CheckBusy(m) PROVE TypeOK'
  <2>1. pc' \in [Msgs -> Stages] /\ lock' \in Msgs \cup {NoTask}
    BY <1>2 DEF CheckBusy
  <2>2. outcome' \in [Msgs -> Outcomes]
    BY <1>2 DEF CheckBusy
  <2>3. QED
    BY <1>2, <2>1, <2>2 DEF CheckBusy
<1>3. ASSUME NEW m \in Msgs, ReleaseAfterSend(m) PROVE TypeOK'
  BY <1>3 DEF ReleaseAfterSend
<1>4. ASSUME NEW m \in Msgs, DropEntry(m) PROVE TypeOK'
  BY <1>4 DEF DropEntry
<1>5. ASSUME NEW m \in Msgs, DropMap(m) PROVE TypeOK'
  <2>1. chat_map' \in [Keys -> ConvIds \cup {NoConv}] /\ faults' \in 0..MaxFaults
    BY <1>5 DEF DropMap
  <2>2. QED
    BY <1>5, <2>1 DEF DropMap
<1>6. ASSUME NEW m \in Msgs, ResolveInMemory(m) PROVE TypeOK'
  BY <1>6 DEF ResolveInMemory
<1>7. ASSUME NEW m \in Msgs, ResolveFromMap(m) PROVE TypeOK'
  BY <1>7 DEF ResolveFromMap, Adopt
<1>8. ASSUME NEW m \in Msgs, ResolveByCreating(m) PROVE TypeOK'
  BY <1>8 DEF ResolveByCreating, Adopt, CreateConversation
<1>9. ASSUME NEW m \in Msgs, ResolveFails(m) PROVE TypeOK'
  BY <1>9 DEF ResolveFails
<1>20. ASSUME NEW m \in Msgs, PersistMapping(m) PROVE TypeOK'
  <2>1. chat_states[KeyOf[m]].conv_id \in ConvIds \cup {NoConv}
    OBVIOUS
  <2>2. chat_map' \in [Keys -> ConvIds \cup {NoConv}] /\ faults' \in 0..MaxFaults
    BY <1>20, <2>1 DEF PersistMapping
  <2>3. QED
    BY <1>20, <2>1, <2>2 DEF PersistMapping
<1>10. ASSUME NEW m \in Msgs, MarkBusy(m) PROVE TypeOK'
  BY <1>10, ZenonT(60) DEF MarkBusy
<1>11. ASSUME NEW m \in Msgs, Load(m) PROVE TypeOK'
  BY <1>11 DEF Load
<1>12. ASSUME NEW m \in Msgs, LoadFails(m) PROVE TypeOK'
  BY <1>12 DEF LoadFails
<1>13. ASSUME NEW m \in Msgs, FinishRun(m) PROVE TypeOK'
  <2>1. pc' \in [Msgs -> Stages] /\ outcome' \in [Msgs -> Outcomes]
    BY <1>13 DEF FinishRun
  <2>2. /\ rows' \subseteq ConvIds /\ saved' \subseteq Msgs
        /\ messages' \in [ConvIds -> SUBSET Msgs]
        /\ faults' \in 0..MaxFaults
    <3>1. conv_id[m] \in ConvIds
      BY <1>13 DEF FinishRun, Progress, Resolved
    <3>2. QED
      BY <1>13, <3>1 DEF FinishRun
  <2>3. QED
    BY <1>13, <2>1, <2>2 DEF FinishRun
<1>14. ASSUME NEW m \in Msgs, ClearBusy(m) PROVE TypeOK'
  BY <1>14, ZenonT(60) DEF ClearBusy
<1>15. ASSUME NEW m \in Msgs, SendReply(m) PROVE TypeOK'
  BY <1>15 DEF SendReply
<1>16. ASSUME NEW c \in ConvIds, DeleteConversation(c) PROVE TypeOK'
  BY <1>16 DEF DeleteConversation
<1>17. CASE Restart
  BY <1>17 DEF Restart
<1>18. CASE UNCHANGED vars
  BY <1>18 DEF vars
<1>19. QED
  BY <1>1, <1>2, <1>3, <1>4, <1>5, <1>6, <1>7, <1>8, <1>9, <1>10, <1>11,
     <1>12, <1>13, <1>14, <1>15, <1>16, <1>17, <1>18, <1>20 DEF Next, OwnStep

-----------------------------------------------------------------------------
(* A busy flag keeps its owner.                                            *)
LEMMA BusyStep ==
  TypeOK /\ Progress /\ BusyHasOwner /\ [Next]_vars => BusyHasOwner'
<1> SUFFICES ASSUME TypeOK, Progress, BusyHasOwner, [Next]_vars PROVE BusyHasOwner'
  OBVIOUS
<1> USE TelegramAssumption DEF TypeOK, BusyHasOwner, Goto, task, memory, disk,
        history, Absent
<1>1. ASSUME NEW m \in Msgs, Arrive(m) PROVE BusyHasOwner'
  BY <1>1 DEF Arrive
<1>2. ASSUME NEW m \in Msgs, CheckBusy(m) PROVE BusyHasOwner'
  BY <1>2 DEF CheckBusy
<1>3. ASSUME NEW m \in Msgs, ReleaseAfterSend(m) PROVE BusyHasOwner'
  BY <1>3 DEF ReleaseAfterSend
<1>4. ASSUME NEW m \in Msgs, DropEntry(m) PROVE BusyHasOwner'
  BY <1>4 DEF DropEntry
<1>5. ASSUME NEW m \in Msgs, DropMap(m) PROVE BusyHasOwner'
  BY <1>5 DEF DropMap
<1>6. ASSUME NEW m \in Msgs, ResolveInMemory(m) PROVE BusyHasOwner'
  BY <1>6 DEF ResolveInMemory
<1>7. ASSUME NEW m \in Msgs, ResolveFromMap(m) PROVE BusyHasOwner'
  BY <1>7 DEF ResolveFromMap, Adopt
<1>8. ASSUME NEW m \in Msgs, ResolveByCreating(m) PROVE BusyHasOwner'
  BY <1>8 DEF ResolveByCreating, Adopt
<1>9. ASSUME NEW m \in Msgs, ResolveFails(m) PROVE BusyHasOwner'
  BY <1>9 DEF ResolveFails
<1>20. ASSUME NEW m \in Msgs, PersistMapping(m) PROVE BusyHasOwner'
  BY <1>20 DEF PersistMapping
<1>10. ASSUME NEW m \in Msgs, MarkBusy(m) PROVE BusyHasOwner'
  BY <1>10 DEF MarkBusy
<1>11. ASSUME NEW m \in Msgs, Load(m) PROVE BusyHasOwner'
  BY <1>11 DEF Load
<1>12. ASSUME NEW m \in Msgs, LoadFails(m) PROVE BusyHasOwner'
  BY <1>12 DEF LoadFails
<1>13. ASSUME NEW m \in Msgs, FinishRun(m) PROVE BusyHasOwner'
  BY <1>13 DEF FinishRun
<1>14. ASSUME NEW m \in Msgs, ClearBusy(m) PROVE BusyHasOwner'
  BY <1>14 DEF ClearBusy, Present
<1>15. ASSUME NEW m \in Msgs, SendReply(m) PROVE BusyHasOwner'
  BY <1>15 DEF SendReply
<1>16. ASSUME NEW c \in ConvIds, DeleteConversation(c) PROVE BusyHasOwner'
  BY <1>16 DEF DeleteConversation
<1>17. CASE Restart
  BY <1>17 DEF Restart
<1>18. CASE UNCHANGED vars
  BY <1>18 DEF vars
<1>19. QED
  BY <1>1, <1>2, <1>3, <1>4, <1>5, <1>6, <1>7, <1>8, <1>9, <1>10, <1>11,
     <1>12, <1>13, <1>14, <1>15, <1>16, <1>17, <1>18, <1>20 DEF Next, OwnStep

-----------------------------------------------------------------------------
(* A task keeps the conversation it resolved, and entries are never empty. *)
LEMMA ProgressStep ==
  TypeOK /\ Progress /\ EntriesHaveConversations /\ GuardHeld /\ [Next]_vars
    => Progress' /\ EntriesHaveConversations' /\ GuardHeld'
<1> DEFINE P == Progress /\ EntriesHaveConversations /\ GuardHeld
<1> SUFFICES ASSUME TypeOK, P, [Next]_vars PROVE P'
  OBVIOUS
<1> USE TelegramAssumption DEF TypeOK, Progress, EntriesHaveConversations, GuardHeld,
        Before, Resolved, Goto, task, memory, disk, history, Absent, Present
<1>1. ASSUME NEW m \in Msgs, Arrive(m) PROVE P'
  BY <1>1 DEF Arrive
<1>2. ASSUME NEW m \in Msgs, CheckBusy(m) PROVE P'
  BY <1>2 DEF CheckBusy
<1>3. ASSUME NEW m \in Msgs, ReleaseAfterSend(m) PROVE P'
  BY <1>3 DEF ReleaseAfterSend
<1>4. ASSUME NEW m \in Msgs, DropEntry(m) PROVE P'
  BY <1>4 DEF DropEntry
<1>5. ASSUME NEW m \in Msgs, DropMap(m) PROVE P'
  BY <1>5 DEF DropMap
<1>6. ASSUME NEW m \in Msgs, ResolveInMemory(m) PROVE P'
  BY <1>6 DEF ResolveInMemory
<1>7. ASSUME NEW m \in Msgs, ResolveFromMap(m) PROVE P'
  BY <1>7 DEF ResolveFromMap, Adopt
<1>8. ASSUME NEW m \in Msgs, ResolveByCreating(m) PROVE P'
  BY <1>8 DEF ResolveByCreating, Adopt
<1>9. ASSUME NEW m \in Msgs, ResolveFails(m) PROVE P'
  BY <1>9 DEF ResolveFails
<1>20. ASSUME NEW m \in Msgs, PersistMapping(m) PROVE P'
  BY <1>20 DEF PersistMapping
<1>10. ASSUME NEW m \in Msgs, MarkBusy(m) PROVE P'
  <2>1. \A k \in Keys : chat_states'[k].conv_id = chat_states[k].conv_id
    BY <1>10 DEF MarkBusy
  <2>2. \A k \in Keys : chat_states[k] = Absent => chat_states'[k] = Absent
    <3>1. CASE Present(KeyOf[m])
      BY <1>10, <3>1 DEF MarkBusy
    <3>2. CASE ~Present(KeyOf[m])
      BY <1>10, <3>2 DEF MarkBusy
    <3>3. QED
      BY <3>1, <3>2
  <2>3. QED
    BY <1>10, <2>1, <2>2 DEF MarkBusy
<1>11. ASSUME NEW m \in Msgs, Load(m) PROVE P'
  BY <1>11 DEF Load
<1>12. ASSUME NEW m \in Msgs, LoadFails(m) PROVE P'
  BY <1>12 DEF LoadFails
<1>13. ASSUME NEW m \in Msgs, FinishRun(m) PROVE P'
  BY <1>13 DEF FinishRun
<1>14. ASSUME NEW m \in Msgs, ClearBusy(m) PROVE P'
  <2>1. \A k \in Keys : chat_states'[k].conv_id = chat_states[k].conv_id
    BY <1>14 DEF ClearBusy
  <2>2. \A k \in Keys : chat_states[k] = Absent => chat_states'[k] = Absent
    <3>1. CASE Present(KeyOf[m])
      BY <1>14, <3>1 DEF ClearBusy
    <3>2. CASE ~Present(KeyOf[m])
      BY <1>14, <3>2 DEF ClearBusy
    <3>3. QED
      BY <3>1, <3>2
  <2>3. QED
    BY <1>14, <2>1, <2>2 DEF ClearBusy
<1>15. ASSUME NEW m \in Msgs, SendReply(m) PROVE P'
  BY <1>15 DEF SendReply
<1>16. ASSUME NEW c \in ConvIds, DeleteConversation(c) PROVE P'
  BY <1>16 DEF DeleteConversation
<1>17. CASE Restart
  BY <1>17 DEF Restart, Ended
<1>18. CASE UNCHANGED vars
  BY <1>18 DEF vars
<1>19. QED
  BY <1>1, <1>2, <1>3, <1>4, <1>5, <1>6, <1>7, <1>8, <1>9, <1>10, <1>11,
     <1>12, <1>13, <1>14, <1>15, <1>16, <1>17, <1>18, <1>20 DEF Next, OwnStep


-----------------------------------------------------------------------------
(* Only drawn UUIDs are referred to, and never by two chats.               *)
LEMMA OwnersStep ==
  TypeOK /\ Progress /\ ReferredCreated /\ OwnersUnique /\ [Next]_vars => ReferredCreated' /\ OwnersUnique'
<1> DEFINE P == ReferredCreated /\ OwnersUnique
<1> SUFFICES ASSUME TypeOK, Progress, ReferredCreated, OwnersUnique, [Next]_vars PROVE P'
  OBVIOUS
<1> USE TelegramAssumption DEF TypeOK, Progress, ReferredCreated, OwnersUnique,
        Before, Resolved, Goto, task, memory, disk,
        history, Absent, Present
<1>1. ASSUME NEW m \in Msgs, Arrive(m) PROVE P'
  <2>1. \A k \in Keys, d \in ConvIds : Refers(k, d)' => Refers(k, d)
    BY <1>1 DEF Arrive, Refers
  <2>2. created' = created
    BY <1>1 DEF Arrive
  <2>3. QED
    BY <2>1, <2>2
<1>2. ASSUME NEW m \in Msgs, CheckBusy(m) PROVE P'
  <2>1. \A k \in Keys, d \in ConvIds : Refers(k, d)' => Refers(k, d)
    BY <1>2 DEF CheckBusy, Refers
  <2>2. created' = created
    BY <1>2 DEF CheckBusy
  <2>3. QED
    BY <2>1, <2>2
<1>3. ASSUME NEW m \in Msgs, ReleaseAfterSend(m) PROVE P'
  <2>1. \A k \in Keys, d \in ConvIds : Refers(k, d)' => Refers(k, d)
    BY <1>3 DEF ReleaseAfterSend, Refers
  <2>2. created' = created
    BY <1>3 DEF ReleaseAfterSend
  <2>3. QED
    BY <2>1, <2>2
<1>4. ASSUME NEW m \in Msgs, DropEntry(m) PROVE P'
  <2>1. \A k \in Keys, d \in ConvIds : Refers(k, d)' => Refers(k, d)
    BY <1>4 DEF DropEntry, Refers
  <2>2. created' = created
    BY <1>4 DEF DropEntry
  <2>3. QED
    BY <2>1, <2>2
<1>5. ASSUME NEW m \in Msgs, DropMap(m) PROVE P'
  <2>1. \A k \in Keys, d \in ConvIds : Refers(k, d)' => Refers(k, d)
    BY <1>5 DEF DropMap, Refers
  <2>2. created' = created
    BY <1>5 DEF DropMap
  <2>3. QED
    BY <2>1, <2>2
<1>6. ASSUME NEW m \in Msgs, ResolveInMemory(m) PROVE P'
  <2>1. \A k \in Keys, d \in ConvIds : Refers(k, d)' => Refers(k, d)
    BY <1>6 DEF ResolveInMemory, Refers
  <2>2. created' = created
    BY <1>6 DEF ResolveInMemory
  <2>3. QED
    BY <2>1, <2>2
<1>7. ASSUME NEW m \in Msgs, ResolveFromMap(m) PROVE P'
  <2>1. \A k \in Keys, d \in ConvIds : Refers(k, d)' => Refers(k, d)
    BY <1>7 DEF ResolveFromMap, Refers, Adopt
  <2>2. created' = created
    BY <1>7 DEF ResolveFromMap, Adopt
  <2>3. QED
    BY <2>1, <2>2
<1>8. ASSUME NEW m \in Msgs, ResolveByCreating(m) PROVE P'
  <2>1. PICK c \in ConvIds :
          /\ c \notin created /\ created' = created \cup {c}
          /\ conv_id' = conv_id /\ chat_map' = chat_map
          /\ chat_states' = [chat_states EXCEPT
                               ![KeyOf[m]] = [conv_id |-> c, busy |-> FALSE]]
    BY <1>8 DEF ResolveByCreating, Adopt, CreateConversation
  <2>2. \A k \in Keys, d \in ConvIds :
          Refers(k, d)' => Refers(k, d) \/ (k = KeyOf[m] /\ d = c)
    BY <2>1 DEF Refers
  <2>3. QED
    BY <2>1, <2>2
<1>9. ASSUME NEW m \in Msgs, ResolveFails(m) PROVE P'
  <2>1. \A k \in Keys, d \in ConvIds : Refers(k, d)' => Refers(k, d)
    BY <1>9 DEF ResolveFails, Refers
  <2>2. created' = created
    BY <1>9 DEF ResolveFails
  <2>3. QED
    BY <2>1, <2>2
<1>20. ASSUME NEW m \in Msgs, PersistMapping(m) PROVE P'
  <2>1. \A k \in Keys, d \in ConvIds : Refers(k, d)' => Refers(k, d)
    BY <1>20 DEF PersistMapping, Refers
  <2>2. created' = created
    BY <1>20 DEF PersistMapping
  <2>3. QED
    BY <2>1, <2>2
<1>10. ASSUME NEW m \in Msgs, MarkBusy(m) PROVE P'
  <2>1. \A k \in Keys, d \in ConvIds : Refers(k, d)' => Refers(k, d)
    BY <1>10 DEF MarkBusy, Refers
  <2>2. created' = created
    BY <1>10 DEF MarkBusy
  <2>3. QED
    BY <2>1, <2>2
<1>11. ASSUME NEW m \in Msgs, Load(m) PROVE P'
  <2>1. \A k \in Keys, d \in ConvIds : Refers(k, d)' => Refers(k, d)
    BY <1>11 DEF Load, Refers
  <2>2. created' = created
    BY <1>11 DEF Load
  <2>3. QED
    BY <2>1, <2>2
<1>12. ASSUME NEW m \in Msgs, LoadFails(m) PROVE P'
  <2>1. \A k \in Keys, d \in ConvIds : Refers(k, d)' => Refers(k, d)
    BY <1>12 DEF LoadFails, Refers
  <2>2. created' = created
    BY <1>12 DEF LoadFails
  <2>3. QED
    BY <2>1, <2>2
<1>13. ASSUME NEW m \in Msgs, FinishRun(m) PROVE P'
  <2>1. \A k \in Keys, d \in ConvIds : Refers(k, d)' => Refers(k, d)
    BY <1>13 DEF FinishRun, Refers
  <2>2. created' = created
    BY <1>13 DEF FinishRun
  <2>3. QED
    BY <2>1, <2>2
<1>14. ASSUME NEW m \in Msgs, ClearBusy(m) PROVE P'
  <2>1. \A k \in Keys, d \in ConvIds : Refers(k, d)' => Refers(k, d)
    BY <1>14 DEF ClearBusy, Refers
  <2>2. created' = created
    BY <1>14 DEF ClearBusy
  <2>3. QED
    BY <2>1, <2>2
<1>15. ASSUME NEW m \in Msgs, SendReply(m) PROVE P'
  <2>1. \A k \in Keys, d \in ConvIds : Refers(k, d)' => Refers(k, d)
    BY <1>15 DEF SendReply, Refers
  <2>2. created' = created
    BY <1>15 DEF SendReply
  <2>3. QED
    BY <2>1, <2>2
<1>16. ASSUME NEW c \in ConvIds, DeleteConversation(c) PROVE P'
  <2>1. \A k \in Keys, d \in ConvIds : Refers(k, d)' => Refers(k, d)
    BY <1>16 DEF DeleteConversation, Refers
  <2>2. created' = created
    BY <1>16 DEF DeleteConversation
  <2>3. QED
    BY <2>1, <2>2
<1>17. CASE Restart
  <2>1. \A k \in Keys, d \in ConvIds : Refers(k, d)' => Refers(k, d)
    BY <1>17 DEF Restart, Refers
  <2>2. created' = created
    BY <1>17 DEF Restart
  <2>3. QED
    BY <2>1, <2>2
<1>18. CASE UNCHANGED vars
  <2>1. \A k \in Keys, d \in ConvIds : Refers(k, d)' => Refers(k, d)
    BY <1>18 DEF vars, Refers
  <2>2. created' = created
    BY <1>18 DEF vars
  <2>3. QED
    BY <2>1, <2>2
<1>19. QED
  BY <1>1, <1>2, <1>3, <1>4, <1>5, <1>6, <1>7, <1>8, <1>9, <1>10, <1>11,
     <1>12, <1>13, <1>14, <1>15, <1>16, <1>17, <1>18, <1>20 DEF Next, OwnStep

-----------------------------------------------------------------------------
(* Conversations and copies hold only the turns of their own tasks.        *)
LEMMA ContentStep ==
  TypeOK /\ Progress /\ ContentOwned /\ [Next]_vars => ContentOwned'
<1> DEFINE P == ContentOwned
<1> SUFFICES ASSUME TypeOK, Progress, ContentOwned, [Next]_vars PROVE P'
  OBVIOUS
<1> USE TelegramAssumption DEF TypeOK, Progress, ContentOwned,
        Before, Resolved, Goto, task, memory, disk,
        history, Absent, Present
<1>1. ASSUME NEW m \in Msgs, Arrive(m) PROVE P'
  BY <1>1 DEF Arrive
<1>2. ASSUME NEW m \in Msgs, CheckBusy(m) PROVE P'
  BY <1>2 DEF CheckBusy
<1>3. ASSUME NEW m \in Msgs, ReleaseAfterSend(m) PROVE P'
  BY <1>3 DEF ReleaseAfterSend
<1>4. ASSUME NEW m \in Msgs, DropEntry(m) PROVE P'
  BY <1>4 DEF DropEntry
<1>5. ASSUME NEW m \in Msgs, DropMap(m) PROVE P'
  BY <1>5 DEF DropMap
<1>6. ASSUME NEW m \in Msgs, ResolveInMemory(m) PROVE P'
  BY <1>6 DEF ResolveInMemory
<1>7. ASSUME NEW m \in Msgs, ResolveFromMap(m) PROVE P'
  BY <1>7 DEF ResolveFromMap, Adopt
<1>8. ASSUME NEW m \in Msgs, ResolveByCreating(m) PROVE P'
  BY <1>8 DEF ResolveByCreating, Adopt, CreateConversation
<1>9. ASSUME NEW m \in Msgs, ResolveFails(m) PROVE P'
  BY <1>9 DEF ResolveFails
<1>20. ASSUME NEW m \in Msgs, PersistMapping(m) PROVE P'
  BY <1>20 DEF PersistMapping
<1>10. ASSUME NEW m \in Msgs, MarkBusy(m) PROVE P'
  BY <1>10 DEF MarkBusy
<1>11. ASSUME NEW m \in Msgs, Load(m) PROVE P'
  BY <1>11 DEF Load
<1>12. ASSUME NEW m \in Msgs, LoadFails(m) PROVE P'
  BY <1>12 DEF LoadFails
<1>13. ASSUME NEW m \in Msgs, FinishRun(m) PROVE P'
  BY <1>13 DEF FinishRun
<1>14. ASSUME NEW m \in Msgs, ClearBusy(m) PROVE P'
  BY <1>14 DEF ClearBusy
<1>15. ASSUME NEW m \in Msgs, SendReply(m) PROVE P'
  BY <1>15 DEF SendReply
<1>16. ASSUME NEW c \in ConvIds, DeleteConversation(c) PROVE P'
  BY <1>16 DEF DeleteConversation
<1>17. CASE Restart
  BY <1>17 DEF Restart
<1>18. CASE UNCHANGED vars
  BY <1>18 DEF vars
<1>19. QED
  BY <1>1, <1>2, <1>3, <1>4, <1>5, <1>6, <1>7, <1>8, <1>9, <1>10, <1>11,
     <1>12, <1>13, <1>14, <1>15, <1>16, <1>17, <1>18, <1>20 DEF Next, OwnStep

-----------------------------------------------------------------------------
(* Turns are lost only from conversations with overlapping copies.         *)
LEMMA CopiesStep ==
  TypeOK /\ Progress /\ ReferredCreated /\ OverlapsRecorded /\ CopiesComplete
    /\ LostTurnsOverlap /\ [Next]_vars
    => OverlapsRecorded' /\ CopiesComplete' /\ LostTurnsOverlap'
<1> DEFINE P == OverlapsRecorded /\ CopiesComplete /\ LostTurnsOverlap
<1> SUFFICES ASSUME TypeOK, Progress, ReferredCreated, OverlapsRecorded,
                    CopiesComplete, LostTurnsOverlap, [Next]_vars
             PROVE  P'
  OBVIOUS
<1> USE TelegramAssumption DEF TypeOK, Progress, OverlapsRecorded, CopiesComplete,
        LostTurnsOverlap, Before, Resolved, Goto, task, memory, disk,
        history, Absent, Present
<1>1. ASSUME NEW m \in Msgs, Arrive(m) PROVE P'
  BY <1>1 DEF Arrive
<1>2. ASSUME NEW m \in Msgs, CheckBusy(m) PROVE P'
  <2>1. /\ \A n \in Msgs : pc'[n] = "run" => pc[n] = "run"
        /\ UNCHANGED <<conv_id, snapshot, rows, messages, saved, overlapped>>
    BY <1>2 DEF CheckBusy
  <2>2. QED
    BY <2>1
<1>3. ASSUME NEW m \in Msgs, ReleaseAfterSend(m) PROVE P'
  BY <1>3 DEF ReleaseAfterSend
<1>4. ASSUME NEW m \in Msgs, DropEntry(m) PROVE P'
  BY <1>4 DEF DropEntry
<1>5. ASSUME NEW m \in Msgs, DropMap(m) PROVE P'
  BY <1>5 DEF DropMap
<1>6. ASSUME NEW m \in Msgs, ResolveInMemory(m) PROVE P'
  BY <1>6 DEF ResolveInMemory
<1>7. ASSUME NEW m \in Msgs, ResolveFromMap(m) PROVE P'
  BY <1>7 DEF ResolveFromMap, Adopt
<1>8. ASSUME NEW m \in Msgs, ResolveByCreating(m) PROVE P'
  <2>1. PICK c \in ConvIds : c \notin created /\ rows' = rows \cup {c}
    BY <1>8 DEF ResolveByCreating, CreateConversation
  <2>2. /\ \A n \in Msgs : conv_id'[n] = conv_id[n] /\ (n # m => pc'[n] = pc[n])
        /\ pc[m] = "resolve" /\ pc'[m] = "persist"
        /\ UNCHANGED <<snapshot, messages, saved, overlapped>>
    BY <1>8 DEF ResolveByCreating, Adopt
  <2>3. m \notin saved /\ \A n \in saved : conv_id'[n] = conv_id[n]
    BY <2>2
  <2>4. \A n \in saved : conv_id[n] # c
    BY <2>1 DEF ReferredCreated, Refers
  <2>5. OverlapsRecorded' /\ CopiesComplete'
    BY <2>2, <2>3, ZenonT(60)
  <2>6. LostTurnsOverlap'
    BY <2>1, <2>2, <2>3, <2>4
  <2>7. QED
    BY <2>5, <2>6
<1>9. ASSUME NEW m \in Msgs, ResolveFails(m) PROVE P'
  BY <1>9 DEF ResolveFails
<1>20. ASSUME NEW m \in Msgs, PersistMapping(m) PROVE P'
  BY <1>20 DEF PersistMapping
<1>10. ASSUME NEW m \in Msgs, MarkBusy(m) PROVE P'
  BY <1>10 DEF MarkBusy
<1>11. ASSUME NEW m \in Msgs, Load(m) PROVE P'
  BY <1>11 DEF Load
<1>12. ASSUME NEW m \in Msgs, LoadFails(m) PROVE P'
  BY <1>12 DEF LoadFails
<1>13. ASSUME NEW m \in Msgs, FinishRun(m) PROVE P'
  BY <1>13 DEF FinishRun
<1>14. ASSUME NEW m \in Msgs, ClearBusy(m) PROVE P'
  BY <1>14 DEF ClearBusy
<1>15. ASSUME NEW m \in Msgs, SendReply(m) PROVE P'
  BY <1>15 DEF SendReply
<1>16. ASSUME NEW c \in ConvIds, DeleteConversation(c) PROVE P'
  BY <1>16 DEF DeleteConversation
<1>17. CASE Restart
  <2>1. /\ \A n \in Msgs : pc'[n] # "run"
        /\ UNCHANGED <<conv_id, rows, messages, saved, overlapped>>
    BY <1>17 DEF Restart, Ended
  <2>2. QED
    BY <2>1
<1>18. CASE UNCHANGED vars
  BY <1>18 DEF vars
<1>19. QED
  BY <1>1, <1>2, <1>3, <1>4, <1>5, <1>6, <1>7, <1>8, <1>9, <1>10, <1>11,
     <1>12, <1>13, <1>14, <1>15, <1>16, <1>17, <1>18, <1>20 DEF Next, OwnStep

-----------------------------------------------------------------------------
(* While nobody has the guard of chat_states nobody creates a conversation.*)
LEMMA NoneCreating ==
  ASSUME GuardHeld, lock = NoTask
  PROVE  \A n \in Msgs : pc[n] # "persist"
  BY TelegramAssumption DEF GuardHeld

(* One task at a time creates a conversation.                              *)
LEMMA OneCreating ==
  ASSUME GuardHeld, NEW m \in Msgs, pc[m] = "persist"
  PROVE  \A n \in Msgs : pc[n] = "persist" => n = m
  BY DEF GuardHeld

(* Without faults and resets memory, map and tasks agree.                  *)
LEMMA MapStep ==
  TypeOK /\ Progress /\ GuardHeld /\ MapAgrees /\ [Next]_vars => MapAgrees'
<1> DEFINE P == MapAgrees
<1> SUFFICES ASSUME TypeOK, Progress, GuardHeld, MapAgrees, [Next]_vars PROVE P'
  OBVIOUS
<1> USE TelegramAssumption DEF TypeOK, Progress, MapAgrees, Quiet, Creating, Spend, Fail,
        Succeed, Before, Resolved, Goto, task, memory, disk,
        history, Absent, Present
<1>1. ASSUME NEW m \in Msgs, Arrive(m) PROVE P'
  BY <1>1 DEF Arrive
<1>2. ASSUME NEW m \in Msgs, CheckBusy(m) PROVE P'
  BY <1>2 DEF CheckBusy
<1>3. ASSUME NEW m \in Msgs, ReleaseAfterSend(m) PROVE P'
  BY <1>3 DEF ReleaseAfterSend
<1>4. ASSUME NEW m \in Msgs, DropEntry(m) PROVE P'
  BY <1>4 DEF DropEntry
<1>5. ASSUME NEW m \in Msgs, DropMap(m) PROVE P'
  <2>1. m \in Resets /\ pc'[m] = "done"
    BY <1>5 DEF DropMap
  <2>2. ~Quiet'
    BY <2>1
  <2>3. QED
    BY <2>2
<1>6. ASSUME NEW m \in Msgs, ResolveInMemory(m) PROVE P'
  <2>0. \A n \in Msgs : pc[n] # "persist"
    BY <1>6, NoneCreating DEF ResolveInMemory
  <2>1. \A k \in Keys : ~Creating(k)
    BY <2>0, Zenon
  <2>2. \A k \in Keys : ~Creating(k)'
    <3>1. \A n \in Msgs : pc'[n] # "persist"
      BY <1>6, <2>0 DEF ResolveInMemory
    <3>2. QED
      BY <3>1, Zenon
  <2>3. QED
    BY <1>6, <2>1, <2>2 DEF ResolveInMemory
<1>7. ASSUME NEW m \in Msgs, ResolveFromMap(m) PROVE P'
  BY <1>7 DEF ResolveFromMap, Adopt
<1>8. ASSUME NEW m \in Msgs, ResolveByCreating(m) PROVE P'
  BY <1>8 DEF ResolveByCreating, Adopt, CreateConversation
<1>9. ASSUME NEW m \in Msgs, ResolveFails(m) PROVE P'
  BY <1>9 DEF ResolveFails
<1>20. ASSUME NEW m \in Msgs, PersistMapping(m) PROVE P'
  <2> DEFINE c == chat_states[KeyOf[m]].conv_id
  <2>0. pc[m] = "persist" /\ \A n \in Msgs : pc[n] = "persist" => n = m
    <3>1. pc[m] = "persist"
      BY <1>20, Zenon DEF PersistMapping
    <3>2. QED
      BY <3>1, OneCreating, Zenon
  <2>1. Creating(KeyOf[m])
    BY <2>0, Zenon
  <2>2. \A k \in Keys : ~Creating(k)' /\ (k # KeyOf[m] => ~Creating(k))
    <3>1. \A n \in Msgs : pc'[n] # "persist"
      BY <1>20, <2>0 DEF PersistMapping
    <3>2. QED
      BY <2>0, <3>1, Zenon
  <2>3. Quiet' => Quiet /\ chat_map' = [chat_map EXCEPT ![KeyOf[m]] = c]
    BY <1>20, <2>1 DEF PersistMapping
  <2>4. /\ chat_states' = chat_states
        /\ conv_id' = [conv_id EXCEPT ![m] = c]
    BY <1>20 DEF PersistMapping
  <2>5. ASSUME Quiet' PROVE /\ \A k \in Keys : chat_states[k].conv_id \in {NoConv, chat_map'[k]}
                             /\ \A n \in Msgs : conv_id'[n] \in {NoConv, chat_map'[KeyOf[n]]}
    <3> HIDE DEF c
    <3>1. chat_map[KeyOf[m]] = NoConv
      BY <2>1, <2>3, <2>5
    <3>2. \A k \in Keys : chat_states[k].conv_id \in {NoConv, chat_map'[k]}
      <4>1. \A k \in Keys : k # KeyOf[m] => chat_states[k].conv_id \in {NoConv, chat_map[k]}
        BY <2>2, <2>3, <2>5
      <4>2. QED
        BY <2>3, <2>5, <4>1 DEF c
    <3>3. \A n \in Msgs : conv_id'[n] \in {NoConv, chat_map'[KeyOf[n]]}
      BY <2>3, <2>4, <2>5, <3>1
    <3>4. QED
      BY <3>2, <3>3
  <2>6. QED
    BY <2>2, <2>4, <2>5
<1>10. ASSUME NEW m \in Msgs, MarkBusy(m) PROVE P'
  BY <1>10 DEF MarkBusy
<1>11. ASSUME NEW m \in Msgs, Load(m) PROVE P'
  BY <1>11 DEF Load
<1>12. ASSUME NEW m \in Msgs, LoadFails(m) PROVE P'
  BY <1>12 DEF LoadFails
<1>13. ASSUME NEW m \in Msgs, FinishRun(m) PROVE P'
  BY <1>13 DEF FinishRun
<1>14. ASSUME NEW m \in Msgs, ClearBusy(m) PROVE P'
  BY <1>14 DEF ClearBusy
<1>15. ASSUME NEW m \in Msgs, SendReply(m) PROVE P'
  BY <1>15 DEF SendReply
<1>16. ASSUME NEW c \in ConvIds, DeleteConversation(c) PROVE P'
  BY <1>16 DEF DeleteConversation
<1>17. CASE Restart
  BY <1>17 DEF Restart
<1>18. CASE UNCHANGED vars
  BY <1>18 DEF vars
<1>19. QED
  BY <1>1, <1>2, <1>3, <1>4, <1>5, <1>6, <1>7, <1>8, <1>9, <1>10, <1>11,
     <1>12, <1>13, <1>14, <1>15, <1>16, <1>17, <1>18, <1>20 DEF Next, OwnStep

-----------------------------------------------------------------------------
LEMMA InitIInv == Init => IInv
<1> SUFFICES ASSUME Init PROVE IInv
  OBVIOUS
<1> USE TelegramAssumption DEF Init, Absent
<1>1. TypeOK
  BY DEF TypeOK, Stages, Outcomes
<1>2. BusyHasOwner /\ Progress /\ EntriesHaveConversations /\ GuardHeld
  BY DEF BusyHasOwner, Progress, Before, Resolved, EntriesHaveConversations, GuardHeld
<1>3. ReferredCreated /\ OwnersUnique
  BY DEF ReferredCreated, OwnersUnique, Refers
<1>4. ContentOwned /\ OverlapsRecorded /\ CopiesComplete /\ LostTurnsOverlap
  BY DEF ContentOwned, OverlapsRecorded, CopiesComplete, LostTurnsOverlap
<1>5. MapAgrees
  BY DEF MapAgrees, Creating
<1>6. QED
  BY <1>1, <1>2, <1>3, <1>4, <1>5 DEF IInv

LEMMA IInvStep == IInv /\ [Next]_vars => IInv'
  BY TypeStep, BusyStep, ProgressStep, OwnersStep, ContentStep, CopiesStep,
     MapStep DEF IInv

(* The strengthened invariant holds in every reachable state.              *)
THEOREM Invariance == Spec => []IInv
  BY InitIInv, IInvStep, PTL DEF Spec

(* Every variable keeps its shape in every behaviour.                      *)
THEOREM TypeCorrect == Spec => []TypeOK
<1>1. IInv => TypeOK
  BY DEF IInv
<1>2. QED
  BY <1>1, Invariance, PTL

(* A busy flag always has a task that will clear it.                       *)
THEOREM BusyIsOwned == Spec => []BusyHasOwner
<1>1. IInv => BusyHasOwner
  BY DEF IInv
<1>2. QED
  BY <1>1, Invariance, PTL

(* A saved turn disappears only where two copies were held at once.        *)
THEOREM TurnsKept == Spec => []LostTurnsOverlap
<1>1. IInv => LostTurnsOverlap
  BY DEF IInv
<1>2. QED
  BY <1>1, Invariance, PTL

(* A chat keeps one conversation while storage works and nothing is reset. *)
THEOREM OneConversation == Spec => []OneConversationPerChat
<1>1. IInv => OneConversationPerChat
  BY DEF IInv, MapAgrees, Quiet, OneConversationPerChat
<1>2. QED
  BY <1>1, Invariance, PTL

(* No conversation mixes the messages of two chats.                        *)
THEOREM Isolation == Spec => []ChatsIsolated
<1>1. IInv => ChatsIsolated
  BY TelegramAssumption
     DEF IInv, TypeOK, ContentOwned, OwnersUnique, Refers, ChatsIsolated
<1>2. QED
  BY <1>1, Invariance, PTL
=============================================================================
