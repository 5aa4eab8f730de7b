--------------------------- MODULE WebChat_proofs ---------------------------
(***************************************************************************)
(* What the gateway keeps of one conversation, for any messages from the   *)
(* page and from API clients, any channel size and any troubles.           *)
(***************************************************************************)
EXTENDS WebChat, TLAPS

(* An event on its way to the client of a message, and the events that     *)
(* tell the client its message was saved.                                  *)
OnTheWay(n, e) == \E i \in DOMAIN queue[n] : queue[n][i] = e
SaysSaved(n, e) == e = "ok" \/ (e = "error" /\ n \in PageMsgs)

Typed ==
  /\ row \in BOOLEAN /\ stored \subseteq Msgs
  /\ pc \in [Msgs -> {"typed", "load", "run", "save", "answer", "ended"}]
  /\ copy \in [Msgs -> SUBSET Msgs]
  /\ outcome \in [Msgs -> {"none", "ok", "error"}]
  /\ \A m \in Msgs : pc[m] = "answer" => outcome[m] \in {"ok", "error"}
  /\ \A m \in Msgs : pc[m] = "save" => outcome[m] \in {"ok", "error"}
  /\ queue \in [Msgs -> Seq(Events)]
  /\ \A m \in Msgs : Len(queue[m]) <= QueueCap
  /\ connected \in [Msgs -> BOOLEAN] /\ isSending \in BOOLEAN
  /\ faults \in Nat /\ breaks \in Nat /\ deletes \in Nat
  /\ faults + breaks + deletes <= MaxTroubles
  /\ answered \subseteq Msgs /\ early \in BOOLEAN
  /\ overlapped \subseteq Msgs

(* A message that was not sent has no response yet.                        *)
Unsent == \A m \in Msgs : pc[m] = "typed" => ~connected[m] /\ queue[m] = <<>>

(* Handlers that hold copies together have overlapped, or nobody hears     *)
(* what becomes of theirs.                                                 *)
OverlapsKnown ==
  \A m, n \in Holders : m # n => m \in overlapped \/ ~connected[m]

(* The client will be told that its message was saved.                     *)
Pending(n) ==
  /\ connected[n] /\ n \notin overlapped
  /\ \/ pc[n] = "answer" /\ SaysSaved(n, outcome[n])
     \/ \E e \in Events : SaysSaved(n, e) /\ OnTheWay(n, e)

(* What was or will be called saved is in the row, and in every copy that  *)
(* may replace the row.                                                    *)
SavedEverywhere ==
  faults = 0 /\ deletes = 0 =>
    /\ row
    /\ \A n \in Msgs : n \in answered \/ Pending(n) =>
         n \in stored /\ \A m \in Holders : n \in copy[m]

HoldersHaveTheirs == \A m \in Holders : m \in copy[m]

(* While the flag was only cleared at the end of a save, the page has one  *)
(* handler before its save, and the flag is set.                           *)
BeforeSave == {m \in PageMsgs : pc[m] \in {"load", "run", "save"}}
FlagGuards ==
  ~early /\ breaks = 0 =>
    /\ BeforeSave # {} => isSending
    /\ \A m, n \in BeforeSave : m = n

IInv ==
  /\ Typed /\ Unsent /\ OverlapsKnown /\ HoldersHaveTheirs
  /\ SavedEverywhere /\ FlagGuards

-----------------------------------------------------------------------------
LEMMA Offered ==
  ASSUME Typed, NEW m \in Msgs, NEW e \in Events, Offer(m, e)
  PROVE  /\ queue' \in [Msgs -> Seq(Events)]
         /\ \A n \in Msgs : Len(queue'[n]) <= QueueCap
         /\ \A n \in Msgs : \A x : OnTheWay(n, x)' =>
              OnTheWay(n, x) \/ (n = m /\ x = e)
         /\ \A n \in Msgs : n # m \/ ~connected[n] => queue'[n] = queue[n]
<1>0. queue \in [Msgs -> Seq(Events)] /\ QueueCap \in Nat
      /\ \A n \in Msgs : Len(queue[n]) <= QueueCap
  BY WebChatAssumption DEF Typed
<1>1. CASE queue' = queue
  BY <1>0, <1>1 DEF OnTheWay
<1>2. CASE /\ connected[m] /\ Len(queue[m]) < QueueCap
           /\ queue' = [queue EXCEPT ![m] = Append(@, e)]
  <2> DEFINE q == queue[m]
  <2>1. /\ Append(q, e) \in Seq(Events) /\ Len(q) \in Nat
        /\ Len(Append(q, e)) = Len(q) + 1
        /\ DOMAIN q = 1..Len(q) /\ DOMAIN Append(q, e) = 1..(Len(q) + 1)
        /\ \A i \in 1..Len(q) : Append(q, e)[i] = q[i]
        /\ Append(q, e)[Len(q) + 1] = e
    BY <1>0
  <2>2. queue'[m] = Append(q, e) /\ \A n \in Msgs \ {m} : queue'[n] = queue[n]
    BY <1>0, <1>2
  <2>3. queue' \in [Msgs -> Seq(Events)]
    BY <1>0, <1>2, <2>1
  <2>4. \A n \in Msgs : Len(queue'[n]) <= QueueCap
    BY <1>0, <1>2, <2>1, <2>2
  <2>5. ASSUME NEW x, OnTheWay(m, x)' PROVE OnTheWay(m, x) \/ x = e
    BY <2>1, <2>2, <2>5 DEF OnTheWay
  <2>6. ASSUME NEW n \in Msgs, n # m, NEW x, OnTheWay(n, x)' PROVE OnTheWay(n, x)
    BY <2>2, <2>6 DEF OnTheWay
  <2>7. QED
    BY <1>2, <2>2, <2>3, <2>4, <2>5, <2>6
<1>3. QED
  BY <1>1, <1>2 DEF Offer

LEMMA Taken ==
  ASSUME Typed, NEW m \in Msgs, queue[m] # <<>>,
         queue' = [queue EXCEPT ![m] = Tail(@)]
  PROVE  /\ queue' \in [Msgs -> Seq(Events)]
         /\ \A n \in Msgs : Len(queue'[n]) <= QueueCap
         /\ \A n \in Msgs : \A x : OnTheWay(n, x)' => OnTheWay(n, x)
         /\ \A n \in Msgs : n # m => queue'[n] = queue[n]
         /\ Head(queue[m]) \in Events /\ OnTheWay(m, Head(queue[m]))
<1> DEFINE q == queue[m]
<1>0. queue \in [Msgs -> Seq(Events)] /\ QueueCap \in Nat
      /\ \A n \in Msgs : Len(queue[n]) <= QueueCap
  BY WebChatAssumption DEF Typed
<1>1. /\ Tail(q) \in Seq(Events) /\ Head(q) \in Events /\ Head(q) = q[1]
      /\ Len(q) \in Nat \ {0} /\ Len(Tail(q)) = Len(q) - 1
      /\ DOMAIN q = 1..Len(q) /\ DOMAIN Tail(q) = 1..(Len(q) - 1)
      /\ \A i \in 1..(Len(q) - 1) : Tail(q)[i] = q[i + 1]
  BY <1>0
<1>2. queue'[m] = Tail(q) /\ \A n \in Msgs \ {m} : queue'[n] = queue[n]
  BY <1>0
<1>3. queue' \in [Msgs -> Seq(Events)]
  BY <1>0, <1>1
<1>4. \A n \in Msgs : Len(queue'[n]) <= QueueCap
  BY <1>0, <1>1, <1>2
<1>5. ASSUME NEW x, OnTheWay(m, x)' PROVE OnTheWay(m, x)
  <2>1. PICK i \in 1..(Len(q) - 1) : Tail(q)[i] = x
    BY <1>1, <1>2, <1>5 DEF OnTheWay
  <2>2. i + 1 \in DOMAIN q /\ q[i + 1] = x
    BY <1>1, <2>1
  <2>3. QED
    BY <2>2 DEF OnTheWay
<1>6. ASSUME NEW n \in Msgs, n # m, NEW x, OnTheWay(n, x)' PROVE OnTheWay(n, x)
  BY <1>2, <1>6 DEF OnTheWay
<1>7. OnTheWay(m, Head(q))
  BY <1>1 DEF OnTheWay
<1>8. QED
  BY <1>1, <1>2, <1>3, <1>4, <1>5, <1>6, <1>7

LEMMA TypeStep == IInv /\ [Next]_vars => Typed'
<1> SUFFICES ASSUME IInv, [Next]_vars PROVE Typed'
  OBVIOUS
<1>0. /\ Typed /\ QueueCap \in Nat /\ MaxTroubles \in Nat
      /\ PageMsgs \subseteq Msgs /\ ApiMsgs \subseteq Msgs
  BY WebChatAssumption DEF IInv, Msgs
<1>b. \A m \in Msgs, e \in Events : Offer(m, e) =>
        queue' \in [Msgs -> Seq(Events)] /\ \A n \in Msgs : Len(queue'[n]) <= QueueCap
  BY <1>0, Offered
<1>e. {"delta", "done", "ok", "error"} \subseteq Events
  BY DEF Events
<1> USE DEF Typed, Goto, server, client, bounds, history
<1>1. ASSUME NEW m \in Msgs, SendFromPage(m) PROVE Typed'
  BY <1>0, <1>1 DEF SendFromPage
<1>2. ASSUME NEW m \in Msgs, SendFromApi(m) PROVE Typed'
  BY <1>0, <1>2 DEF SendFromApi
<1>3. ASSUME NEW m \in Msgs, Load(m) PROVE Typed'
  BY <1>0, <1>3 DEF Load, Holders
<1>4. ASSUME NEW m \in Msgs, LoadFails(m) PROVE Typed'
  BY <1>0, <1>4, <1>b, <1>e DEF LoadFails, Fail, MoreTroubles
<1>5. ASSUME NEW m \in Msgs, EndStream(m) PROVE Typed'
  BY <1>0, <1>5, <1>b, <1>e DEF EndStream
<1>6. ASSUME NEW m \in Msgs, EndCall(m) PROVE Typed'
  <2>1. /\ queue' \in [Msgs -> Seq(Events)] /\ \A n \in Msgs : Len(queue'[n]) <= QueueCap
    <3>1. CASE queue' = queue
      BY <1>0, <3>1
    <3>2. CASE Offer(m, "error")
      BY <1>b, <1>e, <3>2
    <3>3. QED
      BY <1>6, <3>1, <3>2 DEF EndCall
  <2>2. CASE Goto(m, "run", "save")
    BY <1>0, <1>6, <2>1, <2>2, ZenonT(60) DEF EndCall
  <2>3. CASE Goto(m, "run", "ended") /\ copy' = [copy EXCEPT ![m] = {}] /\ outcome' = outcome
    BY <1>0, <1>6, <2>1, <2>3 DEF EndCall
  <2>4. QED
    BY <1>6, <2>2, <2>3 DEF EndCall
<1>7. ASSUME NEW m \in Msgs, Save(m) PROVE Typed'
  BY <1>0, <1>7 DEF Save
<1>8. ASSUME NEW m \in Msgs, SaveFails(m) PROVE Typed'
  BY <1>0, <1>8 DEF SaveFails, Fail, MoreTroubles
<1>9. ASSUME NEW m \in Msgs, Answer(m) PROVE Typed'
  BY <1>0, <1>9, <1>b, <1>e DEF Answer
<1>10. ASSUME NEW m \in Msgs, Emit(m) PROVE Typed'
  BY <1>0, <1>10, <1>b, <1>e DEF Emit
<1>11. ASSUME NEW m \in Msgs, Receive(m) PROVE Typed'
  <2>1. queue' \in [Msgs -> Seq(Events)] /\ \A n \in Msgs : Len(queue'[n]) <= QueueCap
    BY <1>0, <1>11, Taken DEF Receive
  <2>2. connected' \in [Msgs -> BOOLEAN]
    BY <1>0, <1>11 DEF Receive
  <2>3. isSending' \in BOOLEAN /\ early' \in BOOLEAN
    BY <1>0, <1>11 DEF Receive
  <2>4. answered' \subseteq Msgs /\ overlapped' \subseteq Msgs
    BY <1>0, <1>11 DEF Receive
  <2>5. QED
    BY <1>0, <1>11, <2>1, <2>2, <2>3, <2>4 DEF Receive
<1>12. ASSUME NEW m \in Msgs, Break(m) PROVE Typed'
  <2>1. /\ queue' \in [Msgs -> Seq(Events)] /\ \A n \in Msgs : Len(queue'[n]) <= QueueCap
        /\ connected' \in [Msgs -> BOOLEAN] /\ isSending' \in BOOLEAN
    BY <1>0, <1>12 DEF Break
  <2>2. /\ pc' \in [Msgs -> {"typed", "load", "run", "save", "answer", "ended"}]
        /\ copy' \in [Msgs -> SUBSET Msgs]
        /\ \A n \in Msgs : pc'[n] \in {"save", "answer"} => pc[n] = pc'[n]
    BY <1>0, <1>12 DEF Break
  <2>3. QED
    BY <1>0, <1>12, <2>1, <2>2 DEF Break, MoreTroubles
<1>13. CASE Delete
  <2>1. deletes' \in Nat /\ faults' + breaks' + deletes' <= MaxTroubles
    BY <1>0, <1>13 DEF Delete, MoreTroubles
  <2>2. row' \in BOOLEAN /\ stored' \subseteq Msgs
    BY <1>13 DEF Delete
  <2>3. QED
    BY <1>0, <1>13, <2>1, <2>2 DEF Delete
<1>14. CASE UNCHANGED vars
  BY <1>0, <1>14 DEF vars
<1>15. QED
  BY <1>1, <1>2, <1>3, <1>4, <1>5, <1>6, <1>7, <1>8, <1>9, <1>10, <1>11, <1>12, <1>13, <1>14
  DEF Next, Handle

(* Who moves, and to where.                                                *)
LEMMA UnsentStep == IInv /\ [Next]_vars => Unsent'
<1> SUFFICES ASSUME IInv, [Next]_vars, NEW n \in Msgs, pc'[n] = "typed"
             PROVE  ~connected'[n] /\ queue'[n] = <<>>
  BY DEF Unsent
<1>0. /\ Typed /\ pc \in [Msgs -> {"typed", "load", "run", "save", "answer", "ended"}]
      /\ connected \in [Msgs -> BOOLEAN]
      /\ pc[n] = "typed" => ~connected[n] /\ queue[n] = <<>>
  BY DEF IInv, Typed, Unsent
<1>a. \A m \in Msgs, e \in Events :
        Offer(m, e) /\ (n # m \/ ~connected[n]) => queue'[n] = queue[n]
  BY <1>0, Offered
<1>e. {"delta", "done", "ok", "error"} \subseteq Events
  BY DEF Events
<1> USE DEF Goto, server, client, bounds, history
<1>1. ASSUME NEW m \in Msgs,
             SendFromPage(m) \/ SendFromApi(m) \/ Load(m) \/ Save(m) \/ SaveFails(m)
      PROVE  ~connected'[n] /\ queue'[n] = <<>>
  BY <1>0, <1>1 DEF SendFromPage, SendFromApi, Load, Save, SaveFails
<1>2. ASSUME NEW m \in Msgs, LoadFails(m) PROVE ~connected'[n] /\ queue'[n] = <<>>
  BY <1>0, <1>2, <1>a, <1>e DEF LoadFails
<1>3. ASSUME NEW m \in Msgs, EndStream(m) PROVE ~connected'[n] /\ queue'[n] = <<>>
  BY <1>0, <1>3, <1>a, <1>e DEF EndStream
<1>4. ASSUME NEW m \in Msgs, EndCall(m) PROVE ~connected'[n] /\ queue'[n] = <<>>
  <2>1. n # m /\ pc[n] = "typed" /\ connected' = connected
    BY <1>0, <1>4 DEF EndCall
  <2>2. queue'[n] = queue[n]
    BY <1>0, <1>4, <1>a, <1>e, <2>1 DEF EndCall
  <2>3. QED
    BY <1>0, <2>1, <2>2
<1>5. ASSUME NEW m \in Msgs, Answer(m) PROVE ~connected'[n] /\ queue'[n] = <<>>
  <2>1. outcome[m] \in Events
    BY <1>0, <1>5, <1>e DEF Answer, Typed
  <2>2. QED
    BY <1>0, <1>5, <1>a, <2>1 DEF Answer
<1>6. ASSUME NEW m \in Msgs, Emit(m) PROVE ~connected'[n] /\ queue'[n] = <<>>
  BY <1>0, <1>6, <1>a, <1>e DEF Emit
<1>7. ASSUME NEW m \in Msgs, Receive(m) PROVE ~connected'[n] /\ queue'[n] = <<>>
  <2>1. n # m /\ pc[n] = "typed"
    BY <1>0, <1>7 DEF Receive
  <2>2. connected'[n] = connected[n] /\ queue'[n] = queue[n]
    BY <1>0, <1>7, <2>1 DEF Receive, Typed
  <2>3. QED
    BY <1>0, <2>1, <2>2
<1>8. ASSUME NEW m \in Msgs, Break(m) PROVE ~connected'[n] /\ queue'[n] = <<>>
  <2>1. pc[n] = "typed"
    BY <1>0, <1>8 DEF Break
  <2>2. n # m
    BY <1>0, <1>8, <2>1 DEF Break
  <2>3. QED
    BY <1>0, <1>8, <2>1, <2>2 DEF Break, Typed
<1>9. CASE Delete
  BY <1>0, <1>9 DEF Delete
<1>10. CASE UNCHANGED vars
  BY <1>0, <1>10 DEF vars
<1>11. QED
  BY <1>1, <1>2, <1>3, <1>4, <1>5, <1>6, <1>7, <1>8, <1>9, <1>10 DEF Next, Handle

LEMMA HolderStep == IInv /\ [Next]_vars => OverlapsKnown' /\ HoldersHaveTheirs'
<1> SUFFICES ASSUME IInv, [Next]_vars PROVE OverlapsKnown' /\ HoldersHaveTheirs'
  OBVIOUS
<1>0. /\ pc \in [Msgs -> {"typed", "load", "run", "save", "answer", "ended"}]
      /\ copy \in [Msgs -> SUBSET Msgs]
      /\ connected \in [Msgs -> BOOLEAN] /\ Unsent /\ OverlapsKnown /\ HoldersHaveTheirs
  BY DEF IInv, Typed
<1> USE DEF Goto, server, client, bounds, history
<1>1. ASSUME \A m \in Msgs : m \in Holders' => m \in Holders /\ copy'[m] = copy[m],
             \A m \in Holders : m \in overlapped => m \in overlapped' \/ ~connected'[m],
             \A m \in Holders : connected'[m] => connected[m]
      PROVE  OverlapsKnown' /\ HoldersHaveTheirs'
  <2>1. OverlapsKnown'
    BY <1>0, <1>1 DEF OverlapsKnown, Holders
  <2>2. HoldersHaveTheirs'
    BY <1>0, <1>1 DEF HoldersHaveTheirs, Holders
  <2>3. QED
    BY <2>1, <2>2
<1>2. ASSUME NEW m \in Msgs, SendFromPage(m) \/ SendFromApi(m)
      PROVE  OverlapsKnown' /\ HoldersHaveTheirs'
  BY <1>0, <1>1, <1>2 DEF SendFromPage, SendFromApi, Holders
<1>3. ASSUME NEW m \in Msgs, Load(m) PROVE OverlapsKnown' /\ HoldersHaveTheirs'
  <2>1. Holders' = Holders \cup {m} /\ connected' = connected
    BY <1>0, <1>3 DEF Load, Holders
  <2>2. copy'[m] = stored \cup {m} /\ \A n \in Msgs \ {m} : copy'[n] = copy[n]
    BY <1>0, <1>3 DEF Load
  <2>3. overlapped' = IF Holders = {} THEN overlapped ELSE overlapped \cup Holders \cup {m}
    BY <1>3 DEF Load
  <2>4. OverlapsKnown'
    BY <1>0, <2>1, <2>3 DEF OverlapsKnown
  <2>5. HoldersHaveTheirs'
    BY <1>0, <2>1, <2>2 DEF HoldersHaveTheirs, Holders
  <2>6. QED
    BY <2>4, <2>5
<1>4. ASSUME NEW m \in Msgs, EndStream(m) \/ EndCall(m)
      PROVE  OverlapsKnown' /\ HoldersHaveTheirs'
  <2>1. /\ connected' = connected /\ overlapped' = overlapped
        /\ \/ copy' = copy
           \/ pc'[m] = "ended" /\ copy' = [copy EXCEPT ![m] = {}]
        /\ pc[m] = "run" /\ \A n \in Msgs \ {m} : pc'[n] = pc[n]
    BY <1>0, <1>4 DEF EndStream, EndCall
  <2>2. \A n \in Msgs : n \in Holders' => n \in Holders /\ copy'[n] = copy[n]
    BY <1>0, <2>1 DEF Holders
  <2>3. QED
    BY <1>1, <2>1, <2>2
<1>5. ASSUME NEW m \in Msgs, Save(m) \/ SaveFails(m)
      PROVE  OverlapsKnown' /\ HoldersHaveTheirs'
  BY <1>0, <1>1, <1>5 DEF Save, SaveFails, Holders
<1>6. ASSUME NEW m \in Msgs, Answer(m) \/ Emit(m) \/ LoadFails(m)
      PROVE  OverlapsKnown' /\ HoldersHaveTheirs'
  BY <1>0, <1>1, <1>6 DEF Answer, Emit, LoadFails, Holders
<1>7. ASSUME NEW m \in Msgs, Receive(m) PROVE OverlapsKnown' /\ HoldersHaveTheirs'
  <2>1. /\ pc' = pc /\ copy' = copy
        /\ \A n \in Msgs : connected'[n] => connected[n]
        /\ \A n \in Msgs : n \in overlapped => n \in overlapped' \/ ~connected'[n]
    BY <1>0, <1>7 DEF Receive
  <2>2. QED
    BY <1>1, <2>1 DEF Holders
<1>8. ASSUME NEW m \in Msgs, Break(m) PROVE OverlapsKnown' /\ HoldersHaveTheirs'
  <2>1. /\ \A n \in Msgs : connected'[n] => connected[n]
        /\ \A n \in Msgs : n \in overlapped => n \in overlapped' \/ ~connected'[n]
    BY <1>0, <1>8 DEF Break
  <2>2. \A n \in Msgs : n \in Holders' => n \in Holders /\ copy'[n] = copy[n]
    BY <1>0, <1>8 DEF Break, Holders
  <2>3. QED
    BY <1>1, <2>1, <2>2 DEF Holders
<1>9. CASE Delete \/ UNCHANGED vars
  BY <1>0, <1>1, <1>9 DEF Delete, vars, Holders
<1>10. QED
  BY <1>2, <1>3, <1>4, <1>5, <1>6, <1>7, <1>8, <1>9 DEF Next, Handle

LEMMA FlagStep == IInv /\ [Next]_vars => FlagGuards'
<1> SUFFICES ASSUME IInv, [Next]_vars PROVE FlagGuards'
  OBVIOUS
<1>0. /\ pc \in [Msgs -> {"typed", "load", "run", "save", "answer", "ended"}]
      /\ isSending \in BOOLEAN /\ early \in BOOLEAN /\ breaks \in Nat
      /\ PageMsgs \cap ApiMsgs = {} /\ FlagGuards
  BY WebChatAssumption DEF IInv, Typed
<1> USE DEF Goto, server, client, bounds, history
<1>1. ASSUME BeforeSave' \subseteq BeforeSave, isSending' = isSending, early' = early,
             breaks' = breaks
      PROVE  FlagGuards'
  BY <1>0, <1>1 DEF FlagGuards
<1>2. ASSUME NEW m \in Msgs, SendFromPage(m) PROVE FlagGuards'
  <2>1. BeforeSave' \subseteq BeforeSave \cup {m} /\ isSending' = TRUE /\ ~isSending
    BY <1>0, <1>2 DEF SendFromPage, BeforeSave, Msgs
  <2>2. QED
    BY <1>0, <1>2, <2>1 DEF SendFromPage, FlagGuards
<1>3. ASSUME NEW m \in Msgs,
             \/ SendFromApi(m) \/ Load(m) \/ LoadFails(m) \/ EndStream(m) \/ EndCall(m)
             \/ Save(m) \/ SaveFails(m) \/ Answer(m) \/ Emit(m)
      PROVE  FlagGuards'
  <2>1. isSending' = isSending /\ early' = early /\ breaks' = breaks
    BY <1>3 DEF SendFromApi, Load, LoadFails, EndStream, EndCall, Save, SaveFails, Answer, Emit
  <2>2. BeforeSave' \subseteq BeforeSave
    BY <1>0, <1>3 DEF SendFromApi, Load, LoadFails, EndStream, EndCall, Save, SaveFails,
       Answer, Emit, BeforeSave, Msgs
  <2>3. QED
    BY <1>1, <2>1, <2>2
<1>4. ASSUME NEW m \in Msgs, Receive(m) PROVE FlagGuards'
  <2>1. /\ BeforeSave' = BeforeSave /\ breaks' = breaks
        /\ early' = (early \/ (isSending /\ ~isSending' /\ BeforeSave # {}))
    BY <1>4 DEF Receive, BeforeSave
  <2>2. isSending' \in BOOLEAN
    BY <1>0, <1>4 DEF Receive
  <2>3. QED
    BY <1>0, <2>1, <2>2 DEF FlagGuards
<1>5. ASSUME NEW m \in Msgs, Break(m) PROVE FlagGuards'
  BY <1>0, <1>5 DEF Break, FlagGuards
<1>6. CASE Delete \/ UNCHANGED vars
  BY <1>1, <1>6 DEF Delete, vars, BeforeSave
<1>7. QED
  BY <1>2, <1>3, <1>4, <1>5, <1>6 DEF Next, Handle

LEMMA SavedStep == IInv /\ [Next]_vars => SavedEverywhere'
<1> SUFFICES ASSUME IInv, [Next]_vars, faults' = 0, deletes' = 0
             PROVE  row' /\ \A n \in Msgs : n \in answered' \/ Pending(n)' =>
                               n \in stored' /\ \A k \in Holders' : n \in copy'[k]
  BY DEF SavedEverywhere
<1> DEFINE Kept(n) == n \in stored' /\ \A k \in Holders' : n \in copy'[k]
           Goal == row' /\ \A n \in Msgs : n \in answered' \/ Pending(n)' => Kept(n)
<1> SUFFICES Goal
  OBVIOUS
<1>0. /\ Typed /\ faults = 0 /\ deletes = 0
      /\ pc \in [Msgs -> {"typed", "load", "run", "save", "answer", "ended"}]
      /\ copy \in [Msgs -> SUBSET Msgs] /\ connected \in [Msgs -> BOOLEAN]
      /\ outcome \in [Msgs -> {"none", "ok", "error"}]
  <2>1. faults \in Nat /\ deletes \in Nat /\ Typed
    BY DEF IInv, Typed
  <2>2. faults' \in {faults, faults + 1} /\ deletes' \in {deletes, deletes + 1}
    BY DEF Next, Handle, SendFromPage, SendFromApi, Load, LoadFails, Fail, EndStream, EndCall,
       Save, SaveFails, Answer, Emit, Receive, Break, Delete, vars, server, client, bounds,
       history
  <2>3. QED
    BY <2>1, <2>2 DEF Typed
<1>i. /\ row /\ OverlapsKnown /\ HoldersHaveTheirs /\ Unsent
      /\ \A n \in Msgs : n \in answered \/ Pending(n) =>
           n \in stored /\ \A k \in Holders : n \in copy[k]
  BY <1>0 DEF IInv, SavedEverywhere
<1>e. {"delta", "done", "ok", "error"} \subseteq Events /\ PageMsgs \cap ApiMsgs = {}
  BY WebChatAssumption DEF Events
<1> HIDE DEF Kept
(* A step that adds nothing to what was or will be called saved.           *)
<1>1. ASSUME row' = row, stored' = stored,
             \A n \in Msgs : n \in answered' \/ Pending(n)' => n \in answered \/ Pending(n),
             \A k \in Holders' : \A n \in stored :
               (k \in Holders => n \in copy[k]) => n \in copy'[k]
      PROVE  Goal
  <2>1. ASSUME NEW n \in Msgs, n \in answered' \/ Pending(n)' PROVE Kept(n)
    <3>1. n \in stored /\ \A k \in Holders : n \in copy[k]
      BY <1>1, <1>i, <2>1
    <3>2. QED
      BY <1>1, <3>1 DEF Kept
  <2>2. QED
    BY <1>1, <1>i, <2>1
(* What is still pending if the events on the way only lose that say so.   *)
<1>2. ASSUME NEW n \in Msgs, Pending(n)',
             connected'[n] => connected[n], connected'[n] /\ n \in overlapped => n \in overlapped',
             \A x \in Events : SaysSaved(n, x) /\ OnTheWay(n, x)' =>
               OnTheWay(n, x) \/ (pc[n] = "answer" /\ SaysSaved(n, outcome[n])),
             pc'[n] = "answer" => pc[n] = "answer" /\ outcome'[n] = outcome[n]
      PROVE  Pending(n)
  BY <1>2 DEF Pending, SaysSaved
<1> USE DEF Goto, server, client, bounds, history
<1>3. ASSUME NEW m \in Msgs, SendFromPage(m) \/ SendFromApi(m) PROVE Goal
  <2>1. /\ pc[m] = "typed" /\ pc' = [pc EXCEPT ![m] = "load"]
        /\ connected' = [connected EXCEPT ![m] = TRUE]
        /\ UNCHANGED <<row, stored, copy, outcome, queue, overlapped, answered>>
    BY <1>3 DEF SendFromPage, SendFromApi
  <2>2. ~Pending(m)'
    <3>1. queue'[m] = <<>> /\ pc'[m] = "load"
      BY <1>0, <1>i, <2>1 DEF Unsent
    <3>2. QED
      BY <3>1 DEF Pending, OnTheWay
  <2>3. \A n \in Msgs : Pending(n)' => Pending(n)
    BY <1>0, <2>1, <2>2 DEF Pending, OnTheWay
  <2>4. \A k \in Holders' : k \in Holders /\ copy'[k] = copy[k]
    BY <1>0, <2>1 DEF Holders
  <2>5. QED
    BY <1>1, <2>1, <2>3, <2>4
<1>4. ASSUME NEW m \in Msgs, Load(m) PROVE Goal
  <2>1. /\ pc[m] = "load" /\ pc' = [pc EXCEPT ![m] = "run"]
        /\ copy' = [copy EXCEPT ![m] = stored \cup {m}] /\ overlapped \subseteq overlapped'
        /\ UNCHANGED <<row, stored, outcome, queue, connected, answered>>
    BY <1>4 DEF Load
  <2>2. \A n \in Msgs : Pending(n)' => Pending(n)
    BY <1>0, <2>1 DEF Pending, OnTheWay
  <2>3. \A k \in Holders' : k = m \/ (k \in Holders /\ copy'[k] = copy[k])
    BY <1>0, <2>1 DEF Holders
  <2>4. copy'[m] = stored \cup {m}
    BY <1>0, <2>1
  <2>5. QED
    BY <1>1, <2>1, <2>2, <2>3, <2>4
<1>5. ASSUME NEW m \in Msgs, LoadFails(m) \/ SaveFails(m) PROVE Goal
  BY <1>0, <1>5, <1>i DEF LoadFails, SaveFails, Fail
<1>6. ASSUME NEW m \in Msgs, NEW e \in Events, ~SaysSaved(m, e),
             queue' = queue \/ Offer(m, e),
             UNCHANGED <<row, stored, connected, answered, overlapped>>,
             pc[m] = "run", \A n \in Msgs \ {m} : pc'[n] = pc[n] /\ outcome'[n] = outcome[n],
             pc'[m] # "answer",
             \A k \in Holders' : k \in Holders /\ copy'[k] = copy[k]
      PROVE  Goal
  <2>1. \A n \in Msgs : \A x : OnTheWay(n, x)' => OnTheWay(n, x) \/ (n = m /\ x = e)
    BY <1>0, <1>6, Offered DEF OnTheWay
  <2>2. \A n \in Msgs : Pending(n)' => Pending(n)
    BY <1>2, <1>6, <2>1
  <2>3. QED
    BY <1>1, <1>6, <2>2
<1>7. ASSUME NEW m \in Msgs, EndStream(m) PROVE Goal
  <2>1. ~SaysSaved(m, "done") /\ (queue' = queue \/ Offer(m, "done"))
    BY <1>7 DEF EndStream, SaysSaved
  <2>2. /\ pc[m] = "run" /\ pc'[m] # "answer" /\ copy' = copy
        /\ \A n \in Msgs \ {m} : pc'[n] = pc[n] /\ outcome'[n] = outcome[n]
        /\ UNCHANGED <<row, stored, connected, answered, overlapped>>
    BY <1>0, <1>7 DEF EndStream
  <2>3. \A k \in Holders' : k \in Holders /\ copy'[k] = copy[k]
    BY <2>2 DEF Holders
  <2>4. QED
    BY <1>6, <1>e, <2>1, <2>2, <2>3
<1>8. ASSUME NEW m \in Msgs, EndCall(m) PROVE Goal
  <2>1. ~SaysSaved(m, "error") /\ (queue' = queue \/ Offer(m, "error"))
    BY <1>8, <1>e DEF EndCall, SaysSaved
  <2>2. /\ pc[m] = "run" /\ pc'[m] \in {"save", "ended"}
        /\ \A n \in Msgs \ {m} : pc'[n] = pc[n] /\ outcome'[n] = outcome[n]
        /\ \A n \in Msgs \ {m} : copy'[n] = copy[n]
        /\ pc'[m] = "save" => copy'[m] = copy[m]
        /\ UNCHANGED <<row, stored, connected, answered, overlapped>>
    BY <1>0, <1>8 DEF EndCall
  <2>3. \A k \in Holders' : k \in Holders /\ copy'[k] = copy[k]
    BY <2>2 DEF Holders
  <2>4. QED
    BY <1>6, <1>e, <2>1, <2>2, <2>3
<1>9. ASSUME NEW m \in Msgs, Emit(m) PROVE Goal
  <2>1. ~SaysSaved(m, "delta") /\ Offer(m, "delta")
    BY <1>9 DEF Emit, SaysSaved
  <2>2. /\ pc[m] = "run" /\ UNCHANGED <<row, stored, pc, copy, outcome, connected, answered,
                                         overlapped>>
    BY <1>9 DEF Emit
  <2>3. \A k \in Holders' : k \in Holders /\ copy'[k] = copy[k]
    BY <2>2 DEF Holders
  <2>4. QED
    BY <1>6, <1>e, <2>1, <2>2, <2>3
(* A save replaces the row by a copy that has all of it, and adds its own. *)
<1>10. ASSUME NEW m \in Msgs, Save(m) PROVE Goal
  <2>1. /\ pc[m] = "save" /\ pc' = [pc EXCEPT ![m] = "answer"]
        /\ row' /\ stored' = copy[m] /\ copy' = [copy EXCEPT ![m] = {}]
        /\ UNCHANGED <<outcome, queue, connected, answered, overlapped>>
    BY <1>10 DEF Save
  <2>2. m \in Holders /\ m \in copy[m]
    BY <1>i, <2>1 DEF Holders, HoldersHaveTheirs
  <2>3. \A k \in Holders' : k \in Holders /\ k # m /\ copy'[k] = copy[k]
    BY <1>0, <2>1 DEF Holders
  <2>4. ASSUME NEW n \in Msgs, n \in answered \/ Pending(n) PROVE Kept(n)
    BY <1>i, <2>1, <2>2, <2>3, <2>4 DEF Kept
  <2>5. \A n \in Msgs \ {m} : Pending(n)' => Pending(n)
    BY <1>0, <2>1 DEF Pending, OnTheWay
  <2>6. ASSUME Pending(m)' PROVE Kept(m)
    <3>1. connected[m] /\ m \notin overlapped
      BY <2>1, <2>6 DEF Pending
    <3>2. Holders' = {}
      BY <1>i, <2>2, <2>3, <3>1 DEF OverlapsKnown
    <3>3. QED
      BY <2>1, <2>2, <3>2 DEF Kept
  <2>7. ASSUME NEW n \in Msgs, n \in answered' \/ Pending(n)' PROVE Kept(n)
    BY <2>1, <2>4, <2>5, <2>6, <2>7
  <2>8. QED
    BY <2>1, <2>7
<1>11. ASSUME NEW m \in Msgs, Answer(m) PROVE Goal
  <2>1. /\ pc[m] = "answer" /\ pc' = [pc EXCEPT ![m] = "ended"]
        /\ outcome' = [outcome EXCEPT ![m] = "none"] /\ Offer(m, outcome[m])
        /\ UNCHANGED <<row, stored, copy, connected, answered, overlapped>>
    BY <1>11 DEF Answer
  <2>2. outcome[m] \in Events
    BY <1>0, <1>e, <2>1 DEF Typed
  <2>3. \A n \in Msgs : \A x : OnTheWay(n, x)' => OnTheWay(n, x) \/ (n = m /\ x = outcome[m])
    BY <1>0, <2>1, <2>2, Offered
  <2>4. \A n \in Msgs : pc'[n] = "answer" => pc[n] = "answer" /\ outcome'[n] = outcome[n]
    BY <1>0, <2>1
  <2>5. \A n \in Msgs : Pending(n)' => Pending(n)
    BY <1>2, <2>1, <2>3, <2>4
  <2>6. \A k \in Holders' : k \in Holders /\ copy'[k] = copy[k]
    BY <1>0, <2>1 DEF Holders
  <2>7. QED
    BY <1>1, <2>1, <2>5, <2>6
<1>12. ASSUME NEW m \in Msgs, Receive(m) PROVE Goal
  <2> DEFINE e == Head(queue[m])
  <2>1. /\ connected[m] /\ queue[m] # <<>> /\ queue' = [queue EXCEPT ![m] = Tail(@)]
        /\ connected' = [connected EXCEPT ![m] = e \notin {"ok", "error"}]
        /\ answered' = IF m \notin overlapped /\ SaysSaved(m, e)
                       THEN answered \cup {m} ELSE answered
        /\ overlapped' = IF e \in {"ok", "error"} THEN overlapped \ {m} ELSE overlapped
        /\ UNCHANGED <<row, stored, pc, copy, outcome>>
    BY <1>12 DEF Receive, SaysSaved
  <2>2. /\ e \in Events /\ OnTheWay(m, e)
        /\ \A n \in Msgs : \A x : OnTheWay(n, x)' => OnTheWay(n, x)
    BY <1>0, <2>1, Taken
  <2> HIDE DEF e
  <2>3. \A n \in Msgs : /\ connected'[n] => connected[n]
                        /\ connected'[n] /\ n \in overlapped => n \in overlapped'
    BY <1>0, <2>1
  <2>4. \A n \in Msgs : Pending(n)' => Pending(n)
    BY <1>2, <2>1, <2>2, <2>3
  <2>5. m \notin overlapped /\ SaysSaved(m, e) => Pending(m)
    BY <2>1, <2>2 DEF Pending
  <2>6. \A k \in Holders' : k \in Holders /\ copy'[k] = copy[k]
    BY <2>1 DEF Holders
  <2>7. \A n \in Msgs : n \in answered' \/ Pending(n)' => n \in answered \/ Pending(n)
    BY <2>1, <2>4, <2>5
  <2>8. QED
    BY <1>1, <2>1, <2>6, <2>7
<1>13. ASSUME NEW m \in Msgs, Break(m) PROVE Goal
  <2>1. /\ connected' = [connected EXCEPT ![m] = FALSE]
        /\ queue' = [queue EXCEPT ![m] = <<>>] /\ overlapped' = overlapped \ {m}
        /\ UNCHANGED <<row, stored, outcome, answered>>
    BY <1>13 DEF Break
  <2>2. \A n \in Msgs \ {m} : pc'[n] = pc[n] /\ copy'[n] = copy[n]
    BY <1>0, <1>13 DEF Break
  <2>3. \A k \in Holders' : k \in Holders /\ copy'[k] = copy[k]
    BY <1>0, <1>13 DEF Break, Holders
  <2>4. ~Pending(m)'
    BY <1>0, <2>1 DEF Pending
  <2>5. ASSUME NEW n \in Msgs, n # m, Pending(n)' PROVE Pending(n)
    <3>1. queue'[n] = queue[n]
      BY <1>0, <2>1, <2>5 DEF Typed
    <3>2. QED
      BY <1>0, <2>1, <2>2, <2>5, <3>1 DEF Pending, OnTheWay
  <2>6. QED
    BY <1>1, <2>1, <2>3, <2>4, <2>5
<1>14. CASE Delete
  BY <1>0, <1>14 DEF Delete
<1>15. CASE UNCHANGED vars
  <2>1. UNCHANGED <<row, stored, pc, copy, outcome, queue, connected, answered, overlapped>>
    BY <1>15 DEF vars
  <2>2. \A n \in Msgs : Pending(n)' => Pending(n)
    BY <2>1 DEF Pending, OnTheWay
  <2>3. QED
    BY <1>1, <2>1, <2>2 DEF Holders
<1>16. QED
  BY <1>3, <1>4, <1>5, <1>7, <1>8, <1>9, <1>10, <1>11, <1>12, <1>13, <1>14, <1>15
  DEF Next, Handle

-----------------------------------------------------------------------------
LEMMA InitInv == Init => IInv
<1> SUFFICES ASSUME Init PROVE IInv
  OBVIOUS
<1>0. MaxTroubles \in Nat /\ QueueCap \in Nat
  BY WebChatAssumption
<1>1. queue \in [Msgs -> Seq(Events)] /\ \A m \in Msgs : Len(queue[m]) <= QueueCap
  BY <1>0 DEF Init
<1>a. faults + breaks + deletes <= MaxTroubles
  BY <1>0 DEF Init
<1>b. /\ pc \in [Msgs -> {"typed", "load", "run", "save", "answer", "ended"}]
      /\ copy \in [Msgs -> SUBSET Msgs] /\ outcome \in [Msgs -> {"none", "ok", "error"}]
      /\ connected \in [Msgs -> BOOLEAN]
  BY DEF Init
<1>2. Typed
  BY <1>0, <1>1, <1>a, <1>b DEF Init, Typed
<1>3. Holders = {} /\ BeforeSave = {}
  BY DEF Init, Holders, BeforeSave, Msgs
<1>4. Unsent
  BY DEF Init, Unsent
<1>5. SavedEverywhere
  BY <1>3 DEF Init, SavedEverywhere, Pending
<1>6. QED
  BY <1>2, <1>3, <1>4, <1>5 DEF IInv, OverlapsKnown, HoldersHaveTheirs, FlagGuards

(* The inductive invariant holds in every reachable state.                 *)
THEOREM Invariance == Spec => []IInv
<1>1. IInv /\ [Next]_vars => IInv'
  BY TypeStep, UnsentStep, HolderStep, SavedStep, FlagStep DEF IInv
<1>2. QED
  BY <1>1, InitInv, PTL DEF Spec

(* The handlers, the copies, the channels and the bounds keep their types. *)
THEOREM TypeCorrect == Spec => []TypeOK
<1>1. IInv => TypeOK
  BY WebChatAssumption DEF IInv, Typed, TypeOK
<1>2. QED
  BY <1>1, Invariance, PTL

(* Without failing storage calls and deletions, no save of another handler *)
(* takes back what a client was told is saved, unless the two overlapped.  *)
THEOREM AnswersLast == Spec => []AnsweredStored
<1>1. IInv => AnsweredStored
  BY DEF IInv, Typed, SavedEverywhere, AnsweredStored
<1>2. QED
  BY <1>1, Invariance, PTL

(* isSending keeps the page's handlers apart until one of the two things   *)
(* that clear it too early.                                                *)
THEOREM OneRunOfThePage == Spec => []PageSerializes
<1>1. IInv => PageSerializes
  <2>1. SUFFICES ASSUME IInv, NEW m \in PageMsgs \cap Holders, NEW n \in PageMsgs \cap Holders,
                        m # n, ~early, ~(breaks > 0)
                 PROVE  FALSE
    BY DEF PageSerializes
  <2>2. breaks = 0 /\ m \in BeforeSave /\ n \in BeforeSave
    BY <2>1 DEF IInv, Typed, BeforeSave, Holders
  <2>3. QED
    BY <2>1, <2>2 DEF IInv, FlagGuards
<1>2. QED
  BY <1>1, Invariance, PTL

=============================================================================
