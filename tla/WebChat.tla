------------------------------ MODULE WebChat ------------------------------
(***************************************************************************)
(* One conversation seen through the gateway: the web page, which sends a  *)
(* message with send_message_stream and follows the run over server-sent   *)
(* events, API clients, which call send_message, and DELETE.  Every        *)
(* handler loads the conversation, runs the agent on its own copy and      *)
(* saves the copy; the store calls are atomic, nothing else is.            *)
(*                                                                         *)
(* The streaming handler's agent task and its HTTP response are two        *)
(* processes joined by a bounded channel: the task survives a client that  *)
(* goes away.  The page handles one event at a time.                       *)
(***************************************************************************)
EXTENDS Naturals, Sequences, FiniteSets

CONSTANTS
  PageMsgs,   \* messages typed into the page, numbered in that order
  ApiMsgs,    \* messages sent with send_message
  QueueCap,   \* capacity of the event channel
  MaxHandlers, \* bound on the handlers at work together
  MaxTroubles \* bound on failing storage calls, breaking connections and
              \*   deletions together

ASSUME WebChatAssumption ==
  /\ PageMsgs \subseteq Nat /\ PageMsgs \cap ApiMsgs = {}
  /\ QueueCap \in Nat \ {0}
  /\ MaxHandlers \in Nat /\ MaxTroubles \in Nat

VARIABLES
  row,         \* the conversation has a row
  stored,      \* the messages in the row
  pc,          \* where the handler of each message is
  copy,        \* the handler's copy of the conversation, until it is saved
  outcome,     \* the result of its run
  queue,       \* the events on their way to the client
  connected,   \* the client still reads the response
  isSending,   \* the page's flag
  faults, breaks, deletes,
  overlapped,  \* history: messages that did not hold their copy alone
  answered,    \* history: the others, once their client got an answer that
               \*   says their copy was saved
  early        \* history: the page cleared its flag before a save of its own

server == <<row, stored, pc, copy, outcome>>
client == <<queue, connected, isSending>>
bounds == <<faults, breaks, deletes>>
history == <<answered, overlapped, early>>
vars == <<server, client, bounds, history>>

Msgs == PageMsgs \cup ApiMsgs
Events == {"delta", "done", "ok", "error"}

Init ==
  /\ row = TRUE /\ stored = {}
  /\ pc = [m \in Msgs |-> "typed"]
  /\ copy = [m \in Msgs |-> {}]
  /\ outcome = [m \in Msgs |-> "none"]
  /\ queue = [m \in Msgs |-> <<>>]
  /\ connected = [m \in Msgs |-> FALSE]
  /\ isSending = FALSE
  /\ faults = 0 /\ breaks = 0 /\ deletes = 0
  /\ answered = {} /\ overlapped = {} /\ early = FALSE

Goto(m, from, to) ==
  /\ pc[m] = from
  /\ pc' = [pc EXCEPT ![m] = to]

MoreTroubles == faults + breaks + deletes < MaxTroubles
Fail == MoreTroubles /\ faults' = faults + 1

(* try_send: an event that finds the channel full is dropped, and one that *)
(* finds the client gone is as well.                                       *)
Offer(m, e) ==
  queue' = IF connected[m] /\ Len(queue[m]) < QueueCap
           THEN [queue EXCEPT ![m] = Append(@, e)] ELSE queue

-----------------------------------------------------------------------------
AtWork == {m \in Msgs : pc[m] \notin {"typed", "ended"}}
RoomForHandler == Cardinality(AtWork) < MaxHandlers

NextTyped(m) ==
  m \in PageMsgs /\ \A n \in PageMsgs : n < m => pc[n] # "typed"

(* Mutant: the page does not look at the flag.                             *)
SendAnyTime(m) ==
  /\ NextTyped(m) /\ RoomForHandler
  /\ Goto(m, "typed", "load")
  /\ isSending' = TRUE
  /\ connected' = [connected EXCEPT ![m] = TRUE]
  /\ UNCHANGED <<row, stored, copy, outcome, queue, bounds, history>>

(* The page's sendMessage in a selected conversation: nothing is awaited   *)
(* between the test of the flag and the request.  Without one the page     *)
(* first awaits the creation of another conversation, not of this one.     *)
SendFromPage(m) ==
  /\ NextTyped(m) /\ RoomForHandler
  /\ ~isSending
  /\ Goto(m, "typed", "load")
  /\ isSending' = TRUE
  /\ connected' = [connected EXCEPT ![m] = TRUE]
  /\ UNCHANGED <<row, stored, copy, outcome, queue, bounds, history>>

SendFromApi(m) ==
  /\ m \in ApiMsgs /\ RoomForHandler
  /\ Goto(m, "typed", "load")
  /\ connected' = [connected EXCEPT ![m] = TRUE]
  /\ UNCHANGED <<row, stored, copy, outcome, queue, isSending, bounds, history>>

Holders == {m \in Msgs : pc[m] \in {"run", "save"}}

(* ConversationStore::get and push of the user's message.                  *)
Load(m) ==
  /\ row
  /\ Goto(m, "load", "run")
  /\ copy' = [copy EXCEPT ![m] = stored \cup {m}]
  /\ overlapped' = IF Holders = {} THEN overlapped
                   ELSE overlapped \cup Holders \cup {m}
  /\ UNCHANGED <<row, stored, outcome, client, bounds, answered, early>>

(* Any error of get is a 404.                                              *)
LoadFails(m) ==
  /\ IF row THEN Fail ELSE UNCHANGED faults
  /\ Goto(m, "load", "ended")
  /\ Offer(m, "error")
  /\ UNCHANGED <<row, stored, copy, outcome, connected, isSending, breaks,
                 deletes, history>>

-----------------------------------------------------------------------------
Emit(m) ==
  /\ m \in PageMsgs
  /\ pc[m] = "run"
  /\ Offer(m, "delta")
  /\ UNCHANGED <<server, connected, isSending, bounds, history>>

(* run_streaming emits its Done event before the handler gets to save; a   *)
(* stall found by the heartbeat monitor ends like an error, and an error   *)
(* may follow a Done: the last message is not there to be extracted, or    *)
(* the monitor is chosen although the run has ended as well.               *)
EndStream(m) ==
  /\ m \in PageMsgs
  /\ Goto(m, "run", "save")
  /\ \/ /\ outcome' \in {[outcome EXCEPT ![m] = o] : o \in {"ok", "error"}}
        /\ Offer(m, "done")
     \/ /\ outcome' = [outcome EXCEPT ![m] = "error"]
        /\ UNCHANGED queue
  /\ UNCHANGED <<row, stored, copy, connected, isSending, bounds, history>>

(* send_message saves only after a run that succeeded.                     *)
EndCall(m) ==
  /\ m \in ApiMsgs
  /\ \/ /\ Goto(m, "run", "save")
        /\ outcome' = [outcome EXCEPT ![m] = "ok"]
        /\ UNCHANGED queue
        /\ UNCHANGED copy
     \/ /\ Goto(m, "run", "ended")
        /\ copy' = [copy EXCEPT ![m] = {}]
        /\ Offer(m, "error")
        /\ UNCHANGED outcome
  /\ UNCHANGED <<row, stored, connected, isSending, bounds, history>>

(* A failed save is a 500 for send_message and only logged by the stream.  *)
SaveFails(m) ==
  /\ Fail
  /\ Goto(m, "save", "answer")
  /\ outcome' =
       [outcome EXCEPT ![m] = IF m \in ApiMsgs THEN "error" ELSE @]
  /\ copy' = [copy EXCEPT ![m] = {}]
  /\ UNCHANGED <<row, stored, client, breaks, deletes, history>>

(* Mutant: the handler saves nothing when the run failed.                  *)
SaveOnlyAnswers(m) ==
  /\ Goto(m, "save", "answer")
  /\ row' = (row \/ outcome[m] = "ok")
  /\ stored' = IF outcome[m] = "ok" THEN copy[m] ELSE stored
  /\ copy' = [copy EXCEPT ![m] = {}]
  /\ UNCHANGED <<outcome, client, bounds, history>>

Save(m) ==
  /\ Goto(m, "save", "answer")
  /\ row' = TRUE
  /\ stored' = copy[m]
  /\ copy' = [copy EXCEPT ![m] = {}]
  /\ UNCHANGED <<outcome, client, bounds, history>>

(* Mutant: the last payload is offered like the events before it.          *)
AnswerIfRoom(m) ==
  /\ Goto(m, "answer", "ended")
  /\ Offer(m, outcome[m])
  /\ outcome' = [outcome EXCEPT ![m] = "none"]
  /\ UNCHANGED <<row, stored, copy, connected, isSending, bounds, history>>

(* The last payload waits for room in the channel, or for the client to go *)
(* away.                                                                   *)
Answer(m) ==
  /\ Goto(m, "answer", "ended")
  /\ connected[m] => Len(queue[m]) < QueueCap
  /\ Offer(m, outcome[m])
  /\ outcome' = [outcome EXCEPT ![m] = "none"]
  /\ UNCHANGED <<row, stored, copy, connected, isSending, bounds, history>>

-----------------------------------------------------------------------------
(* The client handles its next event; the response ends with "ok" or       *)
(* "error".  The page takes "done", sent before the save, for the end of   *)
(* the run too, and its flag does not say which message it belongs to.     *)
Receive(m) ==
  /\ connected[m] /\ queue[m] # <<>>
  /\ LET e == Head(queue[m])
     IN /\ queue' = [queue EXCEPT ![m] = Tail(@)]
        /\ connected' = [connected EXCEPT ![m] = e \notin {"ok", "error"}]
        /\ isSending' = (isSending /\ (m \in ApiMsgs \/ e = "delta"))
        /\ answered' =
             IF /\ m \notin overlapped
                /\ e = "ok" \/ (e = "error" /\ m \in PageMsgs)
             THEN answered \cup {m} ELSE answered
        /\ overlapped' = IF e \in {"ok", "error"}
                         THEN overlapped \ {m} ELSE overlapped
        /\ early' = (early \/ /\ isSending /\ ~isSending'
                              /\ \E n \in PageMsgs :
                                   pc[n] \in {"load", "run", "save"})
  /\ UNCHANGED <<server, bounds>>

(* The connection breaks, or the page is loaded again.  The page allows    *)
(* the next message; a send_message handler is dropped at its await, a     *)
(* streaming handler's task goes on.                                       *)
Break(m) ==
  /\ connected[m] /\ MoreTroubles
  /\ breaks' = breaks + 1
  /\ connected' = [connected EXCEPT ![m] = FALSE]
  /\ queue' = [queue EXCEPT ![m] = <<>>]
  /\ isSending' = (isSending /\ m \in ApiMsgs)
  /\ pc' = IF m \in ApiMsgs /\ pc[m] = "run"
           THEN [pc EXCEPT ![m] = "ended"] ELSE pc
  /\ copy' = IF m \in ApiMsgs /\ pc[m] = "run"
             THEN [copy EXCEPT ![m] = {}] ELSE copy
  /\ overlapped' = overlapped \ {m}
  /\ UNCHANGED <<row, stored, outcome, faults, deletes, answered, early>>

Delete ==
  /\ row /\ MoreTroubles
  /\ deletes' = deletes + 1
  /\ row' = FALSE /\ stored' = {}
  /\ UNCHANGED <<pc, copy, outcome, client, faults, breaks, history>>

Handle(m) ==
  \/ Load(m) \/ LoadFails(m) \/ EndStream(m) \/ EndCall(m)
  \/ Save(m) \/ SaveFails(m) \/ Answer(m)

Next ==
  \/ \E m \in Msgs : \/ SendFromPage(m) \/ SendFromApi(m) \/ Handle(m)
                     \/ Emit(m) \/ Receive(m) \/ Break(m)
  \/ Delete

Spec == Init /\ [][Next]_vars

(* The runtime polls the handlers, which take finitely many steps each;    *)
(* runs end (iterations, tool and model calls are bounded, and a silent    *)
(* run is dropped); a page that is connected reads.                        *)
Fairness ==
  /\ WF_vars(\E m \in Msgs : Handle(m))
  /\ WF_vars(\E m \in PageMsgs : Receive(m))

FairSpec == Spec /\ Fairness

-----------------------------------------------------------------------------
(* Every variable keeps its shape.                                         *)
TypeOK ==
  /\ row \in BOOLEAN /\ stored \subseteq Msgs
  /\ pc \in [Msgs -> {"typed", "load", "run", "save", "answer", "ended"}]
  /\ copy \in [Msgs -> SUBSET Msgs]
  /\ outcome \in [Msgs -> {"none", "ok", "error"}]
  /\ queue \in [Msgs -> Seq(Events)]
  /\ \A m \in Msgs : Len(queue[m]) <= QueueCap
  /\ connected \in [Msgs -> BOOLEAN] /\ isSending \in BOOLEAN
  /\ faults + breaks + deletes \in 0..MaxTroubles
  /\ answered \subseteq Msgs /\ early \in BOOLEAN
  /\ overlapped \subseteq Msgs

(* A client whose message was answered finds it in the conversation, after *)
(* a failed run too if it was streamed, unless a storage call failed (the  *)
(* stream only logs that), the conversation was deleted, or another run    *)
(* held a copy at the same time.                                           *)
AnsweredStored == faults = 0 /\ deletes = 0 => answered \subseteq stored

(* The page's flag keeps its runs apart: two of them hold copies at once   *)
(* only after a connection broke, or after an event of an earlier message  *)
(* cleared the flag of a run that had not been saved.                      *)
PageSerializes ==
  (\E m, n \in PageMsgs \cap Holders : m # n) => early \/ breaks > 0

(* A page that waits for an answer gets to send again.                     *)
PageUnblocks == isSending ~> ~isSending

=============================================================================
