---------------------------- MODULE SignalChannel ----------------------------
(***************************************************************************)
(* The Signal channel (signal.rs, signal_webhook.rs, and its start in      *)
(* main.rs).  signal-cli-rest-api hands a message over once: it forgets    *)
(* what a poll returned and what it posted to the webhook.  The channel    *)
(* puts texts into a queue whose receiver stays inside the channel: the    *)
(* program never takes it, so nothing leaves the queue, and who sends into *)
(* a full one waits.                                                       *)
(***************************************************************************)
EXTENDS Naturals, Sequences

CONSTANTS
  KindOf,      \* the messages there will be: "text" or "ignored" (receipts,
               \* typing, attachments, numbers that are not allowed)
  QueueCap,    \* 256
  MaxCrashes   \* bound

SignalMessage == DOMAIN KindOf

SignalAssumption ==
  /\ KindOf \in Seq({"text", "ignored"})
  /\ {QueueCap, MaxCrashes} \subseteq Nat

VARIABLES
  mode,      \* "polling", "webhook", or "none" when the webhook could not be
             \* registered: the program does not fall back to polling
  arrived,   \* messages up to this one have reached the server
  conf,      \* those the server has handed over
  poller,    \* where start_polling is
  batch,     \* the messages of the last poll that are still to be handled
  queue,     \* inbound_tx
  hurt,      \* history: handed over into a lost answer, a stop, a refusal
  crashes

vars == <<mode, arrived, conf, poller, batch, queue, hurt, crashes>>

Init ==
  /\ mode \in {"polling", "webhook", "none"}
  /\ arrived = 0 /\ conf = {}
  /\ poller = "poll" /\ batch = <<>> /\ queue = <<>>
  /\ hurt = {} /\ crashes = 0

Arrive ==
  /\ arrived < Len(KindOf)
  /\ arrived' = arrived + 1
  /\ UNCHANGED <<mode, conf, poller, batch, queue, hurt, crashes>>

Waiting == (1..arrived) \ conf

InOrder(S) ==
  {b \in UNION {[1..n -> S] : n \in 0..arrived} :
     /\ \A u \in S : \E i \in DOMAIN b : b[i] = u
     /\ \A i, k \in DOMAIN b : i < k => b[i] < b[k]}

Poll ==
  /\ mode = "polling" /\ poller = "poll" /\ batch = <<>> /\ Waiting # {}
  /\ conf' = 1..arrived
  /\ batch' \in InOrder(Waiting)
  /\ UNCHANGED <<mode, arrived, poller, queue, hurt, crashes>>

(* The answer was an error, or it was lost on its way with what it held.   *)
PollFails ==
  /\ mode = "polling" /\ poller = "poll" /\ batch = <<>>
  /\ \/ UNCHANGED <<conf, hurt>>
     \/ conf' = 1..arrived /\ hurt' = hurt \cup Waiting
  /\ poller' = "pause"
  /\ UNCHANGED <<mode, arrived, batch, queue, crashes>>

PauseEnds ==
  /\ poller = "pause"
  /\ poller' = "poll"
  /\ UNCHANGED <<mode, arrived, conf, batch, queue, hurt, crashes>>

(* handle_envelope.  Mutant: a text is dropped when the queue is full.     *)
HandleOrDrop(u) ==
  queue' = IF KindOf[u] = "text" /\ Len(queue) < QueueCap THEN Append(queue, u) ELSE queue
HandleEnvelope(u) ==
  IF KindOf[u] = "text"
  THEN Len(queue) < QueueCap /\ queue' = Append(queue, u)
  ELSE UNCHANGED queue

HandleNext ==
  /\ batch # <<>>
  /\ HandleEnvelope(Head(batch))
  /\ batch' = Tail(batch)
  /\ UNCHANGED <<mode, arrived, conf, poller, hurt, crashes>>

(* The webhook hands the message on, unless the secret is wrong or the     *)
(* message is more than five minutes old, or signal-cli stops waiting for  *)
(* room in the queue.                                                      *)
WebhookPost(u) ==
  /\ mode = "webhook" /\ u \in Waiting
  /\ conf' = conf \cup {u}
  /\ \/ HandleEnvelope(u) /\ UNCHANGED hurt
     \/ hurt' = hurt \cup {u} /\ UNCHANGED queue
  /\ UNCHANGED <<mode, arrived, poller, batch, crashes>>

Queued == {u \in SignalMessage : \E i \in DOMAIN queue : queue[i] = u}
Fetched == {u \in SignalMessage : \E i \in DOMAIN batch : batch[i] = u}

Crash ==
  /\ crashes < MaxCrashes
  /\ crashes' = crashes + 1
  /\ hurt' = hurt \cup Queued \cup Fetched
  /\ poller' = "poll" /\ batch' = <<>> /\ queue' = <<>>
  /\ UNCHANGED <<arrived, conf>>
  /\ mode' \in IF mode = "polling" THEN {"polling"} ELSE {"webhook", "none"}

Next ==
  \/ Arrive \/ Poll \/ PollFails \/ PauseEnds \/ HandleNext \/ Crash
  \/ \E u \in SignalMessage : WebhookPost(u)

Spec == Init /\ [][Next]_vars

---------------------------------------------------------------------------
TypeOK ==
  /\ arrived \in 0..Len(KindOf) /\ conf \subseteq 1..arrived
  /\ poller \in {"poll", "pause"}
  /\ Fetched \subseteq conf /\ Queued \subseteq conf
  /\ Len(queue) <= QueueCap

(* A text the server handed over is in the queue or on its way into it,    *)
(* unless an answer was lost, the process stopped or the webhook refused   *)
(* it: a full queue makes the poller wait, it does not lose anything.      *)
HandedOverIsKept ==
  \A u \in conf : KindOf[u] = "text" => u \in Queued \cup Fetched \cup hurt
=============================================================================
