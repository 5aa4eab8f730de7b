-------------------------- MODULE TelegramChannel --------------------------
(***************************************************************************)
(* The Telegram channel (telegram.rs, telegram_webhook.rs): updates come   *)
(* from the Bot API by long polling or by webhook into the queue of the    *)
(* agent loop, whose handling of one is TelegramLoop.  How replies go out  *)
(* is TelegramSend.                                                        *)
(*                                                                         *)
(* The Bot API keeps an update until a poll asks for a later one, or until *)
(* the webhook answers it with 200.  The process may stop at any point;    *)
(* what was fetched or queued is then gone.                                *)
(***************************************************************************)
EXTENDS Naturals, Sequences

CONSTANTS
  KindOf,      \* the updates there will be: "text", "command" or "ignored"
               \* (edits, other content, chats that are not allowed)
  QueueCap,
  MaxCrashes   \* bound

Update == DOMAIN KindOf

ChannelAssumption ==
  /\ KindOf \in Seq({"text", "command", "ignored"})
  /\ {QueueCap, MaxCrashes} \subseteq Nat /\ QueueCap > 0

VARIABLES
  mode,        \* "polling" or "webhook", from the environment of the process
  arrived,     \* updates up to this one have arrived at the Bot API
  conf,        \* updates the Bot API will not deliver again
  poller,      \* where start_polling is
  offset,      \* of the next poll; 0 for none
  batch,       \* the updates of the last poll that are still to be handled
  queue,       \* inbound_tx to inbound_rx
  got,         \* text updates the agent loop has received
  hurt,        \* history: updates in flight when the process stopped
  again,       \* history: updates handled but not confirmed, when it did
  crashes

vars == <<mode, arrived, conf, poller, offset, batch, queue, got, hurt, again, crashes>>

Init ==
  /\ mode \in {"polling", "webhook"}
  /\ arrived = 0 /\ conf = {}
  /\ poller = "poll" /\ offset = 0 /\ batch = <<>>
  /\ queue = <<>> /\ got = {}
  /\ hurt = {} /\ again = {} /\ crashes = 0

Arrive ==
  /\ arrived < Len(KindOf)
  /\ arrived' = arrived + 1
  /\ UNCHANGED <<mode, conf, poller, offset, batch, queue, got,
                 hurt, again, crashes>>

---------------------------------------------------------------------------
(* start_polling.                                                          *)

(* A poll confirms what lies before its offset, also if its answer is lost.*)
Confirmed == conf \cup (IF offset = 0 THEN {} ELSE 1..(offset - 1))

(* The answer lists the updates that are asked for in ascending order.     *)
InOrder(S) ==
  {b \in UNION {[1..n -> S] : n \in 0..arrived} :
     /\ \A u \in S : \E i \in DOMAIN b : b[i] = u
     /\ \A i, k \in DOMAIN b : i < k => b[i] < b[k]}

Poll ==
  /\ mode = "polling" /\ poller = "poll" /\ batch = <<>>
  /\ conf' = Confirmed
  /\ batch' \in InOrder((1..arrived) \ Confirmed)
  /\ UNCHANGED <<mode, arrived, poller, offset, queue, got, hurt,
                 again, crashes>>

(* No answer, an error status or an answer that does not parse.            *)
PollFails ==
  /\ mode = "polling" /\ poller = "poll" /\ batch = <<>>
  /\ conf' \in {conf, Confirmed}
  /\ poller' = "backoff"
  /\ UNCHANGED <<mode, arrived, offset, batch, queue, got, hurt, again,
                 crashes>>

(* After 2, 4, 8 ... and at most 60 seconds.                               *)
BackOff ==
  /\ poller = "backoff"
  /\ poller' = "poll"
  /\ UNCHANGED <<mode, arrived, conf, offset, batch, queue, got,
                 hurt, again, crashes>>

(* handle_update: a text waits for room in the queue.                      *)

(* Mutant: it is dropped when there is none.                               *)
EnqueueOrDrop(u) == queue' = IF Len(queue) < QueueCap THEN Append(queue, u) ELSE queue
Enqueue(u) == Len(queue) < QueueCap /\ queue' = Append(queue, u)

Handle(u) == IF KindOf[u] = "text" THEN Enqueue(u) ELSE UNCHANGED queue

(* Mutant: the next poll asks for the last update again.                   *)
SameOffset == Head(batch)
NextOffset == Head(batch) + 1

(* A command is answered before the next update is looked at.              *)
HandleNext ==
  /\ poller = "poll" /\ batch # <<>>
  /\ offset' = NextOffset
  /\ batch' = Tail(batch)
  /\ Handle(Head(batch))
  /\ poller' = IF KindOf[Head(batch)] = "command" THEN "reply" ELSE "poll"
  /\ UNCHANGED <<mode, arrived, conf, got, hurt, again, crashes>>

Replied ==
  /\ poller = "reply"
  /\ poller' = "poll"
  /\ UNCHANGED <<mode, arrived, conf, offset, batch, queue, got, hurt, again,
                 crashes>>

(* The webhook: the update is handled within the request of the Bot API,   *)
(* which repeats it until it gets a 200 in time.                           *)
WebhookPost(u, heard) ==
  /\ mode = "webhook" /\ u \in (1..arrived) \ conf
  /\ Handle(u)
  /\ conf' = IF heard THEN conf \cup {u} ELSE conf
  /\ again' = IF heard THEN again ELSE again \cup {u}
  /\ UNCHANGED <<mode, arrived, poller, offset, batch, got, hurt,
                 crashes>>

(* The agent loop takes the next message and answers it (TelegramLoop).    *)
Receive ==
  /\ queue # <<>>
  /\ queue' = Tail(queue)
  /\ got' = got \cup {Head(queue)}
  /\ UNCHANGED <<mode, arrived, conf, poller, offset, batch, hurt,
                 again, crashes>>

---------------------------------------------------------------------------
InFlight == {u \in 1..arrived : u < offset \/ \E i \in DOMAIN queue : queue[i] = u} \ got

Crash ==
  /\ crashes < MaxCrashes
  /\ crashes' = crashes + 1
  /\ hurt' = hurt \cup InFlight
  /\ again' = again \cup ((1..arrived) \ conf)
  /\ poller' = "poll" /\ offset' = 0 /\ batch' = <<>>
  /\ queue' = <<>>
  /\ UNCHANGED <<mode, arrived, conf, got>>

Next ==
  \/ Arrive \/ Poll \/ PollFails \/ BackOff \/ HandleNext \/ Replied \/ Receive
  \/ Crash
  \/ \E u \in Update, heard \in BOOLEAN : WebhookPost(u, heard)

(* The poller is polled, sleeps end, a post is given up after its retries  *)
(* (TelegramSend), the agent loop takes its messages, and the Bot API      *)
(* answers often enough.                                                   *)
Fairness ==
  /\ SF_vars(Poll) /\ WF_vars(BackOff)
  /\ SF_vars(HandleNext) /\ WF_vars(Replied) /\ WF_vars(Receive)
  /\ \A u \in Update : SF_vars(WebhookPost(u, TRUE))

Spec == Init /\ [][Next]_vars /\ Fairness

---------------------------------------------------------------------------
TypeOK ==
  /\ arrived \in 0..Len(KindOf) /\ conf \subseteq 1..arrived
  /\ poller \in {"poll", "backoff", "reply"} /\ offset \in 0..(arrived + 1)
  /\ \A i \in DOMAIN batch : batch[i] \in (1..arrived) \ conf
  /\ Len(queue) <= QueueCap

(* The Bot API forgets a text only when the agent loop has it or will get  *)
(* it, or a stop of the process took it: not when a poll failed, a later   *)
(* update was confirmed or the queue was full.                             *)
ForgottenIsSafe ==
  \A u \in conf : KindOf[u] = "text" =>
    u \in got \cup hurt \/ \E i \in DOMAIN queue : queue[i] = u

(* A message is put before the agent loop a second time only if it was in  *)
(* the Bot API, unconfirmed, when the process stopped or the answer of the *)
(* webhook was lost.                                                       *)
RepeatsExplained ==
  [][\A u \in Update : (queue' # queue /\ Len(queue') > Len(queue)
        /\ queue'[Len(queue')] = u /\ u \in got) => u \in again]_vars

(* Every text gets to the agent loop, through poll errors, commands before *)
(* it whose answers cannot be sent, a full queue and a crash: unless the   *)
(* crash took it.                                                          *)
TextsArrive ==
  \A u \in Update : (u <= arrived /\ KindOf[u] = "text") ~> (u \in got \cup hurt)
=============================================================================
