--------------------------- MODULE Waiting_proofs ---------------------------
(***************************************************************************)
(* What the waiting components promise, for any callers, channel sizes,    *)
(* updates, troubles of the other side and stops of the process.           *)
(***************************************************************************)
EXTENDS Waiting, FiniteSetTheorems, NaturalsInduction, TLAPS

(* A member of a sequence.                                                 *)
InSeq(u, s) == \E i \in DOMAIN s : s[i] = u

-----------------------------------------------------------------------------
(* The Telegram channel.                                                   *)
TelegramTyped ==
  /\ mode \in {"polling", "webhook"}
  /\ arrived \in 0..Len(KindOf) /\ conf \subseteq 1..arrived
  /\ offset \in 0..(arrived + 1)
  /\ batch \in Seq(1..arrived) /\ queue \in Seq(1..arrived)
  /\ got \subseteq 1..arrived
  /\ mode = "webhook" => offset = 0 /\ batch = <<>>

(* The rest of a poll's answer holds, in order, what is not confirmed from *)
(* the offset of the next poll up to its last update.                      *)
BatchIsGapless ==
  /\ \A i \in DOMAIN batch : batch[i] \notin conf /\ batch[i] >= offset
  /\ \A i, k \in DOMAIN batch : i < k => batch[i] < batch[k]
  /\ \A u \in (1..arrived) \ conf :
       u >= offset /\ (\E i \in DOMAIN batch : u <= batch[i]) => InSeq(u, batch)

(* What the next poll will confirm is as safe as what is confirmed.        *)
PassedIsSafe ==
  \A u \in 1..arrived : (u \in conf \/ u < offset) /\ KindOf[u] = "text"
    => u \in got \cup hurt \/ InSeq(u, queue)

(* What the loop has or will get is past the offset or confirmed, or was   *)
(* in doubt when the process stopped or an answer got lost.                *)
DoubtsKnown ==
  \A u \in 1..arrived : u \in got \/ InSeq(u, queue)
    => u \in again \/ u < offset \/ u \in conf

TelegramInv == TelegramTyped /\ BatchIsGapless /\ PassedIsSafe /\ DoubtsKnown

LEMMA AppendMembers ==
  ASSUME NEW S, NEW s \in Seq(S), NEW e \in S
  PROVE  /\ Append(s, e) \in Seq(S)
         /\ \A u : InSeq(u, Append(s, e)) <=> InSeq(u, s) \/ u = e
<1>1. /\ Append(s, e) \in Seq(S) /\ Len(s) \in Nat
      /\ DOMAIN s = 1..Len(s) /\ DOMAIN Append(s, e) = 1..(Len(s) + 1)
      /\ \A i \in 1..Len(s) : Append(s, e)[i] = s[i]
      /\ Append(s, e)[Len(s) + 1] = e
  OBVIOUS
<1>2. ASSUME NEW u PROVE InSeq(u, Append(s, e)) <=> InSeq(u, s) \/ u = e
  BY <1>1 DEF InSeq
<1>3. QED
  BY <1>1, <1>2

LEMMA SeqGrows ==
  ASSUME NEW S, NEW T, S \subseteq T, NEW s \in Seq(S)
  PROVE  s \in Seq(T)
<1>1. Len(s) \in Nat /\ DOMAIN s = 1..Len(s) /\ \A i \in 1..Len(s) : s[i] \in T
  OBVIOUS
<1>2. s = [i \in 1..Len(s) |-> s[i]]
  OBVIOUS
<1>3. QED
  BY <1>1, <1>2

LEMMA TailMembers ==
  ASSUME NEW S, NEW s \in Seq(S), s # <<>>
  PROVE  /\ Tail(s) \in Seq(S) /\ Head(s) \in S /\ InSeq(Head(s), s)
         /\ \A u : InSeq(u, s) <=> InSeq(u, Tail(s)) \/ u = Head(s)
         /\ \A i \in DOMAIN Tail(s) : i + 1 \in DOMAIN s /\ Tail(s)[i] = s[i + 1]
         /\ Head(s) = s[1] /\ 1 \in DOMAIN s
<1>1. /\ Tail(s) \in Seq(S) /\ Head(s) \in S /\ Head(s) = s[1]
      /\ Len(s) \in Nat \ {0} /\ DOMAIN s = 1..Len(s) /\ DOMAIN Tail(s) = 1..(Len(s) - 1)
      /\ \A i \in 1..(Len(s) - 1) : Tail(s)[i] = s[i + 1]
  OBVIOUS
<1>2. ASSUME NEW u PROVE InSeq(u, s) <=> InSeq(u, Tail(s)) \/ u = Head(s)
  <2>1. ASSUME NEW i \in 1..Len(s), s[i] = u PROVE InSeq(u, Tail(s)) \/ u = Head(s)
    <3>1. i # 1 => i - 1 \in 1..(Len(s) - 1) /\ Tail(s)[i - 1] = s[(i - 1) + 1]
      BY <1>1, <2>1
    <3>2. CASE i = 1
      BY <1>1, <2>1, <3>2
    <3>3. CASE i # 1
      <4>1. i - 1 \in DOMAIN Tail(s) /\ Tail(s)[i - 1] = s[(i - 1) + 1] /\ (i - 1) + 1 = i
        BY <1>1, <2>1, <3>1, <3>3
      <4>2. Tail(s)[i - 1] = u
        BY <2>1, <4>1
      <4>3. QED
        BY <4>1, <4>2 DEF InSeq
    <3>4. QED
      BY <3>2, <3>3
  <2>2. ASSUME NEW i \in 1..(Len(s) - 1), Tail(s)[i] = u PROVE InSeq(u, s)
    <3>1. i + 1 \in DOMAIN s /\ s[i + 1] = u
      BY <1>1, <2>2
    <3>2. QED
      BY <3>1 DEF InSeq
  <2>3. u = Head(s) => InSeq(u, s)
    BY <1>1 DEF InSeq
  <2>4. QED
    BY <1>1, <2>1, <2>2, <2>3 DEF InSeq
<1>3. QED
  BY <1>1, <1>2 DEF InSeq

LEMMA TelegramTypeStep == TelegramInv /\ [Telegram!Next]_telegramVars => TelegramTyped'
<1> SUFFICES ASSUME TelegramInv, [Telegram!Next]_telegramVars PROVE TelegramTyped'
  OBVIOUS
<1>0. /\ TelegramTyped /\ Len(KindOf) \in Nat /\ DOMAIN KindOf = 1..Len(KindOf)
      /\ arrived \in Nat /\ offset \in Nat
  BY WaitingAssumption DEF TelegramInv, TelegramTyped, Telegram!ChannelAssumption
<1> USE DEF TelegramTyped
<1>1. CASE Telegram!Arrive
  <2>1. arrived' \in 0..Len(KindOf) /\ 1..arrived \subseteq 1..arrived'
    BY <1>0, <1>1 DEF Telegram!Arrive
  <2>2. batch \in Seq(1..arrived') /\ queue \in Seq(1..arrived')
    BY <1>0, <2>1, SeqGrows
  <2>3. QED
    BY <1>0, <1>1, <2>1, <2>2 DEF Telegram!Arrive
<1>2. CASE Telegram!Poll
  <2>1. conf' \subseteq 1..arrived
    BY <1>0, <1>2 DEF Telegram!Poll, Telegram!Confirmed
  <2>2. PICK n \in 0..arrived : batch' \in [1..n -> 1..arrived]
    BY <1>2 DEF Telegram!Poll, Telegram!InOrder
  <2>3. batch' \in Seq(1..arrived)
    BY <1>0, <2>2
  <2>4. QED
    BY <1>0, <1>2, <2>1, <2>3 DEF Telegram!Poll
<1>3. CASE Telegram!PollFails
  BY <1>0, <1>3 DEF Telegram!PollFails, Telegram!Confirmed
<1>4. CASE Telegram!BackOff \/ Telegram!Replied
  BY <1>0, <1>4 DEF Telegram!BackOff, Telegram!Replied
<1>5. CASE Telegram!HandleNext
  <2>1. /\ Tail(batch) \in Seq(1..arrived) /\ Head(batch) \in 1..arrived
    BY <1>0, <1>5, TailMembers DEF Telegram!HandleNext
  <2>2. queue' = queue \/ queue' = Append(queue, Head(batch))
    BY <1>5 DEF Telegram!HandleNext, Telegram!Handle, Telegram!Enqueue
  <2>q. queue \in Seq(1..arrived) /\ Append(queue, Head(batch)) \in Seq(1..arrived)
    BY <1>0, <2>1, AppendMembers
  <2>3. queue' \in Seq(1..arrived)
    BY <2>2, <2>q
  <2>4. offset' \in 0..(arrived + 1)
    BY <1>0, <1>5, <2>1 DEF Telegram!HandleNext, Telegram!NextOffset
  <2>5. mode # "webhook"
    BY <1>0, <1>5 DEF Telegram!HandleNext
  <2>6. QED
    BY <1>0, <1>5, <2>1, <2>3, <2>4, <2>5 DEF Telegram!HandleNext
<1>6. ASSUME NEW u, NEW heard, Telegram!WebhookPost(u, heard) PROVE TelegramTyped'
  <2>1. u \in 1..arrived
    BY <1>6 DEF Telegram!WebhookPost
  <2>2. queue' = queue \/ queue' = Append(queue, u)
    BY <1>6 DEF Telegram!WebhookPost, Telegram!Handle, Telegram!Enqueue
  <2>q. queue \in Seq(1..arrived) /\ Append(queue, u) \in Seq(1..arrived)
    BY <1>0, <2>1, AppendMembers
  <2>3. queue' \in Seq(1..arrived)
    BY <2>2, <2>q
  <2>4. conf' \subseteq 1..arrived
    BY <1>0, <1>6, <2>1 DEF Telegram!WebhookPost
  <2>5. QED
    BY <1>0, <1>6, <2>3, <2>4 DEF Telegram!WebhookPost
<1>7. CASE Telegram!Receive
  BY <1>0, <1>7, TailMembers, ZenonT(60) DEF Telegram!Receive
<1>8. CASE Telegram!Crash
  BY <1>0, <1>8 DEF Telegram!Crash
<1>9. CASE UNCHANGED telegramVars
  BY <1>0, <1>9 DEF telegramVars
<1>10. QED
  BY <1>1, <1>2, <1>3, <1>4, <1>5, <1>6, <1>7, <1>8, <1>9 DEF Telegram!Next

LEMMA BatchStep == TelegramInv /\ [Telegram!Next]_telegramVars => BatchIsGapless'
<1> SUFFICES ASSUME TelegramInv, [Telegram!Next]_telegramVars PROVE BatchIsGapless'
  OBVIOUS
<1>0. /\ TelegramTyped /\ BatchIsGapless /\ arrived \in Nat /\ offset \in Nat
      /\ \A i \in DOMAIN batch : batch[i] \in 1..arrived
  BY WaitingAssumption DEF TelegramInv, TelegramTyped, Telegram!ChannelAssumption
<1> USE DEF BatchIsGapless
<1>1. CASE Telegram!Arrive
  <2>1. batch' = batch /\ conf' = conf /\ offset' = offset /\ arrived' = arrived + 1
    BY <1>1 DEF Telegram!Arrive
  <2>2. ASSUME NEW u \in (1..arrived') \ conf, u >= offset, NEW i \in DOMAIN batch, u <= batch[i]
        PROVE  InSeq(u, batch)
    BY <1>0, <2>1, <2>2
  <2>3. QED
    BY <1>0, <2>1, <2>2
<1>2. CASE Telegram!Poll
  <2>1. /\ arrived' = arrived /\ offset' = offset
        /\ conf' = Telegram!Confirmed
        /\ batch' \in Telegram!InOrder((1..arrived) \ conf')
    BY <1>2 DEF Telegram!Poll
  <2>2. /\ \A u \in (1..arrived) \ conf' : InSeq(u, batch')
        /\ \A i, k \in DOMAIN batch' : i < k => batch'[i] < batch'[k]
        /\ \A i \in DOMAIN batch' : batch'[i] \in (1..arrived) \ conf'
    BY <2>1 DEF Telegram!InOrder, InSeq
  <2>3. \A u \in (1..arrived) \ conf' : u >= offset
    BY <1>0, <2>1 DEF Telegram!Confirmed
  <2>4. QED
    BY <2>1, <2>2, <2>3
<1>3. CASE Telegram!PollFails \/ Telegram!Crash
  BY <1>3 DEF Telegram!PollFails, Telegram!Crash
<1>4. CASE UNCHANGED <<arrived, conf, offset, batch>>
  BY <1>0, <1>4
<1>5. CASE Telegram!HandleNext
  <2>1. /\ batch' = Tail(batch) /\ offset' = Head(batch) + 1
        /\ conf' = conf /\ arrived' = arrived
        /\ batch # <<>> /\ batch \in Seq(1..arrived)
    BY <1>0, <1>5 DEF Telegram!HandleNext, Telegram!NextOffset, TelegramTyped
  <2>2. /\ \A u : InSeq(u, batch) <=> InSeq(u, batch') \/ u = Head(batch)
        /\ \A i \in DOMAIN batch' : i + 1 \in DOMAIN batch /\ batch'[i] = batch[i + 1]
        /\ Head(batch) = batch[1] /\ 1 \in DOMAIN batch
        /\ DOMAIN batch' \subseteq Nat \ {0}
    BY <2>1, TailMembers
  <2>3. \A i \in DOMAIN batch' : batch'[i] \in 1..arrived /\ batch'[i] > Head(batch)
    BY <1>0, <2>2
  <2>4. \A i, k \in DOMAIN batch' : i < k => batch'[i] < batch'[k]
    BY <1>0, <2>2
  <2>5. ASSUME NEW u \in (1..arrived) \ conf, u >= offset', NEW i \in DOMAIN batch',
               u <= batch'[i]
        PROVE  InSeq(u, batch')
    <3>1. u >= offset /\ u # Head(batch)
      BY <1>0, <2>1, <2>2, <2>5, SMTT(20)
    <3>2. InSeq(u, batch)
      BY <1>0, <2>2, <2>5, <3>1
    <3>3. QED
      BY <2>2, <3>1, <3>2
  <2>6. \A i \in DOMAIN batch' : batch'[i] \notin conf /\ batch'[i] >= offset'
    BY <1>0, <2>1, <2>2, <2>3
  <2>7. QED
    BY <2>1, <2>4, <2>5, <2>6
<1>6. ASSUME NEW u, NEW heard, Telegram!WebhookPost(u, heard) PROVE BatchIsGapless'
  BY <1>0, <1>6 DEF Telegram!WebhookPost, TelegramTyped
<1>7. QED
  BY <1>1, <1>2, <1>3, <1>4, <1>5, <1>6
  DEF Telegram!Next, Telegram!BackOff, Telegram!Replied, Telegram!Receive, telegramVars

LEMMA SafeStep ==
  TelegramInv /\ [Telegram!Next]_telegramVars => PassedIsSafe' /\ DoubtsKnown'
<1> DEFINE P == PassedIsSafe /\ DoubtsKnown
<1> SUFFICES ASSUME TelegramInv, [Telegram!Next]_telegramVars PROVE P'
  OBVIOUS
<1>0. /\ P /\ BatchIsGapless /\ arrived \in Nat /\ offset \in Nat /\ offset <= arrived + 1
      /\ conf \subseteq 1..arrived /\ got \subseteq 1..arrived
      /\ queue \in Seq(1..arrived) /\ batch \in Seq(1..arrived)
      /\ mode = "webhook" => offset = 0
  BY WaitingAssumption DEF TelegramInv, TelegramTyped, Telegram!ChannelAssumption
<1>q. \A u : InSeq(u, queue) => u \in 1..arrived
  BY <1>0 DEF InSeq
<1> USE DEF PassedIsSafe, DoubtsKnown
<1>1. CASE Telegram!Arrive
  BY <1>0, <1>1, <1>q DEF Telegram!Arrive
<1>2. CASE Telegram!Poll \/ Telegram!PollFails
  <2>1. /\ conf' \in {conf, Telegram!Confirmed}
        /\ UNCHANGED <<arrived, offset, queue, got, hurt, again>>
    BY <1>2 DEF Telegram!Poll, Telegram!PollFails
  <2>2. \A u \in 1..arrived : u \in conf => u \in conf'
    BY <2>1 DEF Telegram!Confirmed
  <2>3. \A u \in 1..arrived : u \in conf' => u \in conf \/ u < offset
    BY <1>0, <2>1 DEF Telegram!Confirmed
  <2>4. QED
    BY <1>0, <2>1, <2>2, <2>3
<1>3. CASE UNCHANGED <<arrived, conf, offset, queue, got, hurt, again>>
  BY <1>0, <1>3
<1>4. CASE Telegram!HandleNext
  <2> DEFINE h == Head(batch)
  <2>1. /\ h \in 1..arrived /\ h = batch[1] /\ 1 \in DOMAIN batch /\ InSeq(h, batch)
        /\ offset' = h + 1
        /\ UNCHANGED <<arrived, conf, got, hurt, again>>
        /\ queue' = IF KindOf[h] = "text" THEN Append(queue, h) ELSE queue
    BY <1>0, <1>4, TailMembers DEF Telegram!HandleNext, Telegram!NextOffset,
       Telegram!Handle, Telegram!Enqueue
  <2>2. \A i \in DOMAIN batch : batch[i] >= h /\ batch[i] \notin conf /\ batch[i] >= offset
    BY <1>0, <2>1, SMTT(20) DEF BatchIsGapless
  <2>3. \A u \in (1..arrived) \ conf : u >= offset /\ u < h => FALSE
    <3>1. SUFFICES ASSUME NEW u \in (1..arrived) \ conf, u >= offset, u < h PROVE FALSE
      OBVIOUS
    <3>2. InSeq(u, batch)
      BY <1>0, <2>1, <3>1 DEF BatchIsGapless
    <3>3. QED
      BY <2>1, <2>2, <3>1, <3>2 DEF InSeq
  <2>4. \A u : InSeq(u, queue') <=> InSeq(u, queue) \/ (KindOf[h] = "text" /\ u = h)
    BY <1>0, <2>1, AppendMembers
  <2> HIDE DEF h
  <2>5. h >= offset
    BY <2>1, <2>2
  <2>6. QED
    BY <1>0, <2>1, <2>3, <2>4, <2>5
<1>5. ASSUME NEW u, NEW heard \in BOOLEAN, Telegram!WebhookPost(u, heard) PROVE P'
  <2>1. /\ u \in 1..arrived /\ offset = 0
        /\ UNCHANGED <<arrived, offset, got, hurt>>
        /\ queue' = IF KindOf[u] = "text" THEN Append(queue, u) ELSE queue
        /\ conf' = IF heard THEN conf \cup {u} ELSE conf
        /\ again' = IF heard THEN again ELSE again \cup {u}
    BY <1>0, <1>5 DEF Telegram!WebhookPost, Telegram!Handle, Telegram!Enqueue
  <2>2. \A v : InSeq(v, queue') <=> InSeq(v, queue) \/ (KindOf[u] = "text" /\ v = u)
    BY <1>0, <2>1, AppendMembers
  <2>3. QED
    BY <1>0, <2>1, <2>2
<1>6. CASE Telegram!Receive
  <2>1. /\ queue # <<>> /\ queue' = Tail(queue) /\ got' = got \cup {Head(queue)}
        /\ UNCHANGED <<arrived, conf, offset, hurt, again>>
    BY <1>6 DEF Telegram!Receive
  <2>2. \A u : InSeq(u, queue) <=> InSeq(u, queue') \/ u = Head(queue)
    BY <1>0, <2>1, TailMembers
  <2>3. QED
    BY <1>0, <2>1, <2>2
<1>7. CASE Telegram!Crash
  <2>1. /\ hurt' = hurt \cup Telegram!InFlight /\ offset' = 0 /\ queue' = <<>>
        /\ again' = again \cup ((1..arrived) \ conf)
        /\ UNCHANGED <<arrived, conf, got>>
    BY <1>7 DEF Telegram!Crash
  <2>2. \A u \in 1..arrived : u < offset \/ InSeq(u, queue) => u \in got \cup hurt'
    BY <2>1 DEF Telegram!InFlight, InSeq
  <2>3. \A u : ~InSeq(u, queue')
    BY <2>1 DEF InSeq
  <2>4. QED
    BY <1>0, <2>1, <2>2, <2>3
<1>8. QED
  BY <1>1, <1>2, <1>3, <1>4, <1>5, <1>6, <1>7
  DEF Telegram!Next, Telegram!BackOff, Telegram!Replied, telegramVars

LEMMA TelegramStep == TelegramInv /\ [Telegram!Next]_telegramVars => TelegramInv'
  BY TelegramTypeStep, BatchStep, SafeStep DEF TelegramInv

-----------------------------------------------------------------------------
(* The browser tool.                                                       *)
LockedAt == {"ensuring", "launching", "waiting", "using"}

OpShape(o) ==
  /\ DOMAIN o = BrowserCall
  /\ \A c \in BrowserCall : DOMAIN o[c] = {"at", "kind", "tab", "page"}

(* Whoever is past the manager's lock holds it.                            *)
LockHeld ==
  /\ OpShape(op)
  /\ \A c \in BrowserCall : op[c].at \in LockedAt <=> lock = c
  /\ lock = "free" \/ lock \in BrowserCall

(* A call is waiting for its launch thread, or for Chrome after it.        *)
Launching == \E c \in BrowserCall : op[c].at = "launching"
Awaiting == \E c \in BrowserCall : op[c].at = "waiting"
One(b) == IF b THEN 1 ELSE 0

(* The executables started beside another, those that launch threads are   *)
(* still to start and the one that boots are no more than the launches     *)
(* given up and the one that is under way and may still see Chrome up.     *)
Balance ==
  /\ orphans \in Nat /\ givenUp \in Nat /\ beside \in Nat
  /\ beside + orphans + One(Launching) + One(chrome = "booting")
       <= givenUp + One(\/ Launching /\ chrome \in {"off", "booting"}
                        \/ Awaiting /\ chrome = "booting")

BrowserInv == LockHeld /\ Balance

(* A call that moves on leaves the others where they are.                  *)
Moves(c, a) ==
  OpShape(op') /\ op'[c].at = a /\ \A d \in BrowserCall \ {c} : op'[d] = op[d]

LEMMA OpMoves ==
  ASSUME OpShape(op), NEW c \in BrowserCall
  PROVE  /\ op' = [op EXCEPT ![c] = Browser!NoCall] => Moves(c, "off")
         /\ \A a : op' = [op EXCEPT ![c].at = a] => Moves(c, a)
         /\ \A p : op' = [op EXCEPT ![c].at = "page", ![c].page = p] => Moves(c, "page")
         /\ \A a, k, t : op' = [op EXCEPT ![c] = [at |-> a, kind |-> k, tab |-> t, page |-> 0]]
                          => Moves(c, a)
<1>1. op' = [op EXCEPT ![c] = Browser!NoCall] => Moves(c, "off")
  BY DEF OpShape, Moves, Browser!NoCall
<1>2. ASSUME NEW a, op' = [op EXCEPT ![c].at = a] PROVE Moves(c, a)
  BY <1>2 DEF OpShape, Moves
<1>3. ASSUME NEW p, op' = [op EXCEPT ![c].at = "page", ![c].page = p] PROVE Moves(c, "page")
  BY <1>3 DEF OpShape, Moves
<1>4. ASSUME NEW a, NEW k, NEW t,
             op' = [op EXCEPT ![c] = [at |-> a, kind |-> k, tab |-> t, page |-> 0]]
      PROVE  Moves(c, a)
  BY <1>4 DEF OpShape, Moves
<1>5. QED
  BY <1>1, <1>2, <1>3, <1>4

(* What a step of a call does to it: where it goes, and what becomes of    *)
(* the lock.                                                               *)
Quiet == {"off", "ensure", "ensuring", "use", "using", "page"}

Goes(c, a) ==
  /\ Moves(c, a)
  /\ \/ op[c].at \in LockedAt /\ a \in LockedAt /\ lock' = lock
     \/ op[c].at \notin LockedAt /\ a \in LockedAt /\ lock = "free" /\ lock' = c
     \/ a \notin LockedAt /\ lock' = IF lock = c THEN "free" ELSE lock

LEMMA GoesHeld ==
  ASSUME LockHeld, NEW c \in BrowserCall, NEW a, Goes(c, a)
  PROVE  LockHeld'
<1>1. OpShape(op) /\ "free" \notin BrowserCall
  BY WaitingAssumption DEF LockHeld, Browser!TabsAssumption
<1>2. QED
  BY <1>1 DEF LockHeld, Goes, Moves

(* A call at its launch or after it is the only one there.                 *)
LEMMA Exclusive ==
  ASSUME LockHeld, NEW c \in BrowserCall, op[c].at \in LockedAt
  PROVE  /\ Launching <=> op[c].at = "launching"
         /\ Awaiting <=> op[c].at = "waiting"
<1>1. \A d \in BrowserCall : op[d].at \in LockedAt => d = c
  BY WaitingAssumption DEF LockHeld, Browser!TabsAssumption
<1>2. QED
  BY <1>1 DEF Launching, Awaiting, LockedAt

LEMMA QuietMoves ==
  ASSUME NEW c \in BrowserCall, NEW a \in Quiet, Moves(c, a), op[c].at \in Quiet
  PROVE  (Launching' <=> Launching) /\ (Awaiting' <=> Awaiting)
  BY DEF Moves, Quiet, Launching, Awaiting

(* The steps of a call that have nothing to do with a launch.              *)
LEMMA EndsGoes ==
  ASSUME LockHeld, NEW c \in BrowserCall, op[c].at \in LockedAt
  PROVE  /\ Browser!Ends(c) => Goes(c, "off")
         /\ Browser!Ensured(c) => \E a \in {"off", "use"} : Goes(c, a)
<1>0. OpShape(op) /\ lock = c
  BY DEF LockHeld
<1>1. Browser!Ends(c) => Goes(c, "off")
  BY <1>0, OpMoves DEF Browser!Ends, Browser!Free, Goes, LockedAt
<1>2. Browser!DropsGuard(c) => Goes(c, "use")
  BY <1>0, OpMoves DEF Browser!DropsGuard, Browser!Free, Goes, LockedAt
<1>3. QED
  BY <1>1, <1>2 DEF Browser!Ensured

QuietStep ==
  /\ \E c \in BrowserCall, a \in Quiet : op[c].at \in Quiet /\ Goes(c, a)
  /\ UNCHANGED <<chrome, orphans, givenUp, beside>>

LEMMA QuietSteps ==
  ASSUME LockHeld, NEW c \in BrowserCall,
         \/ Browser!Execute(c) \/ Browser!Lock(c) \/ Browser!Stop(c) \/ Browser!Look(c)
         \/ Browser!Focus(c) \/ Browser!OpenTab(c) \/ Browser!CloseTab(c)
         \/ Browser!GetPage(c) \/ \E kind : Browser!OnItsPage(c, kind)
  PROVE  QuietStep
<1>0. OpShape(op)
  BY DEF LockHeld
<1> USE DEF LockedAt, Quiet, QuietStep, Browser!launches, Browser!browser
<1>1. ASSUME Browser!Execute(c) PROVE QuietStep
  <2>1. PICK k, t : op' = [op EXCEPT ![c] =
              [at |-> IF k \in Browser!Starting THEN "ensure" ELSE "use",
               kind |-> k, tab |-> t, page |-> 0]]
    BY <1>1 DEF Browser!Execute
  <2>2. PICK a \in {"ensure", "use"} : Moves(c, a)
    <3>1. CASE k \in Browser!Starting
      BY <1>0, <2>1, <3>1, OpMoves
    <3>2. CASE k \notin Browser!Starting
      BY <1>0, <2>1, <3>2, OpMoves
    <3>3. QED
      BY <3>1, <3>2
  <2>3. op[c].at = "off" /\ lock' = lock /\ lock # c
    BY <1>1 DEF Browser!Execute, LockHeld
  <2>4. Goes(c, a)
    BY <2>2, <2>3 DEF Goes
  <2>5. QED
    BY <1>1, <2>3, <2>4 DEF Browser!Execute
<1>2. ASSUME Browser!Lock(c) PROVE QuietStep
  <2>1. PICK a \in {"ensuring", "using"} : Moves(c, a)
    BY <1>0, <1>2, OpMoves DEF Browser!Lock
  <2>2. op[c].at \in {"ensure", "use"} /\ lock = "free" /\ lock' = c
    BY <1>2 DEF Browser!Lock, Browser!Free
  <2>3. Goes(c, a)
    BY <2>1, <2>2 DEF Goes
  <2>4. QED
    BY <1>2, <2>2, <2>3 DEF Browser!Lock
<1>3. ASSUME \/ Browser!Stop(c) \/ Browser!Look(c) \/ Browser!Focus(c)
             \/ Browser!OpenTab(c) \/ Browser!CloseTab(c)
      PROVE  QuietStep
  <2>1. op[c].at = "using" /\ Browser!Ends(c) /\ UNCHANGED <<chrome, orphans, givenUp, beside>>
    BY <1>3 DEF Browser!Stop, Browser!Look, Browser!Focus, Browser!OpenTab, Browser!CloseTab
  <2>2. Goes(c, "off")
    BY <2>1, EndsGoes
  <2>3. QED
    BY <2>1, <2>2
<1>4. ASSUME Browser!GetPage(c) PROVE QuietStep
  <2>1. op[c].at = "using" /\ UNCHANGED <<chrome, orphans, givenUp, beside>>
    BY <1>4 DEF Browser!GetPage
  <2>2. CASE Browser!Ends(c)
    BY <2>1, <2>2, EndsGoes
  <2>3. ASSUME NEW p, op' = [op EXCEPT ![c].at = "page", ![c].page = p], lock' = "free"
        PROVE  QuietStep
    <3>1. Moves(c, "page") /\ lock = c
      BY <1>0, <2>1, <2>3, OpMoves DEF LockHeld
    <3>2. Goes(c, "page")
      BY <2>3, <3>1 DEF Goes
    <3>3. QED
      BY <2>1, <3>2
  <2>4. QED
    BY <1>4, <2>2, <2>3 DEF Browser!GetPage, Browser!Free
<1>5. ASSUME NEW kind, Browser!OnItsPage(c, kind) PROVE QuietStep
  <2>1. Moves(c, "off") /\ op[c].at = "page" /\ lock # c /\ lock' = lock
    BY <1>0, <1>5, OpMoves DEF Browser!OnItsPage, LockHeld
  <2>2. Goes(c, "off")
    BY <2>1 DEF Goes
  <2>3. QED
    BY <1>5, <2>1, <2>2 DEF Browser!OnItsPage
<1>6. QED
  BY <1>1, <1>2, <1>3, <1>4, <1>5

LEMMA QuietKeeps == BrowserInv /\ QuietStep => BrowserInv'
<1> SUFFICES ASSUME BrowserInv, QuietStep PROVE BrowserInv'
  OBVIOUS
<1>1. PICK c \in BrowserCall, a \in Quiet : op[c].at \in Quiet /\ Goes(c, a)
  BY DEF QuietStep
<1>2. LockHeld'
  BY <1>1, GoesHeld DEF BrowserInv
<1>3. (Launching' <=> Launching) /\ (Awaiting' <=> Awaiting)
  BY <1>1, QuietMoves DEF Goes
<1>4. UNCHANGED <<chrome, orphans, givenUp, beside>>
  BY DEF QuietStep
<1>5. Balance'
  BY <1>3, <1>4 DEF BrowserInv, Balance, One
<1>6. QED
  BY <1>2, <1>5 DEF BrowserInv

(* An executable is started, beside another or as the one that boots.      *)
LEMMA Started ==
  ASSUME Browser!StartExecutable
  PROVE  \/ chrome = "off" /\ chrome' = "booting" /\ beside' = beside
         \/ chrome # "off" /\ chrome' = chrome /\ beside' = beside + 1
  BY DEF Browser!StartExecutable

LEMMA ConnectKeeps ==
  ASSUME BrowserInv, NEW c \in BrowserCall, Browser!Connect(c)
  PROVE  BrowserInv'
<1> USE DEF LockedAt, Quiet
<1>1. /\ LockHeld /\ OpShape(op) /\ op[c].at = "ensuring" /\ lock = c
      /\ UNCHANGED <<chrome, orphans, givenUp, beside>>
  BY DEF BrowserInv, LockHeld, Browser!Connect, Browser!browser, Browser!launches
<1>2. CASE Browser!Ensured(c) \/ Browser!Ends(c)
  <2>1. PICK a \in {"off", "use"} : Goes(c, a)
    BY <1>1, <1>2, EndsGoes
  <2>2. QuietStep
    BY <1>1, <2>1 DEF QuietStep
  <2>3. QED
    BY <2>2, QuietKeeps
<1>3. CASE /\ chrome \in {"off", "booting"} /\ lock' = lock
           /\ op' = [op EXCEPT ![c].at = "launching"]
  <2>1. Moves(c, "launching")
    BY <1>1, <1>3, OpMoves
  <2>2. Goes(c, "launching")
    BY <1>1, <1>3, <2>1 DEF Goes
  <2>3. LockHeld'
    BY <1>1, <2>2, GoesHeld
  <2>4. ~Launching /\ ~Awaiting
    BY <1>1, Exclusive
  <2>5. Launching'
    BY <2>1 DEF Moves, Launching
  <2>6. Balance'
    BY <1>1, <1>3, <2>4, <2>5 DEF BrowserInv, Balance, One
  <2>7. QED
    BY <2>3, <2>6 DEF BrowserInv
<1>4. QED
  BY <1>2, <1>3 DEF Browser!Connect, Browser!KeepsLock

LEMMA LaunchedKeeps ==
  ASSUME BrowserInv, NEW c \in BrowserCall, Browser!Launched(c)
  PROVE  BrowserInv'
<1> USE DEF LockedAt, Quiet
<1>1. /\ LockHeld /\ OpShape(op) /\ op[c].at = "launching" /\ lock = c
      /\ UNCHANGED <<orphans, givenUp>>
  BY DEF BrowserInv, LockHeld, Browser!Launched
<1>2. Launching /\ ~Awaiting
  BY <1>1, Exclusive
<1>3. ASSUME NEW a \in {"off", "waiting"}, Goes(c, a)
      PROVE  LockHeld' /\ ~Launching' /\ (Awaiting' <=> a = "waiting")
  BY <1>1, <1>3, GoesHeld DEF Goes, Moves, LockHeld, Launching, Awaiting
<1>4. CASE Browser!StartExecutable /\ op' = [op EXCEPT ![c].at = "waiting"] /\ lock' = lock
  <2>1. Moves(c, "waiting")
    BY <1>1, <1>4, OpMoves
  <2>2. Goes(c, "waiting")
    BY <1>1, <1>4, <2>1 DEF Goes
  <2>3. LockHeld' /\ ~Launching' /\ Awaiting'
    BY <1>3, <2>2
  <2>4. Balance'
    BY <1>1, <1>2, <1>4, <2>3, Started DEF BrowserInv, Balance, One
  <2>5. QED
    BY <2>3, <2>4 DEF BrowserInv
<1>5. CASE Browser!Ends(c) /\ UNCHANGED <<chrome, beside>>
  <2>1. Goes(c, "off")
    BY <1>1, <1>5, EndsGoes
  <2>2. LockHeld' /\ ~Launching' /\ ~Awaiting'
    BY <1>3, <2>1
  <2>3. Balance'
    BY <1>1, <1>2, <1>5, <2>2 DEF BrowserInv, Balance, One
  <2>4. QED
    BY <2>2, <2>3 DEF BrowserInv
<1>6. QED
  BY <1>4, <1>5 DEF Browser!Launched, Browser!browser

LEMMA ReconnectKeeps ==
  ASSUME BrowserInv, NEW c \in BrowserCall, Browser!Reconnect(c)
  PROVE  BrowserInv'
<1> USE DEF LockedAt, Quiet
<1>1. /\ LockHeld /\ OpShape(op) /\ op[c].at = "waiting"
      /\ UNCHANGED <<chrome, orphans, beside>>
      /\ \/ chrome = "up" /\ givenUp' = givenUp
         \/ chrome # "up" /\ givenUp' = givenUp + 1
  BY DEF BrowserInv, LockHeld, Browser!Reconnect, Browser!browser
<1>2. ~Launching /\ Awaiting
  BY <1>1, Exclusive
<1>3. PICK a \in {"off", "use"} : Goes(c, a)
  BY <1>1, EndsGoes DEF Browser!Reconnect
<1>4. LockHeld' /\ ~Launching' /\ ~Awaiting'
  BY <1>1, <1>3, GoesHeld DEF Goes, Moves, LockHeld, Launching, Awaiting
<1>5. Balance'
  BY <1>1, <1>2, <1>4 DEF BrowserInv, Balance, One
<1>6. QED
  BY <1>4, <1>5 DEF BrowserInv

LEMMA TimeoutKeeps ==
  ASSUME BrowserInv, NEW c \in BrowserCall, Browser!AttemptTimeout(c)
  PROVE  BrowserInv'
<1> USE DEF LockedAt, Quiet
<1>1. /\ LockHeld /\ OpShape(op) /\ UNCHANGED <<chrome, beside>>
      /\ op' = [op EXCEPT ![c] = Browser!NoCall]
      /\ lock' = IF lock = c THEN "free" ELSE lock
      /\ orphans' = IF op[c].at = "launching" THEN orphans + 1 ELSE orphans
      /\ givenUp' = IF op[c].at \in {"launching", "waiting"} THEN givenUp + 1 ELSE givenUp
  BY DEF BrowserInv, LockHeld, Browser!AttemptTimeout, Browser!browser, Browser!Free
<1>2. Moves(c, "off")
  BY <1>1, OpMoves
<1>3. Goes(c, "off")
  BY <1>1, <1>2 DEF Goes
<1>4. LockHeld'
  BY <1>1, <1>3, GoesHeld
<1>5. CASE op[c].at \in {"launching", "waiting"}
  <2>1. /\ Launching <=> op[c].at = "launching"
        /\ Awaiting <=> op[c].at = "waiting"
        /\ ~Launching' /\ ~Awaiting'
    BY <1>1, <1>2, <1>5, Exclusive DEF Moves, LockHeld, Launching, Awaiting
  <2>2. Balance'
    BY <1>1, <1>5, <2>1 DEF BrowserInv, Balance, One
  <2>3. QED
    BY <1>4, <2>2 DEF BrowserInv
<1>6. CASE op[c].at \notin {"launching", "waiting"}
  <2>1. (Launching' <=> Launching) /\ (Awaiting' <=> Awaiting)
    BY <1>2, <1>6 DEF Moves, Launching, Awaiting
  <2>2. Balance'
    BY <1>1, <1>6, <2>1 DEF BrowserInv, Balance, One
  <2>3. QED
    BY <1>4, <2>2 DEF BrowserInv
<1>7. QED
  BY <1>5, <1>6

(* Chrome, and a launch thread whose call is gone.                         *)
LEMMA OutsideKeeps ==
  ASSUME BrowserInv, Browser!OrphanLaunches \/ Browser!Boots \/ Browser!Trouble
  PROVE  BrowserInv'
<1>1. LockHeld' /\ (Launching' <=> Launching) /\ (Awaiting' <=> Awaiting)
  BY DEF BrowserInv, LockHeld, Launching, Awaiting, Browser!OrphanLaunches, Browser!Boots,
     Browser!Trouble
<1>2. CASE Browser!OrphanLaunches
  <2>1. /\ orphans > 0 /\ orphans' = orphans - 1 /\ givenUp' = givenUp
        /\ \/ chrome = "off" /\ chrome' = "booting" /\ beside' = beside
           \/ chrome # "off" /\ chrome' = chrome /\ beside' = beside + 1
           \/ UNCHANGED <<chrome, beside>>
    BY <1>2, Started DEF Browser!OrphanLaunches, Browser!browser
  <2>2. Balance'
    BY <1>1, <2>1 DEF BrowserInv, Balance, One
  <2>3. QED
    BY <1>1, <2>2 DEF BrowserInv
<1>3. CASE Browser!Boots
  <2>1. chrome = "booting" /\ chrome' = "up" /\ UNCHANGED <<orphans, givenUp, beside>>
    BY <1>3 DEF Browser!Boots, Browser!launches
  <2>2. Balance'
    BY <1>1, <2>1 DEF BrowserInv, Balance, One
  <2>3. QED
    BY <1>1, <2>2 DEF BrowserInv
<1>4. CASE Browser!Trouble
  <2>1. /\ chrome = "up" /\ chrome' \in {"off", "hung"}
        /\ UNCHANGED <<orphans, givenUp, beside>>
    BY <1>4 DEF Browser!Trouble, Browser!launches
  <2>2. Balance'
    BY <1>1, <2>1 DEF BrowserInv, Balance, One
  <2>3. QED
    BY <1>1, <2>2 DEF BrowserInv
<1>5. QED
  BY <1>2, <1>3, <1>4

LEMMA BrowserStep == BrowserInv /\ [Browser!Next]_browserVars => BrowserInv'
<1> SUFFICES ASSUME BrowserInv, [Browser!Next]_browserVars PROVE BrowserInv'
  OBVIOUS
<1>1. ASSUME NEW c \in BrowserCall, Browser!Execute(c) \/ Browser!Step(c) PROVE BrowserInv'
  <2>1. CASE Browser!Connect(c) \/ Browser!Launched(c) \/ Browser!Reconnect(c)
    BY <2>1, ConnectKeeps, LaunchedKeeps, ReconnectKeeps
  <2>2. CASE ~(Browser!Connect(c) \/ Browser!Launched(c) \/ Browser!Reconnect(c))
    <3>1. \/ Browser!Execute(c) \/ Browser!Lock(c) \/ Browser!Stop(c) \/ Browser!Look(c)
          \/ Browser!Focus(c) \/ Browser!OpenTab(c) \/ Browser!CloseTab(c)
          \/ Browser!GetPage(c) \/ \E kind : Browser!OnItsPage(c, kind)
      BY <1>1, <2>2 DEF Browser!Step, Browser!Navigate, Browser!TakeSnapshot, Browser!Act,
         Browser!Read
    <3>2. QuietStep
      BY <3>1, QuietSteps DEF BrowserInv
    <3>3. QED
      BY <3>2, QuietKeeps
  <2>3. QED
    BY <2>1, <2>2
<1>2. ASSUME NEW c \in BrowserCall, Browser!AttemptTimeout(c) PROVE BrowserInv'
  BY <1>2, TimeoutKeeps
<1>3. CASE Browser!OrphanLaunches \/ Browser!Boots \/ Browser!Trouble
  BY <1>3, OutsideKeeps
<1>4. CASE UNCHANGED browserVars
  BY <1>4 DEF browserVars, BrowserInv, LockHeld, Balance, Launching, Awaiting
<1>5. QED
  BY <1>1, <1>2, <1>3, <1>4 DEF Browser!Next

-----------------------------------------------------------------------------
(* The MCP client.                                                         *)
Requests == {"initialize", "tools/list", "tools/call"}
Methods == Requests \cup {"initialized", "cancelled"}
Line == [id : Nat, by : Caller, method : Methods]
ClientRecord ==
  [child : {"none", "up", "hung", "dead"}, next : Nat, pending : SUBSET Nat,
   queue : Seq(Line), writer : BOOLEAN, served : SUBSET Line]
OpRecord ==
  [kind : {"none", "connect", "call", "shutdown"},
   pc : {"idle", "lock", "insert", "send", "wait", "exit"},
   method : Methods \cup {"none"}, id : Nat]

(* The lines of a client that may still reach a request: on their way to   *)
(* the server, or with it.                                                 *)
HasLine(c, l) == InSeq(l, c.queue) \/ l \in c.served

(* The ids of its lines were given out.                                    *)
ClientSound(c) ==
  c \in ClientRecord /\ c.next > 0 /\ \A l : HasLine(c, l) => l.id < c.next

(* Whoever is past the lock holds it.  The id of a request that is not     *)
(* sent yet is on no line, and the lines with the id of the request that   *)
(* is awaited are its own.                                                 *)
Past(o) == caller[o].pc \notin {"idle", "lock"}
UsedBy(o) == IF caller[o].kind = "call" THEN client ELSE local
HolderSound(o) ==
  Past(o) =>
    /\ guard = o
    /\ caller[o].pc = "insert" => caller[o].method \in Requests
    /\ caller[o].pc = "send" => caller[o].method # "none"
    /\ caller[o].pc = "send" /\ caller[o].method \in Requests =>
         /\ caller[o].id < UsedBy(o).next
         /\ \A l : HasLine(UsedBy(o), l) => l.id # caller[o].id
    /\ caller[o].pc = "wait" =>
         \A l : HasLine(UsedBy(o), l) /\ l.id = caller[o].id =>
                l.by = o /\ l.method = caller[o].method

McpInv ==
  /\ guard = "nobody" \/ guard \in Caller
  /\ ClientSound(client) /\ ClientSound(local)
  /\ caller \in [Caller -> OpRecord]
  /\ \A o \in Caller : HolderSound(o)
  /\ crossed = FALSE

(* A client with fewer lines, or with its next id given out.               *)
Fewer(c, d) == d.next = c.next /\ \A l : HasLine(d, l) => HasLine(c, l)

LEMMA FreshClients == ClientSound(Mcp!NoClient) /\ ClientSound(Mcp!NewClient)
<1>0. <<>> \in Seq(Line)
  OBVIOUS
<1>1. Mcp!NoClient \in ClientRecord
  BY <1>0 DEF Mcp!NoClient, ClientRecord
<1>a. Mcp!NewClient \in ClientRecord
  BY <1>1 DEF Mcp!NewClient, ClientRecord
<1>2. /\ Mcp!NoClient.queue = <<>> /\ Mcp!NoClient.served = {} /\ Mcp!NoClient.next = 1
      /\ Mcp!NewClient.queue = <<>> /\ Mcp!NewClient.served = {} /\ Mcp!NewClient.next = 1
  BY DEF Mcp!NoClient, Mcp!NewClient
<1>3. QED
  BY <1>1, <1>2, <1>a DEF ClientSound, HasLine, InSeq

LEMMA FewerLines ==
  ASSUME NEW c, ClientSound(c), NEW d \in ClientRecord, Fewer(c, d)
  PROVE  ClientSound(d)
BY DEF ClientSound, Fewer

LEMMA Shrinks ==
  ASSUME NEW c, ClientSound(c)
  PROVE  /\ \A P \in SUBSET Nat : LET d == [c EXCEPT !.pending = P]
                                  IN ClientSound(d) /\ Fewer(c, d)
         /\ \A P \in SUBSET Nat, S \in SUBSET c.served :
              LET d == [c EXCEPT !.served = S, !.pending = P]
              IN ClientSound(d) /\ Fewer(c, d)
         /\ LET d == [c EXCEPT !.queue = <<>>, !.writer = FALSE]
            IN ClientSound(d) /\ Fewer(c, d)
         /\ \A to \in {"hung", "dead"}, S \in SUBSET c.served :
              LET d == [c EXCEPT !.child = to, !.served = S]
              IN ClientSound(d) /\ Fewer(c, d)
<1>0. c \in ClientRecord
  BY DEF ClientSound
<1>1. ASSUME NEW P \in SUBSET Nat
      PROVE  LET d == [c EXCEPT !.pending = P] IN d \in ClientRecord /\ Fewer(c, d)
  BY <1>0 DEF ClientRecord, Fewer, HasLine
<1>2. ASSUME NEW P \in SUBSET Nat, NEW S \in SUBSET c.served
      PROVE  LET d == [c EXCEPT !.served = S, !.pending = P]
             IN d \in ClientRecord /\ Fewer(c, d)
  BY <1>0 DEF ClientRecord, Fewer, HasLine
<1>3. LET d == [c EXCEPT !.queue = <<>>, !.writer = FALSE]
      IN d \in ClientRecord /\ Fewer(c, d)
  <2>1. <<>> \in Seq(Line) /\ \A u : ~InSeq(u, <<>>)
    BY DEF InSeq
  <2>2. QED
    BY <1>0, <2>1 DEF ClientRecord, Fewer, HasLine
<1>4. ASSUME NEW to \in {"hung", "dead"}, NEW S \in SUBSET c.served
      PROVE  LET d == [c EXCEPT !.child = to, !.served = S]
             IN d \in ClientRecord /\ Fewer(c, d)
  BY <1>0 DEF ClientRecord, Fewer, HasLine
<1>5. QED
  BY <1>1, <1>2, <1>3, <1>4, FewerLines

LEMMA Served ==
  ASSUME NEW c, ClientSound(c), c.queue # <<>>
  PROVE  LET d == [c EXCEPT !.queue = Tail(@),
                     !.served = IF Head(c.queue).id = 0 THEN @ ELSE @ \cup {Head(c.queue)}]
         IN ClientSound(d) /\ Fewer(c, d)
<1> DEFINE T == IF Head(c.queue).id = 0 THEN c.served ELSE c.served \cup {Head(c.queue)}
<1>1. /\ c \in ClientRecord /\ c.queue \in Seq(Line) /\ c.served \in SUBSET Line
  BY DEF ClientSound, ClientRecord
<1>2. /\ Tail(c.queue) \in Seq(Line) /\ Head(c.queue) \in Line
      /\ \A u : InSeq(u, c.queue) <=> InSeq(u, Tail(c.queue)) \/ u = Head(c.queue)
  BY <1>1, TailMembers
<1>3. T \in SUBSET Line /\ \A l \in T : l \in c.served \/ l = Head(c.queue)
  BY <1>1, <1>2
<1> HIDE DEF T
<1>4. LET d == [c EXCEPT !.queue = Tail(@), !.served = T]
      IN d \in ClientRecord /\ Fewer(c, d)
  BY <1>1, <1>2, <1>3 DEF ClientRecord, Fewer, HasLine
<1>5. QED
  BY <1>4, FewerLines DEF T

LEMMA Queued ==
  ASSUME NEW c, ClientSound(c), NEW l \in Line, l.id < c.next
  PROVE  LET d == [c EXCEPT !.queue = Append(@, l)]
         IN ClientSound(d) /\ d.next = c.next
              /\ \A u : HasLine(d, u) <=> HasLine(c, u) \/ u = l
<1>1. c \in ClientRecord /\ c.queue \in Seq(Line)
  BY DEF ClientSound, ClientRecord
<1>2. /\ Append(c.queue, l) \in Seq(Line)
      /\ \A u : InSeq(u, Append(c.queue, l)) <=> InSeq(u, c.queue) \/ u = l
  BY <1>1, AppendMembers
<1> DEFINE d == [c EXCEPT !.queue = Append(@, l)]
<1>3. /\ d \in ClientRecord /\ d.next = c.next
      /\ \A u : HasLine(d, u) <=> HasLine(c, u) \/ u = l
  BY <1>1, <1>2 DEF ClientRecord, HasLine
<1>4. QED
  BY <1>3 DEF ClientSound

LEMMA Numbered ==
  ASSUME NEW c, ClientSound(c), NEW P \in SUBSET Nat
  PROVE  LET d == [c EXCEPT !.next = @ + 1, !.pending = P]
         IN ClientSound(d) /\ d.next = c.next + 1
              /\ \A l : HasLine(d, l) => l.id < c.next
<1> DEFINE d == [c EXCEPT !.next = @ + 1, !.pending = P]
<1>1. c \in ClientRecord /\ c.next \in Nat /\ c.queue \in Seq(Line) /\ c.served \in SUBSET Line
  BY DEF ClientSound, ClientRecord
<1>2. /\ d.next = c.next + 1 /\ d.queue = c.queue /\ d.served = c.served
      /\ d.pending = P /\ d.child = c.child /\ d.writer = c.writer
  BY <1>1 DEF ClientRecord
<1>3. d \in ClientRecord /\ \A l : HasLine(d, l) <=> HasLine(c, l)
  <2>1. c.next + 1 \in Nat
    BY <1>1
  <2>2. QED
    BY <1>1, <1>2, <2>1 DEF ClientRecord, HasLine
<1>5. ASSUME NEW l, HasLine(c, l) PROVE l.id \in Nat
  <2>1. l \in Line
    BY <1>1, <1>5 DEF HasLine, InSeq
  <2>2. QED
    BY <2>1 DEF Line
<1>4. QED
  BY <1>1, <1>2, <1>3, <1>5 DEF ClientSound

(* The three ways in which a step keeps the invariant: the tasks and the   *)
(* server take lines away; an operation ends; its holder goes on.          *)
LEMMA LinesTaken ==
  ASSUME McpInv, UNCHANGED <<guard, caller, crossed>>,
         ClientSound(client'), ClientSound(local'),
         Fewer(client, client'), Fewer(local, local')
  PROVE  McpInv'
<1>1. ASSUME NEW o \in Caller PROVE HolderSound(o)'
  BY <1>1 DEF McpInv, HolderSound, Past, UsedBy, Fewer
<1>2. QED
  BY <1>1 DEF McpInv

LEMMA OperationEnds ==
  ASSUME McpInv, NEW o \in Caller, Mcp!Return(o), crossed' = FALSE,
         ClientSound(client'), ClientSound(local'),
         UNCHANGED <<client, local>> \/ guard \in {o, "nobody"}
  PROVE  McpInv'
<1>1. /\ "nobody" \notin Caller /\ Mcp!Idle \in OpRecord /\ Mcp!Idle.pc = "idle"
      /\ caller \in [Caller -> OpRecord]
  BY WaitingAssumption DEF Mcp!McpAssumption, Mcp!Idle, OpRecord, McpInv
<1>2. /\ caller' = [caller EXCEPT ![o] = Mcp!Idle]
      /\ guard' = IF guard = o THEN "nobody" ELSE guard
  BY DEF Mcp!Return, Mcp!nobody
<1>3. ASSUME NEW p \in Caller PROVE HolderSound(p)'
  <2>1. CASE p = o
    BY <1>1, <1>2, <2>1 DEF HolderSound, Past
  <2>2. CASE p # o
    BY <1>1, <1>2, <2>2 DEF HolderSound, Past, UsedBy, McpInv
  <2>3. QED
    BY <2>1, <2>2
<1>4. QED
  BY <1>1, <1>2, <1>3 DEF McpInv

LEMMA HolderGoesOn ==
  ASSUME McpInv, NEW o \in Caller, guard \in {o, "nobody"}, guard' = o,
         NEW r \in OpRecord, caller' = [caller EXCEPT ![o] = r], crossed' = crossed,
         ClientSound(client'), ClientSound(local'), HolderSound(o)'
  PROVE  McpInv'
<1>1. "nobody" \notin Caller /\ caller \in [Caller -> OpRecord]
  BY WaitingAssumption DEF Mcp!McpAssumption, McpInv
<1>2. ASSUME NEW p \in Caller, p # o PROVE HolderSound(p)'
  BY <1>1, <1>2 DEF HolderSound, Past, McpInv
<1>3. QED
  BY <1>1, <1>2 DEF McpInv

(* Where Goto takes an operation.                                          *)
Moved(o, pc, method, id) ==
  [kind |-> caller[o].kind, pc |-> pc, method |-> method, id |-> id]

LEMMA MethodUpdate ==
  ASSUME NEW e \in OpRecord, NEW x, NEW y
  PROVE  [e EXCEPT !.pc = x, !.method = y]
           = [kind |-> e.kind, pc |-> x, method |-> y, id |-> e.id]
<1> DEFINE f == [k \in DOMAIN e |-> IF k = "method" THEN y ELSE IF k = "pc" THEN x ELSE e[k]]
<1>1. DOMAIN e = {"kind", "pc", "method", "id"} /\ e = [k \in DOMAIN e |-> e[k]]
  BY DEF OpRecord
<1>2. [e EXCEPT !.pc = x, !.method = y] = f
  BY <1>1
<1>3. [kind |-> e.kind, pc |-> x, method |-> y, id |-> e.id] = f
  BY <1>1
<1>4. QED
  BY <1>2, <1>3

LEMMA IdUpdate ==
  ASSUME NEW e \in OpRecord, NEW x, NEW y
  PROVE  [e EXCEPT !.pc = x, !.id = y]
           = [kind |-> e.kind, pc |-> x, method |-> e.method, id |-> y]
<1> DEFINE f == [k \in DOMAIN e |-> IF k = "id" THEN y ELSE IF k = "pc" THEN x ELSE e[k]]
<1>1. DOMAIN e = {"kind", "pc", "method", "id"} /\ e = [k \in DOMAIN e |-> e[k]]
  BY DEF OpRecord
<1>2. [e EXCEPT !.pc = x, !.id = y] = f
  BY <1>1
<1>3. [kind |-> e.kind, pc |-> x, method |-> e.method, id |-> y] = f
  BY <1>1
<1>4. QED
  BY <1>2, <1>3

LEMMA McpMoves ==
  ASSUME McpInv, NEW o \in Caller
  PROVE  /\ \A pc, m : Mcp!Goto(o, pc, m)
              => caller' = [caller EXCEPT ![o] = Moved(o, pc, m, caller[o].id)]
         /\ \A n : caller' = [caller EXCEPT ![o].pc = "send", ![o].id = n]
              => caller' = [caller EXCEPT ![o] = Moved(o, "send", caller[o].method, n)]
         /\ \A pc \in {"insert", "send", "wait", "exit"}, m \in Methods, n \in Nat :
              Moved(o, pc, m, n) \in OpRecord
         /\ caller[o].id \in Nat
<1>1. caller \in [Caller -> OpRecord] /\ caller[o] \in OpRecord
  BY DEF McpInv
<1>2. caller[o].id \in Nat
  BY <1>1 DEF OpRecord
<1>3. ASSUME NEW pc, NEW m, Mcp!Goto(o, pc, m)
      PROVE  caller' = [caller EXCEPT ![o] = Moved(o, pc, m, caller[o].id)]
  <2>1. [caller[o] EXCEPT !.pc = pc, !.method = m] = Moved(o, pc, m, caller[o].id)
    BY <1>1, MethodUpdate DEF Moved
  <2>2. QED
    BY <1>1, <1>3, <2>1 DEF Mcp!Goto
<1>4. ASSUME NEW n, caller' = [caller EXCEPT ![o].pc = "send", ![o].id = n]
      PROVE  caller' = [caller EXCEPT ![o] = Moved(o, "send", caller[o].method, n)]
  <2>1. [caller[o] EXCEPT !.pc = "send", !.id = n] = Moved(o, "send", caller[o].method, n)
    BY <1>1, IdUpdate DEF Moved
  <2>2. QED
    BY <1>1, <1>4, <2>1
<1>5. \A pc \in {"insert", "send", "wait", "exit"}, m \in Methods, n \in Nat :
        Moved(o, pc, m, n) \in OpRecord
  BY <1>1 DEF OpRecord, Moved
<1>6. QED
  BY <1>2, <1>3, <1>4, <1>5

LEMMA InsertStep ==
  ASSUME McpInv, NEW o \in Caller, Mcp!Insert(o)
  PROVE  McpInv'
<1> DEFINE c == UsedBy(o)
           d == [c EXCEPT !.next = @ + 1, !.pending = c.pending \cup {c.next}]
           r == Moved(o, "send", caller[o].method, c.next)
<1>1. /\ caller \in [Caller -> OpRecord] /\ ClientSound(client) /\ ClientSound(local)
      /\ caller[o].pc = "insert" /\ guard = o /\ caller[o].method \in Requests
  BY DEF McpInv, HolderSound, Past, Mcp!Insert, Mcp!At
<1>2. /\ ClientSound(c) /\ c.next \in Nat /\ c.pending \cup {c.next} \in SUBSET Nat
  BY <1>1 DEF UsedBy, ClientSound, ClientRecord
<1>3. /\ ClientSound(d) /\ d.next = c.next + 1 /\ \A l : HasLine(d, l) => l.id < c.next
  BY <1>2, Numbered
<1>4. /\ IF caller[o].kind = "call" THEN client' = d /\ UNCHANGED local
                                    ELSE local' = d /\ UNCHANGED client
      /\ caller' = [caller EXCEPT ![o] = r]
      /\ guard' = guard /\ crossed' = crossed
  BY McpMoves DEF Mcp!Insert, Mcp!Use, Mcp!Used, Mcp!NextId, UsedBy
<1>5. r \in OpRecord
  BY <1>1, <1>2, McpMoves DEF Methods
<1>6. /\ caller'[o].pc = "send" /\ caller'[o].method \in Requests
      /\ caller'[o].id = c.next /\ caller'[o].kind = caller[o].kind
  BY <1>1, <1>4 DEF Moved
<1>7. UsedBy(o)' = d
  BY <1>4, <1>6 DEF UsedBy
<1> HIDE DEF d, r
<1>8. HolderSound(o)'
  <2>1. \A l : HasLine(d, l) => l.id # c.next
    BY <1>2, <1>3 DEF ClientSound
  <2>2. QED
  BY <1>1, <1>2, <1>3, <1>4, <1>6, <1>7, <2>1 DEF HolderSound, Past, Requests
<1>9. QED
  BY <1>1, <1>3, <1>4, <1>5, <1>8, HolderGoesOn

LEMMA SendStep ==
  ASSUME McpInv, NEW o \in Caller, Mcp!Send(o)
  PROVE  McpInv'
<1> DEFINE c == UsedBy(o)
           m == caller[o].method
           line == [id |-> IF m \in {"initialized", "cancelled"} THEN 0 ELSE caller[o].id,
                    by |-> o, method |-> m]
           d == [c EXCEPT !.queue = Append(@, line)]
<1>1. /\ caller \in [Caller -> OpRecord] /\ ClientSound(client) /\ ClientSound(local)
      /\ caller[o].pc = "send" /\ guard = o /\ m \in Methods
      /\ caller[o].id \in Nat
      /\ m \in Requests => /\ caller[o].id < c.next
                           /\ \A l : HasLine(c, l) => l.id # caller[o].id
  BY DEF McpInv, HolderSound, Past, Mcp!Send, Mcp!At, OpRecord
<1>2. ClientSound(c) /\ c.next \in Nat /\ c.next > 0
  BY <1>1 DEF UsedBy, ClientSound, ClientRecord
<1>3. line \in Line /\ line.id < c.next /\ line.by = o /\ line.method = m
  BY <1>1, <1>2 DEF Line, Methods
<1>4. /\ IF caller[o].kind = "call" THEN client' = d /\ UNCHANGED local
                                    ELSE local' = d /\ UNCHANGED client
      /\ guard' = guard /\ crossed' = crossed
  BY DEF Mcp!Send, Mcp!Use, Mcp!Used, Mcp!IsNotification, UsedBy
<1> HIDE DEF line
<1>5. /\ ClientSound(d) /\ \A u : HasLine(d, u) <=> HasLine(c, u) \/ u = line
  BY <1>2, <1>3, Queued
<1>6. ClientSound(client') /\ ClientSound(local')
  BY <1>1, <1>4, <1>5
<1>7. ASSUME NEW pc \in {"insert", "exit"}, NEW k \in Methods, pc = "insert" => k \in Requests,
             Mcp!Goto(o, pc, k)
      PROVE  McpInv'
  <2> DEFINE r == Moved(o, pc, k, caller[o].id)
  <2>1. r \in OpRecord /\ caller' = [caller EXCEPT ![o] = r]
    BY <1>1, <1>7, McpMoves
  <2>2. caller'[o].pc = pc /\ caller'[o].method = k
    BY <1>1, <2>1 DEF Moved
  <2> HIDE DEF r
  <2>3. HolderSound(o)'
    BY <1>1, <1>4, <1>7, <2>2 DEF HolderSound
  <2>4. QED
    BY <1>1, <1>4, <1>6, <2>1, <2>3, HolderGoesOn
<1>8. CASE m = "initialized"
  BY <1>7, <1>8 DEF Mcp!Send, Methods, Requests
<1>9. CASE m = "cancelled"
  BY <1>7, <1>9 DEF Mcp!Send, Methods, Requests
<1>10. CASE m \in Requests
  <2> DEFINE r == Moved(o, "wait", m, caller[o].id)
  <2>1. Mcp!Goto(o, "wait", m)
    BY <1>10 DEF Mcp!Send, Requests
  <2>2. r \in OpRecord /\ caller' = [caller EXCEPT ![o] = r]
    BY <1>1, <2>1, McpMoves
  <2>3. /\ caller'[o].pc = "wait" /\ caller'[o].method = m
        /\ caller'[o].id = caller[o].id /\ caller'[o].kind = caller[o].kind
    BY <1>1, <2>2 DEF Moved
  <2>4. UsedBy(o)' = d
    BY <1>4, <2>3 DEF UsedBy
  <2>5. \A l : HasLine(d, l) /\ l.id = caller[o].id => l.by = o /\ l.method = m
    BY <1>1, <1>3, <1>5, <1>10
  <2> HIDE DEF r, d
  <2>6. HolderSound(o)'
    BY <1>1, <1>4, <2>3, <2>4, <2>5 DEF HolderSound
  <2>7. QED
    BY <1>1, <1>4, <1>6, <2>2, <2>6, HolderGoesOn
<1>11. QED
  BY <1>1, <1>8, <1>9, <1>10 DEF Methods

LEMMA OwnSteps ==
  ASSUME McpInv, NEW o \in Caller,
         \/ \E kind \in Mcp!Kinds : Mcp!Begin(o, kind)
         \/ Mcp!OwnStep(o) \/ Mcp!SpawnFails(o) \/ Mcp!Drop(o)
  PROVE  McpInv'
<1>0. /\ caller \in [Caller -> OpRecord] /\ ClientSound(client) /\ ClientSound(local)
      /\ ClientSound(Mcp!NoClient) /\ ClientSound(Mcp!NewClient)
      /\ crossed = FALSE /\ "nobody" \notin Caller /\ guard \in Caller \cup {"nobody"}
      /\ Past(o) => guard = o
  BY FreshClients, WaitingAssumption DEF McpInv, HolderSound, Mcp!McpAssumption
<1>1. ASSUME NEW kind \in Mcp!Kinds, Mcp!Begin(o, kind) PROVE McpInv'
  <2> DEFINE r == [Mcp!Idle EXCEPT !.kind = kind, !.pc = "lock"]
  <2>1. r \in OpRecord /\ r.pc = "lock"
    BY DEF Mcp!Idle, OpRecord, Mcp!Kinds
  <2>2. /\ caller' = [caller EXCEPT ![o] = r]
        /\ UNCHANGED <<guard, client, local, crossed>>
    BY <1>1 DEF Mcp!Begin
  <2> HIDE DEF r
  <2>3. ASSUME NEW p \in Caller PROVE HolderSound(p)'
    <3>1. CASE p = o
      BY <1>0, <2>1, <2>2, <3>1 DEF HolderSound, Past
    <3>2. CASE p # o
      BY <1>0, <2>2, <3>2 DEF HolderSound, Past, UsedBy, McpInv
    <3>3. QED
      BY <3>1, <3>2
  <2>4. QED
    BY <1>0, <2>1, <2>2, <2>3 DEF McpInv
<1>2. CASE Mcp!ConnectAgain(o) \/ Mcp!SpawnFails(o)
  BY <1>0, <1>2, OperationEnds DEF Mcp!ConnectAgain, Mcp!SpawnFails
<1>3. ASSUME NEW m \in Requests \cup {"cancelled"}, NEW pc \in {"insert", "send", "exit"},
             pc = "insert" => m \in Requests, pc = "send" => m \notin Requests,
             Mcp!Goto(o, pc, m), guard \in {o, "nobody"}, guard' = o, crossed' = crossed,
             ClientSound(client'), ClientSound(local')
      PROVE  McpInv'
  <2> DEFINE r == Moved(o, pc, m, caller[o].id)
  <2>1. r \in OpRecord /\ caller' = [caller EXCEPT ![o] = r]
    BY <1>3, McpMoves DEF Methods
  <2>2. caller'[o].pc = pc /\ caller'[o].method = m
    BY <1>0, <2>1 DEF Moved
  <2> HIDE DEF r
  <2>3. HolderSound(o)'
    BY <1>3, <2>2 DEF HolderSound, Requests
  <2>4. QED
    BY <1>3, <2>1, <2>3, HolderGoesOn
<1>4. CASE Mcp!Spawn(o)
  BY <1>0, <1>3, <1>4 DEF Mcp!Spawn, Mcp!Locking, Mcp!nobody, Requests
<1>5. CASE Mcp!CallTool(o)
  <2>1. CASE client = Mcp!NoClient
    BY <1>0, <1>5, <2>1, OperationEnds DEF Mcp!CallTool
  <2>2. CASE client # Mcp!NoClient
    BY <1>0, <1>3, <1>5, <2>2 DEF Mcp!CallTool, Mcp!Locking, Mcp!nobody, Requests
  <2>3. QED
    BY <2>1, <2>2
<1>6. CASE Mcp!ShutDown(o)
  <2>1. CASE client = Mcp!NoClient
    BY <1>0, <1>6, <2>1, OperationEnds DEF Mcp!ShutDown
  <2>2. CASE client # Mcp!NoClient
    BY <1>0, <1>3, <1>6, <2>2 DEF Mcp!ShutDown, Mcp!Locking, Mcp!nobody, Requests
  <2>3. QED
    BY <2>1, <2>2
<1>7. CASE Mcp!SendFails(o)
  <2>1. guard = o
    BY <1>0, <1>7 DEF Mcp!SendFails, Mcp!At, Past
  <2>2. ClientSound(client') /\ ClientSound(local') /\ crossed' = crossed
    BY <1>0, <1>7 DEF Mcp!SendFails, Mcp!Discard
  <2>3. CASE caller[o].kind = "shutdown"
    BY <1>0, <1>3, <1>7, <2>1, <2>2, <2>3 DEF Mcp!SendFails, Requests
  <2>4. CASE caller[o].kind # "shutdown"
    BY <1>0, <1>7, <2>1, <2>2, <2>4, OperationEnds DEF Mcp!SendFails
  <2>5. QED
    BY <2>3, <2>4
<1>8. CASE Mcp!Timeout(o)
  <2>1. guard = o
    BY <1>0, <1>8 DEF Mcp!Timeout, Mcp!TimedOut, Mcp!At, Past
  <2>2. client.pending \ {caller[o].id} \in SUBSET Nat
    BY <1>0 DEF ClientSound, ClientRecord
  <2>3. ClientSound([client EXCEPT !.pending = @ \ {caller[o].id}])
    BY <1>0, <2>2, Shrinks
  <2>4. ClientSound(client') /\ ClientSound(local') /\ crossed' = FALSE
    BY <1>0, <1>8, <2>3 DEF Mcp!Timeout, Mcp!Discard
  <2>5. QED
    BY <1>8, <2>1, <2>4, OperationEnds DEF Mcp!Timeout
<1>9. CASE Mcp!Drop(o)
  <2>1. ClientSound(client') /\ ClientSound(local') /\ crossed' = FALSE /\ client' = client
    BY <1>0, <1>9 DEF Mcp!Drop, Mcp!Discard
  <2>2. local' = local \/ guard = o
    BY <1>0, <1>9 DEF Mcp!Drop, Mcp!Discard
  <2>3. QED
    BY <1>9, <2>1, <2>2, OperationEnds DEF Mcp!Drop
<1>10. CASE Mcp!Reap(o)
  <2>1. guard = o
    BY <1>0, <1>10 DEF Mcp!Reap, Mcp!At, Past
  <2>2. ClientSound(client') /\ ClientSound(local') /\ crossed' = FALSE
    BY <1>0, <1>10 DEF Mcp!Reap, Mcp!Discard
  <2>3. QED
    BY <1>10, <2>1, <2>2, OperationEnds DEF Mcp!Reap
<1>11. QED
  BY <1>1, <1>2, <1>4, <1>5, <1>6, <1>7, <1>8, <1>9, <1>10, InsertStep, SendStep
  DEF Mcp!OwnStep

(* The answer that reaches an awaited request is its own.                  *)
LEMMA AnswerStep ==
  ASSUME McpInv, NEW which \in Mcp!Slot, NEW s \in Mcp!In(which).served,
         NEW ok \in BOOLEAN, Mcp!Answer(which, s, ok)
  PROVE  McpInv'
<1> DEFINE b == Mcp!In(which)
           c == [b EXCEPT !.served = @ \ {s}, !.pending = @ \ {s.id}]
<1>0. /\ caller \in [Caller -> OpRecord] /\ ClientSound(client) /\ ClientSound(local)
      /\ ClientSound(Mcp!NoClient) /\ crossed = FALSE
  BY FreshClients DEF McpInv
<1>1. /\ ClientSound(b) /\ b.served \ {s} \in SUBSET b.served
      /\ b.pending \ {s.id} \in SUBSET Nat
      /\ b = IF which = "client" THEN client ELSE local
  BY <1>0 DEF Mcp!In, ClientSound, ClientRecord
<1>2. ClientSound(c) /\ Fewer(b, c)
  BY <1>1, Shrinks
<1>3. CASE s.id \in b.pending /\ Mcp!Waiting(which, s.id) # {}
  <2>1. PICK o \in Mcp!Waiting(which, s.id) :
          /\ crossed' = (crossed \/ s.by # o \/ s.method # caller[o].method)
          /\ Mcp!Continue(o, ok, c)
    BY <1>3 DEF Mcp!Answer
  <2>2. /\ o \in Caller /\ caller[o].pc = "wait" /\ caller[o].id = s.id
        /\ which = (IF caller[o].kind = "call" THEN "client" ELSE "local")
    BY <2>1 DEF Mcp!Waiting, Mcp!At
  <2>3. UsedBy(o) = b /\ HasLine(b, s)
    BY <1>1, <2>2 DEF UsedBy, HasLine
  <2>4. guard = o /\ s.by = o /\ s.method = caller[o].method
    BY <2>2, <2>3 DEF McpInv, HolderSound, Past
  <2>5. crossed' = crossed
    BY <1>0, <2>1, <2>4
  <2> HIDE DEF c
  <2>6. CASE Mcp!Return(o)
    <3>1. ClientSound(client') /\ ClientSound(local')
      BY <1>0, <1>2, <2>1 DEF Mcp!Continue, Mcp!Discard
    <3>2. QED
      BY <1>0, <2>2, <2>4, <2>5, <2>6, <3>1, OperationEnds
  <2>7. CASE /\ Mcp!Goto(o, "send", "initialized") /\ local' = c
             /\ UNCHANGED <<guard, client>>
    <3> DEFINE r == Moved(o, "send", "initialized", caller[o].id)
    <3>1. r \in OpRecord /\ caller' = [caller EXCEPT ![o] = r]
      BY <2>2, <2>7, McpMoves DEF Methods
    <3>2. caller'[o].pc = "send" /\ caller'[o].method = "initialized"
      BY <1>0, <2>2, <3>1 DEF Moved
    <3> HIDE DEF r
    <3>3. HolderSound(o)'
      BY <2>4, <2>7, <3>2 DEF HolderSound, Requests
    <3>4. QED
      BY <1>0, <1>2, <2>2, <2>4, <2>5, <2>7, <3>1, <3>3, HolderGoesOn
  <2>8. QED
    BY <2>1, <2>6, <2>7 DEF Mcp!Continue
<1>4. CASE ~(s.id \in b.pending /\ Mcp!Waiting(which, s.id) # {})
  <2>1. Mcp!Put(which, c) /\ UNCHANGED <<guard, caller, crossed>>
    BY <1>4 DEF Mcp!Answer
  <2>2. QED
    BY <1>0, <1>1, <1>2, <2>1, LinesTaken DEF Mcp!Put, Fewer
<1>5. QED
  BY <1>3, <1>4

LEMMA McpStep == McpInv /\ [Mcp!Next]_mcpVars => McpInv'
<1> SUFFICES ASSUME McpInv, [Mcp!Next]_mcpVars PROVE McpInv'
  OBVIOUS
<1>1. ASSUME NEW which \in Mcp!Slot, NEW d, Mcp!Put(which, d), ClientSound(d),
             Fewer(Mcp!In(which), d), UNCHANGED <<guard, caller, crossed>>
      PROVE  McpInv'
  <2>1. ClientSound(client) /\ ClientSound(local)
    BY DEF McpInv
  <2>2. QED
    BY <1>1, <2>1, LinesTaken DEF Mcp!Put, Mcp!In, Fewer
<1>2. ASSUME NEW which \in Mcp!Slot PROVE ClientSound(Mcp!In(which))
  BY DEF McpInv, Mcp!In
<1>3. ASSUME NEW which \in Mcp!Slot, Mcp!Write(which) PROVE McpInv'
  BY <1>1, <1>2, <1>3, Served DEF Mcp!Write
<1>4. ASSUME NEW which \in Mcp!Slot, Mcp!WriteFails(which) PROVE McpInv'
  BY <1>1, <1>2, <1>4, Shrinks DEF Mcp!WriteFails
<1>5. ASSUME NEW which \in Mcp!Slot, NEW to \in {"hung", "dead"}, Mcp!Trouble(which, to)
      PROVE  McpInv'
  <2> DEFINE b == Mcp!In(which)
             S == IF to = "dead" THEN {} ELSE b.served
  <2>1. S \in SUBSET b.served /\ ClientSound(b)
    BY <1>2
  <2>2. /\ Mcp!Put(which, [b EXCEPT !.child = to, !.served = S])
        /\ UNCHANGED <<guard, caller, crossed>>
    BY <1>5 DEF Mcp!Trouble
  <2> HIDE DEF b, S
  <2>3. ClientSound([b EXCEPT !.child = to, !.served = S])
          /\ Fewer(b, [b EXCEPT !.child = to, !.served = S])
    BY <2>1, Shrinks
  <2>4. QED
    BY <1>1, <2>2, <2>3 DEF b
<1>6. CASE UNCHANGED mcpVars
  BY <1>6 DEF mcpVars, McpInv, HolderSound, Past, UsedBy
<1>7. QED
  BY <1>3, <1>4, <1>5, <1>6, OwnSteps, AnswerStep DEF Mcp!Next

-----------------------------------------------------------------------------
(* Recursive calls.  A call is active from its entry to its answer.         *)
Active(c) == phase[c] \in {"permit", "model", "direct", "tools"}

(* Only a call whose tools run has others below it.                         *)
WaitsBelow ==
  \A c \in Rlm!Call : \A d \in Rlm!Children(c) : phase[d] # "idle" => phase[c] = "tools"

RlmInv ==
  /\ phase \in [Rlm!Call -> {"idle", "permit", "model", "direct", "tools", "answered", "failed"}]
  /\ WaitsBelow
  /\ outcome = "running" <=> Active(Rlm!Root)

(* What keeps a call from its next step: a permit, or the calls below it.   *)
Ready(c) ==
  \/ phase[c] = "permit" /\ Rlm!Cardinality(Rlm!PermitsHeld) < Permits
  \/ phase[c] \in {"model", "direct"}
  \/ phase[c] = "tools" /\ \A d \in Rlm!Children(c) : phase[d] = "idle" \/ Rlm!Ended(d)

GoesOn == outcome = "running" => \E c \in Rlm!Call : Ready(c)

NothingLeft == outcome # "running" => \A c \in Rlm!Call : ~Active(c)

LEMMA CallIs ==
  ASSUME NEW c \in Rlm!Call
  PROVE  c \in Seq(1..Width) /\ Len(c) \in 0..MaxDepth /\ c \in [1..Len(c) -> 1..Width]
<1>1. PICK d \in 0..MaxDepth : c \in [1..d -> 1..Width]
  BY DEF Rlm!Call
<1>2. d \in Nat /\ MaxDepth \in Nat
  BY <1>1, WaitingAssumption DEF Rlm!RecursionAssumption
<1>3. c \in Seq(1..Width) /\ Len(c) = d
  <2>1. PICK S : S = 1..Width
    OBVIOUS
  <2>2. c \in [1..d -> S]
    BY <1>1, <2>1
  <2>3. c \in Seq(S) /\ Len(c) = d
    BY <1>2, <2>2
  <2>4. QED
    BY <2>1, <2>3
<1>4. QED
  BY <1>1, <1>3

LEMMA RootIs == Rlm!Root \in Rlm!Call /\ Rlm!Root = <<>> /\ Len(Rlm!Root) = 0
<1>1. Rlm!Root = <<>>
  BY DEF Rlm!Root
<1>2. <<>> \in [1..0 -> 1..Width]
  OBVIOUS
<1>3. 0 \in 0..MaxDepth
  BY WaitingAssumption DEF Rlm!RecursionAssumption
<1>4. QED
  BY <1>1, <1>2, <1>3 DEF Rlm!Call

(* A call is below another one, and only one, unless it is the root.        *)
LEMMA ChildIs ==
  ASSUME NEW c \in Rlm!Call, NEW d \in Rlm!Children(c)
  PROVE  /\ d \in Rlm!Call /\ d # c /\ Len(d) = Len(c) + 1 /\ d # Rlm!Root
         /\ c = SubSeq(d, 1, Len(d) - 1)
<1>1. d \in Rlm!Call /\ Len(d) = Len(c) + 1 /\ SubSeq(d, 1, Len(c)) = c
  BY DEF Rlm!Children
<1>2. Len(c) \in Nat /\ Len(d) \in Nat
  BY <1>1, CallIs
<1>3. QED
  BY <1>1, <1>2, RootIs

LEMMA ParentIs ==
  ASSUME NEW d \in Rlm!Call, d # Rlm!Root
  PROVE  \E c \in Rlm!Call : d \in Rlm!Children(c)
<1>1. d \in Seq(1..Width) /\ Len(d) \in 0..MaxDepth /\ d \in [1..Len(d) -> 1..Width]
  BY CallIs
<1>2. MaxDepth \in Nat
  BY WaitingAssumption DEF Rlm!RecursionAssumption
<1>3. PICK n : n = Len(d) - 1
  OBVIOUS
<1>4. n \in 0..MaxDepth /\ Len(d) = n + 1
  <2>1. Len(d) # 0
    BY <1>1, RootIs
  <2>2. QED
    BY <1>1, <1>2, <1>3, <2>1
<1>5. PICK c : c = SubSeq(d, 1, n)
  OBVIOUS
<1>6. c \in [1..n -> 1..Width] /\ Len(c) = n
  <2>1. PICK S : S = 1..Width
    OBVIOUS
  <2>2. d \in [1..(n + 1) -> S] /\ n \in Nat
    BY <1>1, <1>2, <1>4, <2>1
  <2>3. c = [i \in 1..n |-> d[i]]
    BY <1>1, <1>4, <1>5, <2>2
  <2>4. c \in [1..n -> S]
    BY <2>2, <2>3
  <2>5. Len(c) = n
    BY <2>2, <2>4
  <2>6. QED
    BY <2>1, <2>4, <2>5
<1>7. c \in Rlm!Call
  BY <1>4, <1>6 DEF Rlm!Call
<1>8. QED
  BY <1>4, <1>5, <1>6, <1>7 DEF Rlm!Children

RlmPhase == {"idle", "permit", "model", "direct", "tools", "answered", "failed"}

LEMMA RlmInit == ASSUME Rlm!Init PROVE RlmInv
<1>1. /\ phase = [c \in Rlm!Call |-> IF c = Rlm!Root THEN Rlm!Entry(c) ELSE "idle"]
      /\ outcome = "running"
  BY DEF Rlm!Init
<1>2. \A c : Rlm!Entry(c) \in {"direct", "permit"}
  BY DEF Rlm!Entry
<1>3. phase \in [Rlm!Call -> RlmPhase] /\ Active(Rlm!Root)
  BY <1>1, <1>2, RootIs DEF RlmPhase, Active
<1>4. WaitsBelow
  BY <1>1, ChildIs DEF WaitsBelow
<1>5. QED
  BY <1>1, <1>3, <1>4 DEF RlmInv, RlmPhase

(* A call that has none below it moves, and ends or goes on.                *)
LEMMA OneMoves ==
  ASSUME RlmInv, NEW c \in Rlm!Call, phase[c] \in {"permit", "model", "direct"},
         NEW x \in RlmPhase \ {"tools"}, phase' = [phase EXCEPT ![c] = x],
         outcome' = outcome \/ (c = Rlm!Root /\ outcome' = x),
         c = Rlm!Root => (outcome' = "running" <=> x \in {"permit", "model", "direct"})
  PROVE  RlmInv'
<1>1. phase \in [Rlm!Call -> RlmPhase] /\ WaitsBelow /\ (outcome = "running" <=> Active(Rlm!Root))
  BY DEF RlmInv, RlmPhase
<1>2. /\ phase' \in [Rlm!Call -> RlmPhase] /\ phase'[c] = x
      /\ \A d \in Rlm!Call : d # c => phase'[d] = phase[d]
  BY <1>1
<1>3. ASSUME NEW p \in Rlm!Call, NEW d \in Rlm!Children(p), phase'[d] # "idle"
      PROVE  phase'[p] = "tools"
  <2>1. d \in Rlm!Call /\ d # p
    BY ChildIs
  <2>2. phase[d] # "idle"
    BY <1>2, <1>3, <2>1
  <2>3. phase[p] = "tools"
    BY <1>1, <2>2 DEF WaitsBelow
  <2>4. p # c
    BY <2>3
  <2>5. QED
    BY <1>2, <2>3, <2>4
<1>4. outcome' = "running" <=> Active(Rlm!Root)'
  <2>1. CASE c = Rlm!Root
    BY <1>2, <2>1 DEF Active, RlmPhase
  <2>2. CASE c # Rlm!Root
    BY <1>1, <1>2, <2>2, RootIs DEF Active
  <2>3. QED
    BY <2>1, <2>2
<1>5. WaitsBelow'
  BY <1>3 DEF WaitsBelow
<1>6. QED
  BY <1>2, <1>4, <1>5 DEF RlmInv, RlmPhase

LEMMA CallEnds ==
  ASSUME RlmInv, NEW c \in Rlm!Call, phase[c] \in {"permit", "model", "direct"},
         NEW how \in {"answered", "failed"}, Rlm!End(c, how)
  PROVE  RlmInv'
<1>1. /\ phase' = [phase EXCEPT ![c] = how]
      /\ outcome' = IF c = Rlm!Root THEN how ELSE outcome
  BY DEF Rlm!End
<1>2. how \in RlmPhase \ {"tools"} /\ how \notin {"running", "permit", "model", "direct"}
  BY DEF RlmPhase
<1>3. QED
  BY <1>1, <1>2, OneMoves

(* Sub-queries: the call waits for them, and they have none below them.     *)
LEMMA Delegates ==
  ASSUME RlmInv, NEW c \in Rlm!Call, NEW n \in 1..Width, Rlm!Delegate(c, n)
  PROVE  RlmInv'
<1>0. /\ phase \in [Rlm!Call -> RlmPhase] /\ WaitsBelow /\ (outcome = "running" <=> Active(Rlm!Root))
      /\ phase[c] = "model" /\ outcome' = outcome
      /\ phase' = [d \in Rlm!Call |->
           CASE d = c -> "tools"
             [] d \in Rlm!Children(c) /\ d[Len(d)] <= n -> Rlm!Entry(d)
             [] OTHER -> phase[d]]
  BY DEF RlmInv, RlmPhase, Rlm!Delegate
<1>1. c \notin Rlm!Children(c)
  BY ChildIs
<1>2. /\ DOMAIN phase' = Rlm!Call /\ phase'[c] = "tools"
      /\ \A d \in Rlm!Call : d # c /\ d \notin Rlm!Children(c) => phase'[d] = phase[d]
      /\ \A d \in Rlm!Call : d \in Rlm!Children(c) => phase'[d] \in {"permit", "direct", phase[d]}
  BY <1>0, <1>1 DEF Rlm!Entry
<1>3. phase' \in [Rlm!Call -> RlmPhase]
  <2>1. \A d \in Rlm!Call : phase'[d] \in RlmPhase
    BY <1>0, <1>2 DEF RlmPhase
  <2>2. phase' = [d \in Rlm!Call |-> phase'[d]]
    BY <1>0
  <2>3. QED
    BY <2>1, <2>2
<1>4. ASSUME NEW p \in Rlm!Call, NEW d \in Rlm!Children(p), phase'[d] # "idle"
      PROVE  phase'[p] = "tools"
  <2>1. d \in Rlm!Call /\ d # p /\ p = SubSeq(d, 1, Len(d) - 1)
    BY ChildIs
  <2>2. CASE p = c
    BY <1>2, <2>2
  <2>3. CASE p # c
    <3>1. d \notin Rlm!Children(c)
      BY <2>1, <2>3, ChildIs
    <3>2. phase[d] # "idle"
      BY <1>0, <1>2, <1>4, <2>1, <3>1
    <3>3. phase[p] = "tools"
      BY <1>0, <3>2 DEF WaitsBelow
    <3>4. p \notin Rlm!Children(c)
      BY <1>0, <3>3 DEF WaitsBelow
    <3>5. QED
      BY <1>2, <2>3, <3>3, <3>4
  <2>4. QED
    BY <2>2, <2>3
<1>5. outcome' = "running" <=> Active(Rlm!Root)'
  <2>1. CASE c = Rlm!Root
    BY <1>0, <1>2, <2>1 DEF Active
  <2>2. CASE c # Rlm!Root
    <3>1. Rlm!Root \notin Rlm!Children(c) /\ Rlm!Root \in Rlm!Call
      BY ChildIs, RootIs
    <3>2. phase'[Rlm!Root] = phase[Rlm!Root]
      BY <1>2, <2>2, <3>1
    <3>3. QED
      BY <1>0, <3>2 DEF Active
  <2>3. QED
    BY <2>1, <2>2
<1>6. WaitsBelow'
  BY <1>4 DEF WaitsBelow
<1>7. QED
  BY <1>3, <1>5, <1>6 DEF RlmInv, RlmPhase

(* Their results are joined when all have ended.                            *)
LEMMA Collects ==
  ASSUME RlmInv, NEW c \in Rlm!Call, Rlm!Collect(c)
  PROVE  RlmInv'
<1>1. PICK x : /\ x \in {"permit", "failed"}
               /\ phase' = [[d \in Rlm!Call |-> IF d \in Rlm!Children(c) THEN "idle" ELSE phase[d]]
                              EXCEPT ![c] = x]
               /\ outcome' = IF c = Rlm!Root /\ x = "failed" THEN "failed" ELSE outcome
  BY DEF Rlm!Collect
<1>2. /\ phase \in [Rlm!Call -> RlmPhase] /\ WaitsBelow /\ (outcome = "running" <=> Active(Rlm!Root))
      /\ phase[c] = "tools"
      /\ \A d \in Rlm!Children(c) : phase[d] \in {"idle", "answered", "failed"}
  BY DEF RlmInv, RlmPhase, Rlm!Collect, Rlm!Ended
<1>3. c \notin Rlm!Children(c)
  BY ChildIs
<1>4. /\ DOMAIN phase' = Rlm!Call /\ phase'[c] = x
      /\ \A d \in Rlm!Call : d # c /\ d \notin Rlm!Children(c) => phase'[d] = phase[d]
      /\ \A d \in Rlm!Call : d \in Rlm!Children(c) => phase'[d] = "idle"
  BY <1>1, <1>3
<1>5. phase' \in [Rlm!Call -> RlmPhase]
  <2>1. \A d \in Rlm!Call : phase'[d] \in RlmPhase
    BY <1>1, <1>2, <1>4 DEF RlmPhase
  <2>2. phase' = [d \in Rlm!Call |-> phase'[d]]
    BY <1>1
  <2>3. QED
    BY <2>1, <2>2
<1>6. ASSUME NEW p \in Rlm!Call, NEW d \in Rlm!Children(p), phase'[d] # "idle"
      PROVE  phase'[p] = "tools"
  <2>1. d \in Rlm!Call /\ d # p /\ p = SubSeq(d, 1, Len(d) - 1)
    BY ChildIs
  <2>2. d \notin Rlm!Children(c)
    BY <1>4, <1>6, <2>1
  <2>3. p # c
    BY <2>2
  <2>4. phase[d] # "idle"
    BY <1>2, <1>4, <1>6, <2>1, <2>2
  <2>5. phase[p] = "tools"
    BY <1>2, <2>4 DEF WaitsBelow
  <2>6. p \notin Rlm!Children(c)
    BY <1>2, <2>5
  <2>7. QED
    BY <1>4, <2>3, <2>5, <2>6
<1>7. outcome' = "running" <=> Active(Rlm!Root)'
  <2>1. CASE c = Rlm!Root
    BY <1>1, <1>2, <1>4, <2>1 DEF Active
  <2>2. CASE c # Rlm!Root
    <3>1. Rlm!Root \notin Rlm!Children(c) /\ Rlm!Root \in Rlm!Call
      BY ChildIs, RootIs
    <3>2. phase'[Rlm!Root] = phase[Rlm!Root] /\ outcome' = outcome
      BY <1>1, <1>4, <2>2, <3>1
    <3>3. QED
      BY <1>2, <3>2 DEF Active
  <2>3. QED
    BY <2>1, <2>2
<1>8. WaitsBelow'
  BY <1>6 DEF WaitsBelow
<1>9. QED
  BY <1>5, <1>7, <1>8 DEF RlmInv, RlmPhase

LEMMA RlmStep == ASSUME RlmInv, [Rlm!Next]_rlmVars PROVE RlmInv'
<1>1. CASE UNCHANGED rlmVars
  BY <1>1 DEF rlmVars, RlmInv, WaitsBelow, Active
<1>2. CASE Rlm!PipelineTimeout
  <2>1. phase' = [c \in Rlm!Call |-> "idle"] /\ outcome' = "timeout"
    BY <1>2 DEF Rlm!PipelineTimeout, Rlm!DropAll
  <2>2. WaitsBelow' /\ ~Active(Rlm!Root)'
    BY <2>1, ChildIs, RootIs DEF WaitsBelow, Active
  <2>3. QED
    BY <2>1, <2>2 DEF RlmInv
<1>3. ASSUME NEW c \in Rlm!Call, Rlm!Step(c) PROVE RlmInv'
  <2>1. outcome = "running" <=> Active(Rlm!Root)
    BY DEF RlmInv
  <2>2. CASE Rlm!Acquire(c)
    <3>1. /\ phase[c] = "permit" /\ phase' = [phase EXCEPT ![c] = "model"] /\ outcome' = outcome
      BY <2>2 DEF Rlm!Acquire
    <3>2. "model" \in RlmPhase \ {"tools"}
      BY DEF RlmPhase
    <3>3. c = Rlm!Root => outcome' = "running"
      BY <2>1, <3>1 DEF Active
    <3>4. QED
      BY <3>1, <3>2, <3>3, OneMoves
  <2>3. CASE Rlm!ModelFails(c)
    BY <2>3, CallEnds DEF Rlm!ModelFails
  <2>4. CASE Rlm!Answer(c)
    BY <2>4, CallEnds DEF Rlm!Answer
  <2>5. CASE Rlm!AskAgain(c)
    <3>1. phase[c] = "model"
      BY <2>5 DEF Rlm!AskAgain
    <3>2. CASE Rlm!End(c, "failed")
      BY <3>1, <3>2, CallEnds
    <3>3. CASE phase' = [phase EXCEPT ![c] = "permit"] /\ outcome' = outcome
      <4>1. "permit" \in RlmPhase \ {"tools"}
        BY DEF RlmPhase
      <4>2. c = Rlm!Root => outcome' = "running"
        BY <2>1, <3>1, <3>3 DEF Active
      <4>3. QED
        BY <3>1, <3>3, <4>1, <4>2, OneMoves
    <3>4. QED
      BY <2>5, <3>2, <3>3 DEF Rlm!AskAgain, Rlm!NextRound
  <2>6. CASE Rlm!Collect(c)
    BY <2>6, Collects
  <2>7. CASE \E n \in 1..Width : Rlm!Delegate(c, n)
    BY <2>7, Delegates
  <2>8. QED
    BY <1>3, <2>2, <2>3, <2>4, <2>5, <2>6, <2>7 DEF Rlm!Step
<1>4. QED
  BY <1>1, <1>2, <1>3 DEF Rlm!Next

(* Every set of numbers has a least one; this stands in for an induction.   *)
LEMMA Least == ASSUME NEW T \in SUBSET Nat, T # {} PROVE \E x \in T : \A y \in T : x <= y
<1> DEFINE R == {p \in Nat \X Nat : p[1] < p[2]}
<1>1. R = OpToRel(<, Nat)
  BY DEF OpToRel
<1>2. IsWellFoundedOn(R, Nat)
  BY <1>1, NatLessThanWellFounded
<1>3. PICK x \in T : \A y \in T : <<y, x>> \notin R
  <2> HIDE DEF R
  <2>1. QED
    BY <1>2, WFMin
<1>4. ASSUME NEW y \in T PROVE x <= y
  <2>1. x \in Nat /\ y \in Nat /\ <<y, x>> \notin R
    BY <1>3
  <2>2. QED
    BY <2>1
<1>5. QED
  BY <1>4

(* The calls below a call are deeper; depths have a least and a greatest.   *)
LEMMA Deepest ==
  ASSUME NEW S \in SUBSET Rlm!Call, S # {}
  PROVE  \E c \in S : \A d \in S : Len(d) <= Len(c)
<1> DEFINE T == {MaxDepth - Len(c) : c \in S}
<1>1. MaxDepth \in Nat /\ \A c \in S : Len(c) \in 0..MaxDepth
  BY CallIs, WaitingAssumption DEF Rlm!RecursionAssumption
<1>2. T \in SUBSET Nat /\ T # {}
  BY <1>1
<1>3. PICK x \in T : \A y \in T : x <= y
  <2> HIDE DEF T
  <2>1. QED
    BY <1>2, Least
<1>4. PICK c \in S : x = MaxDepth - Len(c)
  BY <1>3
<1>5. ASSUME NEW d \in S PROVE Len(d) <= Len(c)
  <2>1. x <= MaxDepth - Len(d)
    BY <1>3
  <2>2. QED
    BY <1>1, <1>4, <2>1
<1>6. QED
  BY <1>4, <1>5

LEMMA Shallowest ==
  ASSUME NEW S \in SUBSET Rlm!Call, S # {}
  PROVE  \E c \in S : \A d \in S : Len(c) <= Len(d)
<1> DEFINE T == {Len(c) : c \in S}
<1>1. T \in SUBSET Nat /\ T # {}
  <2>1. \A c \in S : Len(c) \in Nat
    BY CallIs
  <2>2. QED
    BY <2>1
<1>2. PICK x \in T : \A y \in T : x <= y
  <2> HIDE DEF T
  <2>1. QED
    BY <1>1, Least
<1>3. PICK c \in S : x = Len(c)
  BY <1>2
<1>4. \A d \in S : Len(d) \in T
  OBVIOUS
<1>5. QED
  BY <1>2, <1>3, <1>4

(* Nobody holds a permit while others ask for one, or the holder goes on.   *)
LEMMA HolderOrPermit ==
  ASSUME NEW c \in Rlm!Call, phase[c] = "permit"
  PROVE  \E d \in Rlm!Call : Ready(d)
<1>1. CASE Rlm!PermitsHeld = {}
  <2>1. Rlm!Cardinality({}) = Cardinality({})
    BY DEF Rlm!Cardinality, Cardinality
  <2>2. Cardinality({}) = 0
    BY FS_EmptySet
  <2>3. 0 < Permits
    BY WaitingAssumption DEF Rlm!RecursionAssumption
  <2>4. Rlm!Cardinality(Rlm!PermitsHeld) < Permits
    BY <1>1, <2>1, <2>2, <2>3
  <2>5. QED
    BY <2>4 DEF Ready
<1>2. CASE Rlm!PermitsHeld # {}
  <2>1. PICK d \in Rlm!PermitsHeld : TRUE
    BY <1>2
  <2>2. d \in Rlm!Call /\ phase[d] = "model"
    BY <2>1 DEF Rlm!PermitsHeld
  <2>3. QED
    BY <2>2 DEF Ready
<1>3. QED
  BY <1>1, <1>2

(* The deepest active call waits for nobody but a holder of a permit.       *)
LEMMA DeepestGoesOn == RlmInv => GoesOn
<1> SUFFICES ASSUME RlmInv, outcome = "running"
             PROVE  \E c \in Rlm!Call : Ready(c)
  BY DEF GoesOn
<1> DEFINE S == {c \in Rlm!Call : Active(c)}
<1>1. S \in SUBSET Rlm!Call /\ S # {}
  BY RootIs DEF RlmInv
<1>2. PICK c \in S : \A d \in S : Len(d) <= Len(c)
  <2> HIDE DEF S
  <2>1. QED
    BY <1>1, Deepest
<1>3. c \in Rlm!Call /\ phase[c] \in {"permit", "model", "direct", "tools"}
  BY DEF Active
<1>4. CASE phase[c] = "permit"
  BY <1>3, <1>4, HolderOrPermit
<1>5. CASE phase[c] \in {"model", "direct"}
  BY <1>3, <1>5 DEF Ready
<1>6. CASE phase[c] = "tools"
  <2>1. ASSUME NEW d \in Rlm!Children(c)
        PROVE  phase[d] = "idle" \/ Rlm!Ended(d)
    <3>1. d \in Rlm!Call /\ Len(d) = Len(c) + 1 /\ Len(c) \in Nat
      BY <1>3, ChildIs, CallIs
    <3>2. d \notin S
      <4>1. ~(Len(d) <= Len(c))
        BY <3>1
      <4>2. QED
        BY <1>2, <4>1
    <3>3. phase[d] \notin {"permit", "model", "direct", "tools"}
      BY <3>1, <3>2 DEF Active
    <3>4. phase[d] \in RlmPhase
      BY <3>1 DEF RlmInv, RlmPhase
    <3>5. QED
      BY <3>3, <3>4 DEF RlmPhase, Rlm!Ended
  <2>2. QED
    BY <1>3, <1>6, <2>1 DEF Ready
<1>7. QED
  BY <1>3, <1>4, <1>5, <1>6

(* An active call has an active one above it, up to the root.               *)
LEMMA ActiveUnderRoot == RlmInv => NothingLeft
<1> SUFFICES ASSUME RlmInv, NEW e \in Rlm!Call, Active(e)
             PROVE  outcome = "running"
  BY DEF NothingLeft
<1> DEFINE S == {c \in Rlm!Call : Active(c)}
<1>1. S \in SUBSET Rlm!Call /\ S # {}
  OBVIOUS
<1>2. PICK d \in S : \A c \in S : Len(d) <= Len(c)
  <2> HIDE DEF S
  <2>1. QED
    BY <1>1, Shallowest
<1>3. CASE d = Rlm!Root
  BY <1>3 DEF RlmInv
<1>4. CASE d # Rlm!Root
  <2>1. PICK c \in Rlm!Call : d \in Rlm!Children(c)
    BY <1>4, ParentIs
  <2>2. phase[c] = "tools"
    BY <2>1 DEF RlmInv, WaitsBelow, Active
  <2>3. c \in S
    BY <2>2 DEF Active
  <2>4. Len(d) = Len(c) + 1 /\ Len(c) \in Nat
    BY <2>1, ChildIs, CallIs
  <2>5. ~(Len(d) <= Len(c))
    BY <2>4
  <2>6. QED
    BY <1>2, <2>3, <2>5
<1>5. QED
  BY <1>3, <1>4

-----------------------------------------------------------------------------
(* The composition.                                                        *)
(* What holds of the part that moves, and of the others as they start.     *)
IInv == McpInv /\ TelegramInv /\ BrowserInv /\ RlmInv

(* A step of one component is a step of it or leaves it alone.             *)
LEMMA PartSteps ==
  [Next]_vars => /\ [Mcp!Next]_mcpVars
                 /\ [Telegram!Next]_telegramVars
                 /\ [Browser!Next]_browserVars
                 /\ [Rlm!Next]_rlmVars
<1> SUFFICES ASSUME [Next]_vars
             PROVE  /\ Mcp!Next \/ UNCHANGED mcpVars
                    /\ Telegram!Next \/ UNCHANGED telegramVars
                    /\ Browser!Next \/ UNCHANGED browserVars
                    /\ Rlm!Next \/ UNCHANGED rlmVars
  OBVIOUS
<1>1. CASE McpOnly /\ Mcp!Next
  BY <1>1 DEF McpOnly
<1>2. CASE TelegramOnly /\ Telegram!Next
  BY <1>2 DEF TelegramOnly
<1>3. CASE RlmOnly /\ Rlm!Next
  BY <1>3 DEF RlmOnly
<1>4. CASE BrowserOnly /\ Browser!Next
  BY <1>4 DEF BrowserOnly
<1>5. CASE UNCHANGED vars
  BY <1>5 DEF vars
<1>6. QED
  BY <1>1, <1>2, <1>3, <1>4, <1>5 DEF Next

LEMMA InitInv == Init => IInv
<1> SUFFICES ASSUME Init PROVE IInv
  OBVIOUS
<1>1. McpInv
  <2>1. /\ guard = "nobody" /\ client = Mcp!NoClient /\ local = Mcp!NoClient
        /\ caller = [o \in Caller |-> Mcp!Idle] /\ crossed = FALSE
    BY DEF Init, Mcp!Init, Mcp!nobody
  <2>2. Mcp!Idle \in OpRecord /\ Mcp!Idle.pc = "idle"
    BY DEF Mcp!Idle, OpRecord
  <2>3. QED
    BY <2>1, <2>2, FreshClients DEF McpInv, HolderSound, Past
<1>2. TelegramInv
  <2>1. /\ mode \in {"polling", "webhook"} /\ arrived = 0 /\ conf = {} /\ offset = 0
        /\ batch = <<>> /\ queue = <<>> /\ got = {}
    BY DEF Init, Telegram!Init
  <2>2. Len(KindOf) \in Nat
    BY WaitingAssumption DEF Telegram!ChannelAssumption
  <2>3. TelegramTyped
    BY <2>1, <2>2 DEF TelegramTyped
  <2>4. QED
    BY <2>1, <2>3 DEF TelegramInv, BatchIsGapless, PassedIsSafe, DoubtsKnown
<1>3. BrowserInv
  BY WaitingAssumption DEF Init, Browser!Init, Browser!NoCall, Browser!Free, BrowserInv,
     LockHeld, OpShape, LockedAt, Balance, Launching, Awaiting, One, Browser!TabsAssumption
<1>4. RlmInv
  BY RlmInit DEF Init
<1>5. QED
  BY <1>1, <1>2, <1>3, <1>4 DEF IInv

(* The inductive invariant holds in every reachable state.                 *)
THEOREM Invariance == Spec => []IInv
<1>1. IInv /\ [Next]_vars => IInv'
  BY PartSteps, McpStep, TelegramStep, BrowserStep, RlmStep DEF IInv
<1>2. QED
  BY <1>1, InitInv, PTL DEF Spec

(* The history variable of McpClient stays FALSE: every answer goes to the *)
(* request it is for, for any number of callers and any server.            *)
THEOREM AnswersMatch == Spec => []OwnAnswer
<1>1. IInv => OwnAnswer
  BY DEF IInv, McpInv, OwnAnswer, Mcp!OwnAnswer
<1>2. QED
  BY <1>1, Invariance, PTL

(* Whatever the poller has passed is with the agent loop, in its queue or  *)
(* in a stop's account, however polls fail and answers get lost.           *)
THEOREM NoTextForgotten == Spec => []ForgottenIsSafe
<1>1. IInv => ForgottenIsSafe
  BY DEF IInv, TelegramInv, TelegramTyped, PassedIsSafe, InSeq, ForgottenIsSafe,
     Telegram!ForgottenIsSafe
<1>2. QED
  BY <1>1, Invariance, PTL

(* A step that puts a text before the agent loop which it has already had  *)
(* takes it from what a stop or a lost answer left in doubt.               *)
THEOREM RepeatsOnlyDoubted == Spec => RepeatsExplained
<1> DEFINE A == \A u \in Telegram!Update :
                  (queue' # queue /\ Len(queue') > Len(queue)
                     /\ queue'[Len(queue')] = u /\ u \in got) => u \in again
<1>1. IInv /\ [Next]_vars => [A]_telegramVars
  <2> SUFFICES ASSUME TelegramInv, [Telegram!Next]_telegramVars PROVE A
    BY PartSteps DEF IInv
  <2>0. /\ DoubtsKnown /\ BatchIsGapless /\ arrived \in Nat /\ offset \in Nat
        /\ queue \in Seq(1..arrived) /\ batch \in Seq(1..arrived)
        /\ mode = "webhook" => offset = 0
    BY WaitingAssumption DEF TelegramInv, TelegramTyped, Telegram!ChannelAssumption
  <2>1. ASSUME NEW u \in 1..arrived, u \notin conf, u >= offset,
               queue' = queue \/ queue' = Append(queue, u)
        PROVE  A
    <3>1. u \in got => u \in again
      BY <2>0, <2>1 DEF DoubtsKnown
    <3>2. CASE queue' = queue
      BY <3>2
    <3>3. CASE queue' = Append(queue, u)
      <4>1. queue'[Len(queue')] = u
        BY <2>0, <3>3
      <4>2. QED
        BY <3>1, <4>1
    <3>4. QED
      BY <2>1, <3>2, <3>3
  <2>2. CASE Telegram!HandleNext
    <3>1. /\ Head(batch) \in 1..arrived /\ Head(batch) = batch[1] /\ 1 \in DOMAIN batch
      BY <2>0, <2>2, TailMembers DEF Telegram!HandleNext
    <3>2. Head(batch) \notin conf /\ Head(batch) >= offset
      BY <2>0, <3>1 DEF BatchIsGapless
    <3>3. queue' = queue \/ queue' = Append(queue, Head(batch))
      BY <2>2 DEF Telegram!HandleNext, Telegram!Handle, Telegram!Enqueue
    <3>4. QED
      BY <2>1, <3>1, <3>2, <3>3
  <2>3. ASSUME NEW u, NEW heard, Telegram!WebhookPost(u, heard) PROVE A
    BY <2>0, <2>1, <2>3 DEF Telegram!WebhookPost, Telegram!Handle, Telegram!Enqueue
  <2>4. CASE Telegram!Receive
    <3>1. queue # <<>> /\ queue' = Tail(queue)
      BY <2>4 DEF Telegram!Receive
    <3>2. Len(queue') < Len(queue) /\ Len(queue) \in Nat /\ Len(queue') \in Nat
      BY <2>0, <3>1
    <3>3. QED
      BY <3>2
  <2>5. CASE Telegram!Crash
    <3>1. Len(queue') = 0 /\ Len(queue) \in Nat
      BY <2>0, <2>5 DEF Telegram!Crash
    <3>2. QED
      BY <3>1
  <2>6. CASE UNCHANGED queue
    BY <2>6
  <2>7. QED
    BY <2>2, <2>3, <2>4, <2>5, <2>6
    DEF Telegram!Next, Telegram!Arrive, Telegram!Poll, Telegram!PollFails,
        Telegram!BackOff, Telegram!Replied, telegramVars
<1>2. Spec => [][A]_telegramVars
  BY <1>1, Invariance, PTL DEF Spec
<1>3. QED
  BY <1>2 DEF RepeatsExplained, Telegram!RepeatsExplained, Telegram!vars, telegramVars

(* However calls, their launch threads and Chrome interleave, executables  *)
(* are started beside a browser of the profile at most as often as calls   *)
(* gave their launch up: the lock is held from the look into the map to    *)
(* the second connect.                                                     *)
THEOREM LaunchesCounted == Spec => []ExtraLaunchesGivenUp
<1>1. BrowserInv => ExtraLaunchesGivenUp
  <2> SUFFICES ASSUME BrowserInv PROVE beside <= givenUp
    BY DEF ExtraLaunchesGivenUp, Browser!ExtraLaunchesGivenUp
  <2>1. QED
    BY DEF BrowserInv, Balance, One
<1>2. IInv => ExtraLaunchesGivenUp
  BY <1>1 DEF IInv
<1>3. QED
  BY <1>2, Invariance, PTL

(* However the calls of a recursive execution share the permits, one of    *)
(* them has its next step: none waits for a permit held above it.          *)
THEOREM NeverStuck == Spec => []GoesOn
<1>1. IInv => GoesOn
  BY DeepestGoesOn DEF IInv
<1>2. QED
  BY <1>1, Invariance, PTL

(* When the root has answered, failed or been dropped by the timeout of    *)
(* the pipeline, no sub-query runs on, holds a permit or waits for one.    *)
THEOREM NothingRunsOn == Spec => []NothingLeft
<1>1. IInv => NothingLeft
  BY ActiveUnderRoot DEF IInv
<1>2. QED
  BY <1>1, Invariance, PTL

=============================================================================
