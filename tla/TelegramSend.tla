---------------------------- MODULE TelegramSend ----------------------------
(***************************************************************************)
(* How a reply goes out to Telegram (telegram.rs, send_text): its chunks   *)
(* (TextSplit) one after the other, each with retries, and each a second   *)
(* time as plain text when the Bot API refuses its Markdown.  Two tasks    *)
(* may answer the same chat.                                               *)
(***************************************************************************)
EXTENDS Naturals, Sequences, FiniteSets

CONSTANTS
  Reply,       \* replies on their way, each sent by a task of its own
  Chunks,      \* chunks of each
  MaxRetries,  \* SEND_MAX_RETRIES
  MaxFaults    \* bound on answers lost, 429 and 5xx

SendAssumption ==
  {Chunks, MaxRetries, MaxFaults} \subseteq Nat /\ Chunks > 0

VARIABLES
  at,        \* chunk each reply is at
  mode,      \* "markdown", "plain", or how its send_text ended: "ok", "error"
  attempt,
  refused,   \* [reply, chunk, mode] the Bot API will answer with 400
  shown,     \* last chunk of each reply the chat shows
  faults

vars == <<at, mode, attempt, refused, shown, faults>>

Chunk == 1..Chunks
Sending(r) == mode[r] \in {"markdown", "plain"}
Refused(r) == <<r, at[r], mode[r]>> \in refused

(* What is refused as plain text, an empty chunk, is refused as Markdown.  *)
Init ==
  /\ at = [r \in Reply |-> 1]
  /\ mode = [r \in Reply |-> "markdown"]
  /\ attempt = [r \in Reply |-> 0]
  /\ refused \in SUBSET (Reply \X Chunk \X {"markdown", "plain"})
  /\ \A r \in Reply, c \in Chunk :
       <<r, c, "plain">> \in refused => <<r, c, "markdown">> \in refused
  /\ shown = [r \in Reply |-> 0]
  /\ faults = 0

(* The next chunk, or the end of the reply.                                *)
NextChunk(r) ==
  /\ at' = [at EXCEPT ![r] = IF at[r] = Chunks THEN @ ELSE @ + 1]
  /\ mode' = [mode EXCEPT ![r] = IF at[r] = Chunks THEN "ok" ELSE "markdown"]
  /\ attempt' = [attempt EXCEPT ![r] = 0]

(* Mutant: the loop goes on with the next chunk after one that failed.     *)
SkipChunk(r) == NextChunk(r)
StopWithError(r) ==
  /\ mode' = [mode EXCEPT ![r] = "error"]
  /\ UNCHANGED <<at, attempt>>

(* try_send, when the attempt was not the last ...                         *)
RetryOr(r, giveUp(_)) ==
  IF attempt[r] < MaxRetries
  THEN attempt' = [attempt EXCEPT ![r] = @ + 1] /\ UNCHANGED <<at, mode>>
  ELSE giveUp(r)

AsPlainText(r) ==
  /\ mode' = [mode EXCEPT ![r] = "plain"]
  /\ attempt' = [attempt EXCEPT ![r] = 0]
  /\ UNCHANGED at

(* send_single_message: an error whose text holds "400", "parse" or        *)
(* "can't" is taken for refused Markdown.  Other errors may hold them too: *)
(* an error that names the address holds the token of the bot.             *)
GiveUp(r) ==
  \/ mode[r] = "markdown" /\ AsPlainText(r)
  \/ StopWithError(r)

Accepted(r) ==
  /\ Sending(r) /\ ~Refused(r)
  /\ shown' = [shown EXCEPT ![r] = at[r]]
  /\ NextChunk(r)
  /\ UNCHANGED <<refused, faults>>

(* A client error ends the attempts at once.                               *)
BadRequest(r) ==
  /\ Sending(r) /\ Refused(r)
  /\ IF mode[r] = "markdown" THEN AsPlainText(r) ELSE StopWithError(r)
  /\ UNCHANGED <<refused, shown, faults>>

(* Another client error, as when the chat blocked the bot.                 *)
Forbidden(r) ==
  /\ Sending(r) /\ faults < MaxFaults
  /\ faults' = faults + 1
  /\ GiveUp(r)
  /\ UNCHANGED <<refused, shown>>

(* Too many requests, a server error, no connection: nothing was sent.     *)
NotTaken(r) ==
  /\ Sending(r) /\ faults < MaxFaults
  /\ faults' = faults + 1
  /\ RetryOr(r, GiveUp)
  /\ UNCHANGED <<refused, shown>>

(* The message was sent and the answer did not come: it is sent again.     *)
AnswerLost(r) ==
  /\ Sending(r) /\ ~Refused(r) /\ faults < MaxFaults
  /\ faults' = faults + 1
  /\ shown' = [shown EXCEPT ![r] = at[r]]
  /\ RetryOr(r, GiveUp)
  /\ UNCHANGED refused

Next ==
  \E r \in Reply :
    Accepted(r) \/ BadRequest(r) \/ Forbidden(r) \/ NotTaken(r) \/ AnswerLost(r)

Spec == Init /\ [][Next]_vars

---------------------------------------------------------------------------
TypeOK ==
  /\ \A r \in Reply : at[r] \in Chunk /\ attempt[r] \in 0..MaxRetries
                      /\ shown[r] \in 0..at[r] /\ mode[r] \in {"markdown", "plain", "ok", "error"}
  /\ faults \in 0..MaxFaults

(* The chat never shows a part of a reply after a gap: behind what it      *)
(* shows of a reply comes the same chunk again or the next one, and a      *)
(* reply reported as sent was shown to its end.                            *)
NoGaps ==
  [][\A r \in Reply : /\ shown'[r] \in {shown[r], shown[r] + 1}
                      /\ mode'[r] = "ok" => shown'[r] = Chunks]_vars
=============================================================================
