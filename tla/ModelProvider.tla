---------------------------- MODULE ModelProvider ----------------------------
(***************************************************************************)
(* The two model providers (anthropic.rs, ollama.rs): one call of the      *)
(* model, with the whole answer at once (chat) or as a stream              *)
(* (chat_stream).                                                          *)
(*                                                                         *)
(* What the model says is a sequence of blocks.  On the wire each event of *)
(* the stream has two halves; the reading side gets any number of halves   *)
(* in a chunk, and handles an event when its line has ended.  A chunk that *)
(* ends inside a character is decoded as it is (from_utf8_lossy): the      *)
(* character is lost, in a text and in the arguments of a call alike.      *)
(***************************************************************************)
EXTENDS Naturals, Sequences, SequencesExt, FiniteSets

CONSTANTS
  MaxBlocks,   \* bound: blocks of an answer
  MaxRetries   \* MAX_RETRIES

ProviderAssumption == {MaxBlocks, MaxRetries} \subseteq Nat

Block == {"text", "call"}
Reason == {"end_turn", "max_tokens", "tool_use"}

(* An answer that the token limit ends may leave its last call half said.  *)
Said ==
  {[blocks |-> b, reason |-> r] :
     b \in UNION {[1..n -> Block] : n \in 1..MaxBlocks}, r \in {"end_turn", "tool_use"}}
  \cup {[blocks |-> b, reason |-> "max_tokens"] :
     b \in UNION {[1..n -> Block \cup {"half"}] : n \in 1..MaxBlocks}}

SaidInOrder ==
  {m \in Said : \A i \in DOMAIN m.blocks : m.blocks[i] = "half" => i = Len(m.blocks)}

VARIABLES
  provider,   \* "anthropic" or "ollama"
  conv,       \* the messages of the request, until it is built
  system,     \* the system prompt of the request
  phase,      \* "start", "chat", "stream", "ok" or "error"
  attempt,
  said,       \* what the model says
  wire,       \* the block whose events come next, and which of them is the next
  half,       \* the first half of the next event has been read
  inputs,     \* tool_input_bufs: what has come of the arguments of each open call
  text, calls, stop,   \* of the answer so far; each piece with the block it is from
  garbled,    \* history: blocks inside a character of which a chunk ended
  cutShort    \* history: the server reports an error instead of the rest

answerVars == <<inputs, text, calls, stop, garbled>>
requestVars == <<provider, conv, system, said>>
vars == <<requestVars, phase, attempt, wire, half, answerVars, cutShort>>

(* A conversation: a system prompt, then what was said and done, and among *)
(* it the warning of the agent loop near its limit, a System message too.  *)
Conversation ==
  {<<"prompt">> \o s : s \in UNION {[1..n -> {"warning", "user", "call", "result"}] : n \in 0..2}}

Init ==
  /\ provider \in {"anthropic", "ollama"}
  /\ conv \in Conversation
  /\ system = <<>> /\ phase = "start" /\ attempt = 0
  /\ said = [blocks |-> <<>>, reason |-> "end_turn"]
  /\ wire = [block |-> 1, piece |-> 1] /\ half = FALSE
  /\ inputs = <<>> /\ text = <<>> /\ calls = <<>> /\ stop = "end_turn"
  /\ garbled = {} /\ cutShort = FALSE

---------------------------------------------------------------------------
(* build_messages.                                                         *)

IsSystem(m) == m \in {"prompt", "warning"}
NotSystem(m) == ~IsSystem(m)

(* Anthropic takes one system prompt: the last is kept.  Ollama is sent    *)
(* all messages as they are.                                               *)
SystemPrompt ==
  IF provider = "anthropic" THEN <<Last(SelectSeq(conv, IsSystem))>> ELSE <<>>
ApiMessages == IF provider = "anthropic" THEN SelectSeq(conv, NotSystem) ELSE conv

Begin(m, streaming) ==
  /\ phase = "start" /\ Len(ApiMessages) > 0
  /\ said' = m
  /\ conv' = <<>> /\ system' = SystemPrompt
  /\ phase' = IF streaming THEN "stream" ELSE "chat"
  /\ UNCHANGED <<provider, attempt, wire, half, answerVars, cutShort>>

(* A conversation with a system prompt only, as a scheduled run begins     *)
(* with (JobScheduler), is refused.                                        *)
NothingToSay ==
  /\ phase = "start" /\ Len(ApiMessages) = 0
  /\ phase' = "error"
  /\ UNCHANGED <<requestVars, attempt, wire, half, answerVars, cutShort>>

---------------------------------------------------------------------------
(* parse_response.                                                         *)

TextPlaces(m) == {i \in DOMAIN m.blocks : m.blocks[i] = "text"}
CallPlaces(m) == {i \in DOMAIN m.blocks : m.blocks[i] \in {"call", "half"}}

(* The Anthropic answer to chat holds a half call with what the API makes  *)
(* of it; over the stream, arguments that do not parse become none.        *)
Arguments(b) == IF b = "call" THEN "full" ELSE "none"

(* The one way to go through the places in order.                          *)
Orders(places) ==
  {o \in [1..Cardinality(places) -> places] :
     {o[k] : k \in DOMAIN o} = places /\ \A k, l \in DOMAIN o : k < l => o[k] < o[l]}

(* Ollama's answer with calls leaves out the text beside them.             *)
Kept(places) == IF provider = "ollama" /\ CallPlaces(said) # {} THEN {} ELSE places

StopOf(m) ==
  IF provider = "anthropic" THEN m.reason
  ELSE IF CallPlaces(m) # {} THEN "tool_use"
  ELSE IF m.reason = "max_tokens" THEN "max_tokens" ELSE "end_turn"

(* chat: a success ends the attempts; an answer that does not parse is an  *)
(* error at once.                                                          *)
Parsed(t, c) ==
  /\ text' = [k \in DOMAIN t |-> [block |-> t[k], what |-> "full"]]
  /\ calls' = [k \in DOMAIN c |-> [block |-> c[k], arguments |-> Arguments(said.blocks[c[k]])]]
  /\ stop' = StopOf(said)

ChatAnswer ==
  /\ phase = "chat"
  /\ \/ /\ phase' = "ok"
        /\ \E t \in Orders(Kept(TextPlaces(said))), c \in Orders(CallPlaces(said)) : Parsed(t, c)
     \/ phase' = "error" /\ UNCHANGED <<text, calls, stop>>
  /\ UNCHANGED <<requestVars, attempt, wire, half, inputs, garbled, cutShort>>

(* 429, 500, 502, 503, 529 or no connection; other statuses end it.        *)
ChatFails(retryable) ==
  /\ phase = "chat"
  /\ IF retryable /\ attempt < MaxRetries
     THEN attempt' = attempt + 1 /\ UNCHANGED phase
     ELSE phase' = "error" /\ UNCHANGED attempt
  /\ UNCHANGED <<requestVars, wire, half, answerVars, cutShort>>

---------------------------------------------------------------------------
(* chat_stream: one attempt.  A block comes as one event or several, and   *)
(* the reason to stop after the last block.  Ollama sends a call in one    *)
(* piece, and reports the reason only if it is the token limit.            *)
Events(i) ==
  CASE i \notin DOMAIN said.blocks -> <<"end">>
    [] i \in TextPlaces(said) -> <<"text">>
    [] i \in CallPlaces(said) ->
         IF provider = "ollama" THEN <<"call">>
         ELSE IF said.blocks[i] = "call" THEN <<"start", "left", "right", "stop">>
         ELSE <<"start", "left", "stop">>

Event == Events(wire.block)[wire.piece]
Exhausted == cutShort \/ wire.block > Len(said.blocks) + 1

Advance ==
  wire' = IF wire.piece < Len(Events(wire.block)) THEN [wire EXCEPT !.piece = @ + 1]
          ELSE [block |-> wire.block + 1, piece |-> 1]

(* cut says that a chunk ended between the halves of the event, inside a   *)
(* character: what is decoded of the event is garbled, and parses.         *)
Decoded(what, cut) == IF cut /\ what = "full" THEN "garbled" ELSE what
Lost(i, cut) == garbled' = IF cut THEN garbled \cup {i} ELSE garbled

AddText(i, cut) ==
  /\ text' = Append(text, [block |-> i, what |-> Decoded("full", cut)])
  /\ Lost(i, cut)
  /\ UNCHANGED <<inputs, calls, stop>>

AddCall(i, arguments) ==
  /\ calls' = Append(calls, [block |-> i, arguments |-> arguments])
  /\ UNCHANGED <<text, stop>>

Opened(i) ==
  [j \in DOMAIN inputs \cup {i} |->
     IF j = i THEN [pieces |-> <<>>, what |-> "full"] ELSE inputs[j]]
Closed(i) == [j \in DOMAIN inputs \ {i} |-> inputs[j]]

(* The arguments are parsed when the last piece is there, or are none.     *)
Gathered(input) ==
  IF input.pieces = <<"left", "right">> THEN input.what ELSE "none"

AnthropicEvent(i, cut) ==
  \/ Event = "start" /\ inputs' = Opened(i) /\ UNCHANGED <<text, calls, stop, garbled>>
  \/ Event = "text" /\ AddText(i, cut)
  \/ /\ Event \in {"left", "right"} /\ i \in DOMAIN inputs
     /\ inputs' = [inputs EXCEPT ![i].pieces = Append(@, Event), ![i].what = Decoded(@, cut)]
     /\ Lost(i, cut)
     /\ UNCHANGED <<text, calls, stop>>
  \/ /\ Event = "stop" /\ i \in DOMAIN inputs
     /\ inputs' = Closed(i)
     /\ AddCall(i, Gathered(inputs[i])) /\ UNCHANGED garbled
  \/ Event = "end" /\ stop' = said.reason /\ UNCHANGED <<inputs, text, calls, garbled>>

OllamaLine(i, cut) ==
  \/ Event = "text" /\ AddText(i, cut)
  \/ /\ Event = "call"
     /\ AddCall(i, Decoded(Arguments(said.blocks[i]), cut)) /\ Lost(i, cut)
     /\ UNCHANGED inputs
  \/ /\ Event = "end"
     /\ stop' = IF said.reason = "max_tokens" THEN "max_tokens" ELSE "end_turn"
     /\ UNCHANGED <<inputs, text, calls, garbled>>

ReadFirstHalf ==
  /\ phase = "stream" /\ ~Exhausted /\ ~half
  /\ half' = TRUE
  /\ UNCHANGED <<requestVars, phase, attempt, wire, answerVars, cutShort>>

ReadSecondHalf(cut) ==
  /\ phase = "stream" /\ half
  /\ IF provider = "anthropic" THEN AnthropicEvent(wire.block, cut) ELSE OllamaLine(wire.block, cut)
  /\ Advance /\ half' = FALSE
  /\ UNCHANGED <<requestVars, phase, attempt, cutShort>>

(* The Anthropic API reports an error instead of the rest: its event has   *)
(* no case, and the stream ends.                                           *)
CutShort ==
  /\ phase = "stream" /\ provider = "anthropic" /\ ~Exhausted /\ ~half
  /\ cutShort' = TRUE
  /\ UNCHANGED <<requestVars, phase, attempt, wire, half, answerVars>>

(* Ollama has no reason of its own for tool calls.  Mutant: they are       *)
(* reported as a normal end.                                               *)
ReasonGiven == stop
StopRead == IF provider = "ollama" /\ Len(calls) > 0 THEN "tool_use" ELSE stop

(* The stream ends: what was read is the answer.                           *)
StreamEnds ==
  /\ phase = "stream" /\ Exhausted
  /\ phase' = "ok"
  /\ text' = IF provider = "ollama" /\ Len(calls) > 0 THEN <<>> ELSE text
  /\ stop' = StopRead
  /\ UNCHANGED <<requestVars, attempt, wire, half, inputs, calls, garbled, cutShort>>

(* The request or a read fails, or a line of Ollama does not parse.        *)
StreamFails ==
  /\ phase = "stream"
  /\ phase' = "error"
  /\ UNCHANGED <<requestVars, attempt, wire, half, answerVars, cutShort>>

Next ==
  \/ NothingToSay \/ ChatAnswer \/ ReadFirstHalf \/ CutShort \/ StreamEnds \/ StreamFails
  \/ \E m \in SaidInOrder, streaming \in BOOLEAN : Begin(m, streaming)
  \/ \E retryable \in BOOLEAN : ChatFails(retryable)
  \/ \E cut \in BOOLEAN : ReadSecondHalf(cut)

Spec == Init /\ [][Next]_vars

---------------------------------------------------------------------------
TypeOK ==
  /\ phase \in {"start", "chat", "stream", "ok", "error"}
  /\ attempt \in 0..MaxRetries /\ stop \in Reason
  /\ half \in BOOLEAN /\ garbled \subseteq 1..MaxBlocks

(* The pieces of a list come from these blocks, in their order.            *)
Lists(list, places) ==
  /\ {list[k].block : k \in DOMAIN list} = places
  /\ \A k, l \in DOMAIN list : k < l => list[k].block < list[l].block

(* Read as it was said, or with a character lost where a chunk ended.      *)
Legible(i, read, whole) ==
  read = whole \/ (read = "garbled" /\ whole = "full" /\ i \in garbled)

(* The answer is the one of chat to the first n blocks.                    *)
Answers(n) ==
  /\ Lists(text, {i \in Kept(TextPlaces(said)) : i <= n})
  /\ \A k \in DOMAIN text : Legible(text[k].block, text[k].what, "full")
  /\ Lists(calls, {i \in CallPlaces(said) : i <= n})
  /\ \A k \in DOMAIN calls :
       Legible(calls[k].block, calls[k].arguments, Arguments(said.blocks[calls[k].block]))

(* Read as a stream, an answer is the one chat would have given, but for   *)
(* the characters that a chunk cut: the same calls and texts in their      *)
(* order, each with what was said in its own block, and the same reason to *)
(* stop.  A block, be it a text or the arguments of a call, differs only   *)
(* if a chunk ended inside one of its own characters; arguments that broke *)
(* off are none, never a part.  An error reported in the middle of the     *)
(* stream leaves its beginning, and never a call that was not made.        *)
StreamReadsAnswer ==
  phase = "ok" =>
    \E n \in 0..Len(said.blocks) :
      /\ Answers(n)
      /\ ~cutShort => n = Len(said.blocks) /\ stop = StopOf(said)
=============================================================================
