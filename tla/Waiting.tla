------------------------------ MODULE Waiting ------------------------------
(* The components whose operations wait: for an answer of another process, *)
(* a permit, a lock.  They share no state, so only one of them, "part",    *)
(* moves in a behaviour, and the others stay as they start.                *)
EXTENDS Naturals, Sequences

CONSTANTS
  Caller, McpQueueCap, McpMaxOps, McpMaxTroubles,            \* of McpClient
  KindOf, QueueCap, MaxCrashes,                              \* of TelegramChannel
  MaxDepth, MaxRounds, Permits, Width,                       \* of RecursiveCalls
  BrowserCall, AttachOnly, MaxCalls, MaxPages, MaxTroubles   \* of BrowserTabs

VARIABLES part,
  guard, client, local, caller, crossed, ops, mcpTroubles,
  mode, arrived, conf, poller, offset, batch, queue, got, hurt, again, crashes,
  phase, round, outcome,
  chrome, tabs, opened, inst, lock, op, begun, troubles, orphans, givenUp, beside

Mcp == INSTANCE McpClient WITH
  QueueCap <- McpQueueCap, MaxOps <- McpMaxOps, MaxTroubles <- McpMaxTroubles,
  troubles <- mcpTroubles
Telegram == INSTANCE TelegramChannel
Rlm == INSTANCE RecursiveCalls
Browser == INSTANCE BrowserTabs WITH Call <- BrowserCall

ASSUME WaitingAssumption ==
  /\ Mcp!McpAssumption /\ Telegram!ChannelAssumption
  /\ Rlm!RecursionAssumption /\ Browser!TabsAssumption

mcpVars == <<guard, client, local, caller, crossed, ops, mcpTroubles>>
telegramVars ==
  <<mode, arrived, conf, poller, offset, batch, queue, got, hurt, again, crashes>>
rlmVars == <<phase, round, outcome>>
browserVars ==
  <<chrome, tabs, opened, inst, lock, op, begun, troubles, orphans, givenUp, beside>>
vars == <<part, mcpVars, telegramVars, rlmVars, browserVars>>

Init ==
  /\ part \in {"mcp", "telegram", "rlm", "browser"}
  /\ part # "telegram" => mode = "polling"
  /\ Mcp!Init /\ Telegram!Init /\ Rlm!Init /\ Browser!Init

McpOnly == part = "mcp" /\ UNCHANGED <<part, telegramVars, rlmVars, browserVars>>
TelegramOnly == part = "telegram" /\ UNCHANGED <<part, mcpVars, rlmVars, browserVars>>
RlmOnly == part = "rlm" /\ UNCHANGED <<part, mcpVars, telegramVars, browserVars>>
BrowserOnly == part = "browser" /\ UNCHANGED <<part, mcpVars, telegramVars, rlmVars>>

Next ==
  \/ McpOnly /\ Mcp!Next
  \/ TelegramOnly /\ Telegram!Next
  \/ RlmOnly /\ Rlm!Next
  \/ BrowserOnly /\ Browser!Next

(* The fairness of each component, see its module.                         *)
Fairness ==
  /\ \A o \in Caller : WF_vars(McpOnly /\ Mcp!OwnStep(o))
  /\ \A which \in Mcp!Slot : /\ WF_vars(McpOnly /\ Mcp!Write(which))
                             /\ WF_vars(McpOnly /\ Mcp!WriteFails(which))
  /\ SF_vars(TelegramOnly /\ Telegram!Poll)
  /\ WF_vars(TelegramOnly /\ Telegram!BackOff)
  /\ SF_vars(TelegramOnly /\ Telegram!HandleNext)
  /\ WF_vars(TelegramOnly /\ Telegram!Replied)
  /\ WF_vars(TelegramOnly /\ Telegram!Receive)
  /\ \A u \in Telegram!Update : SF_vars(TelegramOnly /\ Telegram!WebhookPost(u, TRUE))
  /\ \A c \in Rlm!Call : WF_vars(RlmOnly /\ Rlm!Step(c))
  /\ \A c \in BrowserCall : WF_vars(BrowserOnly /\ Browser!Step(c))

Spec == Init /\ [][Next]_vars /\ Fairness
---------------------------------------------------------------------------
(* No request to the MCP server is given the answer of another one.        *)
OwnAnswer == Mcp!OwnAnswer

(* Every operation of the MCP client ends, unless its line never fits into *)
(* the full queue of a server that hangs.                                  *)
OperationsEnd == Mcp!OperationsEnd

(* A text that Telegram will not deliver again is with the agent loop or   *)
(* on its way there, or was taken by a stop of the process.                *)
ForgottenIsSafe == Telegram!ForgottenIsSafe

(* A text is handed over twice only after a stop before its confirmation.  *)
RepeatsExplained == Telegram!RepeatsExplained

(* Every text that arrives reaches the agent loop, unless a stop took it.  *)
TextsArrive == Telegram!TextsArrive

(* A recursive execution ends although its calls share the permits.        *)
ExecutionEnds == (part = "rlm") => Rlm!ExecutionEnds

(* A browser is launched beside another at most once for each launch that  *)
(* was given up.                                                           *)
ExtraLaunchesGivenUp == Browser!ExtraLaunchesGivenUp

(* No call of the browser tool waits for ever, but for a browser that      *)
(* hangs.                                                                  *)
CallsEnd == Browser!CallsEnd
=============================================================================
