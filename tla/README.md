# A TLA+ model of rustycrab

rustycrab is a personal AI agent in Rust: one binary (`rustykrab-cli`) that
serves an HTTP gateway with a web page, listens to Telegram and Signal, runs
scheduled jobs, and answers every message by running a tool-using agent loop
against a model provider. Conversations, jobs, chat mappings, secrets and
memories are kept in SQLite. This directory holds TLA+ modules of its parts,
the TLC configurations that check them on small instances, and proofs of the
properties that matter most.

Paths below are relative to `src/crates/`.

## Inventory

### Components, their state and their operations

| component | state | operations | source |
|---|---|---|---|
| Telegram agent loop | `chat_states` (conversation and busy flag per chat and thread, behind a tokio mutex); one task per message | receive, test busy, reset, resolve the conversation, mark, load, run, save, clear, reply | `rustykrab-cli/src/main.rs:586-876` |
| Conversation store, chat map | tables `conversations`, `chat_map`; one connection behind a mutex, so each call is atomic | create, save (upsert), get, delete; lookup, upsert, remove | `rustykrab-store/src/conversation.rs`, `chat_map.rs` |
| Job scheduler | table `scheduled_jobs`; spawned runs with an ephemeral conversation each | create, delete, poll every 30 s, run, deliver, mark executed, clean up | `rustykrab-store/src/jobs.rs`, `rustykrab-cli/src/main.rs:885-1000` |
| Agent loop | messages of the conversation, iteration and error counters, tasks of the current batch of tool calls | ask the model, run tools in parallel under a semaphore with retries, append results, reflect, continue, sum up at the cap | `rustykrab-agent/src/runner.rs` |
| Gateway routes, web page | handler tasks with copies of conversations, bounded event channels; the page's `isSending` | send message (plain and streamed), delete, event handling | `rustykrab-gateway/src/routes.rs`, `static/index.html` |
| Rate limiter | attempts and lockout per client address | check | `rustykrab-gateway/src/rate_limit.rs` |
| Memory | rows with life-cycle stage and validity, chunks with embeddings, full-text index, links, access counts | retain, check for duplicates in the background, delete, recall, sweep, end a session | `rustykrab-memory` |
| MCP client | pending requests, write queue, writer and reader tasks, child process; the video channel's mutex around it | spawn and handshake, request, notify, shut down | `rustykrab-channels/src/mcp.rs` |
| Telegram channel | polling offset, inbound queue, error counter, allow list | poll or webhook, handle update, answer commands, cut and send a text with retries | `rustykrab-channels/src/telegram.rs` |
| Signal channel | inbound queue, groups | poll or webhook, handle envelope, send | `rustykrab-channels/src/signal.rs` |
| Video channel and tool | project cache in memory, directories, CLI processes | create, add element, set composition, lint, render, list | `rustykrab-channels/src/video.rs`, `rustykrab-tools/src/video.rs` |
| Recursive executor, voting | depth, rounds, shared semaphore; samples | execute, sub-query; vote (neither is called by the binary) | `rustykrab-agent/src/rlm`, `voting.rs` |
| Model providers | none between calls | build a request, read an answer, read a stream | `rustykrab-providers` |
| Secrets | encrypted rows, master key, operating system's credential store, environment, live token | resolve the key and a credential, set, delete, import, migrate, rotate | `rustykrab-store/src/secret.rs`, `keychain.rs`, `registry.rs` |
| Process tools | children by pid; a script file | start, list, stop; exec; run a script | `rustykrab-tools/src/process.rs`, `exec.rs`, `code_execution.rs` |
| Browser tool | instances by profile behind a mutex, snapshot refs | start, stop, tabs, open, close, focus, act on a page | `rustykrab-tools/src/browser` |
| File tools | none; the files | read, edit, write, apply a patch, create a skill | `rustykrab-tools/src/edit.rs` and others |
| Notion and Obsidian tools | none; pages and notes behind two HTTP APIs | create, append, change, delete, and copy to a note | `rustykrab-tools/src/notion.rs`, `obsidian.rs` |
| Router, harness profiles | cache of classifications | select a profile | `rustykrab-agent/src/router.rs`, `harness.rs` |
| Sandbox, capabilities, sessions | policy and capability sets | allow or deny a tool | `rustykrab-agent/src/sandbox.rs`, `rustykrab-core` |
| Skills, other tools | mostly none | file parsing, one call to a service | `rustykrab-skills`, `rustykrab-tools` |

### How they interact

    Telegram poll -> queue -> Telegram agent loop --+
    web page, API -> rate limiter -> gateway routes -+--> agent loop --> provider
    scheduler poll -> job run -----------------------+        |
                                                              +--> tools (cron, memory, MCP, ...)
    all of them --> SQLite store (each call atomic, nothing else is)

All three callers use the agent loop in the same way: they read a conversation
from the store, push a user message into their private copy (a scheduled run
does not), hand the copy to the loop for seconds or hours, and save the copy.
Nothing protects a conversation between the read and the save except the busy
flag of the Telegram loop and the sending flag of the page, and both are
tested and cleared with gaps. The loop is a future that two of its callers put
in a `select!` with a heartbeat monitor, so it may disappear at any await.

### What is hard

* Concurrency: read-run-save on one conversation by several tasks; flags tested
  in one critical section and set in another; a guard kept across a network
  send; overlapping runs of one job; parallel tool calls under permits.
* Failure: a storage call that fails (usually only logged), a process that
  stops (release builds abort on a panic) and starts with its in-memory state
  gone, a client that goes away, a run dropped in the middle of a batch.
* Ordering: the done event before the save; results of a batch in call order;
  marks of overlapping runs; pieces of a stream; batches of blocks.
* Time: sliding windows and lazy expiry; polls that come late; the limit of an
  attempt of a tool, after which the attempt is dropped and repeated while what
  it had started (a thread, a child process, a request) goes on.

`PROJECT.json` lists each hazard at its line, with the properties that cover it
or the reason why none does.

### What makes each component correct

* Telegram loop: a busy mark has a task that clears it; a stalled chat does not
  stop the others; a chat keeps one conversation; no conversation mixes chats;
  a saved turn stays unless runs overlapped.
* Scheduler: a job stays due until a result was sent for an instant nobody was
  working on, across crashes, unless its own send failed; schedules advance; due jobs are dealt with; ephemeral
  conversations are cleaned up.
* Agent loop: tool calls and results pair up; repeated failure leads to a
  reflection; every run ends.
* Gateway and page: what was answered is stored; the page can always send
  again, and its runs overlap only in the ways named.
* Rate limiter: no window holds more than the limit; pruning is invisible.
* Memory: what was deleted is not recalled; a restart indexes what a crash left
  half written; demotion ends at the tombstone and a saved fact survives
  (neither does).
* MCP client: each operation ends, a request with its own answer.
* Telegram and Signal channels: what was taken from the service is in the queue,
  with the agent loop, or lost to a stop; a reply has no gap; cuts are sound.
* Video, files, notes: what was reported is there, although attempts that were
  given up go on; what vanished overlapped with something.
* Recursive executor: an execution ends. Voting: every text counts.
* Providers: a stream gives the answer that was sent, or an error.
* Secrets: a row stays readable unless its key was lost in a way that is named.
* Process tools: `stop` kills its own process. Browser: an executable is started
  beside a browser only after a launch that was given up, and the manager's lock
  stops no call.

## Modules

| module | what it is |
|---|---|
| `TelegramLoop` | the loop's tasks, `chat_states`, chat map, conversation table |
| `MCTelegramLoop` | its instances and the two liveness properties with their fairness |
| `TelegramLoop_proofs` | its inductive invariant and theorems |
| `SlidingWindow` | what the rate limiter promises, without records |
| `RateLimiter` | the limiter, and the refinement mapping to `SlidingWindow` |
| `RateLimiter_proofs` | its theorems; its instance is one of `MCKeeping` |
| `JobScheduler`, `MCJobScheduler`, `JobScheduler_proofs` | the job table, executor and runs; instance; theorems |
| `AgentRunner`, `AgentRunner_proofs` | the agent loop on one conversation, run after run; theorems |
| `WebChat`, `WebChat_proofs` | one conversation seen through the page, the API and the streaming handler; theorems |
| `MemoryStore`, `MCMemoryStore`, `MemoryStore_proofs` | the tables of the memory and every task that works on them; instance; theorems |
| `McpClient` | the MCP client, its server and the callers of the video channel |
| `TelegramChannel` | updates from the Bot API to the agent loop's queue |
| `TextSplit`, `TelegramSend` | cutting texts; sending the pieces |
| `SignalChannel` | messages from signal-cli to the queue |
| `VideoProjects` | video projects, their directories and CLI processes |
| `RecursiveCalls` | the tree of recursive calls under shared permits |
| `Voting` | a vote over samples |
| `ModelProvider` | a request and its answer, whole and as a stream, of both providers |
| `Secrets` | master key and credentials over environment, store and rows |
| `BrowserTabs` | one browser profile and the calls that share it |
| `Subprocesses` | the tools that start programs |
| `FileTools` | the tools that change files, and the threads they leave behind |
| `NoteSync` | Notion pages and the Obsidian notes copied from them |
| `Waiting`, `MCWaiting`, `Waiting_proofs` | the four components whose callers wait for each other; instance; theorems |
| `Keeping`, `MCKeeping`, `Keeping_proofs` | eleven components that must keep something right; instance; theorems |

`Waiting` and `Keeping` compose components that share no state, by
`INSTANCE ... WITH`. A variable `part` chooses one of them in the initial
state; the others stay as they were. So their state spaces add up and do not
multiply, one run checks the invariants and liveness of all the parts, and one
module proves them: a step of the composition is a step of each component or
leaves it alone (`PartSteps`). The conditions on constants are named
definitions of the components (`McpAssumption`, `FileAssumption`, ...);
`Waiting` and `Keeping` assume their conjunction, so TLC evaluates it, and a
proof takes the one of its component. The theorems about the rate limiter,
whose module stands alone, have theirs as a hypothesis.

The definitions called mutants in the modules are not part of the
specifications. Each is the changed form of a definition, of a kind a mistake
in the code could produce, that shows that a property is able to fail.

### TelegramLoop

One process per inbound message. A task's program counter stops where the code
awaits, unlocks or leaves one critical section for the next: `CheckBusy`
(`main.rs:631-649`), `DropEntry`/`DropMap` for a message with the reset flag,
one of four `Resolve...` (666-741: in memory, from the chat map, by creating,
failed) and, after a creation, `PersistMapping` (708: a stop in between leaves a
conversation that no chat refers to), `MarkBusy` (743-749), `Load` or `LoadFails`, `FinishRun` (the run, the
stall and the save), `ClearBusy` (762-768), `SendReply`. `lock` is the holder of
the mutex while it is kept across a send; steps within one critical section are
one action. A conversation's content is the set of user messages in it. Channel
messages are always text (`telegram.rs:426`), so the branch for other content
is left out. Faults are counted against `MaxFaults`; each failing store call is
handled as the code does, usually by going on.

Two history variables: `saved` (tasks whose save succeeded) and `overlapped`
(conversations of which two tasks held copies at once).

### RateLimiter and SlidingWindow

`check()` runs under one mutex and reads the clock inside, so a call is one
step: `CheckLocked`, `CheckOverLimit` or `CheckAllowed`. The vector of attempts
is a set of numbered instants; the code uses its length, its last element and
the elements after a cutoff. `Prunable` gives every set of records that one
pruning may drop, since the order of a HashMap decides. `SlidingWindow` knows
only grants and bans; `Promise` maps a lockout that has expired, and is still
in the record, to no ban.

### JobScheduler

Time counts poll periods; a schedule is its set of instants, a one-shot job has
one. Runs of one job cannot be told apart (a run re-reads its job when it ends),
so a job has a number of runs in each stage. `Poll` spawns every due job,
`MarkExecuted` re-reads the row. The interval of tokio fires missed ticks in a
burst, so `polls` may be behind `clock` by `MaxLag` and catches up. `Deliver`
sends the result, or does not: a failed send is only logged (`main.rs:965-967`,
975-977), a channel that is not there is passed over, and the job is marked
executed all the same. Two histories: `owed`, that an instant passed while no
run of the job was alive (`Missed`) and no result was sent since, and `unsent`,
that a run has ended since that instant whose own send failed. A cron job whose
expression has no further instant is put `Fallback` later, as in the code.

### AgentRunner

`messages` is the conversation by message kinds. `Iterate` is the head of the
loop with the soft warning and the cap; `ModelEnds`, `ModelFails`,
`ModelNudged` and `ModelCalls` are the outcomes of one request; a batch of
calls is a sequence of tasks with their stage and attempt, moved by
`TaskSteps`; `Join` awaits the handles in order and `FinishBatch` appends the
results. `Drop` is the caller dropping the future: the conversation stays as it
is, the tasks of a batch of several calls go on in `detached`, a single call,
which is awaited in place, stops. Permission checks are outcomes of an attempt.
`run` and `run_streaming` have the same control and differ by their events.

### WebChat

One conversation. A handler loads (`Load`), runs, saves and answers; the
streaming handler offers events to a bounded channel with `try_send` (`Offer`)
and its last payload with a waiting `send` (`Answer`); `send_message` is the
same without events, saves only after success and is dropped with its client.
The page (`Receive`, `SendFromPage`) handles one event at a time. `EndStream`
offers the loop's done event before the save, as the code does, and possibly an
error event after it. `SendFromPage` is one step: in a conversation that is
selected the page awaits nothing between its test of the flag and its request
(the one await, `index.html:1225-1237`, creates a conversation, and so concerns
another).

### MemoryStore

`mem`, the chunks, the keyword index and the links are the tables. A storage
call is one statement or transaction, and an action is the piece of an
operation up to the next call: a save is `SaveStart` (hash lookup), `SaveTouch`
or `SaveInsert`, `SaveChunks`, `SaveIndex`, then its spawned check
`CheckCompare`, `CheckMerge`; a recall is `RecallSearch`, `RecallFetch`,
`RecallTouch`; a sweep lists and updates stage by stage (`SweepList`,
`SweepApply`) at the one instant it read when it began. A merge is two calls
(`CheckMerge`, `CheckTouch`). `Shutdown` ends the session, `Stop` and a crash may come between
any two steps, `Restart` rebuilds the index. Which texts are duplicates or
related, and what a text scores, are constants. The run notes what a recall
returned that had been deleted before it began.

### McpClient, TelegramChannel, RecursiveCalls, BrowserTabs (`Waiting`)

`McpClient`: a caller takes the mutex of the video channel (`Begin`), spawns
the server with its handshake or uses the one there, and for each request
`Insert`s its entry, `Send`s the line and waits for `Answer`, `Timeout` or
`Drop`. The server answers, hangs or exits (`Trouble`). A write queue that is
full makes the sender wait without a limit, which `OperationsEnd` names.

`TelegramChannel`: the Bot API keeps an update until a later offset or a 200
confirms it; `Poll`, `HandleNext`, `Enqueue`, or `WebhookPost`. `Crash` loses
what was in hand or in the queue and notes it in `hurt` and `again`.

`RecursiveCalls`: a call is the path to it from the root. `Acquire` takes a
permit for the model call only; `Delegate` starts sub-queries, `Collect` joins
them; `PipelineTimeout` drops all. The tool for sub-queries is only offered
where a deeper level may ask again (`depth + 1 < MaxDepth`), so the plain call
at the last level (`direct`) is reached when `MaxDepth` is 0 only, and not in
the run.

`BrowserTabs`: every operation of the manager takes one lock and keeps it across
its awaits. `Connect`, `Launched` and `Reconnect` are `connect_or_launch`; the
launch is made by a blocking thread, which a dropped call leaves behind
(`orphans`, `OrphanLaunches`), so that it may start its executable at any later
time, `beside` a browser of the same profile. A
snapshot ends with an error of its script, and so `act` finds no ref: the
script (`snapshot.rs:114-250`) is a function already called, to which the caller
appends `.apply`.

### The components of `Keeping`

`VideoProjects`: directories, the tool's cache, one CLI process per attempt that
goes on when the attempt is dropped. `TextSplit` turns the two loops that cut
texts into steps over characters of one or two bytes; `TelegramSend` sends the
pieces of two replies with retries and the plain-text fallback. `SignalChannel`
hands envelopes to a queue whose receiver nobody takes. `Voting` has the samples,
their order of joining, and the words two texts share. `ModelProvider` builds
the request of either provider and reads the answer whole or in pieces that cut
an event or a character in two; the pieces are decoded one by one, so a cut
character is garbled in a text and in the arguments of a call alike. `Secrets`
has two processes, the server and the command line, a credential store that may
be away, and rows that remember their key. `credential_write` and `keychain set`
take any entry of the credential store, so they may write the master key's own
(`ToolWritesKey`, `CliSetKey`), with a key or with a text that is none
(`Garbage`); `keychain migrate` resolves the key a second time. `Subprocesses` has pids the system gives again once the process before was
reaped. `FileTools` has the operations on blocking threads, which outlive their
attempt; a file is the original with the number of times it has each call's
change, and is cut to nothing before it is filled. An edit (`Edits`) says how
often its old string is in the original and how often in the edited text: the
code counts the old string and no more (`edit.rs:93-101`), so an edit whose new
string contains the old one once is applied again by a retry. `RateLimiter` is
described above. `NoteSync` has pages, notes
and requests that are taken or not, heard or not.

## Runs

Every run finishes within three and a half minutes with two workers.

| run | question | bounds |
|---|---|---|
| `telegram_burst` | busy flag, lost turns, one conversation per chat, isolation | two messages of one chat, one of another; three conversation ids; one fault, one restart, one deletion; conversations symmetric |
| `telegram_slow` | do other chats get through, is the flag cleared | one message of each of two chats and one with the reset flag; one fault |
| `telegram_serial` | the comment's "messages are serialized" | the first instance without faults: **violated** |
| `scheduler` | at least once, schedules advance, rows cleaned up, due jobs dealt with | a one-shot job at 3 and a cron job at 1 and 2 with a fallback of 1, time 3, two runs of a job alive, one fault, one restart |
| `agent_runner` | calls and results, reflection, termination | cap 3, warning at 2, reflection after 2, one retry, one permit, two calls, two runs, 9 messages |
| `agent_dropped` | "receive all results before continuing" | the same: **violated** by a drop and a second run |
| `web_chat` | what was answered is stored, page unblocks | three messages from the page, one from the API, channel of one, two handlers, one failing save, broken connection or deletion |
| `memory` | deleted is not recalled, a restart indexes | two texts, two rows, one saver, a deletion, a restart, one unit of time |
| `memory_demotion` | "archival → tombstone (idle > 180 days, low importance)" | the same: **violated** |
| `memory_lost` | does a saved fact survive | two savers: **violated** |
| `waiting` | answers reach their request, what was begun ends | MCP: two callers, three operations, queue of one, two troubles; Telegram: text, command, text, queue of one, one crash; recursion: depth 2, two rounds, width 3, one permit; browser: two calls, two pages, one trouble |
| `keeping` | what was reported, handed over or stored is kept | video: three calls, one retry, one restart; texts of five characters cut at three bytes, overlap 1; two replies of two chunks, one retry, three faults; Signal: three messages, queue of one, a crash; three samples, two permits, two words; answers of two blocks; two keys, three values, two starts, one fault; two processes on two pids; two file calls on two files, one retry, one fault, an edit that replaces every occurrence, one whose new string has the old one once and one twice; two note calls on two titles, two batches, one retry, two faults; rate limiter: two clients, limit 2, window 2, lockout 5, time 7, five calls, pruning above one record |

Why the bounds are enough to be interesting: two tasks of one chat are what a
race on its flag needs and the message of a second chat what isolation and
blocking need; one fault, restart or deletion may hit every step; a window of
two instants with a limit of two has an edge, an overlap and a lockout that
ends within the time; a run of a job can outlast two polls; a batch of two
calls under one permit makes a call wait, and two failing batches reach the
reflection; a channel of one is full at once; three messages let the end of one
run meet the next and the one after. Two rows are what a merge needs, and two
savers a race of merges. One permit and three sub-queries make a call that kept
it stop all; five characters cut at three bytes end in a word, a blank and the
middle of a character; a queue of one is full at the second message; two calls
with one retry have up to four attempts in flight, of which a dropped one may
write last; a patch of two files can fail between them. Counters are bounded in
guards only (every constant named `Max...`, and `Retries`). A model stops when
they are used up, so deadlock is not checked; that every process gets to its
end is what the liveness properties say.

Each module states its type invariant `TypeOK`. Those of the six components
with a proof module of their own are theorems; the runs check the properties
instead.

### What the violated runs show

* `telegram_serial`: two messages of one chat both test the flag before either
  sets it (`main.rs:634`, `747`); both run the agent on copies of one
  conversation. `LostTurnsOverlap` shows that this is the only way to lose a
  saved turn.
* `agent_dropped`: the heartbeat monitor drops a run whose tools have been
  quiet for five minutes (`routes.rs:250-256`), although a network tool may
  take that long per attempt; the conversation is saved with calls and without
  results.
* `memory_demotion`: the last stage of the sweep asks for an importance strictly
  below 0.3 (`lifecycle.rs:132`), and `compute_importance` starts at 0.3 and only
  adds (`scoring.rs:19-45`): no memory ever becomes a tombstone by demotion, as
  `lifecycle.rs:52`, `lib.rs:15-17` and `MEMORY_ARCHITECTURE.md` say it does. The
  theorem `SweepMakesNoTombstone` says the same of every instance.
* `memory_lost`: two saves of one text both miss the hash lookup
  (`writer.rs:85`), and the background check of each merges its row into the
  other's (`writer.rs:193`): both are invalid.

### What the models show beside their properties

Behaviour that follows from the code. Where a property names it as an
exception, that is what the exception means; no run is devoted to it, and
whether some text of the repository says otherwise has not been settled for
each of these:

* Scheduler: a due job stays due until it was delivered and marked
  (`main.rs:989`), so a one-shot job is started again by the next poll; the
  prompt of a scheduled run goes into a parameter that only selects a profile
  (`orchestrate.rs:19`, `82`) and never reaches the model.
* Scheduler: an instant whose result could not be sent is not tried again
  (`main.rs:961-989`).
* Page: the done event is sent before the save (`runner.rs:540`,
  `routes.rs:264`), so an early second message overwrites the turn.
* Telegram: an error text that contains "400", "parse" or "can't" counts as
  refused formatting; a text that starts with blanks can give an empty first
  chunk, which is refused, and the reply is never sent; replies of two tasks
  interleave.
* Signal: receiving is destructive, and the queue is full for good at its 257th
  text; if the webhook cannot be registered, neither it nor polling delivers.
* Video and MCP: the tool asks for no network, so its attempts end after 30 s,
  before the 300 s of the CLI and the 120 s of the MCP client; the CLI process
  and the pending entry of a dropped attempt stay. The server's stderr is piped
  and never read. Projects are cached in memory only.
* Providers: `event: error` within a stream is passed over; a character cut by
  two chunks is garbled, in the arguments of a tool call too; tool input that cannot be parsed becomes `{}`; Ollama
  drops the text beside calls; a conversation without a user message is
  refused by the Anthropic provider.
* Memory: a save that finds an archived or half-written row by its hash ends
  there, and that row stays without chunks or archived.
* Secrets: a failed read of the key counts as no key, and a new key replaces the
  kept one; two first starts race; a reboot empties the kernel's keyring;
  `credential_write` changes the row or the credential store and not both; with
  `keychain set` it may overwrite the master key, after which no row is readable.
* Processes: children of a dropped attempt go on; a start dropped between spawn
  and insert is not listed.
* Browser: a launch that was given up may start a second Chrome, or a page, beside
  the first; a browser that hangs holds everyone up until the limit of the call
  at it; a dead instance is used until `stop`; tab ids are positions in a list
  that changes; snapshots fail, so `act` always ends in an error.
* Files: an edit that keeps its old string is applied once per attempt whose
  write came through; `apply_hunks` compares no line and never fails; a `skill_create` that
  timed out after its directory was made blocks its own retry.
* Notion: markdown of more than 100 blocks is refused while arrays are sent in
  batches; entries of a database lose what is beyond 100 silently; the copy of
  an append is left out silently when the title cannot be read; pages of one
  title share a note, and a new page overwrites it.

### Fairness

* Telegram loop: strong fairness of each task's own step, since the tokio mutex
  is handed over in order; sends have time-outs and store calls return. A run
  ends only for the messages a property names, since the heartbeat bounds
  silence and not length.
* Scheduler: the interval ticks, the runtime polls spawned tasks, runs end.
* Agent loop: requests to the provider have a time-out, each attempt of a tool
  runs under one, sleeps end. Nothing obliges a caller to drop a run.
* Web chat: the runtime polls handlers, runs end, a connected page reads.
  Nothing is assumed of API clients.
* MCP client: the runtime polls a caller that can go on (its timer fires too)
  and the writer task. Nothing is assumed of the server.
* Telegram channel: polls succeed again and again (strong fairness, since errors
  come in between), the loop receives, the Bot API repeats a webhook post.
* Recursive calls: futures are polled and model calls return, under their
  time-out; the pipeline's time-out is not assumed.
* Browser: a call that can go on does. The sandbox's limit is not assumed to
  fire, and nothing is assumed of Chrome: `CallsEnd` excepts a browser that hangs.

## Proofs

`tlapm` checks eight modules of proofs. The theorems hold for every value of
the constants that satisfies the named assumption of the component. Each module
defines an inductive invariant, proves that it holds initially and that every
action keeps it, and draws its theorems from it.

| module | theorems | properties they state |
|---|---|---|
| `TelegramLoop_proofs` | `TypeCorrect`, `BusyIsOwned`, `TurnsKept`, `OneConversation`, `Isolation` | `TypeOK`, `BusyHasOwner`, `LostTurnsOverlap`, `OneConversationPerChat`, `ChatsIsolated` |
| `RateLimiter_proofs` | `TypeCorrect`, `RateIsBounded`, `Implementation` | `TypeOK`, `WindowBound`, `ImplementsPromise` of the limiter alone |
| `JobScheduler_proofs` | `TypeCorrect`, `AtLeastOnce`, `RowsOwned`, `NeverRearmedBackwards` | `TypeOK`, `ServedBeforeRearmed`, `RowsHaveRuns`, `NextRunAdvances` |
| `AgentRunner_proofs` | `TypeCorrect`, `CallsGetResults`, `ErrorsAreReflected` | `TypeOK`, `CallsAnswered`, `ErrorsReflected` |
| `WebChat_proofs` | `TypeCorrect`, `AnswersLast`, `OneRunOfThePage` | `TypeOK`, `AnsweredStored`, `PageSerializes` |
| `MemoryStore_proofs` | `TypeCorrect`, `DeletedStaysUnread`, `SweepMakesNoTombstone`, `IndexRecovers` | `TypeOK`, `DeletedNotRecalled`, `OldRowsIndexed`; `TombstonesAreDeletions`, stated beside the proofs only, is why `DemotionReachesTombstone` fails |
| `Waiting_proofs` | `AnswersMatch`, `NoTextForgotten`, `RepeatsOnlyDoubted`, `LaunchesCounted`, `NeverStuck`, `NothingRunsOn` | `OwnAnswer`, `ForgottenIsSafe`, `RepeatsExplained`, `ExtraLaunchesGivenUp`; `GoesOn` and `NothingLeft` are stated beside the proofs only |
| `Keeping_proofs` | `SignalLosesNone`, `StopHitsItsOwn`, `CreateAddsOne`, `ElementsStay`, `ChangesStay`, `RepliesWithoutGaps`, `SecretsStayReadable`, `CutsStaySound`, `ChunksKeepOverlap`, `VoteCountsEach`, `ReportedTextStays`, `StreamsReadAnswers`, `RatesBounded`, `LimiterIsWindow` | `HandedOverIsKept`, `StopsOwnProcess`, `OneProjectPerCreate`, `LostElementsOverlap`, `ReportedChangesKept`, `NoGaps`, `RowsKeptReadable`, `CutsAreSound`, `ChunksOverlap`, `VoteCountsAll`, `ReportedTextThere`, `StreamReadsAnswer`, `WindowBound`, `ImplementsPromise` |

None of these properties is inductive. What had to be added, and why:

* **Telegram loop**, from `TelegramAssumption`. What a task that has passed each
  stage holds (`Progress`); entries and conversation ids are among those
  created; an id has one chat as its owner, and content, copies included,
  belongs to the owner; two tasks that hold copies of one conversation have been
  recorded as overlapping; a copy misses no saved turn unless they have; the
  in-memory map and the chat map agree while nothing has failed.
* **Rate limiter**, each theorem from the hypothesis `RateAssumption`, which
  `KeepingAssumption` contains (`Window <= Lockout`, without which the
  bound is false, since the end of a lockout forgets the attempts). Every
  granted attempt is still in its record unless the window has passed it, so
  that dropping a stale record loses nothing the window can see, and a lockout
  outlasts every attempt granted before it by at least its own length, so that
  clearing the attempts at its end loses nothing either. `Implementation` maps
  every step of the limiter to a step of `SlidingWindow` or a stutter.
* **Job scheduler**, from `SchedulerAssumption` (finitely many jobs, finite
  schedules, one-shot jobs have one instant). `NextIsFirst`: a job waits for the
  first instant that is still to come, or for an earlier one; without it a poll
  might not see a job that is owed a delivery. `OwedIsUndelivered`: while a
  delivery is owed and no send of a run has failed since, no run is past its
  delivery and about to rearm the job.
  `RowsCovered`: there are at least as many rows as runs that have one, whatever
  failed. `NeverRearmedBackwards` needs that the next instant after a late clock
  is not before the one the row has, in whatever order runs of one job end.
* **Agent loop**, from `AgentAssumption`. The calls of the batch in progress are
  the last message, the results heard so far are its first ones in order, and
  the answers left without results (`Hole`) number at most the drops; a run that
  is not idle is not yet counted as dropped. For the reflection: the last user
  message is the one that began the run, later calls are all answered, and the
  batches since the last settled message (`Open`) number at most the counter.
  The step of `FinishBatch` needs lemmas on conversations that go on by messages
  of given kinds (`GoesOn`, `Kept`, `KeptCalls`, `SettledKept`).
* **Web chat**, from `WebChatAssumption`. `SavedEverywhere`: what was, *or will
  be*, called saved is in the row and in every copy that may still replace the
  row, where an event in the channel of a connected client counts as a promise
  (`Pending`). `OverlapsKnown`: holders of copies that run together are recorded.
  `FlagGuards`: until it was unblocked early, the page has one handler before
  its save, and the flag is set.
* **Memory**, from `MemoryAssumption` (the threshold for tombstones is not above
  the lowest importance the code computes, which `ImportanceBounded` proves to
  be 30, as the default threshold is). `RowsNumbered`: ids are given in order, so an insert never lands on
  another row; `HoldersTyped`: whatever a save, check, sweep or recall holds on
  to is a row; `DeadStaysDead`, `SweepSparesRows` and `SweepKeepsRetrievable`
  say what a stale list or a stale id may still do when it is used.
* **MCP client**, from `McpAssumption` (`"nobody"` is no caller). The holder of
  the video channel's mutex is the only one past it, lines have ids below the
  next one, the id about to be sent is on no line, and every line with the id
  that is awaited is the caller's own and for its method (`HolderSound`).
* **Telegram channel**, from `ChannelAssumption`. The rest of a poll's answer has
  no gaps above the offset (`BatchIsGapless`), and what the next poll will
  confirm is already as safe as what is confirmed (`PassedIsSafe`); what may
  come again was in doubt (`DoubtsKnown`).
* **Browser**, from `TabsAssumption` (`"free"` is no call). The calls past the
  lock are its holder (`LockHeld`), and accounts are kept of launches
  (`Balance`): those beside a browser, those still to come from threads left
  behind, the one in progress and the one that boots are no more than those
  given up and the one whose caller still waits for it.
* **Recursive calls**, from `RecursionAssumption` (at least one permit). Only a
  call whose tools run has calls below it (`WaitsBelow`), and the execution runs
  as long as its root does. Of the calls that are active, the deepest one waits
  for none below it, and whoever holds the permit it may wait for is asking the
  model, not waiting: so some call always has its next step (`NeverStuck`), for
  any depth, width and number of permits. This is the safety half of
  `ExecutionEnds`. In the other direction each active call has an active one
  above it, so that nothing is left when the root has ended (`NothingRunsOn`).
* **Signal channel**, from `SignalAssumption`: the Telegram argument without
  offsets. **Sending**, from `SendAssumption`: what is shown is the chunk before
  the current one, or the current one, whose answer was lost.
* **Processes**, from `ProcessAssumption`. `OneHandle`: each process that was
  started has its handle in the map or with one call, never both, so that
  nobody else reaps it and its pid is not given again.
* **Video projects**, from `VideoAssumption`. A directory belongs to the create
  that has reported it (`Handed`); an add that wrote its element and overlapped
  with nobody still has it in the composition.
* **File tools**, from `FileAssumption`. The writes that threads still hold for a
  file that is not disturbed are of one call and of one text, which is the
  file's with one more change or is about to fill it, and a file that is cut has
  such a write (`FileSound`); a text that is in the file, or is going to be, has
  at most as many changes of a call as the attempts of that call account for
  (`Limit`) and those its attempt has reported (`Wrote`). What a step does to
  one call is proved once per way of moving on (`FailedMoves`, `GotoMoves`,
  `AfterWriteMoves`). Whether an edit repeats its change (`Repeats`) decides
  between one change and one per attempt.
* **Secrets**, from `SecretAssumption`. A process about to generate a key is
  among those whose look failed or is out of date (`stale`), or there is no key
  in the credential store to replace.
* **Text cutting**, from `SplitAssumption`. The chunks begin one after the other
  and before the cursor; what lies before the cursor is in a chunk or a blank
  of a message, and from the cursor on the text goes on with something that is
  not blank, so that every further chunk has something in it. A chunk of the
  memory's cutter shares with the one before it as many whole characters as fit
  into the overlap and not one more (`SharesEnough`), wherever the break was. That a window has
  a first or a last break needs no induction over the text: a set of places that
  is not empty has a least element (`Least`, from the well-founded order of the
  numbers).
* **Voting**, from `VotingAssumption`. The samples joined have ended, and the
  responses are the texts of those among them that have one, counted by
  cardinalities of finite sets; two texts agree by the words they share.
* **Notes**, from `SyncAssumption`. Each try's blocks in a page are numbered one
  after the other up to the batch the call is at (`Counted`), or up to one that
  was written and whose answer was lost; a try that has not begun has none; a
  text leaves a note only into `replaced`. The blocks are spoken of by their
  places in the page, never by a subsequence.
* **Model providers**, from `ProviderAssumption`. Between two events the pieces
  read are those of the blocks before the one that comes, in order
  (`ReadBefore`), and its arguments those whose pieces have come (`PiecesRead`);
  what is garbled of either is in a block that a chunk ended in (`garbled`).
  The answer is compared with what was said by the places of its blocks.

`Waiting_proofs` and `Keeping_proofs` prove each component's step lemma under
its own next-state relation and combine them in `Invariance`. The rate limiter
is proved in its own module; `Keeping_proofs` instantiates that module, shows
that the limiter it composes is the same one (`SameLimiter`), and takes the
theorems over (`RatesBounded`, `LimiterIsWindow`).

Model-checked only: liveness (`OtherChatsUnblocked`, `BusyClears`,
`DueJobsHandled`, `RunsEnd`, `PageUnblocks`, `OperationsEnd`, `TextsArrive`,
`ExecutionEnds`, `CallsEnd`), which the prover has no rules for, and the type
invariants of the components of `Waiting` and `Keeping`, of which the proofs use
what they need. Every safety invariant that a passing run checks is a theorem.
No module declares a RECURSIVE operator.

## Not modelled

* Router and harness profiles: text classification that selects constants.
* Sandbox and capabilities: tables over single calls; the limit of an attempt
  and its refusal are actions of the modules of the tools.
* Gateway authentication: middleware over single requests; the token is in
  `Secrets`.
* Skills: files read once at the start.
* Other tools (mail, network scans, web requests, images, messages): one call to
  a service, nothing kept between calls. The session tools have no
  implementation behind them.
* Command line and wiring.
* In modelled parts: prompts, formatting, layout and logging; cron syntax and
  time zones; JSON; embeddings, ranking and the arithmetic of scores;
  encryption; the migrations of the memory tables, its facts table (never read)
  and the check for drift of embeddings; reads, searches and setup of the
  Notion and Obsidian tools; several browser profiles and what a page shows;
  sending to Signal; start-up registration with the Bot API and signal-cli; the
  conversion of markdown to Notion blocks; path and URL validation; the
  unsigned subtraction of wall-clock readings in the heartbeat (`main.rs:836`).

## Plan

What is left is proof, in the modules that hold theorems already (at most eight
may): the type invariants of the components of `Waiting` and `Keeping`, and more
of what liveness rests on, in the way of `NeverStuck`.
