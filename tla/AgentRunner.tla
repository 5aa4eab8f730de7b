---------------------------- MODULE AgentRunner ----------------------------
(***************************************************************************)
(* The agent loop: AgentRunner::run (run_streaming differs by the events   *)
(* it emits) on one conversation, run after run.  A run asks the model,    *)
(* executes the tool calls of its answer as parallel tasks under a         *)
(* semaphore, appends their results and asks again.                        *)
(*                                                                         *)
(* A run is a future that its caller may drop at any await: the heartbeat  *)
(* monitor does when no event came for too long, and what the run appended *)
(* so far is saved with the conversation.  The tasks spawned for a batch   *)
(* of several calls go on without it; a single call is awaited in place    *)
(* and stops with the run.                                                 *)
(*                                                                         *)
(* Left out: sessions never expire (no caller sets an expiry), a panicking *)
(* task aborts the process (release profile), and the system prompt at the *)
(* head of the conversation.                                               *)
(***************************************************************************)
EXTENDS Naturals, Sequences, FiniteSets

CONSTANTS
  MaxIterations,  \* AgentConfig::max_iterations
  SoftWarning,    \* AgentConfig::soft_iteration_warning, 0 for none
  MaxErrors,      \* AgentConfig::max_consecutive_errors
  MaxRetries,     \* AgentConfig::max_tool_retries
  Permits,        \* MAX_CONCURRENT_TOOL_CALLS
  MaxCalls,       \* tool calls the model puts in one answer
  MaxRuns,        \* bound on the runs
  MaxMessages     \* bound: in a longer conversation every run is at its end

ASSUME AgentAssumption ==
  /\ MaxIterations \in Nat \ {0} /\ SoftWarning \in Nat
  /\ MaxErrors \in Nat \ {0} /\ MaxRetries \in Nat
  /\ Permits \in Nat \ {0} /\ MaxCalls \in Nat \ {0}
  /\ MaxRuns \in Nat /\ MaxMessages \in Nat

VARIABLES
  pc,                  \* what the run awaits: the model, its tools, nothing
  messages,            \* Conversation::messages
  iteration,           \* loop counter of the run
  consecutive_errors,  \* failed batches since the last clean one or prompt
  calls,               \* the tasks of the batch in progress, in call order
  results,             \* what the handles awaited so far returned
  detached,            \* the batches whose run was dropped
  runs,                \* runs started
  drops                \* runs dropped

vars == <<pc, messages, iteration, consecutive_errors, calls, results,
          detached, runs, drops>>

(* n is the number of calls of an answer, or the call a result belongs to; *)
(* bad is set on a result whose output has an "error" key.                 *)
Msg(kind, n, bad) == [kind |-> kind, n |-> n, bad |-> bad]
Plain(kind) == Msg(kind, 0, FALSE)
Kinds == {"user", "assistant", "calls", "result", "warning", "nudge",
          "reflection", "limit"}

(* bad: the call ended with an error, or with an output that reports one. *)
Queued == [stage |-> "queued", attempt |-> 0, bad |-> FALSE]

Init ==
  /\ pc = "idle"
  /\ messages = <<>>
  /\ iteration = 0
  /\ consecutive_errors = 0
  /\ calls = <<>> /\ results = <<>>
  /\ detached = <<>>
  /\ runs = 0 /\ drops = 0

(* The head of the loop: iteration i begins with msgs, or the cap is       *)
(* reached and the model is asked, without tools, to sum up.               *)
Iterate(i, msgs) ==
  /\ iteration' = i
  /\ IF i < MaxIterations
     THEN /\ pc' = "llm"
          /\ messages' = IF SoftWarning > 0 /\ i = SoftWarning
                         THEN Append(msgs, Plain("warning")) ELSE msgs
     ELSE /\ pc' = "final"
          /\ messages' = Append(msgs, Plain("limit"))

(* The caller appends the user's message and runs the agent.               *)
StartRun ==
  /\ pc = "idle" /\ runs < MaxRuns
  /\ runs' = runs + 1
  /\ Iterate(0, Append(messages, Plain("user")))
  /\ consecutive_errors' = 0
  /\ UNCHANGED <<calls, results, detached, drops>>

(* The model ends its turn, or answers the request to sum up; a provider   *)
(* returns calls only for tools it was offered.                            *)
ModelEnds ==
  /\ pc \in {"llm", "final"}
  /\ pc' = "idle"
  /\ messages' = Append(messages, Plain("assistant"))
  /\ UNCHANGED <<iteration, consecutive_errors, calls, results, detached, runs,
                 drops>>

ModelFails ==
  /\ pc \in {"llm", "final"}
  /\ pc' = "idle"
  /\ UNCHANGED <<messages, iteration, consecutive_errors, calls, results,
                 detached, runs, drops>>

(* The answer was cut off, or stopped for a tool call it does not contain. *)
ModelNudged ==
  /\ pc = "llm" /\ Len(messages) <= MaxMessages
  /\ Iterate(iteration + 1,
             messages \o <<Plain("assistant"), Plain("nudge")>>)
  /\ UNCHANGED <<consecutive_errors, calls, results, detached, runs, drops>>

ModelCalls(n) ==
  /\ pc = "llm" /\ Len(messages) <= MaxMessages
  /\ pc' = "tools"
  /\ messages' = Append(messages, Msg("calls", n, FALSE))
  /\ calls' = [i \in 1..n |-> Queued]
  /\ results' = <<>>
  /\ UNCHANGED <<iteration, consecutive_errors, detached, runs, drops>>

-----------------------------------------------------------------------------
(* The tasks of a batch.  A permit is held from the first attempt to the   *)
(* last, through the sleeps between them.                                  *)
Holding(batch) ==
  {i \in DOMAIN batch : batch[i].stage \in {"running", "backoff"}}

Acquire(batch) ==
  {[batch EXCEPT ![i].stage = "running"] :
     i \in {i \in DOMAIN batch :
              batch[i].stage = "queued" /\ Cardinality(Holding(batch)) < Permits}}

Running(batch) == {i \in DOMAIN batch : batch[i].stage = "running"}
Done(bad) == [stage |-> "done", attempt |-> 0, bad |-> bad]

(* execute_single_tool returns: a result, which may report an error, or an *)
(* error that is not retried (permission, invalid input) or no more, or    *)
(* one that is (a timeout, a failure, an unknown tool).                    *)
Attempt(batch) ==
  {[batch EXCEPT ![i] = Done(bad)] : i \in Running(batch), bad \in BOOLEAN}
  \cup {[batch EXCEPT ![i].stage = "backoff"] :
          i \in {i \in Running(batch) : batch[i].attempt < MaxRetries}}

Backoff(batch) == {i \in DOMAIN batch : batch[i].stage = "backoff"}

(* Mutant: the attempts are not counted.                                   *)
RetryForever(batch) ==
  {[batch EXCEPT ![i].stage = "running"] : i \in Backoff(batch)}

Retry(batch) ==
  {[batch EXCEPT ![i].stage = "running", ![i].attempt = @ + 1] :
     i \in Backoff(batch)}

TaskSteps(batch) == Acquire(batch) \cup Attempt(batch) \cup Retry(batch)

RunTask ==
  /\ pc = "tools"
  /\ calls' \in TaskSteps(calls)
  /\ UNCHANGED <<pc, messages, iteration, consecutive_errors, results,
                 detached, runs, drops>>

(* Nobody awaits a detached task: its outcome is dropped.                  *)
Unheard(batch) == [i \in DOMAIN batch |-> [batch[i] EXCEPT !.bad = FALSE]]

RunDetachedTask(k) ==
  /\ \E batch \in TaskSteps(detached[k]) :
       detached' = [detached EXCEPT ![k] = Unheard(batch)]
  /\ UNCHANGED <<pc, messages, iteration, consecutive_errors, calls, results,
                 runs, drops>>

(* handle.await, in the order of the calls.                                *)
Join ==
  /\ pc = "tools" /\ Len(results) < Len(calls)
  /\ LET i == Len(results) + 1
     IN /\ calls[i].stage = "done"
        /\ results' =
             Append(results, Msg("result", i, calls[i].bad))
  /\ UNCHANGED <<pc, messages, iteration, consecutive_errors, calls, detached,
                 runs, drops>>

(* Mutant: only the last call of the batch is looked at.                   *)
CountErrorsInLastResult ==
  IF results[Len(results)].bad THEN consecutive_errors + 1 ELSE 0

(* consecutive_errors after the batch, before a reflection resets it.      *)
CountErrors ==
  IF \E i \in DOMAIN results : results[i].bad
  THEN consecutive_errors + 1 ELSE 0

MustReflect(errors) == errors >= MaxErrors

(* All handles have returned: the results are appended, then a reflection  *)
(* prompt if too many batches in a row had an error.                       *)
FinishBatch ==
  /\ pc = "tools" /\ Len(results) = Len(calls)
  /\ LET reflect == MustReflect(CountErrors)
     IN /\ consecutive_errors' = IF reflect THEN 0 ELSE CountErrors
        /\ Iterate(iteration + 1,
                   messages \o results \o
                     (IF reflect THEN <<Plain("reflection")>> ELSE <<>>))
  /\ calls' = <<>> /\ results' = <<>>
  /\ UNCHANGED <<detached, runs, drops>>

(* Mutant: results are appended as the handles return.                     *)
DropAppending ==
  /\ pc # "idle"
  /\ pc' = "idle"
  /\ messages' = messages \o results
  /\ detached' = IF Len(calls) > 1 THEN Append(detached, Unheard(calls)) ELSE detached
  /\ calls' = <<>> /\ results' = <<>>
  /\ drops' = drops + 1
  /\ UNCHANGED <<iteration, consecutive_errors, runs>>

(* The caller drops the run's future and keeps the conversation.           *)
Drop ==
  /\ pc # "idle"
  /\ pc' = "idle"
  /\ detached' = IF Len(calls) > 1 THEN Append(detached, Unheard(calls)) ELSE detached
  /\ calls' = <<>> /\ results' = <<>>
  /\ drops' = drops + 1
  /\ UNCHANGED <<messages, iteration, consecutive_errors, runs>>

-----------------------------------------------------------------------------
Ask == ModelEnds \/ ModelFails \/ ModelNudged \/ \E n \in 1..MaxCalls : ModelCalls(n)

Next ==
  \/ StartRun \/ Ask \/ RunTask \/ Join \/ FinishBatch \/ Drop
  \/ \E k \in DOMAIN detached : RunDetachedTask(k)

Spec == Init /\ [][Next]_vars

(* The provider's HTTP client has a timeout, every attempt of a tool runs  *)
(* under one, and sleeps end; nothing obliges a caller to drop a run.      *)
Fairness ==
  /\ WF_vars(Ask) /\ WF_vars(RunTask) /\ WF_vars(Join) /\ WF_vars(FinishBatch)
  /\ \A k \in 1..MaxRuns : WF_vars(k \in DOMAIN detached /\ RunDetachedTask(k))

FairSpec == Spec /\ Fairness

-----------------------------------------------------------------------------
Tasks == [stage : {"queued", "running", "backoff", "done"},
          attempt : 0..MaxRetries, bad : BOOLEAN]

(* Every variable keeps its shape.                                         *)
TypeOK ==
  /\ pc \in {"idle", "llm", "tools", "final"}
  /\ messages \in Seq([kind : Kinds, n : 0..MaxCalls, bad : BOOLEAN])
  /\ iteration \in 0..MaxIterations
  /\ consecutive_errors \in 0..(MaxErrors - 1)
  /\ calls \in Seq(Tasks)
  /\ results \in Seq([kind : {"result"}, n : 1..MaxCalls, bad : BOOLEAN])
  /\ detached \in Seq(Seq(Tasks))
  /\ runs \in 0..MaxRuns /\ drops \in 0..runs

(* The calls at position p are followed by their results, in call order.   *)
ResultAt(p, i) ==
  p + i \in DOMAIN messages /\ messages[p + i].kind = "result"
                            /\ messages[p + i].n = i
CallsAt == {p \in DOMAIN messages : messages[p].kind = "calls"}
Answered(p) == \A i \in 1..messages[p].n : ResultAt(p, i)
Unanswered(p) == ~ResultAt(p, 1)

(* Every answer of the model that calls tools is followed by all of their  *)
(* results in call order before anything else, or by none of them, and by  *)
(* none only if the run was dropped: one such answer for each drop.        *)
CallsAnswered ==
  pc # "tools" =>
    /\ \A p \in CallsAt : Answered(p) \/ Unanswered(p)
    /\ Cardinality({p \in CallsAt : Unanswered(p)}) <= drops

(* The model is never asked again after MaxErrors failed batches in a row  *)
(* of a run without a reflection prompt since: the counter is compared     *)
(* with what the conversation shows, answers cut off in between included.  *)
LastUser == CHOOSE p \in DOMAIN messages :
  /\ messages[p].kind = "user"
  /\ \A q \in DOMAIN messages : q > p => messages[q].kind # "user"
Failed(p) == \E i \in 1..messages[p].n : messages[p + i].bad
ErrorsReflected ==
  pc = "llm" =>
    LET settled(p) == \/ messages[p].kind = "reflection"
                      \/ messages[p].kind = "calls" /\ ~Failed(p)
        open == {p \in CallsAt : p > LastUser /\
                   \A q \in p..Len(messages) : ~settled(q)}
    IN Cardinality(open) < MaxErrors

(* Every run ends: tasks waiting for a permit get one, retries and         *)
(* iterations run out.                                                     *)
RunsEnd == pc # "idle" ~> pc = "idle"

(* "request several tools at once and receive all results before           *)
(* continuing": whenever the model is asked, all calls are answered.       *)
ResultsBeforeContinuing == pc = "llm" => \A p \in CallsAt : Answered(p)
=============================================================================
