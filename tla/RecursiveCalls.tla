--------------------------- MODULE RecursiveCalls ---------------------------
(***************************************************************************)
(* The recursive executor (rlm/recursive_call.rs, rlm/repl_tools.rs): a    *)
(* call asks the model, runs the tools it asks for and asks again; the     *)
(* tool sub_query is a call on a slice of the context, one level deeper.   *)
(* All model calls of the tree share one semaphore, but for the calls that *)
(* answer at the greatest depth directly.                                  *)
(***************************************************************************)
EXTENDS Naturals, Sequences, FiniteSets

CONSTANTS
  MaxDepth,    \* max_recursion_depth
  MaxRounds,   \* max_tool_rounds
  Permits,     \* max_concurrent_tasks
  Width        \* bound: sub-queries of one batch of tool calls

RecursionAssumption ==
  /\ {MaxDepth, MaxRounds, Permits, Width} \subseteq Nat
  /\ MaxRounds > 0 /\ Permits > 0

(* A call is named by the path to it: <<2, 1>> is the first sub-query of   *)
(* the second one of the root.  Its depth is the length of its name.       *)
Call == UNION {[1..d -> 1..Width] : d \in 0..MaxDepth}
Root == <<>>
Children(c) == {d \in Call : Len(d) = Len(c) + 1 /\ SubSeq(d, 1, Len(c)) = c}

VARIABLES
  phase,    \* "idle", "permit", "model", "direct", "tools", "answered", "failed"
  round,
  outcome   \* of execute: "running", "answered", "failed", "timeout"

vars == <<phase, round, outcome>>

(* execute_repl_call: at the greatest depth the context goes into the      *)
(* prompt; there are no tools, no permit and no timeout.                   *)
Entry(c) == IF Len(c) >= MaxDepth THEN "direct" ELSE "permit"

Init ==
  /\ phase = [c \in Call |-> IF c = Root THEN Entry(c) ELSE "idle"]
  /\ round = [c \in Call |-> 0]
  /\ outcome = "running"

(* The permit is given back before the tools run.  Mutant: after them.      *)
HeldThroughTools == {c \in Call : phase[c] \in {"model", "tools"}}
PermitsHeld == {c \in Call : phase[c] = "model"}

(* repl_tools: sub_query is offered to calls that are not too deep.        *)
MayDelegate(c) == Len(c) + 1 < MaxDepth

Ended(c) == phase[c] \in {"answered", "failed"}

End(c, how) ==
  /\ phase' = [phase EXCEPT ![c] = how]
  /\ outcome' = IF c = Root THEN how ELSE outcome
  /\ UNCHANGED round

---------------------------------------------------------------------------
Acquire(c) ==
  /\ phase[c] = "permit" /\ Cardinality(PermitsHeld) < Permits
  /\ phase' = [phase EXCEPT ![c] = "model"]
  /\ UNCHANGED <<round, outcome>>

(* An error, or no answer in model_call_timeout_secs.                      *)
ModelFails(c) ==
  /\ phase[c] \in {"model", "direct"}
  /\ End(c, "failed")

Answer(c) ==
  /\ phase[c] \in {"model", "direct"}
  /\ End(c, "answered")

(* The loop of execute_repl_call_impl goes round.                          *)
NextRound(c) ==
  IF round[c] + 1 < MaxRounds
  THEN /\ phase' = [phase EXCEPT ![c] = "permit"]
       /\ round' = [round EXCEPT ![c] = @ + 1]
       /\ UNCHANGED outcome
  ELSE End(c, "failed")

(* Cut off by the token limit, a tool call announced and not made, or tool *)
(* calls without a sub-query (unknown tools are answered with an error).   *)
AskAgain(c) ==
  /\ phase[c] = "model"
  /\ NextRound(c)

(* Tool calls with n sub-queries.                                          *)
Delegate(c, n) ==
  /\ phase[c] = "model" /\ MayDelegate(c)
  /\ phase' = [d \in Call |->
       CASE d = c -> "tools"
         [] d \in Children(c) /\ d[Len(d)] <= n -> Entry(d)
         [] OTHER -> phase[d]]
  /\ round' = [d \in Call |-> IF d \in Children(c) THEN 0 ELSE round[d]]
  /\ UNCHANGED outcome

(* join_all: the results, an error among them too, go to the model.        *)
Collect(c) ==
  /\ phase[c] = "tools"
  /\ \A d \in Children(c) : phase[d] = "idle" \/ Ended(d)
  /\ LET joined == [d \in Call |-> IF d \in Children(c) THEN "idle" ELSE phase[d]]
         again == round[c] + 1 < MaxRounds
     IN /\ phase' = [joined EXCEPT ![c] = IF again THEN "permit" ELSE "failed"]
        /\ round' = [round EXCEPT ![c] = IF again THEN @ + 1 ELSE @]
        /\ outcome' = IF c = Root /\ ~again THEN "failed" ELSE outcome

(* pipeline_timeout_secs: the future of the root is dropped, and with it   *)
(* those it polls.                                                         *)
DropAll == [c \in Call |-> "idle"]

PipelineTimeout ==
  /\ outcome = "running"
  /\ phase' = DropAll
  /\ outcome' = "timeout"
  /\ UNCHANGED round

Step(c) ==
  \/ Acquire(c) \/ ModelFails(c) \/ Answer(c) \/ AskAgain(c) \/ Collect(c)
  \/ \E n \in 1..Width : Delegate(c, n)

Next == PipelineTimeout \/ \E c \in Call : Step(c)

(* The futures are polled and every model call returns.  The timeout of    *)
(* the pipeline is not needed for an end.                                  *)
Spec == Init /\ [][Next]_vars /\ \A c \in Call : WF_vars(Step(c))

---------------------------------------------------------------------------
TypeOK ==
  /\ phase \in [Call -> {"idle", "permit", "model", "direct", "tools", "answered", "failed"}]
  /\ round \in [Call -> 0..(MaxRounds - 1)]
  /\ outcome \in {"running", "answered", "failed", "timeout"}

(* Every execution ends: no call waits for a permit that is held above it, *)
(* and rounds of tools and sub-queries run out.                            *)
ExecutionEnds == <>(outcome # "running")
=============================================================================
