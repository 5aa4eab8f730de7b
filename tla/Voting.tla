------------------------------- MODULE Voting -------------------------------
(***************************************************************************)
(* Self-consistency voting (voting.rs): one query is asked several times   *)
(* in tasks of their own, then the model is asked for the consensus, and   *)
(* the answers that share most of its words are counted.                   *)
(***************************************************************************)
EXTENDS Naturals, Sequences, FiniteSets

CONSTANTS
  Samples,   \* consistency_samples
  Permits,   \* max_concurrent_tasks
  Word,      \* words that are not stop words
  Strategy   \* "Majority" or "UnanimousOrEscalate"

VotingAssumption ==
  /\ {Samples, Permits} \subseteq Nat /\ Permits > 0
  /\ Strategy \in {"Majority", "UnanimousOrEscalate"}

(* A text is the set of its words that count.                              *)
Text == {t \in SUBSET Word : IsFiniteSet(t)}
Sample == 1..Samples

VARIABLES
  sample,     \* "queued", "asking", "failed", "textless" or "text"
  text,       \* what the sample answered
  joined,     \* samples the vote has awaited, in their order
  responses,  \* texts of those that had one
  vote,       \* "open", "error" or "done"
  result

vars == <<sample, text, joined, responses, vote, result>>

Init ==
  /\ sample = [i \in Sample |-> "queued"] /\ text = [i \in Sample |-> {}]
  /\ joined = 0 /\ responses = <<>> /\ vote = "open" /\ result = <<>>

Running(i) == sample[i] \in {"queued", "asking"}

Start(i) ==
  /\ sample[i] = "queued"
  /\ Cardinality({j \in Sample : sample[j] = "asking"}) < Permits
  /\ sample' = [sample EXCEPT ![i] = "asking"]
  /\ UNCHANGED <<text, joined, responses, vote, result>>

(* The model fails, panics, runs into the timeout or answers without text. *)
NoText(i, how) ==
  /\ sample[i] = "asking"
  /\ sample' = [sample EXCEPT ![i] = how]
  /\ UNCHANGED <<text, joined, responses, vote, result>>

Answer(i, t) ==
  /\ sample[i] = "asking"
  /\ sample' = [sample EXCEPT ![i] = "text"]
  /\ text' = [text EXCEPT ![i] = t]
  /\ UNCHANGED <<joined, responses, vote, result>>

Collected(i) == IF sample[i] = "text" THEN Append(responses, text[i]) ELSE responses

(* Mutant: a sample that fails ends the vote.                              *)
AbandonIfFailed(i) == vote' = IF sample[i] = "failed" THEN "error" ELSE vote
PassOver(i) == UNCHANGED vote

(* The handles are awaited one after the other.                            *)
Join ==
  /\ vote = "open" /\ joined < Samples /\ ~Running(joined + 1)
  /\ joined' = joined + 1
  /\ responses' = Collected(joined + 1)
  /\ PassOver(joined + 1)
  /\ UNCHANGED <<sample, text, result>>

---------------------------------------------------------------------------
(* find_consensus: more than half of the words of the answer, or an answer *)
(* without any.                                                            *)
Agrees(response, answer) ==
  answer = {} \/ 2 * Cardinality(answer \cap response) > Cardinality(answer)

Agreement(answer) == Cardinality({i \in DOMAIN responses : Agrees(responses[i], answer)})

(* Of the confidence the model keeps whether it is halved, which is what   *)
(* the strategies differ in.                                               *)
Result(answer, count, halved) ==
  [answer |-> answer, agreement_count |-> count, total_samples |-> Len(responses),
   unanimous |-> count = Len(responses), halved |-> halved]

NoResponse ==
  /\ vote = "open" /\ joined = Samples /\ responses = <<>>
  /\ vote' = "error"
  /\ UNCHANGED <<sample, text, joined, responses, result>>

(* A single response is taken without another question.                    *)
SingleResponse ==
  /\ vote = "open" /\ joined = Samples /\ Len(responses) = 1
  /\ vote' = "done" /\ result' = Result(responses[1], 1, FALSE)
  /\ UNCHANGED <<sample, text, joined, responses>>

Consensus(answer) ==
  /\ vote = "open" /\ joined = Samples /\ Len(responses) > 1
  /\ vote' = "done" /\ result' = Result(answer, Agreement(answer),
                    Strategy = "UnanimousOrEscalate" /\ Agreement(answer) < Len(responses))
  /\ UNCHANGED <<sample, text, joined, responses>>

ConsensusFails ==
  /\ vote = "open" /\ joined = Samples /\ Len(responses) > 1
  /\ vote' = "error"
  /\ UNCHANGED <<sample, text, joined, responses, result>>

Next ==
  \/ Join \/ NoResponse \/ SingleResponse \/ ConsensusFails
  \/ \E i \in Sample :
       \/ Start(i)
       \/ \E how \in {"failed", "textless"} : NoText(i, how)
       \/ \E t \in Text : Answer(i, t)
  \/ \E answer \in Text : Consensus(answer)

Spec == Init /\ [][Next]_vars

---------------------------------------------------------------------------
TypeOK ==
  /\ \A i \in Sample : sample[i] \in {"queued", "asking", "failed", "textless", "text"}
  /\ text \in [Sample -> Text] /\ joined \in 0..Samples
  /\ vote \in {"open", "error", "done"}

(* A vote returns when every sample has ended, and counts each that has a  *)
(* text: a sample that fails or has no text neither ends the vote nor      *)
(* leaves a task behind, and an error means that no sample had one or the  *)
(* consensus could not be asked.  A single text is unanimous.              *)
VoteCountsAll ==
  vote # "open" =>
    /\ \A i \in Sample : ~Running(i)
    /\ Len(responses) = Cardinality({i \in Sample : sample[i] = "text"})
    /\ vote = "done" /\ result.unanimous =>
         \A i \in Sample : sample[i] = "text" => Agrees(text[i], result.answer)
=============================================================================
