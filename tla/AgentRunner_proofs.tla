------------------------- MODULE AgentRunner_proofs -------------------------
(***************************************************************************)
(* What a run of the agent leaves in its conversation, for any limits on   *)
(* iterations, errors, retries, permits, calls and runs.                   *)
(***************************************************************************)
EXTENDS AgentRunner, FiniteSetTheorems, TLAPS

Message == [kind : Kinds, n : 0..MaxCalls, bad : BOOLEAN]

(* A task waits for a retry only if it has one left.                       *)
Task == {t \in Tasks : t.stage = "backoff" => t.attempt < MaxRetries}

LEMMA TaskStep ==
  ASSUME NEW batch \in Seq(Task), NEW b \in TaskSteps(batch)
  PROVE  b \in Seq(Task) /\ Len(b) = Len(batch)
<1>1. ASSUME NEW i \in DOMAIN batch, NEW t \in Task, b = [batch EXCEPT ![i] = t]
      PROVE  b \in Seq(Task) /\ Len(b) = Len(batch)
  BY <1>1
<1>2. CASE b \in Acquire(batch)
  <2>1. PICK i \in DOMAIN batch : b = [batch EXCEPT ![i].stage = "running"]
    BY <1>2 DEF Acquire
  <2> DEFINE t == [batch[i] EXCEPT !.stage = "running"]
  <2>2. t \in Task
    BY DEF Task, Tasks
  <2>3. b = [batch EXCEPT ![i] = t]
    BY <2>1
  <2> HIDE DEF t
  <2>4. QED
    BY <1>1, <2>2, <2>3
<1>3. CASE b \in Attempt(batch)
  <2>1. CASE \E i \in Running(batch), bad \in BOOLEAN : b = [batch EXCEPT ![i] = Done(bad)]
    <3>1. PICK i \in DOMAIN batch, bad \in BOOLEAN : b = [batch EXCEPT ![i] = Done(bad)]
      BY <2>1 DEF Running
    <3>2. Done(bad) \in Task
      BY AgentAssumption DEF Done, Task, Tasks
    <3>3. QED
      BY <1>1, <3>1, <3>2
  <2>2. CASE \E i \in Running(batch) : /\ batch[i].attempt < MaxRetries
                                       /\ b = [batch EXCEPT ![i].stage = "backoff"]
    <3>1. PICK i \in DOMAIN batch : /\ batch[i].attempt < MaxRetries
                                    /\ b = [batch EXCEPT ![i].stage = "backoff"]
      BY <2>2 DEF Running
    <3> DEFINE t == [batch[i] EXCEPT !.stage = "backoff"]
    <3>2. t \in Task
      <4>1. batch[i] \in Tasks
        BY DEF Task
      <4>2. t \in Tasks /\ t.attempt = batch[i].attempt
        BY <4>1 DEF Tasks
      <4>3. QED
        BY <3>1, <4>2 DEF Task
    <3>3. b = [batch EXCEPT ![i] = t]
      BY <3>1
    <3> HIDE DEF t
    <3>4. QED
      BY <1>1, <3>2, <3>3
  <2>3. QED
    BY <1>3, <2>1, <2>2 DEF Attempt
<1>4. CASE b \in Retry(batch)
  <2>1. PICK i \in DOMAIN batch :
          /\ batch[i].stage = "backoff"
          /\ b = [batch EXCEPT ![i].stage = "running", ![i].attempt = @ + 1]
    BY <1>4 DEF Retry, Backoff
  <2> DEFINE t == [batch[i] EXCEPT !.stage = "running", !.attempt = @ + 1]
  <2>2. batch[i] \in Task /\ batch[i].attempt + 1 \in 0..MaxRetries
    <3>1. batch[i] \in Task
      BY <2>1
    <3>2. batch[i] \in Tasks /\ batch[i].attempt < MaxRetries
      BY <2>1, <3>1 DEF Task
    <3>3. batch[i].attempt \in 0..MaxRetries
      BY <3>2 DEF Tasks
    <3>4. QED
      BY <3>1, <3>2, <3>3, AgentAssumption
  <2>3. t \in Task
    <3>1. batch[i] \in Tasks
      BY DEF Task
    <3>2. [batch[i] EXCEPT !.stage = "running"] \in Tasks
      BY <3>1 DEF Tasks
    <3>3. t \in Tasks /\ t.stage = "running"
      BY <2>2, <3>1, <3>2 DEF Tasks
    <3>4. QED
      BY <3>3 DEF Task
  <2>4. b = [batch EXCEPT ![i] = t]
    BY <2>1
  <2> HIDE DEF t
  <2>5. QED
    BY <1>1, <2>3, <2>4
<1>5. QED
  BY <1>2, <1>3, <1>4 DEF TaskSteps

LEMMA UnheardTasks ==
  ASSUME NEW batch \in Seq(Task) PROVE Unheard(batch) \in Seq(Task)
<1>1. ASSUME NEW i \in DOMAIN batch PROVE [batch[i] EXCEPT !.bad = FALSE] \in Task
  <2> DEFINE t == [batch[i] EXCEPT !.bad = FALSE]
  <2>0. batch[i] \in Task
    OBVIOUS
  <2>1. batch[i] \in Tasks /\ (batch[i].stage = "backoff" => batch[i].attempt < MaxRetries)
    BY <2>0 DEF Task
  <2>2. t \in Tasks /\ t.stage = batch[i].stage /\ t.attempt = batch[i].attempt
    BY <2>1 DEF Tasks
  <2>3. QED
    BY <2>1, <2>2 DEF Task
<1>2. DOMAIN batch = 1..Len(batch) /\ Len(batch) \in Nat
  OBVIOUS
<1>3. Unheard(batch) \in [1..Len(batch) -> Task]
  BY <1>1, <1>2 DEF Unheard
<1>4. QED
  BY <1>2, <1>3

-----------------------------------------------------------------------------
(* The shapes of the variables, and how far a run and its batch are.       *)
AgentTyped ==
  /\ pc \in {"idle", "llm", "tools", "final"}
  /\ messages \in Seq(Message)
  /\ iteration \in 0..MaxIterations /\ (pc \in {"llm", "tools"} => iteration < MaxIterations)
  /\ consecutive_errors \in 0..(MaxErrors - 1)
  /\ calls \in Seq(Task)
  /\ results \in Seq([kind : {"result"}, n : 1..MaxCalls, bad : BOOLEAN])
  /\ detached \in Seq(Seq(Task))
  /\ runs \in 0..MaxRuns /\ drops \in 0..runs /\ (pc # "idle" => drops < runs)
  /\ pc = "tools" => Len(calls) \in 1..MaxCalls /\ Len(results) <= Len(calls)

(* A conversation that goes on from s to t by messages of the kinds K.     *)
GoesOn(s, t, K) ==
  /\ s \in Seq(Message) /\ t \in Seq(Message) /\ Len(s) <= Len(t)
  /\ \A i \in 1..Len(s) : t[i] = s[i]
  /\ \A i \in (Len(s) + 1)..Len(t) : t[i].kind \in K

LEMMA AppendGoesOn ==
  ASSUME NEW s \in Seq(Message), NEW m \in Message
  PROVE  GoesOn(s, Append(s, m), {m.kind}) /\ Len(Append(s, m)) = Len(s) + 1
         /\ Append(s, m)[Len(s) + 1] = m
BY DEF GoesOn

LEMMA PlainMessages ==
  ASSUME NEW kind \in Kinds PROVE Plain(kind) \in Message /\ Plain(kind).kind = kind
BY AgentAssumption DEF Plain, Msg, Message

LEMMA GoesOnTwice ==
  ASSUME NEW s, NEW t, NEW u, NEW K, NEW L, GoesOn(s, t, K), GoesOn(t, u, L)
  PROVE  GoesOn(s, u, K \cup L)
<1>1. Len(s) \in Nat /\ Len(t) \in Nat /\ Len(u) \in Nat /\ Len(s) <= Len(t) /\ Len(t) <= Len(u)
  BY DEF GoesOn
<1>2. ASSUME NEW i \in 1..Len(s) PROVE u[i] = s[i]
  BY <1>1 DEF GoesOn
<1>3. ASSUME NEW i \in (Len(s) + 1)..Len(u) PROVE u[i].kind \in K \cup L
  <2>1. CASE i <= Len(t)
    BY <1>1, <2>1 DEF GoesOn
  <2>2. CASE i > Len(t)
    BY <1>1, <2>2 DEF GoesOn
  <2>3. QED
    BY <1>1, <2>1, <2>2
<1>4. QED
  BY <1>1, <1>2, <1>3 DEF GoesOn

LEMMA Iterated ==
  ASSUME NEW i \in 0..MaxIterations, NEW msgs \in Seq(Message), Iterate(i, msgs)
  PROVE  /\ GoesOn(msgs, messages', {"warning", "limit"})
         /\ iteration' = i /\ pc' \in {"llm", "final"} /\ (pc' = "llm" => i < MaxIterations)
<1>0. Plain("warning") \in Message /\ Plain("limit") \in Message
      /\ Plain("warning").kind = "warning" /\ Plain("limit").kind = "limit"
  BY PlainMessages DEF Kinds
<1>1. \/ messages' = msgs
      \/ messages' = Append(msgs, Plain("warning"))
      \/ messages' = Append(msgs, Plain("limit"))
  BY DEF Iterate
<1>2. GoesOn(msgs, msgs, {"warning", "limit"})
  BY DEF GoesOn
<1>3. ASSUME NEW m \in {Plain("warning"), Plain("limit")}, messages' = Append(msgs, m)
      PROVE  GoesOn(msgs, messages', {"warning", "limit"})
  <2>1. m \in Message /\ m.kind \in {"warning", "limit"}
    BY <1>0
  <2>2. GoesOn(msgs, messages', {m.kind})
    BY <1>3, <2>1, AppendGoesOn
  <2>3. QED
    BY <2>1, <2>2 DEF GoesOn
<1>4. iteration' = i /\ pc' \in {"llm", "final"} /\ (pc' = "llm" => i < MaxIterations)
  BY AgentAssumption DEF Iterate
<1>5. QED
  BY <1>1, <1>2, <1>3, <1>4

(* What each step does to the conversation.                                *)
LEMMA Started ==
  ASSUME AgentTyped, StartRun
  PROVE  /\ GoesOn(messages, messages', {"user"})
         /\ Len(messages') = Len(messages) + 1 /\ messages'[Len(messages')].kind = "user"
         /\ pc' = "llm" /\ iteration' = 0
<1>1. Plain("user") \in Message /\ Plain("user").kind = "user"
  BY PlainMessages DEF Kinds
<1>2. pc' = "llm" /\ iteration' = 0 /\ messages' = Append(messages, Plain("user"))
  BY AgentAssumption DEF StartRun, Iterate
<1>3. QED
  BY <1>1, <1>2, AppendGoesOn DEF AgentTyped

LEMMA Ended ==
  ASSUME AgentTyped, ModelEnds
  PROVE  GoesOn(messages, messages', {"assistant"}) /\ pc' = "idle"
<1>1. Plain("assistant") \in Message /\ Plain("assistant").kind = "assistant"
  BY PlainMessages DEF Kinds
<1>2. QED
  BY <1>1, AppendGoesOn DEF ModelEnds, AgentTyped

LEMMA Nudged ==
  ASSUME AgentTyped, ModelNudged
  PROVE  /\ GoesOn(messages, messages', {"assistant", "nudge", "warning", "limit"})
         /\ iteration' = iteration + 1 /\ pc' \in {"llm", "final"}
         /\ pc' = "llm" => iteration' < MaxIterations
<1> DEFINE t == messages \o <<Plain("assistant"), Plain("nudge")>>
<1>1. /\ Plain("assistant") \in Message /\ Plain("assistant").kind = "assistant"
      /\ Plain("nudge") \in Message /\ Plain("nudge").kind = "nudge"
  BY PlainMessages DEF Kinds
<1>2. iteration + 1 \in 0..MaxIterations /\ messages \in Seq(Message) /\ Iterate(iteration + 1, t)
  BY AgentAssumption DEF AgentTyped, ModelNudged
<1>3. /\ t \in Seq(Message) /\ Len(t) = Len(messages) + 2 /\ Len(messages) \in Nat
      /\ \A i \in 1..Len(messages) : t[i] = messages[i]
      /\ t[Len(messages) + 1] = Plain("assistant") /\ t[Len(messages) + 2] = Plain("nudge")
  BY <1>1, <1>2
<1>4. GoesOn(messages, t, {"assistant", "nudge"})
  BY <1>1, <1>2, <1>3 DEF GoesOn
<1> HIDE DEF t
<1>5. /\ GoesOn(t, messages', {"warning", "limit"}) /\ iteration' = iteration + 1
      /\ pc' \in {"llm", "final"} /\ (pc' = "llm" => iteration + 1 < MaxIterations)
  BY <1>2, <1>3, Iterated
<1>6. GoesOn(messages, messages', {"assistant", "nudge"} \cup {"warning", "limit"})
  BY <1>4, <1>5, GoesOnTwice
<1>7. {"assistant", "nudge"} \cup {"warning", "limit"} = {"assistant", "nudge", "warning", "limit"}
  OBVIOUS
<1>8. QED
  BY <1>5, <1>6, <1>7

LEMMA Called ==
  ASSUME AgentTyped, NEW n \in 1..MaxCalls, ModelCalls(n)
  PROVE  /\ GoesOn(messages, messages', {"calls"})
         /\ Len(messages') = Len(messages) + 1
         /\ messages'[Len(messages')].kind = "calls" /\ messages'[Len(messages')].n = n
         /\ calls' \in Seq(Task) /\ Len(calls') = n /\ results' = <<>>
<1>1. Msg("calls", n, FALSE) \in Message
  BY AgentAssumption DEF Msg, Message, Kinds
<1>2. Queued \in Task
  BY AgentAssumption DEF Queued, Task, Tasks
<1>3. calls' = [i \in 1..n |-> Queued] /\ messages' = Append(messages, Msg("calls", n, FALSE))
      /\ n \in Nat /\ messages \in Seq(Message) /\ results' = <<>>
  BY AgentAssumption DEF ModelCalls, AgentTyped
<1>4. calls' \in Seq(Task) /\ Len(calls') = n
  BY <1>2, <1>3
<1>5. QED
  BY <1>1, <1>3, <1>4, AppendGoesOn DEF Msg

LEMMA Finished ==
  ASSUME AgentTyped, FinishBatch
  PROVE  LET m == Len(messages) + Len(results) IN
         /\ GoesOn(messages, messages', {"result", "reflection", "warning", "limit"})
         /\ m <= Len(messages') /\ Len(results) = Len(calls)
         /\ \A i \in 1..Len(results) : messages'[Len(messages) + i] = results[i]
         /\ \A i \in (m + 1)..Len(messages') :
              messages'[i].kind \in {"reflection", "warning", "limit"}
         /\ MustReflect(CountErrors) =>
              m + 1 <= Len(messages') /\ messages'[m + 1].kind = "reflection"
         /\ iteration' = iteration + 1 /\ pc' \in {"llm", "final"}
         /\ pc' = "llm" => iteration' < MaxIterations
<1> DEFINE m == Len(messages) + Len(results)
           s == messages \o results
           R == IF MustReflect(CountErrors) THEN <<Plain("reflection")>> ELSE <<>>
           t == s \o R
<1>1. Plain("reflection") \in Message /\ Plain("reflection").kind = "reflection"
  BY PlainMessages DEF Kinds
<1>2. /\ iteration + 1 \in 0..MaxIterations /\ messages \in Seq(Message)
      /\ Len(results) = Len(calls) /\ Iterate(iteration + 1, t)
  BY AgentAssumption DEF AgentTyped, FinishBatch
<1>3. results \in Seq(Message) /\ \A i \in 1..Len(results) : results[i].kind = "result"
  <2> DEFINE S == [kind : {"result"}, n : 1..MaxCalls, bad : BOOLEAN]
  <2>1. \A x \in S : x \in Message /\ x.kind = "result"
    BY AgentAssumption DEF Message, Kinds
  <2>2. results \in Seq(S)
    BY DEF AgentTyped
  <2> HIDE DEF S
  <2>3. QED
    BY <2>1, <2>2
<1>4. /\ s \in Seq(Message) /\ Len(s) = m /\ Len(messages) \in Nat /\ Len(results) \in Nat
      /\ \A i \in 1..Len(messages) : s[i] = messages[i]
      /\ \A i \in 1..Len(results) : s[Len(messages) + i] = results[i]
  <2>1. messages \in Seq(Message) /\ results \in Seq(Message)
    BY <1>2, <1>3
  <2>2. s \in Seq(Message) /\ Len(s) = m /\ Len(messages) \in Nat /\ Len(results) \in Nat
    BY <2>1
  <2>3. \A i \in 1..Len(messages) : s[i] = messages[i]
    BY <2>1
  <2>4. \A i \in 1..Len(results) : s[Len(messages) + i] = results[i]
    BY <2>1
  <2>5. QED
    BY <2>2, <2>3, <2>4
<1>5. GoesOn(messages, s, {"result"})
  <2>1. ASSUME NEW i \in (Len(messages) + 1)..Len(s) PROVE s[i].kind = "result"
    <3>1. /\ i - Len(messages) \in 1..Len(results)
          /\ Len(messages) + (i - Len(messages)) = i
      BY <1>4
    <3>2. QED
      BY <1>3, <1>4, <3>1
  <2>2. QED
    BY <1>2, <1>4, <2>1 DEF GoesOn
<1>6. /\ GoesOn(s, t, {"reflection"})
      /\ MustReflect(CountErrors) => Len(t) = m + 1 /\ t[m + 1].kind = "reflection"
  <2> HIDE DEF s, m
  <2>1. CASE MustReflect(CountErrors)
    <3>1. /\ t \in Seq(Message) /\ Len(t) = m + 1 /\ t[m + 1] = Plain("reflection")
          /\ \A i \in 1..m : t[i] = s[i]
      BY <1>1, <1>4, <2>1 DEF m
    <3>2. QED
      BY <1>1, <1>4, <3>1 DEF GoesOn, m
  <2>2. CASE ~MustReflect(CountErrors)
    <3>1. t = s
      BY <1>4, <2>2
    <3>2. QED
      BY <1>4, <2>2, <3>1 DEF GoesOn
  <2>3. QED
    BY <2>1, <2>2
<1> HIDE DEF s, R, t
<1>7. /\ GoesOn(t, messages', {"warning", "limit"}) /\ iteration' = iteration + 1
      /\ pc' \in {"llm", "final"} /\ (pc' = "llm" => iteration + 1 < MaxIterations)
  BY <1>2, <1>6, Iterated DEF GoesOn
<1>8. GoesOn(s, messages', {"reflection", "warning", "limit"})
  <2>1. GoesOn(s, messages', {"reflection"} \cup {"warning", "limit"})
    BY <1>6, <1>7, GoesOnTwice
  <2>2. {"reflection"} \cup {"warning", "limit"} = {"reflection", "warning", "limit"}
    OBVIOUS
  <2>3. QED
    BY <2>1, <2>2
<1>9. GoesOn(messages, messages', {"result", "reflection", "warning", "limit"})
  <2>1. GoesOn(messages, messages', {"result"} \cup {"reflection", "warning", "limit"})
    BY <1>5, <1>8, GoesOnTwice
  <2>2. {"result"} \cup {"reflection", "warning", "limit"}
          = {"result", "reflection", "warning", "limit"}
    OBVIOUS
  <2>3. QED
    BY <2>1, <2>2
<1>10. \A i \in 1..Len(results) : messages'[Len(messages) + i] = results[i]
  BY <1>4, <1>8 DEF GoesOn
<1>11. m <= Len(messages') /\ \A i \in (m + 1)..Len(messages') :
                                 messages'[i].kind \in {"reflection", "warning", "limit"}
  BY <1>4, <1>8 DEF GoesOn
<1>12. MustReflect(CountErrors) => m + 1 <= Len(messages') /\ messages'[m + 1].kind = "reflection"
  <2> SUFFICES ASSUME MustReflect(CountErrors)
               PROVE  m + 1 <= Len(messages') /\ messages'[m + 1].kind = "reflection"
    OBVIOUS
  <2>1. Len(t) = m + 1 /\ t[m + 1].kind = "reflection" /\ m \in Nat
    BY <1>4, <1>6
  <2>2. Len(t) <= Len(messages') /\ \A i \in 1..Len(t) : messages'[i] = t[i]
    BY <1>7 DEF GoesOn
  <2> HIDE DEF m
  <2>3. m + 1 \in 1..Len(t)
    BY <2>1
  <2>4. QED
    BY <2>1, <2>2, <2>3
<1>13. QED
  BY <1>2, <1>7, <1>9, <1>10, <1>11, <1>12

LEMMA TypeStep == AgentTyped /\ [Next]_vars => AgentTyped'
<1> SUFFICES ASSUME AgentTyped, [Next]_vars PROVE AgentTyped'
  OBVIOUS
<1>0. /\ runs \in Nat /\ drops \in Nat /\ drops <= runs /\ MaxRuns \in Nat /\ runs <= MaxRuns
      /\ MaxErrors \in Nat \ {0} /\ MaxIterations \in Nat \ {0} /\ MaxCalls \in Nat \ {0}
  BY AgentAssumption DEF AgentTyped
<1>1. CASE StartRun
  <2>1. messages' \in Seq(Message) /\ pc' = "llm" /\ iteration' = 0
    BY <1>1, Started DEF GoesOn
  <2>2. /\ runs < MaxRuns /\ runs' = runs + 1 /\ consecutive_errors' = 0
        /\ UNCHANGED <<calls, results, detached, drops>>
    BY <1>1 DEF StartRun
  <2>3. runs' \in 0..MaxRuns /\ drops' \in 0..runs' /\ drops' < runs'
    BY <1>0, <2>2
  <2>4. QED
    BY <1>0, <2>1, <2>2, <2>3 DEF AgentTyped
<1>2. CASE ModelEnds
  <2>1. messages' \in Seq(Message) /\ pc' = "idle"
    BY <1>2, Ended DEF GoesOn
  <2>2. QED
    BY <1>2, <2>1 DEF ModelEnds, AgentTyped
<1>3. CASE ModelFails
  BY <1>3 DEF ModelFails, AgentTyped
<1>4. CASE ModelNudged
  <2>1. /\ messages' \in Seq(Message) /\ iteration' = iteration + 1 /\ pc' \in {"llm", "final"}
        /\ pc' = "llm" => iteration' < MaxIterations
    BY <1>4, Nudged DEF GoesOn
  <2>2. /\ UNCHANGED <<consecutive_errors, calls, results, detached, runs, drops>> /\ pc = "llm"
    BY <1>4 DEF ModelNudged
  <2>3. iteration' \in 0..MaxIterations
    BY <1>0, <2>1, <2>2 DEF AgentTyped
  <2>4. QED
    BY <2>1, <2>2, <2>3 DEF AgentTyped
<1>5. ASSUME NEW n \in 1..MaxCalls, ModelCalls(n) PROVE AgentTyped'
  <2>1. /\ messages' \in Seq(Message) /\ calls' \in Seq(Task) /\ Len(calls') = n
        /\ results' = <<>>
    BY <1>5, Called DEF GoesOn
  <2>2. /\ pc = "llm" /\ pc' = "tools"
        /\ UNCHANGED <<iteration, consecutive_errors, detached, runs, drops>>
    BY <1>5 DEF ModelCalls
  <2>3. /\ results' \in Seq([kind : {"result"}, n : 1..MaxCalls, bad : BOOLEAN])
        /\ Len(results') <= Len(calls')
    BY <1>0, <2>1
  <2>4. QED
    BY <2>1, <2>2, <2>3 DEF AgentTyped
<1>6. CASE RunTask
  <2>1. calls' \in Seq(Task) /\ Len(calls') = Len(calls)
    BY <1>6, TaskStep DEF RunTask, AgentTyped
  <2>2. QED
    BY <1>6, <2>1 DEF RunTask, AgentTyped
<1>7. CASE Join
  <2> DEFINE i == Len(results) + 1
             S == [kind : {"result"}, n : 1..MaxCalls, bad : BOOLEAN]
  <2>1. /\ pc = "tools" /\ Len(results) < Len(calls)
        /\ results' = Append(results, Msg("result", i, calls[i].bad))
        /\ UNCHANGED <<pc, messages, iteration, consecutive_errors, calls, detached, runs, drops>>
    BY <1>7 DEF Join
  <2>2. /\ results \in Seq(S) /\ calls \in Seq(Task) /\ Len(calls) \in 1..MaxCalls
    BY <2>1 DEF AgentTyped
  <2>3. i \in 1..MaxCalls /\ i \in DOMAIN calls /\ i <= Len(calls)
    BY <1>0, <2>1, <2>2
  <2>4. calls[i] \in Task
    BY <2>2, <2>3
  <2>5. calls[i].bad \in BOOLEAN
    BY <2>4 DEF Task, Tasks
  <2>6. Msg("result", i, calls[i].bad) \in S
    BY <2>3, <2>5 DEF Msg
  <2> HIDE DEF S
  <2>7. results' \in Seq(S) /\ Len(results') = i
    BY <2>1, <2>2, <2>6
  <2> USE DEF S
  <2>8. QED
    BY <2>1, <2>3, <2>7 DEF AgentTyped
<1>8. CASE FinishBatch
  <2>1. /\ messages' \in Seq(Message) /\ iteration' = iteration + 1 /\ pc' \in {"llm", "final"}
        /\ pc' = "llm" => iteration' < MaxIterations
    BY <1>8, Finished DEF GoesOn
  <2>2. /\ pc = "tools" /\ calls' = <<>> /\ results' = <<>> /\ UNCHANGED <<detached, runs, drops>>
        /\ consecutive_errors' = IF MustReflect(CountErrors) THEN 0 ELSE CountErrors
    BY <1>8 DEF FinishBatch
  <2>3. iteration' \in 0..MaxIterations
    BY <1>0, <2>1, <2>2 DEF AgentTyped
  <2>4. CountErrors \in Nat
    BY <1>0 DEF CountErrors, AgentTyped
  <2>5. consecutive_errors' \in 0..(MaxErrors - 1)
    BY <1>0, <2>2, <2>4 DEF MustReflect
  <2>6. calls' \in Seq(Task)
        /\ results' \in Seq([kind : {"result"}, n : 1..MaxCalls, bad : BOOLEAN])
    BY <2>2
  <2>7. QED
    BY <2>1, <2>2, <2>3, <2>5, <2>6 DEF AgentTyped
<1>9. CASE Drop
  <2>1. /\ pc # "idle" /\ pc' = "idle" /\ calls' = <<>> /\ results' = <<>> /\ drops' = drops + 1
        /\ UNCHANGED <<messages, iteration, consecutive_errors, runs>>
        /\ detached' = detached \/ detached' = Append(detached, Unheard(calls))
    BY <1>9 DEF Drop
  <2>2. Unheard(calls) \in Seq(Task)
    BY UnheardTasks DEF AgentTyped
  <2>3. detached' \in Seq(Seq(Task))
    <3> DEFINE D == Seq(Task)
    <3>1. detached \in Seq(D) /\ Unheard(calls) \in D
      BY <2>2 DEF AgentTyped
    <3> HIDE DEF D
    <3>2. detached' \in Seq(D)
      BY <2>1, <3>1
    <3>3. QED
      BY <3>2 DEF D
  <2>4. drops' \in 0..runs'
    BY <1>0, <2>1 DEF AgentTyped
  <2>5. calls' \in Seq(Task)
        /\ results' \in Seq([kind : {"result"}, n : 1..MaxCalls, bad : BOOLEAN])
    BY <2>1
  <2>6. QED
    BY <2>1, <2>3, <2>4, <2>5 DEF AgentTyped
<1>10. ASSUME NEW k \in DOMAIN detached, RunDetachedTask(k) PROVE AgentTyped'
  <2>1. PICK batch \in TaskSteps(detached[k]) :
          detached' = [detached EXCEPT ![k] = Unheard(batch)]
    BY <1>10 DEF RunDetachedTask
  <2>2. detached[k] \in Seq(Task) /\ detached \in Seq(Seq(Task))
    BY DEF AgentTyped
  <2>3. Unheard(batch) \in Seq(Task)
    BY <2>2, TaskStep, UnheardTasks
  <2>4. detached' \in Seq(Seq(Task))
    BY <2>1, <2>2, <2>3
  <2>5. QED
    BY <1>10, <2>4 DEF RunDetachedTask, AgentTyped
<1>11. CASE UNCHANGED vars
  BY <1>11 DEF vars, AgentTyped
<1>12. QED
  BY <1>1, <1>2, <1>3, <1>4, <1>5, <1>6, <1>7, <1>8, <1>9, <1>10, <1>11 DEF Next, Ask

-----------------------------------------------------------------------------
(* Which calls are answered.  The last message of a run that awaits its    *)
(* tools is the one that calls them; all others were left behind.          *)
Pending == IF pc = "tools" THEN {Len(messages)} ELSE {}
Past == CallsAt \ Pending
Hole == {p \in Past : Unanswered(p)}

AnswersInv ==
  /\ pc = "tools" => /\ Len(messages) \in CallsAt /\ messages[Len(messages)].n = Len(calls)
                     /\ \A i \in 1..Len(results) : results[i].n = i
  /\ \A p \in CallsAt : messages[p].n \in Nat /\ messages[p].n >= 1
  /\ \A p \in Past : Answered(p) \/ Unanswered(p)
  /\ Cardinality(Hole) <= drops

LEMMA Kept ==
  ASSUME NEW K, GoesOn(messages, messages', K), NEW p \in DOMAIN messages
  PROVE  /\ p \in DOMAIN messages' /\ messages'[p] = messages[p] /\ p \in 1..Len(messages)
         /\ \A i \in Nat : ResultAt(p, i) => ResultAt(p, i)'
         /\ \A i \in Nat : "result" \notin K \/ p + i <= Len(messages) =>
              (ResultAt(p, i)' => ResultAt(p, i))
<1>1. /\ Len(messages) \in Nat /\ Len(messages') \in Nat /\ Len(messages) <= Len(messages')
      /\ DOMAIN messages = 1..Len(messages) /\ DOMAIN messages' = 1..Len(messages')
      /\ \A j \in 1..Len(messages) : messages'[j] = messages[j]
      /\ \A j \in (Len(messages) + 1)..Len(messages') : messages'[j].kind \in K
  BY DEF GoesOn
<1>2. p \in Nat /\ p >= 1 /\ p <= Len(messages)
  BY <1>1
<1>3. ASSUME NEW i \in Nat, ResultAt(p, i) PROVE ResultAt(p, i)'
  <2>1. p + i \in 1..Len(messages) /\ p + i \in 1..Len(messages')
    BY <1>1, <1>3 DEF ResultAt
  <2>2. QED
    BY <1>1, <1>3, <2>1 DEF ResultAt
<1>4. ASSUME NEW i \in Nat, "result" \notin K \/ p + i <= Len(messages), ResultAt(p, i)'
      PROVE  ResultAt(p, i)
  <2>1. p + i \in 1..Len(messages') /\ messages'[p + i].kind = "result" /\ messages'[p + i].n = i
    BY <1>1, <1>4 DEF ResultAt
  <2>2. p + i <= Len(messages)
    BY <1>1, <1>4, <2>1
  <2>3. p + i \in 1..Len(messages)
    BY <1>1, <2>1, <2>2
  <2>4. QED
    BY <1>1, <2>1, <2>3 DEF ResultAt
<1>5. QED
  BY <1>1, <1>2, <1>3, <1>4

LEMMA KeptCalls ==
  ASSUME NEW K, GoesOn(messages, messages', K), \A p \in CallsAt : messages[p].n \in Nat
  PROVE  /\ CallsAt' \cap (1..Len(messages)) = CallsAt
         /\ "calls" \notin K => CallsAt' = CallsAt
         /\ \A p \in CallsAt : /\ Answered(p) => Answered(p)'
                               /\ "result" \notin K \/ p < Len(messages) =>
                                    (Unanswered(p)' <=> Unanswered(p))
<1>1. /\ Len(messages) \in Nat /\ Len(messages') \in Nat /\ Len(messages) <= Len(messages')
      /\ DOMAIN messages = 1..Len(messages) /\ DOMAIN messages' = 1..Len(messages')
      /\ \A j \in 1..Len(messages) : messages'[j] = messages[j]
      /\ \A j \in (Len(messages) + 1)..Len(messages') : messages'[j].kind \in K
  BY DEF GoesOn
<1>2. CallsAt' \cap (1..Len(messages)) = CallsAt
  BY <1>1 DEF CallsAt
<1>3. ASSUME "calls" \notin K PROVE CallsAt' = CallsAt
  <2>1. ASSUME NEW p \in CallsAt' PROVE p \in 1..Len(messages)
    BY <1>1, <1>3, <2>1 DEF CallsAt
  <2>2. QED
    BY <1>2, <2>1
<1>4. ASSUME NEW p \in CallsAt
      PROVE  /\ Answered(p) => Answered(p)'
             /\ "result" \notin K \/ p < Len(messages) => (Unanswered(p)' <=> Unanswered(p))
  <2>1. p \in DOMAIN messages /\ messages[p].n \in Nat /\ p \in Nat
    BY <1>1 DEF CallsAt
  <2>2. /\ messages'[p] = messages[p]
        /\ \A i \in Nat : ResultAt(p, i) => ResultAt(p, i)'
        /\ \A i \in Nat : "result" \notin K \/ p + i <= Len(messages) =>
              (ResultAt(p, i)' => ResultAt(p, i))
    BY <2>1, Kept
  <2>3. Answered(p) => Answered(p)'
    BY <2>1, <2>2 DEF Answered
  <2>4. ASSUME "result" \notin K \/ p < Len(messages) PROVE ResultAt(p, 1)' <=> ResultAt(p, 1)
    <3>1. "result" \notin K \/ p + 1 <= Len(messages)
      BY <1>1, <2>1, <2>4
    <3>2. QED
      BY <2>2, <3>1
  <2>5. QED
    BY <2>3, <2>4 DEF Unanswered
<1>5. QED
  BY <1>2, <1>3, <1>4

LEMMA HoleFinite == ASSUME AgentTyped PROVE IsFiniteSet(Hole) /\ Cardinality(Hole) \in Nat
<1>1. Len(messages) \in Nat /\ Hole \subseteq 1..Len(messages)
  BY DEF AgentTyped, Hole, Past, CallsAt
<1>2. IsFiniteSet(1..Len(messages))
  BY <1>1, FS_Interval
<1>3. IsFiniteSet(Hole)
  BY <1>1, <1>2, FS_Subset
<1>4. QED
  BY <1>3, FS_CardinalityType

LEMMA AnswersStep == AgentTyped /\ AnswersInv /\ [Next]_vars => AnswersInv'
<1> SUFFICES ASSUME AgentTyped, AnswersInv, [Next]_vars PROVE AnswersInv'
  OBVIOUS
<1> DEFINE L == Len(messages)
<1>0. /\ L \in Nat /\ DOMAIN messages = 1..L /\ drops \in Nat
      /\ \A p \in CallsAt : messages[p].n \in Nat /\ messages[p].n >= 1 /\ p \in 1..L
      /\ \A p \in Past : Answered(p) \/ Unanswered(p)
  BY DEF AgentTyped, AnswersInv, CallsAt
(* A step that leaves the calls as they are.                               *)
<1>1. ASSUME NEW K, GoesOn(messages, messages', K), K \cap {"calls", "result"} = {},
             pc # "tools", pc' # "tools", drops' = drops
      PROVE  AnswersInv'
  <2>1. CallsAt' = CallsAt /\ Past = CallsAt /\ Past' = CallsAt
    BY <1>0, <1>1, KeptCalls DEF Past, Pending
  <2>2. ASSUME NEW p \in CallsAt
        PROVE  /\ messages'[p] = messages[p] /\ (Answered(p) => Answered(p)')
               /\ Unanswered(p)' <=> Unanswered(p)
    <3>1. p \in DOMAIN messages
      BY <1>0
    <3>2. QED
      BY <1>0, <1>1, <3>1, Kept, KeptCalls
  <2>3. Hole' = Hole
    BY <2>1, <2>2 DEF Hole
  <2>4. QED
    BY <1>0, <1>1, <2>1, <2>2, <2>3 DEF AnswersInv
<1>2. CASE StartRun
  BY <1>1, <1>2, Started DEF StartRun
<1>3. CASE ModelEnds
  BY <1>1, <1>3, Ended DEF ModelEnds
<1>4. CASE ModelFails
  <2>1. pc # "tools" /\ pc' # "tools" /\ messages' = messages /\ drops' = drops
    BY <1>4 DEF ModelFails
  <2>2. CallsAt' = CallsAt /\ Pending = {} /\ Pending' = {}
    BY <2>1 DEF CallsAt, Pending
  <2>3. Past' = Past
    BY <2>2 DEF Past
  <2>4. \A p : (Answered(p)' <=> Answered(p)) /\ (Unanswered(p)' <=> Unanswered(p))
    BY <2>1 DEF Answered, Unanswered, ResultAt
  <2>5. Hole' = Hole
    BY <2>3, <2>4 DEF Hole
  <2>6. QED
    BY <2>1, <2>2, <2>3, <2>4, <2>5 DEF AnswersInv
<1>5. CASE ModelNudged
  <2>1. pc # "tools" /\ pc' # "tools" /\ drops' = drops
    BY <1>5, Nudged DEF ModelNudged
  <2>2. QED
    BY <1>1, <1>5, <2>1, Nudged
<1>6. ASSUME NEW n \in 1..MaxCalls, ModelCalls(n) PROVE AnswersInv'
  <2>1. /\ GoesOn(messages, messages', {"calls"}) /\ Len(messages') = L + 1
        /\ messages'[L + 1].kind = "calls" /\ messages'[L + 1].n = n
        /\ Len(calls') = n /\ results' = <<>> /\ n \in Nat /\ n >= 1
    BY <1>6, Called
  <2>2. pc = "llm" /\ pc' = "tools" /\ drops' = drops
    BY <1>6 DEF ModelCalls
  <2>3. /\ DOMAIN messages' = 1..(L + 1) /\ L + 1 \in CallsAt' /\ Past = CallsAt
        /\ CallsAt' \cap (1..L) = CallsAt
    BY <1>0, <2>1, <2>2, KeptCalls DEF CallsAt, GoesOn, Past, Pending
  <2>4. Past' = CallsAt /\ CallsAt' = CallsAt \cup {L + 1}
    <3>1. CallsAt' \subseteq 1..(L + 1)
      BY <2>3 DEF CallsAt
    <3>2. CallsAt' = CallsAt \cup {L + 1}
      <4>1. 1..(L + 1) = (1..L) \cup {L + 1}
        BY <1>0
      <4>2. CallsAt \subseteq 1..L
        BY <1>0
      <4>3. QED
        BY <2>3, <3>1, <4>1, <4>2
    <3>3. Past' = CallsAt' \ {L + 1}
      BY <2>1, <2>2 DEF Past, Pending
    <3>4. QED
      BY <1>0, <3>2, <3>3
  <2>5. ASSUME NEW p \in CallsAt
        PROVE  /\ messages'[p] = messages[p] /\ (Answered(p) => Answered(p)')
               /\ Unanswered(p)' <=> Unanswered(p)
    <3>1. p \in DOMAIN messages
      BY <1>0
    <3>2. QED
      BY <1>0, <2>1, <3>1, Kept, KeptCalls
  <2>6. Hole' = Hole
    BY <2>3, <2>4, <2>5 DEF Hole
  <2>7. \A p \in CallsAt' : messages'[p].n \in Nat /\ messages'[p].n >= 1
    BY <1>0, <2>1, <2>4, <2>5
  <2>8. \A p \in Past' : Answered(p)' \/ Unanswered(p)'
    BY <1>0, <2>3, <2>4, <2>5
  <2>9. \A i \in 1..Len(results') : results'[i].n = i
    BY <2>1
  <2>10. QED
    BY <2>1, <2>2, <2>3, <2>6, <2>7, <2>8, <2>9 DEF AnswersInv
(* A step that leaves the conversation alone and goes on with the batch.   *)
<1>7. ASSUME UNCHANGED <<pc, messages, drops>>, Len(calls') = Len(calls),
             pc = "tools" => \A i \in 1..Len(results') : results'[i].n = i
      PROVE  AnswersInv'
  BY <1>7 DEF AnswersInv, Past, Pending, Hole, CallsAt, Answered, Unanswered, ResultAt
<1>8. CASE RunTask
  <2>1. Len(calls') = Len(calls)
    BY <1>8, TaskStep DEF RunTask, AgentTyped
  <2>2. QED
    BY <1>7, <1>8, <2>1 DEF RunTask, AnswersInv
<1>9. CASE Join
  <2> DEFINE S == [kind : {"result"}, n : 1..MaxCalls, bad : BOOLEAN]
  <2>1. /\ pc = "tools" /\ UNCHANGED <<pc, messages, calls, drops>>
        /\ results' = Append(results, Msg("result", Len(results) + 1, calls[Len(results) + 1].bad))
    BY <1>9 DEF Join
  <2>2. results \in Seq(S)
    BY DEF AgentTyped
  <2> HIDE DEF S
  <2>3. /\ Len(results) \in Nat /\ Len(results') = Len(results) + 1
        /\ results'[Len(results) + 1] = Msg("result", Len(results) + 1, calls[Len(results) + 1].bad)
        /\ \A i \in 1..Len(results) : results'[i] = results[i]
    BY <2>1, <2>2
  <2>4. results'[Len(results) + 1].n = Len(results) + 1
    BY <2>3 DEF Msg
  <2>5. \A i \in 1..Len(results') : results'[i].n = i
    BY <2>1, <2>3, <2>4 DEF AnswersInv
  <2>6. QED
    BY <1>7, <2>1, <2>5
<1>10. CASE FinishBatch
  <2> DEFINE K == {"result", "reflection", "warning", "limit"}
  <2>1. /\ GoesOn(messages, messages', K) /\ L + Len(results) <= Len(messages')
        /\ Len(results) = Len(calls) /\ pc' # "tools"
        /\ \A i \in 1..Len(results) : messages'[L + i] = results[i]
    BY <1>10, Finished
  <2>2. pc = "tools" /\ drops' = drops
    BY <1>10 DEF FinishBatch
  <2>a. Len(calls) \in Nat /\ Len(calls) >= 1 /\ L \in CallsAt /\ messages[L].n = Len(calls)
    BY <1>0, <2>2 DEF AnswersInv, AgentTyped
  <2>b. PICK l \in CallsAt : l = L
    BY <2>a
  <2>c. CallsAt' = CallsAt
    BY <1>0, <2>1, KeptCalls
  <2>d. Past' = CallsAt' /\ Past = CallsAt \ {l}
    BY <2>1, <2>2, <2>b DEF Past, Pending
  <2>3. /\ CallsAt' = CallsAt /\ Past' = CallsAt' /\ Past = CallsAt \ {l}
        /\ messages[l].n = Len(calls)
        /\ DOMAIN messages' = 1..Len(messages') /\ Len(messages') \in Nat
    BY <2>1, <2>a, <2>b, <2>c, <2>d DEF GoesOn
  <2>4. ASSUME NEW p \in CallsAt PROVE messages'[p] = messages[p]
    <3>1. p \in DOMAIN messages
      BY <1>0
    <3>2. QED
      BY <2>1, <3>1, Kept
  <2>5. ASSUME NEW p \in Past
        PROVE  (Answered(p) => Answered(p)') /\ (Unanswered(p)' <=> Unanswered(p))
    <3>1. p \in CallsAt /\ p < L
      BY <1>0, <2>3, <2>b
    <3>2. QED
      BY <1>0, <2>1, <3>1, KeptCalls
  <2>6. ASSUME NEW i \in 1..Len(calls) PROVE ResultAt(l, i)'
    <3>1. l + i \in DOMAIN messages'
      BY <1>0, <2>1, <2>3, <2>a, <2>b
    <3>2. messages'[l + i] = results[i] /\ results[i].n = i
      BY <2>1, <2>2, <2>b DEF AnswersInv
    <3>3. results[i].kind = "result"
      <4> DEFINE S == [kind : {"result"}, n : 1..MaxCalls, bad : BOOLEAN]
      <4>1. results \in Seq(S)
        BY DEF AgentTyped
      <4>2. \A x \in S : x.kind = "result"
        OBVIOUS
      <4> HIDE DEF S
      <4>3. results[i] \in S
        BY <2>1, <4>1
      <4>4. QED
        BY <4>2, <4>3
    <3>4. QED
      BY <3>1, <3>2, <3>3 DEF ResultAt
  <2>7. Answered(l)' /\ ~Unanswered(l)'
    <3>1. messages'[l].n = Len(calls) /\ 1 \in 1..Len(calls)
      BY <2>3, <2>4, <2>a
    <3>2. QED
      BY <2>6, <3>1 DEF Answered, Unanswered
  <2>8. Hole' = Hole
    BY <2>3, <2>5, <2>7 DEF Hole
  <2>9. \A p \in Past' : Answered(p)' \/ Unanswered(p)'
    BY <1>0, <2>3, <2>5, <2>7
  <2>10. \A p \in CallsAt' : messages'[p].n \in Nat /\ messages'[p].n >= 1
    BY <1>0, <2>3, <2>4
  <2>11. QED
    BY <2>1, <2>2, <2>8, <2>9, <2>10 DEF AnswersInv
<1>11. CASE Drop
  <2>1. UNCHANGED messages /\ pc' = "idle" /\ drops' = drops + 1
    BY <1>11 DEF Drop
  <2>2. /\ CallsAt' = CallsAt /\ Past' = CallsAt
        /\ \A p \in CallsAt : (Answered(p)' <=> Answered(p)) /\ (Unanswered(p)' <=> Unanswered(p))
    BY <2>1 DEF CallsAt, Past, Pending, Answered, Unanswered, ResultAt
  <2>3. \A p \in CallsAt : p \in Past \/ p = L
    BY DEF Past, Pending
  <2>4. Unanswered(L)
    BY <1>0 DEF Unanswered, ResultAt
  <2>5. Hole' \subseteq Hole \cup {L}
    BY <2>2, <2>3 DEF Hole
  <2>6. /\ IsFiniteSet(Hole) /\ Cardinality(Hole) \in Nat
        /\ IsFiniteSet(Hole \cup {L}) /\ Cardinality(Hole \cup {L}) <= Cardinality(Hole) + 1
    <3>1. IsFiniteSet(Hole) /\ Cardinality(Hole) \in Nat
      BY HoleFinite
    <3>2. /\ IsFiniteSet(Hole \cup {L})
          /\ Cardinality(Hole \cup {L}) = IF L \in Hole THEN Cardinality(Hole)
                                          ELSE Cardinality(Hole) + 1
      BY <3>1, FS_AddElement
    <3>3. QED
      BY <3>1, <3>2
  <2>7. Cardinality(Hole') <= Cardinality(Hole \cup {L}) /\ Cardinality(Hole \cup {L}) \in Nat
        /\ Cardinality(Hole') \in Nat
    BY <2>5, <2>6, FS_Subset, FS_CardinalityType
  <2>8. Cardinality(Hole') <= drops'
    BY <1>0, <2>1, <2>6, <2>7 DEF AnswersInv
  <2>9. \A p \in Past' : Answered(p)' \/ Unanswered(p)'
    BY <1>0, <2>2, <2>3, <2>4
  <2>10. \A p \in CallsAt' : messages'[p].n \in Nat /\ messages'[p].n >= 1
    BY <1>0, <2>1, <2>2
  <2>11. QED
    BY <2>1, <2>8, <2>9, <2>10 DEF AnswersInv
<1>12. ASSUME NEW k \in DOMAIN detached, RunDetachedTask(k) PROVE AnswersInv'
  BY <1>7, <1>12 DEF RunDetachedTask, AnswersInv
<1>13. CASE UNCHANGED vars
  BY <1>7, <1>13 DEF vars, AnswersInv
<1>14. QED
  BY <1>2, <1>3, <1>4, <1>5, <1>6, <1>8, <1>9, <1>10, <1>11, <1>12, <1>13 DEF Next, Ask

-----------------------------------------------------------------------------
(* The errors of a run.  While it goes on, all calls since its user's      *)
(* message are answered, and the counter bounds the failed batches that no *)
(* clean batch and no reflection has followed.                             *)
IsLastUser(u) ==
  /\ u \in DOMAIN messages /\ messages[u].kind = "user"
  /\ \A q \in DOMAIN messages : q > u => messages[q].kind # "user"

Settled(q) == messages[q].kind = "reflection" \/ (messages[q].kind = "calls" /\ ~Failed(q))

Open ==
  {p \in Past : p > LastUser /\ \A q \in p..Len(messages) : q \notin Pending => ~Settled(q)}

RunInv ==
  /\ pc # "idle" =>
       IsLastUser(LastUser) /\ \A p \in Past : p > LastUser => Answered(p)
  /\ pc \in {"llm", "tools"} => Cardinality(Open) <= consecutive_errors

LEMMA LastUserIs ==
  ASSUME messages \in Seq(Message), NEW u, IsLastUser(u) PROVE u = LastUser
<1>1. ASSUME NEW v, IsLastUser(v) PROVE v = u
  BY <1>1 DEF IsLastUser
<1>2. IsLastUser(LastUser)
  BY DEF LastUser, IsLastUser
<1>3. QED
  BY <1>1, <1>2

LEMMA LastUserKept ==
  ASSUME NEW K, GoesOn(messages, messages', K), "user" \notin K, IsLastUser(LastUser)
  PROVE  LastUser' = LastUser /\ IsLastUser(LastUser)'
<1>1. /\ Len(messages) \in Nat /\ Len(messages') \in Nat /\ Len(messages) <= Len(messages')
      /\ DOMAIN messages = 1..Len(messages) /\ DOMAIN messages' = 1..Len(messages')
      /\ \A j \in 1..Len(messages) : messages'[j] = messages[j]
      /\ \A j \in (Len(messages) + 1)..Len(messages') : messages'[j].kind \in K
      /\ messages' \in Seq(Message)
  BY DEF GoesOn
<1>2. PICK u \in DOMAIN messages : u = LastUser
  BY DEF IsLastUser
<1>3. /\ u \in DOMAIN messages' /\ messages'[u].kind = "user"
      /\ \A q \in DOMAIN messages' : q > u => messages'[q].kind # "user"
  <2>1. u \in 1..Len(messages') /\ messages'[u] = messages[u] /\ messages[u].kind = "user"
    BY <1>1, <1>2 DEF IsLastUser
  <2>2. ASSUME NEW q \in DOMAIN messages', q > u PROVE messages'[q].kind # "user"
    <3>1. CASE q <= Len(messages)
      BY <1>1, <1>2, <2>2, <3>1 DEF IsLastUser
    <3>2. CASE q > Len(messages)
      BY <1>1, <3>2
    <3>3. QED
      BY <1>1, <3>1, <3>2
  <2>3. QED
    BY <1>1, <2>1, <2>2
<1>4. ASSUME NEW v \in DOMAIN messages', messages'[v].kind = "user",
             \A q \in DOMAIN messages' : q > v => messages'[q].kind # "user"
      PROVE  v = u
  BY <1>1, <1>3, <1>4
<1>5. LastUser' = u
  BY <1>3, <1>4 DEF LastUser
<1>6. QED
  BY <1>2, <1>3, <1>5 DEF IsLastUser

(* What settles a run stays as it is.                                      *)
LEMMA SettledKept ==
  ASSUME AgentTyped, AnswersInv, RunInv, pc # "idle", NEW K, GoesOn(messages, messages', K),
         NEW q \in DOMAIN messages, q \notin Pending, q > LastUser
  PROVE  Settled(q)' <=> Settled(q)
<1>1. messages'[q] = messages[q] /\ q \in Nat /\ DOMAIN messages = 1..Len(messages)
  BY Kept DEF AgentTyped
<1>2. ASSUME messages[q].kind = "calls" PROVE Failed(q)' <=> Failed(q)
  <2>1. q \in Past /\ Answered(q) /\ messages[q].n \in Nat
    BY <1>2 DEF Past, CallsAt, RunInv, AnswersInv
  <2>2. ASSUME NEW i \in 1..messages[q].n PROVE messages'[q + i] = messages[q + i]
    <3>1. q + i \in DOMAIN messages
      BY <2>1, <2>2 DEF Answered, ResultAt
    <3>2. QED
      BY <1>1, <3>1 DEF GoesOn
  <2>3. QED
    BY <1>1, <2>1, <2>2 DEF Failed
<1>3. QED
  BY <1>1, <1>2 DEF Settled

LEMMA OpenFinite ==
  ASSUME AgentTyped PROVE IsFiniteSet(Open) /\ Cardinality(Open) \in Nat
<1>1. Len(messages) \in Nat /\ Open \subseteq 1..Len(messages)
  BY DEF AgentTyped, Open, Past, CallsAt
<1>2. IsFiniteSet(1..Len(messages))
  BY <1>1, FS_Interval
<1>3. IsFiniteSet(Open)
  BY <1>1, <1>2, FS_Subset
<1>4. QED
  BY <1>3, FS_CardinalityType

LEMMA RunStep == AgentTyped /\ AnswersInv /\ RunInv /\ [Next]_vars => RunInv'
<1> SUFFICES ASSUME AgentTyped, AnswersInv, RunInv, [Next]_vars PROVE RunInv'
  OBVIOUS
<1> DEFINE L == Len(messages)
<1>0. /\ L \in Nat /\ DOMAIN messages = 1..L /\ messages \in Seq(Message)
      /\ \A p \in CallsAt : messages[p].n \in Nat /\ p \in 1..L
  BY DEF AgentTyped, AnswersInv, CallsAt
<1>c. /\ consecutive_errors \in Nat /\ MaxErrors \in Nat \ {0}
      /\ IsFiniteSet(Open) /\ Cardinality(Open) \in Nat
  BY OpenFinite, AgentAssumption DEF AgentTyped
<1>1. CASE StartRun
  <2>1. /\ GoesOn(messages, messages', {"user"}) /\ Len(messages') = L + 1
        /\ messages'[L + 1].kind = "user" /\ pc' = "llm"
    BY <1>1, Started
  <2>2. DOMAIN messages' = 1..(L + 1) /\ messages' \in Seq(Message)
    BY <1>0, <2>1 DEF GoesOn
  <2>3. PICK u \in Nat : u = L + 1
    BY <1>0
  <2>4. IsLastUser(u)'
    BY <1>0, <2>1, <2>2, <2>3 DEF IsLastUser
  <2>5. LastUser' = u
    <3>1. ASSUME NEW v \in DOMAIN messages', messages'[v].kind = "user",
                 \A q \in DOMAIN messages' : q > v => messages'[q].kind # "user"
          PROVE  v = u
      BY <1>0, <2>2, <2>3, <2>4, <3>1 DEF IsLastUser
    <3>2. QED
      BY <2>4, <3>1 DEF LastUser, IsLastUser
  <2>6. \A p \in Past' : ~(p > LastUser')
    BY <1>0, <2>2, <2>3, <2>5 DEF Past, CallsAt
  <2>7. Open' = {}
    BY <2>6 DEF Open
  <2>8. Cardinality(Open') = 0 /\ consecutive_errors' = 0
    BY <1>1, <2>7, FS_EmptySet DEF StartRun
  <2>9. QED
    BY <2>4, <2>5, <2>6, <2>8 DEF RunInv
<1>2. CASE pc' = "idle"
  BY <1>2 DEF RunInv
(* A step that goes on with the run and leaves its errors as they are.     *)
<1>3. ASSUME NEW K, GoesOn(messages, messages', K), "user" \notin K, "result" \notin K,
             pc # "idle", Past' = Past, pc' \in {"llm", "tools"} => pc \in {"llm", "tools"},
             \A q \in DOMAIN messages : q \notin Pending => q \notin Pending',
             consecutive_errors' = consecutive_errors
      PROVE  RunInv'
  <2>1. LastUser' = LastUser /\ IsLastUser(LastUser)' /\ LastUser \in Nat
    BY <1>0, <1>3, LastUserKept DEF RunInv, IsLastUser
  <2>2. ASSUME NEW p \in Past, p > LastUser PROVE Answered(p)'
    BY <1>0, <1>3, <2>2, KeptCalls DEF RunInv, Past
  <2>3. Open' \subseteq Open
    <3>1. ASSUME NEW p \in Open' PROVE p \in Open
      <4>1. p \in Past /\ p > LastUser /\ p \in 1..L
            /\ \A q \in p..Len(messages') : q \notin Pending' => ~Settled(q)'
        BY <1>0, <1>3, <2>1 DEF Open, Past
      <4>2. ASSUME NEW q \in p..L, q \notin Pending PROVE ~Settled(q)
        <5>1. q \in DOMAIN messages /\ q > LastUser /\ q \in p..Len(messages')
          BY <1>0, <1>3, <2>1, <4>1 DEF GoesOn
        <5>2. Settled(q)' <=> Settled(q)
          BY <1>3, <4>2, <5>1, SettledKept
        <5>3. QED
          BY <1>3, <4>1, <4>2, <5>1, <5>2
      <4>3. QED
        BY <4>1, <4>2 DEF Open
    <3>2. QED
      BY <3>1
  <2>4. Cardinality(Open') <= Cardinality(Open) /\ Cardinality(Open') \in Nat
    BY <1>c, <2>3, FS_Subset, FS_CardinalityType
  <2>5. pc' \in {"llm", "tools"} => Cardinality(Open') <= consecutive_errors'
    BY <1>c, <1>3, <2>4 DEF RunInv
  <2>6. QED
    BY <1>3, <2>1, <2>2, <2>5 DEF RunInv
<1>4. CASE ModelNudged
  <2>1. GoesOn(messages, messages', {"assistant", "nudge", "warning", "limit"})
        /\ pc' \in {"llm", "final"}
    BY <1>4, Nudged
  <2>2. pc = "llm" /\ consecutive_errors' = consecutive_errors
    BY <1>4 DEF ModelNudged
  <2>3. CallsAt' = CallsAt
    BY <1>0, <2>1, KeptCalls
  <2>4. Past' = Past /\ Pending' = {}
    BY <2>1, <2>2, <2>3 DEF Past, Pending
  <2>5. QED
    BY <1>3, <2>1, <2>2, <2>4
<1>5. ASSUME NEW n \in 1..MaxCalls, ModelCalls(n) PROVE RunInv'
  <2>1. GoesOn(messages, messages', {"calls"}) /\ Len(messages') = L + 1
    BY <1>5, Called
  <2>2. pc = "llm" /\ pc' = "tools" /\ consecutive_errors' = consecutive_errors
    BY <1>5 DEF ModelCalls
  <2>3. CallsAt' \cap (1..L) = CallsAt /\ CallsAt' \subseteq 1..(L + 1)
    BY <1>0, <2>1, KeptCalls DEF CallsAt, GoesOn
  <2>4. 1..(L + 1) = (1..L) \cup {L + 1} /\ L + 1 \notin 1..L
    BY <1>0
  <2>5. Past' = CallsAt' \ {L + 1} /\ Past = CallsAt /\ Pending' = {L + 1}
    BY <2>1, <2>2 DEF Past, Pending
  <2>6. Past' = Past
    BY <2>3, <2>4, <2>5
  <2>7. \A q \in DOMAIN messages : q \notin Pending'
    BY <1>0, <2>5
  <2>8. QED
    BY <1>3, <2>1, <2>2, <2>6, <2>7
<1>6. ASSUME UNCHANGED <<pc, messages, consecutive_errors>> PROVE RunInv'
  BY <1>6 DEF RunInv, Open, Past, Pending, CallsAt, Settled, Failed, Answered, ResultAt,
     LastUser, IsLastUser
<1>7. CASE FinishBatch
  <2> DEFINE K == {"result", "reflection", "warning", "limit"}
             m == L + Len(results)
  <2>1. /\ GoesOn(messages, messages', K) /\ m <= Len(messages')
        /\ Len(results) = Len(calls) /\ pc' \in {"llm", "final"}
        /\ \A i \in 1..Len(results) : messages'[L + i] = results[i]
        /\ MustReflect(CountErrors) =>
             m + 1 <= Len(messages') /\ messages'[m + 1].kind = "reflection"
    BY <1>7, Finished
  <2>2. /\ pc = "tools"
        /\ consecutive_errors' = IF MustReflect(CountErrors) THEN 0 ELSE CountErrors
    BY <1>7 DEF FinishBatch
  <2>3. /\ Len(calls) \in Nat /\ L \in CallsAt /\ messages[L].n = Len(calls)
        /\ Len(messages') \in Nat /\ DOMAIN messages' = 1..Len(messages')
    BY <2>1, <2>2 DEF AnswersInv, AgentTyped, GoesOn
  <2>4. PICK l \in CallsAt : l = L
    BY <2>3
  <2>5. CallsAt' = CallsAt /\ Past' = CallsAt /\ Past = CallsAt \ {l} /\ Pending = {l}
        /\ Pending' = {}
    <3>1. GoesOn(messages, messages', K) /\ "calls" \notin K
      BY <2>1
    <3>2. CallsAt' = CallsAt
      BY <1>0, <3>1, KeptCalls
    <3>3. pc = "tools" /\ pc' # "tools"
      BY <2>1, <2>2
    <3>4. Pending = {L} /\ Pending' = {}
      BY <3>3 DEF Pending
    <3>5. QED
      BY <2>4, <3>2, <3>4 DEF Past
  <2>6. LastUser' = LastUser /\ IsLastUser(LastUser)' /\ LastUser \in Nat
    <3>1. GoesOn(messages, messages', K) /\ "user" \notin K
      BY <2>1
    <3>2. IsLastUser(LastUser)
      BY <2>2 DEF RunInv
    <3>3. LastUser \in Nat
      BY <1>0, <3>2 DEF IsLastUser
    <3>4. QED
      BY <3>1, <3>2, <3>3, LastUserKept
  <2>7. messages'[l] = messages[l] /\ messages'[l].n = Len(results) /\ messages'[l].kind = "calls"
    BY <2>1, <2>3, <2>4, Kept DEF CallsAt
  <2>8. ASSUME NEW p \in CallsAt, p > LastUser PROVE Answered(p)'
    <3>1. CASE p = l
      <4>1. Past' = CallsAt' /\ (Answered(p)' \/ Unanswered(p)')
        BY <2>5, AnswersStep DEF AnswersInv
      <4>2. Len(calls) >= 1
        BY <2>2 DEF AgentTyped
      <4>3. ResultAt(p, 1)'
        <5>1. /\ l + 1 \in DOMAIN messages' /\ messages'[l + 1] = results[1]
              /\ 1 \in 1..Len(results)
          BY <1>0, <2>1, <2>3, <2>4, <4>2
        <5>2. results[1].n = 1
          BY <2>2, <5>1 DEF AnswersInv
        <5>3. results[1].kind = "result"
          <6> DEFINE S == [kind : {"result"}, n : 1..MaxCalls, bad : BOOLEAN]
          <6>1. results \in Seq(S) /\ \A x \in S : x.kind = "result"
            BY DEF AgentTyped
          <6> HIDE DEF S
          <6>2. results[1] \in S
            BY <5>1, <6>1
          <6>3. QED
            BY <6>1, <6>2
        <5>4. QED
          BY <3>1, <5>1, <5>2, <5>3 DEF ResultAt
      <4>4. QED
        BY <4>1, <4>3 DEF Unanswered
    <3>2. CASE p # l
      <4>1. p \in Past /\ Answered(p)
        BY <2>2, <2>5, <2>8, <3>2 DEF RunInv
      <4>2. QED
        BY <1>0, <2>1, <4>1, KeptCalls
    <3>3. QED
      BY <3>1, <3>2
  <2>9. Failed(l)' <=> \E i \in DOMAIN results : results[i].bad
    <3>1. DOMAIN results = 1..Len(results)
      BY DEF AgentTyped
    <3>2. \A i \in 1..Len(results) : messages'[l + i] = results[i]
      BY <2>1, <2>4
    <3>3. QED
      BY <2>7, <3>1, <3>2 DEF Failed
  <2>10. ASSUME NEW p \in Open'
         PROVE  /\ p \in CallsAt /\ p > LastUser /\ p \in 1..L
                /\ \A q \in p..Len(messages') : ~Settled(q)'
    BY <1>0, <2>5, <2>6 DEF Open
  <2>11. CASE MustReflect(CountErrors)
    <3>1. PICK r \in Nat : r = m + 1
      BY <1>0, <2>1, <2>3
    <3>2. Settled(r)' /\ r > L /\ r <= Len(messages')
      BY <1>0, <2>1, <2>3, <2>11, <3>1 DEF Settled
    <3>3. \A p \in Open' : r \in p..Len(messages')
      BY <1>0, <2>3, <2>10, <3>2
    <3>4. Open' = {}
      BY <2>10, <3>2, <3>3
    <3>5. Cardinality(Open') = 0 /\ consecutive_errors' = 0
      BY <2>2, <2>11, <3>4, FS_EmptySet
    <3>6. QED
      BY <2>5, <2>6, <2>8, <3>5 DEF RunInv
  <2>12. CASE ~\E i \in DOMAIN results : results[i].bad
    <3>1. Settled(l)'
      BY <2>7, <2>9, <2>12 DEF Settled
    <3>2. \A p \in Open' : l \in p..Len(messages')
      BY <1>0, <2>3, <2>1, <2>4, <2>10 DEF GoesOn
    <3>3. Open' = {}
      BY <2>10, <3>1, <3>2
    <3>4. Cardinality(Open') = 0 /\ consecutive_errors' = 0
      BY <2>2, <2>12, <3>3, FS_EmptySet DEF CountErrors
    <3>5. QED
      BY <2>5, <2>6, <2>8, <3>4 DEF RunInv
  <2>13. CASE ~MustReflect(CountErrors) /\ \E i \in DOMAIN results : results[i].bad
    <3>1. consecutive_errors' = consecutive_errors + 1
      BY <2>2, <2>13 DEF CountErrors
    <3>2. Open' \subseteq Open \cup {l}
      <4>1. ASSUME NEW p \in Open', p # l PROVE p \in Open
        <5>1. p \in Past
          BY <2>5, <2>10, <4>1
        <5>2. ASSUME NEW q \in p..L, q \notin Pending PROVE ~Settled(q)
          <6>1. q \in DOMAIN messages /\ q > LastUser /\ q \in p..Len(messages')
            BY <1>0, <2>1, <2>6, <2>10, <5>2 DEF GoesOn
          <6>2. Settled(q)' <=> Settled(q)
            BY <2>1, <2>2, <5>2, <6>1, SettledKept
          <6>3. QED
            BY <2>10, <6>1, <6>2
        <5>3. QED
          BY <2>10, <5>1, <5>2 DEF Open
      <4>2. QED
        BY <4>1
    <3>3. /\ IsFiniteSet(Open \cup {l})
          /\ Cardinality(Open \cup {l}) = IF l \in Open THEN Cardinality(Open)
                                          ELSE Cardinality(Open) + 1
      BY <1>c, FS_AddElement
    <3>4. Cardinality(Open') <= Cardinality(Open \cup {l}) /\ IsFiniteSet(Open')
      BY <3>2, <3>3, FS_Subset
    <3>5. Cardinality(Open') \in Nat /\ Cardinality(Open) <= consecutive_errors
      BY <2>2, <3>4, FS_CardinalityType DEF RunInv
    <3>6. Cardinality(Open') <= consecutive_errors'
      BY <1>c, <3>1, <3>3, <3>4, <3>5
    <3>7. QED
      BY <2>5, <2>6, <2>8, <3>6 DEF RunInv
  <2>14. QED
    BY <2>11, <2>12, <2>13
<1>8. CASE ModelEnds \/ ModelFails \/ Drop
  BY <1>2, <1>8 DEF ModelEnds, ModelFails, Drop
<1>9. CASE RunTask \/ Join \/ (\E k \in DOMAIN detached : RunDetachedTask(k)) \/ UNCHANGED vars
  BY <1>6, <1>9 DEF RunTask, Join, RunDetachedTask, vars
<1>10. QED
  BY <1>1, <1>4, <1>5, <1>7, <1>8, <1>9 DEF Next, Ask

-----------------------------------------------------------------------------
IInv == AgentTyped /\ AnswersInv /\ RunInv

LEMMA InitInv == Init => IInv
<1> SUFFICES ASSUME Init PROVE IInv
  OBVIOUS
<1>1. AgentTyped
  BY AgentAssumption DEF Init, AgentTyped
<1>2. CallsAt = {} /\ Past = {} /\ Hole = {}
  BY DEF Init, CallsAt, Past, Hole
<1>3. Cardinality(Hole) = 0
  BY <1>2, FS_EmptySet
<1>4. AnswersInv
  BY <1>2, <1>3 DEF Init, AnswersInv
<1>5. RunInv
  BY DEF Init, RunInv
<1>6. QED
  BY <1>1, <1>4, <1>5 DEF IInv

(* The inductive invariant holds in every reachable state.                 *)
THEOREM Invariance == Spec => []IInv
<1>1. IInv /\ [Next]_vars => IInv'
  BY TypeStep, AnswersStep, RunStep DEF IInv
<1>2. QED
  BY <1>1, InitInv, PTL DEF Spec

(* Every variable keeps its shape.                                         *)
THEOREM TypeCorrect == Spec => []TypeOK
<1>1. Task \subseteq Tasks
  BY DEF Task
<1>2. IInv => TypeOK
  <2> SUFFICES ASSUME IInv PROVE TypeOK
    OBVIOUS
  <2>1. calls \in Seq(Tasks) /\ Seq(Task) \subseteq Seq(Tasks)
    BY <1>1 DEF IInv, AgentTyped
  <2>2. detached \in Seq(Seq(Tasks))
    <3> DEFINE A == Seq(Task)
               B == Seq(Tasks)
    <3>1. A \subseteq B /\ detached \in Seq(A)
      BY <2>1 DEF IInv, AgentTyped
    <3> HIDE DEF A, B
    <3>2. detached \in Seq(B)
      BY <3>1
    <3>3. QED
      BY <3>2 DEF B
  <2>3. QED
    BY <2>1, <2>2 DEF IInv, AgentTyped, TypeOK, Message
<1>3. QED
  BY <1>2, Invariance, PTL

(* Whatever is dropped at whatever await, an answer that calls tools is    *)
(* followed by all their results or by none, and by none once per drop.    *)
THEOREM CallsGetResults == Spec => []CallsAnswered
<1>1. IInv => CallsAnswered
  <2> SUFFICES ASSUME AnswersInv, pc # "tools"
               PROVE  /\ \A p \in CallsAt : Answered(p) \/ Unanswered(p)
                      /\ Cardinality({p \in CallsAt : Unanswered(p)}) <= drops
    BY DEF IInv, CallsAnswered
  <2>1. Past = CallsAt
    BY DEF Past, Pending
  <2>2. QED
    BY <2>1 DEF AnswersInv, Hole
<1>2. QED
  BY <1>1, Invariance, PTL

(* The model is never asked after MaxErrors failed batches of a run in a   *)
(* row without a reflection, though the counter survives answers that were *)
(* cut off, and the batches of earlier runs stay in the conversation.      *)
THEOREM ErrorsAreReflected == Spec => []ErrorsReflected
<1>1. IInv => ErrorsReflected
  <2> SUFFICES ASSUME IInv, pc = "llm" PROVE ErrorsReflected
    BY DEF ErrorsReflected
  <2>1. Past = CallsAt /\ Pending = {}
    BY DEF Past, Pending
  <2>2. /\ Cardinality(Open) <= consecutive_errors /\ Cardinality(Open) \in Nat
        /\ consecutive_errors \in 0..(MaxErrors - 1)
    BY OpenFinite DEF IInv, RunInv, AgentTyped
  <2>3. Cardinality(Open) < MaxErrors
    BY <2>2, AgentAssumption
  <2>4. QED
    BY <2>1, <2>3 DEF ErrorsReflected, Open, Settled
<1>2. QED
  BY <1>1, Invariance, PTL

=============================================================================
