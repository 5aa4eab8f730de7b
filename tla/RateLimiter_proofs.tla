------------------------ MODULE RateLimiter_proofs ------------------------
(***************************************************************************)
(* The rate limiter keeps its promise for any number of clients and any    *)
(* limit, window, lockout and pruning parameters with Window <= Lockout.   *)
(***************************************************************************)
EXTENDS RateLimiter, FiniteSetTheorems, TLAPS

(* A granted attempt is still in its record, or the window has left it.    *)
Covered ==
  \A ip \in IPs : \A g \in granted[ip] :
    g \in attempts[ip] \/ g.at + Window <= clock

(* A lockout starts after everything granted before it.                    *)
LockoutCovers ==
  \A ip \in IPs : locked_until[ip] # NotLocked =>
    \A g \in granted[ip] : g.at + Lockout <= locked_until[ip]

(* Attempts come from the past, and a record holds only granted ones.      *)
History ==
  \A ip \in IPs :
    /\ IsFiniteSet(granted[ip])
    /\ attempts[ip] \subseteq granted[ip]
    /\ \A g \in granted[ip] : g.at <= clock /\ g.n <= serial

IInv == TypeOK /\ History /\ Covered /\ LockoutCovers /\ WindowBound

Past(ip) == {g \in granted[ip] : g.at > clock - Window}

-----------------------------------------------------------------------------
(* What a pruning drops was held and is stale.                             *)
LEMMA PrunableIsStale ==
  ASSUME NEW keys, NEW att, NEW locked,
         NEW gone \in Prunable(keys, att, locked)
  PROVE  gone \subseteq keys /\ \A ip \in gone : Stale(ip, att, locked)
<1>1. CASE Cardinality(keys) <= PruneAbove
  <2>1. gone = {}
    BY <1>1 DEF Prunable
  <2>2. QED
    BY <2>1
<1>2. CASE ~(Cardinality(keys) <= PruneAbove)
  <2>1. PICK scanned \in SUBSET keys :
          gone \in SUBSET {ip \in scanned : Stale(ip, att, locked)}
    BY <1>2, Zenon DEF Prunable
  <2>2. QED
    BY <2>1, Zenon
<1>3. QED
  BY <1>1, <1>2

(* The type invariant is preserved by every step.                          *)
LEMMA TypeStep ==
  ASSUME RateAssumption, TypeOK, [Next]_vars
  PROVE  TypeOK'
<1> USE DEF TypeOK, RateAssumption
<1>1. CASE Tick
  BY <1>1 DEF Tick
<1>2. ASSUME NEW ip \in IPs, CheckLocked(ip) PROVE TypeOK'
  BY <1>2 DEF CheckLocked, Call
<1>3. ASSUME NEW ip \in IPs, CheckOverLimit(ip) PROVE TypeOK'
  <2>1. Retained(ip) \in SUBSET Attempt
    BY DEF Retained
  <2>2. clock + Lockout \in Nat
    OBVIOUS
  <2>3. QED
    BY <1>3, <2>1, <2>2 DEF CheckOverLimit, Call
<1>4. ASSUME NEW ip \in IPs, CheckAllowed(ip) PROVE TypeOK'
  <2> DEFINE now == [n |-> serial + 1, at |-> clock]
             att == [attempts EXCEPT ![ip] = Retained(ip) \cup {now}]
             locked == [locked_until EXCEPT ![ip] = NotLocked]
             keys == records \cup {ip}
  <2>1. PICK gone \in Prunable(keys, att, locked) :
          /\ records' = keys \ gone
          /\ attempts' = [i \in IPs |-> IF i \in gone THEN {} ELSE att[i]]
          /\ locked_until' =
               [i \in IPs |-> IF i \in gone THEN NotLocked ELSE locked[i]]
    BY <1>4 DEF CheckAllowed
  <2>2. now \in Attempt
    BY DEF Attempt
  <2>3. Retained(ip) \in SUBSET Attempt
    BY DEF Retained
  <2>4. att \in [IPs -> SUBSET Attempt] /\ locked \in [IPs -> Nat]
    BY <2>2, <2>3 DEF NotLocked
  <2>5. records' \subseteq IPs
    BY <2>1
  <2>6. attempts' \in [IPs -> SUBSET Attempt]
    BY <2>1, <2>4
  <2>7. locked_until' \in [IPs -> Nat]
    BY <2>1, <2>4 DEF NotLocked
  <2>8. granted' \in [IPs -> SUBSET Attempt]
    BY <1>4, <2>2 DEF CheckAllowed
  <2>9. clock' \in Nat /\ serial' \in Nat
    BY <1>4 DEF CheckAllowed, Call
  <2>10. QED
    BY <2>5, <2>6, <2>7, <2>8, <2>9
<1>5. CASE UNCHANGED vars
  BY <1>5 DEF vars
<1>6. QED
  BY <1>1, <1>2, <1>3, <1>4, <1>5 DEF Next

(* Every variable keeps its shape in every behaviour.                      *)
THEOREM TypeCorrect == ASSUME RateAssumption PROVE Spec => []TypeOK
<1>1. Init => TypeOK
  BY DEF Init, TypeOK, NotLocked
<1>2. TypeOK /\ [Next]_vars => TypeOK'
  BY TypeStep
<1>3. QED
  BY <1>1, <1>2, PTL DEF Spec

-----------------------------------------------------------------------------
(* Outside a lockout the record holds exactly the granted attempts of the  *)
(* last window, although old ones and whole records have been dropped.     *)
LEMMA RetainedIsPast ==
  ASSUME RateAssumption, IInv, NEW ip \in IPs, ~LockedOut(ip)
  PROVE  Retained(ip) = Past(ip)
<1> USE DEF RateAssumption, IInv, TypeOK, Attempt
<1>1. CASE locked_until[ip] # NotLocked
  <2>1. locked_until[ip] <= clock
    BY <1>1 DEF LockedOut
  <2>2. ASSUME NEW g \in granted[ip] PROVE ~(g.at > clock - Window)
    <3>1. g.at \in Nat
      OBVIOUS
    <3>2. g.at + Lockout <= locked_until[ip]
      BY <1>1 DEF LockoutCovers
    <3>3. QED
      BY <2>1, <3>1, <3>2
  <2>3. Past(ip) = {}
    BY <2>2 DEF Past
  <2>4. QED
    BY <1>1, <2>3 DEF Retained
<1>2. CASE locked_until[ip] = NotLocked
  <2>1. ASSUME NEW g \in granted[ip], g.at > clock - Window
        PROVE  g \in attempts[ip]
    <3>1. g.at \in Nat
      OBVIOUS
    <3>2. ~(g.at + Window <= clock)
      BY <2>1, <3>1
    <3>3. QED
      BY <3>2 DEF Covered
  <2>2. attempts[ip] \subseteq granted[ip]
    BY DEF History
  <2>3. QED
    BY <1>2, <2>1, <2>2 DEF Retained, Past
<1>3. QED
  BY <1>1, <1>2

(* The records and lockouts a successful call leaves behind.               *)
LEMMA AllowedStep ==
  ASSUME RateAssumption, IInv, NEW ip \in IPs, CheckAllowed(ip)
  PROVE  LET now == [n |-> serial + 1, at |-> clock] IN
         /\ now \in Attempt
         /\ Retained(ip) = Past(ip)
         /\ Cardinality(Past(ip)) < MaxRequests
         /\ clock' = clock /\ serial' = serial + 1
         /\ granted' = [granted EXCEPT ![ip] = @ \cup {now}]
         /\ \A i \in IPs : attempts'[i] \subseteq granted'[i]
         /\ \A i \in IPs : \A g \in granted'[i] :
              g \in attempts'[i] \/ g.at + Window <= clock
         /\ \A i \in IPs : locked_until'[i] # locked_until[i] =>
              ~LockedOut(i) /\ locked_until'[i] = NotLocked
         /\ locked_until'[ip] = NotLocked
<1> USE DEF RateAssumption, IInv, TypeOK
<1> DEFINE now == [n |-> serial + 1, at |-> clock]
           att == [attempts EXCEPT ![ip] = Retained(ip) \cup {now}]
           locked == [locked_until EXCEPT ![ip] = NotLocked]
           keys == records \cup {ip}
<1>1. PICK gone \in Prunable(keys, att, locked) :
        /\ attempts' = [i \in IPs |-> IF i \in gone THEN {} ELSE att[i]]
        /\ locked_until' =
             [i \in IPs |-> IF i \in gone THEN NotLocked ELSE locked[i]]
  BY DEF CheckAllowed
<1>2. \A i \in gone : Stale(i, att, locked)
  BY <1>1, PrunableIsStale
<1>3. now \in Attempt
  BY DEF Attempt
<1>4. Retained(ip) = Past(ip)
  BY RetainedIsPast DEF CheckAllowed
<1>5. granted' = [granted EXCEPT ![ip] = @ \cup {now}]
  BY DEF CheckAllowed
<1>6. \A i \in IPs : att[i] \subseteq granted'[i]
  BY <1>4, <1>5 DEF History, Past
<1>7. \A i \in IPs : attempts'[i] \subseteq granted'[i]
  BY <1>1, <1>6
<1>8. ASSUME NEW i \in IPs, NEW g \in granted'[i]
      PROVE  g \in att[i] \/ g.at + Window <= clock
  <2>1. CASE i = ip
    <3>1. CASE g = now
      BY <2>1, <3>1
    <3>2. CASE g # now
      <4>1. g \in granted[ip] /\ g.at \in Nat
        BY <1>5, <2>1, <3>2 DEF Attempt
      <4>2. g \in Past(ip) \/ g.at + Window <= clock
        BY <4>1 DEF Past
      <4>3. QED
        BY <1>4, <2>1, <4>2
    <3>3. QED
      BY <3>1, <3>2
  <2>2. CASE i # ip
    BY <1>5, <2>2 DEF Covered
  <2>3. QED
    BY <2>1, <2>2
<1>9. ASSUME NEW i \in IPs, NEW g \in granted'[i]
      PROVE  g \in attempts'[i] \/ g.at + Window <= clock
  <2>1. CASE i \notin gone
    BY <1>1, <1>8, <2>1
  <2>2. CASE i \in gone /\ g \in att[i]
    <3>1. g.at <= clock - 2 * Window
      BY <1>2, <2>2 DEF Stale
    <3>2. g \in Attempt
      BY <1>3, <1>5
    <3>3. QED
      BY <3>1, <3>2 DEF Attempt
  <2>3. QED
    BY <1>8, <2>1, <2>2
<1>10. ASSUME NEW i \in IPs, locked_until'[i] # locked_until[i]
       PROVE  ~LockedOut(i) /\ locked_until'[i] = NotLocked
  <2>1. CASE i = ip
    BY <1>1, <2>1 DEF CheckAllowed
  <2>2. CASE i # ip
    <3>1. i \in gone /\ locked_until'[i] = NotLocked /\ locked[i] = locked_until[i]
      BY <1>1, <1>10, <2>2
    <3>2. locked[i] = NotLocked \/ locked[i] <= clock
      BY <1>2, <3>1 DEF Stale
    <3>3. QED
      BY <3>1, <3>2 DEF LockedOut
  <2>3. QED
    BY <2>1, <2>2
<1>11. locked_until'[ip] = NotLocked
  BY <1>1
<1>12. clock' = clock /\ serial' = serial + 1 /\ Cardinality(Retained(ip)) < MaxRequests
  BY DEF CheckAllowed, Call
<1>13. QED
  BY <1>3, <1>4, <1>5, <1>7, <1>9, <1>10, <1>11, <1>12

(* Granting one more request keeps every period within the limit.          *)
LEMMA GrantKeepsBound ==
  ASSUME RateAssumption, IInv, NEW ip \in IPs, CheckAllowed(ip)
  PROVE  WindowBound'
<1> USE DEF RateAssumption, IInv, TypeOK
<1> DEFINE now == [n |-> serial + 1, at |-> clock]
<1>1. /\ Cardinality(Past(ip)) < MaxRequests
      /\ clock' = clock
      /\ granted' = [granted EXCEPT ![ip] = @ \cup {now}]
  BY AllowedStep
<1> SUFFICES ASSUME NEW i \in IPs, NEW end \in 0..clock
             PROVE  Cardinality(InPeriod(i, end)') <= MaxRequests
  BY <1>1 DEF WindowBound, InPeriod
<1>2. CASE i # ip \/ end # clock
  <2>1. ASSUME NEW g, g \in granted'[i], end - Window < g.at, g.at <= end
        PROVE  g \in granted[i]
    BY <1>1, <1>2, <2>1
  <2>2. InPeriod(i, end)' = InPeriod(i, end)
    BY <1>1, <2>1 DEF InPeriod
  <2>3. QED
    BY <2>2 DEF WindowBound
<1>3. CASE i = ip /\ end = clock
  <2>1. IsFiniteSet(Past(ip)) /\ Cardinality(Past(ip)) \in Nat
    BY FS_Subset, FS_CardinalityType DEF History, Past
  <2>2. InPeriod(ip, clock)' \subseteq Past(ip) \cup {now}
    BY <1>1 DEF InPeriod, Past
  <2>3. /\ IsFiniteSet(Past(ip) \cup {now})
        /\ Cardinality(Past(ip) \cup {now}) <= Cardinality(Past(ip)) + 1
    <3> HIDE DEF now
    <3>1. /\ IsFiniteSet(Past(ip) \cup {now})
          /\ Cardinality(Past(ip) \cup {now}) =
               IF now \in Past(ip) THEN Cardinality(Past(ip)) ELSE Cardinality(Past(ip)) + 1
      BY <2>1, FS_AddElement, Zenon
    <3>2. QED
      BY <2>1, <3>1
  <2>4. Cardinality(InPeriod(ip, clock)') <= Cardinality(Past(ip) \cup {now})
    BY <2>2, <2>3, FS_Subset
  <2>5. /\ Cardinality(InPeriod(ip, clock)') \in Nat
        /\ Cardinality(Past(ip) \cup {now}) \in Nat
    BY <2>2, <2>3, FS_Subset, FS_CardinalityType
  <2>6. QED
    BY <1>1, <1>3, <2>1, <2>3, <2>4, <2>5
<1>4. QED
  BY <1>2, <1>3

(* When time passes the newest period holds nothing the one before it did  *)
(* not hold.                                                               *)
LEMMA TickKeepsBound ==
  ASSUME RateAssumption, IInv, Tick
  PROVE  WindowBound'
<1> USE DEF RateAssumption, IInv, TypeOK
<1>1. clock' = clock + 1 /\ granted' = granted
  BY DEF Tick
<1> SUFFICES ASSUME NEW i \in IPs, NEW end \in 0..clock + 1
             PROVE  Cardinality(InPeriod(i, end)') <= MaxRequests
  BY <1>1 DEF WindowBound, InPeriod
<1>2. CASE end \in 0..clock
  BY <1>1, <1>2 DEF WindowBound, InPeriod
<1>3. CASE end = clock + 1
  <2>1. ASSUME NEW g \in granted[i], end - Window < g.at, g.at <= end
        PROVE  clock - Window < g.at /\ g.at <= clock
    <3>1. g.at \in Nat /\ g.at <= clock
      BY DEF History, Attempt
    <3>2. QED
      BY <1>3, <2>1, <3>1
  <2>2. InPeriod(i, end)' \subseteq InPeriod(i, clock)
    BY <1>1, <2>1 DEF InPeriod
  <2>3. IsFiniteSet(InPeriod(i, clock))
    BY FS_Subset DEF History, InPeriod
  <2>4. Cardinality(InPeriod(i, end)') <= Cardinality(InPeriod(i, clock))
    BY <2>2, <2>3, FS_Subset
  <2>5. Cardinality(InPeriod(i, clock)) <= MaxRequests
    BY DEF WindowBound
  <2>6. /\ Cardinality(InPeriod(i, end)') \in Nat
        /\ Cardinality(InPeriod(i, clock)) \in Nat
    BY <2>2, <2>3, FS_Subset, FS_CardinalityType
  <2>7. QED
    BY <2>4, <2>5, <2>6
<1>4. QED
  BY <1>2, <1>3

(* The inductive invariant is preserved by every step.                     *)
LEMMA IInvStep ==
  ASSUME RateAssumption, IInv, [Next]_vars
  PROVE  IInv'
<1>1. TypeOK'
  BY TypeStep DEF IInv
<1> USE DEF RateAssumption, TypeOK
<1>2. CASE Tick
  <2> USE <1>2 DEF IInv, Tick
  <2>1. History'
    BY DEF History, Attempt
  <2>2. Covered'
    BY DEF Covered, Attempt
  <2>3. LockoutCovers'
    BY DEF LockoutCovers
  <2>4. QED
    BY <1>1, <2>1, <2>2, <2>3, TickKeepsBound
<1>3. ASSUME NEW ip \in IPs, CheckLocked(ip) PROVE IInv'
  <2> USE <1>3 DEF IInv, CheckLocked, Call
  <2>1. History'
    BY DEF History, Attempt
  <2>2. Covered' /\ LockoutCovers' /\ WindowBound'
    BY DEF Covered, LockoutCovers, WindowBound, InPeriod
  <2>3. QED
    BY <1>1, <2>1, <2>2
<1>4. ASSUME NEW ip \in IPs, CheckOverLimit(ip) PROVE IInv'
  <2>1. /\ Retained(ip) = Past(ip)
        /\ clock' = clock /\ serial' = serial + 1 /\ granted' = granted
        /\ attempts' = [attempts EXCEPT ![ip] = Past(ip)]
        /\ locked_until' = [locked_until EXCEPT ![ip] = clock + Lockout]
    BY <1>4, RetainedIsPast DEF CheckOverLimit, Call
  <2> USE DEF IInv
  <2>2. History'
    BY <2>1 DEF History, Attempt, Past
  <2>3. Covered'
    BY <2>1 DEF Covered, Attempt, Past
  <2>4. LockoutCovers'
    BY <2>1 DEF LockoutCovers, History, Attempt
  <2>5. WindowBound'
    BY <2>1 DEF WindowBound, InPeriod
  <2>6. QED
    BY <1>1, <2>2, <2>3, <2>4, <2>5
<1>5. ASSUME NEW ip \in IPs, CheckAllowed(ip) PROVE IInv'
  <2> DEFINE now == [n |-> serial + 1, at |-> clock]
  <2>1. /\ now \in Attempt
        /\ clock' = clock /\ serial' = serial + 1
        /\ granted' = [granted EXCEPT ![ip] = @ \cup {now}]
        /\ \A i \in IPs : attempts'[i] \subseteq granted'[i]
        /\ \A i \in IPs : \A g \in granted'[i] :
             g \in attempts'[i] \/ g.at + Window <= clock
        /\ \A i \in IPs : locked_until'[i] # locked_until[i] =>
             ~LockedOut(i) /\ locked_until'[i] = NotLocked
        /\ locked_until'[ip] = NotLocked
    BY <1>5, AllowedStep
  <2> USE DEF IInv
  <2>2. History'
    <3> SUFFICES ASSUME NEW i \in IPs
                 PROVE /\ IsFiniteSet(granted'[i])
                       /\ \A g \in granted'[i] : g.at <= clock /\ g.n <= serial + 1
      BY <2>1 DEF History
    <3>1. IsFiniteSet(granted[i])
      BY DEF History
    <3>2. granted'[i] \in {granted[i], granted[i] \cup {now}}
      BY <2>1
    <3>3. IsFiniteSet(granted'[i])
      <4> HIDE DEF now
      <4>1. IsFiniteSet(granted[i] \cup {now})
        BY <3>1, FS_AddElement, Zenon
      <4>2. QED
        BY <3>1, <3>2, <4>1, Zenon
    <3>4. \A g \in granted'[i] : g.at <= clock /\ g.n <= serial + 1
      BY <3>2 DEF History, Attempt
    <3>5. QED
      BY <3>3, <3>4
  <2>3. Covered'
    BY <2>1 DEF Covered
  <2>4. LockoutCovers'
    BY <2>1 DEF LockoutCovers
  <2>5. WindowBound'
    BY <1>5, GrantKeepsBound
  <2>6. QED
    BY <1>1, <2>2, <2>3, <2>4, <2>5
<1>6. CASE UNCHANGED vars
  BY <1>1, <1>6 DEF vars, IInv, History, Covered, LockoutCovers, WindowBound, InPeriod
<1>7. QED
  BY <1>2, <1>3, <1>4, <1>5, <1>6 DEF Next

LEMMA InitIInv == ASSUME RateAssumption, Init PROVE IInv
<1> USE DEF RateAssumption, Init
<1>1. TypeOK
  BY DEF TypeOK, NotLocked
<1>2. History /\ Covered /\ LockoutCovers
  BY FS_EmptySet DEF History, Covered, LockoutCovers
<1>3. WindowBound
  <2>1. \A ip \in IPs : \A end \in 0..clock : InPeriod(ip, end) = {}
    BY DEF InPeriod
  <2>2. QED
    BY <2>1, FS_EmptySet DEF WindowBound
<1>4. QED
  BY <1>1, <1>2, <1>3 DEF IInv

(* The strengthened invariant holds in every reachable state.              *)
THEOREM Invariance == ASSUME RateAssumption PROVE Spec => []IInv
<1>1. Init => IInv
  BY InitIInv
<1>2. IInv /\ [Next]_vars => IInv'
  BY IInvStep
<1>3. QED
  BY <1>1, <1>2, PTL DEF Spec

(* At most MaxRequests requests of a client are granted in any window.     *)
THEOREM RateIsBounded == ASSUME RateAssumption PROVE Spec => []WindowBound
<1>1. IInv => WindowBound
  BY DEF IInv
<1>2. QED
  BY <1>1, Invariance, PTL

-----------------------------------------------------------------------------
(* The promise counts with the same operator.                              *)
LEMMA SameCardinality == \A S : Promise!Cardinality(S) = Cardinality(S)
  BY DEF Promise!Cardinality, Cardinality

(* Each call of check() grants, bans or refuses as the promise does.       *)
LEMMA StepImplements ==
  ASSUME RateAssumption, IInv, [Next]_vars
  PROVE  [Promise!Next]_Promise!vars
<1> DEFINE ban == [ip \in IPs |->
                     IF locked_until[ip] > clock THEN locked_until[ip] ELSE 0]
<1> USE DEF RateAssumption, IInv, TypeOK
<1>1. CASE Tick
  <2>1. ban' = [ip \in IPs |-> IF ban[ip] > clock + 1 THEN ban[ip] ELSE 0]
    BY <1>1 DEF Tick
  <2>2. Promise!Tick
    BY <1>1, <2>1 DEF Tick, Promise!Tick
  <2>3. QED
    BY <2>2 DEF Promise!Next
<1>2. ASSUME NEW ip \in IPs, CheckLocked(ip) PROVE Promise!Next
  <2>1. Promise!Refuse(ip)
    BY <1>2 DEF CheckLocked, Call, LockedOut, Promise!Refuse
  <2>2. QED
    BY <2>1 DEF Promise!Next
<1>3. ASSUME NEW ip \in IPs, CheckOverLimit(ip) PROVE Promise!Next
  <2>1. Retained(ip) = Promise!Recent(ip)
    BY <1>3, RetainedIsPast DEF CheckOverLimit, Past, Promise!Recent
  <2>2. ban[ip] = 0
    BY <1>3 DEF CheckOverLimit, LockedOut, NotLocked
  <2>3. /\ locked_until' = [locked_until EXCEPT ![ip] = clock + Lockout]
        /\ clock' = clock /\ granted' = granted /\ serial' = serial + 1
        /\ Cardinality(Retained(ip)) >= MaxRequests
    BY <1>3 DEF CheckOverLimit, Call
  <2>4. ban' = [i \in IPs |->
                  IF locked_until'[i] > clock THEN locked_until'[i] ELSE 0]
    BY <2>3
  <2>5. ban' = [ban EXCEPT ![ip] = clock + Lockout]
    <3>1. ASSUME NEW i \in IPs
          PROVE  ban'[i] = IF i = ip THEN clock + Lockout ELSE ban[i]
      BY <2>3, <2>4
    <3>2. QED
      BY <2>4, <3>1
  <2>6. Promise!Cardinality(Promise!Recent(ip)) >= MaxRequests
    BY <2>1, <2>3, SameCardinality
  <2>7. Promise!RefuseAndBan(ip)
    BY <2>2, <2>3, <2>5, <2>6 DEF Promise!RefuseAndBan
  <2>8. QED
    BY <2>7 DEF Promise!Next
<1>4. ASSUME NEW ip \in IPs, CheckAllowed(ip) PROVE Promise!Next
  <2>1. Promise!Recent(ip) = Past(ip)
    BY DEF Past, Promise!Recent
  <2>2. /\ Cardinality(Past(ip)) < MaxRequests
        /\ clock' = clock /\ serial' = serial + 1
        /\ granted' = [granted EXCEPT ![ip] = @ \cup {[n |-> serial + 1, at |-> clock]}]
        /\ \A i \in IPs : locked_until'[i] # locked_until[i] =>
             ~LockedOut(i) /\ locked_until'[i] = NotLocked
    BY <1>4, AllowedStep
  <2>3. ban[ip] = 0
    BY <1>4 DEF CheckAllowed, LockedOut, NotLocked
  <2>4. ban' = ban
    BY <2>2 DEF LockedOut, NotLocked
  <2>5. Promise!Grant(ip)
    BY <2>1, <2>2, <2>3, <2>4, SameCardinality DEF Promise!Grant
  <2>6. QED
    BY <2>5 DEF Promise!Next
<1>5. CASE UNCHANGED vars
  BY <1>5 DEF vars, Promise!vars
<1>6. QED
  BY <1>1, <1>2, <1>3, <1>4, <1>5 DEF Next

(* The limiter with its records, lazy expiry and pruning implements the    *)
(* sliding window with lockouts.                                           *)
THEOREM Implementation == ASSUME RateAssumption PROVE Spec => ImplementsPromise
<1>1. Init => Promise!Init
  BY DEF Init, NotLocked, Promise!Init
<1>2. IInv /\ [Next]_vars => [Promise!Next]_Promise!vars
  BY StepImplements
<1>3. Spec => []IInv
  BY Invariance
<1>4. QED
  BY <1>1, <1>2, <1>3, PTL DEF Spec, ImplementsPromise, Promise!Spec
=============================================================================
