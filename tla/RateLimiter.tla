---------------------------- MODULE RateLimiter ----------------------------
(***************************************************************************)
(* The gateway's per-client rate limiter.  check() runs under one mutex    *)
(* and reads the clock while it holds it, so a call is one step and the    *)
(* instants it pushes never decrease.                                      *)
(*                                                                         *)
(* attempts is a Vec<Instant> in the code, of which only the length, the   *)
(* last (that is, the greatest) element and the elements newer than a      *)
(* cutoff are used: here it is a set of instants, each numbered by the     *)
(* call that pushed it so that equal instants count twice.                 *)
(***************************************************************************)
EXTENDS Integers, FiniteSets

CONSTANTS
  IPs,          \* client addresses
  MaxRequests,  \* RateLimitConfig::max_requests
  Window,       \* RateLimitConfig::window
  Lockout,      \* RateLimitConfig::lockout
  PruneAbove,   \* number of records above which stale ones are dropped
  ScanLimit,    \* records looked at by one pruning
  RemoveLimit,  \* records dropped by one pruning
  MaxTime,      \* bound on the clock
  MaxChecks     \* bound on the calls

(* The limiter keeps no bound over a window longer than the lockout, since *)
(* the end of a lockout forgets the attempts; the default is 60 s in 300 s. *)
RateAssumption ==
  /\ MaxRequests \in Nat /\ Window \in Nat \ {0} /\ Lockout \in Nat
  /\ Window <= Lockout
  /\ PruneAbove \in Nat /\ ScanLimit \in Nat /\ RemoveLimit \in Nat
  /\ MaxTime \in Nat /\ MaxChecks \in Nat

VARIABLES
  clock,         \* Instant::now()
  serial,        \* calls so far
  records,       \* the clients the HashMap holds a record for
  attempts,      \* per client: IpRecord::attempts, empty without a record
  locked_until,  \* per client: IpRecord::locked_until, NotLocked for None
  granted        \* history: per client, every attempt that was allowed

vars == <<clock, serial, records, attempts, locked_until, granted>>

NotLocked == 0
Attempt == [n : Nat, at : Nat]

Init ==
  /\ clock = 0
  /\ serial = 0
  /\ records = {}
  /\ attempts = [ip \in IPs |-> {}]
  /\ locked_until = [ip \in IPs |-> NotLocked]
  /\ granted = [ip \in IPs |-> {}]

Tick ==
  /\ clock < MaxTime
  /\ clock' = clock + 1
  /\ UNCHANGED <<serial, records, attempts, locked_until, granted>>

LockedOut(ip) == locked_until[ip] # NotLocked /\ clock < locked_until[ip]

(* Mutant: the cutoff is one instant late.                                 *)
RetainedOffByOne(ip) ==
  IF locked_until[ip] # NotLocked THEN {}
  ELSE {t \in attempts[ip] : t.at > clock - Window + 1}

(* What is left of the attempts once an expired lockout has cleared them   *)
(* and the window has moved past the old ones.                             *)
Retained(ip) ==
  IF locked_until[ip] # NotLocked THEN {}
  ELSE {t \in attempts[ip] : t.at > clock - Window}

(* Mutant: pruning looks at the attempts only.                             *)
StaleIgnoringLockout(ip, att, locked) ==
  \A t \in att[ip] : t.at <= clock - 2 * Window

(* A record that pruning may drop: no lockout in force and no attempt in   *)
(* the last two windows.                                                   *)
Stale(ip, att, locked) ==
  /\ locked[ip] = NotLocked \/ locked[ip] <= clock
  /\ \A t \in att[ip] : t.at <= clock - 2 * Window

AtMost(n, S) == IF Cardinality(S) <= n THEN Cardinality(S) ELSE n

(* The records one pruning may drop from keys: the HashMap's order decides *)
(* which ones are scanned and which of the stale ones come first.          *)
Prunable(keys, att, locked) ==
  IF Cardinality(keys) <= PruneAbove THEN {{}}
  ELSE UNION
    {LET stale == {ip \in scanned : Stale(ip, att, locked)}
     IN {gone \in SUBSET stale : Cardinality(gone) = AtMost(RemoveLimit, stale)}
       : scanned \in {S \in SUBSET keys : Cardinality(S) = AtMost(ScanLimit, keys)}}

Call(ip) ==
  /\ serial < MaxChecks
  /\ serial' = serial + 1
  /\ UNCHANGED clock

CheckLocked(ip) ==
  /\ Call(ip)
  /\ LockedOut(ip)
  /\ UNCHANGED <<records, attempts, locked_until, granted>>

CheckOverLimit(ip) ==
  /\ Call(ip)
  /\ ~LockedOut(ip)
  /\ Cardinality(Retained(ip)) >= MaxRequests
  /\ records' = records \cup {ip}
  /\ attempts' = [attempts EXCEPT ![ip] = Retained(ip)]
  /\ locked_until' = [locked_until EXCEPT ![ip] = clock + Lockout]
  /\ UNCHANGED granted

CheckAllowed(ip) ==
  /\ Call(ip)
  /\ ~LockedOut(ip)
  /\ Cardinality(Retained(ip)) < MaxRequests
  /\ LET now == [n |-> serial + 1, at |-> clock]
         att == [attempts EXCEPT ![ip] = Retained(ip) \cup {now}]
         locked == [locked_until EXCEPT ![ip] = NotLocked]
         keys == records \cup {ip}
     IN /\ \E gone \in Prunable(keys, att, locked) :
             /\ records' = keys \ gone
             /\ attempts' = [i \in IPs |-> IF i \in gone THEN {} ELSE att[i]]
             /\ locked_until' =
                  [i \in IPs |-> IF i \in gone THEN NotLocked ELSE locked[i]]
        /\ granted' = [granted EXCEPT ![ip] = @ \cup {now}]

Next ==
  \/ Tick
  \/ \E ip \in IPs : CheckLocked(ip) \/ CheckOverLimit(ip) \/ CheckAllowed(ip)

Spec == Init /\ [][Next]_vars

-----------------------------------------------------------------------------
(* Every variable keeps its shape, and only held records have content.     *)
TypeOK ==
  /\ clock \in Nat /\ serial \in Nat
  /\ records \subseteq IPs
  /\ attempts \in [IPs -> SUBSET Attempt]
  /\ locked_until \in [IPs -> Nat]
  /\ granted \in [IPs -> SUBSET Attempt]

(* No client is ever granted more than MaxRequests requests within any     *)
(* period of length Window, wherever it lies and whatever was pruned.      *)
InPeriod(ip, end) ==
  {g \in granted[ip] : end - Window < g.at /\ g.at <= end}

WindowBound ==
  \A ip \in IPs : \A end \in 0..clock :
    Cardinality(InPeriod(ip, end)) <= MaxRequests

(* Pruning and the lazy expiry of lockouts and attempts cannot be seen by  *)
(* any client: the limiter grants and refuses as the promise says.         *)
Promise == INSTANCE SlidingWindow WITH
  banned <- [ip \in IPs |->
               IF locked_until[ip] > clock THEN locked_until[ip] ELSE 0]

ImplementsPromise == Promise!Spec
=============================================================================
