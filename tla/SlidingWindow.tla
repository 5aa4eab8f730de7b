--------------------------- MODULE SlidingWindow ---------------------------
(***************************************************************************)
(* What the gateway's rate limiter promises, without its records: every    *)
(* client may be granted at most MaxRequests requests in any period of     *)
(* length Window, and a client that asks for more is refused until Lockout *)
(* has passed.                                                             *)
(***************************************************************************)
EXTENDS Integers, FiniteSets

CONSTANTS
  IPs,          \* client addresses
  MaxRequests,  \* requests a client may make in a window
  Window,       \* length of the window
  Lockout       \* length of the lockout

VARIABLES
  clock,        \* the current instant
  serial,       \* requests made so far
  granted,      \* per client: the granted requests, numbered, with their time
  banned        \* per client: end of the lockout in force, 0 for none

vars == <<clock, serial, granted, banned>>

Recent(ip) == {g \in granted[ip] : g.at > clock - Window}

Init ==
  /\ clock = 0
  /\ serial = 0
  /\ granted = [ip \in IPs |-> {}]
  /\ banned = [ip \in IPs |-> 0]

(* Time passes and lockouts run out. *)
Tick ==
  /\ clock' = clock + 1
  /\ banned' = [ip \in IPs |-> IF banned[ip] > clock + 1 THEN banned[ip] ELSE 0]
  /\ UNCHANGED <<serial, granted>>

Grant(ip) ==
  /\ banned[ip] = 0
  /\ Cardinality(Recent(ip)) < MaxRequests
  /\ serial' = serial + 1
  /\ granted' = [granted EXCEPT ![ip] = @ \cup {[n |-> serial + 1, at |-> clock]}]
  /\ UNCHANGED <<clock, banned>>

RefuseAndBan(ip) ==
  /\ banned[ip] = 0
  /\ Cardinality(Recent(ip)) >= MaxRequests
  /\ serial' = serial + 1
  /\ banned' = [banned EXCEPT ![ip] = clock + Lockout]
  /\ UNCHANGED <<clock, granted>>

Refuse(ip) ==
  /\ banned[ip] # 0
  /\ serial' = serial + 1
  /\ UNCHANGED <<clock, granted, banned>>

Next == Tick \/ \E ip \in IPs : Grant(ip) \/ RefuseAndBan(ip) \/ Refuse(ip)

Spec == Init /\ [][Next]_vars
=============================================================================
