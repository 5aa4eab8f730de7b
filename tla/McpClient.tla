----------------------------- MODULE McpClient -----------------------------
(***************************************************************************)
(* The MCP client (mcp.rs) and its one user, the video channel             *)
(* (connect_mcp, call_mcp_tool and shutdown of video.rs), which keeps it   *)
(* behind a mutex that it holds across whole requests.                     *)
(*                                                                         *)
(* A request is given an id, entered in the pending map, queued for the    *)
(* writer task and awaited for 120 seconds; the reader task hands an       *)
(* answer to the entry of its id.  The server is an outside process: it    *)
(* may answer in any order, fail, stop reading (nobody reads its stderr,   *)
(* so that writing there blocks it in the end) or exit.  A caller's future *)
(* is dropped when the attempt of the tool runs into the sandbox timeout.  *)
(***************************************************************************)
EXTENDS Naturals, Sequences

CONSTANTS
  Caller,     \* concurrent users of the video channel
  QueueCap,   \* of the channel to the writer task
  MaxOps,     \* bound: operations started
  MaxTroubles \* bound: times the server hangs, exits or cannot be started

McpAssumption ==
  /\ {QueueCap, MaxOps, MaxTroubles} \subseteq Nat /\ QueueCap > 0
  /\ "nobody" \notin Caller

VARIABLES
  guard,      \* holder of the mutex of VideoChannel.mcp, or nobody
  client,     \* the client in it: NoClient or a record
  local,      \* a client that its holder is starting or shutting down
  caller,     \* per Caller: its operation and where it is
  crossed,    \* history: an answer reached a request it was not for
  ops, troubles

vars == <<guard, client, local, caller, crossed, ops, troubles>>

nobody == "nobody"
Kinds == {"connect", "call", "shutdown"}

(* A client with its server process: the request ids given out, the map of *)
(* pending ones, the lines on their way to the writer, whether the writer  *)
(* task lives, and the requests the server has read and not answered.      *)
NoClient == [child |-> "none", next |-> 1, pending |-> {}, queue |-> <<>>,
             writer |-> FALSE, served |-> {}]
NewClient == [NoClient EXCEPT !.child = "up", !.writer = TRUE]

Alive(c) == c.child \in {"up", "hung"}

Idle == [kind |-> "none", pc |-> "idle", method |-> "none", id |-> 0]

Init ==
  /\ guard = nobody
  /\ client = NoClient /\ local = NoClient
  /\ caller = [o \in Caller |-> Idle]
  /\ crossed = FALSE
  /\ ops = 0 /\ troubles = 0

(* The client an operation works with: a call uses the one in the mutex.   *)
Used(o) == IF caller[o].kind = "call" THEN client ELSE local

Use(o, c) ==
  IF caller[o].kind = "call" THEN client' = c /\ UNCHANGED local
                             ELSE local' = c /\ UNCHANGED client

At(o, pc) == caller[o].pc = pc
Goto(o, pc, method) == caller' = [caller EXCEPT ![o].pc = pc, ![o].method = method]

(* An operation returns, with its result or an error.  What it was         *)
(* starting or shutting down is dropped, which kills the process.          *)
Return(o) ==
  /\ caller' = [caller EXCEPT ![o] = Idle]
  /\ guard' = IF guard = o THEN nobody ELSE guard
Discard(o) == local' = IF guard = o THEN NoClient ELSE local

---------------------------------------------------------------------------
Begin(o, kind) ==
  /\ At(o, "idle") /\ ops < MaxOps
  /\ caller' = [caller EXCEPT ![o] = [Idle EXCEPT !.kind = kind, !.pc = "lock"]]
  /\ ops' = ops + 1
  /\ UNCHANGED <<guard, client, local, crossed, troubles>>

Locking(o, kind) == At(o, "lock") /\ caller[o].kind = kind /\ guard = nobody

(* connect_mcp: nothing to do if the process of the client still runs.     *)
ConnectAgain(o) ==
  /\ Locking(o, "connect") /\ Alive(client)
  /\ Return(o)
  /\ UNCHANGED <<client, local, crossed, ops, troubles>>

(* McpClient::spawn: the process and the two tasks.                        *)
Spawn(o) ==
  /\ Locking(o, "connect") /\ ~Alive(client)
  /\ guard' = o
  /\ local' = NewClient
  /\ Goto(o, "insert", "initialize")
  /\ UNCHANGED <<client, crossed, ops, troubles>>

SpawnFails(o) ==
  /\ Locking(o, "connect") /\ ~Alive(client) /\ troubles < MaxTroubles
  /\ troubles' = troubles + 1
  /\ Return(o)
  /\ UNCHANGED <<client, local, crossed, ops>>

CallTool(o) ==
  /\ Locking(o, "call")
  /\ IF client = NoClient
     THEN Return(o)
     ELSE guard' = o /\ Goto(o, "insert", "tools/call")
  /\ UNCHANGED <<client, local, crossed, ops, troubles>>

(* The client is taken out of the mutex, which stays locked.               *)
ShutDown(o) ==
  /\ Locking(o, "shutdown")
  /\ IF client = NoClient
     THEN Return(o) /\ UNCHANGED <<client, local>>
     ELSE /\ guard' = o /\ Goto(o, "send", "cancelled")
          /\ local' = client /\ client' = NoClient
  /\ UNCHANGED <<crossed, ops, troubles>>

---------------------------------------------------------------------------
(* McpClient::request.                                                     *)

(* Mutant: an id is free again when its request is not pending any more.   *)
IdOfPending(c) == CHOOSE n \in 1..c.next : n \notin c.pending
                    /\ \A k \in 1..(n - 1) : k \in c.pending
NextId(c) == c.next

Insert(o) ==
  /\ At(o, "insert")
  /\ LET c == Used(o) IN
       /\ Use(o, [c EXCEPT !.next = @ + 1, !.pending = @ \cup {NextId(c)}])
       /\ caller' = [caller EXCEPT ![o].pc = "send", ![o].id = NextId(c)]
  /\ UNCHANGED <<guard, crossed, ops, troubles>>

IsNotification(o) == caller[o].method \in {"initialized", "cancelled"}

(* Into the channel of the writer, when it has room.                       *)
Send(o) ==
  /\ At(o, "send")
  /\ LET c == Used(o)
         line == [id |-> IF IsNotification(o) THEN 0 ELSE caller[o].id,
                  by |-> o, method |-> caller[o].method]
     IN /\ c.writer /\ Len(c.queue) < QueueCap
        /\ Use(o, [c EXCEPT !.queue = Append(@, line)])
  /\ CASE caller[o].method = "initialized" -> Goto(o, "insert", "tools/list")
       [] caller[o].method = "cancelled"   -> Goto(o, "exit", "cancelled")
       [] OTHER                            -> Goto(o, "wait", caller[o].method)
  /\ UNCHANGED <<guard, crossed, ops, troubles>>

(* The writer has stopped.  The pending entry of the request stays; a      *)
(* shutdown goes on without its notification.                              *)
SendFails(o) ==
  /\ At(o, "send") /\ ~Used(o).writer
  /\ IF caller[o].kind = "shutdown"
     THEN Goto(o, "exit", "cancelled") /\ UNCHANGED <<guard, local>>
     ELSE Return(o) /\ IF caller[o].kind = "connect" THEN Discard(o) ELSE UNCHANGED local
  /\ UNCHANGED <<client, crossed, ops, troubles>>

(* Mutant: a request is awaited for ever.                                  *)
Impatient(o) == FALSE
TimedOut(o) == At(o, "wait")

Timeout(o) ==
  /\ TimedOut(o)
  /\ Return(o)
  /\ IF caller[o].kind = "call"
     THEN client' = [client EXCEPT !.pending = @ \ {caller[o].id}] /\ UNCHANGED local
     ELSE Discard(o) /\ UNCHANGED client
  /\ UNCHANGED <<crossed, ops, troubles>>

(* What the caller of an answered request does next.                       *)
Continue(o, ok, c) ==
  CASE ~ok /\ caller[o].kind = "connect" ->
         Return(o) /\ Discard(o) /\ UNCHANGED client
    [] ok /\ caller[o].method = "initialize" ->
         Goto(o, "send", "initialized") /\ local' = c /\ UNCHANGED <<guard, client>>
    [] ok /\ caller[o].method = "tools/list" ->
         Return(o) /\ client' = c /\ local' = NoClient
    [] OTHER ->
         Return(o) /\ client' = c /\ UNCHANGED local

(* The attempt of the tool is over: its future is dropped, with the guard  *)
(* and the client it was starting, and the pending entry stays.  main.rs   *)
(* awaits a shutdown without limit.                                        *)
Drop(o) ==
  /\ ~At(o, "idle") /\ caller[o].kind # "shutdown"
  /\ Return(o)
  /\ IF caller[o].kind = "connect" THEN Discard(o) ELSE UNCHANGED local
  /\ UNCHANGED <<client, crossed, ops, troubles>>

(* The process exits in time or is killed.                                 *)
Reap(o) ==
  /\ At(o, "exit")
  /\ Return(o) /\ Discard(o)
  /\ UNCHANGED <<client, crossed, ops, troubles>>

---------------------------------------------------------------------------
(* The writer and reader tasks and the server, of the client that "which"  *)
(* names.                                                                  *)
Slot == {"client", "local"}
In(which) == IF which = "client" THEN client ELSE local
Put(which, c) ==
  IF which = "client" THEN client' = c /\ UNCHANGED local
                      ELSE local' = c /\ UNCHANGED client

(* A line reaches a server that reads.                                     *)
Write(which) ==
  LET c == In(which) IN
  /\ c.writer /\ c.queue # <<>> /\ c.child = "up"
  /\ Put(which, [c EXCEPT !.queue = Tail(@),
       !.served = IF Head(c.queue).id = 0 THEN @ ELSE @ \cup {Head(c.queue)}])
  /\ UNCHANGED <<guard, caller, crossed, ops, troubles>>

WriteFails(which) ==
  LET c == In(which) IN
  /\ c.writer /\ c.queue # <<>> /\ c.child = "dead"
  /\ Put(which, [c EXCEPT !.queue = <<>>, !.writer = FALSE])
  /\ UNCHANGED <<guard, caller, crossed, ops, troubles>>

(* The server answers a request, and the reader hands the answer to the    *)
(* entry of its id; the request of the entry may have been dropped.        *)
Waiting(which, id) ==
  {o \in Caller : At(o, "wait") /\ caller[o].id = id
                  /\ which = (IF caller[o].kind = "call" THEN "client" ELSE "local")}

Answer(which, s, ok) ==
  LET c == [In(which) EXCEPT !.served = @ \ {s}, !.pending = @ \ {s.id}] IN
  /\ In(which).child = "up" /\ s \in In(which).served
  /\ IF s.id \in In(which).pending /\ Waiting(which, s.id) # {}
     THEN \E o \in Waiting(which, s.id) :
            /\ crossed' = (crossed \/ s.by # o \/ s.method # caller[o].method)
            /\ Continue(o, ok, c)
     ELSE Put(which, c) /\ UNCHANGED <<guard, caller, crossed>>
  /\ UNCHANGED <<ops, troubles>>

Trouble(which, to) ==
  /\ troubles < MaxTroubles
  /\ In(which).child \in {"up", "hung"} \ {to}
  /\ troubles' = troubles + 1
  /\ Put(which, [In(which) EXCEPT !.child = to,
                                  !.served = IF to = "dead" THEN {} ELSE @])
  /\ UNCHANGED <<guard, caller, crossed, ops>>

---------------------------------------------------------------------------
OwnStep(o) ==
  \/ ConnectAgain(o) \/ Spawn(o) \/ CallTool(o) \/ ShutDown(o)
  \/ Insert(o) \/ Send(o) \/ SendFails(o) \/ Timeout(o) \/ Reap(o)

Next ==
  \/ \E o \in Caller :
       \/ \E kind \in Kinds : Begin(o, kind)
       \/ OwnStep(o) \/ SpawnFails(o) \/ Drop(o)
  \/ \E which \in Slot :
       \/ Write(which) \/ WriteFails(which)
       \/ \E s \in In(which).served, ok \in BOOLEAN : Answer(which, s, ok)
       \/ \E to \in {"hung", "dead"} : Trouble(which, to)

(* The runtime polls the callers' futures and the writer task, timers      *)
(* fire, and a server that is up, not hung, reads what it is sent.  It may *)
(* answer or not, and no attempt needs to be dropped.                      *)
Fairness ==
  /\ \A o \in Caller : WF_vars(OwnStep(o))
  /\ \A which \in Slot : WF_vars(Write(which)) /\ WF_vars(WriteFails(which))

Spec == Init /\ [][Next]_vars /\ Fairness

---------------------------------------------------------------------------
ClientOK(c) ==
  /\ c.child \in {"none", "up", "hung", "dead"}
  /\ Len(c.queue) <= QueueCap
  /\ \A s \in c.served : s.id \in 1..(c.next - 1)
  /\ c.pending \subseteq 1..(c.next - 1)

(* Types; a client that is being started or shut down has its operation.   *)
TypeOK ==
  /\ guard \in Caller \cup {nobody}
  /\ ClientOK(client) /\ ClientOK(local)
  /\ local # NoClient => guard # nobody /\ caller[guard].kind \in {"connect", "shutdown"}
  /\ \A o \in Caller : At(o, "idle") \/ At(o, "lock") <=> guard # o

(* No request is ever given the answer of another one, although answers    *)
(* come late, after their request timed out or was dropped, and callers    *)
(* take turns on one client.                                               *)
OwnAnswer == ~crossed

(* Every operation ends, whatever the server does, with one exception: the *)
(* timeout of a request starts when its line is in the queue, and a queue  *)
(* that is full because the server does not read never takes it.           *)
Clogged == \E which \in Slot :
  In(which).child = "hung" /\ Len(In(which).queue) = QueueCap

OperationsEnd == \A o \in Caller : ~At(o, "idle") ~> (At(o, "idle") \/ []Clogged)
=============================================================================
