------------------------------- MODULE Secrets -------------------------------
(***************************************************************************)
(* Where credentials live: keychain.rs (master key and OS credential       *)
(* store), secret.rs (encrypted rows), registry.rs (the look-up order), the *)
(* start of the binary and its `keychain` subcommand in main.rs, and the    *)
(* tools credential_read and credential_write.                              *)
(*                                                                          *)
(* Two processes share the credential store ("ring") and the database: the  *)
(* server and one run of the command line at a time.  Two credentials stand *)
(* for the registry: "auth" is resolved at start and generated when absent, *)
(* "tool" is required, checked at start and read by a tool later.  A value  *)
(* is a version number and a master key is a number: 0 is the one of the    *)
(* environment, the others were generated.  A row remembers the key it was  *)
(* encrypted under, and only that key decrypts it.  The entry of the store   *)
(* that keeps the master key is one that `keychain set` and the tools can    *)
(* write too, with a key or with text that is none.                         *)
(***************************************************************************)
EXTENDS Naturals

CONSTANTS Native,       \* TRUE: macOS, whose store is always there
          MaxKeys,      \* bound: master keys generated
          MaxValues,    \* bound: values written
          MaxStarts,    \* bound: processes started
          MaxFaults     \* bound: outages, reboots and failed reads

SecretAssumption ==
  /\ Native \in BOOLEAN /\ MaxValues \in Nat \ {0}
  /\ {MaxKeys, MaxStarts, MaxFaults} \subseteq Nat

VARIABLES ringUp,       \* does the credential store answer?
          ringKey,      \* the master key kept in it, Garbage, or None
          ring,         \* credential -> the value kept in it, or 0
          rows,         \* credential -> its encrypted row, or NoRow
          db,           \* was the database directory made?
          procs,        \* "server", "cli" -> what the process is doing
          live,         \* the token the running server accepts, or 0
          stale,        \* history: the processes whose look for the key failed,
                        \* or the entry was written since
          keys, values, starts, faults  \* counts against the bounds

vars == <<ringUp, ringKey, ring, rows, db, procs, live, stale, keys, values, starts, faults>>

Name == {"auth", "tool"}
Process == {"server", "cli"}
None == MaxKeys + 1
Garbage == MaxKeys + 2
NoRow == [val |-> 0, key |-> None]
Idle == [pc |-> "off", key |-> None, env |-> {}, for |-> "tool",
         held |-> 0, from |-> "none"]

(* The processes that are about to save a key they make.                   *)
Making == {p \in Process : procs[p].pc = "generate"}

TypeOK ==
  /\ ringUp \in BOOLEAN /\ (Native => ringUp)
  /\ ringKey \in 0..Garbage
  /\ ring \in [Name -> 0..MaxValues]
  /\ rows \in [Name -> [val : 0..MaxValues, key : 0..None]]
  /\ procs \in [Process -> [pc : {"off", "key", "generate", "open", "resolve", "persist",
                                  "running"},
                            key : 0..None, env : SUBSET (Name \cup {"master"}),
                            for : Name \cup {"check", "all"}, held : 0..MaxValues,
                            from : {"none", "env", "ring", "store", "new"}]]
  /\ stale \subseteq Making
  /\ db \in BOOLEAN /\ (\E n \in Name : rows[n] # NoRow) => db
  /\ live \in 0..MaxValues
  /\ keys \in 0..MaxKeys /\ values \in 1..MaxValues
  /\ starts \in 0..MaxStarts /\ faults \in 0..MaxFaults

(* Version 1 is the value the environment variables hold.                  *)
EnvValue == 1

(* keychain_available: on macOS always; elsewhere a probe of the backend.   *)
Available == ringUp

(* get_credential, set_credential: an absent or failing entry reads as       *)
(* nothing, and callers drop the error of a write.                           *)
RingGet(n) == IF Available THEN ring[n] ELSE 0
RingSet(n, v) == IF Available THEN [ring EXCEPT ![n] = v] ELSE ring

(* SecretStore::get decrypts the row with the key the process was started    *)
(* with; another key's row is an error, which the callers treat as absent.   *)
StoreGet(p, n) == IF rows[n] # NoRow /\ rows[n].key = procs[p].key
                  THEN rows[n].val ELSE 0
StoreSet(p, n, v) == [rows EXCEPT ![n] = [val |-> v, key |-> procs[p].key]]

Init ==
  /\ ringUp \in IF Native THEN {TRUE} ELSE BOOLEAN
  /\ ringKey = None /\ ring = [n \in Name |-> 0] /\ rows = [n \in Name |-> NoRow]
  /\ procs = [p \in Process |-> Idle]
  /\ db = FALSE /\ live = 0 /\ stale = {} /\ keys = 0 /\ values = EnvValue /\ starts = 0 /\ faults = 0

Begin(p, how) ==
  /\ procs[p].pc = "off" /\ starts < MaxStarts
  /\ starts' = starts + 1
  /\ procs' = [procs EXCEPT ![p] = how]

(* The server is started with some of the environment variables set.  For    *)
(* the master key that is the key 0, for a credential its EnvValue.          *)
StartServer ==
  /\ \E env \in SUBSET (Name \cup {"master"}) :
       Begin("server", [Idle EXCEPT !.pc = "key", !.env = env])
  /\ UNCHANGED <<db, ringUp, ringKey, ring, rows, live, stale, keys, values, faults>>

(* `keychain set <name> <value>`: into the store first; into the encrypted   *)
(* rows only when the database directory is there, which a first start of    *)
(* the server makes.                                                         *)
CliSet(n) ==
  /\ Available /\ values < MaxValues
  /\ values' = values + 1
  /\ ring' = [ring EXCEPT ![n] = values + 1]
  /\ \E env \in SUBSET {"master"} :
       Begin("cli", IF db THEN [Idle EXCEPT !.pc = "key", !.env = env,
                                            !.for = n, !.held = values + 1]
                    ELSE Idle)
  /\ UNCHANGED <<db, ringUp, ringKey, rows, live, stale, keys, faults>>

(* `keychain set <service>:<account>` of the master key's entry.               *)
CliSetKey(text) ==
  /\ Available /\ Begin("cli", Idle)
  /\ ringKey' = text /\ stale' = Making
  /\ UNCHANGED <<db, ringUp, ring, rows, live, keys, values, faults>>

(* `keychain migrate`, which resolves the master key to check it ...           *)
CliMigrate ==
  /\ Available
  /\ \E env \in SUBSET {"master"} :
       Begin("cli", [Idle EXCEPT !.pc = "key", !.env = env, !.for = "check"])
  /\ UNCHANGED <<db, ringUp, ringKey, ring, rows, live, stale, keys, values, faults>>

(* ... and again, whatever came of that, to copy the rows up.                  *)
CliResolveAgain ==
  /\ procs["cli"].pc = "open" /\ procs["cli"].for = "check"
  /\ procs' = [procs EXCEPT !["cli"] =
                 IF db THEN [@ EXCEPT !.pc = "key", !.key = None, !.for = "all"] ELSE Idle]
  /\ UNCHANGED <<db, ringUp, ringKey, ring, rows, live, stale, keys, values, starts, faults>>

Goto(p, pc) == procs' = [procs EXCEPT ![p].pc = pc]

(* Mutant: the store is not asked before a key is made.                       *)
KeyFromEnvironment(p) == IF "master" \in procs[p].env THEN 0 ELSE None

(* What resolve_master_key finds: the environment's key, what is kept, or      *)
(* nothing.  A failed read is an error on macOS, and elsewhere the same as    *)
(* no key.                                                                    *)
KeyFound(p) == IF "master" \in procs[p].env THEN 0
               ELSE IF Available THEN ringKey ELSE None

Opens(p, k) ==
  /\ procs' = [procs EXCEPT ![p].pc = "open", ![p].key = k]
  /\ db' = (db \/ p = "server")

(* Without a key the server does not start, and `set` leaves the row.          *)
NoKey(p) ==
  /\ procs' = [procs EXCEPT ![p] = IF @.for = "check" THEN [@ EXCEPT !.pc = "open"] ELSE Idle]
  /\ UNCHANGED db

FindKey(p) ==
  /\ procs[p].pc = "key"
  /\ LET found == KeyFound(p) IN
     \/ /\ found \notin {None, Garbage} /\ Opens(p, found)
        /\ UNCHANGED <<stale, keys>>
     \/ /\ found = Garbage /\ NoKey(p)
        /\ UNCHANGED <<stale, keys>>
     \/ /\ found = None /\ Available
        /\ Goto(p, "generate") /\ stale' = stale \ {p}
        /\ UNCHANGED <<db, keys>>
     \/ /\ found = None /\ ~Available /\ keys < MaxKeys
        /\ keys' = keys + 1
        /\ Opens(p, keys + 1) /\ UNCHANGED stale
  /\ UNCHANGED <<ringUp, ringKey, ring, rows, live, values, starts, faults>>

(* The probe is answered and the read of the key itself fails.                *)
MissKey(p) ==
  /\ procs[p].pc = "key" /\ "master" \notin procs[p].env /\ Available
  /\ faults < MaxFaults /\ faults' = faults + 1
  /\ IF Native THEN NoKey(p) /\ UNCHANGED stale
     ELSE Goto(p, "generate") /\ stale' = stale \cup {p} /\ UNCHANGED db
  /\ UNCHANGED <<ringUp, ringKey, ring, rows, live, keys, values, starts>>

(* The generated key replaces whatever the store holds by now; when it cannot *)
(* be stored there is none.                                                   *)
SaveKey(p) ==
  /\ procs[p].pc = "generate" /\ keys < MaxKeys
  /\ keys' = keys + 1
  /\ IF Available
     THEN ringKey' = keys + 1 /\ stale' = Making \ {p} /\ Opens(p, keys + 1)
     ELSE NoKey(p) /\ stale' = stale \ {p} /\ UNCHANGED ringKey
  /\ UNCHANGED <<ringUp, ring, rows, live, values, starts, faults>>

(* The last step of the command line: the row for `set`, with errors dropped;  *)
(* for `migrate` every row this key decrypts goes up.                          *)
CliEnds ==
  /\ procs["cli"].pc = "open" /\ procs["cli"].for # "check"
  /\ procs' = [procs EXCEPT !["cli"] = Idle]
  /\ IF procs["cli"].for = "all"
     THEN /\ ring' = [n \in Name |-> IF StoreGet("cli", n) # 0 /\ Available
                                     THEN StoreGet("cli", n) ELSE ring[n]]
          /\ UNCHANGED rows
     ELSE /\ rows' = StoreSet("cli", procs["cli"].for, procs["cli"].held)
          /\ UNCHANGED ring
  /\ UNCHANGED <<db, ringUp, ringKey, live, stale, keys, values, starts, faults>>

(* registry::is_present over the three sources.                               *)
Present(p, n) == n \in procs[p].env \/ RingGet(n) # 0 \/ StoreGet(p, n) # 0

(* registry::validate: a missing required credential ends the start.           *)
Validate ==
  /\ procs["server"].pc = "open"
  /\ IF Present("server", "tool")
     THEN Goto("server", "resolve")
     ELSE procs' = [procs EXCEPT !["server"] = Idle]
  /\ UNCHANGED <<db, ringUp, ringKey, ring, rows, live, stale, keys, values, starts, faults>>

(* registry::resolve and resolve_auth_token: find the token, or make one ...    *)
Resolve ==
  /\ procs["server"].pc = "resolve"
  /\ LET keep(from, v) ==
           procs' = [procs EXCEPT !["server"].pc = "persist", !["server"].held = v,
                                  !["server"].from = from] IN
     \/ /\ "auth" \in procs["server"].env
        /\ keep("env", EnvValue) /\ UNCHANGED values
     \/ /\ "auth" \notin procs["server"].env /\ RingGet("auth") # 0
        /\ keep("ring", RingGet("auth")) /\ UNCHANGED values
     \/ /\ "auth" \notin procs["server"].env /\ RingGet("auth") = 0
        /\ StoreGet("server", "auth") # 0
        /\ keep("store", StoreGet("server", "auth")) /\ UNCHANGED values
     \/ /\ ~Present("server", "auth") /\ values < MaxValues
        /\ values' = values + 1
        /\ keep("new", values + 1)
  /\ UNCHANGED <<db, ringUp, ringKey, ring, rows, live, stale, keys, starts, faults>>

(* ... and write it to the places below the one it came from.                   *)
Persist ==
  /\ procs["server"].pc = "persist"
  /\ LET s == procs["server"] IN
       /\ ring' = IF s.from = "ring" THEN ring ELSE RingSet("auth", s.held)
       /\ rows' = IF s.from = "store" THEN rows ELSE StoreSet("server", "auth", s.held)
       /\ live' = s.held
  /\ Goto("server", "running")
  /\ UNCHANGED <<db, ringUp, ringKey, stale, keys, values, starts, faults>>

Running == procs["server"].pc = "running"

(* credential_write: set or delete in one of the two places, or import.          *)
ToolWrites(n) ==
  /\ Running
  /\ \/ /\ values < MaxValues /\ values' = values + 1
        /\ \/ rows' = StoreSet("server", n, values + 1) /\ UNCHANGED ring
           \/ Available /\ ring' = RingSet(n, values + 1) /\ UNCHANGED rows
     \/ /\ UNCHANGED values
        /\ \/ rows' = [rows EXCEPT ![n] = NoRow] /\ UNCHANGED ring
           \/ Available /\ ring' = RingSet(n, 0) /\ UNCHANGED rows
           \/ /\ RingGet(n) # 0
              /\ rows' = StoreSet("server", n, RingGet(n)) /\ UNCHANGED ring
  /\ UNCHANGED <<db, ringUp, ringKey, procs, live, stale, keys, starts, faults>>

(* The same tool with the service and the account of the master key's entry.      *)
ToolWritesKey(text) ==
  /\ Running /\ Available
  /\ ringKey' = text /\ stale' = Making
  /\ UNCHANGED <<db, ringUp, ring, rows, procs, live, keys, values, starts, faults>>

(* What is written there: a key that is known, other text, or None, to delete it. *)
Texts == (0..keys) \cup {Garbage}

(* POST /api/logout: AppState::rotate_token, in memory only.                     *)
Rotate ==
  /\ Running /\ values < MaxValues
  /\ values' = values + 1 /\ live' = values + 1
  /\ UNCHANGED <<db, ringUp, ringKey, ring, rows, procs, stale, keys, starts, faults>>

Stop ==
  /\ Running
  /\ procs' = [procs EXCEPT !["server"] = Idle] /\ live' = 0
  /\ UNCHANGED <<db, ringUp, ringKey, ring, rows, stale, keys, values, starts, faults>>

(* The backend of other platforms goes away or comes back; with the kernel's     *)
(* keyring (the "linux-native" feature of the keyring crate) a reboot empties it. *)
Outage ==
  /\ ~Native /\ faults < MaxFaults /\ faults' = faults + 1
  /\ ringUp' = ~ringUp
  /\ UNCHANGED <<db, ringKey, ring, rows, procs, live, stale, keys, values, starts>>

Reboot ==
  /\ ~Native /\ faults < MaxFaults /\ faults' = faults + 1
  /\ ringKey' = None /\ ring' = [n \in Name |-> 0]
  /\ procs' = [p \in Process |-> Idle] /\ live' = 0 /\ stale' = {}
  /\ UNCHANGED <<db, ringUp, rows, keys, values, starts>>

Next ==
  \/ StartServer \/ CliMigrate \/ CliResolveAgain \/ \E n \in Name : CliSet(n)
  \/ \E text \in Texts : CliSetKey(text)
  \/ \E text \in Texts \cup {None} : ToolWritesKey(text)
  \/ \E p \in Process : FindKey(p) \/ MissKey(p) \/ SaveKey(p)
  \/ CliEnds \/ Validate \/ Resolve \/ Persist
  \/ \E n \in Name : ToolWrites(n)
  \/ Rotate \/ Stop \/ Outage \/ Reboot

Spec == Init /\ [][Next]_vars

-----------------------------------------------------------------------------

(* A row the kept master key decrypts.                                        *)
RingReads(n) == rows[n] # NoRow /\ ringKey # None /\ rows[n].key = ringKey

(* A row that the kept key decrypts stays so from step to step.  It may be     *)
(* deleted, or rewritten by a process that runs under another key.  The kept   *)
(* key itself goes with a reboot or a deletion; it is replaced by who writes    *)
(* its entry by name, and by a start that could not read it or that looked     *)
(* before somebody stored one, and by nobody else.                             *)
KeptReadable ==
  \A n \in Name : RingReads(n) /\ ~RingReads(n)' =>
    \/ rows'[n] = NoRow \/ ringKey' = None
    \/ \E p \in Process : rows'[n].key = procs[p].key /\ procs[p].key # ringKey
    \/ \E text \in Texts : CliSetKey(text) \/ ToolWritesKey(text)
    \/ \E p \in stale : SaveKey(p)

RowsKeptReadable == [][KeptReadable]_vars

=============================================================================
