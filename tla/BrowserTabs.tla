----------------------------- MODULE BrowserTabs -----------------------------
(***************************************************************************)
(* The browser tool (tools/browser): one profile of the manager, its Chrome *)
(* process and the tool calls that share it.                                *)
(*                                                                          *)
(* Every operation of the manager holds the `instances` lock across its     *)
(* awaits: connecting, launching and waiting for a browser, and listing its *)
(* pages.  What is done to one page after get_page is done without it.  The *)
(* sandbox drops a call at its time limit, wherever it is.  A page is a     *)
(* number; what it shows is left out.                                       *)
(***************************************************************************)
EXTENDS Naturals, Sequences, SequencesExt

CONSTANTS Call,         \* tool calls in flight at once
          AttachOnly,   \* does the profile only connect, and never launch?
          MaxCalls,     \* bound: operations begun
          MaxPages,     \* bound: pages ever opened
          MaxTroubles   \* bound: a browser that quits or stops answering

TabsAssumption ==
  /\ "free" \notin Call /\ AttachOnly \in BOOLEAN
  /\ {MaxCalls, MaxPages, MaxTroubles} \subseteq Nat

VARIABLES chrome,       \* "off", "booting", "up" or "hung"
          tabs,         \* its pages, in the order CDP lists them
          opened,       \* pages opened so far
          inst,         \* the manager's instance: "none", "live", "dead"
          lock,         \* who holds the manager's lock
          op,           \* call -> what it is doing
          orphans,      \* launch threads whose call has been dropped
          begun, troubles,
          \* history: launches that their call gave up, and executables that were
          \* started beside a browser of the profile
          givenUp, beside

browser == <<chrome, tabs, opened>>
launches == <<orphans, givenUp, beside>>
vars == <<browser, inst, lock, op, begun, troubles, launches>>

(* "read" is one of screenshot, content, evaluate, scroll, console, cookies and *)
(* pdf.                                                                         *)
OnPage == {"navigate", "snapshot", "act", "read"}
Starting == {"start", "tabs", "open"} \cup OnPage
Kind == Starting \cup {"stop", "status", "close", "focus"}
Free == "free"
NoCall == [at |-> "off", kind |-> "status", tab |-> 0, page |-> 0]

TypeOK ==
  /\ chrome \in {"off", "booting", "up", "hung"}
  /\ opened \in 0..MaxPages /\ tabs \in Seq(1..opened)
  /\ inst \in {"none", "live", "dead"} /\ lock \in Call \cup {Free}
  /\ op \in [Call -> [at : {"off", "ensure", "ensuring", "launching", "waiting", "use",
                            "using", "page"}, kind : Kind, tab : 0..MaxPages, page : 0..MaxPages]]
  /\ begun \in 0..MaxCalls /\ troubles \in 0..MaxTroubles
  /\ {orphans, givenUp, beside} \subseteq 0..MaxCalls
  /\ \A c \in Call : lock = c <=>
       op[c].at \in {"ensuring", "launching", "waiting", "using"}

Init ==
  /\ chrome = "off" /\ tabs = <<>> /\ opened = 0 /\ inst = "none"
  /\ lock = Free /\ op = [c \in Call |-> NoCall] /\ begun = 0 /\ troubles = 0
  /\ orphans = 0 /\ givenUp = 0 /\ beside = 0

(* BrowserTool::execute.  Tab 0 stands for no targetId; the actions of a tab  *)
(* that are not for pages do not start a browser.                             *)
Execute(c) ==
  /\ op[c].at = "off" /\ begun < MaxCalls
  /\ begun' = begun + 1
  /\ \E k \in Kind, t \in 0..2 :
       /\ k \in {"close", "focus"} => t # 0
       /\ k \notin OnPage \cup {"close", "focus"} => t = 0
       /\ op' = [op EXCEPT ![c] = [at |-> IF k \in Starting THEN "ensure" ELSE "use",
                                   kind |-> k, tab |-> t, page |-> 0]]
  /\ UNCHANGED <<browser, inst, lock, troubles, launches>>

(* self.instances.lock().await                                                *)
Lock(c) ==
  /\ lock = Free
  /\ \/ op[c].at = "ensure" /\ op' = [op EXCEPT ![c].at = "ensuring"]
     \/ op[c].at = "use" /\ op' = [op EXCEPT ![c].at = "using"]
  /\ lock' = c
  /\ UNCHANGED <<browser, inst, begun, troubles, launches>>

Ends(c) == op' = [op EXCEPT ![c] = NoCall] /\ lock' = Free

(* Mutant: get_browser returns with its guard, not with the map alone.        *)
KeepsGuard(c) == op' = [op EXCEPT ![c].at = "use"] /\ UNCHANGED lock

(* drop(instances) in get_browser; the next step of the call locks anew.      *)
DropsGuard(c) == op' = [op EXCEPT ![c].at = "use"] /\ lock' = Free

(* get_browser and start have their instance.                                 *)
Ensured(c) == IF op[c].kind = "start" THEN Ends(c) ELSE DropsGuard(c)

(* Mutant: the lock is let go before the launch.                              *)
LetsGo(c) == lock' = Free

(* Whoever is at the map keeps everyone else out of it.                       *)
KeepsLock(c) == UNCHANGED lock

(* connect_or_launch: an instance in the map is taken as it is; a browser      *)
(* that answers is connected to, and one that hangs does not even refuse;      *)
(* otherwise a blocking thread is spawned to launch one, or the attempt is an   *)
(* error (attach-only).                                                         *)
Connect(c) ==
  /\ op[c].at = "ensuring"
  /\ \/ inst # "none" /\ Ensured(c) /\ UNCHANGED inst
     \/ inst = "none" /\ chrome = "up" /\ inst' = "live" /\ Ensured(c)
     \/ /\ inst = "none" /\ chrome \in {"off", "booting"} /\ ~AttachOnly
        /\ op' = [op EXCEPT ![c].at = "launching"] /\ KeepsLock(c)
        /\ UNCHANGED inst
     \/ /\ inst = "none" /\ chrome \in {"off", "booting"} /\ AttachOnly
        /\ Ends(c) /\ UNCHANGED inst
  /\ UNCHANGED <<browser, begun, troubles, launches>>

(* launch_browser_blocking, on its thread, starts the executable and leaves it *)
(* to itself.  Beside a Chrome that has the profile's directory the new one     *)
(* hands over to it, with a page of its own to open, and goes.                  *)
StartExecutable ==
  IF chrome = "off"
  THEN chrome' = "booting" /\ UNCHANGED <<tabs, opened, beside>>
  ELSE /\ beside' = beside + 1
       /\ \/ UNCHANGED <<tabs, opened>>
          \/ /\ chrome = "up" /\ opened < MaxPages
             /\ opened' = opened + 1 /\ tabs' = Append(tabs, opened + 1)
       /\ UNCHANGED chrome

(* The thread ends, with an error if there is no executable or no directory.    *)
Launched(c) ==
  /\ op[c].at = "launching"
  /\ \/ /\ StartExecutable
        /\ op' = [op EXCEPT ![c].at = "waiting"] /\ UNCHANGED lock
     \/ Ends(c) /\ UNCHANGED <<browser, beside>>
  /\ UNCHANGED <<inst, begun, troubles, orphans, givenUp>>

(* A thread runs on without the call that spawned it.                           *)
OrphanLaunches ==
  /\ orphans > 0 /\ orphans' = orphans - 1
  /\ StartExecutable \/ UNCHANGED <<browser, beside>>
  /\ UNCHANGED <<inst, lock, op, begun, troubles, givenUp>>

(* The second connect, two seconds after the launch: not all browsers are up   *)
(* by then, and one that is not is left to itself.                             *)
Reconnect(c) ==
  /\ op[c].at = "waiting"
  /\ IF chrome = "up"
     THEN inst' = "live" /\ Ensured(c) /\ UNCHANGED givenUp
     ELSE /\ chrome # "hung" /\ Ends(c) /\ givenUp' = givenUp + 1
          /\ UNCHANGED inst
  /\ UNCHANGED <<browser, begun, troubles, orphans, beside>>

(* Browser::pages and every other request over the connection: an error once   *)
(* the browser is gone, and no answer from one that hangs.                      *)
Answers == inst = "live" /\ chrome = "up"
Refuses == inst # "live"

(* stop drops the connection; a browser that was launched goes on running.      *)
Stop(c) ==
  /\ op[c].at = "using" /\ op[c].kind = "stop"
  /\ inst' = "none" /\ Ends(c)
  /\ UNCHANGED <<browser, begun, troubles, launches>>

(* status and tabs change nothing, without an instance either.                   *)
Look(c) ==
  /\ op[c].at = "using" /\ op[c].kind \in {"status", "tabs"}
  /\ Answers \/ Refuses
  /\ Ends(c)
  /\ UNCHANGED <<browser, inst, begun, troubles, launches>>

(* focus_tab brings the tab at the index to the front, where CDP lists it as     *)
(* before, or is an error.                                                       *)
Focus(c) ==
  /\ op[c].at = "using" /\ op[c].kind = "focus"
  /\ Answers \/ Refuses
  /\ Ends(c)
  /\ UNCHANGED <<browser, inst, begun, troubles, launches>>

(* The browser may refuse a new page.                                            *)
OpenTab(c) ==
  /\ op[c].at = "using" /\ op[c].kind = "open"
  /\ \/ /\ Answers /\ opened < MaxPages
        /\ opened' = opened + 1 /\ tabs' = Append(tabs, opened + 1)
     \/ (Answers \/ Refuses) /\ UNCHANGED <<tabs, opened>>
  /\ Ends(c)
  /\ UNCHANGED <<chrome, inst, begun, troubles, launches>>

(* close_tab resolves its index now, and asks the page to close itself, which    *)
(* a page that no script opened may not do; "closed" is reported either way.     *)
CloseTab(c) ==
  /\ op[c].at = "using" /\ op[c].kind = "close"
  /\ \/ /\ Answers /\ op[c].tab <= Len(tabs)
        /\ tabs' \in {tabs, RemoveAt(tabs, op[c].tab)}
     \/ (Refuses \/ (Answers /\ op[c].tab > Len(tabs))) /\ UNCHANGED tabs
  /\ Ends(c)
  /\ UNCHANGED <<chrome, opened, inst, begun, troubles, launches>>

(* get_page: the page at the index, the first one, or a new one if it can be     *)
(* opened.                                                                       *)
GetPage(c) ==
  /\ op[c].at = "using" /\ op[c].kind \in OnPage
  /\ LET t == IF op[c].tab = 0 THEN 1 ELSE op[c].tab IN
     \/ /\ Answers /\ t <= Len(tabs)
        /\ op' = [op EXCEPT ![c].at = "page", ![c].page = tabs[t]] /\ lock' = Free
        /\ UNCHANGED <<tabs, opened>>
     \/ /\ Answers /\ tabs = <<>> /\ op[c].tab = 0 /\ opened < MaxPages
        /\ opened' = opened + 1 /\ tabs' = <<opened + 1>>
        /\ op' = [op EXCEPT ![c].at = "page", ![c].page = opened + 1] /\ lock' = Free
     \/ /\ Refuses \/ (Answers /\ t > Len(tabs))
        /\ Ends(c) /\ UNCHANGED <<tabs, opened>>
  /\ UNCHANGED <<chrome, inst, begun, troubles, launches>>

(* What is done to the page, without the lock: it ends with the answers or the    *)
(* error of the browser, which a page that was closed gives as well.              *)
PageHeard(c) == Answers \/ Refuses \/ op[c].page \notin ToSet(tabs)

OnItsPage(c, kind) ==
  /\ op[c].at = "page" /\ op[c].kind = kind
  /\ op' = [op EXCEPT ![c] = NoCall]
  /\ UNCHANGED <<browser, inst, lock, begun, troubles, launches>>

(* It changes only what the page shows.                                           *)
Navigate(c) == PageHeard(c) /\ OnItsPage(c, "navigate")

(* The script is a function called on the spot, whose string the caller then      *)
(* tries to `apply`: the page throws, and no ref is stored ...                    *)
TakeSnapshot(c) == PageHeard(c) /\ OnItsPage(c, "snapshot")

(* ... for `act` to find, which ends in an error without asking the page.         *)
Act(c) == OnItsPage(c, "act")

Read(c) == PageHeard(c) /\ OnItsPage(c, "read")

(* The sandbox's limit: the future is dropped and with it the lock.  A launch     *)
(* thread cannot be dropped.                                                      *)
AttemptTimeout(c) ==
  /\ op[c].at # "off"
  /\ op' = [op EXCEPT ![c] = NoCall]
  /\ lock' = IF lock = c THEN Free ELSE lock
  /\ orphans' = IF op[c].at = "launching" THEN orphans + 1 ELSE orphans
  /\ givenUp' = IF op[c].at \in {"launching", "waiting"} THEN givenUp + 1 ELSE givenUp
  /\ UNCHANGED <<browser, inst, begun, troubles, beside>>

(* The browser: up some time after its launch, it may quit or stop answering.     *)
Boots ==
  /\ chrome = "booting" /\ opened < MaxPages
  /\ chrome' = "up" /\ opened' = opened + 1 /\ tabs' = <<opened + 1>>
  /\ UNCHANGED <<inst, lock, op, begun, troubles, launches>>

Trouble ==
  /\ chrome = "up" /\ troubles < MaxTroubles
  /\ troubles' = troubles + 1
  /\ \/ /\ chrome' = "off" /\ tabs' = <<>>
        /\ inst' = IF inst = "live" THEN "dead" ELSE inst
     \/ chrome' = "hung" /\ UNCHANGED <<tabs, inst>>
  /\ UNCHANGED <<opened, lock, op, begun, launches>>

Step(c) ==
  \/ Lock(c) \/ Connect(c) \/ Launched(c) \/ Reconnect(c) \/ Stop(c) \/ Look(c)
  \/ Focus(c) \/ OpenTab(c) \/ CloseTab(c) \/ GetPage(c)
  \/ Navigate(c) \/ TakeSnapshot(c) \/ Act(c) \/ Read(c)

Next ==
  \/ \E c \in Call : Execute(c) \/ Step(c) \/ AttemptTimeout(c)
  \/ OrphanLaunches \/ Boots \/ Trouble

(* A call that can go on does.  The sandbox's limit is not relied on.             *)
Fairness == \A c \in Call : WF_vars(Step(c))

Spec == Init /\ [][Next]_vars /\ Fairness

-----------------------------------------------------------------------------

(* An executable is started beside a browser of the profile at most once for      *)
(* each launch that its call gave up, cut off by the limit or two seconds before   *)
(* Chrome was up: calls that find no browser at the same time launch one.          *)
ExtraLaunchesGivenUp == beside <= givenUp

(* The manager's lock, which is taken twice in most calls and held across every    *)
(* wait for the browser, is never what stops a call: without the sandbox's limit   *)
(* every call ends as well, unless the browser hangs.                              *)
CallsEnd ==
  \A c \in Call : (op[c].at # "off") ~> (op[c].at = "off" \/ chrome = "hung")
=============================================================================
