--------------------------- MODULE MCTelegramLoop ---------------------------
(***************************************************************************)
(* Model values for TelegramLoop: two threads of one chat, m1 and m2 for    *)
(* the first thread, n1 and the reset r1 for the second.                   *)
(***************************************************************************)
EXTENDS TelegramLoop, TLC

CONSTANTS m1, m2, r1, n1, c1, c2, c3

MCKeys == {<<1, 0>>, <<1, 7>>}
MCKeyOf == [m \in Msgs |-> IF m \in {n1, r1} THEN <<1, 7>> ELSE <<1, 0>>]

(* Safety runs only: UUIDs are interchangeable, and so are m1 and m2.      *)
MCSymmetry == Permutations(ConvIds) \cup Permutations({m1, m2})

(* Runs of the first thread may take for ever; everything else is fair.    *)
SlowSpec == Spec /\ Fairness({n1})

(* "Messages for different chats/threads are processed concurrently so one *)
(* slow agent run doesn't block other users or topics": every message of   *)
(* the second thread, a reset included, ends although runs of the first    *)
(* one may never end.                                                      *)
OtherChatsUnblocked ==
  \A m \in {n \in Msgs : KeyOf[n] = <<1, 7>>} : pc[m] = "check" ~> Ended(m)

(* The second thread never tells its user for ever that it is working.     *)
BusyClears == chat_states[<<1, 7>>].busy ~> ~chat_states[<<1, 7>>].busy
=============================================================================
