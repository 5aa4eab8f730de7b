-------------------------- MODULE MCMemoryStore ---------------------------
(* Instances of MemoryStore: two texts that are related but not the same,  *)
(* an ordinary fact and one with names, dates and strong words in it.      *)
EXTENDS MemoryStore, TLC

CONSTANTS a, b

MCDuplicate == {}
MCRelated == {{a, b}}
Plain == [entities |-> 0, strong |-> 0, tool |-> FALSE, flagged |-> FALSE,
          temporal |-> FALSE]
Rich == [entities |-> 6, strong |-> 4, tool |-> FALSE, flagged |-> FALSE,
         temporal |-> TRUE]
MCSaves == {<<a, "working">>, <<b, "episodic">>}
MCFeatures == a :> Plain @@ b :> Rich
=============================================================================
