----------------------------- MODULE MCKeeping -----------------------------
(* An instance of Keeping: three calls on the video projects; texts of up  *)
(* to five characters, cut into pieces of three bytes; two replies of two  *)
(* chunks on their way to one chat; three Signal messages, the second a    *)
(* receipt, into a queue of one; three samples, two at a time, of answers  *)
(* of two words; model answers of up to two blocks; two processes of a     *)
(* platform without a native credential store; two calls of the process    *)
(* and code execution tools and two pids; two calls on a file that is      *)
(* there and one that is not, an edit that replaces every occurrence of    *)
(* its old string, one whose new string has it once and one twice;         *)
(* two calls on pages and notes of two titles; two clients of the gateway, *)
(* two requests per window, a lockout longer than the two windows after    *)
(* which a record is stale, as 300 s is to 60 s, and pruning as soon as    *)
(* there are two records.                                                  *)
EXTENDS Keeping

MCKindOf == <<"text", "ignored", "text">>
MCEdits == [replaceAll |-> [found |-> 2, again |-> 0, all |-> TRUE],
            insert |-> [found |-> 1, again |-> 1, all |-> FALSE],
            double |-> [found |-> 1, again |-> 2, all |-> FALSE]]
=============================================================================
