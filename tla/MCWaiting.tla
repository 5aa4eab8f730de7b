----------------------------- MODULE MCWaiting -----------------------------
(* An instance of Waiting: two users of one MCP server, over a channel of  *)
(* one line; three updates, the second a command, into a queue of one; a   *)
(* call and up to three sub-queries at a time, which share one permit; two *)
(* calls of the browser tool on a profile that launches Chrome.            *)
EXTENDS Waiting

MCKindOf == <<"text", "command", "text">>
=============================================================================
