----------------------------- MODULE MCRpcCalls -----------------------------
(***************************************************************************)
(* Four calls in a map of three, for TLC.                                   *)
(***************************************************************************)
EXTENDS RpcCalls

\* The ids 1, 2 and 4 share a bucket.
MCHash == [i \in 1 .. MaxId |-> IF i = 3 THEN 2 ELSE 1]

\* The last answer, with or without a partial one before it.  Nothing makes
\* the bus deliver: what is never delivered is lost, and to a map that has
\* forgotten the call an answer that comes late is one that comes twice.
MCDeliveries == {<<"OK">>, <<"PART_OK", "OK">>}
=============================================================================
