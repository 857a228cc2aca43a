---------------------------- MODULE MCPushAgents ----------------------------
(* Two worker threads and one QWAIT session against the push-agent         *)
(* registry.  Agents register for stage 2, or for stage 9 (above the       *)
(* eight registration flags); one endpoint is dead and the other may look   *)
(* like the agent's own socket.  PUSHCLIENTALLOC is 2, so the array grows  *)
(* within a few steps.  MAX_PUSHCLIENTS_ERRORS is the code's 25 in the     *)
(* removal run; the registry run lowers it to 0 so that the removal of an  *)
(* agent with too many errors happens within the bounds.                   *)
EXTENDS PushAgents

CONSTANTS w1, w2, s1, a, b, e1, e2

\* The agent a registers on e1 and re-registers on the dead e2; b takes
\* the endpoint and stage of a, and registers e1 for stage 9.
MCQwaitArgs == {<<a, e1, 2>>, <<a, e2, 2>>, <<b, e1, 2>>, <<b, e1, 9>>}
=============================================================================
