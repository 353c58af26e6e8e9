----------------------------- MODULE MCForwarding -----------------------------
(***************************************************************************)
(* Forwarded requests of one game, in two scenes: two requests in the list *)
(* of one gateway, and one request while two gateways own the game in      *)
(* turn.  Whatever a scene leaves out rests in its initial state.          *)
(***************************************************************************)
EXTENDS ForwardedRequest, TLC

CONSTANTS r1, r2, n1, n2, e1, e2

VARIABLE scene

MCReq == {r1, r2}
MCNode == {n1, n2}
MCExecutor == {e1, e2}

Symmetry == Permutations(MCReq) \cup Permutations(MCNode) \cup Permutations(MCExecutor)

SceneInit == Init /\ scene \in {"list", "takeover"}
SceneNext ==
  /\ \/ scene = "list" /\ Steps(MCReq, {n1}, {e1})
     \/ scene = "takeover" /\ Steps({r1}, MCNode, MCExecutor)
  /\ UNCHANGED scene
SceneSpec == SceneInit /\ [][SceneNext]_<<vars, scene>>

=============================================================================
