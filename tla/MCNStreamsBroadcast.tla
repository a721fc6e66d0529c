------------------------ MODULE MCNStreamsBroadcast ------------------------
(* Instances of NStreamsBroadcast for TLC. *)
EXTENDS NStreamsBroadcast, TLC

\* The agents are interchangeable: no operator singles one out.
AgentSymmetry == Permutations(Agents)
=============================================================================
