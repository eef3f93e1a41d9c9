------------------------------- MODULE MCChat -------------------------------
(* ChatPage for TLC: of MaxSent messages and MaxSends writings, only MaxBoth   *)
(* together.                                                                   *)
EXTENDS ChatPage

CONSTANT MaxBoth

Bounded == Cardinality(Sent') + Cardinality({k \in Sends : wrote'[k] # "none"}) <= MaxBoth

ChatSpec == PageInit /\ [][PageNext /\ Bounded]_pageVars /\ PageFairness
=============================================================================
