------------------------------- MODULE MCLanes -------------------------------
(* Two session turns; the first may dispatch a batch of three children, one *)
(* of which may spawn a nested child.                                       *)
EXTENDS Lanes

MCRun == {"s1", "s2", "c1", "c2", "c3", "g1"}
MCParent == [r \in MCRun |-> CASE r \in {"s1", "s2"} -> "none"
                               [] r = "g1" -> "c1"
                               [] OTHER -> "s1"]
MCDepth == [r \in MCRun |-> CASE r \in {"s1", "s2"} -> 0
                              [] r = "g1" -> 2
                              [] OTHER -> 1]
=============================================================================
