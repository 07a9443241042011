--------------------------- MODULE MCOutboundQueue ---------------------------
(***************************************************************************)
(* Instances of OutboundQueue for TLC: two stream items, and other         *)
(* envelopes at the edges of the lanes, two of them in the first lane.     *)
(***************************************************************************)
EXTENDS OutboundQueue, TLC

CONSTANTS s1, s2, top, critical, high, unmarked, background

MCSendModeOf ==
    [e \in Envelopes |-> CASE e = s1 -> "Expand" [] e = s2 -> "Reduce"
                           [] e = high -> "Transform" [] e = unmarked -> "Ask" [] OTHER -> "Tell"]
MCPriorityOf ==
    [e \in Envelopes |-> CASE e = top -> 0 [] e = critical -> 63 [] e = high -> 64 [] e = background -> 255
                           [] OTHER -> NoHeader]
=============================================================================
