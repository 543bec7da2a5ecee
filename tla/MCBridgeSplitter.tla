--------------------------- MODULE MCBridgeSplitter ---------------------------
(* Instances of BridgeSplitter for TLC: two bridges whose hashes fall in    *)
(* different places, every subset of the rings and every share of Shares.   *)
EXTENDS BridgeSplitter, TLC

CONSTANTS b1, b2

MCRingOrder == <<"moat", "https", "unallocated">>
MCRequest == {"moat", "https", "unallocated", "any", "none", "godzilla"}
MCDigest == b1 :> 1 @@ b2 :> 5
=============================================================================
