------------------------- MODULE MCLinkReconciler -------------------------
(* Model-checking instance of LinkReconciler: three names so that a chain  *)
(* of two renames over one index can happen, two kernel indexes, one       *)
(* hardware address besides all-zero and oversized.                       *)
EXTENDS LinkReconciler

MCNames == {"eth0", "eth1", "eth2"}
MCIndexes == {1, 2}
MCHwAddrs == {"hwA"}
=============================================================================
