--------------------------- MODULE MCKernelSync ---------------------------
(* KernelSync with two names and three kernel indexes: enough for a link  *)
(* to be deleted and re-created under a new index, and for an index to    *)
(* change its name; one address per family.                               *)
EXTENDS KernelSync

MCNames == {"eth0", "eth1"}
MCIndexes == {1, 2, 3}
MCAddrs == {"a"}
MCFamilies == {"v4", "v6"}
\* eth0 is up at index 1 with an IPv6 address when the daemon starts.
MCInitLinks == (1 :> "eth0") @@ (2 :> NoName) @@ (3 :> NoName)
MCInitAddrs == {[idx |-> 1, fam |-> "v6", addr |-> "a"]}
=============================================================================
