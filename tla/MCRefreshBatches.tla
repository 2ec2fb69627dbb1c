-------------------------- MODULE MCRefreshBatches --------------------------
(***************************************************************************)
(* Instances of RefreshBatches for TLC.  Growing: a collection that grows  *)
(* from empty over c1 to c2 by appending points behind the ids of the      *)
(* fingerprint, c2 having more of them.  Loaded: a collection that is      *)
(* filled once.                                                            *)
(***************************************************************************)
EXTENDS RefreshBatches, TLC

Growing == {"empty", "c1", "c2"}
GrowingNext == ("empty" :> {"c1"}) @@ ("c1" :> {"c2"}) @@ ("c2" :> {})
GrowingIds == [c \in Growing |-> "ids"]
GrowingCount == ("empty" :> 0) @@ ("c1" :> 1) @@ ("c2" :> 2)

Loaded == {"empty", "c1"}
LoadedNext == ("empty" :> {"c1"}) @@ ("c1" :> {})
LoadedIds == ("empty" :> "none") @@ ("c1" :> "ids")
LoadedCount == ("empty" :> 0) @@ ("c1" :> 2)
=============================================================================
