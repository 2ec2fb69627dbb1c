---------------------------- MODULE MCRefreshRuns ----------------------------
(***************************************************************************)
(* Two sides of overlapping refresh runs, in behaviours of their own: a    *)
(* lock that is left behind on one of two connections, over a corpus that  *)
(* stands still; and a corpus that grows, whose size cannot always be had, *)
(* with scheduled runs, crashes and failures of the model.                 *)
(***************************************************************************)
EXTENDS MCRefreshBatches

VARIABLE side

CONSTANT k1

Counts(w) == TryLock(w, FALSE, k1) \/ Step(w) \/ CountError(w) \/ RestartProcess(w)

MCNext ==
  \/ /\ side = "lock" /\ Next /\ UNCHANGED <<side, corpus>>
     /\ \A w \in Workers : ~Miscounts(w)
  \/ side = "size" /\ (Ingest \/ \E w \in Workers : Counts(w)) /\ UNCHANGED side

MCInit == side \in {"lock", "size"} /\ Init
MCSpec == MCInit /\ [][MCNext]_<<side, vars>> /\ Fairness
=============================================================================
