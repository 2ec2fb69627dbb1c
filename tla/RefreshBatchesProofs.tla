------------------------ MODULE RefreshBatchesProofs ------------------------
(***************************************************************************)
(* Theorems about RefreshBatches, for any number of workers, connections,  *)
(* batches and corpora.                                                    *)
(***************************************************************************)
EXTENDS RefreshBatches, FiniteSetTheorems, TLAPS

-----------------------------------------------------------------------------
(***************************************************************************)
(* Type correctness.                                                       *)
(***************************************************************************)

Locations == Locked \cup {"idle", "dead"}

\* The labels of the run are locations.
LEMMA Labels ==
  /\ {"scroll", "count", "compare", "start"} \subseteq Locations
  /\ {"generate", "insert", "swap", "demote", "promote"} \subseteq Locations
  /\ {"retain", "fail", "unlock", "idle", "dead"} \subseteq Locations
BY DEF Locations, Locked, PreBatch, Building

\* A jump keeps the type of pc.
LEMMA GotoType ==
  ASSUME NEW w \in Workers, NEW l \in Locations, pc \in [Workers -> Locations], Goto(w, l)
  PROVE  pc' \in [Workers -> Locations]
BY DEF Goto

\* So does the end of run_locked, and its result is a summary.
LEMMA FinishType ==
  ASSUME NEW w \in Workers, NEW r \in RunSummary, TypeOK, Finish(w, r)
  PROVE  pc' \in [Workers -> Locations] /\ result' \in [Workers -> RunSummary]
BY GotoType, Labels DEF TypeOK, Finish, Locations

\* The locals of a run that a later step relies on are set: TypeOK is inductive
\* together with them.
RunLocals ==
  \A w \in Workers :
    /\ pc[w] = "count" => seen[w] \in Corpora
    /\ pc[w] \in Building \cup {"retain", "fail"} => batch[w] \in Ids

TypeInv == TypeOK /\ RunLocals

\* The INSERT of start_batch keeps the types of the table.
LEMMA InsertRunningType ==
  ASSUME NEW w \in Workers, TypeOK, nextId \in Ids, InsertRunning(w)
  PROVE  /\ status' \in [Ids -> BatchStatus]
         /\ print' \in [Ids -> Fingerprints \cup {None}]
         /\ nextId' \in 1 .. MaxBatches + 1
         /\ filled' = filled
BY ConstantsAssumption DEF InsertRunning, TypeOK, BatchStatus, Ids

\* Whatever the size, what a run takes for the fingerprint is one.
LEMMA CountedType ==
  ASSUME NEW w \in Workers, NEW n \in Sizes, TypeOK, seen[w] \in Corpora, Counted(w, n)
  PROVE  finger' \in [Workers -> Fingerprints \cup {None}]
<1>1. <<FirstIds[seen[w]], n>> \in Fingerprints
  BY DEF Fingerprints
<1>2. finger \in [Workers -> Fingerprints \cup {None}]
  BY DEF TypeOK
<1>3. finger' = [finger EXCEPT ![w] = <<FirstIds[seen[w]], n>>]
  BY DEF Counted
<1> HIDE DEF Fingerprints
<1> QED
  BY <1>1, <1>2, <1>3

\* Steps that jump and leave the tables, the lock and the other locals alone.
LEMMA StepTypeOK ==
  ASSUME NEW w \in Workers, TypeInv, Step(w)
  PROVE  TypeOK'
<1> USE DEF Ids, BatchStatus, Fingerprints, tableVars, lockVars, runVars
<1>t. /\ TypeOK /\ RunLocals
      /\ pc \in [Workers -> Locations]
      /\ \A r \in {"None", "Skipped", "EmptyCorpus", "Completed", "Err"} : r \in RunSummary
  BY DEF TypeInv, TypeOK, Locations, RunSummary
<1>1. CASE Scroll(w)
  <2>1. pc' \in [Workers -> Locations] /\ result' \in [Workers -> RunSummary]
    BY <1>1, <1>t, GotoType, FinishType, Labels DEF Scroll, TypeOK
  <2>2. seen' \in [Workers -> Corpora \cup {None}]
    BY <1>1, <1>t DEF Scroll, TypeOK
  <2> QED
    BY <1>1, <2>1, <2>2, <1>t DEF Scroll, TypeOK, Locations
<1>2. CASE Count(w)
  <2>1. pc' \in [Workers -> Locations] /\ result' \in [Workers -> RunSummary]
    BY <1>2, <1>t, GotoType, Labels DEF Count, Counted, TypeOK
  <2>2. finger' \in [Workers -> Fingerprints \cup {None}]
    BY <1>2, <1>t, CountedType DEF Count, Counted, TypeOK, RunLocals, Sizes
  <2> QED
    BY <1>2, <2>1, <2>2, <1>t DEF Count, Counted, TypeOK, Locations
<1>3. CASE Compare(w)
  <2>1. pc' \in [Workers -> Locations] /\ result' \in [Workers -> RunSummary]
    BY <1>3, <1>t, GotoType, FinishType, Labels DEF Compare, TypeOK
  <2> QED
    BY <1>3, <2>1, <1>t DEF Compare, TypeOK, Locations
<1>4. CASE StartBatch(w)
  <2>1. pc' \in [Workers -> Locations]
    BY <1>4, <1>t, GotoType, Labels DEF StartBatch
  <2>2. /\ status' \in [Ids -> BatchStatus]
        /\ print' \in [Ids -> Fingerprints \cup {None}]
        /\ nextId' \in 1 .. MaxBatches + 1
    BY <1>4, <1>t, InsertRunningType DEF StartBatch
  <2> QED
    BY <1>4, <2>1, <2>2, <1>t DEF StartBatch, InsertRunning, TypeOK, Locations
<1>5. CASE StartBatchError(w)
  <2>1. pc' \in [Workers -> Locations] /\ result' \in [Workers -> RunSummary]
    BY <1>5, <1>t, FinishType DEF StartBatchError
  <2>2. /\ status' \in [Ids -> BatchStatus]
        /\ print' \in [Ids -> Fingerprints \cup {None}]
        /\ nextId' \in 1 .. MaxBatches + 1
        /\ filled' = filled
    BY <1>5, <1>t, InsertRunningType DEF StartBatchError, TypeOK
  <2> QED
    BY <1>5, <2>1, <2>2, <1>t DEF StartBatchError, TypeOK, Locations
<1>6. CASE Generate(w)
  BY <1>6, <1>t, GotoType, Labels DEF Generate, TypeOK, Locations
<1>7. CASE InsertBulk(w)
  <2>1. pc' \in [Workers -> Locations]
    BY <1>7, <1>t, GotoType, Labels DEF InsertBulk
  <2>2. filled' \subseteq Ids
    BY <1>7, <1>t DEF InsertBulk, TypeOK, RunLocals, Building
  <2> QED
    BY <1>7, <2>1, <2>2, <1>t DEF InsertBulk, TypeOK, Locations
<1>8. CASE SwapBegin(w)
  <2>1. pc' \in [Workers -> Locations]
    BY <1>8, <1>t, GotoType, Labels DEF SwapBegin
  <2> QED
    BY <1>8, <2>1, <1>t DEF SwapBegin, TypeOK, Locations, ActiveBatches
<1>9. CASE Demote(w)
  <2>1. pc' \in [Workers -> Locations]
    BY <1>9, <1>t, GotoType, Labels DEF Demote
  <2> QED
    BY <1>9, <2>1, <1>t DEF Demote, TypeOK, Locations, ActiveBatches
<1>10. CASE CommitSwap(w)
  <2>1. pc' \in [Workers -> Locations]
    BY <1>10, <1>t, GotoType, Labels DEF CommitSwap, EndSwap
  <2>2. status' \in [Ids -> BatchStatus] /\ swapRows' \in [Workers -> SUBSET Ids]
    BY <1>10, <1>t DEF CommitSwap, EndSwap, Swapped, TypeOK
  <2>3. /\ UNCHANGED <<corpus, print, filled, nextId, lockVars>>
        /\ UNCHANGED <<forced, pin, seen, finger, batch, result>>
    BY <1>10 DEF CommitSwap, EndSwap
  <2> QED
    BY <2>1, <2>2, <2>3, <1>t DEF TypeOK, Locations
<1>11. CASE Retain(w)
  <2>1. pc' \in [Workers -> Locations] /\ result' \in [Workers -> RunSummary]
    BY <1>11, <1>t, FinishType DEF Retain
  <2>2. status' \in [Ids -> BatchStatus] /\ filled' \subseteq Ids
    BY <1>11, <1>t DEF Retain, ApplyRetention, TypeOK
  <2> QED
    BY <1>11, <2>1, <2>2, <1>t DEF Retain, ApplyRetention, TypeOK, Locations
<1>12. CASE MarkFailed(w)
  <2>1. pc' \in [Workers -> Locations] /\ result' \in [Workers -> RunSummary]
    BY <1>12, <1>t, FinishType DEF MarkFailed
  <2>2. status' \in [Ids -> BatchStatus]
    BY <1>12, <1>t DEF MarkFailed, SetFailed, TypeOK, RunLocals
  <2> QED
    BY <1>12, <2>1, <2>2, <1>t DEF MarkFailed, TypeOK, Locations
<1>13. CASE Unlock(w)
  <2>1. pc' \in [Workers -> Locations]
    BY <1>13, <1>t, GotoType, Labels DEF Unlock
  <2>2. /\ holder' \in (Workers \X Conns) \cup {None}
        /\ depth' \in 0 .. MaxDepth
    BY <1>13, <1>t, ConstantsAssumption DEF Unlock, ReleaseLock, TypeOK
  <2> QED
    BY <1>13, <2>1, <2>2, <1>t DEF Unlock, ResetRun, TypeOK, Locations
<1> QED
  BY <1>1, <1>2, <1>3, <1>4, <1>5, <1>6, <1>7, <1>8, <1>9, <1>10, <1>11, <1>12, <1>13
     DEF Step

\* Faults, the wake-up of a worker, the pool and ingests keep the types too.
LEMMA FaultTypeOK ==
  ASSUME NEW w \in Workers, TypeInv, Fault(w)
  PROVE  TypeOK'
<1> USE DEF Ids, BatchStatus, tableVars, lockVars, runVars
<1>t. /\ TypeOK /\ RunLocals
      /\ pc \in [Workers -> Locations]
      /\ \A r \in {"None", "Skipped", "EmptyCorpus", "Completed", "Err"} : r \in RunSummary
  BY DEF TypeInv, TypeOK, Locations, RunSummary
<1>1. CASE SqlError(w)
  <2>1. pc' \in [Workers -> Locations] /\ result' \in [Workers -> RunSummary]
    BY <1>1, <1>t, GotoType, FinishType, Labels DEF SqlError, TypeOK
  <2>2. swapRows' \in [Workers -> SUBSET Ids]
    BY <1>1, <1>t DEF SqlError, TypeOK
  <2>3. UNCHANGED <<corpus, tableVars, lockVars, forced, pin, seen, finger, batch>>
    BY <1>1 DEF SqlError
  <2> QED
    BY <2>1, <2>2, <2>3, <1>t DEF TypeOK, Locations
<1>2. CASE InsertReplyLost(w)
  <2>1. pc' \in [Workers -> Locations]
    BY <1>2, <1>t, GotoType, Labels DEF InsertReplyLost
  <2>2. filled' \subseteq Ids
    BY <1>2, <1>t DEF InsertReplyLost, TypeOK, RunLocals, Building
  <2> QED
    BY <1>2, <2>1, <2>2, <1>t DEF InsertReplyLost, TypeOK, Locations
<1>3. CASE CommitReplyLost(w)
  <2>1. pc' \in [Workers -> Locations]
    BY <1>3, <1>t, GotoType, Labels DEF CommitReplyLost, EndSwap
  <2>2. status' \in [Ids -> BatchStatus] /\ swapRows' \in [Workers -> SUBSET Ids]
    BY <1>3, <1>t DEF CommitReplyLost, EndSwap, Swapped, TypeOK
  <2>3. /\ UNCHANGED <<corpus, print, filled, nextId, lockVars>>
        /\ UNCHANGED <<forced, pin, seen, finger, batch, result>>
    BY <1>3 DEF CommitReplyLost, EndSwap
  <2> QED
    BY <2>1, <2>2, <2>3, <1>t DEF TypeOK, Locations
<1>4. CASE RetainError(w)
  <2>1. pc' \in [Workers -> Locations]
    BY <1>4, <1>t, GotoType, Labels DEF RetainError
  <2>2. status' \in [Ids -> BatchStatus] /\ filled' \subseteq Ids
    BY <1>4, <1>t DEF RetainError, ApplyRetention, TypeOK
  <2>3. UNCHANGED <<corpus, print, nextId, lockVars, runVars, result>>
    BY <1>4 DEF RetainError, ApplyRetention
  <2> QED
    BY <2>1, <2>2, <2>3, <1>t DEF TypeOK, Locations
<1>5. CASE UnlockError(w)
  <2>1. pc' \in [Workers -> Locations]
    BY <1>5, <1>t, GotoType, Labels DEF UnlockError
  <2> QED
    BY <1>5, <2>1, <1>t DEF UnlockError, ResetRun, TypeOK, Locations
<1>6. CASE LoseConnection(w)
  BY <1>6, <1>t, ConstantsAssumption DEF LoseConnection, ReleaseLock, TypeOK
<1>7. CASE Panic(w)
  <2>1. pc' \in [Workers -> Locations]
    BY <1>7, <1>t, GotoType, Labels DEF Panic
  <2> QED
    BY <1>7, <2>1, <1>t DEF Panic, ResetRun, TypeOK, Locations
<1>8. CASE RestartProcess(w)
  <2>1. pc' \in [Workers -> Locations]
    BY <1>8, <1>t, GotoType, Labels DEF RestartProcess
  <2>2. /\ holder' \in (Workers \X Conns) \cup {None}
        /\ depth' \in 0 .. MaxDepth
    BY <1>8, <1>t, ConstantsAssumption DEF RestartProcess, ReleaseLock, TypeOK
  <2> QED
    BY <1>8, <2>1, <2>2, <1>t DEF RestartProcess, ResetRun, TypeOK, Locations
<1>9. CASE CountError(w)
  <2>1. pc' \in [Workers -> Locations] /\ result' \in [Workers -> RunSummary]
    BY <1>9, <1>t, GotoType, Labels DEF CountError, Counted, TypeOK
  <2>2. finger' \in [Workers -> Fingerprints \cup {None}]
    BY <1>9, <1>t, CountedType DEF CountError, RunLocals, Sizes
  <2> QED
    BY <1>9, <2>1, <2>2, <1>t DEF CountError, Counted, TypeOK, Locations
<1> QED
  BY <1>1, <1>2, <1>3, <1>4, <1>5, <1>6, <1>7, <1>8, <1>9 DEF Fault

LEMMA OtherTypeOK ==
  ASSUME TypeInv
  PROVE  /\ Ingest => TypeOK'
         /\ \A w \in Workers, c \in Conns, f \in BOOLEAN : TryLock(w, f, c) => TypeOK'
         /\ \A w \in Workers, c \in Conns : ReapConnection(w, c) => TypeOK'
         /\ UNCHANGED vars => TypeOK'
<1> USE DEF tableVars, lockVars, runVars, TypeInv
<1>1. Ingest => TypeOK'
  BY ConstantsAssumption DEF Ingest, TypeOK
<1>2. ASSUME NEW w \in Workers, NEW c \in Conns, NEW f \in BOOLEAN, TryLock(w, f, c)
      PROVE  TypeOK'
  <2>1. pc' \in [Workers -> Locations]
    BY <1>2, GotoType, Labels DEF TryLock, TypeOK, Locations
  <2>2. holder' \in (Workers \X Conns) \cup {None} /\ depth' \in 0 .. MaxDepth
    BY <1>2, ConstantsAssumption DEF TryLock, TypeOK
  <2> QED
    BY <1>2, <2>1, <2>2 DEF TryLock, TypeOK, Locations
<1>3. ASSUME NEW w \in Workers, NEW c \in Conns, ReapConnection(w, c)
      PROVE  TypeOK'
  BY <1>3, ConstantsAssumption DEF ReapConnection, ReleaseLock, TypeOK
<1>4. UNCHANGED vars => TypeOK'
  BY DEF vars, TypeOK, Ids
<1> QED
  BY <1>1, <1>2, <1>3, <1>4

-----------------------------------------------------------------------------
(***************************************************************************)
(* The inductive invariant behind the safety properties.                   *)
(***************************************************************************)

Owning == Building \cup {"retain", "fail"}
Swapping == {"swap", "demote", "promote"}

\* A run that builds has a batch of its own, handed out before now.
OwnBatch ==
  \A w \in Workers :
    /\ batch[w] < nextId
    /\ pc[w] \notin Owning \cup {"unlock"} => batch[w] = 0
    /\ \A v \in Workers \ {w} : batch[v] = batch[w] => batch[w] = 0

\* Ids that were not handed out have no row.
FutureAbsent == \A i \in Ids : i >= nextId => status[i] = "absent"

\* The row of a batch that is being built is running, and filled once inserted.
BuildingRuns ==
  \A w \in Workers :
    /\ pc[w] \in Building => status[batch[w]] = "running"
    /\ pc[w] \in Swapping => batch[w] \in filled

\* A swap only ever demotes rows that have finished before.
SwapRowsOld ==
  \A w \in Workers : pc[w] \in {"demote", "promote"} =>
    \A i \in swapRows[w] : i < nextId /\ status[i] # "running"

SafetyInv ==
  /\ TypeInv
  /\ OwnBatch
  /\ FutureAbsent
  /\ BuildingRuns
  /\ SwapRowsOld
  /\ ActivePoolComplete
  /\ AtMostOneActive

\* A jump before the batch is started touches none of it.
LEMMA JumpSafety ==
  ASSUME NEW w \in Workers, NEW l \in PreBatch \cup {"unlock"}, SafetyInv,
         pc[w] \in PreBatch, Goto(w, l),
         UNCHANGED <<status, filled, nextId, batch, swapRows>>,
         l = "count" => seen'[w] \in Corpora,
         \A v \in Workers \ {w} : seen'[v] = seen[v]
  PROVE  RunLocals' /\ OwnBatch' /\ FutureAbsent' /\ BuildingRuns' /\ SwapRowsOld'
         /\ ActivePoolComplete' /\ AtMostOneActive'
BY DEF SafetyInv, TypeInv, TypeOK, RunLocals, OwnBatch, FutureAbsent, BuildingRuns,
       SwapRowsOld, ActivePoolComplete, AtMostOneActive, ActiveBatches,
       Owning, Swapping, Building, PreBatch, Ids, Goto

\* So does the first step of a run, whether there is a corpus or not.
LEMMA ScrollSafety ==
  ASSUME NEW w \in Workers, SafetyInv, Scroll(w)
  PROVE  RunLocals' /\ OwnBatch' /\ FutureAbsent' /\ BuildingRuns' /\ SwapRowsOld'
         /\ ActivePoolComplete' /\ AtMostOneActive'
<1>1. CASE corpus = EmptyCorpus
  <2>1. Goto(w, "unlock") /\ UNCHANGED <<status, filled, nextId, batch, swapRows, seen>>
    BY <1>1 DEF Scroll, Finish, tableVars
  <2> QED
    BY <2>1, JumpSafety DEF Scroll, PreBatch
<1>2. CASE corpus # EmptyCorpus
  <2>1. /\ Goto(w, "count") /\ UNCHANGED <<status, filled, nextId, batch, swapRows>>
        /\ seen' = [seen EXCEPT ![w] = corpus]
    BY <1>2 DEF Scroll, tableVars
  <2> QED
    BY <2>1, JumpSafety DEF Scroll, PreBatch, SafetyInv, TypeInv, TypeOK
<1> QED
  BY <1>1, <1>2

\* A build that is given up keeps its batch and its row, and its swap demotes
\* nothing any more.
LEMMA GivenUpSafety ==
  ASSUME NEW w \in Workers, SafetyInv, pc[w] \in Building, Goto(w, "fail"),
         swapRows' = [swapRows EXCEPT ![w] = {}],
         UNCHANGED <<status, filled, nextId, batch, seen>>
  PROVE  RunLocals' /\ OwnBatch' /\ FutureAbsent' /\ BuildingRuns' /\ SwapRowsOld'
         /\ ActivePoolComplete' /\ AtMostOneActive'
<1> USE DEF SafetyInv, TypeInv, TypeOK, Goto
<1>1. RunLocals'
  BY DEF RunLocals, Building
<1>2. OwnBatch' /\ FutureAbsent'
  BY DEF OwnBatch, FutureAbsent, Owning, Building
<1>3. BuildingRuns' /\ SwapRowsOld'
  BY DEF BuildingRuns, SwapRowsOld, Building, Swapping
<1>4. ActivePoolComplete' /\ AtMostOneActive'
  BY DEF ActivePoolComplete, AtMostOneActive, ActiveBatches
<1> QED
  BY <1>1, <1>2, <1>3, <1>4

\* A committed swap: the batch becomes the one active row, rows that had
\* finished become superseded, and the run leaves the swap.
LEMMA SwappedSafety ==
  ASSUME NEW w \in Workers, NEW l \in {"retain", "fail"}, SafetyInv,
         pc[w] = "promote", ~SecondActive(w), EndSwap(w, l), status' = Swapped(w)
  PROVE  RunLocals' /\ OwnBatch' /\ FutureAbsent' /\ BuildingRuns' /\ SwapRowsOld'
         /\ ActivePoolComplete' /\ AtMostOneActive'
<1> USE DEF SafetyInv, TypeInv, TypeOK, RunLocals, OwnBatch, Owning, Building, Ids
<1>1. /\ batch[w] \in Ids
      /\ pc' = [pc EXCEPT ![w] = l]
      /\ swapRows' = [swapRows EXCEPT ![w] = {}]
      /\ UNCHANGED <<filled, nextId, seen, batch>>
  BY DEF EndSwap, Goto
<1>2. RunLocals' /\ OwnBatch'
  BY <1>1
<1>3. \A i \in Ids : status'[i] = IF i = batch[w] THEN "active"
                                 ELSE IF i \in swapRows[w] THEN "superseded" ELSE status[i]
  BY <1>1 DEF Swapped, BuildingRuns
<1>4. ActiveBatches' = {batch[w]}
  BY <1>1, <1>3 DEF ActiveBatches, SecondActive
<1>5. ActivePoolComplete' /\ AtMostOneActive'
  BY <1>1, <1>4 DEF ActivePoolComplete, AtMostOneActive, BuildingRuns, Swapping
<1>6. FutureAbsent'
  BY <1>1, <1>3 DEF FutureAbsent, SwapRowsOld
<1>7. BuildingRuns'
  BY <1>1, <1>3 DEF BuildingRuns, SwapRowsOld, Swapping
<1>8. SwapRowsOld'
  BY <1>1, <1>3 DEF SwapRowsOld
<1> QED
  BY <1>2, <1>5, <1>6, <1>7, <1>8

LEMMA StepSafety ==
  ASSUME NEW w \in Workers, SafetyInv, Step(w)
  PROVE  RunLocals' /\ OwnBatch' /\ FutureAbsent' /\ BuildingRuns' /\ SwapRowsOld'
         /\ ActivePoolComplete' /\ AtMostOneActive'
<1> USE DEF SafetyInv, TypeInv, TypeOK, RunLocals, OwnBatch, FutureAbsent, BuildingRuns,
       SwapRowsOld, ActivePoolComplete, AtMostOneActive, ActiveBatches,
       Owning, Swapping, Building, Ids, Goto, Finish, tableVars, lockVars, runVars
<1>1. CASE Scroll(w)
  BY <1>1, ScrollSafety
<1>2. CASE Count(w)
  BY <1>2 DEF Count, Counted
<1>3. CASE Compare(w)
  BY <1>3, JumpSafety DEF Compare, PreBatch
<1>4. CASE StartBatch(w)
  BY <1>4 DEF StartBatch, InsertRunning
<1>5. CASE StartBatchError(w)
  <2>1. CASE UNCHANGED tableVars
    BY <1>5, <2>1 DEF StartBatchError
  <2>2. CASE nextId \in Ids /\ InsertRunning(w)
    BY <1>5, <2>2 DEF StartBatchError, InsertRunning
  <2> QED
    BY <1>5, <2>1, <2>2 DEF StartBatchError
<1>6. CASE Generate(w)
  BY <1>6 DEF Generate
<1>7. CASE InsertBulk(w)
  BY <1>7 DEF InsertBulk
<1>8. CASE SwapBegin(w)
  BY <1>8 DEF SwapBegin
<1>9. CASE Demote(w)
  BY <1>9 DEF Demote
<1>10. CASE CommitSwap(w)
  <2>1. CASE SecondActive(w)
    BY <1>10, <2>1, GivenUpSafety DEF CommitSwap, EndSwap
  <2>2. CASE ~SecondActive(w)
    BY <1>10, <2>2, SwappedSafety DEF CommitSwap
  <2> QED
    BY <2>1, <2>2
<1>11. CASE Retain(w)
  BY <1>11 DEF Retain, ApplyRetention, Expired, Finished
<1>12. CASE MarkFailed(w)
  BY <1>12 DEF MarkFailed, SetFailed
<1>13. CASE Unlock(w)
  BY <1>13 DEF Unlock, ResetRun, ReleaseLock
<1> QED
  BY <1>1, <1>2, <1>3, <1>4, <1>5, <1>6, <1>7, <1>8, <1>9, <1>10, <1>11, <1>12, <1>13 DEF Step

LEMMA FaultSafety ==
  ASSUME NEW w \in Workers, SafetyInv, Fault(w)
  PROVE  RunLocals' /\ OwnBatch' /\ FutureAbsent' /\ BuildingRuns' /\ SwapRowsOld'
         /\ ActivePoolComplete' /\ AtMostOneActive'
<1> USE DEF SafetyInv, TypeInv, TypeOK, RunLocals, OwnBatch, FutureAbsent, BuildingRuns,
       SwapRowsOld, ActivePoolComplete, AtMostOneActive, ActiveBatches,
       Owning, Swapping, Building, Ids, Goto, Finish, tableVars, lockVars, runVars
<1>1. CASE SqlError(w)
  <2>1. CASE Finish(w, "Err") /\ UNCHANGED swapRows
    BY <1>1, <2>1 DEF SqlError
  <2>2. CASE /\ pc[w] \in {"insert", "swap", "demote", "promote"}
             /\ Goto(w, "fail")
             /\ swapRows' = [swapRows EXCEPT ![w] = {}]
    BY <1>1, <2>2, GivenUpSafety DEF SqlError
  <2> QED
    BY <1>1, <2>1, <2>2 DEF SqlError
<1>2. CASE InsertReplyLost(w)
  BY <1>2 DEF InsertReplyLost
<1>3. CASE CommitReplyLost(w)
  <2>1. CASE SecondActive(w)
    BY <1>3, <2>1 DEF CommitReplyLost, EndSwap
  <2>2. CASE ~SecondActive(w)
    BY <1>3, <2>2, SwappedSafety DEF CommitReplyLost
  <2> QED
    BY <2>1, <2>2
<1>4. CASE RetainError(w)
  <2>1. CASE ApplyRetention(w)
    BY <1>4, <2>1 DEF RetainError, ApplyRetention, Expired, Finished
  <2>2. CASE UNCHANGED <<corpus, tableVars, lockVars, runVars>>
    BY <1>4, <2>2 DEF RetainError
  <2> QED
    BY <1>4, <2>1, <2>2 DEF RetainError
<1>5. CASE UnlockError(w)
  BY <1>5 DEF UnlockError, ResetRun
<1>6. CASE LoseConnection(w)
  BY <1>6 DEF LoseConnection, ReleaseLock
<1>7. CASE Panic(w)
  BY <1>7 DEF Panic, ResetRun
<1>8. CASE RestartProcess(w)
  BY <1>8 DEF RestartProcess, ResetRun, ReleaseLock
<1>9. CASE CountError(w)
  BY <1>9 DEF CountError, Counted
<1> QED
  BY <1>1, <1>2, <1>3, <1>4, <1>5, <1>6, <1>7, <1>8, <1>9 DEF Fault

LEMMA OtherSafety ==
  ASSUME SafetyInv,
         \/ Ingest
         \/ \E w \in Workers : Wake(w)
         \/ \E w \in Workers, c \in Conns : ReapConnection(w, c)
         \/ UNCHANGED vars
  PROVE  RunLocals' /\ OwnBatch' /\ FutureAbsent' /\ BuildingRuns' /\ SwapRowsOld'
         /\ ActivePoolComplete' /\ AtMostOneActive'
<1> USE DEF SafetyInv, TypeInv, TypeOK, RunLocals, OwnBatch, FutureAbsent, BuildingRuns,
       SwapRowsOld, ActivePoolComplete, AtMostOneActive, ActiveBatches,
       Owning, Swapping, Building, Ids, tableVars, lockVars, runVars, vars
<1>1. CASE Ingest
  BY <1>1 DEF Ingest
<1>2. ASSUME NEW w \in Workers, NEW c \in Conns, NEW f \in BOOLEAN, TryLock(w, f, c)
      PROVE  RunLocals' /\ OwnBatch' /\ FutureAbsent' /\ BuildingRuns' /\ SwapRowsOld'
             /\ ActivePoolComplete' /\ AtMostOneActive'
  BY <1>2 DEF TryLock, Goto
<1>3. CASE \E w \in Workers, c \in Conns : ReapConnection(w, c)
  BY <1>3 DEF ReapConnection
<1>4. CASE UNCHANGED vars
  BY <1>4
<1> HIDE DEF SafetyInv, TypeInv, TypeOK, RunLocals, OwnBatch, FutureAbsent, BuildingRuns,
       SwapRowsOld, ActivePoolComplete, AtMostOneActive, ActiveBatches,
       Owning, Swapping, Building, Ids, tableVars, lockVars, runVars, vars
<1> QED
  BY <1>1, <1>2, <1>3, <1>4 DEF Wake

LEMMA InitSafety == Init => SafetyInv
<1> SUFFICES ASSUME Init PROVE SafetyInv
  OBVIOUS
<1>1. TypeOK
  BY ConstantsAssumption, Labels DEF Init, TypeOK, Locations, BatchStatus, RunSummary, Ids
<1>2. RunLocals /\ OwnBatch /\ BuildingRuns /\ SwapRowsOld
  BY DEF Init, RunLocals, OwnBatch, BuildingRuns, SwapRowsOld, Owning, Building, Swapping
<1>3. FutureAbsent /\ ActivePoolComplete /\ AtMostOneActive
  BY DEF Init, FutureAbsent, ActivePoolComplete, AtMostOneActive, ActiveBatches, Ids
<1> QED
  BY <1>1, <1>2, <1>3 DEF SafetyInv, TypeInv

LEMMA NextSafety == SafetyInv /\ [Next]_vars => SafetyInv'
<1> SUFFICES ASSUME SafetyInv, [Next]_vars PROVE SafetyInv'
  OBVIOUS
<1>1. ASSUME NEW w \in Workers, Step(w) PROVE SafetyInv'
  BY <1>1, StepTypeOK, StepSafety DEF SafetyInv, TypeInv
<1>2. ASSUME NEW w \in Workers, Fault(w) PROVE SafetyInv'
  BY <1>2, FaultTypeOK, FaultSafety DEF SafetyInv, TypeInv
<1>3. ASSUME \/ Ingest
             \/ \E w \in Workers : Wake(w)
             \/ \E w \in Workers, c \in Conns : ReapConnection(w, c)
             \/ UNCHANGED vars
      PROVE  SafetyInv'
  BY <1>3, OtherTypeOK, OtherSafety DEF SafetyInv, TypeInv, Wake
<1> QED
  BY <1>1, <1>2, <1>3 DEF Next

\* Whatever faults happen, every variable keeps its type.
THEOREM TypeCorrect == Spec => []TypeOK
<1>1. SafetyInv => TypeOK
  BY DEF SafetyInv, TypeInv
<1> QED
  BY <1>1, InitSafety, NextSafety, PTL DEF Spec

\* Whatever faults happen - a cut lock connection that lets two runs overlap,
\* lost replies, crashes - readers never find two active batches.
THEOREM SingleActive == Spec => []AtMostOneActive
<1>1. SafetyInv => AtMostOneActive
  BY DEF SafetyInv
<1> QED
  BY <1>1, InitSafety, NextSafety, PTL DEF Spec

\* Whatever faults happen, the served batch has its rows.
THEOREM ServedPoolComplete == Spec => []ActivePoolComplete
<1>1. SafetyInv => ActivePoolComplete
  BY DEF SafetyInv
<1> QED
  BY <1>1, InitSafety, NextSafety, PTL DEF Spec

\* Whatever faults happen, no run disturbs the batch another run is building.
THEOREM NoDisturbance == Spec => []BuildUndisturbed
<1>1. SafetyInv => BuildUndisturbed
  BY DEF SafetyInv, TypeInv, RunLocals, OwnBatch, BuildingRuns, BuildUndisturbed, Ids
<1> QED
  BY <1>1, InitSafety, NextSafety, PTL DEF Spec

-----------------------------------------------------------------------------
(***************************************************************************)
(* While the pinned connection lives the lock keeps other runs out; when   *)
(* moreover nothing fails after the swap, readers never lose their batch.  *)
(***************************************************************************)

\* A run inside holds the lock through its pinned connection.
LockInv ==
  \A w \in Workers : pc[w] \in Locked => pin[w] \in Conns /\ holder = Session(w)

LEMMA InitLock == Init => LockInv
BY DEF Init, LockInv, Locked, PreBatch, Building

LEMMA NextLock ==
  ASSUME "conn_loss" \notin Faults, TypeOK, LockInv, [Next]_vars
  PROVE  LockInv'
<1> USE DEF TypeOK, LockInv, Session, Goto, Finish, tableVars, lockVars, runVars, vars
<1>i. "idle" \notin Locked /\ "dead" \notin Locked
  BY DEF Locked, PreBatch, Building
<1>1. ASSUME NEW w \in Workers, NEW c \in Conns, NEW f \in BOOLEAN, TryLock(w, f, c)
      PROVE  LockInv'
  <2>1. \A v \in Workers \ {w} : pc[v] \notin Locked
    BY <1>1, ConstantsAssumption DEF TryLock
  <2> QED
    BY <1>1, <2>1 DEF TryLock
<1>2. ASSUME NEW w \in Workers, pc[w] \in Locked, UNCHANGED <<lockVars, pin>>,
             \A v \in Workers \ {w} : pc'[v] = pc[v]
      PROVE  LockInv'
  BY <1>2
<1>3. ASSUME NEW w \in Workers, Step(w) PROVE LockInv'
  <2>1. CASE Unlock(w)
    BY <2>1, <1>i DEF Unlock, ResetRun, ReleaseLock, Locked
  <2>2. CASE ~Unlock(w)
    BY <1>2, <1>3, <2>2
       DEF Step, Scroll, Count, Counted, Compare, StartBatch, StartBatchError, Generate, InsertBulk,
           SwapBegin, Demote, CommitSwap, EndSwap, Retain, ApplyRetention, MarkFailed,
           Locked, PreBatch, Building
  <2> QED
    BY <2>1, <2>2
<1>4. ASSUME NEW w \in Workers, Fault(w) PROVE LockInv'
  <2>1. CASE UnlockError(w) \/ Panic(w)
    BY <2>1, <1>i DEF UnlockError, Panic, ResetRun
  <2>2. CASE RestartProcess(w)
    BY <2>2, <1>i DEF RestartProcess, ResetRun, ReleaseLock
  <2>3. CASE \/ CountError(w) \/ SqlError(w) \/ InsertReplyLost(w)
             \/ CommitReplyLost(w) \/ RetainError(w)
    BY <1>2, <2>3
       DEF CountError, Counted, SqlError, InsertReplyLost, CommitReplyLost, EndSwap, RetainError,
           ApplyRetention, Locked, PreBatch, Building
  <2> QED
    BY <1>4, <2>1, <2>2, <2>3 DEF Fault, LoseConnection
<1>5. ASSUME NEW w \in Workers, NEW c \in Conns, ReapConnection(w, c) PROVE LockInv'
  BY <1>5 DEF ReapConnection, ReleaseLock
<1>6. CASE Ingest \/ UNCHANGED vars
  BY <1>6 DEF Ingest
<1> QED
  BY <1>1, <1>3, <1>4, <1>5, <1>6 DEF Next, Wake

\* While no connection is cut, at most one run is inside run_locked, also when
\* processes crash, runs panic and unlocks fail.
THEOREM MutualExclusion ==
  ASSUME "conn_loss" \notin Faults
  PROVE  Spec => []OneRunInside
<1>1. LockInv => OneRunInside
  BY DEF LockInv, OneRunInside, Session
<1>2. TypeOK /\ LockInv /\ [Next]_vars => LockInv'
  BY NextLock
<1> QED
  BY <1>1, <1>2, InitLock, TypeCorrect, PTL DEF Spec

\* The faults of these theorems: anything but a cut lock connection, a lost
\* commit reply and a failing retention.
QuietAfterSwap == {"conn_loss", "commit_lost", "retention"} \cap Faults = {}

\* The run inside builds the newest batch; it retains when that batch is active
\* and fails only while it is running.
NewestInv ==
  \A w \in Workers :
    /\ pc[w] \in Building \cup {"retain"} => batch[w] = nextId - 1
    /\ pc[w] = "retain" => status[batch[w]] = "active"
    /\ pc[w] = "fail" => status[batch[w]] = "running"

QuietInv == SafetyInv /\ LockInv /\ NewestInv

LEMMA NextNewest ==
  ASSUME QuietAfterSwap, QuietInv, [Next]_vars
  PROVE  NewestInv'
<1> USE DEF SafetyInv, TypeInv, TypeOK, NewestInv, Building, Ids,
       Goto, Finish, tableVars, lockVars, runVars, vars
<1>q. QuietInv /\ OneRunInside
  BY DEF QuietInv, LockInv, OneRunInside, Session
<1>o. ASSUME NEW w \in Workers, pc[w] \in Locked, NEW v \in Workers \ {w}
      PROVE  pc[v] \notin Building \cup {"retain", "fail"}
  BY <1>o, <1>q DEF OneRunInside, Locked
<1>1. ASSUME NEW w \in Workers, Step(w) PROVE NewestInv'
  <2>0. \A v \in Workers \ {w} : pc'[v] \notin Building \cup {"retain", "fail"}
    <3>1. pc[w] \in Locked
      BY <1>1 DEF Step, Scroll, Count, Counted, Compare, StartBatch, StartBatchError, Generate,
         InsertBulk, SwapBegin, Demote, CommitSwap, Retain, ApplyRetention, MarkFailed,
         Unlock, Locked, PreBatch
    <3>2. \A v \in Workers \ {w} : pc'[v] = pc[v]
      BY <1>1, <1>q DEF Step, Scroll, Count, Counted, Compare, StartBatch, StartBatchError, Generate,
         InsertBulk, SwapBegin, Demote, CommitSwap, EndSwap, Retain, MarkFailed, Unlock,
         QuietInv
    <3> QED
      BY <3>1, <3>2, <1>o
  <2>1. CASE StartBatch(w)
    BY <2>0, <2>1, <1>q DEF StartBatch, InsertRunning, QuietInv
  <2>2. CASE Generate(w) \/ InsertBulk(w) \/ SwapBegin(w) \/ Demote(w)
    BY <2>0, <2>2, <1>q DEF Generate, InsertBulk, SwapBegin, Demote, QuietInv, BuildingRuns
  <2>3. CASE CommitSwap(w)
    <3>1. CASE SecondActive(w)
      BY <2>0, <2>3, <3>1, <1>q DEF CommitSwap, EndSwap, QuietInv, BuildingRuns
    <3>2. CASE ~SecondActive(w)
      BY <2>0, <2>3, <3>2, <1>q
         DEF CommitSwap, EndSwap, Swapped, QuietInv, BuildingRuns, RunLocals
    <3> QED
      BY <3>1, <3>2
  <2>4. CASE \/ Scroll(w) \/ Count(w) \/ Compare(w) \/ StartBatchError(w)
             \/ Retain(w) \/ MarkFailed(w) \/ Unlock(w)
    <3>1. pc'[w] \notin Building \cup {"retain", "fail"}
      BY <2>4, <1>q DEF Scroll, Count, Counted, Compare, StartBatchError, Retain, MarkFailed, Unlock,
         QuietInv
    <3> QED
      BY <2>0, <3>1
  <2> QED
    BY <1>1, <2>1, <2>2, <2>3, <2>4 DEF Step
<1>2. ASSUME NEW w \in Workers, Fault(w) PROVE NewestInv'
  <2>1. CASE SqlError(w)
    BY <2>1, <1>q, <1>o DEF SqlError, QuietInv, BuildingRuns, Locked
  <2>2. CASE InsertReplyLost(w)
    BY <2>2, <1>q, <1>o DEF InsertReplyLost, QuietInv, BuildingRuns, Locked
  <2>3. CASE UnlockError(w) \/ Panic(w) \/ RestartProcess(w)
    <3>1. /\ UNCHANGED <<status, nextId>>
          /\ pc'[w] \in {"idle", "dead"}
          /\ \A v \in Workers \ {w} : pc'[v] = pc[v] /\ batch'[v] = batch[v]
      BY <2>3, <1>q DEF UnlockError, Panic, RestartProcess, ResetRun, QuietInv
    <3> QED
      BY <3>1, <1>q DEF QuietInv
  <2>4. CASE CountError(w)
    BY <2>4, <1>q, <1>o DEF CountError, Counted, QuietInv, Locked, PreBatch
  <2> QED
    BY <1>2, <2>1, <2>2, <2>3, <2>4
       DEF Fault, QuietAfterSwap, CommitReplyLost, RetainError, LoseConnection
<1>3. ASSUME NEW w \in Workers, NEW c \in Conns, NEW f \in BOOLEAN, TryLock(w, f, c)
      PROVE  NewestInv'
  BY <1>3, <1>q DEF TryLock, QuietInv
<1>4. CASE \/ Ingest
           \/ \E w \in Workers, c \in Conns : ReapConnection(w, c)
           \/ UNCHANGED vars
  BY <1>4, <1>q DEF Ingest, ReapConnection, QuietInv
<1> QED
  BY <1>1, <1>2, <1>3, <1>4 DEF Next, Wake

\* Retention spares the batch that was just promoted.
LEMMA RetentionSpares ==
  ASSUME RetainN >= 1, QuietInv, NEW w \in Workers, pc[w] = "retain"
  PROVE  ActiveBatches = {batch[w]} /\ batch[w] \notin Expired
<1> DEFINE b == batch[w]
<1>1. b \in Ids /\ b = nextId - 1 /\ status[b] = "active" /\ nextId \in Nat
  BY ConstantsAssumption
     DEF QuietInv, NewestInv, SafetyInv, TypeInv, TypeOK, RunLocals, Ids
<1>2. {j \in Finished : j > b} = {}
  BY <1>1 DEF QuietInv, SafetyInv, FutureAbsent, Finished, Ids
<1>3. ~ Cardinality({j \in Finished : j > b}) >= RetainN
  <2>1. Cardinality({j \in Finished : j > b}) = 0
    BY <1>2, FS_EmptySet
  <2>2. RetainN \in Nat
    BY ConstantsAssumption
  <2> QED
    BY <2>1, <2>2
<1> QED
  BY <1>1, <1>3 DEF Expired, ActiveBatches, QuietInv, SafetyInv, AtMostOneActive

\* What a step does to the served batch: nothing, or a newer one replaces it.
LEMMA ServedStep ==
  ASSUME QuietAfterSwap, RetainN >= 1, QuietInv, [Next]_vars
  PROVE  \/ ActiveBatches' = ActiveBatches
         \/ \E b \in Ids : ActiveBatches' = {b} /\ \A i \in ActiveBatches : i < b
<1> USE DEF tableVars, lockVars, runVars, vars
<1>q. /\ QuietInv /\ TypeOK /\ RunLocals /\ BuildingRuns /\ NewestInv /\ FutureAbsent
      /\ nextId \in Nat
  BY ConstantsAssumption DEF QuietInv, SafetyInv, TypeInv, TypeOK
<1>0. CASE UNCHANGED status
  BY <1>0 DEF ActiveBatches
<1>1. ASSUME NEW w \in Workers, nextId \in Ids, InsertRunning(w)
      PROVE  ActiveBatches' = ActiveBatches
  BY <1>1, <1>q DEF InsertRunning, ActiveBatches, FutureAbsent, TypeOK, Ids
<1>2. ASSUME NEW w \in Workers, CommitSwap(w), status' # status
      PROVE  ActiveBatches' = {batch[w]} /\ batch[w] \in Ids
             /\ \A i \in ActiveBatches : i < batch[w]
  <2>1. /\ ~SecondActive(w) /\ status' = Swapped(w)
        /\ batch[w] \in Ids /\ batch[w] = nextId - 1 /\ status[batch[w]] = "running"
    BY <1>2, <1>q DEF CommitSwap, RunLocals, NewestInv, BuildingRuns, Building
  <2>2. ActiveBatches' = {batch[w]}
    BY <2>1 DEF Swapped, SecondActive, ActiveBatches
  <2>3. \A i \in ActiveBatches : i < batch[w]
    BY <2>1, <1>q DEF FutureAbsent, ActiveBatches, Ids
  <2> QED
    BY <2>1, <2>2, <2>3
<1>3. ASSUME NEW w \in Workers, Retain(w)
      PROVE  ActiveBatches' = ActiveBatches
  <2>1. pc[w] = "retain"
    BY <1>3 DEF Retain, ApplyRetention
  <2> QED
    BY <1>3, <1>q, <2>1, RetentionSpares DEF Retain, ApplyRetention, ActiveBatches
<1>4. ASSUME NEW w \in Workers, MarkFailed(w)
      PROVE  ActiveBatches' = ActiveBatches
  BY <1>4, <1>q DEF MarkFailed, SetFailed, ActiveBatches, NewestInv, TypeOK
<1>5. ASSUME NEW w \in Workers, Step(w)
      PROVE  \/ ActiveBatches' = ActiveBatches
             \/ \E b \in Ids : ActiveBatches' = {b} /\ \A i \in ActiveBatches : i < b
  BY <1>0, <1>1, <1>2, <1>3, <1>4, <1>5
     DEF Step, Scroll, Count, Counted, Compare, StartBatch, StartBatchError, Generate, InsertBulk,
         SwapBegin, Demote, Unlock
<1>6. ASSUME NEW w \in Workers, Fault(w)
      PROVE  ActiveBatches' = ActiveBatches
  <2>1. ~CommitReplyLost(w) /\ ~RetainError(w)
    BY DEF QuietAfterSwap, CommitReplyLost, RetainError
  <2>2. UNCHANGED status
    BY <1>6, <2>1
       DEF Fault, CountError, Counted, SqlError, InsertReplyLost, UnlockError, LoseConnection,
           Panic, RestartProcess
  <2> QED
    BY <2>2 DEF ActiveBatches
<1>7. CASE \/ Ingest
           \/ \E w \in Workers : Wake(w)
           \/ \E w \in Workers, c \in Conns : ReapConnection(w, c)
           \/ UNCHANGED vars
  BY <1>0, <1>7 DEF Ingest, Wake, TryLock, ReapConnection
<1> QED
  BY <1>5, <1>6, <1>7 DEF Next

LEMMA QuietInvariant ==
  ASSUME QuietAfterSwap
  PROVE  Spec => []QuietInv
<1>1. Init => QuietInv
  BY InitSafety, InitLock DEF Init, QuietInv, NewestInv, Building
<1>2. QuietInv /\ [Next]_vars => QuietInv'
  <2>1. "conn_loss" \notin Faults
    BY DEF QuietAfterSwap
  <2> QED
    BY <2>1, NextSafety, NextLock, NextNewest DEF QuietInv, SafetyInv, TypeInv
<1> QED
  BY <1>1, <1>2, PTL DEF Spec

\* While no fault strikes after the swap and the lock's connection lives, and
\* retention keeps at least one batch: once a batch is served one always is.
THEOREM AlwaysServed ==
  ASSUME QuietAfterSwap, RetainN >= 1
  PROVE  Spec => NoOutage
<1>1. QuietInv /\ [Next]_vars => [ActiveBatches # {} => ActiveBatches' # {}]_status
  BY ServedStep
<1> QED
  BY <1>1, QuietInvariant, PTL DEF Spec, NoOutage

\* Under the same assumptions the refresh implements PublishedPool: the served
\* batch changes at once, and only to a newer one.
THEOREM ImplementsPublishedPool ==
  ASSUME QuietAfterSwap, RetainN >= 1
  PROVE  Spec => PoolSpec
<1>1. Init => Pool!Init
  BY DEF Init, Pool!Init, Current, ActiveBatches, Ids
<1>2. QuietInv /\ [Next]_vars => [Pool!Publish]_Current
  <2> SUFFICES ASSUME QuietInv, [Next]_vars PROVE [Pool!Publish]_Current
    OBVIOUS
  <2>1. CASE ActiveBatches' = ActiveBatches
    BY <2>1 DEF Current
  <2>2. ASSUME NEW b \in Ids, ActiveBatches' = {b}, \A i \in ActiveBatches : i < b
        PROVE  Pool!Publish
    <3>1. Current' = b
      BY <2>2 DEF Current
    <3>2. Current < b
      BY <2>2 DEF Current, Ids
    <3> QED
      BY <3>1, <3>2 DEF Pool!Publish, Ids
  <2> QED
    BY <2>1, <2>2, ServedStep
<1> QED
  BY <1>1, <1>2, QuietInvariant, PTL DEF Spec, PoolSpec, Pool!Spec
=============================================================================
