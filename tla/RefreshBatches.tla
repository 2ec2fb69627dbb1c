--------------------------- MODULE RefreshBatches ---------------------------
(***************************************************************************)
(* The suggestion refresh: every server replica runs a                     *)
(* SuggestionRefreshWorker on a cron schedule and an operator may run the  *)
(* same worker from the command line.  A run takes a session-scoped        *)
(* PostgreSQL advisory lock on a pinned connection, samples the corpus,    *)
(* skips when the fingerprint is that of the active batch, and otherwise   *)
(* builds a new batch, swaps it in and applies retention.  The lock lives  *)
(* on one connection, every other statement goes through the pool: what    *)
(* happens when that connection dies, when a statement fails, when its     *)
(* reply is lost, when the process dies or the run panics is the subject   *)
(* of this module.                                                         *)
(*                                                                         *)
(* A batch is its id.  Ids are handed out in the order of started_at.  The *)
(* rows of default_suggestions are abstracted to whether a batch has any.  *)
(***************************************************************************)
EXTENDS Integers, FiniteSets

CONSTANTS
  Workers,       \* processes that run the refresh: replicas and CLI runs
  ForceWorkers,  \* those that may pass force = TRUE (seed-refresh-now --force)
  Conns,         \* connections of a process's pool that a run may pin
  Corpora,       \* contents of the Qdrant collection
  EmptyCorpus,   \* the content without points
  CorpusNext,    \* CorpusNext[c]: what an ingest may turn c into
  FirstIds,      \* FirstIds[c]: the sorted first ids that enter the fingerprint
  PointsCount,   \* PointsCount[c]: the number of points of c
  SampleCap,     \* suggestions.refresh.sample_cap: how many points a scroll returns
  RetainN,       \* suggestions.refresh.retention_batches
  MaxBatches,    \* bound: ids the sequence of refresh_batches can hand out
  MaxDepth,      \* bound: how often one session may hold the advisory lock
  Faults,        \* the faults that may happen
  None

FaultKinds ==
  { "llm",         \* k-means fails or no cluster yields a question
    "count",       \* the size of the collection cannot be had
    "sql",         \* a statement fails and has no effect
    "commit_lost", \* the swap is committed and the reply to COMMIT is lost
    "retention",   \* the DELETE of the retention fails
    "conn_loss",   \* the pinned connection is cut while the run goes on
    "unlock",      \* pg_advisory_unlock fails on a live connection
    "crash",       \* the process dies and is restarted
    "panic" }      \* the run panics while it builds the batch

ASSUME ConstantsAssumption ==
  /\ None \notin Workers \cup Conns \cup Corpora \cup (Workers \X Conns)
  /\ ForceWorkers \subseteq Workers
  /\ EmptyCorpus \in Corpora
  /\ CorpusNext \in [Corpora -> SUBSET Corpora]
  /\ DOMAIN FirstIds = Corpora
  /\ DOMAIN PointsCount = Corpora
  /\ SampleCap \in Nat
  /\ RetainN \in Nat
  /\ MaxBatches \in Nat
  /\ MaxDepth \in Nat \ {0}
  /\ Faults \subseteq FaultKinds

VARIABLES
  corpus,    \* what Qdrant holds
  status,    \* refresh_batches.status of every id, "absent" without a row
  print,     \* refresh_batches.corpus_fingerprint
  filled,    \* batches with rows in default_suggestions
  nextId,    \* next value of the id sequence
  holder,    \* session <<w, c>> that holds the advisory lock, or None
  depth,     \* how often it holds it
  pc,        \* where each worker is in run_once
  forced,    \* its argument force
  pin,       \* its pinned connection
  seen,      \* the corpus it scrolled
  finger,    \* the fingerprint it computed
  batch,     \* its batch_id
  swapRows,  \* rows the first UPDATE of its swap transaction has matched
  result     \* what run_locked returned, until run_once returns it

lockVars == <<holder, depth>>
tableVars == <<status, print, filled, nextId>>
runVars == <<forced, pin, seen, finger, batch, swapRows>>
vars == <<corpus, tableVars, lockVars, pc, runVars, result>>

Ids == 1 .. MaxBatches

\* The size of a corpus as run_locked may see it: what collection_info says, the
\* length of the sample, which is capped, or 0 when Qdrant reports no count.
SampleSize(c) == IF PointsCount[c] < SampleCap THEN PointsCount[c] ELSE SampleCap
Sizes == {PointsCount[c] : c \in Corpora} \cup {SampleSize(c) : c \in Corpora} \cup {0}
Fingerprints == {FirstIds[c] : c \in Corpora} \X Sizes
BatchStatus == {"absent", "running", "active", "superseded", "failed"}
RunSummary == {"None", "Skipped", "EmptyCorpus", "Completed", "Err"}

\* Program counters, in the order of run_once.
PreBatch == {"scroll", "count", "compare", "start"}
Building == {"generate", "insert", "swap", "demote", "promote"}
Locked == PreBatch \cup Building \cup {"retain", "fail", "unlock"}

Session(w) == <<w, pin[w]>>
ActiveBatches == {i \in Ids : status[i] = "active"}
\* Mutation of Finished: retention also counts and deletes running batches.
FinishedOrRunning == {i \in Ids : status[i] # "absent"}
Finished == {i \in Ids : status[i] \notin {"absent", "running"}}

\* Rows locked by the open swap transaction of a worker.
RowLocks(w) == IF pc[w] = "promote" THEN swapRows[w] ELSE {}
LockedByOthers(w) == UNION {RowLocks(v) : v \in Workers \ {w}}

Goto(w, l) == pc' = [pc EXCEPT ![w] = l]
Finish(w, r) == result' = [result EXCEPT ![w] = r] /\ Goto(w, "unlock")

\* What a run leaves of its locals when it is over.
ResetRun(w) ==
  /\ forced' = [forced EXCEPT ![w] = FALSE]
  /\ pin' = [pin EXCEPT ![w] = None]
  /\ seen' = [seen EXCEPT ![w] = None]
  /\ finger' = [finger EXCEPT ![w] = None]
  /\ batch' = [batch EXCEPT ![w] = 0]
  /\ swapRows' = [swapRows EXCEPT ![w] = {}]
  /\ result' = [result EXCEPT ![w] = "None"]

ReleaseLock == holder' = None /\ depth' = 0

-----------------------------------------------------------------------------

Init ==
  /\ corpus \in Corpora
  /\ status = [i \in Ids |-> "absent"]
  /\ print = [i \in Ids |-> None]
  /\ filled = {}
  /\ nextId = 1
  /\ holder = None
  /\ depth = 0
  /\ pc = [w \in Workers |-> "idle"]
  /\ forced = [w \in Workers |-> FALSE]
  /\ pin = [w \in Workers |-> None]
  /\ seen = [w \in Workers |-> None]
  /\ finger = [w \in Workers |-> None]
  /\ batch = [w \in Workers |-> 0]
  /\ swapRows = [w \in Workers |-> {}]
  /\ result = [w \in Workers |-> "None"]

\* An ingest changes the collection at any time.
Ingest ==
  /\ corpus' \in CorpusNext[corpus]
  /\ UNCHANGED <<tableVars, lockVars, pc, runVars, result>>

\* Mutation of TryLock: whoever holds the lock, the run starts.
TryLockUnchecked(w, f, c) ==
  /\ pc[w] = "idle"
  /\ f => w \in ForceWorkers
  /\ depth < MaxDepth
  /\ holder' = <<w, c>>
  /\ depth' = depth + 1
  /\ forced' = [forced EXCEPT ![w] = f]
  /\ pin' = [pin EXCEPT ![w] = c]
  /\ Goto(w, "scroll")
  /\ UNCHANGED <<corpus, tableVars, seen, finger, batch, swapRows, result>>

(***************************************************************************)
(* run_once: pin a connection and try the advisory lock on it.  The lock   *)
(* is granted again to the session that already holds it.  A try that is   *)
(* refused returns LockHeld at once and leaves no trace.                   *)
(***************************************************************************)
TryLock(w, f, c) ==
  /\ pc[w] = "idle"
  /\ f => w \in ForceWorkers
  /\ holder \in {None, <<w, c>>}
  /\ depth < MaxDepth
  /\ holder' = <<w, c>>
  /\ depth' = depth + 1
  /\ forced' = [forced EXCEPT ![w] = f]
  /\ pin' = [pin EXCEPT ![w] = c]
  /\ Goto(w, "scroll")
  /\ UNCHANGED <<corpus, tableVars, seen, finger, batch, swapRows, result>>

\* run_locked, step 1: scroll the collection ...
Scroll(w) ==
  /\ pc[w] = "scroll"
  /\ IF corpus = EmptyCorpus
       THEN Finish(w, "EmptyCorpus") /\ UNCHANGED seen
       ELSE /\ seen' = [seen EXCEPT ![w] = corpus]
            /\ Goto(w, "count")
            /\ UNCHANGED result
  /\ UNCHANGED <<corpus, tableVars, lockVars, forced, pin, finger, batch, swapRows>>

Counted(w, n) ==
  /\ finger' = [finger EXCEPT ![w] = <<FirstIds[seen[w]], n>>]
  /\ Goto(w, "compare")
  /\ UNCHANGED <<corpus, tableVars, lockVars, forced, pin, seen, batch, swapRows, result>>

\* ... then ask for its size, in a second call: the collection may have changed
\* in between.
Count(w) == pc[w] = "count" /\ Counted(w, PointsCount[corpus])

\* Mutation of Compare: the fingerprint leaves out the number of points.
CompareFirstIds(w) ==
  /\ pc[w] = "compare"
  /\ IF ~forced[w] /\ \E i \in ActiveBatches : print[i][1] = finger[w][1]
       THEN Finish(w, "Skipped")
       ELSE Goto(w, "start") /\ UNCHANGED result
  /\ UNCHANGED <<corpus, tableVars, lockVars, runVars>>

\* The skip: not forced and the active batch has this fingerprint.
Compare(w) ==
  /\ pc[w] = "compare"
  /\ IF ~forced[w] /\ \E i \in ActiveBatches : print[i] = finger[w]
       THEN Finish(w, "Skipped")
       ELSE Goto(w, "start") /\ UNCHANGED result
  /\ UNCHANGED <<corpus, tableVars, lockVars, runVars>>

InsertRunning(w) ==
  /\ status' = [status EXCEPT ![nextId] = "running"]
  /\ print' = [print EXCEPT ![nextId] = finger[w]]
  /\ nextId' = nextId + 1
  /\ UNCHANGED filled

StartBatch(w) ==
  /\ pc[w] = "start"
  /\ nextId \in Ids
  /\ InsertRunning(w)
  /\ batch' = [batch EXCEPT ![w] = nextId]
  /\ Goto(w, "generate")
  /\ UNCHANGED <<corpus, lockVars, forced, pin, seen, finger, swapRows, result>>

\* Mutation of Generate: a batch without one surviving question is swapped in.
GenerateNothing(w) ==
  /\ pc[w] = "generate"
  /\ \/ Goto(w, "insert")
     \/ "llm" \in Faults /\ Goto(w, "swap")
  /\ UNCHANGED <<corpus, tableVars, lockVars, runVars, result>>

\* build_and_swap: k-means, the per-cluster LLM calls, the safety filter.
Generate(w) ==
  /\ pc[w] = "generate"
  /\ \/ Goto(w, "insert")
     \/ "llm" \in Faults /\ Goto(w, "fail")
  /\ UNCHANGED <<corpus, tableVars, lockVars, runVars, result>>

\* insert_bulk: its foreign key needs the row of the batch.
InsertBulk(w) ==
  /\ pc[w] = "insert"
  /\ IF status[batch[w]] = "absent"
       THEN Goto(w, "fail") /\ UNCHANGED filled
       ELSE filled' = filled \cup {batch[w]} /\ Goto(w, "swap")
  /\ UNCHANGED <<corpus, status, print, nextId, lockVars, runVars, result>>

(***************************************************************************)
(* swap_active_atomic, one transaction at READ COMMITTED.  The first       *)
(* UPDATE sees the active rows of its snapshot, waits for the transactions *)
(* that hold them and looks at their status again.  The second promotes    *)
(* the batch; the partial unique index then refuses a second active row.   *)
(***************************************************************************)
SwapBegin(w) ==
  /\ pc[w] = "swap"
  /\ swapRows' = [swapRows EXCEPT ![w] = ActiveBatches \ {batch[w]}]
  /\ Goto(w, "demote")
  /\ UNCHANGED <<corpus, tableVars, lockVars, forced, pin, seen, finger, batch, result>>

\* Mutation of Demote: the two UPDATEs are not in one transaction.
DemoteAtOnce(w) ==
  /\ pc[w] = "demote"
  /\ status' = [i \in Ids |-> IF i \in swapRows[w] THEN "superseded" ELSE status[i]]
  /\ Goto(w, "promote")
  /\ UNCHANGED <<corpus, print, filled, nextId, lockVars, runVars, result>>

Demote(w) ==
  /\ pc[w] = "demote"
  /\ swapRows[w] \cap LockedByOthers(w) = {}
  /\ swapRows' = [swapRows EXCEPT ![w] = @ \cap ActiveBatches]
  /\ Goto(w, "promote")
  /\ UNCHANGED <<corpus, tableVars, lockVars, forced, pin, seen, finger, batch, result>>

\* Mutation of SecondActive: there is no partial unique index.
SecondActiveAllowed(w) == FALSE

SecondActive(w) == ActiveBatches \ (swapRows[w] \cup {batch[w]}) # {}

Swapped(w) ==
  [i \in Ids |-> IF i = batch[w] /\ status[i] # "absent" THEN "active"
                 ELSE IF i \in swapRows[w] THEN "superseded"
                 ELSE status[i]]

EndSwap(w, l) ==
  /\ swapRows' = [swapRows EXCEPT ![w] = {}]
  /\ Goto(w, l)
  /\ UNCHANGED <<corpus, print, filled, nextId, lockVars>>
  /\ UNCHANGED <<forced, pin, seen, finger, batch, result>>

CommitSwap(w) ==
  /\ pc[w] = "promote"
  /\ IF SecondActive(w)
       THEN EndSwap(w, "fail") /\ UNCHANGED status
       ELSE EndSwap(w, "retain") /\ status' = Swapped(w)

(***************************************************************************)
(* retain_last_n: delete every finished batch that is not among the        *)
(* RetainN most recently started ones, and with it its rows.               *)
(***************************************************************************)
Expired == {i \in Finished : Cardinality({j \in Finished : j > i}) >= RetainN}

ApplyRetention(w) ==
  /\ pc[w] = "retain"
  /\ Expired \cap LockedByOthers(w) = {}
  /\ status' = [i \in Ids |-> IF i \in Expired THEN "absent" ELSE status[i]]
  /\ filled' = filled \ Expired
  /\ UNCHANGED <<corpus, print, nextId, lockVars, runVars>>

Retain(w) ==
  /\ ApplyRetention(w)
  /\ Finish(w, "Completed")

\* mark_failed: the row of the batch, whatever its status has become.
SetFailed(w) ==
  /\ batch[w] \notin LockedByOthers(w)
  /\ status' = [status EXCEPT ![batch[w]] = IF @ = "absent" THEN @ ELSE "failed"]

MarkFailed(w) ==
  /\ pc[w] = "fail"
  /\ SetFailed(w)
  /\ Finish(w, "Err")
  /\ UNCHANGED <<corpus, print, filled, nextId, lockVars, runVars>>

\* pg_advisory_unlock on the pinned connection, which returns to the pool.
\* On a connection that lost its session there is nothing left to release.
Unlock(w) ==
  /\ pc[w] = "unlock"
  /\ IF holder = Session(w) /\ depth > 1 THEN depth' = depth - 1 /\ UNCHANGED holder
     ELSE IF holder = Session(w) THEN ReleaseLock
     ELSE UNCHANGED lockVars
  /\ Goto(w, "idle")
  /\ ResetRun(w)
  /\ UNCHANGED <<corpus, tableVars>>

\* Mutation of ReapConnection: the pool keeps its connections for ever.
ReapConnectionNever(w, c) ==
  /\ FALSE
  /\ holder = <<w, c>>
  /\ ReleaseLock
  /\ UNCHANGED <<corpus, tableVars, pc, runVars, result>>

\* The pool closes an idle connection that still holds the lock (its maximal
\* lifetime is over).
ReapConnection(w, c) ==
  /\ holder = <<w, c>>
  /\ pin[w] # c
  /\ ReleaseLock
  /\ UNCHANGED <<corpus, tableVars, pc, runVars, result>>

-----------------------------------------------------------------------------
(***************************************************************************)
(* Faults.                                                                 *)
(***************************************************************************)

\* collection_info fails and the size of the sample stands in for that of the
\* collection, or Qdrant answers without a count.
CountError(w) ==
  /\ "count" \in Faults
  /\ pc[w] = "count"
  /\ \E n \in {SampleSize(seen[w]), 0} : Counted(w, n)

\* A query or statement fails before it changed anything.
SqlError(w) ==
  /\ "sql" \in Faults
  /\ \/ /\ pc[w] = "scroll" \/ (pc[w] = "compare" /\ ~forced[w])
        /\ Finish(w, "Err")
        /\ UNCHANGED swapRows
     \/ /\ pc[w] \in {"insert", "swap", "demote", "promote"}
        /\ Goto(w, "fail")
        /\ swapRows' = [swapRows EXCEPT ![w] = {}]
        /\ UNCHANGED result
     \/ pc[w] = "fail" /\ Finish(w, "Err") /\ UNCHANGED swapRows
  /\ UNCHANGED <<corpus, tableVars, lockVars, forced, pin, seen, finger, batch>>

\* start_batch returns Err: the sequence is exhausted, or the INSERT failed, or
\* it took effect and only its reply was lost.
StartBatchError(w) ==
  /\ pc[w] = "start"
  /\ \/ nextId \notin Ids /\ UNCHANGED tableVars
     \/ "sql" \in Faults /\ UNCHANGED tableVars
     \/ "sql" \in Faults /\ nextId \in Ids /\ InsertRunning(w)
  /\ Finish(w, "Err")
  /\ UNCHANGED <<corpus, lockVars, runVars>>

\* insert_bulk wrote its rows and the reply was lost.
InsertReplyLost(w) ==
  /\ "sql" \in Faults
  /\ pc[w] = "insert"
  /\ status[batch[w]] # "absent"
  /\ filled' = filled \cup {batch[w]}
  /\ Goto(w, "fail")
  /\ UNCHANGED <<corpus, status, print, nextId, lockVars, runVars, result>>

\* The swap is committed and the reply to COMMIT was lost.
CommitReplyLost(w) ==
  /\ "commit_lost" \in Faults
  /\ pc[w] = "promote"
  /\ ~SecondActive(w)
  /\ EndSwap(w, "fail")
  /\ status' = Swapped(w)

\* retain_last_n fails, with or without having deleted.
RetainError(w) ==
  /\ "retention" \in Faults
  /\ pc[w] = "retain"
  /\ Goto(w, "fail")
  /\ UNCHANGED result
  /\ \/ ApplyRetention(w)
     \/ UNCHANGED <<corpus, tableVars, lockVars, runVars>>

\* The unlock query fails: logged, and the connection keeps its lock.
UnlockError(w) ==
  /\ "unlock" \in Faults
  /\ pc[w] = "unlock"
  /\ Goto(w, "idle")
  /\ ResetRun(w)
  /\ UNCHANGED <<corpus, tableVars, lockVars>>

\* The pinned connection is cut while the run goes on: PostgreSQL drops the
\* lock, and the run, which talks to the pool, does not notice.
LoseConnection(w) ==
  /\ "conn_loss" \in Faults
  /\ pc[w] \in Locked
  /\ holder = Session(w)
  /\ ReleaseLock
  /\ UNCHANGED <<corpus, tableVars, pc, runVars, result>>

\* The run panics (build_cluster_excerpt truncates at a byte that need not be a
\* character boundary): the task is gone, the pinned connection returns to the
\* pool with its lock.
Panic(w) ==
  /\ "panic" \in Faults
  /\ pc[w] = "generate"
  /\ Goto(w, "dead")
  /\ ResetRun(w)
  /\ UNCHANGED <<corpus, tableVars, lockVars>>

\* The process exits and is started again: its connections are gone, an open
\* transaction is rolled back, the schedule starts over.
RestartProcess(w) ==
  /\ \/ pc[w] = "dead"
     \/ "crash" \in Faults /\ pc[w] \in Locked
  /\ Goto(w, "idle")
  /\ ResetRun(w)
  /\ IF holder \in {w} \X Conns THEN ReleaseLock ELSE UNCHANGED lockVars
  /\ UNCHANGED <<corpus, tableVars>>

-----------------------------------------------------------------------------

Step(w) ==
  \/ Scroll(w) \/ Count(w) \/ Compare(w)
  \/ StartBatch(w) \/ StartBatchError(w)
  \/ Generate(w) \/ InsertBulk(w)
  \/ SwapBegin(w) \/ Demote(w) \/ CommitSwap(w)
  \/ Retain(w) \/ MarkFailed(w) \/ Unlock(w)

Fault(w) ==
  \/ CountError(w) \/ SqlError(w) \/ InsertReplyLost(w) \/ CommitReplyLost(w) \/ RetainError(w)
  \/ UnlockError(w) \/ LoseConnection(w) \/ Panic(w) \/ RestartProcess(w)

Wake(w) == \E c \in Conns, f \in BOOLEAN : TryLock(w, f, c)

Next ==
  \/ Ingest
  \/ \E w \in Workers :
       \/ Wake(w)
       \/ Step(w)
       \/ Fault(w)
       \/ \E c \in Conns : ReapConnection(w, c)

Spec == Init /\ [][Next]_vars

(***************************************************************************)
(* Fairness: a run that has started goes on (every statement returns, LLM  *)
(* calls have a timeout), some replica's schedule fires when the lock is   *)
(* free, and the pool closes connections that outlive their maximal        *)
(* lifetime (it looks whenever one is returned, hence strong fairness).    *)
(* Ingests and faults are never required.                                  *)
(***************************************************************************)
ScheduledRun == \E w \in Workers, c \in Conns : TryLock(w, FALSE, c)

Fairness ==
  /\ \A w \in Workers : WF_vars(Step(w))
  /\ WF_vars(ScheduledRun)
  /\ \A w \in Workers, c \in Conns : SF_vars(ReapConnection(w, c))

FairSpec == Spec /\ Fairness

-----------------------------------------------------------------------------
(***************************************************************************)
(* Properties.                                                             *)
(***************************************************************************)

\* The type of every variable.
TypeOK ==
  /\ corpus \in Corpora
  /\ status \in [Ids -> BatchStatus]
  /\ print \in [Ids -> Fingerprints \cup {None}]
  /\ filled \subseteq Ids
  /\ nextId \in 1 .. MaxBatches + 1
  /\ holder \in (Workers \X Conns) \cup {None}
  /\ depth \in 0 .. MaxDepth
  /\ pc \in [Workers -> Locked \cup {"idle", "dead"}]
  /\ forced \in [Workers -> BOOLEAN]
  /\ pin \in [Workers -> Conns \cup {None}]
  /\ seen \in [Workers -> Corpora \cup {None}]
  /\ finger \in [Workers -> Fingerprints \cup {None}]
  /\ batch \in [Workers -> Ids \cup {0}]
  /\ swapRows \in [Workers -> SUBSET Ids]
  /\ result \in [Workers -> RunSummary]

\* Readers join on status = 'active': however runs overlap, fail or die, there
\* is never more than one batch for them to join with.
AtMostOneActive == \A i, j \in ActiveBatches : i = j

\* The batch the readers join with always has its rows: it was filled before
\* it was promoted and retention never takes the rows of an active batch alone.
ActivePoolComplete == ActiveBatches \subseteq filled

\* Whatever other runs do, including a run that took over a lost lock, nobody
\* touches the row of a batch that is still being built: it is running until
\* its own swap commits, and no two runs build the same batch.
BuildUndisturbed ==
  \A w \in Workers : pc[w] \in Building =>
    /\ status[batch[w]] = "running"
    /\ \A v \in Workers \ {w} : batch[v] # batch[w]

\* The advisory lock keeps every second run out while no connection is cut.
OneRunInside == \A v, w \in Workers : {pc[v], pc[w]} \subseteq Locked => v = w

\* Once a batch is served a batch is served for ever.
NoOutage == [][ActiveBatches # {} => ActiveBatches' # {}]_status

\* The served pool only moves on to newer batches (and never to none).
Current == IF ActiveBatches = {} THEN 0 ELSE CHOOSE i \in ActiveBatches : TRUE
Pool == INSTANCE PublishedPool WITH current <- Current
PoolSpec == Pool!Spec

\* A started run comes to an end, and the advisory lock is always freed again,
\* also after a panic or a failed unlock.
RunEnds ==
  /\ \A w \in Workers : pc[w] \in Locked ~> pc[w] \in {"idle", "dead"}
  /\ []<>(holder = None)

\* Once the corpus stops changing, a batch with its fingerprint is served again
\* and again if only runs that had its size get through now and then, whatever
\* befalls those between them; and for ever, if from some time on the size is
\* not missed any more.  (While collection_info fails now and then a corpus
\* beyond the cap of the sample has two fingerprints, and each replaces the other.)
PrintOf(c) == <<FirstIds[c], PointsCount[c]>>
ServedPrint(c) == \E i \in ActiveBatches : print[i] = PrintOf(c)
GetsThrough(w) ==
  pc[w] \in {"compare", "retain"} /\ pc'[w] = "unlock" /\ result'[w] # "Err"
Miscounts(w) ==
  pc[w] = "count" /\ pc'[w] = "compare" /\ finger'[w][2] # PointsCount[corpus]
CatchesUp ==
  \A c \in Corpora \ {EmptyCorpus} : <>[](corpus = c) =>
    /\ []<><<\E w \in Workers : GetsThrough(w) /\ finger[w] = PrintOf(c)>>_vars
         => []<>ServedPrint(c)
    /\ (/\ []<><<\E w \in Workers : GetsThrough(w)>>_vars
        /\ <>[][\A w \in Workers : ~Miscounts(w)]_vars)
         => <>[]ServedPrint(c)

=============================================================================
