-------------------------- MODULE ConversationFlush --------------------------
(***************************************************************************)
(* The conversation log: searches hand their record to a bounded channel   *)
(* without waiting, one ConversationFlushWorker drains the channel into a  *)
(* batch and writes each batch in one transaction.  What may be lost, and  *)
(* only that, is what the channel refused, what a failed transaction held  *)
(* and what the runtime drops at exit.                                     *)
(*                                                                         *)
(* A record is one call of ConversationService::record.  Clients choose    *)
(* X-Request-Id, so two records may carry the same request_id.             *)
(***************************************************************************)
EXTENDS Integers, Sequences, FiniteSets

CONSTANTS
  Records,    \* the records of all searches
  RequestId,  \* RequestId[r]: the request_id of record r
  Capacity,   \* capacity of the channel (1024)
  BatchCap,   \* records of one transaction (64)
  Faults      \* subset of FaultKinds

FaultKinds ==
  { "sql",          \* the transaction fails and is rolled back
    "commit_lost",  \* it is committed and the reply is lost
    "drop" }        \* the runtime drops the worker at exit

ASSUME FlushAssumption ==
  /\ DOMAIN RequestId = Records
  /\ Capacity \in Nat \ {0}
  /\ BatchCap \in Nat \ {0}
  /\ Faults \subseteq FaultKinds

VARIABLES
  accepted,  \* the records the channel took, in its order (not stored by the code)
  refused,   \* the records it refused: full or closed
  queue,     \* the channel
  closed,    \* every sender is gone
  pc,        \* the worker: "recv", "drain", "flush", "done" or "dropped"
  batch,     \* its batch
  rows,      \* records with a row in conversations
  stamp,     \* created_at of those: the number of their transaction
  txs,       \* transactions begun
  failed     \* records of batches that were logged as failed

vars == <<accepted, refused, queue, closed, pc, batch, rows, stamp, txs, failed>>
workerVars == <<pc, batch, rows, stamp, txs, failed>>
tableVars == <<rows, stamp, txs, failed>>

Elems(s) == {s[i] : i \in DOMAIN s}
Sent == Elems(accepted) \cup refused

-----------------------------------------------------------------------------

Init ==
  /\ accepted = <<>>
  /\ refused = {}
  /\ queue = <<>>
  /\ closed = FALSE
  /\ pc = "recv"
  /\ batch = <<>>
  /\ rows = {}
  /\ stamp = [r \in Records |-> 0]
  /\ txs = 0
  /\ failed = {}

\* record: try_send never waits; what does not fit is logged and gone.
Record(r) ==
  /\ r \notin Sent
  /\ ~closed
  /\ IF Len(queue) < Capacity
       THEN /\ queue' = Append(queue, r)
            /\ accepted' = Append(accepted, r)
            /\ UNCHANGED refused
       ELSE refused' = refused \cup {r} /\ UNCHANGED <<queue, accepted>>
  /\ UNCHANGED <<closed, workerVars>>

\* The server is shut down: the last search is over and the senders are gone.
Close ==
  /\ ~closed
  /\ closed' = TRUE
  /\ UNCHANGED <<accepted, refused, queue, workerVars>>

\* Mutation of Take: the channel is a stack.
TakeLast ==
  /\ queue # <<>>
  /\ batch' = Append(batch, queue[Len(queue)])
  /\ queue' = SubSeq(queue, 1, Len(queue) - 1)

Take ==
  /\ queue # <<>>
  /\ batch' = Append(batch, Head(queue))
  /\ queue' = Tail(queue)

\* recv: wait for a record, or for the end of the channel.
Recv ==
  /\ pc = "recv"
  /\ Take
  /\ pc' = "drain"
  /\ UNCHANGED <<accepted, refused, closed, tableVars>>

RecvNone ==
  /\ pc = "recv"
  /\ queue = <<>>
  /\ closed
  /\ pc' = IF batch = <<>> THEN "done" ELSE "flush"
  /\ UNCHANGED <<accepted, refused, queue, closed, batch, tableVars>>

Room == Len(batch) < BatchCap

\* Mutation of Drain: try_recv comes before the look at the batch's length.
DrainFirst ==
  /\ pc = "drain"
  /\ queue # <<>>
  /\ batch' = IF Room THEN Append(batch, Head(queue)) ELSE batch
  /\ queue' = Tail(queue)
  /\ UNCHANGED <<accepted, refused, closed, pc, tableVars>>

\* try_recv until the batch is full or the channel is empty; searches go on
\* sending in the meantime.
Drain ==
  /\ pc = "drain"
  /\ Room
  /\ Take
  /\ UNCHANGED <<accepted, refused, closed, pc, tableVars>>

DrainEnd ==
  /\ pc = "drain"
  /\ ~Room \/ queue = <<>>
  /\ pc' = "flush"
  /\ UNCHANGED <<accepted, refused, queue, closed, batch, tableVars>>

\* Mutation of Inserted: a later record with the same request_id replaces the row.
InsertedLast ==
  LET Last(i) == \A j \in DOMAIN batch :
                   j > i => RequestId[batch[j]] # RequestId[batch[i]]
  IN {batch[i] : i \in {k \in DOMAIN batch : Last(k)}}

\* INSERT ... ON CONFLICT (request_id) DO NOTHING, record by record: what of
\* the batch gets a row.
Inserted ==
  LET Known == {RequestId[r] : r \in rows}
      First(i) == \A j \in 1 .. i - 1 : RequestId[batch[j]] # RequestId[batch[i]]
  IN {batch[i] : i \in {k \in DOMAIN batch : First(k) /\ RequestId[batch[k]] \notin Known}}

Commit ==
  /\ rows' = rows \cup Inserted
  /\ stamp' = [r \in Records |-> IF r \in Inserted THEN txs + 1 ELSE stamp[r]]

\* Mutation of ClearBatch: a failed batch is kept for the next transaction.
KeepBatch == UNCHANGED batch

\* batch.clear(), whatever the transaction did.
ClearBatch == batch' = <<>>

\* The loop goes on, also after the flush of a closed channel: the next recv
\* ends it.
Flushed ==
  /\ pc = "flush"
  /\ txs' = txs + 1
  /\ pc' = "recv"
  /\ ClearBatch
  /\ UNCHANGED <<accepted, refused, queue, closed>>

Flush == Flushed /\ Commit /\ UNCHANGED failed

FlushError ==
  /\ Flushed
  /\ failed' = failed \cup Elems(batch)
  /\ \/ "sql" \in Faults /\ UNCHANGED <<rows, stamp>>
     \/ "commit_lost" \in Faults /\ Commit

\* main returns and the runtime drops the task where it waits; an open
\* transaction is rolled back.
RuntimeDrop ==
  /\ "drop" \in Faults
  /\ closed
  /\ pc \in {"recv", "drain", "flush"}
  /\ pc' = "dropped"
  /\ UNCHANGED <<accepted, refused, queue, closed, batch, tableVars>>

Work == Recv \/ RecvNone \/ Drain \/ DrainEnd \/ Flush \/ FlushError

Next == Close \/ Work \/ RuntimeDrop \/ \E r \in Records : Record(r)

Spec == Init /\ [][Next]_vars

\* The runtime polls the worker whenever it can go on.
FairSpec == Spec /\ WF_vars(Work)

-----------------------------------------------------------------------------

TypeOK ==
  /\ accepted \in Seq(Records)
  /\ refused \subseteq Records
  /\ queue \in Seq(Records) /\ Len(queue) <= Capacity
  /\ closed \in BOOLEAN
  /\ pc \in {"recv", "drain", "flush", "done", "dropped"}
  /\ batch \in Seq(Records) /\ Len(batch) <= BatchCap
  /\ rows \subseteq Records
  /\ stamp \in [Records -> Nat]
  /\ txs \in Nat
  /\ failed \subseteq Records

\* Nothing disappears on the way: whatever the channel took is still in it or
\* in the batch, was in a batch that was logged as failed, or has its request
\* in the table.
Conserved ==
  \A r \in Elems(accepted) :
    \/ r \in Elems(queue) \cup Elems(batch) \cup failed
    \/ \E s \in rows : RequestId[s] = RequestId[r]

Before(r, s) ==
  \E i, j \in DOMAIN accepted : i < j /\ accepted[i] = r /\ accepted[j] = s

\* get_by_session orders a conversation by created_at: a record never gets an
\* earlier stamp than one that was accepted before it.
OrderKept == \A r, s \in rows : Before(r, s) => stamp[r] <= stamp[s]

\* Of the records of one request (a client that tries again) the row is that of
\* the first one, unless the transaction of the first one failed.
FirstAnswerKept ==
  /\ \A r, s \in rows : RequestId[r] = RequestId[s] => r = s
  /\ \A s \in rows, r \in Elems(accepted) :
       Before(r, s) /\ RequestId[r] = RequestId[s] => r \in failed

\* The channel and the batch are emptied again and again: whatever the channel
\* took comes to its transaction, also after it is closed, unless the runtime
\* drops the worker.
RecordsEnd ==
  \A r \in Records :
    r \in Elems(queue) ~> r \notin Elems(queue) \cup Elems(batch) \/ pc = "dropped"
=============================================================================
