----------------------- MODULE ConversationFlushProofs -----------------------
(***************************************************************************)
(* Theorems about ConversationFlush, for any number of records and any     *)
(* capacities.  The channel is a queue: what it took is, in this order,    *)
(* what has had its transaction, the batch and what is still queued.       *)
(***************************************************************************)
EXTENDS ConversationFlush, WellFoundedInduction, TLAPS

\* A nonempty set of indices has a least one.
LEMMA LeastIndex ==
  ASSUME NEW S \in SUBSET Nat, S # {}
  PROVE  \E i \in S : \A j \in S : i <= j
<1>1. \E i \in S : \A j \in S : <<j, i>> \notin OpToRel(<, Nat)
  BY NatLessThanWellFounded, WFMin
<1>2. \A i, j \in Nat : <<j, i>> \notin OpToRel(<, Nat) => i <= j
  BY DEF OpToRel
<1> QED
  BY <1>1, <1>2

-----------------------------------------------------------------------------
(***************************************************************************)
(* Type correctness.                                                       *)
(***************************************************************************)

\* A worker that waits has flushed its batch.
BatchFresh == pc = "recv" => batch = <<>>

\* Taking a record moves the head of the channel to the end of the batch.
LEMMA TakeMoves ==
  ASSUME TypeOK, Take
  PROVE  /\ queue' \in Seq(Records) /\ Len(queue') = Len(queue) - 1
         /\ batch' \in Seq(Records) /\ Len(batch') = Len(batch) + 1
         /\ Len(queue) \in Nat \ {0} /\ Len(batch) \in Nat
         /\ \A i \in 1 .. Len(queue') : queue'[i] = queue[i + 1]
         /\ \A i \in 1 .. Len(batch) : batch'[i] = batch[i]
         /\ batch'[Len(batch) + 1] = queue[1]
BY DEF TypeOK, Take

\* A transaction writes records of its batch.
LEMMA CommitType ==
  ASSUME TypeOK, Commit
  PROVE  rows' \subseteq Records /\ stamp' \in [Records -> Nat]
<1>1. Inserted \subseteq Records
  BY DEF Inserted, TypeOK
<1> QED
  BY <1>1 DEF Commit, TypeOK

LEMMA InitType == Init => TypeOK /\ BatchFresh
<1> SUFFICES ASSUME Init PROVE TypeOK /\ BatchFresh
  OBVIOUS
<1>1. <<>> \in Seq(Records) /\ Len(<<>>) = 0
  OBVIOUS
<1>2. 0 <= Capacity /\ 0 <= BatchCap
  BY FlushAssumption
<1>3. stamp \in [Records -> Nat]
  BY DEF Init
<1> QED
  BY <1>1, <1>2, <1>3 DEF Init, TypeOK, BatchFresh

LEMMA NextType ==
  ASSUME TypeOK, BatchFresh, [Next]_vars
  PROVE  TypeOK' /\ BatchFresh'
<1> USE FlushAssumption DEF workerVars, tableVars
<1>1. CASE Recv
  <2>1. /\ queue' \in Seq(Records) /\ Len(queue') <= Capacity
        /\ batch' \in Seq(Records) /\ Len(batch') <= BatchCap
    <3>1. Len(batch) = 0 /\ Take
      BY <1>1 DEF Recv, BatchFresh
    <3>2. BatchCap \in Nat /\ 1 <= BatchCap
      BY FlushAssumption
    <3>3. Len(queue) <= Capacity /\ Capacity \in Nat
      BY FlushAssumption DEF TypeOK
    <3>4. Len(queue') <= Capacity
      BY <3>1, <3>3, TakeMoves
    <3>5. Len(batch') <= BatchCap
      <4>1. Len(batch') = Len(batch) + 1
        BY <3>1, TakeMoves
      <4> QED
        BY <4>1, <3>1, <3>2
    <3> QED
      BY <3>1, <3>4, <3>5, TakeMoves
  <2> QED
    BY <1>1, <2>1 DEF Recv, TypeOK, BatchFresh
<1>2. CASE RecvNone
  BY <1>2 DEF RecvNone, TypeOK, BatchFresh
<1>3. CASE Drain
  <2>1. /\ queue' \in Seq(Records) /\ Len(queue') <= Capacity
        /\ batch' \in Seq(Records) /\ Len(batch') <= BatchCap
    BY <1>3, TakeMoves DEF Drain, Room, TypeOK
  <2> QED
    BY <1>3, <2>1 DEF Drain, TypeOK, BatchFresh
<1>4. CASE DrainEnd
  BY <1>4 DEF DrainEnd, TypeOK, BatchFresh
<1>5. CASE Flush
  BY <1>5, CommitType DEF Flush, Flushed, ClearBatch, TypeOK, BatchFresh
<1>6. CASE FlushError
  <2>1. rows' \subseteq Records /\ stamp' \in [Records -> Nat]
    BY <1>6, CommitType DEF FlushError, TypeOK
  <2>2. failed' \subseteq Records
    BY <1>6 DEF FlushError, TypeOK, Elems
  <2> QED
    BY <1>6, <2>1, <2>2 DEF FlushError, Flushed, ClearBatch, TypeOK, BatchFresh
<1>7. CASE Close
  BY <1>7 DEF Close, TypeOK, BatchFresh
<1>8. CASE RuntimeDrop
  BY <1>8 DEF RuntimeDrop, TypeOK, BatchFresh
<1>9. ASSUME NEW r \in Records, Record(r) PROVE TypeOK' /\ BatchFresh'
  <2>1. /\ queue' \in Seq(Records) /\ Len(queue') <= Capacity
        /\ accepted' \in Seq(Records)
        /\ refused' \subseteq Records
    <3>1. Len(queue) \in Nat /\ Capacity \in Nat /\ Len(queue) <= Capacity
      BY FlushAssumption DEF TypeOK
    <3>2. CASE Len(queue) < Capacity
      <4>1. queue' = Append(queue, r) /\ accepted' = Append(accepted, r) /\ refused' = refused
        BY <1>9, <3>2 DEF Record
      <4>2. queue \in Seq(Records) /\ accepted \in Seq(Records) /\ refused \subseteq Records
        BY DEF TypeOK
      <4>3. queue' \in Seq(Records) /\ Len(queue') = Len(queue) + 1 /\ accepted' \in Seq(Records)
        BY <4>1, <4>2
      <4> QED
        BY <3>1, <3>2, <4>1, <4>2, <4>3
    <3>3. CASE ~(Len(queue) < Capacity)
      BY <1>9, <3>1, <3>3 DEF Record, TypeOK
    <3> QED
      BY <3>2, <3>3
  <2> QED
    BY <1>9, <2>1 DEF Record, TypeOK, BatchFresh
<1>10. CASE UNCHANGED vars
  BY <1>10 DEF vars, TypeOK, BatchFresh
<1> QED
  BY <1>1, <1>2, <1>3, <1>4, <1>5, <1>6, <1>7, <1>8, <1>9, <1>10 DEF Next, Work

\* Every reachable state of the log is well typed: the channel and the batch
\* never exceed their capacities.
THEOREM LogTypeCorrect == Spec => []TypeOK
<1>1. TypeOK /\ BatchFresh /\ [Next]_vars => (TypeOK /\ BatchFresh)'
  BY NextType
<1> QED
  BY <1>1, InitType, PTL DEF Spec

-----------------------------------------------------------------------------
(***************************************************************************)
(* The log is a queue.                                                     *)
(***************************************************************************)

\* How many of the accepted records have had their transaction.
Settled == Len(accepted) - Len(batch) - Len(queue)

\* The settled records, the batch and the channel make up what was accepted, in
\* its order and without a repetition.
Layout ==
  /\ Settled >= 0
  /\ \A i \in 1 .. Len(batch) : batch[i] = accepted[Settled + i]
  /\ \A i \in 1 .. Len(queue) : queue[i] = accepted[Settled + Len(batch) + i]
  /\ \A i, j \in 1 .. Len(accepted) : accepted[i] = accepted[j] => i = j

\* Rows are of settled records, and a settled record has failed or has its
\* request in the table.
SettledRows ==
  /\ \A r \in rows : \E i \in 1 .. Settled : accepted[i] = r
  /\ \A i \in 1 .. Settled :
       \/ accepted[i] \in failed
       \/ \E s \in rows : RequestId[s] = RequestId[accepted[i]]

\* The stamps of the rows grow along the channel.
StampsGrow ==
  /\ \A r \in rows : stamp[r] <= txs
  /\ \A i, j \in 1 .. Settled :
       i < j /\ accepted[i] \in rows /\ accepted[j] \in rows
         => stamp[accepted[i]] <= stamp[accepted[j]]

\* The row of a request is that of its first record, or of a later one when all
\* before it have failed.
FirstRows ==
  /\ \A r, s \in rows : RequestId[r] = RequestId[s] => r = s
  /\ \A i, j \in 1 .. Settled :
       i < j /\ accepted[j] \in rows /\ RequestId[accepted[i]] = RequestId[accepted[j]]
         => accepted[i] \in failed

LogInv == TypeOK /\ BatchFresh /\ Layout /\ SettledRows /\ StampsGrow /\ FirstRows

\* Steps that leave the table and the settled records alone.
LEMMA KeepSettled ==
  ASSUME SettledRows, StampsGrow, FirstRows, UNCHANGED tableVars, Settled' = Settled,
         \A i \in 1 .. Settled : accepted'[i] = accepted[i]
  PROVE  SettledRows' /\ StampsGrow' /\ FirstRows'
BY DEF SettledRows, StampsGrow, FirstRows, tableVars

\* The lengths are numbers.
LEMMA Lengths ==
  ASSUME TypeOK
  PROVE  /\ Len(accepted) \in Nat /\ Len(batch) \in Nat /\ Len(queue) \in Nat
         /\ Settled \in Int
BY DEF TypeOK, Settled

LEMMA RecordLayout ==
  ASSUME TypeOK, Layout, NEW r \in Records, Record(r)
  PROVE  Layout' /\ Settled' = Settled /\ \A i \in 1 .. Settled : accepted'[i] = accepted[i]
<1>l. Len(accepted) \in Nat /\ Len(batch) \in Nat /\ Len(queue) \in Nat
  BY Lengths
<1>1. CASE Len(queue) < Capacity
  <2>1. /\ accepted' = Append(accepted, r) /\ queue' = Append(queue, r)
        /\ batch' = batch /\ r \notin Elems(accepted)
    BY <1>1 DEF Record, Sent, workerVars
  <2>2. /\ Len(accepted') = Len(accepted) + 1 /\ Len(queue') = Len(queue) + 1
        /\ \A i \in 1 .. Len(accepted) : accepted'[i] = accepted[i]
        /\ accepted'[Len(accepted) + 1] = r
        /\ \A i \in 1 .. Len(queue) : queue'[i] = queue[i]
        /\ queue'[Len(queue) + 1] = r
        /\ \A i \in 1 .. Len(accepted) : accepted[i] # r
    BY <2>1 DEF TypeOK, Elems
  <2>3. Settled' = Settled
    BY <2>1, <2>2, <1>l DEF Settled
  <2>4. /\ Settled >= 0 /\ Settled \in Int
        /\ Settled + Len(batch) + Len(queue) = Len(accepted)
    BY <1>l DEF Settled, Layout
  <2>5. \A i, j \in 1 .. Len(accepted') : accepted'[i] = accepted'[j] => i = j
    <3>1. \A i, j \in 1 .. Len(accepted) : accepted[i] = accepted[j] => i = j
      BY DEF Layout
    <3>2. \A i \in 1 .. Len(accepted') : i \in 1 .. Len(accepted) \/ i = Len(accepted) + 1
      BY <2>2, <1>l
    <3> QED
      BY <2>2, <3>1, <3>2
  <2>6. \A i \in 1 .. Len(batch') : batch'[i] = accepted'[Settled' + i]
    <3>1. \A i \in 1 .. Len(batch) : Settled + i \in 1 .. Len(accepted)
      BY <2>4, <1>l
    <3>2. \A i \in 1 .. Len(batch) : batch[i] = accepted[Settled + i]
      BY DEF Layout
    <3> QED
      BY <2>1, <2>2, <2>3, <3>1, <3>2
  <2>7. \A i \in 1 .. Len(queue') : queue'[i] = accepted'[Settled' + Len(batch') + i]
    <3>1. \A i \in 1 .. Len(queue) : Settled + Len(batch) + i \in 1 .. Len(accepted)
      BY <2>4, <1>l
    <3>2. \A i \in 1 .. Len(queue) : queue[i] = accepted[Settled + Len(batch) + i]
      BY DEF Layout
    <3>3. \A i \in 1 .. Len(queue') : i \in 1 .. Len(queue) \/ i = Len(queue) + 1
      BY <2>2, <1>l
    <3>4. Settled + Len(batch) + (Len(queue) + 1) = Len(accepted) + 1
      BY <2>4, <1>l
    <3> QED
      BY <2>1, <2>2, <2>3, <3>1, <3>2, <3>3, <3>4
  <2>8. \A i \in 1 .. Settled : i \in 1 .. Len(accepted)
    BY <2>4, <1>l
  <2> QED
    BY <2>2, <2>3, <2>4, <2>5, <2>6, <2>7, <2>8 DEF Layout
<1>2. CASE ~(Len(queue) < Capacity)
  BY <1>2 DEF Record, workerVars, Layout, Settled
<1> QED
  BY <1>1, <1>2

LEMMA TakeLayout ==
  ASSUME TypeOK, Layout, Take, accepted' = accepted
  PROVE  Layout' /\ Settled' = Settled
<1>l. /\ Len(accepted) \in Nat /\ Len(batch) \in Nat /\ Len(queue) \in Nat
      /\ Settled \in Int /\ Settled >= 0
  BY Lengths DEF Layout
<1>t. /\ Len(queue') = Len(queue) - 1 /\ Len(batch') = Len(batch) + 1
      /\ Len(queue) \in Nat \ {0}
      /\ \A i \in 1 .. Len(queue') : queue'[i] = queue[i + 1]
      /\ \A i \in 1 .. Len(batch) : batch'[i] = batch[i]
      /\ batch'[Len(batch) + 1] = queue[1]
  BY TakeMoves
<1>q. \A i \in 1 .. Len(queue) : queue[i] = accepted[Settled + Len(batch) + i]
  BY DEF Layout
<1>1. Settled' = Settled
  BY <1>l, <1>t DEF Settled
<1>2. \A i \in 1 .. Len(batch') : batch'[i] = accepted'[Settled' + i]
  <2>1. queue[1] = accepted[Settled + (Len(batch) + 1)]
    <3>1. queue[1] = accepted[Settled + Len(batch) + 1]
      BY <1>t, <1>q
    <3>2. Settled + Len(batch) + 1 = Settled + (Len(batch) + 1)
      BY <1>l
    <3> QED
      BY <3>1, <3>2
  <2>2. \A i \in 1 .. Len(batch) : batch[i] = accepted[Settled + i]
    BY DEF Layout
  <2>3. \A i \in 1 .. Len(batch') : i \in 1 .. Len(batch) \/ i = Len(batch) + 1
    BY <1>l, <1>t
  <2> QED
    BY <1>1, <1>t, <2>1, <2>2, <2>3
<1>3. \A i \in 1 .. Len(queue') : queue'[i] = accepted'[Settled' + Len(batch') + i]
  <2>1. \A i \in 1 .. Len(queue') :
          /\ i + 1 \in 1 .. Len(queue)
          /\ Settled + Len(batch) + (i + 1) = Settled + (Len(batch) + 1) + i
    BY <1>l, <1>t
  <2> QED
    BY <1>1, <1>t, <1>q, <2>1
<1> QED
  BY <1>1, <1>2, <1>3, <1>l DEF Layout

-----------------------------------------------------------------------------
(***************************************************************************)
(* The transaction.                                                        *)
(***************************************************************************)

\* ON CONFLICT (request_id) DO NOTHING: of every request the batch brings, the
\* first record gets the row, unless the table has one.
LEMMA InsertedFirst ==
  ASSUME TypeOK
  PROVE  /\ \A r \in Inserted : \E i \in 1 .. Len(batch) :
              batch[i] = r /\ \A j \in 1 .. i - 1 : RequestId[batch[j]] # RequestId[r]
         /\ \A r \in Inserted, s \in rows : RequestId[r] # RequestId[s]
         /\ \A i \in 1 .. Len(batch) : \E s \in rows \cup Inserted :
              RequestId[s] = RequestId[batch[i]]
<1>d. DOMAIN batch = 1 .. Len(batch) /\ Len(batch) \in Nat
  BY DEF TypeOK
<1>1. ASSUME NEW i \in 1 .. Len(batch),
             \A s \in rows : RequestId[s] # RequestId[batch[i]]
      PROVE  \E s \in Inserted : RequestId[s] = RequestId[batch[i]]
  <2> DEFINE Same == {k \in 1 .. Len(batch) : RequestId[batch[k]] = RequestId[batch[i]]}
  <2>1. Same \in SUBSET Nat /\ Same # {}
    BY <1>d
  <2>2. PICK k \in Same : \A j \in Same : k <= j
    BY <2>1, LeastIndex
  <2>3. \A j \in 1 .. k - 1 : RequestId[batch[j]] # RequestId[batch[k]]
    BY <2>2, <1>d
  <2>4. batch[k] \in Inserted
    BY <2>2, <2>3, <1>1, <1>d DEF Inserted
  <2> QED
    BY <2>2, <2>4
<1> QED
  BY <1>1, <1>d DEF Inserted

\* After a transaction the batch is settled.
LEMMA FlushLayout ==
  ASSUME TypeOK, Layout, Flushed
  PROVE  Layout' /\ Settled' = Settled + Len(batch)
<1>l. /\ Len(accepted) \in Nat /\ Len(batch) \in Nat /\ Len(queue) \in Nat
      /\ Settled \in Int /\ Settled >= 0
  BY Lengths DEF Layout
<1>f. accepted' = accepted /\ queue' = queue /\ batch' = <<>> /\ Len(batch') = 0
  BY DEF Flushed, ClearBatch
<1>1. Settled' = Settled + Len(batch)
  BY <1>l, <1>f DEF Settled
<1>2. \A i \in 1 .. Len(queue') : queue'[i] = accepted'[Settled' + Len(batch') + i]
  <2>1. \A i \in 1 .. Len(queue) :
          Settled + Len(batch) + i = (Settled + Len(batch)) + 0 + i
    BY <1>l
  <2> QED
    BY <1>1, <1>f, <2>1 DEF Layout
<1> QED
  BY <1>1, <1>2, <1>f, <1>l DEF Layout

\* In terms of the accepted records: what is inserted comes after every settled
\* record, and is the first of its request behind them.
LEMMA InsertedPlace ==
  ASSUME TypeOK, Layout, SettledRows
  PROVE  /\ \A r \in Inserted : \E i \in 1 .. Settled + Len(batch) : accepted[i] = r
         /\ \A i \in 1 .. Settled + Len(batch) : accepted[i] \in Inserted =>
              /\ i > Settled
              /\ \A j \in Settled + 1 .. i - 1 :
                   RequestId[accepted[j]] # RequestId[accepted[i]]
         /\ \A i \in 1 .. Settled + Len(batch) : accepted[i] \in rows => i <= Settled
<1>l. /\ Len(accepted) \in Nat /\ Len(batch) \in Nat /\ Len(queue) \in Nat
      /\ Settled \in Int /\ Settled >= 0
      /\ Settled + Len(batch) <= Len(accepted)
  BY Lengths DEF Layout, Settled
<1>b. \A i \in 1 .. Len(batch) : batch[i] = accepted[Settled + i]
  BY DEF Layout
<1>u. \A i, j \in 1 .. Settled + Len(batch) : accepted[i] = accepted[j] => i = j
  BY <1>l DEF Layout
<1>1. \A r \in Inserted : \E k \in 1 .. Len(batch) :
        /\ accepted[Settled + k] = r
        /\ \A j \in 1 .. k - 1 : RequestId[accepted[Settled + j]] # RequestId[r]
  <2> SUFFICES ASSUME NEW r \in Inserted
               PROVE  \E k \in 1 .. Len(batch) :
                        /\ accepted[Settled + k] = r
                        /\ \A j \in 1 .. k - 1 : RequestId[accepted[Settled + j]] # RequestId[r]
    OBVIOUS
  <2>1. PICK k \in 1 .. Len(batch) :
          batch[k] = r /\ \A j \in 1 .. k - 1 : RequestId[batch[j]] # RequestId[r]
    BY InsertedFirst
  <2>2. \A j \in 1 .. k - 1 : j \in 1 .. Len(batch)
    BY <1>l
  <2> QED
    BY <2>1, <2>2, <1>b
<1>2. ASSUME NEW i \in 1 .. Settled + Len(batch), accepted[i] \in Inserted
      PROVE  i > Settled /\ \A j \in Settled + 1 .. i - 1 :
                               RequestId[accepted[j]] # RequestId[accepted[i]]
  <2>1. PICK k \in 1 .. Len(batch) :
          /\ accepted[Settled + k] = accepted[i]
          /\ \A j \in 1 .. k - 1 : RequestId[accepted[Settled + j]] # RequestId[accepted[i]]
    BY <1>1, <1>2
  <2>2. i = Settled + k
    BY <2>1, <1>u, <1>l
  <2>3. \A j \in Settled + 1 .. i - 1 : j - Settled \in 1 .. k - 1 /\ Settled + (j - Settled) = j
    BY <2>2, <1>l
  <2> QED
    BY <2>1, <2>2, <2>3, <1>l
<1>3. ASSUME NEW i \in 1 .. Settled + Len(batch), accepted[i] \in rows
      PROVE  i <= Settled
  <2>1. PICK k \in 1 .. Settled : accepted[k] = accepted[i]
    BY <1>3 DEF SettledRows
  <2> QED
    BY <2>1, <1>u, <1>l
<1>4. ASSUME NEW r \in Inserted
      PROVE  \E i \in 1 .. Settled + Len(batch) : accepted[i] = r
  <2>1. PICK k \in 1 .. Len(batch) : accepted[Settled + k] = r
    BY <1>1
  <2> QED
    BY <2>1, <1>l
<1> QED
  BY <1>2, <1>3, <1>4

\* A transaction that takes effect, whether its reply arrives or not.
LEMMA CommitSettles ==
  ASSUME LogInv, Flushed, Commit, failed \subseteq failed'
  PROVE  SettledRows' /\ StampsGrow' /\ FirstRows'
<1> DEFINE n == Settled + Len(batch)
<1>l. /\ Len(batch) \in Nat /\ Settled \in Int /\ Settled >= 0
      /\ Settled' = n /\ accepted' = accepted /\ txs' = txs + 1 /\ txs \in Nat
  BY FlushLayout, Lengths DEF LogInv, Layout, Flushed, TypeOK
<1>c. /\ rows' = rows \cup Inserted
      /\ \A r \in Records : stamp'[r] = IF r \in Inserted THEN txs + 1 ELSE stamp[r]
      /\ rows \subseteq Records /\ rows' \subseteq Records /\ stamp \in [Records -> Nat]
  BY CommitType DEF LogInv, Commit, TypeOK
<1>i. /\ \A r \in Inserted : \E i \in 1 .. n : accepted[i] = r
      /\ \A i \in 1 .. n : accepted[i] \in Inserted =>
           i > Settled /\ \A j \in Settled + 1 .. i - 1 :
                             RequestId[accepted[j]] # RequestId[accepted[i]]
      /\ \A i \in 1 .. n : accepted[i] \in rows => i <= Settled
      /\ \A r \in Inserted, s \in rows : RequestId[r] # RequestId[s]
  BY InsertedPlace, InsertedFirst DEF LogInv
<1>s. SettledRows /\ StampsGrow /\ FirstRows
  BY DEF LogInv
<1>1. SettledRows'
  <2>1. ASSUME NEW r \in rows' PROVE \E i \in 1 .. n : accepted[i] = r
    BY <1>l, <1>c, <1>i, <1>s DEF SettledRows
  <2>2. ASSUME NEW i \in 1 .. n
        PROVE  accepted[i] \in failed' \/ \E s \in rows' : RequestId[s] = RequestId[accepted[i]]
    <3>1. CASE i <= Settled
      BY <3>1, <1>c, <1>s DEF SettledRows
    <3>2. CASE i > Settled
      <4>1. i - Settled \in 1 .. Len(batch)
        BY <3>2, <1>l
      <4>2. batch[i - Settled] = accepted[Settled + (i - Settled)]
        BY <4>1 DEF LogInv, Layout
      <4>3. Settled + (i - Settled) = i
        BY <1>l
      <4> QED
        BY <4>1, <4>2, <4>3, <1>c, InsertedFirst DEF LogInv
    <3> QED
      BY <3>1, <3>2, <1>l
  <2> QED
    BY <2>1, <2>2, <1>l DEF SettledRows
<1>2. StampsGrow'
  <2>1. ASSUME NEW r \in rows' PROVE stamp'[r] <= txs'
    BY <1>l, <1>c, <1>s DEF StampsGrow
  <2>2. ASSUME NEW i \in 1 .. n, NEW j \in 1 .. n, i < j,
               accepted[i] \in rows', accepted[j] \in rows'
        PROVE  stamp'[accepted[i]] <= stamp'[accepted[j]]
    <3>1. CASE accepted[j] \in Inserted
      <4>1. stamp'[accepted[j]] = txs' /\ stamp'[accepted[i]] <= txs'
        BY <3>1, <2>1, <2>2, <1>l, <1>c
      <4> QED
        BY <4>1
    <3>2. CASE accepted[j] \notin Inserted
      <4>1. j <= Settled /\ accepted[j] \in rows
        BY <3>2, <2>2, <1>c, <1>i
      <4>2. i <= Settled /\ i \in 1 .. Settled /\ j \in 1 .. Settled
        BY <4>1, <2>2, <1>l
      <4>3. accepted[i] \notin Inserted /\ accepted[i] \in rows
        BY <4>2, <2>2, <1>c, <1>i, <1>l
      <4>4. stamp[accepted[i]] <= stamp[accepted[j]]
        BY <4>1, <4>2, <4>3, <2>2, <1>s DEF StampsGrow
      <4> QED
        BY <4>1, <4>3, <4>4, <3>2, <1>c
    <3> QED
      BY <3>1, <3>2
  <2> QED
    BY <2>1, <2>2, <1>l DEF StampsGrow
<1>3. FirstRows'
  <2>1. ASSUME NEW r \in rows', NEW s \in rows', RequestId[r] = RequestId[s] PROVE r = s
    <3>1. CASE r \in Inserted /\ s \in Inserted
      <4>1. PICK i \in 1 .. n : accepted[i] = r
        BY <3>1, <1>i
      <4>2. PICK j \in 1 .. n : accepted[j] = s
        BY <3>1, <1>i
      <4>3. i > Settled /\ j > Settled
        BY <3>1, <4>1, <4>2, <1>i
      <4>4. ~(i < j) /\ ~(j < i)
        <5>1. i < j => i \in Settled + 1 .. j - 1
          BY <4>3, <1>l
        <5>2. j < i => j \in Settled + 1 .. i - 1
          BY <4>3, <1>l
        <5> QED
          BY <5>1, <5>2, <4>1, <4>2, <3>1, <2>1, <1>i
      <4>5. i = j
        BY <4>4
      <4> QED
        BY <4>1, <4>2, <4>5
    <3>2. CASE ~(r \in Inserted /\ s \in Inserted)
      BY <3>2, <2>1, <1>c, <1>i, <1>s DEF FirstRows
    <3> QED
      BY <3>1, <3>2
  <2>2. ASSUME NEW i \in 1 .. n, NEW j \in 1 .. n, i < j, accepted[j] \in rows',
               RequestId[accepted[i]] = RequestId[accepted[j]]
        PROVE  accepted[i] \in failed'
    <3>1. CASE accepted[j] \in rows
      <4>1. i \in 1 .. Settled /\ j \in 1 .. Settled
        BY <3>1, <2>2, <1>i, <1>l
      <4> QED
        BY <3>1, <4>1, <2>2, <1>s DEF FirstRows
    <3>2. CASE accepted[j] \in Inserted
      <4>1. i <= Settled
        <5>1. i > Settled => i \in Settled + 1 .. j - 1
          BY <2>2, <1>l
        <5> QED
          BY <3>2, <5>1, <2>2, <1>i, <1>l
      <4>2. i \in 1 .. Settled
        BY <4>1, <1>l
      <4>3. \A s \in rows : RequestId[s] # RequestId[accepted[i]]
        BY <3>2, <2>2, <1>i
      <4> QED
        BY <4>2, <4>3, <1>s DEF SettledRows
    <3> QED
      BY <3>1, <3>2, <2>2, <1>c
  <2> QED
    BY <2>1, <2>2, <1>l DEF FirstRows
<1> QED
  BY <1>1, <1>2, <1>3

\* A transaction that is rolled back: its batch is logged as failed.
LEMMA RollbackSettles ==
  ASSUME LogInv, Flushed, UNCHANGED <<rows, stamp>>, failed' = failed \cup Elems(batch)
  PROVE  SettledRows' /\ StampsGrow' /\ FirstRows'
<1> DEFINE n == Settled + Len(batch)
<1>l. /\ Len(batch) \in Nat /\ Settled \in Int /\ Settled >= 0
      /\ Settled' = n /\ accepted' = accepted /\ txs' = txs + 1 /\ txs \in Nat
  BY FlushLayout, Lengths DEF LogInv, Layout, Flushed, TypeOK
<1>t. rows' = rows /\ stamp' = stamp /\ stamp \in [Records -> Nat] /\ rows \subseteq Records
  BY DEF LogInv, TypeOK
<1>f. \A i \in 1 .. n : i <= Settled \/ accepted[i] \in failed'
  <2> SUFFICES ASSUME NEW i \in 1 .. n, i > Settled PROVE accepted[i] \in failed'
    BY <1>l
  <2>1. i - Settled \in 1 .. Len(batch) /\ Settled + (i - Settled) = i
    BY <1>l
  <2>2. batch[i - Settled] = accepted[Settled + (i - Settled)]
    BY <2>1 DEF LogInv, Layout
  <2>3. DOMAIN batch = 1 .. Len(batch)
    BY DEF LogInv, TypeOK
  <2> QED
    BY <2>1, <2>2, <2>3 DEF Elems
<1>i. \A i \in 1 .. n : accepted[i] \in rows => i <= Settled
  BY InsertedPlace DEF LogInv
<1>1. SettledRows'
  BY <1>l, <1>t, <1>f DEF LogInv, SettledRows
<1>2. StampsGrow'
  BY <1>l, <1>t, <1>i DEF LogInv, StampsGrow
<1>3. FirstRows'
  BY <1>l, <1>t, <1>i DEF LogInv, FirstRows
<1> QED
  BY <1>1, <1>2, <1>3

-----------------------------------------------------------------------------
(***************************************************************************)
(* The invariant and what follows from it.                                 *)
(***************************************************************************)

LEMMA InitLog == Init => LogInv
<1> SUFFICES ASSUME Init PROVE LogInv
  OBVIOUS
<1>l. Len(<<>>) = 0
  OBVIOUS
<1>a. Len(accepted) = 0 /\ Len(batch) = 0 /\ Len(queue) = 0
  BY <1>l DEF Init
<1>1. Settled = 0 /\ Len(accepted) = 0 /\ Len(batch) = 0 /\ Len(queue) = 0
  BY <1>a DEF Settled
<1>2. Layout /\ SettledRows /\ StampsGrow /\ FirstRows
  BY <1>1 DEF Init, Layout, SettledRows, StampsGrow, FirstRows
<1> QED
  BY <1>2, InitType DEF LogInv

LEMMA NextLog ==
  ASSUME LogInv, [Next]_vars
  PROVE  LogInv'
<1>t. /\ TypeOK /\ BatchFresh /\ Layout /\ SettledRows /\ StampsGrow /\ FirstRows
      /\ TypeOK' /\ BatchFresh'
  BY NextType DEF LogInv
<1>k. ASSUME Layout', Settled' = Settled, UNCHANGED tableVars,
             \A i \in 1 .. Settled : accepted'[i] = accepted[i]
      PROVE  LogInv'
  BY <1>t, <1>k, KeepSettled DEF LogInv
<1>1. ASSUME NEW r \in Records, Record(r) PROVE LogInv'
  BY <1>1, <1>t, <1>k, RecordLayout DEF Record, workerVars, tableVars
<1>2. CASE Recv
  BY <1>2, <1>t, <1>k, TakeLayout DEF Recv
<1>3. CASE Drain
  BY <1>3, <1>t, <1>k, TakeLayout DEF Drain
<1>4. ASSUME UNCHANGED <<accepted, queue, batch, rows, stamp, txs, failed>> PROVE LogInv'
  BY <1>4, <1>t DEF LogInv, Layout, Settled, SettledRows, StampsGrow, FirstRows
<1>5. CASE RecvNone \/ DrainEnd \/ Close \/ RuntimeDrop \/ UNCHANGED vars
  BY <1>5, <1>4 DEF RecvNone, DrainEnd, Close, RuntimeDrop, vars, workerVars, tableVars
<1>6. CASE Flush
  <2>1. Flushed /\ Commit /\ failed' = failed
    BY <1>6 DEF Flush
  <2> QED
    BY <2>1, <1>t, FlushLayout, CommitSettles DEF LogInv
<1>7. CASE FlushError
  <2>1. Flushed /\ failed' = failed \cup Elems(batch)
    BY <1>7 DEF FlushError
  <2>2. CASE Commit
    BY <2>1, <2>2, <1>t, FlushLayout, CommitSettles DEF LogInv
  <2>3. CASE UNCHANGED <<rows, stamp>>
    BY <2>1, <2>3, <1>t, FlushLayout, RollbackSettles DEF LogInv
  <2> QED
    BY <1>7, <2>2, <2>3 DEF FlushError
<1> QED
  BY <1>1, <1>2, <1>3, <1>5, <1>6, <1>7 DEF Next, Work

LEMMA LogInvariant == Spec => []LogInv
<1>1. LogInv /\ [Next]_vars => LogInv'
  BY NextLog
<1> QED
  BY <1>1, InitLog, PTL DEF Spec

\* Nothing the channel took disappears silently: it is queued or in the batch,
\* was logged as failed, or its request has its row.
THEOREM NothingLost == Spec => []Conserved
<1>1. LogInv => Conserved
  <2> SUFFICES ASSUME LogInv, NEW r \in Elems(accepted)
               PROVE  \/ r \in Elems(queue) \cup Elems(batch) \cup failed
                      \/ \E s \in rows : RequestId[s] = RequestId[r]
    BY DEF Conserved
  <2>l. /\ Len(accepted) \in Nat /\ Len(batch) \in Nat /\ Len(queue) \in Nat
        /\ Settled \in Int /\ Settled >= 0
        /\ Len(accepted) = Settled + Len(batch) + Len(queue)
    BY Lengths DEF LogInv, Layout, Settled
  <2>d. /\ DOMAIN accepted = 1 .. Len(accepted)
        /\ DOMAIN batch = 1 .. Len(batch)
        /\ DOMAIN queue = 1 .. Len(queue)
    BY DEF LogInv, TypeOK
  <2>1. PICK i \in 1 .. Len(accepted) : accepted[i] = r
    BY <2>d DEF Elems
  <2>2. CASE i <= Settled
    BY <2>1, <2>2, <2>l DEF LogInv, SettledRows
  <2>3. CASE i > Settled /\ i <= Settled + Len(batch)
    <3>1. i - Settled \in 1 .. Len(batch) /\ Settled + (i - Settled) = i
      BY <2>3, <2>l
    <3>2. batch[i - Settled] = r
      BY <3>1, <2>1 DEF LogInv, Layout
    <3> QED
      BY <3>1, <3>2, <2>d DEF Elems
  <2>4. CASE i > Settled + Len(batch)
    <3> DEFINE j == i - (Settled + Len(batch))
    <3>1. j \in 1 .. Len(queue) /\ Settled + Len(batch) + j = i
      BY <2>1, <2>4, <2>l
    <3>2. queue[j] = r
      BY <3>1, <2>1 DEF LogInv, Layout
    <3> QED
      BY <3>1, <3>2, <2>d DEF Elems
  <2> QED
    BY <2>2, <2>3, <2>4, <2>l
<1> QED
  BY <1>1, LogInvariant, PTL

\* What is accepted before a record with a row is settled with it.
LEMMA BeforeIndices ==
  ASSUME LogInv, NEW r, NEW s \in rows, Before(r, s)
  PROVE  \E i, j \in 1 .. Settled : i < j /\ accepted[i] = r /\ accepted[j] = s
<1>l. /\ Len(accepted) \in Nat /\ Settled \in Int /\ Settled <= Len(accepted)
      /\ DOMAIN accepted = 1 .. Len(accepted)
  BY Lengths DEF LogInv, Layout, Settled, TypeOK
<1>1. PICK i, j \in 1 .. Len(accepted) : i < j /\ accepted[i] = r /\ accepted[j] = s
  BY <1>l DEF Before
<1>2. PICK k \in 1 .. Settled : accepted[k] = s
  BY DEF LogInv, SettledRows
<1>3. k = j
  BY <1>1, <1>2, <1>l DEF LogInv, Layout
<1> QED
  BY <1>1, <1>2, <1>3, <1>l

\* created_at follows the order of acceptance, for any batches and any failures.
THEOREM CreatedInOrder == Spec => []OrderKept
<1>1. LogInv => OrderKept
  <2> SUFFICES ASSUME LogInv, NEW r \in rows, NEW s \in rows, Before(r, s)
               PROVE  stamp[r] <= stamp[s]
    BY DEF OrderKept
  <2> QED
    BY BeforeIndices DEF LogInv, StampsGrow
<1> QED
  BY <1>1, LogInvariant, PTL

\* A request has one row, that of its first record, unless that one's batch was
\* logged as failed.
THEOREM FirstAnswerStays == Spec => []FirstAnswerKept
<1>1. LogInv => FirstAnswerKept
  <2> SUFFICES ASSUME LogInv
               PROVE  \A s \in rows, r \in Elems(accepted) :
                        Before(r, s) /\ RequestId[r] = RequestId[s] => r \in failed
    BY DEF FirstAnswerKept, LogInv, FirstRows
  <2> SUFFICES ASSUME NEW s \in rows, NEW r, Before(r, s), RequestId[r] = RequestId[s]
               PROVE  r \in failed
    OBVIOUS
  <2> QED
    BY BeforeIndices DEF LogInv, FirstRows
<1> QED
  BY <1>1, LogInvariant, PTL
=============================================================================
