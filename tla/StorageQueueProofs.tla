------------------------- MODULE StorageQueueProofs -------------------------
(***************************************************************************)
(* The storage queue for any capacity, batch size, set of writes and       *)
(* number of callers: its types, that flush() returns only when what was   *)
(* accepted before is settled, that no loss is silent, and that the queue  *)
(* with its worker implements the durable log of DurableLog.               *)
(***************************************************************************)
EXTENDS StorageQueue, WellFoundedInduction, TLAPS

\* The worker has a batch whose transaction has not ended.
InTransaction == worker \in {"begin", "execute"}

\* writing is set exactly while the worker is between taking a batch and
\* letting go of it; a transaction has executed a part of a batch that is not
\* empty.
WorkerInv ==
    /\ writing <=> worker \in {"begin", "execute", "report", "finish"}
    /\ InTransaction => batch # <<>>
    /\ worker = "execute" => done <= Len(batch)

\* What is in the queue, and before it what is in the batch, is the end of
\* what was accepted, in order.
InOrder ==
    /\ Settled \in Nat
    /\ \A i \in 1 .. Len(queue) : queue[i] = accepted[Len(accepted) - Len(queue) + i]
    /\ InTransaction =>
          \A i \in 1 .. Len(batch) : batch[i] = accepted[Settled + i]

\* A flush() begins with what is accepted then.
MarksAreReal == \A f \in Callers : mark[f] <= Len(accepted)

\* r is the databases that the first n writes of s lead through, from d.
IsRun(r, d, s, n) ==
    r = [i \in 0 .. n |-> IF i = 0 THEN d ELSE Apply(r[i - 1], s[i])]

\* The open transaction holds what the executed writes make of the committed
\* database, which nobody else changes, and none of them was refused.
TransactionInv ==
    worker = "execute" =>
        \E r : /\ IsRun(r, db, batch, done)
               /\ tx = r[done]
               /\ \A i \in 1 .. done : ~Refuses(r[i - 1], batch[i])

Inv ==
    /\ TypeOK /\ WorkerInv /\ InOrder /\ MarksAreReal
    /\ FlushSettles /\ NoSilentLoss

\* The first state satisfies Inv.
LEMMA InvInit ==
    ASSUME Init
    PROVE  Inv /\ TransactionInv
<1>1. TypeOK
  <2>1. queue \in Seq(Writes) /\ Len(queue) = 0
    BY DEF Init
  <2>2. accepted \in Seq(Writes) /\ batch \in Seq(Writes) /\ Len(batch) = 0
    BY DEF Init
  <2>3. writing \in BOOLEAN /\ stopping \in BOOLEAN /\ error \in BOOLEAN
        /\ refused \in BOOLEAN /\ lost \in BOOLEAN
    BY DEF Init
  <2>. QED BY <2>1, <2>2, <2>3, StorageAssumption DEF Init, TypeOK
<1>2. WorkerInv /\ TransactionInv
  BY DEF Init, WorkerInv, InTransaction, TransactionInv
<1>3. InOrder /\ MarksAreReal /\ FlushSettles
  BY DEF Init, InOrder, MarksAreReal, FlushSettles, Settled, InTransaction
<1>4. NoSilentLoss
  BY DEF Init, NoSilentLoss
<1>. QED BY <1>1, <1>2, <1>3, <1>4 DEF Inv

\* A call of enqueue adds to the end, or leaves an error.
LEMMA InvEnqueue ==
    ASSUME Inv, NEW w \in Writes, Enqueue(w)
    PROVE  Inv'
<1>. USE DEF Inv
<1>t. /\ queue \in Seq(Writes) /\ batch \in Seq(Writes) /\ accepted \in Seq(Writes)
      /\ Len(queue) \in Nat /\ Len(batch) \in Nat /\ Len(accepted) \in Nat
      /\ mark \in [Callers -> Nat]
  BY DEF TypeOK
<1>1. CASE stopping \/ Full
  <2>1. UNCHANGED <<queue, writing, worker, batch, done, accepted, flusher, mark>>
        /\ error' = TRUE
    BY <1>1 DEF Enqueue
  <2>2. TypeOK'
    <3>1. calls' \in Nat
      BY DEF Enqueue, TypeOK
    <3>2. error' \in BOOLEAN /\ refused' \in BOOLEAN
          /\ UNCHANGED <<stopping, destructor, lost>>
      BY <1>1 DEF Enqueue
    <3>. QED BY <2>1, <3>1, <3>2 DEF TypeOK
  <2>3. WorkerInv' /\ InOrder' /\ MarksAreReal' /\ FlushSettles'
    BY <2>1 DEF WorkerInv, InOrder, MarksAreReal, FlushSettles, Settled, InTransaction
  <2>4. NoSilentLoss'
    BY <2>1 DEF NoSilentLoss
  <2>. QED BY <2>2, <2>3, <2>4
<1>2. CASE ~(stopping \/ Full)
  <2>1. /\ queue' \in Seq(Writes) /\ accepted' \in Seq(Writes)
        /\ Len(queue') = Len(queue) + 1 /\ Len(accepted') = Len(accepted) + 1
    <3>1. queue' = Append(queue, w) /\ accepted' = Append(accepted, w)
      BY <1>2 DEF Enqueue
    <3>. QED BY <1>t, <3>1
  <2>e. /\ \A i \in 1 .. Len(queue) : queue'[i] = queue[i]
        /\ \A i \in 1 .. Len(accepted) : accepted'[i] = accepted[i]
        /\ queue'[Len(queue) + 1] = w /\ accepted'[Len(accepted) + 1] = w
    <3>1. queue' = Append(queue, w) /\ accepted' = Append(accepted, w)
      BY <1>2 DEF Enqueue
    <3>. QED BY <1>t, <3>1
  <2>2. worker' \in {worker, "check"} /\ (worker' # worker => worker = "waiting")
        /\ UNCHANGED <<batch, done, db, tx, writing, flusher, mark, error, lost, refused>>
    BY <1>2 DEF Enqueue, WakeWorker
  <2>3. TypeOK'
    <3>1. Len(queue') <= MaxPending /\ calls' \in Nat
      BY <1>2, <2>1, StorageAssumption, <1>t DEF Enqueue, Full, TypeOK
    <3>2. UNCHANGED <<stopping, destructor>>
      BY DEF Enqueue
    <3>. QED BY <2>1, <2>2, <3>1, <3>2 DEF TypeOK
  <2>4. WorkerInv'
    BY <2>2 DEF WorkerInv, InTransaction
  <2>5. Settled' = Settled
    <3>1. CASE InTransaction
      <4>1. /\ Settled = Len(accepted) - Len(queue) - Len(batch)
            /\ Settled' = Len(accepted') - Len(queue') - Len(batch)
        BY <2>2, <3>1 DEF Settled, InTransaction
      <4>. QED BY <1>t, <2>1, <4>1
    <3>2. CASE ~InTransaction
      <4>1. /\ Settled = Len(accepted) - Len(queue) - 0
            /\ Settled' = Len(accepted') - Len(queue') - 0
        BY <2>2, <3>2 DEF Settled, InTransaction
      <4>. QED BY <1>t, <2>1, <4>1
    <3>. QED BY <3>1, <3>2
  <2>6. InOrder'
    <3>1. /\ Len(accepted) - Len(queue) \in Nat
          /\ Len(accepted') - Len(queue') = Len(accepted) - Len(queue)
      BY <1>t, <2>1 DEF InOrder, Settled
    <3>2. ASSUME NEW i \in 1 .. Len(queue')
          PROVE  queue'[i] = accepted'[Len(accepted') - Len(queue') + i]
      <4>1. CASE i = Len(queue) + 1
        <5>1. Len(accepted) - Len(queue) + i = Len(accepted) + 1
          BY <1>t, <4>1
        <5>. QED BY <2>e, <3>1, <4>1, <5>1
      <4>2. CASE i # Len(queue) + 1
        <5>1. i \in 1 .. Len(queue) /\ Len(accepted) - Len(queue) + i \in 1 .. Len(accepted)
          BY <1>t, <2>1, <3>1, <4>2
        <5>. QED BY <2>e, <3>1, <5>1 DEF InOrder
      <4>. QED BY <4>1, <4>2
    <3>3. ASSUME InTransaction', NEW i \in 1 .. Len(batch')
          PROVE  batch'[i] = accepted'[Settled' + i]
      <4>1. InTransaction /\ batch' = batch
        BY <2>2, <3>3 DEF InTransaction
      <4>2. Settled + i \in 1 .. Len(accepted)
        <5>1. Settled = Len(accepted) - Len(queue) - Len(batch)
          BY <4>1 DEF Settled, InTransaction
        <5>. QED BY <1>t, <4>1, <5>1 DEF InOrder
      <4>. QED BY <2>e, <2>5, <4>1, <4>2 DEF InOrder
    <3>. QED BY <2>5, <3>2, <3>3 DEF InOrder
  <2>7. MarksAreReal' /\ FlushSettles'
    BY <1>t, <2>1, <2>2, <2>5 DEF MarksAreReal, FlushSettles
  <2>8. NoSilentLoss'
    BY <2>2 DEF NoSilentLoss
  <2>. QED BY <2>3, <2>4, <2>6, <2>7, <2>8
<1>. QED BY <1>1, <1>2

\* The worker takes the first writes of the queue.
LEMMA InvTake ==
    ASSUME Inv, WorkerTake
    PROVE  Inv'
<1>. USE DEF Inv
<1>t. /\ queue \in Seq(Writes) /\ batch \in Seq(Writes) /\ accepted \in Seq(Writes)
      /\ Len(queue) \in Nat /\ Len(batch) \in Nat /\ Len(accepted) \in Nat
      /\ mark \in [Callers -> Nat]
  BY DEF TypeOK
<1>1. BatchSize \in 1 .. Len(queue) /\ BatchSize <= MaxBatch
  BY StorageAssumption DEF WorkerTake, BatchSize
<1>2. /\ batch' \in Seq(Writes) /\ Len(batch') = BatchSize
      /\ \A i \in 1 .. BatchSize : batch'[i] = queue[i]
  BY <1>t, <1>1 DEF WorkerTake
<1>3. /\ queue' \in Seq(Writes) /\ Len(queue') = Len(queue) - BatchSize
      /\ \A i \in 1 .. Len(queue') : queue'[i] = queue[BatchSize + i]
  BY <1>t, <1>1 DEF WorkerTake
<1>4. /\ worker = "check" /\ worker' = "begin" /\ writing' = TRUE
      /\ UNCHANGED <<stopping, error, done, db, flusher, destructor>>
      /\ UNCHANGED <<calls, refused, lost, accepted, mark>>
  BY DEF WorkerTake, histVars
<1>5. TypeOK'
  <2>1. Len(batch') <= MaxBatch /\ Len(queue') <= MaxPending
    BY <1>t, <1>1, <1>2, <1>3, StorageAssumption DEF TypeOK
  <2>. QED BY <1>2, <1>3, <1>4, <2>1 DEF TypeOK
<1>6. WorkerInv'
  <2>1. batch' # <<>>
    BY <1>1, <1>2
  <2>. QED BY <1>4, <2>1 DEF WorkerInv, InTransaction
<1>7. Settled' = Settled /\ Settled = Len(accepted) - Len(queue)
  BY <1>1, <1>2, <1>3, <1>4, <1>t DEF Settled
<1>8. InOrder'
  <2>1. ASSUME NEW i \in 1 .. Len(queue')
        PROVE  queue'[i] = accepted'[Len(accepted') - Len(queue') + i]
    <3>1. BatchSize + i \in 1 .. Len(queue)
      BY <1>t, <1>1, <1>3
    <3>2. Len(accepted') - Len(queue') + i = Len(accepted) - Len(queue) + (BatchSize + i)
      BY <1>t, <1>1, <1>3, <1>4
    <3>. QED BY <1>3, <1>4, <3>1, <3>2 DEF InOrder
  <2>2. ASSUME NEW i \in 1 .. Len(batch')
        PROVE  batch'[i] = accepted'[Settled' + i]
    <3>1. i \in 1 .. Len(queue) /\ i \in 1 .. BatchSize
      BY <1>t, <1>1, <1>2
    <3>. QED BY <1>2, <1>4, <1>7, <3>1 DEF InOrder
  <2>. QED BY <1>7, <2>1, <2>2 DEF InOrder
<1>9. MarksAreReal' /\ FlushSettles'
  BY <1>4, <1>7 DEF MarksAreReal, FlushSettles
<1>10. NoSilentLoss'
  BY <1>4 DEF NoSilentLoss
<1>. QED BY <1>5, <1>6, <1>8, <1>9, <1>10

\* A transaction ends: its writes are settled.
LEMMA InvSettle ==
    ASSUME Inv, WorkerCommit \/ WorkerRollback
    PROVE  Inv'
<1>. USE DEF Inv
<1>t. /\ queue \in Seq(Writes) /\ batch \in Seq(Writes) /\ accepted \in Seq(Writes)
      /\ Len(queue) \in Nat /\ Len(batch) \in Nat /\ Len(accepted) \in Nat
      /\ mark \in [Callers -> Nat]
  BY DEF TypeOK
<1>1. worker \in {"begin", "execute"} /\ worker' \in {"finish", "report"}
      /\ UNCHANGED <<queue, writing, batch, done, accepted, mark, flusher>>
  BY DEF WorkerCommit, WorkerRollback, queueVars, histVars
<1>2. TypeOK'
  <2>1. /\ lost' \in BOOLEAN
        /\ UNCHANGED <<stopping, error, destructor, calls, refused>>
    BY DEF WorkerCommit, WorkerRollback, queueVars, histVars, TypeOK
  <2>. QED BY <1>1, <2>1 DEF TypeOK
<1>6. WorkerInv'
  BY <1>1 DEF WorkerInv, InTransaction
<1>3. Settled' = Settled + Len(batch)
  <2>1. Settled = Len(accepted) - Len(queue) - Len(batch)
    BY <1>1 DEF Settled
  <2>2. Settled' = Len(accepted) - Len(queue) - 0
    BY <1>1 DEF Settled
  <2>. QED BY <2>1, <2>2, <1>t
<1>4. InOrder' /\ MarksAreReal' /\ FlushSettles'
  BY <1>t, <1>1, <1>3 DEF InOrder, InTransaction, MarksAreReal, FlushSettles
<1>5. NoSilentLoss'
  BY DEF WorkerCommit, WorkerRollback, histVars, NoSilentLoss
<1>. QED BY <1>2, <1>4, <1>5, <1>6

\* The other steps of the worker settle nothing.
LEMMA InvWorker ==
    ASSUME Inv, WorkerWait \/ WorkerExit \/ WorkerBegin \/ WorkerExecute \/ WorkerReport
                \/ WorkerFinish
    PROVE  Inv'
<1>. USE DEF Inv
<1>t. /\ queue \in Seq(Writes) /\ batch \in Seq(Writes) /\ accepted \in Seq(Writes)
      /\ Len(queue) \in Nat /\ Len(batch) \in Nat /\ Len(accepted) \in Nat
      /\ mark \in [Callers -> Nat]
  BY DEF TypeOK
<1>1. UNCHANGED <<queue, accepted, mark>>
  BY DEF WorkerWait, WorkerExit, WorkerBegin, WorkerExecute, WorkerReport, WorkerFinish,
         queueVars, histVars
<1>2. TypeOK' /\ WorkerInv'
  <2>1. CASE WorkerWait \/ WorkerExit
    BY <2>1 DEF WorkerWait, WorkerExit, queueVars, histVars, TypeOK, WorkerInv, InTransaction
  <2>2. CASE WorkerBegin
    <3>1. UNCHANGED <<queue, writing, stopping, error, batch, flusher, destructor,
                      calls, refused, lost, accepted, mark>>
          /\ worker = "begin" /\ worker' = "execute" /\ done' = 0
      BY <2>2 DEF WorkerBegin, queueVars, histVars
    <3>2. done' \in Nat /\ done' <= Len(batch) /\ done' <= MaxBatch
      BY <1>t, <3>1, StorageAssumption
    <3>. QED BY <3>1, <3>2 DEF TypeOK, WorkerInv, InTransaction
  <2>3. CASE WorkerExecute
    <3>1. UNCHANGED <<queue, writing, stopping, error, worker, batch, flusher, destructor,
                      calls, refused, lost, accepted, mark>>
      BY <2>3 DEF WorkerExecute, queueVars, histVars
    <3>2. done' \in Nat /\ done' <= Len(batch) /\ done' <= MaxBatch
      BY <1>t, <2>3, StorageAssumption DEF WorkerExecute, TypeOK
    <3>. QED BY <3>1, <3>2 DEF TypeOK, WorkerInv, InTransaction
  <2>4. CASE WorkerReport
    BY <2>4 DEF WorkerReport, queueVars, histVars, TypeOK, WorkerInv, InTransaction
  <2>5. CASE WorkerFinish
    <3>1. UNCHANGED <<queue, stopping, error, done, destructor,
                      calls, refused, lost, accepted, mark>>
          /\ worker' = "check" /\ writing' = FALSE
      BY <2>5 DEF WorkerFinish, histVars
    <3>2. batch' \in Seq(Writes) /\ Len(batch') <= MaxBatch
      BY <2>5, StorageAssumption DEF WorkerFinish
    <3>3. flusher' \in [Callers -> {"out", "check", "waiting", "returned"}]
      BY <2>5 DEF WorkerFinish, WakeFlushers, TypeOK
    <3>. QED BY <3>1, <3>2, <3>3 DEF TypeOK, WorkerInv, InTransaction
  <2>. QED BY <2>1, <2>2, <2>3, <2>4, <2>5
<1>4. Settled' = Settled
  BY DEF WorkerWait, WorkerExit, WorkerBegin, WorkerExecute, WorkerReport, WorkerFinish,
         queueVars, histVars, Settled
<1>5. InTransaction' => InTransaction /\ batch' = batch
  BY DEF WorkerWait, WorkerExit, WorkerBegin, WorkerExecute, WorkerReport, WorkerFinish,
         InTransaction
<1>6. InOrder' /\ MarksAreReal'
  BY <1>1, <1>4, <1>5 DEF InOrder, MarksAreReal
<1>7. \A f \in Callers : flusher'[f] = "returned" => flusher[f] = "returned"
  BY DEF WorkerWait, WorkerExit, WorkerBegin, WorkerExecute, WorkerReport, WorkerFinish,
         WakeFlushers
<1>8. FlushSettles'
  BY <1>1, <1>4, <1>7 DEF FlushSettles
<1>9. NoSilentLoss'
  BY DEF WorkerWait, WorkerExit, WorkerBegin, WorkerExecute, WorkerReport, WorkerFinish,
         histVars, NoSilentLoss
<1>. QED BY <1>2, <1>6, <1>8, <1>9

\* A call of flush() returns when everything is settled.
LEMMA InvFlush ==
    ASSUME Inv, NEW f \in Callers, Flush(f)
    PROVE  Inv'
<1>. USE DEF Inv
<1>t. /\ queue \in Seq(Writes) /\ batch \in Seq(Writes) /\ accepted \in Seq(Writes)
      /\ Len(queue) \in Nat /\ Len(batch) \in Nat /\ Len(accepted) \in Nat
      /\ mark \in [Callers -> Nat]
  BY DEF TypeOK
<1>1. UNCHANGED <<queueVars, error, workerVars, db, destructor, calls, refused, lost, accepted>>
  BY DEF Flush, FlushBegin, FlushWait, FlushReturn, FlushLeave, histVars
<1>2. TypeOK'
  <2>1. flusher' \in [Callers -> {"out", "check", "waiting", "returned"}]
    BY DEF Flush, FlushBegin, FlushWait, FlushReturn, FlushLeave, TypeOK
  <2>2. mark' \in [Callers -> Nat]
    BY <1>t DEF Flush, FlushBegin, FlushWait, FlushReturn, FlushLeave, histVars
  <2>. QED BY <1>1, <2>1, <2>2 DEF TypeOK, queueVars, workerVars
<1>3. WorkerInv' /\ InOrder' /\ Settled' = Settled
  BY <1>1 DEF WorkerInv, InOrder, Settled, InTransaction, queueVars, workerVars
<1>4. MarksAreReal'
  BY <1>t, <1>1 DEF Flush, FlushBegin, FlushWait, FlushReturn, FlushLeave, histVars,
                    MarksAreReal
<1>5. Drained => Settled = Len(accepted)
  BY DEF Drained, Settled, WorkerInv
<1>6. FlushSettles'
  <2>1. /\ flusher \in [Callers -> {"out", "check", "waiting", "returned"}]
        /\ Settled \in Nat
    BY DEF TypeOK, InOrder
  <2>2. CASE FlushBegin(f)
    BY <1>t, <1>3, <2>1, <2>2 DEF FlushBegin, FlushSettles
  <2>3. CASE FlushReturn(f)
    BY <1>t, <1>3, <1>5, <2>1, <2>3 DEF FlushReturn, FlushSettles, MarksAreReal, histVars
  <2>4. CASE FlushWait(f) \/ FlushLeave(f)
    BY <1>t, <1>3, <2>1, <2>4 DEF FlushWait, FlushLeave, FlushSettles, histVars
  <2>. QED BY <2>2, <2>3, <2>4 DEF Flush
<1>7. NoSilentLoss'
  BY <1>1 DEF NoSilentLoss, workerVars
<1>. QED BY <1>2, <1>3, <1>4, <1>6, <1>7

\* The destructor, and wake-ups without a notification.
LEMMA InvDestructor ==
    ASSUME Inv, Destructor \/ SpuriousWake
    PROVE  Inv'
<1>. USE DEF Inv
<1>t. /\ accepted \in Seq(Writes) /\ Len(accepted) \in Nat /\ mark \in [Callers -> Nat]
      /\ flusher \in [Callers -> {"out", "check", "waiting", "returned"}]
      /\ Settled \in Nat /\ Destroyer \in Callers
  BY DEF TypeOK, InOrder, Callers
<1>1. UNCHANGED <<queue, writing, error, batch, tx, done, db, calls, refused, lost, accepted>>
  BY DEF Destructor, Destroy, StopWorker, Join, SpuriousWake, histVars, queueVars, workerVars
<1>2. worker' \in {worker, "check"} /\ (worker' # worker => worker = "waiting")
  BY DEF Destructor, Destroy, StopWorker, Join, SpuriousWake, WakeWorker, workerVars
<1>3. \/ UNCHANGED <<flusher, mark>>
      \/ /\ flusher' = [flusher EXCEPT ![Destroyer] = "check"]
         /\ mark' = [mark EXCEPT ![Destroyer] = Len(accepted)]
      \/ /\ \E f \in Callers : flusher' = [flusher EXCEPT ![f] = "check"]
         /\ mark' = mark
  BY DEF Destructor, Destroy, StopWorker, Join, SpuriousWake, histVars
<1>4. TypeOK'
  <2>1. flusher' \in [Callers -> {"out", "check", "waiting", "returned"}]
        /\ mark' \in [Callers -> Nat]
    BY <1>t, <1>3
  <2>2. stopping' \in BOOLEAN /\ destructor' \in {"no", "flushing", "joining", "done"}
    BY DEF Destructor, Destroy, StopWorker, Join, SpuriousWake, queueVars, TypeOK
  <2>. QED BY <1>1, <1>2, <2>1, <2>2 DEF TypeOK
<1>5. WorkerInv' /\ InOrder' /\ Settled' = Settled
  BY <1>1, <1>2 DEF WorkerInv, InOrder, Settled, InTransaction
<1>6. MarksAreReal'
  BY <1>t, <1>1, <1>3 DEF MarksAreReal
<1>7. FlushSettles'
  BY <1>t, <1>3, <1>5 DEF FlushSettles
<1>8. NoSilentLoss'
  BY <1>1, <1>2 DEF NoSilentLoss
<1>. QED BY <1>4, <1>5, <1>6, <1>7, <1>8

\* Every step keeps Inv.
LEMMA InvStep ==
    ASSUME Inv, [Next]_vars
    PROVE  Inv'
<1>1. CASE UNCHANGED vars
  BY <1>1 DEF vars, queueVars, workerVars, histVars, Inv, TypeOK, WorkerInv, InOrder,
              MarksAreReal, FlushSettles, NoSilentLoss, Settled, InTransaction
<1>2. CASE Worker
  BY <1>2, InvTake, InvSettle, InvWorker DEF Worker
<1>. QED BY <1>1, <1>2, InvEnqueue, InvFlush, InvDestructor DEF Next

\* The storage queue's state is well typed; its queue never exceeds its limit
\* and a batch never the size of a transaction.
THEOREM StorageTypeCorrect == Spec => []TypeOK
<1>1. Inv => TypeOK
  BY DEF Inv
<1>. QED BY <1>1, InvInit, InvStep, PTL DEF Spec

\* When flush() returns, every write accepted before the call is committed or
\* rolled back, for any number of callers and whatever wakes them.
THEOREM FlushIsComplete == Spec => []FlushSettles
<1>1. Inv => FlushSettles
  BY DEF Inv
<1>. QED BY <1>1, InvInit, InvStep, PTL DEF Spec

\* A write that was refused or rolled back has left an error behind by the
\* time the worker looks at its queue again.
THEOREM LossIsReported == Spec => []NoSilentLoss
<1>1. Inv => NoSilentLoss
  BY DEF Inv
<1>. QED BY <1>1, InvInit, InvStep, PTL DEF Spec

-----------------------------------------------------------------------------
(***************************************************************************)
(* The refinement of DurableLog.                                           *)
(***************************************************************************)
Below == {p \in Nat \X Nat : p[1] < p[2]}

\* The order of the natural numbers is well-founded.
LEMMA BelowWellFounded == IsWellFoundedOn(Below, Nat)
<1>1. Below = OpToRel(<, Nat)
  BY DEF Below, OpToRel
<1>. QED BY <1>1, NatLessThanWellFounded

\* Induction, for a property given as the set of numbers that have it.
LEMMA SetInduction ==
    ASSUME NEW S, 0 \in S, \A n \in Nat : n \in S => n + 1 \in S
    PROVE  \A n \in Nat : n \in S
<1>1. SUFFICES ASSUME Nat \ S # {} PROVE FALSE
  OBVIOUS
<1>2. PICK x \in Nat \ S : \A y \in Nat \ S : <<y, x>> \notin Below
  <2>1. Nat \ S \subseteq Nat
    OBVIOUS
  <2>. QED BY <1>1, <2>1, BelowWellFounded, WFMin
<1>3. x - 1 \in Nat
  BY <1>2
<1>4. <<x - 1, x>> \in Below
  BY <1>3 DEF Below
<1>5. x - 1 \in S
  BY <1>2, <1>3, <1>4
<1>. QED BY <1>2, <1>3, <1>5

\* A sequence of writes leads through one sequence of databases.
LEMMA RunIsUnique ==
    ASSUME NEW d, NEW s, NEW n \in Nat, NEW r, NEW q, IsRun(r, d, s, n), IsRun(q, d, s, n)
    PROVE  r = q
<1>. DEFINE S == {i \in Nat : i <= n => r[i] = q[i]}
<1>1. 0 \in S
  BY DEF IsRun
<1>2. ASSUME NEW i \in Nat, i \in S PROVE i + 1 \in S
  <2>1. CASE i + 1 <= n
    <3>1. i + 1 \in 0 .. n /\ i + 1 # 0 /\ (i + 1) - 1 = i /\ r[i] = q[i]
      BY <1>2, <2>1
    <3>2. r[i + 1] = Apply(r[(i + 1) - 1], s[i + 1])
      BY <3>1 DEF IsRun
    <3>3. q[i + 1] = Apply(q[(i + 1) - 1], s[i + 1])
      BY <3>1 DEF IsRun
    <3>4. r[i + 1] = q[i + 1]
      BY <3>1, <3>2, <3>3
    <3>. QED BY <3>4
  <2>2. CASE ~(i + 1 <= n)
    BY <2>2
  <2>. QED BY <2>1, <2>2
<1>3. \A i \in Nat : i \in S
  <2>. HIDE DEF S
  <2>. QED BY <1>1, <1>2, SetInduction
<1>4. \A i \in 0 .. n : r[i] = q[i]
  BY <1>3
<1>. QED BY <1>4 DEF IsRun

\* The transaction is what was executed, in every step.
LEMMA TransactionStep ==
    ASSUME Inv, TransactionInv, [Next]_vars
    PROVE  TransactionInv'
<1>1. CASE WorkerBegin
  <2>. DEFINE r == [i \in 0 .. 0 |-> db]
  <2>1. done' = 0 /\ tx' = db /\ db' = db
    BY <1>1 DEF WorkerBegin
  <2>2. IsRun(r, db', batch', done')
    BY <2>1 DEF IsRun
  <2>3. tx' = r[done'] /\ \A i \in 1 .. done' : ~Refuses(r[i - 1], batch'[i])
    BY <2>1
  <2>. QED BY <2>2, <2>3 DEF TransactionInv
<1>2. CASE WorkerExecute
  <2>1. PICK r : /\ IsRun(r, db, batch, done)
                 /\ tx = r[done]
                 /\ \A i \in 1 .. done : ~Refuses(r[i - 1], batch[i])
    BY <1>2 DEF WorkerExecute, TransactionInv
  <2>2. /\ done' = done + 1 /\ db' = db /\ batch' = batch
        /\ tx' = Apply(tx, batch[done + 1]) /\ ~Refuses(tx, batch[done + 1])
    BY <1>2 DEF WorkerExecute, NextWrite
  <2>3. done \in Nat
    BY DEF Inv, TypeOK
  <2>. DEFINE q == [i \in 0 .. done + 1 |-> IF i = done + 1 THEN tx' ELSE r[i]]
  <2>4. \A i \in 0 .. done : q[i] = r[i] /\ r[i] = IF i = 0 THEN db ELSE Apply(r[i - 1], batch[i])
    BY <2>1, <2>3 DEF IsRun
  <2>5. \A i \in 0 .. done + 1 :
           q[i] = IF i = 0 THEN db ELSE Apply(q[i - 1], batch[i])
    <3>1. ASSUME NEW i \in 0 .. done
          PROVE  q[i] = IF i = 0 THEN db ELSE Apply(q[i - 1], batch[i])
      <4>1. i # 0 => i - 1 \in 0 .. done
        BY <2>3
      <4>. HIDE DEF q
      <4>. QED BY <2>4, <4>1
    <3>2. q[done + 1] = Apply(q[(done + 1) - 1], batch[done + 1])
      <4>1. (done + 1) - 1 = done /\ q[done] = tx /\ q[done + 1] = tx'
        BY <2>1, <2>3
      <4>. QED BY <2>2, <4>1
    <3>3. done + 1 # 0 /\ \A i \in 0 .. done + 1 : i \in 0 .. done \/ i = done + 1
      BY <2>3
    <3>. HIDE DEF q
    <3>. QED BY <3>1, <3>2, <3>3
  <2>6. IsRun(q, db', batch', done')
    BY <2>2, <2>5 DEF IsRun
  <2>7. tx' = q[done']
    BY <2>2, <2>3
  <2>8. ASSUME NEW i \in 1 .. done' PROVE ~Refuses(q[i - 1], batch'[i])
    <3>1. CASE i = done + 1
      <4>1. q[i - 1] = tx
        BY <2>1, <2>3, <3>1
      <4>. QED BY <2>2, <3>1, <4>1
    <3>2. CASE i # done + 1
      <4>1. i \in 1 .. done /\ i - 1 \in 0 .. done
        BY <2>2, <2>3, <3>2
      <4>. HIDE DEF q
      <4>. QED BY <2>1, <2>2, <2>4, <4>1
    <3>. QED BY <3>1, <3>2
  <2>. HIDE DEF q
  <2>. QED BY <2>6, <2>7, <2>8 DEF TransactionInv
<1>3. CASE ~WorkerBegin /\ ~WorkerExecute
  <2>1. worker' = "execute" => worker = "execute" /\ UNCHANGED <<db, tx, batch, done>>
    BY <1>3 DEF Next, vars, Enqueue, Worker, WorkerWait, WorkerExit, WorkerTake, WorkerCommit,
                WorkerRollback, WorkerReport, WorkerFinish, Flush, FlushBegin, FlushWait,
                FlushReturn, FlushLeave, Destructor, Destroy, StopWorker, Join, SpuriousWake,
                WakeWorker, workerVars
  <2>. QED BY <2>1 DEF TransactionInv
<1>. QED BY <1>1, <1>2, <1>3

\* The log has the schema of the queue.
LEMMA SameSchema ==
    /\ \A d, w : Log!Apply(d, w) = Apply(d, w)
    /\ \A d, w : Log!Refuses(d, w) <=> Refuses(d, w)
    /\ Log!EmptyDb(RoomIds, Nicks) = EmptyDb(RoomIds, Nicks)
BY DEF Log!Apply, Apply, Log!Refuses, Refuses, Log!EmptyDb, EmptyDb

\* At the commit, the block of the log is the batch, and the databases it
\* leads through are those of the transaction.
LEMMA BlockIsBatch ==
    ASSUME Inv, TransactionInv, WorkerCommit
    PROVE  /\ Settled + Len(batch) <= Len(accepted)
           /\ Log!Applicable(Len(batch)) /\ tx = Log!Run(Len(batch))[Len(batch)]
<1>. DEFINE n == Len(batch)
<1>1. /\ batch \in Seq(Writes) /\ accepted \in Seq(Writes) /\ queue \in Seq(Writes)
      /\ n \in Nat /\ Settled \in Nat
  BY DEF Inv, TypeOK, InOrder
<1>2. Settled + n <= Len(accepted)
  BY <1>1 DEF WorkerCommit, Settled
<1>3. \A i \in 1 .. n : Log!Block(n)[i] = batch[i]
  <2>1. Log!Block(n) = SubSeq(accepted, Settled + 1, Settled + n)
    BY DEF Log!Block
  <2>2. \A i \in 1 .. n : Log!Block(n)[i] = accepted[Settled + i]
    BY <1>1, <1>2, <2>1
  <2>. QED BY <2>2 DEF Inv, InOrder, InTransaction, WorkerCommit
<1>4. PICK r : /\ IsRun(r, db, batch, n)
               /\ tx = r[n]
               /\ \A i \in 1 .. n : ~Refuses(r[i - 1], batch[i])
  BY DEF WorkerCommit, TransactionInv
<1>5. \A q : q = [i \in 0 .. n |-> IF i = 0 THEN db ELSE Log!Apply(q[i - 1], Log!Block(n)[i])]
               <=> IsRun(q, db, batch, n)
  <2>1. ASSUME NEW q
        PROVE  [i \in 0 .. n |-> IF i = 0 THEN db ELSE Log!Apply(q[i - 1], Log!Block(n)[i])]
                 = [i \in 0 .. n |-> IF i = 0 THEN db ELSE Apply(q[i - 1], batch[i])]
    <3>1. \A i \in 0 .. n : i # 0 => i \in 1 .. n
      BY <1>1
    <3>. HIDE DEF n
    <3>. QED BY <1>3, <3>1, SameSchema
  <2>. QED BY <2>1 DEF IsRun
<1>6. IsRun(Log!Run(n), db, batch, n)
  <2>1. Log!Run(n) = CHOOSE q : q = [i \in 0 .. n |-> IF i = 0 THEN db
                                                     ELSE Log!Apply(q[i - 1], Log!Block(n)[i])]
    BY DEF Log!Run
  <2>. HIDE DEF n
  <2>. QED BY <1>4, <1>5, <2>1
<1>7. Log!Run(n) = r
  BY <1>1, <1>4, <1>6, RunIsUnique
<1>8. Log!Applicable(n)
  BY <1>3, <1>4, <1>7, SameSchema DEF Log!Applicable
<1>. QED BY <1>2, <1>4, <1>7, <1>8

\* Enqueue is AcceptWrite, or changes nothing the log knows of.
LEMMA LogEnqueue ==
    ASSUME Inv, NEW w \in Writes, Enqueue(w)
    PROVE  [Log!LogNext]_(Log!logVars)
<1>1. CASE stopping \/ Full
  BY <1>1 DEF Enqueue, Settled, Log!logVars
<1>2. CASE ~(stopping \/ Full)
  <2>1. accepted' = Append(accepted, w) /\ db' = db
    BY <1>2 DEF Enqueue
  <2>2. Settled' = Settled
    <3>1. /\ queue \in Seq(Writes) /\ accepted \in Seq(Writes)
          /\ Len(queue) \in Nat /\ Len(accepted) \in Nat /\ Len(batch) \in Nat
      BY DEF Inv, TypeOK
    <3>2. Len(queue') = Len(queue) + 1 /\ Len(accepted') = Len(accepted) + 1
      BY <1>2, <3>1 DEF Enqueue
    <3>3. batch' = batch /\ (InTransaction' <=> InTransaction)
      BY <1>2 DEF Enqueue, WakeWorker, InTransaction
    <3>4. CASE InTransaction
      <4>1. /\ Settled = Len(accepted) - Len(queue) - Len(batch)
            /\ Settled' = Len(accepted') - Len(queue') - Len(batch)
        BY <3>3, <3>4 DEF Settled, InTransaction
      <4>. QED BY <3>1, <3>2, <4>1
    <3>5. CASE ~InTransaction
      <4>1. /\ Settled = Len(accepted) - Len(queue) - 0
            /\ Settled' = Len(accepted') - Len(queue') - 0
        BY <3>3, <3>5 DEF Settled, InTransaction
      <4>. QED BY <3>1, <3>2, <4>1
    <3>. QED BY <3>4, <3>5
  <2>3. Log!AcceptWrite(w)
    BY <2>1, <2>2 DEF Log!AcceptWrite
  <2>. QED BY <2>3 DEF Log!LogNext
<1>. QED BY <1>1, <1>2

\* A commit and a rollback settle the batch.
LEMMA LogSettle ==
    ASSUME Inv, TransactionInv, WorkerCommit \/ WorkerRollback
    PROVE  Log!LogNext
<1>1. /\ Len(batch) \in Nat /\ Len(queue) \in Nat /\ Len(accepted) \in Nat
      /\ Len(batch) \in 1 .. MaxBatch
  <2>1. batch \in Seq(Writes) /\ batch # <<>> /\ Len(batch) <= MaxBatch
    BY DEF Inv, TypeOK, WorkerInv, InTransaction, WorkerCommit, WorkerRollback
  <2>. QED BY <2>1, StorageAssumption DEF Inv, TypeOK
<1>2. InTransaction /\ ~InTransaction' /\ UNCHANGED <<queue, batch, accepted>>
  BY DEF WorkerCommit, WorkerRollback, queueVars, histVars, InTransaction
<1>3. /\ Settled = Len(accepted) - Len(queue) - Len(batch)
      /\ Settled' = Len(accepted) - Len(queue) - 0
  BY <1>2 DEF Settled, InTransaction
<1>4. Settled' = Settled + Len(batch) /\ Settled + Len(batch) <= Len(accepted)
  BY <1>1, <1>3
<1>5. Log!Settle(Len(batch))
  <2>1. CASE WorkerCommit
    BY <1>2, <1>4, <2>1, BlockIsBatch DEF WorkerCommit, Log!Settle
  <2>2. CASE WorkerRollback
    BY <1>2, <1>4, <2>2 DEF WorkerRollback, Log!Settle
  <2>. QED BY <2>1, <2>2
<1>. QED BY <1>1, <1>5 DEF Log!LogNext

\* The other steps of the worker leave the log as it is: taking a batch moves
\* writes from the queue to it, the transaction is invisible until it ends.
LEMMA LogWorker ==
    ASSUME Inv, Worker, ~(WorkerCommit \/ WorkerRollback)
    PROVE  UNCHANGED Log!logVars
<1>1. UNCHANGED <<accepted, db>>
  BY DEF Worker, WorkerWait, WorkerExit, WorkerTake, WorkerBegin, WorkerExecute,
         WorkerReport, WorkerFinish, histVars
<1>2. Settled' = Settled
  <2>1. CASE WorkerTake
    <3>1. queue \in Seq(Writes) /\ Len(queue) \in Nat /\ Len(accepted) \in Nat
      BY DEF Inv, TypeOK
    <3>2. BatchSize \in 1 .. Len(queue)
      BY <2>1, <3>1, StorageAssumption DEF WorkerTake, BatchSize
    <3>3. Len(batch') = BatchSize /\ Len(queue') = Len(queue) - BatchSize
      BY <2>1, <3>1, <3>2 DEF WorkerTake
    <3>4. /\ Settled = Len(accepted) - Len(queue) - 0
          /\ Settled' = Len(accepted') - Len(queue') - Len(batch')
      BY <2>1 DEF Settled, WorkerTake
    <3>. QED BY <1>1, <3>1, <3>2, <3>3, <3>4
  <2>2. CASE ~WorkerTake
    BY <2>2 DEF Worker, WorkerWait, WorkerExit, WorkerBegin, WorkerExecute, WorkerReport,
                WorkerFinish, Settled, queueVars, histVars
  <2>. QED BY <2>1, <2>2
<1>. QED BY <1>1, <1>2 DEF Log!logVars

\* Callers of flush(), the destructor and wake-ups leave the log as it is.
LEMMA LogOthers ==
    ASSUME Inv, UNCHANGED vars \/ (\E f \in Callers : Flush(f)) \/ Destructor \/ SpuriousWake
    PROVE  UNCHANGED Log!logVars
<1>1. UNCHANGED <<queue, batch, accepted, db>>
  BY DEF vars, Flush, FlushBegin, FlushWait, FlushReturn, FlushLeave, Destructor, Destroy,
         StopWorker, Join, SpuriousWake, queueVars, workerVars, histVars
<1>2. InTransaction' <=> InTransaction
  BY DEF vars, Flush, FlushBegin, FlushWait, FlushReturn, FlushLeave, Destructor, Destroy,
         StopWorker, Join, SpuriousWake, workerVars, WakeWorker, InTransaction
<1>. QED BY <1>1, <1>2 DEF Log!logVars, Settled, InTransaction

\* Every step of the queue is a step of the log, or none.
LEMMA LogStep ==
    ASSUME Inv, TransactionInv, [Next]_vars
    PROVE  [Log!LogNext]_(Log!logVars)
<1>1. CASE Worker
  BY <1>1, LogSettle, LogWorker
<1>. QED BY <1>1, LogEnqueue, LogOthers DEF Next

\* The storage queue with its worker implements the durable log: for any
\* capacity, batch size and failures, accepted writes are settled in order,
\* each batch as a whole or not at all, and a reader never sees a part of one.
THEOREM QueueIsDurableLog == Spec => ImplementsLog
<1>1. Init => Log!LogInit
  <2>1. ASSUME Init PROVE Settled = 0
    <3>1. Len(accepted) = 0 /\ Len(queue) = 0 /\ worker = "check"
      BY <2>1 DEF Init
    <3>2. Settled = Len(accepted) - Len(queue) - 0
      BY <3>1 DEF Settled
    <3>. QED BY <3>1, <3>2
  <2>. QED BY <2>1, SameSchema DEF Init, Log!LogInit
<1>. QED BY <1>1, InvInit, InvStep, TransactionStep, LogStep, PTL
         DEF Spec, ImplementsLog, Log!LogSpec
=============================================================================
