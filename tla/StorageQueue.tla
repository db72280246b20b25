---------------------------- MODULE StorageQueue ----------------------------
(***************************************************************************)
(* SQLiteStorage::Impl (storage.cpp): a bounded queue of writes, a worker  *)
(* thread that takes them in batches and runs each batch as a transaction, *)
(* and callers that wait in flush() until everything is settled.  The      *)
(* condition variables queue_ready and drained are modelled by who waits   *)
(* on them: a waiter goes on only when it is notified, or spuriously, and  *)
(* then evaluates its condition again.                                     *)
(***************************************************************************)
EXTENDS StoreSchema, FiniteSets

CONSTANTS
    Writes,      \* the writes the server issues
    RoomIds, Nicks,
    MaxPending,  \* MAX_PENDING_WRITES
    MaxBatch,    \* 64, the writes of one transaction
    MaxCalls,    \* bound: calls of enqueue
    Flushers     \* threads that call flush()

ASSUME StorageAssumption ==
    /\ MaxPending \in Nat /\ MaxPending >= 1
    /\ MaxBatch \in Nat /\ MaxBatch >= 1
    /\ MaxCalls \in Nat

VARIABLES
    queue,       \* queue
    writing,     \* writing
    stopping,    \* stopping
    error,       \* error is not empty
    worker,      \* where the worker thread is
    batch,       \* the worker's batch
    tx,          \* the open transaction's view of the database
    done,        \* how many writes of the batch were executed
    db,          \* the committed database, what a reader sees
    flusher,     \* where each caller of flush() is
    destructor,  \* where ~Impl is
    calls,       \* history: calls of enqueue
    refused,     \* history: enqueue has returned false
    lost,        \* history: a batch has been rolled back
    accepted,    \* history: accepted writes, in order
    mark         \* history: Len(accepted) when a flush() began

queueVars  == <<queue, writing, stopping>>
workerVars == <<worker, batch, tx, done>>
histVars   == <<calls, refused, lost, accepted, mark>>
vars == <<queueVars, error, workerVars, db, flusher, destructor, histVars>>

\* ~Impl calls flush() like any other caller.
Destroyer == "destroyer"
Callers == Flushers \cup {Destroyer}

Init ==
    /\ queue = <<>> /\ writing = FALSE /\ stopping = FALSE
    /\ error = FALSE
    /\ worker = "check" /\ batch = <<>> /\ done = 0
    /\ db = EmptyDb(RoomIds, Nicks) /\ tx = EmptyDb(RoomIds, Nicks)
    /\ flusher = [f \in Callers |-> "out"]
    /\ destructor = "no"
    /\ calls = 0 /\ refused = FALSE /\ lost = FALSE
    /\ accepted = <<>>
    /\ mark = [f \in Callers |-> 0]

-----------------------------------------------------------------------------
\* queue_ready.notify_one: the worker is the only thread that waits on it.
WakeWorker == worker' = IF worker = "waiting" THEN "check" ELSE worker

\* drained.notify_all.
WakeFlushers ==
    flusher' = [f \in Callers |-> IF flusher[f] = "waiting" THEN "check" ELSE flusher[f]]

FullAfterLimit == Len(queue) > MaxPending                  \* mutant
Full == Len(queue) >= MaxPending

Enqueue(w) ==
    /\ destructor = "no" /\ calls < MaxCalls
    /\ calls' = calls + 1
    /\ IF stopping \/ Full
       THEN /\ error' = TRUE /\ refused' = TRUE
            /\ UNCHANGED <<queue, worker, accepted>>
       ELSE /\ queue' = Append(queue, w)
            /\ accepted' = Append(accepted, w)
            /\ WakeWorker
            /\ UNCHANGED <<error, refused>>
    /\ UNCHANGED <<writing, stopping, batch, tx, done, db, flusher,
                   destructor, lost, mark>>

-----------------------------------------------------------------------------
\* run(): wait for work, and take a batch under the lock.
WorkerWait ==
    /\ worker = "check" /\ ~stopping /\ queue = <<>>
    /\ worker' = "waiting"
    /\ UNCHANGED <<queueVars, error, batch, tx, done, db, flusher, destructor,
                   histVars>>

WorkerExit ==
    /\ worker = "check" /\ stopping /\ queue = <<>>
    /\ worker' = "exited"
    /\ UNCHANGED <<queueVars, error, batch, tx, done, db, flusher, destructor,
                   histVars>>

BatchSize == IF Len(queue) < MaxBatch THEN Len(queue) ELSE MaxBatch

\* Mutant: the batch is taken before writing is set.
WorkerTakeUnmarked ==
    /\ worker = "check" /\ queue # <<>>
    /\ batch' = SubSeq(queue, 1, BatchSize)
    /\ queue' = SubSeq(queue, BatchSize + 1, Len(queue))
    /\ worker' = "begin"
    /\ UNCHANGED <<writing, stopping, error, tx, done, db, flusher, destructor,
                   histVars>>

WorkerTake ==
    /\ worker = "check" /\ queue # <<>>
    /\ writing' = TRUE
    /\ batch' = SubSeq(queue, 1, BatchSize)
    /\ queue' = SubSeq(queue, BatchSize + 1, Len(queue))
    /\ worker' = "begin"
    /\ UNCHANGED <<stopping, error, tx, done, db, flusher, destructor,
                   histVars>>

WorkerBegin ==
    /\ worker = "begin"
    /\ worker' = "execute"
    /\ tx' = db /\ done' = 0
    /\ UNCHANGED <<queueVars, error, batch, db, flusher, destructor, histVars>>

NextWrite == batch[done + 1]

\* Mutant: the writes go to the database as they are executed.
WorkerExecuteInPlace ==
    /\ worker = "execute" /\ done < Len(batch)
    /\ ~Refuses(tx, NextWrite)
    /\ tx' = Apply(tx, NextWrite)
    /\ db' = tx'
    /\ done' = done + 1
    /\ UNCHANGED <<queueVars, error, worker, batch, flusher, destructor,
                   histVars>>

WorkerExecute ==
    /\ worker = "execute" /\ done < Len(batch)
    /\ ~Refuses(tx, NextWrite)
    /\ tx' = Apply(tx, NextWrite)
    /\ done' = done + 1
    /\ UNCHANGED <<queueVars, error, worker, batch, db, flusher, destructor,
                   histVars>>

WorkerCommit ==
    /\ worker = "execute" /\ done = Len(batch)
    /\ db' = tx
    /\ worker' = "finish"
    /\ UNCHANGED <<queueVars, error, batch, tx, done, flusher, destructor,
                   histVars>>

\* A statement throws: BEGIN on a busy database, a write the schema refuses or
\* the disk cannot take, COMMIT.  The catch block rolls back.
WorkerRollback ==
    /\ worker \in {"begin", "execute"}
    /\ worker' = "report"
    /\ lost' = TRUE
    /\ UNCHANGED <<queueVars, error, batch, tx, done, db, flusher, destructor,
                   calls, refused, accepted, mark>>

\* Mutant: the catch block does not record the error.
WorkerReportNothing ==
    /\ worker = "report"
    /\ worker' = "finish"
    /\ UNCHANGED <<queueVars, error, batch, tx, done, db, flusher, destructor,
                   histVars>>

\* set_error, which takes the lock again.
WorkerReport ==
    /\ worker = "report"
    /\ error' = TRUE
    /\ worker' = "finish"
    /\ UNCHANGED <<queueVars, batch, tx, done, db, flusher, destructor, histVars>>

\* Mutant: the waiters are notified only when the batch was committed.
WorkerFinishAfterCommit ==
    /\ worker = "finish"
    /\ worker' = "check"
    /\ writing' = FALSE
    /\ batch' = <<>>
    /\ IF queue = <<>> /\ ~lost THEN WakeFlushers ELSE UNCHANGED flusher
    /\ UNCHANGED <<queue, stopping, error, tx, done, db, destructor, histVars>>

WorkerFinish ==
    /\ worker = "finish"
    /\ worker' = "check"
    /\ writing' = FALSE
    /\ batch' = <<>>
    /\ IF queue = <<>> THEN WakeFlushers ELSE UNCHANGED flusher
    /\ UNCHANGED <<queue, stopping, error, tx, done, db, destructor, histVars>>

-----------------------------------------------------------------------------
\* flush(): drained.wait(lock, queue.empty() && !writing).
Drained == queue = <<>> /\ ~writing

FlushBegin(f) ==
    /\ flusher[f] = "out" /\ f \in Flushers /\ destructor = "no"
    /\ flusher' = [flusher EXCEPT ![f] = "check"]
    /\ mark' = [mark EXCEPT ![f] = Len(accepted)]
    /\ UNCHANGED <<queueVars, error, workerVars, db, destructor, calls,
                   refused, lost, accepted>>

FlushWait(f) ==
    /\ flusher[f] = "check" /\ ~Drained
    /\ flusher' = [flusher EXCEPT ![f] = "waiting"]
    /\ UNCHANGED <<queueVars, error, workerVars, db, destructor, histVars>>

FlushReturn(f) ==
    /\ flusher[f] = "check" /\ Drained
    /\ flusher' = [flusher EXCEPT ![f] = "returned"]
    /\ UNCHANGED <<queueVars, error, workerVars, db, destructor, histVars>>

FlushLeave(f) ==
    /\ flusher[f] = "returned" /\ f \in Flushers
    /\ flusher' = [flusher EXCEPT ![f] = "out"]
    /\ UNCHANGED <<queueVars, error, workerVars, db, destructor, histVars>>

-----------------------------------------------------------------------------
\* ~Impl, run by the last owner when no other call is in progress.
Destroy ==
    /\ destructor = "no" /\ \A f \in Flushers : flusher[f] = "out"
    /\ destructor' = "flushing"
    /\ flusher' = [flusher EXCEPT ![Destroyer] = "check"]
    /\ mark' = [mark EXCEPT ![Destroyer] = Len(accepted)]
    /\ UNCHANGED <<queueVars, error, workerVars, db, calls, refused, lost,
                   accepted>>

\* Mutant: the worker is told to stop and not notified.
StopWorkerSilently ==
    /\ destructor = "flushing" /\ flusher[Destroyer] = "returned"
    /\ destructor' = "joining"
    /\ stopping' = TRUE
    /\ UNCHANGED <<queue, writing, error, worker, batch, tx, done, db, flusher,
                   histVars>>

StopWorker ==
    /\ destructor = "flushing" /\ flusher[Destroyer] = "returned"
    /\ destructor' = "joining"
    /\ stopping' = TRUE
    /\ WakeWorker
    /\ UNCHANGED <<queue, writing, error, batch, tx, done, db, flusher,
                   histVars>>

Join ==
    /\ destructor = "joining" /\ worker = "exited"
    /\ destructor' = "done"
    /\ UNCHANGED <<queueVars, error, workerVars, db, flusher, histVars>>

\* A condition variable may wake a waiter without a notification.
SpuriousWake ==
    /\ \/ worker = "waiting" /\ WakeWorker /\ UNCHANGED flusher
       \/ /\ \E f \in Callers : /\ flusher[f] = "waiting"
                                /\ flusher' = [flusher EXCEPT ![f] = "check"]
          /\ UNCHANGED worker
    /\ UNCHANGED <<queueVars, error, batch, tx, done, db, destructor, histVars>>

-----------------------------------------------------------------------------
Worker ==
    \/ WorkerWait \/ WorkerExit \/ WorkerTake \/ WorkerBegin \/ WorkerExecute
    \/ WorkerCommit \/ WorkerRollback \/ WorkerReport \/ WorkerFinish

Flush(f) == FlushBegin(f) \/ FlushWait(f) \/ FlushReturn(f) \/ FlushLeave(f)

Destructor == Destroy \/ StopWorker \/ Join

Next ==
    \/ \E w \in Writes : Enqueue(w)
    \/ Worker
    \/ \E f \in Callers : Flush(f)
    \/ Destructor
    \/ SpuriousWake

Spec == Init /\ [][Next]_vars

\* Threads that can run do; nothing is assumed of spurious wake-ups.
Fairness ==
    /\ WF_vars(Worker)
    /\ \A f \in Callers : WF_vars(FlushWait(f) \/ FlushReturn(f))
    /\ WF_vars(StopWorker \/ Join)

FairSpec == Spec /\ Fairness

-----------------------------------------------------------------------------
(***************************************************************************)
(* Properties.                                                             *)
(***************************************************************************)

\* Every variable has its type, and the queue stays within its limit.
TypeOK ==
    /\ queue \in Seq(Writes) /\ Len(queue) <= MaxPending
    /\ writing \in BOOLEAN /\ stopping \in BOOLEAN /\ error \in BOOLEAN
    /\ worker \in {"check", "waiting", "begin", "execute", "report", "finish",
                   "exited"}
    /\ batch \in Seq(Writes) /\ Len(batch) <= MaxBatch
    /\ done \in Nat /\ done <= MaxBatch
    /\ flusher \in [Callers -> {"out", "check", "waiting", "returned"}]
    /\ destructor \in {"no", "flushing", "joining", "done"}
    /\ calls \in Nat /\ refused \in BOOLEAN /\ lost \in BOOLEAN
    /\ accepted \in Seq(Writes)
    /\ mark \in [Callers -> Nat]

\* How many accepted writes are committed or rolled back: all but those in the
\* queue and in a batch whose transaction has not ended.
Settled ==
    Len(accepted) - Len(queue)
        - (IF worker \in {"begin", "execute"} THEN Len(batch) ELSE 0)

\* The queue with its worker is a durable log: accepted writes are settled in
\* order, each batch as a whole, and no reader sees a part of a batch.
Log == INSTANCE DurableLog WITH settled <- Settled
ImplementsLog == Log!LogSpec

\* When flush() returns, every write accepted before the call is committed or
\* rolled back: none is still in the queue or in the worker's batch.
FlushSettles ==
    \A f \in Callers : flusher[f] = "returned" => Settled >= mark[f]

\* A write that the queue refused or that was rolled back leaves an error
\* behind: no caller looks at enqueue's result, so this is its only trace.
NoSilentLoss ==
    refused \/ (lost /\ worker # "report") => error

\* A call of flush() returns: the worker's last batch notifies it.
FlushReturns ==
    \A f \in Flushers : flusher[f] = "check" ~> flusher[f] = "returned"

\* The destructor returns: its flush ends and the worker exits when told to.
DestructorReturns == destructor = "flushing" ~> destructor = "done"
=============================================================================
