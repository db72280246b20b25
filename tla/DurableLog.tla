----------------------------- MODULE DurableLog -----------------------------
(***************************************************************************)
(* What SQLiteStorage promises: writes are settled in the order in which   *)
(* they were accepted, in blocks; a block is applied as a whole, when the  *)
(* schema accepts each of its writes, or not at all.  A reader sees the    *)
(* database between blocks.                                                *)
(***************************************************************************)
EXTENDS StoreSchema

CONSTANTS Writes, MaxBatch, RoomIds, Nicks

VARIABLES
    accepted,   \* every write that was accepted, in order
    settled,    \* how many of them are applied or discarded
    db          \* what a reader sees

logVars == <<accepted, settled, db>>

LogInit ==
    /\ accepted = <<>> /\ settled = 0
    /\ db = EmptyDb(RoomIds, Nicks)

AcceptWrite(w) ==
    /\ accepted' = Append(accepted, w)
    /\ UNCHANGED <<settled, db>>

Block(n) == SubSeq(accepted, settled + 1, settled + n)

\* The databases that a block goes through: Run(n)[i] is the one after its
\* first i writes.
Run(n) ==
    LET run[i \in 0 .. n] == IF i = 0 THEN db ELSE Apply(run[i - 1], Block(n)[i])
    IN  run

Applicable(n) == \A i \in 1 .. n : ~Refuses(Run(n)[i - 1], Block(n)[i])

Settle(n) ==
    /\ settled + n <= Len(accepted)
    /\ settled' = settled + n
    /\ \/ Applicable(n) /\ db' = Run(n)[n]
       \/ db' = db
    /\ UNCHANGED accepted

LogNext == (\E w \in Writes : AcceptWrite(w)) \/ (\E n \in 1 .. MaxBatch : Settle(n))

LogSpec == LogInit /\ [][LogNext]_logVars
=============================================================================
