--------------------------- MODULE SessionWriter ----------------------------
(***************************************************************************)
(* The outgoing side of ClientSession (client_session.cpp): deliver, close *)
(* and abort may be called by any thread and only post a handler to the    *)
(* session's executor; the handlers, run one at a time, keep write_queue_  *)
(* and at most one asynchronous write.  The read loop is reduced to the    *)
(* failure of its pending read.                                            *)
(***************************************************************************)
EXTENDS Naturals, Sequences

CONSTANTS
    Frames,      \* encoded server messages
    MaxGiven,    \* bound: calls of deliver
    MaxCloses,   \* bound: calls of close
    NotAsked     \* no close() yet

ASSUME WriterAssumption ==
    MaxGiven \in Nat /\ MaxCloses \in Nat /\ NotAsked \notin Nat

VARIABLES
    posted,      \* handlers posted to the executor and not yet run
    queue,       \* write_queue_
    pending,     \* number of async_write calls that have not completed
    outcome,     \* completion waiting for its handler: "none", "sent", "error"
    afterWrite,  \* close_after_write_
    suppress,    \* suppress_leave_notice_
    stream,      \* "open", "closed" by close(), "cut" by abort()
    leave,       \* the read loop's end: "none", "announced", "silent"
    stalled,     \* the peer has stopped reading
    closes,      \* history: calls of close()
    aborted,     \* history: abort() was called
    failed,      \* history: a write has failed
    given,       \* history: frames of deliver, in the order of the calls
    wire,        \* history: frames written completely
    due          \* history: Len(given) at the first close()

vars == <<posted, queue, pending, outcome, afterWrite, suppress, stream,
          leave, stalled, closes, aborted, failed, given, wire, due>>

Jobs == [job : {"deliver"}, frame : Frames] \cup [job : {"close", "abort"}]

Init ==
    /\ posted = <<>> /\ queue = <<>>
    /\ pending = 0 /\ outcome = "none"
    /\ afterWrite = FALSE /\ suppress = FALSE
    /\ stream = "open" /\ leave = "none" /\ stalled = FALSE
    /\ closes = 0 /\ aborted = FALSE /\ failed = FALSE
    /\ given = <<>> /\ wire = <<>> /\ due = NotAsked

-----------------------------------------------------------------------------
\* Calls, by handlers of the io thread or by the console thread.  A message
\* that encode_server_frame refuses is not posted: there is no frame.
Deliver(f) ==
    /\ Len(given) < MaxGiven
    /\ posted' = Append(posted, [job |-> "deliver", frame |-> f])
    /\ given' = Append(given, f)
    /\ UNCHANGED <<stalled, closes, queue, pending, outcome, afterWrite, suppress, stream,
                   leave, aborted, failed, wire, due>>

\* A kicked session may be refused as well, so that close() comes twice.
Close ==
    /\ closes < MaxCloses
    /\ posted' = Append(posted, [job |-> "close"])
    /\ closes' = closes + 1
    /\ due' = IF due = NotAsked THEN Len(given) ELSE due
    /\ UNCHANGED <<stalled, queue, pending, outcome, afterWrite, suppress, stream,
                   leave, aborted, failed, given, wire>>

Abort ==
    /\ ~aborted
    /\ posted' = Append(posted, [job |-> "abort"])
    /\ aborted' = TRUE
    /\ UNCHANGED <<stalled, closes, queue, pending, outcome, afterWrite, suppress, stream,
                   leave, failed, given, wire, due>>

-----------------------------------------------------------------------------
\* Handlers, in the order in which they were posted.
NextJob(j) == posted # <<>> /\ Head(posted).job = j

EveryDeliver == TRUE              \* mutant
StartsWrite == queue = <<>>       \* no write is in progress

RunDeliver ==
    /\ NextJob("deliver")
    /\ posted' = Tail(posted)
    /\ queue' = Append(queue, Head(posted).frame)
    /\ pending' = IF StartsWrite THEN pending + 1 ELSE pending
    /\ UNCHANGED <<stalled, closes, outcome, afterWrite, suppress, stream, leave, aborted,
                   failed, given, wire, due>>

NeverDrains == FALSE              \* mutant
MustDrain == queue # <<>>         \* close() waits for what is queued

\* Mutant: the notice is suppressed only when nothing is queued.
RunCloseSuppressLate ==
    /\ NextJob("close")
    /\ posted' = Tail(posted)
    /\ IF queue # <<>>
       THEN afterWrite' = TRUE /\ UNCHANGED <<stream, suppress>>
       ELSE /\ stream' = IF stream = "open" THEN "closed" ELSE stream
            /\ suppress' = TRUE
            /\ UNCHANGED afterWrite
    /\ UNCHANGED <<stalled, closes, queue, pending, outcome, leave, aborted, failed,
                   given, wire, due>>

RunClose ==
    /\ NextJob("close")
    /\ posted' = Tail(posted)
    /\ suppress' = TRUE
    /\ IF MustDrain
       THEN afterWrite' = TRUE /\ UNCHANGED stream
       ELSE /\ stream' = IF stream = "open" THEN "closed" ELSE stream
            /\ UNCHANGED afterWrite
    /\ UNCHANGED <<stalled, closes, queue, pending, outcome, leave, aborted, failed, given,
                   wire, due>>

RunAbort ==
    /\ NextJob("abort")
    /\ posted' = Tail(posted)
    /\ suppress' = TRUE
    /\ stream' = IF stream = "open" THEN "cut" ELSE stream
    /\ UNCHANGED <<stalled, closes, queue, pending, outcome, afterWrite, leave, aborted,
                   failed, given, wire, due>>

(***************************************************************************)
(* write_next: the transport takes the front frame or fails; the           *)
(* completion handler runs later, possibly after an abort.                 *)
(***************************************************************************)
WriteSent ==
    /\ pending > 0 /\ outcome = "none" /\ stream = "open"
    /\ pending' = pending - 1
    /\ outcome' = "sent"
    /\ wire' = Append(wire, Head(queue))
    /\ UNCHANGED <<stalled, closes, posted, queue, afterWrite, suppress, stream, leave,
                   aborted, failed, given, due>>

\* The peer is gone, or the stream was closed under the write.
WriteFailed ==
    /\ pending > 0 /\ outcome = "none"
    /\ pending' = pending - 1
    /\ outcome' = "error"
    /\ failed' = TRUE
    /\ UNCHANGED <<stalled, closes, posted, queue, afterWrite, suppress, stream, leave,
                   aborted, given, wire, due>>

\* Mutant: the front is popped before the error is looked at.
HandleErrorPops ==
    /\ outcome = "error"
    /\ outcome' = "none"
    /\ queue' = Tail(queue)
    /\ UNCHANGED <<stalled, closes, posted, pending, afterWrite, suppress, stream, leave,
                   aborted, failed, given, wire, due>>

\* The handler of a failed write returns and leaves the queue as it is.
HandleError ==
    /\ outcome = "error"
    /\ outcome' = "none"
    /\ UNCHANGED <<stalled, closes, posted, queue, pending, afterWrite, suppress, stream,
                   leave, aborted, failed, given, wire, due>>

CloseForgotten == FALSE           \* mutant
CloseIsDue == afterWrite          \* asked of the drained queue

HandleSent ==
    /\ outcome = "sent"
    /\ outcome' = "none"
    /\ queue' = Tail(queue)
    /\ IF Tail(queue) # <<>>
       THEN pending' = pending + 1 /\ UNCHANGED stream
       ELSE /\ stream' = IF CloseIsDue /\ stream = "open" THEN "closed" ELSE stream
            /\ UNCHANGED pending
    /\ UNCHANGED <<stalled, closes, posted, afterWrite, suppress, leave, aborted, failed,
                   given, wire, due>>

\* The peer stops reading and keeps the connection: what is written now stays
\* in the buffers between the two, and then writes wait without a limit.
PeerStalls ==
    /\ ~stalled /\ stalled' = TRUE
    /\ UNCHANGED <<closes, posted, queue, pending, outcome, afterWrite, suppress,
                   stream, leave, aborted, failed, given, wire, due>>

\* The pending read fails: disconnect(self, !suppress_leave_notice_).
ReadFails ==
    /\ leave = "none"
    /\ leave' = IF suppress THEN "silent" ELSE "announced"
    /\ UNCHANGED <<stalled, closes, posted, queue, pending, outcome, afterWrite, suppress,
                   stream, aborted, failed, given, wire, due>>

Handlers == RunDeliver \/ RunClose \/ RunAbort \/ HandleSent \/ HandleError

Next ==
    \/ \E f \in Frames : Deliver(f)
    \/ Close \/ Abort
    \/ Handlers
    \/ WriteSent \/ WriteFailed \/ ReadFails \/ PeerStalls

Spec == Init /\ [][Next]_vars

\* The executor runs posted handlers and completions; a write to a peer that
\* keeps reading completes, one to a peer that does not may never, as it has no
\* deadline; a write or read on a stream that was shut down fails.
Fairness ==
    /\ WF_vars(Handlers)
    /\ WF_vars(~stalled /\ (WriteSent \/ WriteFailed))
    /\ WF_vars(stream # "open" /\ WriteFailed)
    /\ WF_vars(stream # "open" /\ ReadFails)

FairSpec == Spec /\ Fairness

-----------------------------------------------------------------------------
(***************************************************************************)
(* Properties.                                                             *)
(***************************************************************************)

\* Every variable has its type, and a close() that waits has a frame to wait for
\* until the stream is shut down: the handler of a failed write leaves its
\* frame in write_queue_.
TypeOK ==
    /\ posted \in Seq(Jobs) /\ queue \in Seq(Frames)
    /\ pending \in Nat /\ outcome \in {"none", "sent", "error"}
    /\ afterWrite \in BOOLEAN /\ suppress \in BOOLEAN
    /\ stream \in {"open", "closed", "cut"}
    /\ leave \in {"none", "announced", "silent"}
    /\ closes \in Nat /\ aborted \in BOOLEAN /\ failed \in BOOLEAN
    /\ given \in Seq(Frames) /\ wire \in Seq(Frames)
    /\ due \in Nat \cup {NotAsked} /\ stalled \in BOOLEAN
    /\ afterWrite => queue # <<>> \/ stream # "open"

\* At most one asynchronous write is outstanding, which the stream requires:
\* write_next is started by the first frame and then only by its own handler,
\* and never again after a write has failed.
OneWriteAtATime ==
    /\ pending + (IF outcome = "none" THEN 0 ELSE 1) <= 1
    /\ failed => pending = 0

\* Frames reach the wire in the order of the deliver calls, and a stream that
\* close() shut down has carried every frame given before close(): the Kick or
\* the reason of a refusal is never lost to the close that follows it.
Channel == INSTANCE OrderedChannel
ImplementsChannel == Channel!ChSpec

\* A stream that the server itself shut down never ends in a leave notice,
\* also when close() had to wait for queued frames.
ServerCloseIsSilent ==
    [][leave = "none" /\ leave' = "announced" => stream = "open"]_vars

\* close() takes effect unless a write has failed or the peer has stopped
\* reading: write_next has no deadline, so that such a peer keeps a stream open
\* that has frames to drain.  abort() takes effect in any case.
CloseCompletes ==
    /\ due # NotAsked ~> stream # "open" \/ failed \/ stalled
    /\ aborted ~> stream # "open"
=============================================================================
