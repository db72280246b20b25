------------------------ MODULE SessionWriterProofs -------------------------
(***************************************************************************)
(* The outgoing side of a session for any number of deliver, close and     *)
(* abort calls: its types, that it never has two writes outstanding, that  *)
(* a stream the server shut down ends silently, and that it implements the *)
(* ordered channel of OrderedChannel.                                      *)
(***************************************************************************)
EXTENDS SessionWriter, TLAPS

\* write_queue_ is not empty exactly while a write is outstanding or its
\* handler has yet to run, or for ever after a write has failed.
WriterInv ==
    /\ pending \in {0, 1}
    /\ outcome # "none" => pending = 0
    /\ outcome = "error" => failed
    /\ failed => pending = 0 /\ outcome # "sent" /\ queue # <<>>
    /\ ~failed => (queue # <<>> <=> pending = 1 \/ outcome = "sent")

Inv == TypeOK /\ WriterInv

\* The jobs that calls post.
LEMMA JobTypes ==
    /\ \A f \in Frames : [job |-> "deliver", frame |-> f] \in Jobs
    /\ [job |-> "close"] \in Jobs /\ [job |-> "abort"] \in Jobs
    /\ \A j \in Jobs : j.job = "deliver" => j.frame \in Frames
BY DEF Jobs

\* The first state satisfies Inv.
LEMMA InvInit ==
    ASSUME Init
    PROVE  Inv
<1>1. TypeOK
  <2>1. posted \in Seq(Jobs) /\ queue \in Seq(Frames)
    BY DEF Init
  <2>2. given \in Seq(Frames) /\ wire \in Seq(Frames)
    BY DEF Init
  <2>3. afterWrite \in BOOLEAN /\ suppress \in BOOLEAN /\ aborted \in BOOLEAN
        /\ failed \in BOOLEAN
    BY DEF Init
  <2>4. due \in Nat \cup {NotAsked}
    BY DEF Init
  <2>. QED BY <2>1, <2>2, <2>3, <2>4 DEF Init, TypeOK
<1>2. WriterInv
  BY DEF Init, WriterInv
<1>. QED BY <1>1, <1>2 DEF Inv

\* Calls and the end of the read loop do not touch the writer.
LEMMA InvCalls ==
    ASSUME Inv, (\E f \in Frames : Deliver(f)) \/ Close \/ Abort \/ ReadFails \/ PeerStalls
    PROVE  Inv'
<1>1. ASSUME NEW f \in Frames, Deliver(f) PROVE Inv'
  BY <1>1, JobTypes DEF Deliver, Inv, TypeOK, WriterInv
<1>2. CASE Close
  BY <1>2, JobTypes, WriterAssumption DEF Close, Inv, TypeOK, WriterInv
<1>3. CASE Abort
  BY <1>3, JobTypes DEF Abort, Inv, TypeOK, WriterInv
<1>4. CASE ReadFails
  BY <1>4 DEF ReadFails, Inv, TypeOK, WriterInv
<1>5. CASE PeerStalls
  BY <1>5 DEF PeerStalls, Inv, TypeOK, WriterInv
<1>. QED BY <1>1, <1>2, <1>3, <1>4, <1>5

\* The handlers and the transport.
LEMMA InvHandlers ==
    ASSUME Inv, Handlers \/ WriteSent \/ WriteFailed
    PROVE  Inv'
<1>1. CASE RunDeliver
  <2>1. Head(posted) \in Jobs /\ Tail(posted) \in Seq(Jobs)
    BY <1>1 DEF RunDeliver, NextJob, Inv, TypeOK
  <2>2. Head(posted).frame \in Frames
    BY <1>1, <2>1, JobTypes DEF RunDeliver, NextJob
  <2>3. queue' \in Seq(Frames) /\ queue' # <<>>
    BY <1>1, <2>2 DEF RunDeliver, Inv, TypeOK
  <2>. QED BY <1>1, <2>1, <2>3
           DEF RunDeliver, StartsWrite, Inv, TypeOK, WriterInv
<1>2. CASE RunClose
  <2>1. Tail(posted) \in Seq(Jobs)
    BY <1>2 DEF RunClose, NextJob, Inv, TypeOK
  <2>. QED BY <1>2, <2>1 DEF RunClose, MustDrain, Inv, TypeOK, WriterInv
<1>3. CASE RunAbort
  <2>1. Tail(posted) \in Seq(Jobs)
    BY <1>3 DEF RunAbort, NextJob, Inv, TypeOK
  <2>. QED BY <1>3, <2>1 DEF RunAbort, Inv, TypeOK, WriterInv
<1>4. CASE HandleSent
  <2>1. queue # <<>> /\ ~failed
    BY <1>4 DEF HandleSent, Inv, WriterInv
  <2>2. Tail(queue) \in Seq(Frames)
    BY <2>1 DEF Inv, TypeOK
  <2>. QED BY <1>4, <2>1, <2>2 DEF HandleSent, CloseIsDue, Inv, TypeOK, WriterInv
<1>5. CASE HandleError
  BY <1>5 DEF HandleError, Inv, TypeOK, WriterInv
<1>6. CASE WriteSent
  <2>1. queue # <<>> /\ ~failed /\ pending = 1
    BY <1>6 DEF WriteSent, Inv, TypeOK, WriterInv
  <2>2. wire' \in Seq(Frames)
    BY <1>6, <2>1 DEF WriteSent, Inv, TypeOK
  <2>. QED BY <1>6, <2>1, <2>2 DEF WriteSent, Inv, TypeOK, WriterInv
<1>7. CASE WriteFailed
  <2>1. queue # <<>> /\ pending = 1
    BY <1>7 DEF WriteFailed, Inv, TypeOK, WriterInv
  <2>. QED BY <1>7, <2>1 DEF WriteFailed, Inv, TypeOK, WriterInv
<1>. QED BY <1>1, <1>2, <1>3, <1>4, <1>5, <1>6, <1>7 DEF Handlers

\* Every step keeps Inv.
LEMMA InvStep ==
    ASSUME Inv, [Next]_vars
    PROVE  Inv'
<1>1. CASE UNCHANGED vars
  BY <1>1 DEF vars, Inv, TypeOK, WriterInv
<1>. QED BY <1>1, InvCalls, InvHandlers DEF Next

\* The state of a session's outgoing side is well typed, and a close() that
\* waits never waits for an empty queue.
THEOREM WriterTypeCorrect == Spec => []TypeOK
<1>1. Inv => TypeOK
  BY DEF Inv
<1>. QED BY <1>1, InvInit, InvStep, PTL DEF Spec

\* write_next never starts a write while another is outstanding, and starts
\* none after one has failed, whatever the calls and however they are ordered.
THEOREM WriterIsExclusive == Spec => []OneWriteAtATime
<1>1. Inv => OneWriteAtATime
  BY DEF Inv, TypeOK, WriterInv, OneWriteAtATime
<1>. QED BY <1>1, InvInit, InvStep, PTL DEF Spec

-----------------------------------------------------------------------------
\* A stream is shut down only by a handler that suppresses the leave notice,
\* or by one that such a handler has left the shutting down to.
SilentInv == stream # "open" \/ afterWrite => suppress

\* Once the server has shut a stream down, the end of its read loop announces
\* nothing, even when close() had to wait for the frames before it.
THEOREM ServerClosesSilently == Spec => ServerCloseIsSilent
<1>1. Init => SilentInv
  BY DEF Init, SilentInv
<1>2. ASSUME SilentInv, [Next]_vars PROVE SilentInv'
  <2>1. CASE UNCHANGED vars
    BY <1>2, <2>1 DEF vars, SilentInv
  <2>2. CASE (\E f \in Frames : Deliver(f)) \/ Close \/ Abort \/ ReadFails \/ PeerStalls
    BY <1>2, <2>2 DEF Deliver, Close, Abort, ReadFails, PeerStalls, SilentInv
  <2>3. CASE Handlers
    BY <1>2, <2>3 DEF Handlers, RunDeliver, RunClose, RunAbort, HandleSent, HandleError,
                      CloseIsDue, SilentInv
  <2>4. CASE WriteSent \/ WriteFailed
    BY <1>2, <2>4 DEF WriteSent, WriteFailed, SilentInv
  <2>. QED BY <1>2, <2>1, <2>2, <2>3, <2>4 DEF Next
<1>3. ASSUME SilentInv, [Next]_vars
      PROVE  [leave = "none" /\ leave' = "announced" => stream = "open"]_vars
  <2>1. CASE ReadFails
    BY <1>3, <2>1 DEF ReadFails, SilentInv
  <2>2. CASE ~ReadFails
    BY <1>3, <2>2 DEF Next, Deliver, Close, Abort, Handlers, RunDeliver, RunClose, RunAbort,
                      HandleSent, HandleError, WriteSent, WriteFailed, PeerStalls
  <2>. QED BY <2>1, <2>2
<1>. QED BY <1>1, <1>2, <1>3, PTL DEF Spec, ServerCloseIsSilent

-----------------------------------------------------------------------------
(***************************************************************************)
(* The refinement of OrderedChannel.                                       *)
(***************************************************************************)
\* How many frames the deliver handlers have put into write_queue_.
Handled == Len(wire) + Len(queue) - (IF outcome = "sent" THEN 1 ELSE 0)

\* c[i] is how many of the frames g the deliver handlers have taken when the
\* first i of the handlers p have run, h of them before; u is due.
IsCount(c, p, g, h, u) ==
    /\ c \in [0 .. Len(p) -> 0 .. Len(g)]
    /\ c[0] = h /\ c[Len(p)] = Len(g)
    /\ \A i \in 1 .. Len(p) :
          /\ p[i].job = "deliver" => c[i] = c[i - 1] + 1 /\ p[i].frame = g[c[i]]
          /\ p[i].job # "deliver" => c[i] = c[i - 1]
          /\ p[i].job = "close" => u # NotAsked /\ u <= c[i]

\* The posted handlers are about the frames that are not handled yet, in order,
\* and a close handler comes after every frame given before the first close().
PostedInv == \E c : IsCount(c, posted, given, Handled, due)

\* write_queue_ is the end of what was handled, in order; a close that waits
\* for it has waited for the frames before the first close().
QueueInv ==
    /\ Len(queue) <= Handled
    /\ \A i \in 1 .. Len(queue) : queue[i] = given[Handled - Len(queue) + i]
    /\ afterWrite => due # NotAsked /\ due <= Handled
    /\ due # NotAsked => due <= Len(given)

ChannelInv == PostedInv /\ QueueInv

\* A call posts its handler behind the others.
LEMMA PushCount ==
    ASSUME NEW p \in Seq(Jobs), NEW g \in Seq(Frames), NEW e \in Seq(Frames), NEW j \in Jobs,
           NEW c, NEW h, NEW u, NEW v, IsCount(c, p, g, h, u),
           \/ j.job = "deliver" /\ e = Append(g, j.frame)
           \/ j.job # "deliver" /\ e = g,
           j.job = "close" => v # NotAsked /\ v <= Len(e),
           u # NotAsked => v = u
    PROVE  \E d : IsCount(d, Append(p, j), e, h, v)
<1>. DEFINE n == Len(p)
            q == Append(p, j)
            d == [i \in 0 .. n + 1 |-> IF i = n + 1 THEN Len(e) ELSE c[i]]
<1>1. /\ n \in Nat /\ Len(g) \in Nat /\ Len(e) \in Nat /\ Len(g) <= Len(e)
      /\ j.job = "deliver" => Len(e) = Len(g) + 1
      /\ j.job # "deliver" => Len(e) = Len(g)
  OBVIOUS
<1>2. Len(q) = n + 1 /\ q[n + 1] = j /\ \A i \in 1 .. n : q[i] = p[i]
  OBVIOUS
<1>3. \A i \in 1 .. Len(g) : e[i] = g[i]
  OBVIOUS
<1>4. j.job = "deliver" => e[Len(e)] = j.frame
  OBVIOUS
<1>5. c \in [0 .. n -> 0 .. Len(g)] /\ c[0] = h /\ c[n] = Len(g)
  BY DEF IsCount
<1>6. /\ \A i \in 0 .. n : d[i] = c[i] /\ d[i] \in 0 .. Len(g)
      /\ d[n + 1] = Len(e)
  <2>1. ASSUME NEW i \in 0 .. n PROVE d[i] = c[i]
    <3>1. i \in 0 .. n + 1 /\ i # n + 1
      BY <1>1
    <3>. QED BY <3>1
  <2>2. n + 1 \in 0 .. n + 1
    BY <1>1
  <2>. HIDE DEF n
  <2>. QED BY <1>5, <2>1, <2>2
<1>7. d \in [0 .. Len(q) -> 0 .. Len(e)] /\ d[0] = h /\ d[Len(q)] = Len(e)
  BY <1>1, <1>2, <1>5
<1>8. ASSUME NEW i \in 1 .. Len(q)
      PROVE  /\ q[i].job = "deliver" => d[i] = d[i - 1] + 1 /\ q[i].frame = e[d[i]]
             /\ q[i].job # "deliver" => d[i] = d[i - 1]
             /\ q[i].job = "close" => v # NotAsked /\ v <= d[i]
  <2>. HIDE DEF d, q, n
  <2>1. CASE i = n + 1
    <3>1. i - 1 = n /\ n \in 0 .. n
      BY <1>1, <2>1
    <3>2. d[i] = Len(e) /\ d[i - 1] = Len(g) /\ q[i] = j
      BY <1>2, <1>5, <1>6, <2>1, <3>1
    <3>. QED BY <1>1, <1>4, <3>2
  <2>2. CASE i # n + 1
    <3>1. i \in 1 .. n /\ i \in 0 .. n /\ i - 1 \in 0 .. n
      BY <1>1, <1>2, <2>2
    <3>2. d[i] = c[i] /\ d[i - 1] = c[i - 1] /\ q[i] = p[i]
      BY <1>2, <1>6, <3>1
    <3>3. /\ p[i].job = "deliver" => c[i] = c[i - 1] + 1 /\ p[i].frame = g[c[i]]
          /\ p[i].job # "deliver" => c[i] = c[i - 1]
          /\ p[i].job = "close" => u # NotAsked /\ u <= c[i]
      BY <3>1 DEF IsCount, n
    <3>4. c[i - 1] \in 0 .. Len(g) /\ c[i] \in 0 .. Len(g)
      BY <1>5, <3>1
    <3>5. p[i].job = "deliver" => c[i] \in 1 .. Len(g)
      BY <1>1, <3>3, <3>4
    <3>. QED BY <1>3, <3>2, <3>3, <3>5
  <2>. QED BY <2>1, <2>2
<1>9. IsCount(d, q, e, h, v)
  <2>. HIDE DEF d, q, n
  <2>. QED BY <1>7, <1>8 DEF IsCount
<1>. QED BY <1>9

\* The first of the posted handlers runs.
LEMMA PopCount ==
    ASSUME NEW p \in Seq(Jobs), NEW g \in Seq(Frames), NEW c, NEW h, NEW u,
           IsCount(c, p, g, h, u), p # <<>>
    PROVE  /\ \E d : IsCount(d, Tail(p), g, c[1], u)
           /\ c[1] \in 0 .. Len(g) /\ h \in 0 .. Len(g)
           /\ Head(p).job = "deliver" => c[1] = h + 1 /\ Head(p).frame = g[h + 1]
           /\ Head(p).job # "deliver" => c[1] = h
           /\ Head(p).job = "close" => u # NotAsked /\ u <= h
<1>. DEFINE n == Len(p)
            q == Tail(p)
            d == [i \in 0 .. n - 1 |-> c[i + 1]]
<1>1. n \in Nat /\ n >= 1 /\ Len(g) \in Nat /\ Head(p) = p[1]
  OBVIOUS
<1>2. Len(q) = n - 1 /\ \A i \in 1 .. n - 1 : q[i] = p[i + 1]
  OBVIOUS
<1>3. c \in [0 .. n -> 0 .. Len(g)] /\ c[0] = h /\ c[n] = Len(g)
  BY DEF IsCount
<1>4. \A i \in 1 .. n :
         /\ p[i].job = "deliver" => c[i] = c[i - 1] + 1 /\ p[i].frame = g[c[i]]
         /\ p[i].job # "deliver" => c[i] = c[i - 1]
         /\ p[i].job = "close" => u # NotAsked /\ u <= c[i]
  BY DEF IsCount
<1>5. d \in [0 .. Len(q) -> 0 .. Len(g)] /\ d[0] = c[1] /\ d[Len(q)] = Len(g)
  BY <1>1, <1>2, <1>3
<1>6. ASSUME NEW i \in 1 .. Len(q)
      PROVE  /\ q[i].job = "deliver" => d[i] = d[i - 1] + 1 /\ q[i].frame = g[d[i]]
             /\ q[i].job # "deliver" => d[i] = d[i - 1]
             /\ q[i].job = "close" => u # NotAsked /\ u <= d[i]
  <2>1. i + 1 \in 1 .. n /\ (i + 1) - 1 = i /\ i \in 1 .. n - 1
    BY <1>1, <1>2
  <2>2. d[i] = c[i + 1] /\ d[i - 1] = c[i]
    BY <1>1, <1>2
  <2>. HIDE DEF d, q, n
  <2>. QED BY <1>2, <1>4, <2>1, <2>2
<1>7. IsCount(d, q, g, c[1], u)
  <2>. HIDE DEF d, q, n
  <2>. QED BY <1>5, <1>6 DEF IsCount
<1>8. c[1] \in 0 .. Len(g) /\ h \in 0 .. Len(g)
  BY <1>1, <1>3
<1>9. /\ p[1].job = "deliver" => c[1] = c[0] + 1 /\ p[1].frame = g[c[1]]
      /\ p[1].job # "deliver" => c[1] = c[0]
      /\ p[1].job = "close" => u # NotAsked /\ u <= c[1]
  BY <1>1, <1>4
<1>. QED BY <1>1, <1>3, <1>7, <1>8, <1>9

\* The first state satisfies ChannelInv.
LEMMA ChannelInvInit ==
    ASSUME Init
    PROVE  ChannelInv
<1>1. /\ Len(posted) = 0 /\ Len(given) = 0 /\ Len(wire) = 0 /\ Len(queue) = 0
      /\ outcome = "none" /\ afterWrite = FALSE
  BY DEF Init
<1>2. Handled = 0
  BY <1>1 DEF Handled
<1>3. IsCount([i \in 0 .. 0 |-> 0], posted, given, Handled, due)
  BY <1>1, <1>2 DEF IsCount
<1>4. QueueInv
  BY <1>1, <1>2 DEF QueueInv, Init
<1>. QED BY <1>3, <1>4 DEF ChannelInv, PostedInv

\* Handled depends on what the handlers and the transport change.
LEMMA HandledSame ==
    ASSUME UNCHANGED <<wire, queue, outcome>>
    PROVE  Handled' = Handled
BY DEF Handled

\* Calls post handlers.
LEMMA ChannelCalls ==
    ASSUME Inv, ChannelInv, (\E f \in Frames : Deliver(f)) \/ Close \/ Abort
    PROVE  ChannelInv'
<1>1. /\ posted \in Seq(Jobs) /\ given \in Seq(Frames) /\ Len(given) \in Nat
      /\ queue \in Seq(Frames) /\ due \in Nat \cup {NotAsked}
  BY DEF Inv, TypeOK
<1>2. PICK c : IsCount(c, posted, given, Handled, due)
  BY DEF ChannelInv, PostedInv
<1>3. Handled' = Handled /\ UNCHANGED <<queue, afterWrite>>
  BY HandledSame DEF Deliver, Close, Abort
<1>4. Handled \in 0 .. Len(given)
  BY <1>1, <1>2 DEF IsCount
<1>5. ASSUME NEW f \in Frames, Deliver(f) PROVE ChannelInv'
  <2>. DEFINE j == [job |-> "deliver", frame |-> f]
  <2>1. j \in Jobs /\ j.job = "deliver" /\ j.frame = f
    BY DEF Jobs
  <2>2. posted' = Append(posted, j) /\ given' = Append(given, f) /\ due' = due
    BY <1>5 DEF Deliver
  <2>3. given' \in Seq(Frames) /\ \A i \in 1 .. Len(given) : given'[i] = given[i]
    BY <1>1, <2>2
  <2>4. PostedInv'
    <3>. HIDE DEF j
    <3>1. \E d : IsCount(d, posted', given', Handled, due)
      BY <1>1, <1>2, <2>1, <2>2, <2>3, PushCount
    <3>. QED BY <1>3, <2>2, <3>1 DEF PostedInv
  <2>5. QueueInv'
    <3>1. ASSUME NEW i \in 1 .. Len(queue)
          PROVE  queue'[i] = given'[Handled - Len(queue) + i]
      <4>1. Len(queue) <= Handled
        BY DEF ChannelInv, QueueInv
      <4>2. Handled - Len(queue) + i \in 1 .. Len(given)
        BY <1>1, <1>4, <4>1
      <4>. QED BY <1>3, <2>3, <4>2 DEF ChannelInv, QueueInv
    <3>2. due' # NotAsked => due' <= Len(given')
      BY <1>1, <2>2 DEF ChannelInv, QueueInv
    <3>. QED BY <1>3, <2>2, <3>1, <3>2 DEF ChannelInv, QueueInv
  <2>. QED BY <2>4, <2>5 DEF ChannelInv
<1>6. CASE Close
  <2>. DEFINE j == [job |-> "close"]
  <2>1. j \in Jobs /\ j.job = "close"
    BY DEF Jobs
  <2>2. posted' = Append(posted, j) /\ given' = given
        /\ due' = IF due = NotAsked THEN Len(given) ELSE due
    BY <1>6 DEF Close
  <2>3. due' # NotAsked /\ due' <= Len(given) /\ (due # NotAsked => due' = due)
    BY <1>1, <2>2, WriterAssumption DEF ChannelInv, QueueInv
  <2>4. PostedInv'
    <3>. HIDE DEF j
    <3>1. \E d : IsCount(d, posted', given', Handled, due')
      BY <1>1, <1>2, <2>1, <2>2, <2>3, PushCount
    <3>. QED BY <1>3, <3>1 DEF PostedInv
  <2>5. QueueInv'
    BY <1>3, <2>2, <2>3 DEF ChannelInv, QueueInv
  <2>. QED BY <2>4, <2>5 DEF ChannelInv
<1>7. CASE Abort
  <2>. DEFINE j == [job |-> "abort"]
  <2>1. j \in Jobs /\ j.job = "abort"
    BY DEF Jobs
  <2>2. posted' = Append(posted, j) /\ given' = given /\ due' = due
    BY <1>7 DEF Abort
  <2>3. PostedInv'
    <3>. HIDE DEF j
    <3>1. \E d : IsCount(d, posted', given', Handled, due')
      BY <1>1, <1>2, <2>1, <2>2, PushCount
    <3>. QED BY <1>3, <3>1 DEF PostedInv
  <2>4. QueueInv'
    BY <1>3, <2>2 DEF ChannelInv, QueueInv
  <2>. QED BY <2>3, <2>4 DEF ChannelInv
<1>. QED BY <1>5, <1>6, <1>7

\* What a handler that runs finds: the next frame that was given, or a close
\* that comes after the frames it must wait for.
LEMMA ChannelPop ==
    ASSUME Inv, ChannelInv, posted # <<>>
    PROVE  /\ Handled \in 0 .. Len(given)
           /\ Head(posted).job = "deliver"
                 => /\ Handled + 1 \in 1 .. Len(given)
                    /\ Head(posted).frame = given[Handled + 1]
                    /\ \E d : IsCount(d, Tail(posted), given, Handled + 1, due)
           /\ Head(posted).job # "deliver"
                 => \E d : IsCount(d, Tail(posted), given, Handled, due)
           /\ Head(posted).job = "close" => due # NotAsked /\ due <= Handled
<1>1. posted \in Seq(Jobs) /\ given \in Seq(Frames) /\ Len(given) \in Nat
  BY DEF Inv, TypeOK
<1>2. PICK c : IsCount(c, posted, given, Handled, due)
  BY DEF ChannelInv, PostedInv
<1>3. /\ \E d : IsCount(d, Tail(posted), given, c[1], due)
      /\ c[1] \in 0 .. Len(given) /\ Handled \in 0 .. Len(given)
      /\ Head(posted).job = "deliver"
            => c[1] = Handled + 1 /\ Head(posted).frame = given[Handled + 1]
      /\ Head(posted).job # "deliver" => c[1] = Handled
      /\ Head(posted).job = "close" => due # NotAsked /\ due <= Handled
  BY <1>1, <1>2, PopCount
<1>. QED BY <1>1, <1>3

\* The handlers of deliver, close and abort.
LEMMA ChannelJobs ==
    ASSUME Inv, ChannelInv, RunDeliver \/ RunClose \/ RunAbort
    PROVE  ChannelInv'
<1>1. /\ posted # <<>> /\ posted' = Tail(posted)
      /\ UNCHANGED <<outcome, given, wire, due>>
  BY DEF RunDeliver, RunClose, RunAbort, NextJob
<1>2. /\ queue \in Seq(Frames) /\ Len(queue) \in Nat /\ Len(wire) \in Nat
      /\ due \in Nat \cup {NotAsked} /\ Len(given) \in Nat
  BY DEF Inv, TypeOK
<1>3. Handled \in 0 .. Len(given) /\ Handled \in Nat
  BY <1>1, <1>2, ChannelPop
<1>4. CASE RunDeliver
  <2>1. /\ Head(posted).job = "deliver" /\ queue' = Append(queue, Head(posted).frame)
        /\ afterWrite' = afterWrite
    BY <1>4 DEF RunDeliver, NextJob
  <2>2. /\ Handled + 1 \in 1 .. Len(given) /\ Head(posted).frame = given[Handled + 1]
        /\ \E d : IsCount(d, posted', given', Handled + 1, due')
    BY <1>1, <2>1, ChannelPop
  <2>3. Len(queue') = Len(queue) + 1 /\ queue'[Len(queue) + 1] = given[Handled + 1]
        /\ \A i \in 1 .. Len(queue) : queue'[i] = queue[i]
    <3>1. Head(posted).frame \in Frames
      BY <2>1, <1>1, JobTypes DEF Inv, TypeOK
    <3>. QED BY <1>2, <2>1, <2>2, <3>1
  <2>4. Handled' = Handled + 1
    BY <1>1, <1>2, <2>3 DEF Handled
  <2>5. ASSUME NEW i \in 1 .. Len(queue')
        PROVE  queue'[i] = given'[Handled' - Len(queue') + i]
    <3>1. Handled' - Len(queue') = Handled - Len(queue)
      BY <1>2, <1>3, <2>3, <2>4
    <3>2. CASE i = Len(queue) + 1
      <4>1. Handled - Len(queue) + i = Handled + 1
        BY <1>2, <1>3, <3>2
      <4>. QED BY <1>1, <2>3, <3>1, <3>2, <4>1
    <3>3. CASE i # Len(queue) + 1
      <4>1. i \in 1 .. Len(queue)
        BY <1>2, <2>3, <3>3
      <4>. QED BY <1>1, <2>3, <3>1, <4>1 DEF ChannelInv, QueueInv
    <3>. QED BY <3>2, <3>3
  <2>6. QueueInv'
    <3>1. Len(queue') <= Handled'
      BY <1>2, <1>3, <2>3, <2>4 DEF ChannelInv, QueueInv
    <3>2. afterWrite' => due' # NotAsked /\ due' <= Handled'
      BY <1>1, <1>2, <1>3, <2>1, <2>4 DEF ChannelInv, QueueInv
    <3>3. due' # NotAsked => due' <= Len(given')
      BY <1>1 DEF ChannelInv, QueueInv
    <3>. QED BY <2>5, <3>1, <3>2, <3>3 DEF QueueInv
  <2>. QED BY <2>2, <2>4, <2>6 DEF ChannelInv, PostedInv
<1>5. CASE RunClose \/ RunAbort
  <2>1. Head(posted).job # "deliver" /\ queue' = queue
        /\ (afterWrite' # afterWrite => Head(posted).job = "close")
    BY <1>5 DEF RunClose, RunAbort, NextJob
  <2>2. Handled' = Handled
    BY <1>1, <2>1, HandledSame
  <2>3. PostedInv'
    BY <1>1, <2>1, <2>2, ChannelPop DEF PostedInv
  <2>4. QueueInv'
    <3>1. afterWrite' => due' # NotAsked /\ due' <= Handled'
      BY <1>1, <2>1, <2>2, ChannelPop DEF ChannelInv, QueueInv
    <3>. QED BY <1>1, <2>1, <2>2, <3>1 DEF ChannelInv, QueueInv
  <2>. QED BY <2>3, <2>4 DEF ChannelInv
<1>. QED BY <1>4, <1>5

\* The transport and the completion of a write.
LEMMA ChannelWrites ==
    ASSUME Inv, ChannelInv, WriteSent \/ WriteFailed \/ HandleSent \/ HandleError
    PROVE  ChannelInv'
<1>1. UNCHANGED <<posted, given, due, afterWrite>>
  BY DEF WriteSent, WriteFailed, HandleSent, HandleError
<1>2. /\ queue \in Seq(Frames) /\ Len(queue) \in Nat /\ wire \in Seq(Frames)
      /\ Len(wire) \in Nat /\ Len(queue) <= Handled
  BY DEF Inv, TypeOK, ChannelInv, QueueInv
<1>3. CASE WriteSent
  <2>1. outcome = "none" /\ outcome' = "sent" /\ queue' = queue
        /\ Len(wire') = Len(wire) + 1
    BY <1>2, <1>3 DEF WriteSent
  <2>2. Handled' = Handled
    BY <1>2, <2>1 DEF Handled
  <2>. QED BY <1>1, <2>1, <2>2 DEF ChannelInv, PostedInv, QueueInv
<1>4. CASE HandleSent
  <2>1. queue # <<>>
    BY <1>4 DEF HandleSent, Inv, WriterInv
  <2>2. outcome = "sent" /\ outcome' = "none" /\ wire' = wire /\ queue' = Tail(queue)
    BY <1>4 DEF HandleSent
  <2>3. Len(queue') = Len(queue) - 1 /\ \A i \in 1 .. Len(queue') : queue'[i] = queue[i + 1]
        /\ Len(queue) >= 1
    BY <1>2, <2>1, <2>2
  <2>4. Handled' = Handled /\ Handled \in Nat
    <3>1. /\ Handled = Len(wire) + Len(queue) - 1
          /\ Handled' = Len(wire) + Len(queue') - 0
      BY <2>2 DEF Handled
    <3>. QED BY <1>2, <2>3, <3>1
  <2>5. ASSUME NEW i \in 1 .. Len(queue')
        PROVE  queue'[i] = given'[Handled' - Len(queue') + i]
    <3>1. i + 1 \in 1 .. Len(queue) /\ Handled - Len(queue) + (i + 1) = Handled' - Len(queue') + i
      BY <1>2, <2>3, <2>4
    <3>. QED BY <1>1, <2>3, <3>1 DEF ChannelInv, QueueInv
  <2>6. Len(queue') <= Handled'
    BY <1>2, <2>3, <2>4
  <2>. QED BY <1>1, <2>4, <2>5, <2>6 DEF ChannelInv, PostedInv, QueueInv
<1>5. CASE WriteFailed \/ HandleError
  <2>1. UNCHANGED <<wire, queue>> /\ (outcome' = "sent" <=> outcome = "sent")
    BY <1>5 DEF WriteFailed, HandleError
  <2>2. Handled' = Handled
    BY <2>1 DEF Handled
  <2>. QED BY <1>1, <2>1, <2>2 DEF ChannelInv, PostedInv, QueueInv
<1>. QED BY <1>3, <1>4, <1>5

\* Every step keeps ChannelInv.
LEMMA ChannelInvStep ==
    ASSUME Inv, ChannelInv, [Next]_vars
    PROVE  ChannelInv'
<1>1. CASE UNCHANGED vars \/ ReadFails \/ PeerStalls
  <2>1. UNCHANGED <<posted, given, due, afterWrite, wire, queue, outcome>>
    BY <1>1 DEF vars, ReadFails, PeerStalls
  <2>. QED BY <2>1, HandledSame DEF ChannelInv, PostedInv, QueueInv
<1>. QED BY <1>1, ChannelCalls, ChannelJobs, ChannelWrites DEF Next, Handlers

\* Every step of the writer is a step of the channel, or none.
LEMMA ChannelStep ==
    ASSUME Inv, ChannelInv, [Next]_vars
    PROVE  [Channel!ChNext]_(Channel!chVars)
<1>1. ASSUME NEW f \in Frames, Deliver(f) PROVE Channel!ChNext
  BY <1>1 DEF Deliver, Channel!ChNext, Channel!Give
<1>2. CASE Close
  BY <1>2 DEF Close, Channel!ChNext, Channel!AskClose, Channel!chVars
<1>3. CASE WriteSent
  <2>1. queue # <<>> /\ ~failed
    BY <1>3 DEF WriteSent, Inv, TypeOK, WriterInv
  <2>2. /\ queue \in Seq(Frames) /\ Len(queue) \in Nat /\ Len(queue) >= 1
        /\ Len(wire) \in Nat /\ Len(given) \in Nat
    BY <2>1 DEF Inv, TypeOK
  <2>3. Handled = Len(wire) + Len(queue) - 0
    BY <1>3 DEF WriteSent, Handled
  <2>4. Handled \in 0 .. Len(given)
    <3>1. PICK c : IsCount(c, posted, given, Handled, due)
      BY DEF ChannelInv, PostedInv
    <3>2. c \in [0 .. Len(posted) -> 0 .. Len(given)] /\ c[0] = Handled
      BY <3>1 DEF IsCount
    <3>3. 0 \in 0 .. Len(posted)
      BY DEF Inv, TypeOK
    <3>. QED BY <3>2, <3>3
  <2>5. Head(queue) = given[Len(wire) + 1]
    <3>1. Handled - Len(queue) + 1 = Len(wire) + 1 /\ 1 \in 1 .. Len(queue)
      BY <2>2, <2>3
    <3>2. Head(queue) = queue[1]
      BY <2>1, <2>2
    <3>. QED BY <3>1, <3>2 DEF ChannelInv, QueueInv
  <2>6. Len(wire) < Len(given)
    BY <2>2, <2>3, <2>4
  <2>. QED BY <1>3, <2>5, <2>6 DEF WriteSent, Channel!ChNext, Channel!Transmit
<1>4. CASE RunClose
  <2>1. CASE queue # <<>> \/ stream # "open"
    BY <1>4, <2>1 DEF RunClose, MustDrain, Channel!chVars
  <2>2. CASE queue = <<>> /\ stream = "open"
    <3>1. outcome # "sent"
      BY <2>2 DEF Inv, TypeOK, WriterInv
    <3>2. Handled = Len(wire)
      <4>1. Len(queue) = 0 /\ Len(wire) \in Nat
        BY <2>2 DEF Inv, TypeOK
      <4>2. Handled = Len(wire) + Len(queue) - 0
        BY <3>1 DEF Handled
      <4>. QED BY <4>1, <4>2
    <3>3. due # NotAsked /\ due <= Handled
      BY <1>4, ChannelPop DEF RunClose, NextJob
    <3>4. Len(wire) >= due
      BY <3>2, <3>3 DEF Inv, TypeOK
    <3>. QED BY <1>4, <2>2, <3>3, <3>4
             DEF RunClose, MustDrain, Channel!ChNext, Channel!CloseFlushed
  <2>. QED BY <2>1, <2>2
<1>5. CASE RunAbort
  BY <1>5 DEF RunAbort, Channel!ChNext, Channel!Cut, Channel!chVars
<1>6. CASE HandleSent
  <2>1. CASE UNCHANGED stream
    BY <1>6, <2>1 DEF HandleSent, Channel!chVars
  <2>2. CASE ~UNCHANGED stream
    <3>1. stream = "open" /\ stream' = "closed" /\ afterWrite /\ Tail(queue) = <<>>
      BY <1>6, <2>2 DEF HandleSent, CloseIsDue
    <3>2. queue # <<>> /\ queue \in Seq(Frames) /\ Len(wire) \in Nat
      BY <1>6 DEF HandleSent, Inv, TypeOK, WriterInv
    <3>3. Len(queue) = 1
      <4>1. Len(Tail(queue)) = Len(queue) - 1 /\ Len(queue) \in Nat
        BY <3>2
      <4>2. Len(<<>>) = 0
        OBVIOUS
      <4>. QED BY <3>1, <4>1, <4>2
    <3>4. Handled = Len(wire)
      BY <1>6, <3>2, <3>3 DEF HandleSent, Handled
    <3>5. due # NotAsked /\ Len(wire) >= due
      BY <3>1, <3>4 DEF ChannelInv, QueueInv, Inv, TypeOK
    <3>. QED BY <1>6, <3>1, <3>5 DEF HandleSent, Channel!ChNext, Channel!CloseFlushed
  <2>. QED BY <2>1, <2>2
<1>7. CASE \/ UNCHANGED vars \/ Abort \/ ReadFails \/ PeerStalls
           \/ RunDeliver \/ HandleError \/ WriteFailed
  BY <1>7 DEF vars, Abort, ReadFails, PeerStalls, RunDeliver, HandleError, WriteFailed,
              Channel!chVars
<1>. QED BY <1>1, <1>2, <1>3, <1>4, <1>5, <1>6, <1>7 DEF Next, Handlers

\* The outgoing side of a session implements the ordered channel: whatever the
\* order of the calls, frames reach the wire in the order in which they were
\* given, without gaps, and a stream that close() shut down has carried every
\* frame given before the close.
THEOREM WriterIsOrderedChannel == Spec => ImplementsChannel
<1>1. Init => Channel!ChInit
  BY DEF Init, Channel!ChInit
<1>. QED BY <1>1, InvInit, InvStep, ChannelInvInit, ChannelInvStep, ChannelStep, PTL
         DEF Spec, ImplementsChannel, Channel!ChSpec
=============================================================================
