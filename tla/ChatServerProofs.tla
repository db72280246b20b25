-------------------------- MODULE ChatServerProofs --------------------------
(***************************************************************************)
(* Theorems about ChatServer, for every set of sessions, nicknames, keys   *)
(* and room names and for every room limit.                                *)
(*                                                                         *)
(* Types.  TypeOK is not inductive: a pending step works on the session it *)
(* names, and on the challenge its handler found there.  BaseInv adds what *)
(* the pending steps may look like, and that room ids are handed out in    *)
(* order.                                                                  *)
(*                                                                         *)
(* Nicknames, identities and bans.  What a login is checked for is still   *)
(* true when set_nickname runs, except that a ban may have overtaken it.   *)
(*                                                                         *)
(* Rooms.  Their names are unique, and active_room_id_ agrees with the     *)
(* member sets for every session that the console thread has not           *)
(* disconnected, which leaves no trace once its connection has ended.      *)
(***************************************************************************)
EXTENDS ChatServer, FiniteSetTheorems, SequenceTheorems, TLAPS

-----------------------------------------------------------------------------
(***************************************************************************)
(* The inductive invariant.                                                *)
(***************************************************************************)
Busy(t) == todo[t] # <<>>

ProofOps   == {"proofBanned", "proofTaken", "proofBind"}
DropOps    == {"erase", "load", "clear", "evict"}
IoOps      == ProofOps \cup {"moveLoad", "move", "close"}
SessionOps == IoOps \cup DropOps

\* What may follow a thread's current step: only close(), and only on "io".
CloseSteps(t) == {c \in Step : t = "io" /\ c.op = "close" /\ c.s \in Sess}

QueueOK == \A t \in Threads : Busy(t) => Tail(todo[t]) \in Seq(CloseSteps(t))

\* A proof is answered for a reading session that is ready, has no nickname
\* yet, and has signed with the pending key.
Proving(s) == life[s] = "reading" /\ nick[s] = None /\ Ready(s) /\ ValidProof(s)

StepOK(t, c) ==
    /\ c.op \in SessionOps => c.s \in Sess
    /\ c.op \in IoOps => t = "io"
    /\ c.op \in ProofOps => Proving(c.s)
    /\ c.op = "banFind" => t = "console"
    /\ c.op = "kickFind" => c.to \in RoomIds

StepsOK == \A t \in Threads : Busy(t) => StepOK(t, Cur(t))

\* Room ids are handed out in order.
RoomsInOrder == \A r \in RoomIds : name[r] # None <=> r < nextRoom

BaseInv == TypeOK /\ QueueOK /\ StepsOK /\ RoomsInOrder

-----------------------------------------------------------------------------
(***************************************************************************)
(* Pending steps: what Begin and Continue make of todo.                    *)
(***************************************************************************)

\* A queue that starts with c: the head, the rest, and the type.
LEMMA ConsProperties ==
    ASSUME NEW S, NEW c \in S, NEW q \in Seq(S)
    PROVE  /\ <<c>> \o q \in Seq(S)
           /\ <<c>> \o q # <<>>
           /\ Head(<<c>> \o q) = c
           /\ Tail(<<c>> \o q) = q
OBVIOUS

\* A non-empty queue has a head and a rest of the same type.
LEMMA QueueParts ==
    ASSUME NEW S, NEW q \in Seq(S), q # <<>>
    PROVE  Head(q) \in S /\ Tail(q) \in Seq(S)
OBVIOUS

\* The rest of a non-empty todo[t] consists of steps of CloseSteps(t).
LEMMA ContinueWith ==
    ASSUME TypeOK, QueueOK, NEW t \in Threads, Busy(t),
           NEW c \in Step, Continue(t, <<c>>)
    PROVE  /\ todo' \in [Threads -> Seq(Step)]
           /\ QueueOK'
           /\ todo'[t] # <<>> /\ Head(todo'[t]) = c
           /\ \A u \in Threads \ {t} : todo'[u] = todo[u]
<1>1. todo \in [Threads -> Seq(Step)] /\ todo[t] # <<>>
  BY DEF TypeOK, Busy
<1>2. Tail(todo[t]) \in Seq(Step) /\ Tail(todo[t]) \in Seq(CloseSteps(t))
  BY <1>1, QueueParts DEF QueueOK, Busy
<1>3. todo' = [todo EXCEPT ![t] = <<c>> \o Tail(todo[t])]
  BY DEF Continue
<1>4. /\ <<c>> \o Tail(todo[t]) \in Seq(Step)
      /\ <<c>> \o Tail(todo[t]) # <<>>
      /\ Head(<<c>> \o Tail(todo[t])) = c
      /\ Tail(<<c>> \o Tail(todo[t])) = Tail(todo[t])
  BY <1>2, ConsProperties
<1>5. todo' \in [Threads -> Seq(Step)] /\ todo'[t] = <<c>> \o Tail(todo[t])
      /\ \A u \in Threads \ {t} : todo'[u] = todo[u]
  BY <1>1, <1>3, <1>4
<1>6. QueueOK'
  BY <1>2, <1>4, <1>5 DEF QueueOK, Busy, CloseSteps
<1>. QED BY <1>4, <1>5, <1>6

\* A thread that finishes a step is idle or goes on with close().
LEMMA ContinueRest ==
    ASSUME TypeOK, QueueOK, NEW t \in Threads, Busy(t), Continue(t, <<>>)
    PROVE  /\ todo' \in [Threads -> Seq(Step)]
           /\ QueueOK'
           /\ todo'[t] # <<>> => Head(todo'[t]) \in CloseSteps(t)
           /\ \A u \in Threads \ {t} : todo'[u] = todo[u]
<1>1. todo \in [Threads -> Seq(Step)] /\ todo[t] # <<>>
  BY DEF TypeOK, Busy
<1>2. Tail(todo[t]) \in Seq(Step) /\ Tail(todo[t]) \in Seq(CloseSteps(t))
  BY <1>1, QueueParts DEF QueueOK, Busy
<1>3. <<>> \o Tail(todo[t]) = Tail(todo[t])
  BY <1>2
<1>4. todo' = [todo EXCEPT ![t] = Tail(todo[t])]
  BY <1>3 DEF Continue
<1>5. todo' \in [Threads -> Seq(Step)] /\ todo'[t] = Tail(todo[t])
      /\ \A u \in Threads \ {t} : todo'[u] = todo[u]
  BY <1>1, <1>2, <1>4
<1>6. todo'[t] # <<>> => /\ Head(todo'[t]) \in CloseSteps(t)
                         /\ Tail(todo'[t]) \in Seq(CloseSteps(t))
  BY <1>2, <1>5, QueueParts
<1>7. QueueOK'
  BY <1>5, <1>6 DEF QueueOK, Busy, CloseSteps
<1>. QED BY <1>5, <1>6, <1>7

\* A handler that begins with c, and then perhaps a close().
LEMMA BeginWith ==
    ASSUME TypeOK, QueueOK, NEW t \in Threads, NEW c \in Step,
           NEW q \in Seq(CloseSteps(t)), Begin(t, <<c>> \o q)
    PROVE  /\ todo' \in [Threads -> Seq(Step)]
           /\ QueueOK'
           /\ todo'[t] # <<>> /\ Head(todo'[t]) = c
           /\ \A u \in Threads \ {t} : todo'[u] = todo[u]
<1>1. todo \in [Threads -> Seq(Step)]
  BY DEF TypeOK
<1>2. q \in Seq(Step)
  <2>1. CloseSteps(t) \subseteq Step
    BY DEF CloseSteps
  <2>. QED BY <2>1, SeqMonotonic
<1>4. /\ <<c>> \o q \in Seq(Step)
      /\ <<c>> \o q # <<>>
      /\ Head(<<c>> \o q) = c
      /\ Tail(<<c>> \o q) = q
  BY <1>2, ConsProperties
<1>5. todo' \in [Threads -> Seq(Step)] /\ todo'[t] = <<c>> \o q
      /\ \A u \in Threads \ {t} : todo'[u] = todo[u]
  BY <1>1, <1>4 DEF Begin
<1>6. QueueOK'
  BY <1>4, <1>5 DEF QueueOK, Busy, CloseSteps
<1>. QED BY <1>4, <1>5, <1>6

\* A queue of two steps.
LEMMA PairIsCons ==
    ASSUME NEW S, NEW c \in S, NEW d \in S
    PROVE  <<c>> \o <<d>> = <<c, d>>
<1>1. <<c>> \in Seq(S) /\ <<d>> \in Seq(S) /\ <<c, d>> \in Seq(S)
  OBVIOUS
<1>2. <<c>> \o <<d>> \in Seq(S)
  BY <1>1
<1>3. Len(<<c>> \o <<d>>) = 2 /\ Len(<<c, d>>) = 2
  BY <1>1
<1>4. \A i \in 1 .. 2 : (<<c>> \o <<d>>)[i] = <<c, d>>[i]
  BY <1>1
<1>. QED BY <1>1, <1>2, <1>3, <1>4, SeqEqual

\* The steps the handlers create have the fields they were given.
LEMMA StepTypes ==
    /\ \A s \in Sess, op \in Ops, from, to \in 0 .. MaxRooms :
          /\ RoomStep(op, s, from, to) \in Step
          /\ RoomStep(op, s, from, to).op = op
          /\ RoomStep(op, s, from, to).s = s
          /\ RoomStep(op, s, from, to).from = from
          /\ RoomStep(op, s, from, to).to = to
    /\ \A s \in Sess, op \in Ops :
          /\ SessionStep(op, s) \in Step
          /\ SessionStep(op, s).op = op /\ SessionStep(op, s).s = s
    /\ \A s \in Sess, r \in RoomIds :
          /\ MoveTo(s, r) \in Step
          /\ MoveTo(s, r).op = "moveLoad" /\ MoveTo(s, r).s = s
    /\ \A r \in 0 .. MaxRooms, n \in Nicks :
          /\ KickFrom(r, n) \in Step
          /\ KickFrom(r, n).op = "kickFind" /\ KickFrom(r, n).to = r
    /\ \A n \in Nicks :
          /\ FindBanned(n) \in Step
          /\ FindBanned(n).op = "banFind" /\ FindBanned(n).n = n
BY ConstantAssumption
   DEF RoomStep, SessionStep, MoveTo, KickFrom, FindBanned, Step, Ops, RoomIds,
       NoRoom

\* The step a thread is at is a Step, and is well formed.
LEMMA CurOK ==
    ASSUME BaseInv, NEW t \in Threads, Busy(t)
    PROVE  Cur(t) \in Step /\ StepOK(t, Cur(t))
BY QueueParts DEF BaseInv, TypeOK, StepsOK, Busy, Cur

TodoOK == todo \in [Threads -> Seq(Step)] /\ QueueOK /\ StepsOK
NowAt(t, c) == todo'[t] # <<>> /\ Head(todo'[t]) = c
OthersKept(t) == \A u \in Threads \ {t} : todo'[u] = todo[u]
LoginKept == UNCHANGED <<life, nick, negotiated, authenticated, pending>>

\* Only steps of the io thread depend on how far a session's login is.
LEMMA StepsKept ==
    ASSUME BaseInv, NEW t \in Threads, OthersKept(t), t = "io" \/ LoginKept,
           Busy(t)' => StepOK(t, Cur(t))'
    PROVE  StepsOK'
<1>. SUFFICES ASSUME NEW u \in Threads, Busy(u)'
              PROVE  StepOK(u, Cur(u))'
  BY DEF StepsOK
<1>1. CASE u = t
  BY <1>1
<1>2. CASE u # t
  <2>1. Busy(u) /\ Cur(u)' = Cur(u) /\ StepOK(u, Cur(u))
    BY <1>2 DEF BaseInv, StepsOK, OthersKept, Busy, Cur
  <2>2. CASE u = "io"
    BY <1>2, <2>1, <2>2 DEF LoginKept, StepOK, Proving, Ready, ValidProof
  <2>3. CASE u = "console"
    BY <2>1, <2>3 DEF StepOK, IoOps, ProofOps
  <2>. QED BY <2>2, <2>3 DEF Threads
<1>. QED BY <1>1, <1>2

\* A thread that begins or goes on with a step that asks nothing of a login.
LEMMA NewStep ==
    ASSUME BaseInv, NEW t \in Threads, NEW c \in Step, t = "io" \/ LoginKept,
           c.op \in SessionOps => c.s \in Sess,
           c.op \in IoOps => t = "io",
           c.op = "banFind" => t = "console",
           c.op = "kickFind" => c.to \in RoomIds,
           c.op \in ProofOps => Proving(c.s)',
           \/ Begin(t, <<c>>)
           \/ Busy(t) /\ Continue(t, <<c>>)
           \/ \E d \in CloseSteps(t) : Begin(t, <<c, d>>)
    PROVE  TodoOK' /\ NowAt(t, c) /\ OthersKept(t)
<1>1. /\ todo' \in [Threads -> Seq(Step)] /\ QueueOK'
      /\ NowAt(t, c) /\ OthersKept(t)
  <2>1. CASE Begin(t, <<c>>)
    <3>1. <<>> \in Seq(CloseSteps(t)) /\ <<c>> \o <<>> = <<c>>
      OBVIOUS
    <3>. QED BY <2>1, <3>1, BeginWith DEF BaseInv, NowAt, OthersKept
  <2>2. CASE Busy(t) /\ Continue(t, <<c>>)
    BY <2>2, ContinueWith DEF BaseInv, NowAt, OthersKept
  <2>3. CASE \E d \in CloseSteps(t) : Begin(t, <<c, d>>)
    <3>1. PICK d \in CloseSteps(t) : Begin(t, <<c, d>>)
      BY <2>3
    <3>2. <<d>> \in Seq(CloseSteps(t))
      OBVIOUS
    <3>3. <<c>> \o <<d>> = <<c, d>>
      BY PairIsCons DEF CloseSteps
    <3>. QED BY <3>1, <3>2, <3>3, BeginWith DEF BaseInv, NowAt, OthersKept
  <2>. QED BY <2>1, <2>2, <2>3
<1>2. StepOK(t, Cur(t))'
  BY <1>1 DEF StepOK, NowAt, Cur, Proving
<1>. QED BY <1>1, <1>2, StepsKept DEF TodoOK

\* A thread that finishes a step.
LEMMA FinishStep ==
    ASSUME BaseInv, NEW t \in Threads, Busy(t), Continue(t, <<>>),
           t = "io" \/ LoginKept
    PROVE  /\ TodoOK' /\ OthersKept(t)
           /\ todo'[t] # <<>> => Head(todo'[t]) \in CloseSteps(t)
<1>1. /\ todo' \in [Threads -> Seq(Step)] /\ QueueOK' /\ OthersKept(t)
      /\ todo'[t] # <<>> => Head(todo'[t]) \in CloseSteps(t)
  BY ContinueRest DEF BaseInv, OthersKept
<1>2. Busy(t)' => StepOK(t, Cur(t))'
  BY <1>1 DEF Busy, Cur, StepOK, CloseSteps, ProofOps
<1>. QED BY <1>1, <1>2, StepsKept DEF TodoOK

\* An io handler that leaves todo alone while it is idle, or does not touch
\* the login of a session.
LEMMA TodoKept ==
    ASSUME BaseInv, UNCHANGED todo, Idle("io") \/ LoginKept
    PROVE  TodoOK'
<1>1. todo' \in [Threads -> Seq(Step)] /\ QueueOK'
  BY DEF BaseInv, TypeOK, QueueOK, Busy, CloseSteps
<1>2. CASE Idle("io")
  <2>1. OthersKept("io") /\ ~Busy("io")'
    BY <1>2 DEF OthersKept, Busy, Idle
  <2>. QED BY <1>1, <2>1, StepsKept DEF TodoOK, Threads
<1>3. CASE LoginKept
  BY <1>1, <1>3 DEF BaseInv, TodoOK, StepsOK, StepOK, Busy, Cur, LoginKept,
                    Proving, Ready, ValidProof
<1>. QED BY <1>2, <1>3

\* Every refusal of a frame.
LEMMA RejectStep ==
    ASSUME BaseInv, NEW s \in Sess, Begin("io", <<Disconnect(s)>>)
    PROVE  /\ TodoOK' /\ OthersKept("io")
           /\ NowAt("io", SessionStep("erase", s))
BY StepTypes, NewStep DEF Disconnect, Ops, Threads, SessionOps, DropOps, IoOps,
                           ProofOps

\* A new room has the next id, which is within the limit.
LEMMA NewRoomOK ==
    ASSUME BaseInv, NEW nm \in RoomNames, NEW who \in Nicks \cup {None},
           NewRoom(nm, who)
    PROVE  /\ nextRoom \in RoomIds
           /\ name' \in [RoomIds -> RoomNames \cup {None}]
           /\ owner' \in [RoomIds -> Nicks \cup {None}]
           /\ nextRoom' \in 2 .. MaxRooms + 1
           /\ RoomsInOrder'
<1>1. nextRoom \in 2 .. MaxRooms + 1 /\ MaxRooms \in Nat
  BY ConstantAssumption DEF BaseInv, TypeOK
<1>2. nextRoom # MaxRooms + 1
  <2>. SUFFICES ASSUME nextRoom = MaxRooms + 1 PROVE FALSE
    OBVIOUS
  <2>1. {r \in RoomIds : name[r] # None} = 1 .. MaxRooms
    BY <1>1 DEF BaseInv, RoomsInOrder, RoomIds
  <2>2. Cardinality(1 .. MaxRooms) = MaxRooms
    BY <1>1, FS_Interval
  <2>3. RoomCount = MaxRooms
    BY <2>1, <2>2 DEF RoomCount
  <2>4. RoomCount < MaxRooms
    BY DEF NewRoom, RoomsLeft
  <2>. QED BY <1>1, <2>3, <2>4
<1>3. nextRoom \in RoomIds
  BY <1>1, <1>2 DEF RoomIds
<1>4. RoomsInOrder'
  BY <1>1, <1>3, ConstantAssumption
     DEF BaseInv, TypeOK, RoomsInOrder, NewRoom, RoomIds
<1>. QED BY <1>1, <1>3, <1>4 DEF BaseInv, TypeOK, NewRoom, RoomIds

-----------------------------------------------------------------------------
(***************************************************************************)
(* BaseInv: types, pending steps, room ids.                                *)
(***************************************************************************)

\* accept_loop, start and the failures of a read keep BaseInv.
LEMMA BaseInvConnection ==
    ASSUME BaseInv, NEW s \in Sess, Connection(s)
    PROVE  BaseInv'
<1>1. CASE Accept(s)
  <2>1. TodoOK'
    BY <1>1, TodoKept DEF Accept
  <2>. QED BY <1>1, <2>1 DEF Accept, BaseInv, TodoOK, TypeOK, RoomsInOrder,
                            loginVars, roomVars
<1>2. CASE HandshakeOk(s)
  <2>1. TodoOK'
    BY <1>2, TodoKept DEF HandshakeOk
  <2>. QED BY <1>2, <2>1 DEF HandshakeOk, BaseInv, TodoOK, TypeOK, RoomsInOrder,
                            loginVars, roomVars
<1>3. CASE HandshakeFail(s)
  <2>1. TodoOK'
    BY <1>3, RejectStep DEF HandshakeFail
  <2>. QED BY <1>3, <2>1 DEF HandshakeFail, BaseInv, TodoOK, TypeOK, RoomsInOrder,
                            loginVars, roomVars
<1>4. CASE StreamCloses(s)
  <2>1. TodoOK'
    BY <1>4, TodoKept DEF StreamCloses
  <2>. QED BY <1>4, <2>1 DEF StreamCloses, BaseInv, TodoOK, TypeOK, RoomsInOrder,
                            loginVars, roomVars
<1>5. CASE ReadError(s)
  <2>1. TodoOK'
    BY <1>5, RejectStep DEF ReadError
  <2>. QED BY <1>5, <2>1 DEF ReadError, BaseInv, TodoOK, TypeOK, RoomsInOrder,
                            loginVars, roomVars
<1>. QED BY <1>1, <1>2, <1>3, <1>4, <1>5 DEF Connection

\* Closing keeps the type of link.
LEMMA ClosingType ==
    ASSUME TypeOK, NEW s
    PROVE  Closing(s) \in [Sess -> {"open", "closing", "closed"}]
BY DEF TypeOK, Closing

\* Every refusal keeps BaseInv.
LEMMA BaseInvReject ==
    ASSUME BaseInv, NEW s \in Sess, Reject(s),
           UNCHANGED <<up, sessions, negotiated, authenticated, loginVars,
                       roomVars, active, members, localRoom, banned, hit,
                       slipped>>
    PROVE  BaseInv'
<1>1. TodoOK'
  BY RejectStep DEF Reject
<1>2. link' \in [Sess -> {"open", "closing", "closed"}]
  BY ClosingType DEF Reject, BaseInv
<1>. QED BY <1>1, <1>2 DEF Reject, BaseInv, TodoOK, TypeOK, RoomsInOrder,
                          loginVars, roomVars

\* Login frames keep BaseInv.
LEMMA BaseInvLogin ==
    ASSUME BaseInv, NEW s \in Sess,
           \/ HandleHello(s) \/ HandleUnsupported(s)
           \/ \E ok \in BOOLEAN : HandleAuthenticate(s, ok)
           \/ \E n \in Nicks, k \in Keys : HandleIdentify(s, n, k)
           \/ \E ok \in BOOLEAN : HandleProof(s, ok)
    PROVE  BaseInv'
<1>1. CASE HandleHello(s)
  <2>1. TodoOK'
    BY <1>1, TodoKept DEF HandleHello, Handling
  <2>. QED BY <1>1, <2>1 DEF HandleHello, BaseInv, TodoOK, TypeOK, RoomsInOrder,
                            loginVars, roomVars
<1>2. CASE HandleUnsupported(s)
  BY <1>2, BaseInvReject DEF HandleUnsupported
<1>3. ASSUME NEW ok \in BOOLEAN, HandleAuthenticate(s, ok) PROVE BaseInv'
  <2>1. CASE ok
    <3>1. TodoOK'
      BY <1>3, <2>1, TodoKept DEF HandleAuthenticate, Handling
    <3>. QED BY <1>3, <2>1, <3>1
             DEF HandleAuthenticate, BaseInv, TodoOK, TypeOK, RoomsInOrder,
                 loginVars, roomVars
  <2>2. CASE ~ok
    BY <1>3, <2>2, BaseInvReject DEF HandleAuthenticate
  <2>. QED BY <2>1, <2>2
<1>4. ASSUME NEW n \in Nicks, NEW k \in Keys, HandleIdentify(s, n, k)
      PROVE  BaseInv'
  <2>1. CASE Reject(s) /\ UNCHANGED pending
    BY <1>4, <2>1, BaseInvReject DEF HandleIdentify, loginVars
  <2>2. CASE /\ pending' = [pending EXCEPT ![s] = [nick |-> n, key |-> k]]
             /\ UNCHANGED <<life, link, todo>>
    <3>1. TodoOK'
      BY <1>4, <2>2, TodoKept DEF HandleIdentify, Handling
    <3>2. pending' \in [Sess -> [nick : Nicks, key : Keys] \cup {None}]
      BY <2>2 DEF BaseInv, TypeOK
    <3>. QED BY <1>4, <2>2, <3>1, <3>2
             DEF HandleIdentify, BaseInv, TodoOK, TypeOK, RoomsInOrder, roomVars
  <2>. QED BY <1>4, <2>1, <2>2 DEF HandleIdentify
<1>5. ASSUME NEW ok \in BOOLEAN, HandleProof(s, ok) PROVE BaseInv'
  <2>1. CASE ok /\ ValidProof(s)
    <3>1. Begin("io", <<SessionStep("proofBanned", s)>>) /\ UNCHANGED <<life, link>>
      BY <1>5, <2>1 DEF HandleProof
    <3>2. Proving(s)'
      BY <1>5, <2>1, <3>1
         DEF HandleProof, Handling, Proving, Ready, ValidProof, loginVars
    <3>3. TodoOK'
      BY <3>1, <3>2, NewStep, StepTypes
         DEF Ops, Threads, SessionOps, DropOps, IoOps, ProofOps
    <3>. QED BY <1>5, <3>1, <3>3
             DEF HandleProof, BaseInv, TodoOK, TypeOK, RoomsInOrder, loginVars,
                 roomVars
  <2>2. CASE ~(ok /\ ValidProof(s))
    BY <1>5, <2>2, BaseInvReject DEF HandleProof
  <2>. QED BY <2>1, <2>2
<1>. QED BY <1>1, <1>2, <1>3, <1>4, <1>5

\* The steps of a proof keep BaseInv.
LEMMA BaseInvProof ==
    ASSUME BaseInv, ProofBanned \/ ProofTaken \/ ProofBind
    PROVE  BaseInv'
<1>1. PICK s \in Sess : /\ s = Cur("io").s /\ Proving(s)
                        /\ Busy("io") /\ "io" \in Threads
  <2>1. Busy("io") /\ Cur("io").op \in ProofOps
    BY DEF ProofBanned, ProofTaken, ProofBind, AtOp, Busy, Cur, ProofOps
  <2>2. StepOK("io", Cur("io"))
    BY <2>1, CurOK DEF Threads
  <2>. QED BY <2>1, <2>2 DEF StepOK, SessionOps, IoOps, Threads
<1>2. CASE ProofBanned
  <2>1. CASE Reject(s)
    BY <1>1, <1>2, <2>1, BaseInvReject DEF ProofBanned
  <2>2. CASE /\ Continue("io", <<SessionStep("proofTaken", s)>>)
             /\ UNCHANGED <<life, link>>
    <3>1. Proving(s)'
      BY <1>1, <1>2, <2>2 DEF ProofBanned, Proving, Ready, ValidProof, loginVars
    <3>2. TodoOK'
      BY <1>1, <2>2, <3>1, NewStep, StepTypes
         DEF Ops, SessionOps, DropOps, IoOps, ProofOps
    <3>. QED BY <1>2, <2>2, <3>2 DEF ProofBanned, BaseInv, TodoOK, TypeOK,
                                     RoomsInOrder, loginVars, roomVars
  <2>. QED BY <1>1, <1>2, <2>1, <2>2 DEF ProofBanned
<1>3. CASE ProofTaken
  <2>1. CASE Reject(s)
    BY <1>1, <1>3, <2>1, BaseInvReject DEF ProofTaken
  <2>2. CASE /\ Continue("io", <<SessionStep("proofBind", s)>>)
             /\ UNCHANGED <<life, link>>
    <3>1. Proving(s)'
      BY <1>1, <1>3, <2>2 DEF ProofTaken, Proving, Ready, ValidProof, loginVars
    <3>2. TodoOK'
      BY <1>1, <2>2, <3>1, NewStep, StepTypes
         DEF Ops, SessionOps, DropOps, IoOps, ProofOps
    <3>. QED BY <1>3, <2>2, <3>2 DEF ProofTaken, BaseInv, TodoOK, TypeOK,
                                     RoomsInOrder, loginVars, roomVars
  <2>. QED BY <1>1, <1>3, <2>1, <2>2 DEF ProofTaken
<1>4. CASE ProofBind
  <2>1. pending[s].nick \in Nicks /\ pending[s].key \in Keys
    BY <1>1 DEF BaseInv, TypeOK, Proving, ValidProof
  <2>2. CASE Reject(s) /\ UNCHANGED loginVars
    BY <1>1, <1>4, <2>2, BaseInvReject DEF ProofBind
  <2>3. CASE /\ identities' = [identities EXCEPT ![pending[s].nick] = pending[s].key]
             /\ nick' = [nick EXCEPT ![s] = pending[s].nick]
             /\ pending' = [pending EXCEPT ![s] = None]
             /\ Continue("io", <<MoveTo(s, Lobby)>>)
             /\ UNCHANGED <<life, link>>
    <3>1. Lobby \in RoomIds
      BY ConstantAssumption DEF Lobby, RoomIds
    <3>2. TodoOK'
      BY <1>1, <2>3, <3>1, NewStep, StepTypes
         DEF Ops, SessionOps, DropOps, IoOps, ProofOps
    <3>. QED BY <1>4, <2>1, <2>3, <3>2
             DEF ProofBind, BaseInv, TodoOK, TypeOK, RoomsInOrder, roomVars
  <2>. QED BY <1>1, <1>4, <2>2, <2>3 DEF ProofBind
<1>. QED BY <1>2, <1>3, <1>4

\* Frames of a logged-in session keep BaseInv.
LEMMA BaseInvMember ==
    ASSUME BaseInv, NEW s \in Sess,
           \/ HandleDisconnect(s)
           \/ \E r \in RoomIds : HandleJoinRoom(s, r)
           \/ \E nm \in RoomNames : HandleCreateRoom(s, nm)
           \/ \E n \in Nicks : HandleKick(s, n)
    PROVE  BaseInv'
<1>1. CASE HandleDisconnect(s)
  <2>1. SessionStep("close", s) \in CloseSteps("io")
    BY StepTypes DEF CloseSteps, Ops
  <2>2. \E d \in CloseSteps("io") : Begin("io", <<SessionStep("erase", s), d>>)
    BY <1>1, <2>1 DEF HandleDisconnect, Disconnect
  <2>3. TodoOK'
    <3>. DEFINE c == SessionStep("erase", s)
    <3>1. c \in Step /\ c.op = "erase" /\ c.s \in Sess
      BY StepTypes DEF Ops
    <3>2. c.op \notin IoOps /\ c.op \notin ProofOps /\ "io" \in Threads
      BY <3>1 DEF IoOps, ProofOps, Threads
    <3>. HIDE DEF c
    <3>. QED BY <2>2, <3>1, <3>2, NewStep DEF c
  <2>. QED BY <1>1, <2>3 DEF HandleDisconnect, BaseInv, TodoOK, TypeOK,
                             RoomsInOrder, loginVars, roomVars
<1>2. ASSUME NEW r \in RoomIds, HandleJoinRoom(s, r) PROVE BaseInv'
  <2>1. TodoOK'
    BY <1>2, NewStep, StepTypes
       DEF HandleJoinRoom, Ops, Threads, SessionOps, DropOps, IoOps, ProofOps
  <2>. QED BY <1>2, <2>1 DEF HandleJoinRoom, BaseInv, TodoOK, TypeOK,
                             RoomsInOrder, connVars, loginVars, roomVars
<1>3. ASSUME NEW nm \in RoomNames, HandleCreateRoom(s, nm) PROVE BaseInv'
  <2>1. nick[s] \in Nicks \cup {None}
    BY DEF BaseInv, TypeOK
  <2>2. /\ nextRoom \in RoomIds
        /\ name' \in [RoomIds -> RoomNames \cup {None}]
        /\ owner' \in [RoomIds -> Nicks \cup {None}]
        /\ nextRoom' \in 2 .. MaxRooms + 1
        /\ RoomsInOrder'
    BY <1>3, <2>1, NewRoomOK DEF HandleCreateRoom
  <2>3. TodoOK'
    BY <1>3, <2>2, NewStep, StepTypes
       DEF HandleCreateRoom, Ops, Threads, SessionOps, DropOps, IoOps, ProofOps
  <2>. QED BY <1>3, <2>2, <2>3 DEF HandleCreateRoom, BaseInv, TodoOK, TypeOK,
                                   connVars, loginVars
<1>4. ASSUME NEW n \in Nicks, HandleKick(s, n) PROVE BaseInv'
  <2>1. active[s] \in 0 .. MaxRooms /\ active[s] \in RoomIds
    BY <1>4 DEF HandleKick, Exists, BaseInv, TypeOK
  <2>2. TodoOK'
    BY <1>4, <2>1, NewStep, StepTypes
       DEF HandleKick, Ops, Threads, SessionOps, DropOps, IoOps, ProofOps
  <2>. QED BY <1>4, <2>2 DEF HandleKick, BaseInv, TodoOK, TypeOK,
                             RoomsInOrder, connVars, loginVars, roomVars
<1>. QED BY <1>1, <1>2, <1>3, <1>4

\* The steps of a move, and close(), keep BaseInv.
LEMMA BaseInvMove ==
    ASSUME BaseInv, MoveLoad \/ Move \/ CloseStep
    PROVE  BaseInv'
<1>. DEFINE c == Cur("io")
<1>1. /\ Busy("io") /\ "io" \in Threads
      /\ c \in Step /\ c.s \in Sess
      /\ c.from \in 0 .. MaxRooms /\ c.to \in 0 .. MaxRooms
  <2>1. Busy("io") /\ c.op \in IoOps
    BY DEF MoveLoad, Move, CloseStep, AtOp, Busy, Cur, IoOps
  <2>2. c \in Step /\ StepOK("io", c)
    BY <2>1, CurOK DEF Threads
  <2>3. c.from \in 0 .. MaxRooms /\ c.to \in 0 .. MaxRooms
    BY <2>2 DEF Step
  <2>. QED BY <2>1, <2>2, <2>3 DEF StepOK, SessionOps, Threads
<1>2. CASE MoveLoad
  <2>1. active[c.s] \in 0 .. MaxRooms
    BY <1>1 DEF BaseInv, TypeOK
  <2>2. TodoOK'
    BY <1>1, <1>2, <2>1, NewStep, StepTypes
       DEF MoveLoad, Ops, SessionOps, DropOps, IoOps, ProofOps
  <2>. QED BY <1>2, <2>2 DEF MoveLoad, BaseInv, TodoOK, TypeOK, RoomsInOrder,
                             connVars, loginVars, roomVars
<1>3. CASE Move
  <2>1. TodoOK'
    BY <1>1, <1>3, FinishStep DEF Move
  <2>2. members' \in [RoomIds -> SUBSET Sess]
    BY <1>1, <1>3 DEF Move, MovedMember, BaseInv, TypeOK
  <2>3. active' \in [Sess -> 0 .. MaxRooms]
    BY <1>1, <1>3 DEF Move, BaseInv, TypeOK
  <2>. QED BY <1>3, <2>1, <2>2, <2>3
           DEF Move, BaseInv, TodoOK, TypeOK, RoomsInOrder, connVars, loginVars,
               roomVars
<1>4. CASE CloseStep
  <2>1. TodoOK'
    BY <1>1, <1>4, FinishStep DEF CloseStep
  <2>2. link' \in [Sess -> {"open", "closing", "closed"}]
    BY <1>4, ClosingType DEF CloseStep, BaseInv
  <2>. QED BY <1>4, <2>1, <2>2 DEF CloseStep, BaseInv, TodoOK, TypeOK,
                                   RoomsInOrder, loginVars, roomVars
<1>. QED BY <1>2, <1>3, <1>4

\* Finding and expelling a session keeps BaseInv.
LEMMA BaseInvExpel ==
    ASSUME BaseInv, NEW t \in Threads, Busy(t), NEW found \in SUBSET Sess,
           \/ \E s \in found : Expel(t, s)
           \/ found = {} /\ NobodyFound(t),
           UNCHANGED <<up, sessions, life, negotiated, authenticated, loginVars,
                       roomVars, active, members, localRoom, banned, slipped>>
    PROVE  BaseInv'
<1>1. LoginKept
  BY DEF LoginKept, loginVars
<1>2. ASSUME NEW s \in found, Expel(t, s) PROVE BaseInv'
  <2>1. TodoOK'
    BY <1>1, <1>2, NewStep, StepTypes
       DEF Expel, Disconnect, Ops, SessionOps, DropOps, IoOps, ProofOps
  <2>2. link' \in [Sess -> {"open", "closing", "closed"}] /\ hit' \subseteq Sess
    BY <1>2, ClosingType DEF Expel, BaseInv, TypeOK
  <2>. QED BY <2>1, <2>2 DEF BaseInv, TodoOK, TypeOK, RoomsInOrder, loginVars,
                             roomVars
<1>3. CASE NobodyFound(t)
  <2>1. TodoOK'
    BY <1>1, <1>3, FinishStep DEF NobodyFound
  <2>. QED BY <1>3, <2>1 DEF NobodyFound, BaseInv, TodoOK, TypeOK, RoomsInOrder,
                             loginVars, roomVars
<1>. QED BY <1>2, <1>3

\* The steps of disconnect and of a kick keep BaseInv, on either thread.
LEMMA BaseInvThread ==
    ASSUME BaseInv, NEW t \in Threads, ThreadStep(t)
    PROVE  BaseInv'
<1>. DEFINE c == Cur(t)
<1>1. Busy(t) /\ c \in Step /\ StepOK(t, c) /\ c.from \in 0 .. MaxRooms
  <2>1. Busy(t)
    BY DEF ThreadStep, EraseSession, LoadActive, ClearActive, Evict, KickFind,
           AtOp, Busy
  <2>2. c \in Step /\ StepOK(t, c)
    BY <2>1, CurOK
  <2>3. c.from \in 0 .. MaxRooms
    BY <2>2 DEF Step
  <2>. QED BY <2>1, <2>2, <2>3
<1>2. LoginKept
  BY DEF ThreadStep, EraseSession, LoadActive, ClearActive, Evict, KickFind,
         LoginKept, connVars, loginVars
<1>3. CASE EraseSession(t)
  <2>1. c.s \in Sess
    BY <1>1, <1>3 DEF EraseSession, AtOp, Cur, StepOK, SessionOps, DropOps
  <2>2. TodoOK'
    BY <1>1, <1>2, <1>3, <2>1, NewStep, StepTypes
       DEF EraseSession, Ops, SessionOps, DropOps, IoOps, ProofOps
  <2>. QED BY <1>3, <2>2 DEF EraseSession, BaseInv, TodoOK, TypeOK, RoomsInOrder,
                             connVars, loginVars, roomVars
<1>4. CASE LoadActive(t)
  <2>1. c.s \in Sess
    BY <1>1, <1>4 DEF LoadActive, AtOp, Cur, StepOK, SessionOps, DropOps
  <2>2. active[c.s] \in 0 .. MaxRooms /\ NoRoom \in 0 .. MaxRooms
    BY <2>1, ConstantAssumption DEF BaseInv, TypeOK, NoRoom
  <2>3. TodoOK'
    BY <1>1, <1>2, <1>4, <2>1, <2>2, NewStep, StepTypes
       DEF LoadActive, Ops, SessionOps, DropOps, IoOps, ProofOps
  <2>. QED BY <1>4, <2>3 DEF LoadActive, BaseInv, TodoOK, TypeOK, RoomsInOrder,
                             connVars, loginVars, roomVars
<1>5. CASE ClearActive(t)
  <2>1. c.s \in Sess
    BY <1>1, <1>5 DEF ClearActive, AtOp, Cur, StepOK, SessionOps, DropOps
  <2>2. NoRoom \in 0 .. MaxRooms
    BY ConstantAssumption DEF NoRoom
  <2>3. TodoOK'
    <3>1. CASE c.from = NoRoom
      BY <1>1, <1>2, <1>5, <3>1, FinishStep DEF ClearActive
    <3>2. CASE c.from # NoRoom
      BY <1>1, <1>2, <1>5, <2>1, <2>2, <3>2, NewStep, StepTypes
         DEF ClearActive, Ops, SessionOps, DropOps, IoOps, ProofOps
    <3>. QED BY <3>1, <3>2
  <2>4. active' \in [Sess -> 0 .. MaxRooms]
    BY <1>5, <2>2 DEF ClearActive, BaseInv, TypeOK
  <2>. QED BY <1>5, <2>3, <2>4 DEF ClearActive, BaseInv, TodoOK, TypeOK,
                                   RoomsInOrder, connVars, loginVars, roomVars
<1>6. CASE Evict(t)
  <2>1. TodoOK'
    BY <1>1, <1>2, <1>6, FinishStep DEF Evict
  <2>2. members' \in [RoomIds -> SUBSET Sess]
    BY <1>6 DEF Evict, BaseInv, TypeOK
  <2>. QED BY <1>6, <2>1, <2>2 DEF Evict, BaseInv, TodoOK, TypeOK,
                                   RoomsInOrder, connVars, loginVars, roomVars
<1>7. CASE KickFind(t)
  <2>. DEFINE found == {s \in members[c.to] : nick[s] = c.n}
  <2>1. \/ \E s \in found : Expel(t, s)
        \/ found = {} /\ NobodyFound(t)
    BY <1>7 DEF KickFind
  <2>2. found \in SUBSET Sess
    BY <1>1, <1>7 DEF KickFind, AtOp, Cur, StepOK, BaseInv, TypeOK
  <2>. QED BY <1>1, <1>7, <2>1, <2>2, BaseInvExpel DEF KickFind
<1>. QED BY <1>3, <1>4, <1>5, <1>6, <1>7 DEF ThreadStep

\* Console commands keep BaseInv.
LEMMA BaseInvConsole ==
    ASSUME BaseInv, Console
    PROVE  BaseInv'
<1>1. ASSUME NEW nm \in RoomNames, CmdCreate(nm) PROVE BaseInv'
  <2>1. LocalNick \in Nicks \cup {None}
    BY ConstantAssumption
  <2>2. /\ nextRoom \in RoomIds
        /\ name' \in [RoomIds -> RoomNames \cup {None}]
        /\ owner' \in [RoomIds -> Nicks \cup {None}]
        /\ nextRoom' \in 2 .. MaxRooms + 1
        /\ RoomsInOrder'
    BY <1>1, <2>1, NewRoomOK DEF CmdCreate
  <2>3. TodoOK'
    BY <1>1, TodoKept DEF CmdCreate, LoginKept, connVars, loginVars
  <2>4. localRoom' \in 0 .. MaxRooms
    BY <1>1, <2>2, ConstantAssumption DEF CmdCreate, BaseInv, TypeOK, RoomIds
  <2>. QED BY <1>1, <2>2, <2>3, <2>4
           DEF CmdCreate, BaseInv, TodoOK, TypeOK, connVars, loginVars
<1>2. ASSUME NEW r \in RoomIds, CmdMove(r) PROVE BaseInv'
  <2>1. TodoOK'
    BY <1>2, TodoKept DEF CmdMove, LoginKept, connVars, loginVars
  <2>2. localRoom' \in 0 .. MaxRooms
    BY <1>2, ConstantAssumption DEF CmdMove, RoomIds
  <2>. QED BY <1>2, <2>1, <2>2 DEF CmdMove, BaseInv, TodoOK, TypeOK, RoomsInOrder,
                                   connVars, loginVars, roomVars
<1>3. ASSUME NEW r \in RoomIds, NEW n \in Nicks, CmdKick(r, n) PROVE BaseInv'
  <2>1. r \in 0 .. MaxRooms
    BY ConstantAssumption DEF RoomIds
  <2>2. TodoOK'
    BY <1>3, <2>1, NewStep, StepTypes
       DEF CmdKick, LoginKept, connVars, loginVars, Threads, SessionOps,
           DropOps, IoOps, ProofOps
  <2>. QED BY <1>3, <2>2 DEF CmdKick, BaseInv, TodoOK, TypeOK, RoomsInOrder,
                             connVars, loginVars, roomVars
<1>4. ASSUME NEW n \in Nicks, CmdBan(n) PROVE BaseInv'
  <2>1. TodoOK'
    BY <1>4, NewStep, StepTypes
       DEF CmdBan, LoginKept, connVars, loginVars, Threads, SessionOps,
           DropOps, IoOps, ProofOps
  <2>2. slipped' \subseteq Sess /\ banned' \subseteq Nicks
    BY <1>4 DEF CmdBan, PastBanCheck, BaseInv, TypeOK
  <2>. QED BY <1>4, <2>1, <2>2 DEF CmdBan, BaseInv, TodoOK, TypeOK, RoomsInOrder,
                                   connVars, loginVars, roomVars
<1>5. ASSUME NEW n \in Nicks, CmdUnban(n) PROVE BaseInv'
  <2>1. TodoOK'
    BY <1>5, TodoKept DEF CmdUnban, LoginKept, connVars, loginVars
  <2>. QED BY <1>5, <2>1 DEF CmdUnban, BaseInv, TodoOK, TypeOK, RoomsInOrder,
                             connVars, loginVars, roomVars
<1>6. CASE BanFind
  <2>. DEFINE found == {s \in sessions : nick[s] = Cur("console").n}
  <2>1. Busy("console") /\ "console" \in Threads
    BY <1>6 DEF BanFind, AtOp, Busy, Threads
  <2>2. \/ \E s \in found : Expel("console", s)
        \/ found = {} /\ NobodyFound("console")
    BY <1>6 DEF BanFind
  <2>3. found \in SUBSET Sess
    BY DEF BaseInv, TypeOK
  <2>. QED BY <1>6, <2>1, <2>2, <2>3, BaseInvExpel DEF BanFind
<1>. QED BY <1>1, <1>2, <1>3, <1>4, <1>5, <1>6 DEF Console

\* Every step keeps BaseInv.
LEMMA BaseInvStep ==
    ASSUME BaseInv, [Next]_vars
    PROVE  BaseInv'
<1>1. CASE UNCHANGED vars
  BY <1>1 DEF BaseInv, TypeOK, QueueOK, StepsOK, StepOK, RoomsInOrder, Busy, Cur,
              CloseSteps, Proving, Ready, ValidProof, vars, connVars, loginVars,
              roomVars
<1>2. CASE Stop
  <2>1. TodoOK'
    BY <1>2, TodoKept DEF Stop
  <2>. QED BY <1>2, <2>1 DEF Stop, BaseInv, TodoOK, TypeOK, RoomsInOrder,
                             loginVars, roomVars
<1>3. ASSUME NEW s \in Sess, Connection(s) \/ Frame(s) PROVE BaseInv'
  BY <1>3, BaseInvConnection, BaseInvLogin, BaseInvMember DEF Frame
<1>4. CASE IoStep
  BY <1>4, BaseInvProof, BaseInvMove DEF IoStep
<1>5. ASSUME NEW t \in Threads, ThreadStep(t) PROVE BaseInv'
  BY <1>5, BaseInvThread
<1>6. CASE Console
  BY <1>6, BaseInvConsole
<1>. QED BY <1>1, <1>2, <1>3, <1>4, <1>5, <1>6 DEF Next

\* The first state satisfies BaseInv.
LEMMA BaseInvInit ==
    ASSUME Init
    PROVE  BaseInv
<1>1. MaxRooms \in Nat /\ MaxRooms >= 1
  BY ConstantAssumption
<1>2. TypeOK
  BY <1>1, ConstantAssumption DEF Init, TypeOK, Lobby, NoRoom, RoomIds, Threads
<1>3. QueueOK /\ StepsOK
  BY DEF Init, QueueOK, StepsOK, Busy
<1>4. RoomsInOrder
  BY <1>1, ConstantAssumption DEF Init, RoomsInOrder, RoomIds, Lobby
<1>. QED BY <1>2, <1>3, <1>4 DEF BaseInv

\* The state of chat_server.h and its sessions is well typed in every reachable
\* state: in particular a room id never passes the limit MAX_ROOMS, and no step
\* of a login runs without a pending challenge.
THEOREM TypeCorrect == Spec => []TypeOK
<1>1. Init => BaseInv
  BY BaseInvInit
<1>2. BaseInv /\ [Next]_vars => BaseInv'
  BY BaseInvStep
<1>3. BaseInv => TypeOK
  BY DEF BaseInv
<1>. QED BY <1>1, <1>2, <1>3, PTL DEF Spec

-----------------------------------------------------------------------------
(***************************************************************************)
(* What a step can change: where the value a pending step holds comes from.*)
(***************************************************************************)

\* Steps that hold nothing that was read or checked before.
FreshOps == {"erase", "load", "moveLoad", "proofBanned", "kickFind", "banFind",
             "close"}

\* How the io thread comes to the step it is at.
IoHead ==
    \/ /\ todo'["io"] = todo["io"]
       /\ Idle("io") \/ Console \/ ThreadStep("console") \/ UNCHANGED vars
    \/ Busy("io")' => Cur("io")'.op \in FreshOps
    \/ /\ ProofBanned /\ ~BanHits(Cur("io").s)
       /\ NowAt("io", SessionStep("proofTaken", Cur("io").s))
    \/ /\ ProofTaken /\ ~NameGone(Cur("io").s)
       /\ NowAt("io", SessionStep("proofBind", Cur("io").s))
    \/ /\ MoveLoad
       /\ NowAt("io", RoomStep("move", Cur("io").s, active[Cur("io").s],
                               Cur("io").to))
    \/ /\ LoadActive("io")
       /\ NowAt("io", RoomStep("clear", Cur("io").s, active[Cur("io").s], NoRoom))
    \/ /\ ClearActive("io")
       /\ NowAt("io", RoomStep("evict", Cur("io").s, Cur("io").from, NoRoom))

\* A frame, or a failed read, begins with a fresh step or leaves todo alone.
LEMMA IoHeadFrame ==
    ASSUME BaseInv, NEW s \in Sess, Connection(s) \/ Frame(s)
    PROVE  IoHead /\ todo'["console"] = todo["console"]
<1>0. Idle("io")
  BY DEF Connection, Accept, HandshakeOk, HandshakeFail, StreamCloses, ReadError,
         Frame, HandleHello, HandleUnsupported, HandleAuthenticate,
         HandleIdentify, HandleProof, HandleDisconnect, HandleJoinRoom,
         HandleCreateRoom, HandleKick, Member, Handling
<1>1. CASE UNCHANGED todo
  BY <1>0, <1>1 DEF IoHead
<1>2. CASE Begin("io", <<Disconnect(s)>>)
  BY <1>2, RejectStep, StepTypes
     DEF IoHead, NowAt, OthersKept, Busy, Cur, FreshOps, Ops, Threads
<1>3. CASE HandleDisconnect(s)
  <2>0. SessionStep("close", s) \in CloseSteps("io")
    BY StepTypes DEF CloseSteps, Ops
  <2>1. \E d \in CloseSteps("io") : Begin("io", <<SessionStep("erase", s), d>>)
    BY <1>3, <2>0 DEF HandleDisconnect, Disconnect
  <2>. DEFINE c == SessionStep("erase", s)
  <2>2. c \in Step /\ c.op = "erase" /\ c.s \in Sess
    BY StepTypes DEF Ops
  <2>3. c.op \notin IoOps /\ c.op \notin ProofOps /\ "io" \in Threads
    BY <2>2 DEF IoOps, ProofOps, Threads
  <2>4. NowAt("io", c) /\ OthersKept("io")
    BY <2>1, <2>2, <2>3, NewStep
  <2>. QED BY <2>2, <2>4
           DEF IoHead, NowAt, OthersKept, Busy, Cur, FreshOps, Threads
<1>4. CASE Begin("io", <<SessionStep("proofBanned", s)>>)
  <2>1. todo \in [Threads -> Seq(Step)]
    BY DEF BaseInv, TypeOK
  <2>2. /\ todo'["io"] = <<SessionStep("proofBanned", s)>>
        /\ todo'["console"] = todo["console"]
    BY <1>4, <2>1 DEF Begin, Threads
  <2>. QED BY <2>2, StepTypes DEF IoHead, Busy, Cur, FreshOps, Ops
<1>5. ASSUME NEW r \in RoomIds, Begin("io", <<MoveTo(s, r)>>)
      PROVE  IoHead /\ todo'["console"] = todo["console"]
  BY <1>5, NewStep, StepTypes
     DEF IoHead, NowAt, OthersKept, Busy, Cur, FreshOps, Threads, SessionOps,
         IoOps, ProofOps
<1>6. ASSUME NEW r \in RoomIds, NEW n \in Nicks, Begin("io", <<KickFrom(r, n)>>)
      PROVE  IoHead /\ todo'["console"] = todo["console"]
  <2>1. r \in 0 .. MaxRooms
    BY ConstantAssumption DEF RoomIds
  <2>. QED BY <1>6, <2>1, NewStep, StepTypes
           DEF IoHead, NowAt, OthersKept, Busy, Cur, FreshOps, Threads,
               SessionOps, IoOps, ProofOps, DropOps
<1>7. CASE Connection(s)
  BY <1>1, <1>2, <1>7
     DEF Connection, Accept, HandshakeOk, HandshakeFail, StreamCloses, ReadError
<1>8. CASE HandleHello(s) \/ HandleUnsupported(s)
  BY <1>1, <1>2, <1>8 DEF HandleHello, HandleUnsupported, Reject
<1>9. ASSUME NEW ok \in BOOLEAN, HandleAuthenticate(s, ok)
      PROVE  IoHead /\ todo'["console"] = todo["console"]
  BY <1>1, <1>2, <1>9 DEF HandleAuthenticate, Reject
<1>10. ASSUME NEW n \in Nicks, NEW k \in Keys, HandleIdentify(s, n, k)
       PROVE  IoHead /\ todo'["console"] = todo["console"]
  BY <1>1, <1>2, <1>10 DEF HandleIdentify, Reject
<1>11. ASSUME NEW ok \in BOOLEAN, HandleProof(s, ok)
       PROVE  IoHead /\ todo'["console"] = todo["console"]
  <2>1. CASE Reject(s)
    BY <1>2, <2>1 DEF Reject
  <2>2. CASE Begin("io", <<SessionStep("proofBanned", s)>>)
    BY <1>4, <2>2
  <2>. QED BY <1>11, <2>1, <2>2 DEF HandleProof
<1>12. ASSUME NEW r \in RoomIds, HandleJoinRoom(s, r)
       PROVE  IoHead /\ todo'["console"] = todo["console"]
  BY <1>5, <1>12 DEF HandleJoinRoom
<1>13. ASSUME NEW nm \in RoomNames, HandleCreateRoom(s, nm)
       PROVE  IoHead /\ todo'["console"] = todo["console"]
  <2>1. nick[s] \in Nicks \cup {None}
    BY DEF BaseInv, TypeOK
  <2>2. nextRoom \in RoomIds
    BY <1>13, <2>1, NewRoomOK DEF HandleCreateRoom
  <2>. QED BY <1>5, <1>13, <2>2 DEF HandleCreateRoom
<1>14. ASSUME NEW n \in Nicks, HandleKick(s, n)
       PROVE  IoHead /\ todo'["console"] = todo["console"]
  BY <1>6, <1>14 DEF HandleKick, Exists
<1>. QED BY <1>3, <1>7, <1>8, <1>9, <1>10, <1>11, <1>12, <1>13, <1>14 DEF Frame

\* The io thread's own steps, and what it is left with.
LEMMA IoHeadSteps ==
    ASSUME BaseInv, IoStep \/ ThreadStep("io")
    PROVE  IoHead /\ todo'["console"] = todo["console"]
<1>. DEFINE c == Cur("io")
            Goal == IoHead /\ todo'["console"] = todo["console"]
<1>1. /\ Busy("io") /\ "io" \in Threads
      /\ c \in Step /\ StepOK("io", c)
      /\ c.from \in 0 .. MaxRooms /\ c.to \in 0 .. MaxRooms
  <2>1. Busy("io")
    BY DEF IoStep, ProofBanned, ProofTaken, ProofBind, MoveLoad, Move, CloseStep,
           ThreadStep, EraseSession, LoadActive, ClearActive, Evict, KickFind,
           AtOp, Busy
  <2>2. c \in Step /\ StepOK("io", c)
    BY <2>1, CurOK DEF Threads
  <2>. QED BY <2>1, <2>2 DEF Step, Threads
<1>2. CASE Continue("io", <<>>)
  BY <1>1, <1>2, FinishStep
     DEF IoHead, OthersKept, Busy, Cur, CloseSteps, FreshOps, Threads
<1>3. ASSUME NEW s \in Sess, Begin("io", <<Disconnect(s)>>) PROVE Goal
  BY <1>3, RejectStep, StepTypes
     DEF IoHead, NowAt, OthersKept, Busy, Cur, FreshOps, Ops, Threads
<1>4. ASSUME NEW d \in Step, Continue("io", <<d>>)
      PROVE  NowAt("io", d) /\ todo'["console"] = todo["console"]
  BY <1>1, <1>4, ContinueWith DEF BaseInv, NowAt, Threads
<1>5. c.op \in SessionOps => c.s \in Sess /\ active[c.s] \in 0 .. MaxRooms
  BY <1>1 DEF StepOK, BaseInv, TypeOK
<1>6. NoRoom \in 0 .. MaxRooms
  BY ConstantAssumption DEF NoRoom
<1>7. CASE ProofBanned
  <2>1. c.s \in Sess
    BY <1>5, <1>7 DEF ProofBanned, AtOp, Cur, SessionOps, IoOps, ProofOps
  <2>2. SessionStep("proofTaken", c.s) \in Step
    BY <2>1, StepTypes DEF Ops
  <2>. QED BY <1>3, <1>4, <1>7, <2>1, <2>2 DEF ProofBanned, Reject, IoHead
<1>8. CASE ProofTaken
  <2>1. c.s \in Sess
    BY <1>5, <1>8 DEF ProofTaken, AtOp, Cur, SessionOps, IoOps, ProofOps
  <2>2. SessionStep("proofBind", c.s) \in Step
    BY <2>1, StepTypes DEF Ops
  <2>. QED BY <1>3, <1>4, <1>8, <2>1, <2>2 DEF ProofTaken, Reject, IoHead
<1>9. CASE ProofBind
  <2>1. c.s \in Sess
    BY <1>5, <1>9 DEF ProofBind, AtOp, Cur, SessionOps, IoOps, ProofOps
  <2>2. Lobby \in RoomIds
    BY ConstantAssumption DEF Lobby, RoomIds
  <2>3. MoveTo(c.s, Lobby) \in Step /\ MoveTo(c.s, Lobby).op = "moveLoad"
    BY <2>1, <2>2, StepTypes
  <2>4. CASE Reject(c.s)
    BY <1>3, <2>1, <2>4 DEF Reject
  <2>5. CASE Continue("io", <<MoveTo(c.s, Lobby)>>)
    BY <1>4, <2>3, <2>5 DEF IoHead, NowAt, Busy, Cur, FreshOps
  <2>. QED BY <1>9, <2>4, <2>5 DEF ProofBind
<1>10. CASE MoveLoad
  <2>1. c.s \in Sess /\ active[c.s] \in 0 .. MaxRooms
    BY <1>5, <1>10 DEF MoveLoad, AtOp, Cur, SessionOps, IoOps
  <2>2. RoomStep("move", c.s, active[c.s], c.to) \in Step
    BY <1>1, <2>1, StepTypes DEF Ops
  <2>. QED BY <1>4, <1>10, <2>2 DEF MoveLoad, IoHead
<1>11. CASE Move \/ CloseStep \/ Evict("io")
  BY <1>2, <1>11 DEF Move, CloseStep, Evict
<1>12. CASE EraseSession("io")
  <2>1. c.s \in Sess
    BY <1>5, <1>12 DEF EraseSession, AtOp, Cur, SessionOps, DropOps
  <2>2. SessionStep("load", c.s) \in Step /\ SessionStep("load", c.s).op = "load"
    BY <2>1, StepTypes DEF Ops
  <2>. QED BY <1>4, <1>12, <2>2
           DEF EraseSession, IoHead, NowAt, Busy, Cur, FreshOps
<1>13. CASE LoadActive("io")
  <2>1. c.s \in Sess /\ active[c.s] \in 0 .. MaxRooms
    BY <1>5, <1>13 DEF LoadActive, AtOp, Cur, SessionOps, DropOps
  <2>2. RoomStep("clear", c.s, active[c.s], NoRoom) \in Step
    BY <1>6, <2>1, StepTypes DEF Ops
  <2>. QED BY <1>4, <1>13, <2>2 DEF LoadActive, IoHead
<1>14. CASE ClearActive("io")
  <2>1. c.s \in Sess
    BY <1>5, <1>14 DEF ClearActive, AtOp, Cur, SessionOps, DropOps
  <2>2. RoomStep("evict", c.s, c.from, NoRoom) \in Step
    BY <1>1, <1>6, <2>1, StepTypes DEF Ops
  <2>3. CASE c.from = NoRoom
    BY <1>2, <1>14, <2>3 DEF ClearActive
  <2>4. CASE c.from # NoRoom
    BY <1>4, <1>14, <2>2, <2>4 DEF ClearActive, IoHead
  <2>. QED BY <2>3, <2>4
<1>15. CASE KickFind("io")
  <2>. DEFINE found == {s \in members[c.to] : nick[s] = c.n}
  <2>1. found \subseteq Sess
    BY <1>1, <1>15 DEF KickFind, AtOp, Cur, StepOK, BaseInv, TypeOK
  <2>2. CASE NobodyFound("io")
    BY <1>2, <2>2 DEF NobodyFound
  <2>3. ASSUME NEW s \in found, Expel("io", s) PROVE Goal
    <3>1. SessionStep("erase", s) \in Step /\ SessionStep("erase", s).op = "erase"
      BY <2>1, StepTypes DEF Ops
    <3>. QED BY <1>4, <2>3, <3>1
             DEF Expel, Disconnect, IoHead, NowAt, Busy, Cur, FreshOps
  <2>. QED BY <1>15, <2>2, <2>3 DEF KickFind
<1>. QED BY <1>7, <1>8, <1>9, <1>10, <1>11, <1>12, <1>13, <1>14, <1>15
         DEF IoStep, ThreadStep

\* How the console thread comes to the step it is at.
ConsoleHead ==
    \/ todo'["console"] = todo["console"]
    \/ Busy("console")' => Cur("console")'.op \in {"kickFind", "close"}
    \/ \E n \in Nicks : CmdBan(n) /\ NowAt("console", FindBanned(n))
    \/ \E s \in Sess : /\ hit' = hit \cup {s}
                       /\ NowAt("console", SessionStep("erase", s))
                       /\ BanFind => s \in sessions /\ nick[s] = Cur("console").n
    \/ /\ Cur("console").op \in DropOps /\ ThreadStep("console")
       /\ Busy("console")' => /\ Cur("console")'.op \in {"load", "clear", "evict"}
                              /\ Cur("console")'.s = Cur("console").s

\* The console thread's commands and steps, and what it is left with.
LEMMA ConsoleHeadSteps ==
    ASSUME BaseInv, Console \/ ThreadStep("console")
    PROVE  ConsoleHead /\ todo'["io"] = todo["io"]
<1>. DEFINE c == Cur("console")
            Goal == ConsoleHead /\ todo'["io"] = todo["io"]
<1>1. "console" \in Threads /\ NoRoom \in 0 .. MaxRooms
  BY ConstantAssumption DEF Threads, NoRoom
<1>2. CASE UNCHANGED todo
  BY <1>2 DEF ConsoleHead
<1>3. LoginKept
  BY DEF Console, CmdCreate, CmdMove, CmdKick, CmdBan, CmdUnban, BanFind,
         ThreadStep, EraseSession, LoadActive, ClearActive, Evict, KickFind,
         LoginKept, connVars, loginVars
<1>4. ASSUME Busy("console"), Continue("console", <<>>) PROVE Goal
  BY <1>1, <1>3, <1>4, FinishStep
     DEF ConsoleHead, OthersKept, Busy, Cur, CloseSteps, Threads
<1>5. ASSUME Busy("console"), NEW d \in Step, Continue("console", <<d>>)
      PROVE  NowAt("console", d) /\ todo'["io"] = todo["io"]
  BY <1>1, <1>5, ContinueWith DEF BaseInv, NowAt, Threads
<1>6. Busy("console") => c \in Step /\ StepOK("console", c)
                         /\ c.from \in 0 .. MaxRooms
  <2>1. Busy("console") => c \in Step /\ StepOK("console", c)
    BY <1>1, CurOK
  <2>. QED BY <2>1 DEF Step
<1>7. ASSUME Busy("console"), NEW found \in SUBSET Sess,
             \/ \E s \in found : Expel("console", s)
             \/ found = {} /\ NobodyFound("console"),
             BanFind => \A s \in found : s \in sessions /\ nick[s] = c.n
      PROVE  Goal
  <2>1. CASE NobodyFound("console")
    BY <1>4, <1>7, <2>1 DEF NobodyFound
  <2>2. ASSUME NEW s \in found, Expel("console", s) PROVE Goal
    <3>1. SessionStep("erase", s) \in Step
      BY StepTypes DEF Ops
    <3>2. NowAt("console", SessionStep("erase", s)) /\ todo'["io"] = todo["io"]
      BY <1>5, <1>7, <2>2, <3>1 DEF Expel, Disconnect
    <3>. QED BY <1>7, <2>2, <3>2 DEF Expel, ConsoleHead
  <2>. QED BY <1>7, <2>1, <2>2
<1>8. ASSUME NEW nm \in RoomNames, CmdCreate(nm) PROVE Goal
  BY <1>2, <1>8 DEF CmdCreate
<1>9. ASSUME NEW r \in RoomIds, CmdMove(r) PROVE Goal
  BY <1>2, <1>9 DEF CmdMove
<1>10. ASSUME NEW r \in RoomIds, NEW n \in Nicks, CmdKick(r, n) PROVE Goal
  <2>1. r \in 0 .. MaxRooms
    BY ConstantAssumption DEF RoomIds
  <2>. QED BY <1>1, <1>3, <1>10, <2>1, NewStep, StepTypes
           DEF CmdKick, ConsoleHead, NowAt, OthersKept, Busy, Cur, Threads,
               SessionOps, IoOps, ProofOps, DropOps
<1>11. ASSUME NEW n \in Nicks, CmdBan(n) PROVE Goal
  BY <1>1, <1>3, <1>11, NewStep, StepTypes
     DEF CmdBan, ConsoleHead, NowAt, OthersKept, Threads, SessionOps, IoOps,
         ProofOps, DropOps
<1>12. ASSUME NEW n \in Nicks, CmdUnban(n) PROVE Goal
  BY <1>2, <1>12 DEF CmdUnban
<1>13. CASE BanFind
  <2>. DEFINE found == {s \in sessions : nick[s] = c.n}
  <2>1. Busy("console") /\ found \in SUBSET Sess
    BY <1>13 DEF BanFind, AtOp, Busy, BaseInv, TypeOK
  <2>2. \/ \E s \in found : Expel("console", s)
        \/ found = {} /\ NobodyFound("console")
    BY <1>13 DEF BanFind
  <2>. QED BY <1>7, <2>1, <2>2
<1>14. CASE KickFind("console")
  <2>. DEFINE found == {s \in members[c.to] : nick[s] = c.n}
  <2>1. Busy("console") /\ c.op = "kickFind"
    BY <1>14 DEF KickFind, AtOp, Busy, Cur
  <2>2. found \in SUBSET Sess
    BY <1>6, <2>1 DEF StepOK, BaseInv, TypeOK
  <2>3. \/ \E s \in found : Expel("console", s)
        \/ found = {} /\ NobodyFound("console")
    BY <1>14 DEF KickFind
  <2>4. ~BanFind
    BY <2>1 DEF BanFind, AtOp, Cur
  <2>. QED BY <1>7, <2>1, <2>2, <2>3, <2>4
<1>15. CASE EraseSession("console") \/ LoadActive("console")
            \/ ClearActive("console")
  <2>1. Busy("console") /\ c.op \in DropOps
    BY <1>15 DEF EraseSession, LoadActive, ClearActive, AtOp, Busy, Cur, DropOps
  <2>2. c.s \in Sess /\ c.from \in 0 .. MaxRooms /\ active[c.s] \in 0 .. MaxRooms
    BY <1>6, <2>1 DEF StepOK, SessionOps, BaseInv, TypeOK
  <2>3. CASE Continue("console", <<>>)
    BY <1>4, <2>1, <2>3
  <2>4. ASSUME NEW op \in {"load", "clear", "evict"},
               NEW from \in 0 .. MaxRooms,
               Continue("console", <<RoomStep(op, c.s, from, NoRoom)>>)
        PROVE  Goal
    <3>. DEFINE d == RoomStep(op, c.s, from, NoRoom)
    <3>1. d \in Step /\ d.op = op /\ d.s = c.s
      BY <1>1, <2>2, StepTypes DEF Ops
    <3>2. NowAt("console", d) /\ todo'["io"] = todo["io"]
      BY <1>5, <2>1, <2>4, <3>1
    <3>. QED BY <1>15, <2>1, <3>1, <3>2
             DEF ConsoleHead, NowAt, Cur, ThreadStep
  <2>5. CASE EraseSession("console")
    BY <1>1, <2>4, <2>5 DEF EraseSession, SessionStep
  <2>6. CASE LoadActive("console")
    BY <2>2, <2>4, <2>6 DEF LoadActive
  <2>7. CASE ClearActive("console")
    BY <2>2, <2>3, <2>4, <2>7 DEF ClearActive
  <2>. QED BY <1>15, <2>5, <2>6, <2>7
<1>16. CASE Evict("console")
  BY <1>4, <1>16 DEF Evict, AtOp, Busy
<1>. QED BY <1>8, <1>9, <1>10, <1>11, <1>12, <1>13, <1>14, <1>15, <1>16
         DEF Console, ThreadStep

\* Every step: the heads of both threads.
LEMMA Heads ==
    ASSUME BaseInv, [Next]_vars
    PROVE  /\ IoHead /\ ConsoleHead
           /\ todo'["io"] = todo["io"] \/ todo'["console"] = todo["console"]
<1>1. CASE UNCHANGED vars \/ Stop
  BY <1>1 DEF vars, Stop, IoHead, ConsoleHead
<1>2. ASSUME NEW s \in Sess, Connection(s) \/ Frame(s)
      PROVE  IoHead /\ todo'["console"] = todo["console"]
  BY <1>2, IoHeadFrame
<1>3. CASE IoStep \/ ThreadStep("io")
  BY <1>3, IoHeadSteps DEF ConsoleHead
<1>4. CASE Console \/ ThreadStep("console")
  BY <1>4, ConsoleHeadSteps DEF IoHead
<1>. QED BY <1>1, <1>2, <1>3, <1>4 DEF Next, Threads, ConsoleHead

-----------------------------------------------------------------------------
(***************************************************************************)
(* Logins: the inductive invariants.                                       *)
(***************************************************************************)
NamelessBeforeAccept == \A s \in Sess : life[s] = "absent" => nick[s] = None

\* The name a proof is about to bind is still free: only the io thread logs
\* sessions in, and it is busy with this one.
NameStillFree ==
    AtOp("io", "proofBind") => ~Taken(pending[Cur("io").s].nick)

LoginInv == NamelessBeforeAccept /\ NameStillFree /\ NicknameUnique /\ IdentityHeld

\* A login past its ban check for a banned name has been overtaken.
OvertakenSlipped ==
    \A op \in {"proofTaken", "proofBind"} :
        AtOp("io", op) /\ pending[Cur("io").s].nick \in banned =>
            Cur("io").s \in slipped

\* A listed session with a banned name slipped through, or the console thread
\* is on its way to it.
BanReaches ==
    \A s \in sessions : nick[s] \in banned =>
        \/ s \in slipped
        \/ AtOp("console", "banFind") /\ Cur("console").n = nick[s]
        \/ AtOp("console", "erase") /\ Cur("console").s = s

BanInv == OvertakenSlipped /\ BanReaches

-----------------------------------------------------------------------------
(***************************************************************************)
(* What a step changes of a login.                                         *)
(***************************************************************************)

\* The binding of a proof that is not refused.
Binds(s) ==
    /\ AtOp("io", "proofBind") /\ s = Cur("io").s
    /\ ~BindRefuses(pending[s].nick, pending[s].key)
    /\ identities' = [identities EXCEPT ![pending[s].nick] = pending[s].key]
    /\ nick' = [nick EXCEPT ![s] = pending[s].nick]
    /\ UNCHANGED <<sessions, life, negotiated, authenticated, banned, slipped>>
    /\ todo'["console"] = todo["console"]


\* Only a binding changes nicknames and identities; only an accepted session
\* enters the list; what a session has passed it does not have to pass again.
LoginFrame ==
    /\ UNCHANGED <<nick, identities>> \/ \E s \in Sess : Binds(s)
    /\ sessions' \subseteq sessions \/ \E s \in Sess : Accept(s)
    /\ \A s \in Sess : /\ life'[s] = "absent" => life[s] = "absent"
                       /\ negotiated[s] => negotiated'[s]
                       /\ authenticated[s] => authenticated'[s]

\* Every step keeps to LoginFrame.
LEMMA LoginFrameStep ==
    ASSUME BaseInv, [Next]_vars
    PROVE  LoginFrame
<1>. USE DEF LoginFrame, connVars, loginVars, roomVars
<1>1. CASE UNCHANGED vars \/ Stop
  BY <1>1 DEF vars, Stop
<1>2. ASSUME NEW s \in Sess, Connection(s) PROVE LoginFrame
  BY <1>2 DEF Connection, Accept, HandshakeOk, HandshakeFail, StreamCloses,
              ReadError, BaseInv, TypeOK
<1>3. ASSUME NEW s \in Sess, Frame(s) PROVE LoginFrame
  BY <1>3 DEF Frame, HandleHello, HandleUnsupported, HandleAuthenticate,
              HandleIdentify, HandleProof, HandleDisconnect, HandleJoinRoom,
              HandleCreateRoom, HandleKick, Reject, BaseInv, TypeOK
<1>4. CASE ProofBanned \/ ProofTaken \/ MoveLoad \/ Move \/ CloseStep
  BY <1>4 DEF ProofBanned, ProofTaken, MoveLoad, Move, CloseStep, Reject, BaseInv,
              TypeOK
<1>5. CASE ProofBind
  <2>1. PICK s \in Sess : s = Cur("io").s
    <3>1. Busy("io") /\ Cur("io").op = "proofBind"
      BY <1>5 DEF ProofBind, AtOp, Busy, Cur
    <3>. QED BY <3>1, CurOK DEF StepOK, SessionOps, IoOps, ProofOps, Threads
  <2>2. CASE Reject(s) /\ UNCHANGED loginVars
    BY <1>5, <2>2 DEF ProofBind, Reject, BaseInv, TypeOK
  <2>3. CASE /\ ~BindRefuses(pending[s].nick, pending[s].key)
             /\ identities' = [identities EXCEPT ![pending[s].nick] = pending[s].key]
             /\ nick' = [nick EXCEPT ![s] = pending[s].nick]
             /\ Continue("io", <<MoveTo(s, Lobby)>>)
             /\ UNCHANGED <<life, link>>
    <3>1. todo'["console"] = todo["console"]
      BY <1>5, IoHeadSteps DEF IoStep
    <3>2. Binds(s)
      BY <1>5, <2>1, <2>3, <3>1 DEF ProofBind, Binds
    <3>. QED BY <1>5, <2>3, <3>2 DEF ProofBind
  <2>. QED BY <1>5, <2>1, <2>2, <2>3 DEF ProofBind
<1>6. ASSUME NEW t \in Threads, ThreadStep(t) PROVE LoginFrame
  BY <1>6 DEF ThreadStep, EraseSession, LoadActive, ClearActive, Evict, KickFind
<1>7. CASE Console
  BY <1>7 DEF Console, CmdCreate, CmdMove, CmdKick, CmdBan, CmdUnban, BanFind
<1>. QED BY <1>1, <1>2, <1>3, <1>4, <1>5, <1>6, <1>7 DEF Next, IoStep

\* What the console thread, and every step while the io thread is idle, leaves
\* to a login that is under way.
LEMMA ConsoleLeavesLogins ==
    ASSUME BaseInv, Console \/ ThreadStep("console")
    PROVE  /\ LoginKept /\ UNCHANGED identities
           /\ sessions' \subseteq sessions /\ slipped \subseteq slipped'
           /\ banned' \subseteq banned \/ \E n \in Nicks : CmdBan(n)
BY DEF Console, CmdCreate, CmdMove, CmdKick, CmdBan, CmdUnban, BanFind,
       ThreadStep, EraseSession, LoadActive, ClearActive, Evict, KickFind,
       LoginKept, connVars, loginVars

-----------------------------------------------------------------------------
(***************************************************************************)
(* LoginInv: nicknames and identities.                                     *)
(***************************************************************************)

\* A session that is bound was proving that it has the pending key.
LEMMA BindingSession ==
    ASSUME BaseInv, NEW s \in Sess, Binds(s)
    PROVE  /\ Proving(s) /\ pending[s].nick \in Nicks /\ pending[s].key \in Keys
           /\ AtOp("io", "proofBind") /\ Cur("io").s = s
<1>1. Busy("io") /\ Cur("io").op = "proofBind" /\ Cur("io").s = s
  BY DEF Binds, AtOp, Busy, Cur
<1>2. Proving(s)
  BY <1>1, CurOK DEF StepOK, ProofOps, Threads
<1>3. pending[s].nick \in Nicks /\ pending[s].key \in Keys
  BY <1>2 DEF Proving, ValidProof, BaseInv, TypeOK
<1>. QED BY <1>2, <1>3 DEF Binds

\* Every step keeps LoginInv.
LEMMA LoginInvStep ==
    ASSUME BaseInv, LoginInv, [Next]_vars
    PROVE  LoginInv'
<1>1. LoginFrame
  BY LoginFrameStep
<1>2. NamelessBeforeAccept'
  <2>1. CASE UNCHANGED nick
    BY <1>1, <2>1 DEF LoginFrame, LoginInv, NamelessBeforeAccept
  <2>2. ASSUME NEW s \in Sess, Binds(s) PROVE NamelessBeforeAccept'
    BY <2>2, BindingSession
       DEF Binds, Proving, LoginInv, NamelessBeforeAccept, BaseInv, TypeOK
  <2>. QED BY <1>1, <2>1, <2>2 DEF LoginFrame
<1>3. NameStillFree'
  <2>. SUFFICES ASSUME AtOp("io", "proofBind")'
                PROVE  ~Taken(pending[Cur("io").s].nick)'
    BY DEF NameStillFree
  <2>1. Busy("io")' /\ Cur("io")'.op = "proofBind"
    BY DEF AtOp, Busy, Cur
  <2>2. CASE /\ todo'["io"] = todo["io"]
             /\ Console \/ ThreadStep("console") \/ UNCHANGED vars
    <3>1. /\ UNCHANGED <<nick, pending>> /\ sessions' \subseteq sessions
      BY <2>2, ConsoleLeavesLogins DEF vars, loginVars, LoginKept
    <3>2. AtOp("io", "proofBind") /\ Cur("io")' = Cur("io")
      BY <2>2 DEF AtOp, Cur
    <3>. QED BY <3>1, <3>2 DEF LoginInv, NameStillFree, Taken
  <2>3. CASE /\ ProofTaken /\ ~NameGone(Cur("io").s)
             /\ NowAt("io", SessionStep("proofBind", Cur("io").s))
    <3>1. Cur("io").s \in Sess
      <4>1. Busy("io") /\ Cur("io").op = "proofTaken"
        BY <2>3 DEF ProofTaken, AtOp, Busy, Cur
      <4>. QED BY <4>1, CurOK DEF StepOK, SessionOps, IoOps, ProofOps, Threads
    <3>2. Cur("io")'.s = Cur("io").s
      BY <2>3, <3>1, StepTypes DEF NowAt, Cur, Ops
    <3>3. UNCHANGED <<nick, pending, sessions>>
      BY <2>3 DEF ProofTaken, loginVars
    <3>. QED BY <2>3, <3>2, <3>3 DEF NameGone, Taken
  <2>4. ~(Idle("io") /\ todo'["io"] = todo["io"])
    BY <2>1 DEF Idle, Busy
  <2>5. /\ Cur("io")'.op \notin FreshOps
        /\ ~NowAt("io", SessionStep("proofTaken", Cur("io").s)) \/ ~ProofBanned
        /\ ~MoveLoad \/ ~NowAt("io", RoomStep("move", Cur("io").s,
                                    active[Cur("io").s], Cur("io").to))
        /\ ~LoadActive("io") \/ ~NowAt("io", RoomStep("clear", Cur("io").s,
                                    active[Cur("io").s], NoRoom))
        /\ ~ClearActive("io") \/ ~NowAt("io", RoomStep("evict", Cur("io").s,
                                    Cur("io").from, NoRoom))
    BY <2>1 DEF FreshOps, NowAt, Cur, RoomStep, SessionStep
  <2>6. IoHead
    BY Heads
  <2>. QED BY <2>1, <2>2, <2>3, <2>4, <2>5, <2>6 DEF IoHead
<1>4. NicknameUnique'
  <2>1. CASE UNCHANGED nick
    <3>1. CASE sessions' \subseteq sessions
      BY <2>1, <3>1 DEF LoginInv, NicknameUnique
    <3>2. ASSUME NEW s \in Sess, Accept(s) PROVE NicknameUnique'
      BY <2>1, <3>2 DEF Accept, LoginInv, NicknameUnique, NamelessBeforeAccept
    <3>. QED BY <1>1, <3>1, <3>2 DEF LoginFrame
  <2>2. ASSUME NEW s \in Sess, Binds(s) PROVE NicknameUnique'
    <3>1. ~Taken(pending[s].nick)
      BY <2>2, BindingSession DEF LoginInv, NameStillFree
    <3>. QED BY <2>2, <3>1
             DEF Binds, Taken, LoginInv, NicknameUnique, BaseInv, TypeOK
  <2>. QED BY <1>1, <2>1, <2>2 DEF LoginFrame
<1>5. IdentityHeld'
  <2>1. CASE UNCHANGED <<nick, identities>>
    BY <1>1, <2>1 DEF LoginFrame, LoginInv, IdentityHeld
  <2>2. ASSUME NEW s \in Sess, Binds(s) PROVE IdentityHeld'
    <3>. SUFFICES ASSUME NEW q \in Sess, nick'[q] # None
                  PROVE  /\ negotiated'[q]
                         /\ HasPassword => authenticated'[q]
                         /\ identities'[nick'[q]] = KeyOf[q]
      BY DEF IdentityHeld
    <3>1. Proving(s) /\ pending[s].nick \in Nicks /\ pending[s].key = KeyOf[s]
      BY <2>2, BindingSession DEF Proving, ValidProof
    <3>2. CASE q = s
      BY <1>1, <2>2, <3>1, <3>2
         DEF Binds, Proving, Ready, LoginFrame, BaseInv, TypeOK
    <3>3. CASE q # s
      <4>1. nick'[q] = nick[q] /\ nick[q] \in Nicks /\ identities[nick[q]] = KeyOf[q]
        BY <2>2, <3>3 DEF Binds, BaseInv, TypeOK, LoginInv, IdentityHeld
      <4>2. KeyOf[q] # None
        BY ConstantAssumption
      <4>3. identities'[nick[q]] = KeyOf[q]
        BY <2>2, <3>1, <4>1, <4>2 DEF Binds, BindRefuses, BaseInv, TypeOK
      <4>. QED BY <1>1, <4>1, <4>3 DEF LoginFrame, LoginInv, IdentityHeld
    <3>. QED BY <3>2, <3>3
  <2>. QED BY <1>1, <2>1, <2>2 DEF LoginFrame
<1>. QED BY <1>2, <1>3, <1>4, <1>5 DEF LoginInv

\* The first state satisfies LoginInv.
LEMMA LoginInvInit ==
    ASSUME Init
    PROVE  LoginInv
BY DEF Init, LoginInv, NamelessBeforeAccept, NameStillFree, NicknameUnique,
       IdentityHeld, AtOp, Threads

\* However many logins for a nickname are under way at once, no two listed
\* sessions share one and none has the local user's.
THEOREM NicknamesAreUnique == Spec => []NicknameUnique
<1>1. Init => BaseInv /\ LoginInv
  BY BaseInvInit, LoginInvInit
<1>2. BaseInv /\ LoginInv /\ [Next]_vars => BaseInv' /\ LoginInv'
  BY BaseInvStep, LoginInvStep
<1>3. LoginInv => NicknameUnique
  BY DEF LoginInv
<1>. QED BY <1>1, <1>2, <1>3, PTL DEF Spec

\* Whoever has a nickname has passed the handshake and the password and has
\* the secret key that the nickname is bound to.
THEOREM NicknamesAreHeldByKey == Spec => []IdentityHeld
<1>1. Init => BaseInv /\ LoginInv
  BY BaseInvInit, LoginInvInit
<1>2. BaseInv /\ LoginInv /\ [Next]_vars => BaseInv' /\ LoginInv'
  BY BaseInvStep, LoginInvStep
<1>3. LoginInv => IdentityHeld
  BY DEF LoginInv
<1>. QED BY <1>1, <1>2, <1>3, PTL DEF Spec

\* No step of the server rebinds a nickname that has a key.
THEOREM BindingsArePermanent == Spec => IdentityPermanent
<1>1. Init => BaseInv
  BY BaseInvInit
<1>2. BaseInv /\ [Next]_vars => BaseInv'
  BY BaseInvStep
<1>3. BaseInv /\ [Next]_vars =>
        [\A n \in Nicks : identities[n] # None => identities'[n] = identities[n]]_vars
  <2>. SUFFICES ASSUME BaseInv, [Next]_vars, NEW n \in Nicks, identities[n] # None
                PROVE  identities'[n] = identities[n]
    OBVIOUS
  <2>1. LoginFrame
    BY LoginFrameStep
  <2>2. CASE UNCHANGED identities
    BY <2>2
  <2>3. ASSUME NEW s \in Sess, Binds(s) PROVE identities'[n] = identities[n]
    BY <2>3 DEF Binds, BindRefuses, BaseInv, TypeOK
  <2>. QED BY <2>1, <2>2, <2>3 DEF LoginFrame
<1>. QED BY <1>1, <1>2, <1>3, PTL DEF Spec, IdentityPermanent

-----------------------------------------------------------------------------
(***************************************************************************)
(* BanInv: bans.                                                           *)
(***************************************************************************)

\* How a step of the io thread changes what a ban looks at: not at all, by an
\* accepted session, or by a binding.
LEMMA IoLeavesBans ==
    ASSUME [Next]_vars
    PROVE  \/ Console \/ ThreadStep("console")
           \/ UNCHANGED <<banned, slipped>>
BY DEF Next, vars, Stop, Connection, Accept, HandshakeOk, HandshakeFail,
       StreamCloses, ReadError, Frame, HandleHello, HandleUnsupported,
       HandleAuthenticate, HandleIdentify, HandleProof, HandleDisconnect,
       HandleJoinRoom, HandleCreateRoom, HandleKick, IoStep, ProofBanned,
       ProofTaken, ProofBind, MoveLoad, Move, CloseStep, Threads, ThreadStep,
       EraseSession, LoadActive, ClearActive, Evict, KickFind

\* A login stays marked once a ban has overtaken it, and is marked when one does.
LEMMA OvertakenStep ==
    ASSUME BaseInv, OvertakenSlipped, [Next]_vars
    PROVE  OvertakenSlipped'
<1>. SUFFICES ASSUME NEW op \in {"proofTaken", "proofBind"}, AtOp("io", op)',
                     pending'[Cur("io")'.s].nick \in banned'
              PROVE  Cur("io")'.s \in slipped'
  BY DEF OvertakenSlipped
<1>1. Busy("io")' /\ Cur("io")'.op = op
  BY DEF AtOp, Busy, Cur
<1>2. CASE /\ todo'["io"] = todo["io"]
           /\ Console \/ ThreadStep("console") \/ UNCHANGED vars
  <2>1. /\ UNCHANGED pending /\ slipped \subseteq slipped'
        /\ banned' \subseteq banned \/ \E n \in Nicks : CmdBan(n)
    BY <1>2, ConsoleLeavesLogins DEF vars, loginVars, LoginKept
  <2>2. AtOp("io", op) /\ Cur("io")' = Cur("io") /\ Busy("io")
    BY <1>2, <1>1 DEF AtOp, Cur, Busy
  <2>3. CASE pending[Cur("io").s].nick \in banned
    BY <2>1, <2>2, <2>3 DEF OvertakenSlipped
  <2>4. ASSUME NEW n \in Nicks, CmdBan(n), pending[Cur("io").s].nick \notin banned
        PROVE  Cur("io").s \in slipped'
    <3>1. Cur("io").s \in Sess /\ pending[Cur("io").s] # None
      BY <1>1, <2>2, CurOK DEF StepOK, SessionOps, IoOps, ProofOps, Threads,
                               Proving, ValidProof
    <3>2. pending[Cur("io").s].nick = n
      BY <2>1, <2>2, <2>4 DEF CmdBan
    <3>3. Cur("io").s \in PastBanCheck(n)
      BY <2>2, <3>1, <3>2 DEF PastBanCheck
    <3>. QED BY <2>4, <3>3 DEF CmdBan
  <2>. QED BY <2>1, <2>2, <2>3, <2>4
<1>3. CASE /\ ProofBanned /\ ~BanHits(Cur("io").s)
           /\ NowAt("io", SessionStep("proofTaken", Cur("io").s))
  <2>1. Cur("io")'.s = Cur("io").s
    BY <1>3 DEF NowAt, Cur, SessionStep, RoomStep
  <2>. QED BY <1>3, <2>1 DEF ProofBanned, BanHits, loginVars
<1>4. CASE /\ ProofTaken /\ ~NameGone(Cur("io").s)
           /\ NowAt("io", SessionStep("proofBind", Cur("io").s))
  <2>1. Cur("io")'.s = Cur("io").s
    BY <1>4 DEF NowAt, Cur, SessionStep, RoomStep
  <2>. QED BY <1>4, <2>1 DEF ProofTaken, loginVars, OvertakenSlipped
<1>5. ~(Idle("io") /\ todo'["io"] = todo["io"])
  BY <1>1 DEF Idle, Busy
<1>6. /\ Cur("io")'.op \notin FreshOps
      /\ ~MoveLoad \/ ~NowAt("io", RoomStep("move", Cur("io").s,
                                  active[Cur("io").s], Cur("io").to))
      /\ ~LoadActive("io") \/ ~NowAt("io", RoomStep("clear", Cur("io").s,
                                  active[Cur("io").s], NoRoom))
      /\ ~ClearActive("io") \/ ~NowAt("io", RoomStep("evict", Cur("io").s,
                                  Cur("io").from, NoRoom))
  BY <1>1 DEF FreshOps, NowAt, Cur, RoomStep, SessionStep
<1>7. IoHead
  BY Heads
<1>. QED BY <1>1, <1>2, <1>3, <1>4, <1>5, <1>6, <1>7 DEF IoHead

\* Every step keeps BanReaches.
LEMMA BanReachesStep ==
    ASSUME BaseInv, LoginInv, BanInv, [Next]_vars
    PROVE  BanReaches'
<1>1. ASSUME UNCHANGED <<banned, slipped>>, todo'["console"] = todo["console"]
      PROVE  BanReaches'
  <2>1. LoginFrame
    BY LoginFrameStep
  <2>2. CASE UNCHANGED nick /\ sessions' \subseteq sessions
    BY <1>1, <2>2 DEF BanInv, BanReaches, AtOp, Cur
  <2>3. ASSUME NEW s \in Sess, Accept(s) PROVE BanReaches'
    <3>1. nick[s] \notin banned
      BY <2>3, ConstantAssumption
         DEF Accept, LoginInv, NamelessBeforeAccept, BaseInv, TypeOK
    <3>. QED BY <2>3, <3>1 DEF Accept, loginVars, BanInv, BanReaches, AtOp, Cur
  <2>4. ASSUME NEW s \in Sess, Binds(s) PROVE BanReaches'
    <3>1. pending[s].nick \in banned => s \in slipped
      BY <2>4 DEF Binds, BanInv, OvertakenSlipped
    <3>. QED BY <2>4, <3>1 DEF Binds, BaseInv, TypeOK, BanInv, BanReaches, AtOp, Cur
  <2>5. UNCHANGED nick \/ \E s \in Sess : Binds(s)
    BY <2>1 DEF LoginFrame
  <2>. QED BY <2>1, <2>2, <2>3, <2>4, <2>5 DEF LoginFrame
<1>2. ASSUME ~AtOp("console", "banFind"), ~AtOp("console", "erase"),
             UNCHANGED nick, sessions' \subseteq sessions,
             banned' \subseteq banned, slipped \subseteq slipped'
      PROVE  BanReaches'
  BY <1>2 DEF BanInv, BanReaches
<1>3. CASE Console
  <2>1. UNCHANGED nick /\ sessions' \subseteq sessions /\ slipped \subseteq slipped'
    BY <1>3, ConsoleLeavesLogins DEF LoginKept
  <2>2. ASSUME NEW nm \in RoomNames, CmdCreate(nm) PROVE BanReaches'
    BY <1>1, <2>2 DEF CmdCreate
  <2>3. ASSUME NEW r \in RoomIds, CmdMove(r) PROVE BanReaches'
    BY <1>1, <2>3 DEF CmdMove
  <2>4. ASSUME NEW r \in RoomIds, NEW n \in Nicks, CmdKick(r, n) PROVE BanReaches'
    BY <1>2, <2>1, <2>4 DEF CmdKick, Issues, Idle, AtOp
  <2>5. ASSUME NEW n \in Nicks, CmdBan(n) PROVE BanReaches'
    <3>1. \A s \in sessions : nick[s] \in banned => s \in slipped
      BY <2>5 DEF CmdBan, Issues, Idle, AtOp, BanInv, BanReaches
    <3>2. NowAt("console", FindBanned(n))
      BY <2>5, NewStep, StepTypes
         DEF CmdBan, LoginKept, connVars, loginVars, Threads, SessionOps, IoOps,
             ProofOps, DropOps
    <3>3. AtOp("console", "banFind")' /\ Cur("console")'.n = n
      BY <3>2, StepTypes DEF NowAt, AtOp, Cur
    <3>. QED BY <2>1, <2>5, <3>1, <3>3 DEF CmdBan, BanReaches
  <2>6. ASSUME NEW n \in Nicks, CmdUnban(n) PROVE BanReaches'
    BY <2>6 DEF CmdUnban, BanInv, BanReaches, AtOp, Cur, loginVars
  <2>7. CASE BanFind
    <3>1. /\ AtOp("console", "banFind") /\ Busy("console")
          /\ ~AtOp("console", "erase") /\ "console" \in Threads
          /\ UNCHANGED <<nick, sessions, banned, slipped>>
      BY <2>7 DEF BanFind, AtOp, Busy, Threads, loginVars
    <3>. SUFFICES ASSUME NEW s \in sessions, nick[s] \in banned, s \notin slipped
                  PROVE  AtOp("console", "erase")' /\ Cur("console")'.s = s
      BY <3>1 DEF BanReaches
    <3>2. nick[s] = Cur("console").n /\ nick[s] # None
      BY <3>1, ConstantAssumption DEF BanInv, BanReaches, BaseInv, TypeOK
    <3>3. PICK q \in sessions : nick[q] = Cur("console").n /\ Expel("console", q)
      BY <2>7, <3>2 DEF BanFind
    <3>4. q = s
      BY <3>2, <3>3 DEF LoginInv, NicknameUnique
    <3>5. s \in Sess /\ SessionStep("erase", s) \in Step
      BY StepTypes DEF BaseInv, TypeOK, Ops
    <3>6. NowAt("console", SessionStep("erase", s))
      BY <3>1, <3>3, <3>4, <3>5, ContinueWith
         DEF Expel, Disconnect, BaseInv, NowAt
    <3>. QED BY <3>6 DEF NowAt, AtOp, Cur, SessionStep, RoomStep
  <2>. QED BY <1>3, <2>2, <2>3, <2>4, <2>5, <2>6, <2>7 DEF Console
<1>4. CASE ThreadStep("console")
  <2>1. /\ UNCHANGED <<nick, banned, slipped>> /\ sessions' \subseteq sessions
    BY <1>4 DEF ThreadStep, EraseSession, LoadActive, ClearActive, Evict,
                KickFind, loginVars
  <2>2. CASE EraseSession("console")
    BY <2>1, <2>2 DEF EraseSession, AtOp, Cur, BanInv, BanReaches
  <2>3. CASE ~EraseSession("console")
    BY <1>2, <1>4, <2>1, <2>3
       DEF ThreadStep, LoadActive, ClearActive, Evict, KickFind, AtOp
  <2>. QED BY <2>2, <2>3
<1>5. CASE ~Console /\ ~ThreadStep("console")
  <2>1. UNCHANGED <<banned, slipped>>
    BY <1>5, IoLeavesBans
  <2>2. todo'["console"] = todo["console"]
    <3>1. CASE UNCHANGED vars \/ Stop
      BY <3>1 DEF vars, Stop
    <3>2. ASSUME NEW s \in Sess, Connection(s) \/ Frame(s)
          PROVE  todo'["console"] = todo["console"]
      BY <3>2, IoHeadFrame
    <3>3. CASE IoStep \/ ThreadStep("io")
      BY <3>3, IoHeadSteps
    <3>. QED BY <1>5, <3>1, <3>2, <3>3 DEF Next, Threads
  <2>. QED BY <1>1, <2>1, <2>2
<1>. QED BY <1>3, <1>4, <1>5

\* The first state satisfies BanInv.
LEMMA BanInvInit ==
    ASSUME Init
    PROVE  BanInv
BY DEF Init, BanInv, OvertakenSlipped, BanReaches, AtOp, Threads

\* Once ban_user has returned, the only listed sessions with a banned name are
\* logins that the ban overtook between their check and their binding: the
\* window in client_session.cpp is the only way past a ban.
THEOREM BansMissOnlyOvertakenLogins == Spec => []BanMissesOnlyOvertaken
<1>1. Init => BaseInv /\ LoginInv /\ BanInv
  BY BaseInvInit, LoginInvInit, BanInvInit
<1>2. BaseInv /\ LoginInv /\ BanInv /\ [Next]_vars => BaseInv' /\ LoginInv' /\ BanInv'
  BY BaseInvStep, LoginInvStep, OvertakenStep, BanReachesStep DEF BanInv
<1>3. BanInv => BanMissesOnlyOvertaken
  BY DEF BanInv, BanReaches, BanMissesOnlyOvertaken, Idle, AtOp
<1>. QED BY <1>1, <1>2, <1>3, PTL DEF Spec

-----------------------------------------------------------------------------
(***************************************************************************)
(* Rooms: the inductive invariant.                                         *)
(***************************************************************************)

\* The room a session counts as a member of: its active room, or the one that
\* the io thread is about to take it out of.
Home(s) == IF AtOp("io", "evict") /\ Cur("io").s = s
           THEN Cur("io").from ELSE active[s]

\* The room a pending step of the io thread has read is still the active one.
FromIsCurrent ==
    Cur("io").s \notin hit =>
        /\ AtOp("io", "clear") => Cur("io").from = active[Cur("io").s]
        /\ AtOp("io", "move")  => Cur("io").from = active[Cur("io").s]
        /\ AtOp("io", "evict") => active[Cur("io").s] = NoRoom

\* The console thread disconnects only sessions it has found itself.
ConsoleDropsHit ==
    Busy("console") /\ Cur("console").op \in DropOps => Cur("console").s \in hit

HomesOK ==
    up => \A s \in Sess \ hit : \A r \in RoomIds :
              s \in members[r] <=> Home(s) = r

RoomInv == FromIsCurrent /\ ConsoleDropsHit /\ HomesOK

-----------------------------------------------------------------------------
(***************************************************************************)
(* What a step changes of a membership.                                    *)
(***************************************************************************)

\* Sessions are hit once and for all, and a stopped server stays stopped.
LEMMA HitGrows ==
    ASSUME [Next]_vars
    PROVE  hit \subseteq hit' /\ (up' => up)
<1>. USE DEF connVars, loginVars, roomVars
<1>1. CASE UNCHANGED vars \/ Stop
  BY <1>1 DEF vars, Stop
<1>2. ASSUME NEW s \in Sess, Connection(s) \/ Frame(s)
      PROVE  hit \subseteq hit' /\ (up' => up)
  <2>1. UNCHANGED <<hit, up>>
    BY <1>2 DEF Connection, Accept, HandshakeOk, HandshakeFail, StreamCloses,
                ReadError, Frame, HandleHello, HandleUnsupported,
                HandleAuthenticate, HandleIdentify, HandleProof,
                HandleDisconnect, HandleJoinRoom, HandleCreateRoom, HandleKick
  <2>. QED BY <2>1
<1>3. CASE IoStep
  BY <1>3 DEF IoStep, ProofBanned, ProofTaken, ProofBind, MoveLoad, Move, CloseStep
<1>4. ASSUME NEW t \in Threads, ThreadStep(t)
      PROVE  hit \subseteq hit' /\ (up' => up)
  BY <1>4 DEF ThreadStep, EraseSession, LoadActive, ClearActive, Evict, KickFind,
              Expel, NobodyFound
<1>5. CASE Console
  <2>1. CASE BanFind
    BY <2>1 DEF BanFind, Expel, NobodyFound
  <2>2. CASE ~BanFind
    <3>1. UNCHANGED <<hit, up>>
      BY <1>5, <2>2 DEF Console, CmdCreate, CmdMove, CmdKick, CmdBan, CmdUnban
    <3>. QED BY <3>1
  <2>. QED BY <2>1, <2>2
<1>. QED BY <1>1, <1>2, <1>3, <1>4, <1>5 DEF Next

\* Only four steps write active_room_id_ or a member set; the others come to
\* no eviction and leave none behind.
LEMMA MembershipFrame ==
    ASSUME BaseInv, [Next]_vars
    PROVE  \/ Move \/ Stop
           \/ \E t \in Threads : ClearActive(t) \/ Evict(t)
           \/ /\ UNCHANGED <<active, members>>
              /\ \/ todo'["io"] = todo["io"]
                 \/ ~AtOp("io", "evict") /\ ~AtOp("io", "evict")'
<1>. USE DEF connVars, loginVars, roomVars
<1>. DEFINE Goal == /\ UNCHANGED <<active, members>>
                    /\ \/ todo'["io"] = todo["io"]
                       \/ ~AtOp("io", "evict") /\ ~AtOp("io", "evict")'
<1>1. CASE UNCHANGED vars
  BY <1>1 DEF vars
<1>2. ASSUME IoHead, ~ClearActive("io"), todo'["io"] # todo["io"]
      PROVE  ~AtOp("io", "evict")'
  BY <1>2 DEF IoHead, AtOp, Busy, Cur, NowAt, RoomStep, SessionStep, FreshOps
<1>3. ASSUME NEW s \in Sess, Connection(s) \/ Frame(s) PROVE Goal
  <2>1. UNCHANGED <<active, members>> /\ Idle("io")
    BY <1>3 DEF Connection, Accept, HandshakeOk, HandshakeFail, StreamCloses,
                ReadError, Frame, HandleHello, HandleUnsupported,
                HandleAuthenticate, HandleIdentify, HandleProof,
                HandleDisconnect, HandleJoinRoom, HandleCreateRoom, HandleKick,
                Member, Handling
  <2>2. ~AtOp("io", "evict") /\ ~ClearActive("io") /\ IoHead
    BY <1>3, <2>1, IoHeadFrame DEF Idle, AtOp, ClearActive
  <2>. QED BY <1>2, <2>1, <2>2
<1>4. CASE IoStep
  <2>1. Move \/ (UNCHANGED <<active, members>> /\ ~AtOp("io", "evict"))
    BY <1>4 DEF IoStep, ProofBanned, ProofTaken, ProofBind, MoveLoad, CloseStep, AtOp
  <2>2. ~ClearActive("io") /\ IoHead
    BY <1>4, IoHeadSteps DEF IoStep, ProofBanned, ProofTaken, ProofBind,
                             MoveLoad, Move, CloseStep, AtOp, ClearActive
  <2>. QED BY <1>2, <2>1, <2>2
<1>5. CASE EraseSession("io") \/ LoadActive("io") \/ KickFind("io")
  <2>1. UNCHANGED <<active, members>> /\ ~AtOp("io", "evict")
    BY <1>5 DEF EraseSession, LoadActive, KickFind, AtOp
  <2>2. ~ClearActive("io") /\ IoHead
    BY <1>5, IoHeadSteps
       DEF ThreadStep, EraseSession, LoadActive, KickFind, AtOp, ClearActive
  <2>. QED BY <1>2, <2>1, <2>2
<1>6. CASE EraseSession("console") \/ LoadActive("console") \/ KickFind("console")
  BY <1>6, ConsoleHeadSteps DEF ThreadStep, EraseSession, LoadActive, KickFind
<1>7. CASE Console
  BY <1>7, ConsoleHeadSteps
     DEF Console, CmdCreate, CmdMove, CmdKick, CmdBan, CmdUnban, BanFind
<1>. QED BY <1>1, <1>3, <1>4, <1>5, <1>6, <1>7 DEF Next, ThreadStep, Threads

-----------------------------------------------------------------------------
(***************************************************************************)
(* RoomInv is inductive.                                                   *)
(***************************************************************************)

\* Every step keeps ConsoleDropsHit.
LEMMA ConsoleDropsHitStep ==
    ASSUME BaseInv, RoomInv, [Next]_vars
    PROVE  ConsoleDropsHit'
<1>1. ConsoleHead /\ hit \subseteq hit'
  BY Heads, HitGrows
<1>. SUFFICES ASSUME Busy("console")', Cur("console")'.op \in DropOps
              PROVE  Cur("console")'.s \in hit'
  BY DEF ConsoleDropsHit
<1>2. CASE todo'["console"] = todo["console"]
  BY <1>1, <1>2 DEF RoomInv, ConsoleDropsHit, Busy, Cur
<1>3. ASSUME NEW s \in Sess, hit' = hit \cup {s},
             NowAt("console", SessionStep("erase", s))
      PROVE  Cur("console")'.s \in hit'
  BY <1>3 DEF NowAt, Cur, SessionStep, RoomStep
<1>4. CASE /\ Cur("console").op \in DropOps /\ ThreadStep("console")
           /\ Cur("console")'.s = Cur("console").s
  <2>1. Busy("console")
    BY <1>4 DEF ThreadStep, EraseSession, LoadActive, ClearActive, Evict,
                KickFind, AtOp, Busy
  <2>. QED BY <1>1, <1>4, <2>1 DEF RoomInv, ConsoleDropsHit
<1>5. Cur("console")'.op \notin {"kickFind", "close"}
  BY DEF DropOps
<1>6. ASSUME NEW n \in Nicks, NowAt("console", FindBanned(n)) PROVE FALSE
  BY <1>6 DEF NowAt, Cur, FindBanned, DropOps
<1>. QED BY <1>1, <1>2, <1>3, <1>4, <1>5, <1>6 DEF ConsoleHead

\* Every step keeps FromIsCurrent.
LEMMA FromIsCurrentStep ==
    ASSUME BaseInv, RoomInv, [Next]_vars
    PROVE  FromIsCurrent'
<1>1. IoHead /\ hit \subseteq hit'
  BY Heads, HitGrows
<1>. DEFINE c == Cur("io")
<1>. SUFFICES ASSUME Cur("io")'.s \notin hit',
                     AtOp("io", "clear")' \/ AtOp("io", "move")' \/ AtOp("io", "evict")'
              PROVE  FromIsCurrent'
  BY DEF FromIsCurrent
<1>2. Busy("io")' /\ Cur("io")'.op \in {"clear", "move", "evict"}
  BY DEF AtOp, Busy, Cur
<1>3. CASE /\ todo'["io"] = todo["io"]
           /\ Console \/ ThreadStep("console") \/ UNCHANGED vars
  <2>1. Cur("io")' = c /\ c.s \notin hit /\ Busy("io")
        /\ \A op \in Ops : AtOp("io", op)' <=> AtOp("io", op)
    BY <1>1, <1>2, <1>3 DEF Cur, AtOp, Busy
  <2>2. c.s \in Sess
    BY <1>2, <2>1, CurOK DEF StepOK, SessionOps, IoOps, DropOps, Threads
  <2>3. active'[c.s] = active[c.s]
    <3>1. CASE ClearActive("console")
      <4>1. Cur("console").s \in hit
        BY <3>1 DEF ClearActive, AtOp, Cur, Busy, DropOps, RoomInv, ConsoleDropsHit
      <4>. QED BY <2>1, <2>2, <3>1, <4>1 DEF ClearActive, BaseInv, TypeOK
    <3>2. CASE ~ClearActive("console")
      BY <1>3, <3>2
         DEF Console, CmdCreate, CmdMove, CmdKick, CmdBan, CmdUnban, BanFind,
             ThreadStep, EraseSession, LoadActive, Evict, KickFind, vars
    <3>. QED BY <3>1, <3>2
  <2>. QED BY <2>1, <2>3 DEF RoomInv, FromIsCurrent, Ops
<1>4. CASE /\ MoveLoad
           /\ NowAt("io", RoomStep("move", c.s, active[c.s], c.to))
  BY <1>4 DEF MoveLoad, NowAt, RoomStep, FromIsCurrent, AtOp, Cur
<1>5. CASE /\ LoadActive("io")
           /\ NowAt("io", RoomStep("clear", c.s, active[c.s], NoRoom))
  BY <1>5 DEF LoadActive, NowAt, RoomStep, FromIsCurrent, AtOp, Cur
<1>6. CASE /\ ClearActive("io")
           /\ NowAt("io", RoomStep("evict", c.s, c.from, NoRoom))
  <2>1. c.s \in Sess
    <3>1. Busy("io") /\ c.op = "clear"
      BY <1>6 DEF ClearActive, AtOp, Busy, Cur
    <3>. QED BY <3>1, CurOK DEF StepOK, SessionOps, DropOps, Threads
  <2>2. active'[c.s] = NoRoom
    BY <1>6, <2>1 DEF ClearActive, BaseInv, TypeOK
  <2>3. Cur("io")'.s = c.s /\ Cur("io")'.op = "evict"
    BY <1>6 DEF NowAt, RoomStep, Cur
  <2>. QED BY <2>2, <2>3 DEF FromIsCurrent, AtOp, Cur
<1>7. /\ Cur("io")'.op \notin FreshOps
      /\ ~(Idle("io") /\ todo'["io"] = todo["io"])
      /\ ~NowAt("io", SessionStep("proofTaken", c.s))
      /\ ~NowAt("io", SessionStep("proofBind", c.s))
  BY <1>2 DEF FreshOps, Idle, Busy, NowAt, Cur, SessionStep, RoomStep
<1>. QED BY <1>1, <1>2, <1>3, <1>4, <1>5, <1>6, <1>7 DEF IoHead

\* Every step keeps HomesOK.
LEMMA HomesStep ==
    ASSUME BaseInv, RoomInv, [Next]_vars
    PROVE  HomesOK'
<1>. SUFFICES ASSUME up', NEW s \in Sess \ hit', NEW r \in RoomIds
              PROVE  s \in members'[r] <=> Home(s)' = r
  BY DEF HomesOK
<1>1. /\ s \in Sess /\ s \notin hit
      /\ s \in members[r] <=> Home(s) = r
  BY HitGrows DEF RoomInv, HomesOK
<1>2. NoRoom \notin RoomIds
  BY DEF NoRoom, RoomIds
<1>3. CASE /\ UNCHANGED <<active, members>>
           /\ \/ todo'["io"] = todo["io"]
              \/ ~AtOp("io", "evict") /\ ~AtOp("io", "evict")'
  BY <1>1, <1>3 DEF Home, AtOp, Cur
<1>4. CASE Stop
  BY <1>4 DEF Stop
<1>5. CASE Move
  <2>. DEFINE c == Cur("io")
  <2>1. Busy("io") /\ c.op = "move" /\ AtOp("io", "move") /\ ~AtOp("io", "evict")
    BY <1>5 DEF Move, AtOp, Busy, Cur
  <2>2. c \in Step /\ c.s \in Sess /\ c.to \in 0 .. MaxRooms
    <3>1. c \in Step /\ c.s \in Sess
      BY <2>1, CurOK DEF StepOK, SessionOps, IoOps, Threads
    <3>. QED BY <3>1 DEF Step
  <2>3. ~AtOp("io", "evict")'
    BY <1>5, <2>1, FinishStep DEF Move, Threads, AtOp, CloseSteps
  <2>4. Home(s) = active[s] /\ Home(s)' = active'[s]
    BY <2>1, <2>3 DEF Home
  <2>5. CASE s = c.s
    <3>1. c.from = active[s]
      BY <1>1, <2>1, <2>5 DEF RoomInv, FromIsCurrent
    <3>2. active'[s] = c.to
      BY <1>1, <1>5, <2>5 DEF Move, BaseInv, TypeOK
    <3>3. s \in members'[r] <=> r = c.to \/ (r # c.from /\ s \in members[r])
      BY <1>5, <2>5 DEF Move, MovedMember
    <3>. QED BY <1>1, <2>4, <3>1, <3>2, <3>3
  <2>6. CASE s # c.s
    <3>1. active'[s] = active[s]
      BY <1>1, <1>5, <2>6 DEF Move, BaseInv, TypeOK
    <3>2. s \in members'[r] <=> s \in members[r]
      BY <1>5, <2>6 DEF Move, MovedMember
    <3>. QED BY <1>1, <2>4, <3>1, <3>2
  <2>. QED BY <2>5, <2>6
<1>6. CASE Evict("io")
  <2>. DEFINE c == Cur("io")
  <2>1. Busy("io") /\ AtOp("io", "evict")
    BY <1>6 DEF Evict, AtOp, Busy
  <2>2. ~AtOp("io", "evict")'
    BY <1>6, <2>1, FinishStep DEF Evict, Threads, AtOp, CloseSteps
  <2>3. Home(s)' = active[s]
    BY <1>6, <2>2 DEF Home, Evict
  <2>4. CASE s = c.s
    <3>1. active[s] = NoRoom /\ Home(s) = c.from
      BY <1>1, <2>1, <2>4 DEF RoomInv, FromIsCurrent, Home
    <3>2. s \in members'[r] <=> s \in members[r] /\ r # c.from
      BY <1>6, <2>4 DEF Evict, BaseInv, TypeOK
    <3>. QED BY <1>1, <1>2, <2>3, <3>1, <3>2
  <2>5. CASE s # c.s
    <3>1. Home(s) = active[s]
      BY <2>5 DEF Home
    <3>2. s \in members'[r] <=> s \in members[r]
      BY <1>6, <2>5 DEF Evict, BaseInv, TypeOK
    <3>. QED BY <1>1, <2>3, <3>1, <3>2
  <2>. QED BY <2>4, <2>5
<1>7. CASE ClearActive("io")
  <2>. DEFINE c == Cur("io")
  <2>1. Busy("io") /\ c.op = "clear" /\ AtOp("io", "clear") /\ ~AtOp("io", "evict")
    BY <1>7 DEF ClearActive, AtOp, Busy, Cur
  <2>2. c.s \in Sess /\ c.from \in 0 .. MaxRooms
    <3>1. c \in Step /\ c.s \in Sess
      BY <2>1, CurOK DEF StepOK, SessionOps, DropOps, Threads
    <3>. QED BY <3>1 DEF Step
  <2>3. Home(s) = active[s] /\ members' = members
    BY <1>7, <2>1 DEF Home, ClearActive
  <2>4. CASE c.from = NoRoom
    <3>1. ~AtOp("io", "evict")'
      BY <1>7, <2>1, <2>4, FinishStep DEF ClearActive, Threads, AtOp, CloseSteps
    <3>2. active'[s] = active[s]
      BY <1>1, <1>7, <2>1, <2>4
         DEF ClearActive, BaseInv, TypeOK, RoomInv, FromIsCurrent
    <3>. QED BY <1>1, <2>3, <3>1, <3>2 DEF Home
  <2>5. CASE c.from # NoRoom
    <3>. DEFINE d == RoomStep("evict", c.s, c.from, NoRoom)
    <3>1. d \in Step /\ Continue("io", <<d>>)
      BY <1>7, <2>2, <2>5, StepTypes, ConstantAssumption
         DEF ClearActive, Ops, NoRoom
    <3>2. todo'["io"] # <<>> /\ Head(todo'["io"]) = d
      BY <2>1, <3>1, ContinueWith DEF BaseInv, Threads
    <3>3. AtOp("io", "evict")' /\ Cur("io")'.s = c.s /\ Cur("io")'.from = c.from
      BY <3>2 DEF AtOp, Cur, RoomStep
    <3>4. s # c.s => active'[s] = active[s]
      BY <1>1, <1>7 DEF ClearActive, BaseInv, TypeOK
    <3>5. s = c.s => c.from = active[s]
      BY <1>1, <2>1 DEF RoomInv, FromIsCurrent
    <3>. QED BY <1>1, <2>3, <3>3, <3>4, <3>5 DEF Home
  <2>. QED BY <2>4, <2>5
<1>8. CASE ClearActive("console") \/ Evict("console")
  <2>1. Cur("console").s \in hit
    BY <1>8 DEF ClearActive, Evict, AtOp, Cur, Busy, DropOps, RoomInv,
                ConsoleDropsHit
  <2>2. todo'["io"] = todo["io"]
    BY <1>8, ConsoleHeadSteps DEF ThreadStep
  <2>3. active'[s] = active[s]
    BY <1>1, <1>8, <2>1 DEF ClearActive, Evict, BaseInv, TypeOK
  <2>4. s \in members'[r] <=> s \in members[r]
    <3>1. CASE ClearActive("console")
      BY <3>1 DEF ClearActive
    <3>2. CASE Evict("console")
      BY <1>1, <2>1, <3>2 DEF Evict, BaseInv, TypeOK
    <3>. QED BY <1>8, <3>1, <3>2
  <2>5. Home(s)' = Home(s)
    BY <2>2, <2>3 DEF Home, AtOp, Cur
  <2>. QED BY <1>1, <2>4, <2>5
<1>. QED BY <1>3, <1>4, <1>5, <1>6, <1>7, <1>8, MembershipFrame DEF Threads

\* The first state satisfies RoomInv.
LEMMA RoomInvInit ==
    ASSUME Init
    PROVE  RoomInv
BY DEF Init, RoomInv, FromIsCurrent, ConsoleDropsHit, HomesOK, Home, AtOp, Busy,
       Threads, NoRoom, RoomIds

\* For a session that the console thread did not disconnect, the active room
\* and the member sets agree, so that it is in at most one room, although
\* disconnect and move_session_to_room read and write active_room_id_ outside
\* the lock that protects the member sets.
THEOREM MembershipAgrees == Spec => []MembershipConsistent
<1>1. Init => BaseInv /\ RoomInv
  BY BaseInvInit, RoomInvInit
<1>2. BaseInv /\ RoomInv /\ [Next]_vars => BaseInv' /\ RoomInv'
  BY BaseInvStep, ConsoleDropsHitStep, FromIsCurrentStep, HomesStep DEF RoomInv
<1>3. BaseInv /\ RoomInv => MembershipConsistent
  <2>. SUFFICES ASSUME BaseInv, RoomInv, up, NEW s \in Sess \ hit, ~BeingEvicted(s),
                       NEW r \in RoomIds
                PROVE  s \in members[r] <=> active[s] = r
    BY DEF MembershipConsistent
  <2>1. ~(AtOp("io", "evict") /\ Cur("io").s = s)
    <3>. SUFFICES ASSUME AtOp("io", "evict"), Cur("io").s = s PROVE FALSE
      OBVIOUS
    <3>1. todo["io"] \in Seq(Step) /\ todo["io"] # <<>>
      BY DEF AtOp, BaseInv, TypeOK, Threads
    <3>2. 1 \in DOMAIN todo["io"] /\ Head(todo["io"]) = todo["io"][1]
      BY <3>1
    <3>. QED BY <3>2 DEF BeingEvicted, AtOp, Cur, Threads
  <2>. QED BY <2>1 DEF RoomInv, HomesOK, Home
<1>. QED BY <1>1, <1>2, <1>3, PTL DEF Spec

-----------------------------------------------------------------------------
(***************************************************************************)
(* Ended sessions: what disconnect leaves behind.                          *)
(***************************************************************************)

\* A session whose read loop has ended is listed, or has an active room, only
\* while the io thread has still to take the step of disconnect that ends it.
EndedIsDropped ==
    up => \A s \in Sess \ hit : life[s] = "ended" =>
        /\ s \in sessions => AtOp("io", "erase") /\ Cur("io").s = s
        /\ active[s] # NoRoom =>
              /\ Cur("io").s = s
              /\ \E op \in {"erase", "load", "clear"} : AtOp("io", op)

\* Only a session whose read loop goes on is moved to another room.
MoversRead ==
    \A op \in {"moveLoad", "move"} :
        AtOp("io", op) => life[Cur("io").s] = "reading"

\* A console that neither kicks nor bans disconnects nobody.
NoExpulsion == ConsoleCmds \cap {"kick", "ban"} = {} => Idle("console") /\ hit = {}

EndedInv == EndedIsDropped /\ MoversRead /\ NoExpulsion

\* EndedLeavesNoTrace for the sessions that the console did not disconnect,
\* whatever the console is doing.
UnhitLeaveNoTrace ==
    up /\ Idle("io") =>
        \A s \in Sess \ hit : life[s] = "ended" =>
            s \notin sessions /\ \A r \in RoomIds : s \notin members[r]

\* A read loop ends only in a step that goes on with disconnect of its session.
LEMMA EndBeginsDisconnect ==
    ASSUME BaseInv, [Next]_vars, NEW s \in Sess, life'[s] = "ended", life[s] # "ended"
    PROVE  AtOp("io", "erase")' /\ Cur("io")'.s = s
<1>. USE DEF connVars, loginVars, roomVars
<1>. DEFINE Goal == AtOp("io", "erase")' /\ Cur("io")'.s = s
<1>1. ASSUME NEW q \in Sess, life' = [life EXCEPT ![q] = "ended"],
             NowAt("io", SessionStep("erase", q))
      PROVE  Goal
  <2>1. q = s
    BY <1>1 DEF BaseInv, TypeOK
  <2>. QED BY <1>1, <2>1, StepTypes DEF NowAt, AtOp, Cur, Ops
<1>2. ASSUME NEW q \in Sess, life' = [life EXCEPT ![q] = "ended"],
             Begin("io", <<Disconnect(q)>>)
      PROVE  Goal
  BY <1>1, <1>2, RejectStep
<1>3. CASE UNCHANGED life
  BY <1>3
<1>4. CASE UNCHANGED vars \/ Stop
  BY <1>3, <1>4 DEF vars, Stop
<1>5. ASSUME NEW q \in Sess, Connection(q) PROVE Goal
  <2>1. CASE HandshakeFail(q) \/ ReadError(q)
    BY <1>2, <2>1 DEF HandshakeFail, ReadError
  <2>2. CASE Accept(q) \/ HandshakeOk(q)
    BY <2>2 DEF Accept, HandshakeOk, BaseInv, TypeOK
  <2>3. CASE StreamCloses(q)
    BY <1>3, <2>3 DEF StreamCloses
  <2>. QED BY <1>5, <2>1, <2>2, <2>3 DEF Connection
<1>6. ASSUME NEW q \in Sess, Frame(q) PROVE Goal
  <2>1. CASE Reject(q)
    BY <1>2, <2>1 DEF Reject
  <2>2. CASE HandleDisconnect(q)
    <3>1. SessionStep("close", q) \in CloseSteps("io")
      BY StepTypes DEF CloseSteps, Ops
    <3>2. \E d \in CloseSteps("io") : Begin("io", <<SessionStep("erase", q), d>>)
      BY <2>2, <3>1 DEF HandleDisconnect, Disconnect
    <3>. DEFINE c == SessionStep("erase", q)
    <3>3. c \in Step /\ c.op = "erase" /\ c.s \in Sess
      BY StepTypes DEF Ops
    <3>4. c.op \notin IoOps /\ c.op \notin ProofOps /\ "io" \in Threads
      BY <3>3 DEF IoOps, ProofOps, Threads
    <3>5. NowAt("io", c)
      BY <3>2, <3>3, <3>4, NewStep
    <3>. QED BY <1>1, <2>2, <3>5 DEF HandleDisconnect
  <2>3. Reject(q) \/ HandleDisconnect(q) \/ UNCHANGED life
    BY <1>6 DEF Frame, HandleHello, HandleUnsupported, HandleAuthenticate,
                HandleIdentify, HandleProof, HandleJoinRoom, HandleCreateRoom,
                HandleKick
  <2>. QED BY <1>3, <2>1, <2>2, <2>3
<1>7. CASE IoStep
  <2>1. CASE Cur("io").s \in Sess /\ Reject(Cur("io").s)
    BY <1>2, <2>1 DEF Reject
  <2>2. AtOp("io", "proofBanned") \/ AtOp("io", "proofTaken") \/ AtOp("io", "proofBind")
        => Cur("io").s \in Sess
    BY CurOK DEF AtOp, Busy, Cur, StepOK, SessionOps, IoOps, ProofOps, Threads
  <2>. QED BY <1>3, <1>7, <2>1, <2>2
           DEF IoStep, ProofBanned, ProofTaken, ProofBind, MoveLoad, Move, CloseStep
<1>8. ASSUME NEW t \in Threads, ThreadStep(t) PROVE Goal
  BY <1>3, <1>8
     DEF ThreadStep, EraseSession, LoadActive, ClearActive, Evict, KickFind
<1>9. CASE Console
  BY <1>3, <1>9
     DEF Console, CmdCreate, CmdMove, CmdKick, CmdBan, CmdUnban, BanFind
<1>. QED BY <1>4, <1>5, <1>6, <1>7, <1>8, <1>9 DEF Next

\* The io thread begins a move only for a session whose read loop goes on: for
\* a frame of it, or for a proof of it that was just bound.
LEMMA MoveBegins ==
    ASSUME BaseInv, [Next]_vars, todo'["io"] # todo["io"], AtOp("io", "moveLoad")'
    PROVE  life'[Cur("io")'.s] = "reading"
<1>. USE DEF connVars, loginVars, roomVars
<1>. DEFINE c == Cur("io")
            Goal == life'[Cur("io")'.s] = "reading"
<1>1. Cur("io")'.op = "moveLoad" /\ Busy("io")'
  BY DEF AtOp, Cur, Busy
<1>2. ASSUME NEW q \in Sess, Begin("io", <<Disconnect(q)>>) PROVE FALSE
  <2>1. NowAt("io", SessionStep("erase", q))
    BY <1>2, RejectStep
  <2>. QED BY <1>1, <2>1, StepTypes DEF NowAt, Cur, Ops
<1>3. ASSUME NEW q \in Sess, NEW r \in RoomIds, life[q] = "reading", UNCHANGED life,
             Begin("io", <<MoveTo(q, r)>>) \/ (Busy("io") /\ Continue("io", <<MoveTo(q, r)>>))
      PROVE  Goal
  <2>1. NowAt("io", MoveTo(q, r))
    BY <1>3, NewStep, StepTypes DEF Threads, SessionOps, IoOps, ProofOps
  <2>. QED BY <1>3, <2>1, StepTypes DEF NowAt, Cur
<1>4. CASE UNCHANGED vars \/ Stop
  BY <1>4 DEF vars, Stop
<1>5. ASSUME NEW q \in Sess, Connection(q) PROVE Goal
  BY <1>2, <1>5 DEF Connection, Accept, HandshakeOk, HandshakeFail, StreamCloses,
                    ReadError
<1>6. ASSUME NEW q \in Sess, Frame(q) PROVE Goal
  <2>. USE DEF Reject
  <2>0. todo \in [Threads -> Seq(Step)]
    BY DEF BaseInv, TypeOK
  <2>1. CASE HandleDisconnect(q)
    <3>1. todo'["io"] = <<Disconnect(q), SessionStep("close", q)>>
      BY <2>0, <2>1 DEF HandleDisconnect, Begin, Threads
    <3>. QED BY <1>1, <3>1 DEF Disconnect, SessionStep, RoomStep, Cur
  <2>2. ASSUME NEW r \in RoomIds, HandleJoinRoom(q, r) PROVE Goal
    BY <1>3, <2>2 DEF HandleJoinRoom, Member, Handling
  <2>3. ASSUME NEW nm \in RoomNames, HandleCreateRoom(q, nm) PROVE Goal
    <3>1. nick[q] \in Nicks \cup {None}
      BY DEF BaseInv, TypeOK
    <3>2. nextRoom \in RoomIds
      BY <2>3, <3>1, NewRoomOK DEF HandleCreateRoom
    <3>. QED BY <1>3, <2>3, <3>2 DEF HandleCreateRoom, Member, Handling
  <2>4. ASSUME NEW n \in Nicks, HandleKick(q, n) PROVE Goal
    <3>1. todo'["io"] = <<KickFrom(active[q], n)>>
      BY <2>0, <2>4 DEF HandleKick, Begin, Threads
    <3>. QED BY <1>1, <3>1 DEF KickFrom, Cur
  <2>5. ASSUME NEW ok \in BOOLEAN, HandleProof(q, ok) PROVE Goal
    <3>1. CASE Begin("io", <<SessionStep("proofBanned", q)>>)
      <4>1. todo'["io"] = <<SessionStep("proofBanned", q)>>
        BY <2>0, <3>1 DEF Begin, Threads
      <4>. QED BY <1>1, <4>1 DEF SessionStep, RoomStep, Cur
    <3>. QED BY <1>2, <2>5, <3>1 DEF HandleProof
  <2>6. CASE HandleHello(q) \/ HandleUnsupported(q)
    BY <1>2, <2>6 DEF HandleHello, HandleUnsupported
  <2>7. ASSUME NEW ok \in BOOLEAN, HandleAuthenticate(q, ok) PROVE Goal
    BY <1>2, <2>7 DEF HandleAuthenticate
  <2>8. ASSUME NEW n \in Nicks, NEW k \in Keys, HandleIdentify(q, n, k) PROVE Goal
    BY <1>2, <2>8 DEF HandleIdentify
  <2>. QED BY <1>6, <2>1, <2>2, <2>3, <2>4, <2>5, <2>6, <2>7, <2>8 DEF Frame
<1>7. CASE ProofBind
  <2>1. Busy("io") /\ c.op = "proofBind"
    BY <1>7 DEF ProofBind, AtOp, Busy, Cur
  <2>2. c.s \in Sess /\ life[c.s] = "reading"
    BY <2>1, CurOK DEF StepOK, SessionOps, IoOps, ProofOps, Proving, Threads
  <2>3. Lobby \in RoomIds
    BY ConstantAssumption DEF Lobby, RoomIds
  <2>. QED BY <1>2, <1>3, <1>7, <2>1, <2>2, <2>3 DEF ProofBind, Reject
<1>8. CASE IoStep \/ ThreadStep("io")
  <2>1. ASSUME NEW d, NowAt("io", d), d.op # "moveLoad" PROVE FALSE
    BY <1>1, <2>1 DEF NowAt, Cur
  <2>2. Busy("io") /\ c \in Step /\ StepOK("io", c)
    <3>1. Busy("io")
      BY <1>8
         DEF IoStep, ProofBanned, ProofTaken, ProofBind, MoveLoad, Move, CloseStep,
             ThreadStep, EraseSession, LoadActive, ClearActive, Evict, KickFind,
             AtOp, Busy
    <3>. QED BY <3>1, CurOK DEF Threads
  <2>3. ASSUME NEW d \in Step, Continue("io", <<d>>), d.op # "moveLoad" PROVE FALSE
    <3>1. NowAt("io", d)
      BY <2>2, <2>3, ContinueWith DEF BaseInv, NowAt, Threads
    <3>. QED BY <2>1, <2>3, <3>1
  <2>4. CASE Continue("io", <<>>)
    BY <1>1, <2>2, <2>4, FinishStep DEF CloseSteps, Busy, Cur, Threads
  <2>5. c.op \in SessionOps => c.s \in Sess /\ active[c.s] \in 0 .. MaxRooms
    BY <2>2 DEF StepOK, BaseInv, TypeOK
  <2>6. NoRoom \in 0 .. MaxRooms /\ c.from \in 0 .. MaxRooms /\ c.to \in 0 .. MaxRooms
    BY <2>2, ConstantAssumption DEF NoRoom, Step
  <2>7. ASSUME NEW o \in Ops, NEW q \in Sess, NEW f \in 0 .. MaxRooms,
               NEW u \in 0 .. MaxRooms, o # "moveLoad",
               Continue("io", <<RoomStep(o, q, f, u)>>)
        PROVE  FALSE
    BY <2>3, <2>7, StepTypes
  <2>8. c.op \in SessionOps => c.s \in Sess
    BY <2>5
  <2>9. CASE ProofBanned \/ ProofTaken
    <3>1. c.s \in Sess
      BY <2>8, <2>9
         DEF ProofBanned, ProofTaken, AtOp, Cur, SessionOps, IoOps, ProofOps
    <3>. QED BY <1>2, <2>6, <2>7, <2>9, <3>1
             DEF ProofBanned, ProofTaken, Reject, SessionStep, Ops
  <2>10. CASE MoveLoad
    BY <2>5, <2>6, <2>7, <2>10 DEF MoveLoad, AtOp, Cur, SessionOps, IoOps, Ops
  <2>11. CASE Move \/ CloseStep \/ Evict("io")
    BY <2>4, <2>11 DEF Move, CloseStep, Evict
  <2>12. CASE EraseSession("io") \/ LoadActive("io") \/ ClearActive("io")
    <3>1. c.s \in Sess /\ active[c.s] \in 0 .. MaxRooms
      BY <2>5, <2>12
         DEF EraseSession, LoadActive, ClearActive, AtOp, Cur, SessionOps, DropOps
    <3>. QED BY <2>4, <2>6, <2>7, <2>12, <3>1
             DEF EraseSession, LoadActive, ClearActive, SessionStep, Ops
  <2>13. CASE KickFind("io")
    <3>. DEFINE found == {s \in members[c.to] : nick[s] = c.n}
    <3>1. found \subseteq Sess
      BY <2>2, <2>13 DEF KickFind, AtOp, Cur, StepOK, BaseInv, TypeOK
    <3>2. CASE NobodyFound("io")
      BY <2>4, <3>2 DEF NobodyFound
    <3>3. ASSUME NEW s \in found, Expel("io", s) PROVE Goal
      BY <2>6, <2>7, <3>1, <3>3 DEF Expel, Disconnect, SessionStep, Ops
    <3>. QED BY <2>13, <3>2, <3>3 DEF KickFind
  <2>. QED BY <1>7, <1>8, <2>9, <2>10, <2>11, <2>12, <2>13 DEF IoStep, ThreadStep
<1>9. CASE Console \/ ThreadStep("console")
  BY <1>9, ConsoleHeadSteps
<1>. QED BY <1>4, <1>5, <1>6, <1>8, <1>9 DEF Next, Threads

\* A thread of disconnect takes the steps of disconnect, in their order.
LEMMA DropsGoOn ==
    ASSUME BaseInv, [Next]_vars, todo'["io"] # todo["io"],
           AtOp("io", "erase") \/ AtOp("io", "load") \/ AtOp("io", "clear")
    PROVE  EraseSession("io") \/ LoadActive("io") \/ ClearActive("io")
<1>1. ~Idle("io") /\ Cur("io").op \in {"erase", "load", "clear"}
  BY DEF Idle, AtOp, Cur
<1>2. ASSUME NEW s \in Sess, Connection(s) \/ Frame(s) PROVE FALSE
  BY <1>1, <1>2 DEF Connection, Accept, HandshakeOk, HandshakeFail, StreamCloses,
         ReadError, Frame, HandleHello, HandleUnsupported, HandleAuthenticate,
         HandleIdentify, HandleProof, HandleDisconnect, HandleJoinRoom,
         HandleCreateRoom, HandleKick, Member, Handling
<1>3. ~IoStep /\ ~Stop /\ ~Evict("io") /\ ~KickFind("io")
  BY <1>1 DEF IoStep, ProofBanned, ProofTaken, ProofBind, MoveLoad, Move, CloseStep,
              Evict, KickFind, AtOp, Cur, Stop
<1>4. ~Console /\ ~ThreadStep("console") /\ ~UNCHANGED vars
  BY ConsoleHeadSteps DEF vars
<1>. QED BY <1>2, <1>3, <1>4 DEF Next, ThreadStep, Threads

\* While the io thread is busy with another step than a proof, no read loop
\* begins or ends.
LEMMA LivesKept ==
    ASSUME [Next]_vars, Busy("io"), Cur("io").op \notin ProofOps
    PROVE  UNCHANGED life
<1>. USE DEF connVars, loginVars, roomVars
<1>1. ~Idle("io") /\ \A op \in ProofOps : ~AtOp("io", op)
  BY DEF Busy, Idle, AtOp, Cur
<1>2. ASSUME NEW s \in Sess, Connection(s) \/ Frame(s) PROVE FALSE
  BY <1>1, <1>2 DEF Connection, Accept, HandshakeOk, HandshakeFail, StreamCloses,
         ReadError, Frame, HandleHello, HandleUnsupported, HandleAuthenticate,
         HandleIdentify, HandleProof, HandleDisconnect, HandleJoinRoom,
         HandleCreateRoom, HandleKick, Member, Handling
<1>3. CASE IoStep
  BY <1>1, <1>3 DEF IoStep, ProofBanned, ProofTaken, ProofBind, MoveLoad, Move,
                    CloseStep, ProofOps
<1>4. ASSUME NEW t \in Threads, ThreadStep(t) PROVE UNCHANGED life
  BY <1>4 DEF ThreadStep, EraseSession, LoadActive, ClearActive, Evict, KickFind
<1>5. CASE Console
  BY <1>5 DEF Console, CmdCreate, CmdMove, CmdKick, CmdBan, CmdUnban, BanFind
<1>6. CASE UNCHANGED vars \/ Stop
  BY <1>6 DEF vars, Stop
<1>. QED BY <1>2, <1>3, <1>4, <1>5, <1>6 DEF Next

\* Every step keeps MoversRead.
LEMMA MoversReadStep ==
    ASSUME BaseInv, MoversRead, [Next]_vars
    PROVE  MoversRead'
<1>. DEFINE c == Cur("io")
<1>. SUFFICES ASSUME NEW op \in {"moveLoad", "move"}, AtOp("io", op)'
              PROVE  life'[Cur("io")'.s] = "reading"
  BY DEF MoversRead
<1>1. Busy("io")' /\ Cur("io")'.op = op
  BY DEF AtOp, Busy, Cur
<1>2. CASE todo'["io"] = todo["io"]
  <2>1. AtOp("io", op) /\ Cur("io")' = c /\ Busy("io") /\ c.op \notin ProofOps
    BY <1>2, <1>1 DEF Busy, AtOp, Cur, ProofOps
  <2>. QED BY <2>1, LivesKept DEF MoversRead
<1>3. CASE todo'["io"] # todo["io"] /\ op = "moveLoad"
  BY <1>3, MoveBegins
<1>4. CASE todo'["io"] # todo["io"] /\ op = "move"
  <2>1. MoveLoad /\ NowAt("io", RoomStep("move", c.s, active[c.s], c.to))
    BY <1>1, <1>4, Heads DEF IoHead, FreshOps, NowAt, RoomStep, SessionStep, Cur
  <2>2. Cur("io")'.s = c.s /\ AtOp("io", "moveLoad") /\ UNCHANGED life
    BY <2>1 DEF NowAt, RoomStep, Cur, MoveLoad, connVars
  <2>. QED BY <2>2 DEF MoversRead
<1>. QED BY <1>2, <1>3, <1>4

\* A console without kick and ban stays idle: the steps it could take are those
\* that kick and ban begin.
LEMMA NoExpulsionStep ==
    ASSUME BaseInv, NoExpulsion, [Next]_vars
    PROVE  NoExpulsion'
<1>. USE DEF connVars, loginVars, roomVars
<1>. SUFFICES ASSUME ConsoleCmds \cap {"kick", "ban"} = {}
              PROVE  Idle("console")' /\ hit' = hit
  BY DEF NoExpulsion
<1>1. Idle("console") /\ \A op : ~AtOp("console", op)
  BY DEF NoExpulsion, Idle, AtOp
<1>2. CASE UNCHANGED vars \/ Stop
  BY <1>1, <1>2 DEF vars, Stop, Idle
<1>3. ASSUME NEW s \in Sess, Connection(s) \/ Frame(s)
      PROVE  Idle("console")' /\ hit' = hit
  <2>1. hit' = hit
    BY <1>3 DEF Connection, Accept, HandshakeOk, HandshakeFail, StreamCloses,
                ReadError, Frame, HandleHello, HandleUnsupported,
                HandleAuthenticate, HandleIdentify, HandleProof,
                HandleDisconnect, HandleJoinRoom, HandleCreateRoom, HandleKick
  <2>. QED BY <1>1, <1>3, <2>1, IoHeadFrame DEF Idle
<1>4. CASE IoStep \/ ThreadStep("io")
  <2>1. hit' = hit
    BY <1>4 DEF IoStep, ProofBanned, ProofTaken, ProofBind, MoveLoad, Move,
                CloseStep, ThreadStep, EraseSession, LoadActive, ClearActive,
                Evict, KickFind, Expel, NobodyFound
  <2>. QED BY <1>1, <1>4, <2>1, IoHeadSteps DEF Idle
<1>5. ~ThreadStep("console") /\ ~BanFind
  BY <1>1 DEF ThreadStep, EraseSession, LoadActive, ClearActive, Evict, KickFind,
              BanFind
<1>6. CASE Console
  BY <1>1, <1>5, <1>6
     DEF Console, CmdCreate, CmdMove, CmdKick, CmdBan, CmdUnban, Issues, Idle
<1>. QED BY <1>2, <1>3, <1>4, <1>5, <1>6 DEF Next, Threads

\* Every step keeps EndedIsDropped.
LEMMA EndedIsDroppedStep ==
    ASSUME BaseInv, RoomInv, EndedInv, [Next]_vars
    PROVE  EndedIsDropped'
<1>. USE DEF connVars, loginVars, roomVars
<1>. DEFINE c == Cur("io")
<1>. SUFFICES ASSUME up', NEW s \in Sess \ hit', life'[s] = "ended"
              PROVE  /\ s \in sessions' => AtOp("io", "erase")' /\ Cur("io")'.s = s
                     /\ active'[s] # NoRoom =>
                           /\ Cur("io")'.s = s
                           /\ \E op \in {"erase", "load", "clear"} : AtOp("io", op)'
  BY DEF EndedIsDropped
<1>1. s \in Sess /\ s \notin hit /\ up
  BY HitGrows
<1>2. CASE life[s] # "ended"
  BY <1>1, <1>2, EndBeginsDisconnect
<1>3. CASE life[s] = "ended"
  <2>1. /\ s \in sessions => AtOp("io", "erase") /\ c.s = s
        /\ active[s] # NoRoom =>
              c.s = s /\ \E op \in {"erase", "load", "clear"} : AtOp("io", op)
    BY <1>1, <1>3 DEF EndedInv, EndedIsDropped
  <2>2. s \in sessions' => s \in sessions
    <3>1. ~Accept(s)
      BY <1>3 DEF Accept
    <3>2. sessions' \subseteq sessions \/ \E q \in Sess : Accept(q)
      BY LoginFrameStep DEF LoginFrame
    <3>. QED BY <3>1, <3>2 DEF Accept
  <2>3. active'[s] # NoRoom => active[s] # NoRoom
    <3>1. CASE Move
      <4>1. life[c.s] = "reading"
        BY <3>1 DEF Move, EndedInv, MoversRead
      <4>2. c.s # s
        BY <1>3, <4>1
      <4>. QED BY <1>1, <3>1, <4>2 DEF Move, BaseInv, TypeOK
    <3>2. ASSUME NEW t \in Threads, ClearActive(t)
          PROVE  active'[s] # NoRoom => active[s] # NoRoom
      BY <1>1, <3>2 DEF ClearActive, BaseInv, TypeOK
    <3>3. ASSUME NEW t \in Threads, Evict(t)
          PROVE  active'[s] # NoRoom => active[s] # NoRoom
      BY <3>3 DEF Evict
    <3>. QED BY <3>1, <3>2, <3>3, MembershipFrame DEF Stop
  <2>4. CASE todo'["io"] = todo["io"]
    BY <2>1, <2>2, <2>3, <2>4 DEF AtOp, Cur
  <2>5. CASE todo'["io"] # todo["io"]
    <3>. SUFFICES ASSUME s \in sessions' \/ active'[s] # NoRoom
                  PROVE  /\ s \notin sessions' /\ Cur("io")'.s = s
                         /\ AtOp("io", "load")' \/ AtOp("io", "clear")'
      OBVIOUS
    <3>1. /\ c.s = s /\ Busy("io")
          /\ AtOp("io", "erase") \/ AtOp("io", "load") \/ AtOp("io", "clear")
      BY <2>1, <2>2, <2>3 DEF AtOp, Busy
    <3>2. EraseSession("io") \/ LoadActive("io") \/ ClearActive("io")
      BY <2>5, <3>1, DropsGoOn
    <3>3. c.s \in Sess /\ active[c.s] \in 0 .. MaxRooms /\ NoRoom \in 0 .. MaxRooms
      BY <1>1, <3>1, ConstantAssumption DEF BaseInv, TypeOK, NoRoom
    <3>4. CASE EraseSession("io")
      <4>1. /\ SessionStep("load", s) \in Step /\ SessionStep("load", s).op = "load"
            /\ SessionStep("load", s).s = s
        BY <1>1, StepTypes DEF Ops
      <4>2. NowAt("io", SessionStep("load", s))
        BY <3>1, <3>4, <4>1, ContinueWith
           DEF EraseSession, BaseInv, NowAt, Threads
      <4>. QED BY <3>1, <3>4, <4>1, <4>2 DEF EraseSession, NowAt, AtOp, Cur
    <3>5. CASE LoadActive("io")
      <4>. DEFINE d == RoomStep("clear", s, active[s], NoRoom)
      <4>1. d \in Step /\ d.op = "clear" /\ d.s = s
        BY <3>1, <3>3, StepTypes DEF Ops
      <4>2. NowAt("io", d)
        BY <3>1, <3>5, <4>1, ContinueWith DEF LoadActive, BaseInv, NowAt, Threads
      <4>3. s \notin sessions
        BY <2>1, <3>5 DEF LoadActive, AtOp
      <4>. QED BY <2>2, <4>1, <4>2, <4>3 DEF NowAt, AtOp, Cur
    <3>6. CASE ClearActive("io")
      <4>1. s \notin sessions'
        BY <2>1, <2>2, <3>6 DEF ClearActive, AtOp
      <4>2. active'[s] = NoRoom
        BY <1>1, <3>1, <3>6 DEF ClearActive, BaseInv, TypeOK
      <4>. QED BY <4>1, <4>2
    <3>. QED BY <3>2, <3>4, <3>5, <3>6
  <2>. QED BY <2>4, <2>5
<1>. QED BY <1>2, <1>3

\* The first state satisfies EndedInv.
LEMMA EndedInvInit ==
    ASSUME Init
    PROVE  EndedInv
BY DEF Init, EndedInv, EndedIsDropped, MoversRead, NoExpulsion, AtOp, Idle, Threads

\* The io thread's disconnect is undisturbed: whatever the console does, a
\* session that it did not disconnect itself is neither listed nor a member of
\* a room once the io thread has finished with its end.
LEMMA EndedUnhitAreGone == Spec => [](UnhitLeaveNoTrace /\ NoExpulsion)
<1>1. Init => BaseInv /\ RoomInv /\ EndedInv
  BY BaseInvInit, RoomInvInit, EndedInvInit
<1>2. BaseInv /\ RoomInv /\ EndedInv /\ [Next]_vars => BaseInv' /\ RoomInv' /\ EndedInv'
  <2>. SUFFICES ASSUME BaseInv, RoomInv, EndedInv, [Next]_vars
                PROVE  BaseInv' /\ RoomInv' /\ EndedInv'
    OBVIOUS
  <2>1. BaseInv'
    BY BaseInvStep
  <2>2. RoomInv'
    BY ConsoleDropsHitStep, FromIsCurrentStep, HomesStep DEF RoomInv
  <2>3. EndedInv'
    BY EndedIsDroppedStep, MoversReadStep, NoExpulsionStep DEF EndedInv
  <2>. QED BY <2>1, <2>2, <2>3
<1>3. RoomInv /\ EndedInv => UnhitLeaveNoTrace /\ NoExpulsion
  <2>. SUFFICES ASSUME RoomInv, EndedInv, up, Idle("io"), NEW s \in Sess \ hit,
                       life[s] = "ended"
                PROVE  s \notin sessions /\ \A r \in RoomIds : s \notin members[r]
    BY DEF UnhitLeaveNoTrace, EndedInv
  <2>1. \A op : ~AtOp("io", op)
    BY DEF Idle, AtOp
  <2>2. s \notin sessions /\ active[s] = NoRoom
    BY <2>1 DEF EndedInv, EndedIsDropped
  <2>3. NoRoom \notin RoomIds
    BY DEF NoRoom, RoomIds
  <2>. QED BY <2>1, <2>2, <2>3 DEF RoomInv, HomesOK, Home
<1>. QED BY <1>1, <1>2, <1>3, PTL DEF Spec

\* With a console that neither kicks nor bans, a session whose read loop has
\* ended leaves no trace; with one that does, the sessions it hit are the only
\* ones that can.
THEOREM EndedSessionsAreGone ==
    Spec => []( /\ ConsoleCmds \cap {"kick", "ban"} = {} => EndedLeavesNoTrace
                /\ UnhitLeaveNoTrace )
<1>1. UnhitLeaveNoTrace /\ NoExpulsion
        => /\ ConsoleCmds \cap {"kick", "ban"} = {} => EndedLeavesNoTrace
           /\ UnhitLeaveNoTrace
  BY DEF UnhitLeaveNoTrace, NoExpulsion, EndedLeavesNoTrace
<1>. QED BY <1>1, EndedUnhitAreGone, PTL

-----------------------------------------------------------------------------
\* Only the creation of a room writes a room's name.
LEMMA NameFrame ==
    ASSUME [Next]_vars
    PROVE  UNCHANGED name \/ \E nm \in RoomNames : \E who : NewRoom(nm, who)
<1>. USE DEF connVars, loginVars, roomVars
<1>. DEFINE Goal == UNCHANGED name \/ \E nm \in RoomNames : \E who : NewRoom(nm, who)
<1>1. CASE UNCHANGED vars \/ Stop
  BY <1>1 DEF vars, Stop
<1>2. ASSUME NEW s \in Sess, Connection(s) \/ Frame(s) PROVE Goal
  BY <1>2 DEF Connection, Accept, HandshakeOk, HandshakeFail, StreamCloses,
              ReadError, Frame, HandleHello, HandleUnsupported,
              HandleAuthenticate, HandleIdentify, HandleProof, HandleDisconnect,
              HandleJoinRoom, HandleCreateRoom, HandleKick
<1>3. CASE IoStep
  BY <1>3 DEF IoStep, ProofBanned, ProofTaken, ProofBind, MoveLoad, Move, CloseStep
<1>4. ASSUME NEW t \in Threads, ThreadStep(t) PROVE Goal
  BY <1>4 DEF ThreadStep, EraseSession, LoadActive, ClearActive, Evict, KickFind
<1>5. CASE Console
  BY <1>5 DEF Console, CmdCreate, CmdMove, CmdKick, CmdBan, CmdUnban, BanFind
<1>. QED BY <1>1, <1>2, <1>3, <1>4, <1>5 DEF Next

\* Two rooms never have the same name, whichever threads create them.
THEOREM RoomNamesAreUnique == Spec => []RoomNamesUnique
<1>1. Init => BaseInv /\ RoomNamesUnique
  BY BaseInvInit DEF Init, RoomNamesUnique
<1>2. BaseInv /\ RoomNamesUnique /\ [Next]_vars => BaseInv' /\ RoomNamesUnique'
  <2>. SUFFICES ASSUME BaseInv, RoomNamesUnique, [Next]_vars
                PROVE  RoomNamesUnique'
    BY BaseInvStep
  <2>1. CASE UNCHANGED name
    BY <2>1 DEF RoomNamesUnique
  <2>2. ASSUME NEW nm \in RoomNames, NEW who, NewRoom(nm, who)
        PROVE  RoomNamesUnique'
    BY <2>2 DEF NewRoom, RoomNamed, RoomNamesUnique, BaseInv, TypeOK
  <2>. QED BY <2>1, <2>2, NameFrame
<1>. QED BY <1>1, <1>2, PTL DEF Spec
=============================================================================
