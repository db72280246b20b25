------------------------- MODULE ClientLoginProofs -------------------------
(***************************************************************************)
(* What the login tells the user is what the server said, although flags   *)
(* are set and read one at a time by two threads, and a reason is never    *)
(* read while it is being assigned.                                        *)
(*                                                                         *)
(* The argument: at most one request is on its way, and which one it is    *)
(* tells how far the server has let the client (RequestInv).  A flag and   *)
(* the step of the running handler that is going to set it are one fact    *)
(* (On), which only the arrival of a frame can change, and the flag that   *)
(* the terminal thread waits for is set after those it then reads          *)
(* (Ordered).                                                              *)
(***************************************************************************)
EXTENDS ClientLogin, TLAPS

-----------------------------------------------------------------------------
(***************************************************************************)
(* Frames, states of the server and steps of the handlers.                 *)
(***************************************************************************)
Frames == {"Hello", "OtherHello", "Junk", "Text", "AuthRequired", "AuthAccepted",
           "AuthRejected", "Challenge", "IdentityAccepted", "JoinAccepted",
           "JoinRejected", "Banned", "NicknameTaken", "Kick"}
Foreign  == {"OtherHello", "Junk", "Text"}
Requests == {"Hello", "Authenticate", "Identify", "IdentityProof"}
Posting  == {CloseIt} \cup {Send(f) : f \in Requests}

\* The server has closed; it has begun to check the identity; it has decided.
Closed   == {"wrong_password", "kicked", "rejected", "banned", "taken"}
Past     == {"challenged", "joined", "kicked", "rejected", "banned", "taken"}
Outcomes == {"joined", "kicked", "rejected", "banned", "taken"}
Servers  == {"connected", "greeted", "wrong_password"} \cup Past

AuthOk       == Set("auth_ok", TRUE)
AuthNo       == Set("auth_ok", FALSE)
AuthResolved == Set("auth_resolved", TRUE)
AuthRequired == Set("auth_required", TRUE)
JoinResolved == Set("join_resolved", TRUE)
JoinFailed   == Set("join_failed", TRUE)
IsBanned     == Set("banned", TRUE)
IsTaken      == Set("nickname_taken", TRUE)
Kicked       == Set("kicked", TRUE)
GKicked      == Set("g_kicked", TRUE)
Lost         == Set("connected", FALSE)

Failures == {"connection closed", "version", "no handshake"}
Details  == {IsBanned, IsTaken, JoinFailed, Because("rejected")}
Steps    == {AuthOk, AuthNo, AuthResolved, AuthRequired, JoinResolved, JoinFailed, IsBanned,
             IsTaken, Kicked, GKicked, Lost, Negotiated, Shut, ReadOn, Call(CloseIt),
             Call(Send("IdentityProof")), Because("connection closed"), Because("version"),
             Because("no handshake"), Because("rejected"), Because("kicked")}

\* The terminal thread has yet to answer the prompt, or to send Identify.
PreAuthenticate == {"await_hello", "required?", "prompt"}
PreIdentify     == PreAuthenticate \cup {"await_auth", "password?", "ok?"}

-----------------------------------------------------------------------------
(***************************************************************************)
(* The inductive invariant.                                                *)
(***************************************************************************)
Els(s)     == {s[i] : i \in 1 .. Len(s)}
Once(x, s) == \A i, j \in 1 .. Len(s) : s[i] = x /\ s[j] = x => i = j

\* What is set for the terminal thread to see is set last.
Ordered(s) ==
    \A i, j \in 1 .. Len(s) :
        i < j /\ s[i] \in {JoinResolved, GKicked} => s[j] \in {ReadOn, Call(CloseIt)}

Shapes ==
    /\ peer \in {"open", "locked", "old", "stranger"} /\ srv \in Servers
    /\ link \in {"up", "fin", "down"}
    /\ s2c \in Seq(Frames) /\ c2s \in Seq(Requests) /\ queue \in Seq(Requests)
    /\ posted \in Seq(Posting) /\ todo \in Seq(Steps)
    /\ flags \in [Flags -> BOOLEAN]
    /\ open \in BOOLEAN /\ reading \in BOOLEAN /\ negotiated \in BOOLEAN

Chatbox == peer \in {"open", "locked"}

\* A step is in the running handler; a frame is on its way to the client.
Doing(x)   == x \in Els(todo)
Coming(x)  == x \in Els(s2c)

\* A flag is set or going to be.
On(f, x)  == flags[f] \/ Doing(x)
Accepted  == On("auth_ok", AuthOk)
Resolved  == On("auth_resolved", AuthResolved)
Required  == On("auth_required", AuthRequired)
Decided   == On("join_resolved", JoinResolved)
Failed    == On("join_failed", JoinFailed)
BannedOn  == On("banned", IsBanned)
TakenOn   == On("nickname_taken", IsTaken)
KickedOn  == On("g_kicked", GKicked)
Greeted   == negotiated \/ Doing(Negotiated)
Live      == reading \/ Doing(ReadOn)

\* A request has not reached the server yet, wherever it is.
Up(f) == f \in Els(c2s) \/ f \in Els(queue) \/ Send(f) \in Els(posted) \/ Doing(Call(Send(f)))
NoUp  == \A f \in Requests : ~Up(f)

\* A request is in one place.
Solo(f) ==
    /\ Once(f, c2s) /\ Once(f, queue) /\ Once(Send(f), posted) /\ Once(Call(Send(f)), todo)
    /\ f \in Els(c2s) => f \notin Els(queue)
    /\ f \in Els(c2s) \cup Els(queue) => Send(f) \notin Els(posted)
    /\ Doing(Call(Send(f))) => f \notin Els(c2s) \cup Els(queue) /\ Send(f) \notin Els(posted)

ServerInv ==
    /\ srv # "connected" => Chatbox
    /\ srv \in Closed => link # "up"
    /\ link = "fin" => srv \in Closed
    /\ srv \in Past => Accepted
    /\ srv = "joined" => NoUp

RequestInv ==
    /\ \A f \in Requests : Solo(f)
    /\ Up("Hello") => srv = "connected" /\ ~Accepted
    /\ Up("Authenticate") =>
          srv = "greeted" /\ ~Accepted /\ peer = "locked" /\ pc \notin PreAuthenticate
    /\ Up("Identify") => srv = "greeted" /\ Accepted /\ pc \notin PreIdentify
    /\ Up("IdentityProof") => srv = "challenged"

\* The reply to the handshake and to the password.
ReplyInv ==
    /\ ~Chatbox => Els(s2c) \subseteq Foreign
    /\ Chatbox => Els(s2c) \cap Foreign = {}
    /\ Coming("AuthRequired") =>
          /\ srv = "greeted" /\ peer = "locked" /\ ~Accepted /\ ~Required /\ NoUp
          /\ ~Coming("AuthAccepted") /\ Once("AuthRequired", s2c)
    /\ Coming("AuthAccepted") =>
          /\ srv = "greeted" /\ ~Accepted /\ NoUp /\ Once("AuthAccepted", s2c)
          /\ peer = "locked" => pc \notin PreAuthenticate
    /\ Coming("AuthRejected") => srv = "wrong_password"
    /\ Coming("Challenge") => srv = "challenged" /\ NoUp /\ Once("Challenge", s2c)

\* The server's decision, and its withdrawal.
VerdictInv ==
    /\ Coming("JoinAccepted") => srv \in {"joined", "kicked"}
    /\ Coming("JoinRejected") => srv = "rejected" /\ ~Decided /\ Once("JoinRejected", s2c)
    /\ Coming("Banned") => srv = "banned" /\ ~Decided /\ Once("Banned", s2c)
    /\ Coming("NicknameTaken") => srv = "taken" /\ ~Decided /\ Once("NicknameTaken", s2c)
    /\ Coming("Kick") => srv = "kicked" /\ ~KickedOn /\ Once("Kick", s2c)

HelloInv ==
    /\ Greeted => Chatbox
    /\ Chatbox /\ ~Greeted => /\ s2c # <<>> => Head(s2c) = "Hello"
                              /\ link # "down" => s2c # <<>>

AuthInv ==
    /\ Accepted =>
          /\ srv \notin {"connected", "wrong_password"} /\ Resolved
          /\ ~Doing(AuthNo) /\ \A r \in Failures : ~Doing(Because(r))
          /\ peer = "locked" => pc \notin PreAuthenticate
          /\ pc \in PreIdentify => NoUp /\ srv = "greeted"
    /\ Required => peer = "locked" /\ srv # "connected"
    /\ Required /\ pc \in PreAuthenticate => NoUp /\ srv = "greeted"
    /\ Doing(AuthOk) => ~flags["auth_resolved"] /\ AuthOk \notin Els(Tail(todo))
    /\ Resolved /\ ~Accepted /\ peer = "locked" => srv = "wrong_password" \/ link = "down"
    /\ Resolved /\ Live => Accepted \/ srv = "wrong_password"

\* The stream is closed at this end only after close() or because it was lost.
StreamInv ==
    /\ ~open \/ Doing(Shut) => flags["closing"] \/ link # "up"
    /\ CloseIt \in Els(posted) => flags["closing"]
    /\ writing => queue # <<>>

OutcomeInv ==
    /\ BannedOn => srv = "banned"
    /\ TakenOn => srv = "taken"
    /\ Doing(Because("rejected")) => srv = "rejected"
    /\ Failed \/ Decided => Resolved
    /\ Accepted /\ Failed => srv = "rejected"
    /\ Accepted /\ Decided =>
          /\ srv \in Outcomes
          /\ srv = "banned" => BannedOn
          /\ srv = "taken" => TakenOn
          /\ srv = "rejected" => Failed /\ (reason = "rejected" \/ Doing(Because("rejected")))
    /\ Accepted /\ flags["join_resolved"] => \A x \in Details : ~Doing(x)
    /\ Ordered(todo)

KickInv ==
    /\ KickedOn \/ Doing(Because("kicked")) => srv = "kicked"
    /\ flags["g_kicked"] => ~Doing(Because("kicked"))

TerminalInv ==
    /\ pc \in {"prompt", "await_auth", "password?"} => flags["auth_required"]
    /\ pc = "password?" => flags["auth_resolved"]
    /\ pc \in {"await_join", "banned?", "taken?", "failed?", "reason"} => flags["auth_ok"]
    /\ pc \in {"banned?", "taken?", "failed?", "reason"} => flags["join_resolved"]
    /\ pc \in {"taken?", "failed?", "reason"} => srv # "banned"
    /\ pc \in {"failed?", "reason"} => srv # "taken"
    /\ pc = "reason" => srv = "rejected"
    /\ pc = "kick_reason" => flags["g_kicked"]

LoginInv ==
    /\ Shapes /\ ServerInv /\ RequestInv /\ ReplyInv /\ VerdictInv /\ HelloInv
    /\ AuthInv /\ StreamInv /\ OutcomeInv /\ KickInv /\ TerminalInv /\ VerdictIsTrue

-----------------------------------------------------------------------------
(***************************************************************************)
(* Sequences and their elements.                                           *)
(***************************************************************************)

\* The elements after an append.
LEMMA ElsAppend ==
    ASSUME NEW S, NEW s \in Seq(S), NEW y \in S
    PROVE  /\ Append(s, y) \in Seq(S) /\ Els(Append(s, y)) = Els(s) \cup {y}
           /\ \A x : Once(x, s) /\ (x # y \/ x \notin Els(s)) => Once(x, Append(s, y))
<1>. DEFINE t == Append(s, y)
            n == Len(s)
<1>1. /\ n \in Nat /\ t \in Seq(S) /\ Len(t) = n + 1 /\ t[n + 1] = y
      /\ \A i \in 1 .. n : t[i] = s[i]
  OBVIOUS
<1>. HIDE DEF t
<1>2. 1 .. Len(t) = (1 .. n) \cup {n + 1}
  BY <1>1
<1>3. Els(t) = Els(s) \cup {y}
  BY <1>1, <1>2 DEF Els
<1>4. ASSUME NEW x, Once(x, s), x # y \/ x \notin Els(s) PROVE Once(x, t)
  <2>1. ASSUME NEW i \in 1 .. n, NEW j \in 1 .. n, t[i] = x, t[j] = x PROVE i = j
    BY <1>1, <1>4, <2>1 DEF Once
  <2>2. ASSUME NEW i \in 1 .. n, t[i] = x PROVE t[n + 1] # x
    BY <1>1, <1>4, <2>2 DEF Els
  <2>. QED BY <1>2, <2>1, <2>2 DEF Once
<1>. QED BY <1>1, <1>3, <1>4 DEF t

\* The first element and the rest.
LEMMA ElsTail ==
    ASSUME NEW S, NEW s \in Seq(S), s # <<>>
    PROVE  /\ Head(s) \in S /\ Tail(s) \in Seq(S) /\ Els(s) = {Head(s)} \cup Els(Tail(s))
           /\ \A x : Once(x, s) =>
                 Once(x, Tail(s)) /\ (Head(s) = x => x \notin Els(Tail(s)))
           /\ Ordered(s) =>
                 /\ Ordered(Tail(s))
                 /\ Head(s) \in {JoinResolved, GKicked} =>
                       Els(Tail(s)) \subseteq {ReadOn, Call(CloseIt)}
<1>. DEFINE t == Tail(s)
            n == Len(s)
            h == Head(s)
<1>1. /\ n \in Nat /\ n >= 1 /\ t \in Seq(S) /\ Len(t) = n - 1 /\ h = s[1] /\ h \in S
      /\ \A i \in 1 .. n - 1 : t[i] = s[i + 1]
  OBVIOUS
<1>. HIDE DEF t, h
<1>2. /\ \A i \in 1 .. n - 1 : i + 1 \in 1 .. n
      /\ \A i \in 1 .. n : i = 1 \/ (i - 1 \in 1 .. n - 1 /\ (i - 1) + 1 = i)
      /\ 1 \in 1 .. n /\ \A i, j \in 1 .. n - 1 : i + 1 = j + 1 => i = j
      /\ \A i \in 1 .. n - 1 : 1 < i + 1
      /\ \A i, j \in 1 .. n - 1 : i < j => i + 1 < j + 1
  BY <1>1
<1>3. Els(s) = {h} \cup Els(t)
  <2>1. ASSUME NEW i \in 1 .. n PROVE s[i] \in {h} \cup Els(t)
    <3>1. CASE i = 1
      BY <1>1, <3>1
    <3>2. CASE i # 1
      <4>1. i - 1 \in 1 .. Len(t) /\ t[i - 1] = s[i]
        BY <1>1, <1>2, <3>2
      <4>. QED BY <4>1 DEF Els
    <3>. QED BY <3>1, <3>2
  <2>2. ASSUME NEW i \in 1 .. Len(t) PROVE t[i] \in Els(s)
    BY <1>1, <1>2 DEF Els
  <2>3. h \in Els(s)
    BY <1>1, <1>2 DEF Els
  <2>. QED BY <2>1, <2>2, <2>3 DEF Els
<1>4. ASSUME NEW x, Once(x, s) PROVE Once(x, t) /\ (h = x => x \notin Els(t))
  <2>1. Once(x, t)
    BY <1>1, <1>2, <1>4 DEF Once
  <2>2. ASSUME h = x, NEW i \in 1 .. Len(t), t[i] = x PROVE FALSE
    <3>1. i \in 1 .. n - 1 /\ s[i + 1] = x /\ s[1] = x /\ i + 1 \in 1 .. n
      BY <1>1, <1>2, <2>2
    <3>2. i + 1 = 1
      BY <1>2, <1>4, <3>1 DEF Once
    <3>. QED BY <1>1, <3>1, <3>2
  <2>. QED BY <2>1, <2>2 DEF Els
<1>5. ASSUME Ordered(s)
      PROVE  /\ Ordered(t)
             /\ h \in {JoinResolved, GKicked} => Els(t) \subseteq {ReadOn, Call(CloseIt)}
  <2>1. ASSUME NEW i \in 1 .. Len(t), NEW j \in 1 .. Len(t), i < j, t[i] \in {JoinResolved, GKicked}
        PROVE  t[j] \in {ReadOn, Call(CloseIt)}
    <3>1. /\ i + 1 \in 1 .. n /\ j + 1 \in 1 .. n /\ i + 1 < j + 1
          /\ t[i] = s[i + 1] /\ t[j] = s[j + 1]
      BY <1>1, <1>2, <2>1
    <3>. QED BY <1>5, <2>1, <3>1 DEF Ordered
  <2>2. ASSUME h \in {JoinResolved, GKicked}, NEW i \in 1 .. Len(t)
        PROVE  t[i] \in {ReadOn, Call(CloseIt)}
    <3>1. i + 1 \in 1 .. n /\ 1 \in 1 .. n /\ 1 < i + 1 /\ t[i] = s[i + 1] /\ h = s[1]
      BY <1>1, <1>2
    <3>. QED BY <1>5, <2>2, <3>1 DEF Ordered
  <2>. QED BY <2>1, <2>2 DEF Ordered, Els
<1>. QED BY <1>1, <1>3, <1>4, <1>5 DEF t, h

\* The first part of a sequence.
LEMMA ElsFirst ==
    ASSUME NEW S, NEW s \in Seq(S), NEW n \in 0 .. Len(s)
    PROVE  /\ SubSeq(s, 1, n) \in Seq(S) /\ Els(SubSeq(s, 1, n)) \subseteq Els(s)
           /\ \A x : Once(x, s) => Once(x, SubSeq(s, 1, n))
           /\ SubSeq(s, 1, n) # <<>> => s # <<>> /\ Head(SubSeq(s, 1, n)) = Head(s)
<1>. DEFINE t == SubSeq(s, 1, n)
<1>1. /\ t \in Seq(S) /\ Len(t) = n /\ \A i \in 1 .. n : t[i] = s[i]
  OBVIOUS
<1>2. n \in Nat /\ \A i \in 1 .. n : i \in 1 .. Len(s)
  OBVIOUS
<1>. HIDE DEF t
<1>3. Els(t) \subseteq Els(s)
  BY <1>1, <1>2 DEF Els
<1>4. \A x : Once(x, s) => Once(x, t)
  BY <1>1, <1>2 DEF Once
<1>5. t # <<>> => s # <<>> /\ Head(t) = Head(s)
  BY <1>1, <1>2
<1>. QED BY <1>1, <1>3, <1>4, <1>5 DEF t

\* The empty sequence.
LEMMA ElsEmpty ==
    /\ Els(<<>>) = {} /\ Ordered(<<>>) /\ \A S : <<>> \in Seq(S)
    /\ \A x : Once(x, <<>>)
BY DEF Els, Ordered, Once

\* What is not in a sequence is not there twice.
LEMMA OnceAbsent == ASSUME NEW x, NEW s, x \notin Els(s) PROVE Once(x, s)
BY DEF Els, Once

\* A sequence of one element.
LEMMA ElsOne == ASSUME NEW S, NEW a \in S PROVE <<a>> \in Seq(S) /\ Els(<<a>>) = {a}
<1>1. 1 .. Len(<<a>>) = {1}
  OBVIOUS
<1>. QED BY <1>1 DEF Els

\* A sequence of two elements.
LEMMA ElsTwo ==
    ASSUME NEW S, NEW a \in S, NEW b \in S
    PROVE  <<a, b>> \in Seq(S) /\ Els(<<a, b>>) = {a, b}
<1>1. 1 .. Len(<<a, b>>) = {1, 2}
  OBVIOUS
<1>. QED BY <1>1 DEF Els

\* A sequence of three elements.
LEMMA ElsThree ==
    ASSUME NEW S, NEW a \in S, NEW b \in S, NEW c \in S
    PROVE  <<a, b, c>> \in Seq(S) /\ Els(<<a, b, c>>) = {a, b, c}
<1>1. 1 .. Len(<<a, b, c>>) = {1, 2, 3}
  OBVIOUS
<1>. QED BY <1>1 DEF Els

-----------------------------------------------------------------------------
(***************************************************************************)
(* The handlers: their steps, and that they are in order.                  *)
(***************************************************************************)

\* A handler that is in order: auth_ok is set first, a request is sent once.
GoodHandler(t) ==
    /\ t \in Seq(Steps) /\ Ordered(t) /\ AuthOk \notin Els(Tail(t))
    /\ \A f \in Requests : Once(Call(Send(f)), t)

\* The steps that the handler of frame x takes.
StepsOf(x) ==
    CASE x = "Hello"            -> {Negotiated, ReadOn}
      [] x = "Junk"             -> {ReadOn}
      [] x = "IdentityAccepted" -> {ReadOn}
      [] x = "OtherHello"    -> {AuthNo, AuthResolved, JoinFailed, Because("version"),
                                 JoinResolved, Call(CloseIt)}
      [] x = "Text"          -> {AuthNo, AuthResolved, JoinFailed, Because("no handshake"),
                                 JoinResolved, Call(CloseIt)}
      [] x = "AuthRequired"  -> {AuthRequired, ReadOn}
      [] x = "AuthAccepted"  -> {AuthOk, AuthResolved, ReadOn}
      [] x = "AuthRejected"  -> {AuthNo, AuthResolved, ReadOn}
      [] x = "Challenge"     -> {Call(Send("IdentityProof")), ReadOn}
      [] x = "JoinAccepted"  -> {JoinResolved, ReadOn}
      [] x = "JoinRejected"  -> {JoinFailed, Because("rejected"), JoinResolved, ReadOn}
      [] x = "Banned"        -> {IsBanned, JoinResolved, ReadOn}
      [] x = "NicknameTaken" -> {IsTaken, JoinResolved, ReadOn}
      [] x = "Kick"          -> {Kicked, Because("kicked"), GKicked, ReadOn}

\* What the steps are, by which they differ.
LEMMA StepFields ==
    /\ Negotiated.do = "negotiated" /\ Shut.do = "shut" /\ ReadOn.do = "read"
    /\ \A h : Call(h).do = "call" /\ Call(h).arg = h
    /\ \A r : Because(r).do = "reason" /\ Because(r).arg = r
    /\ \A f : Send(f).do = "send" /\ Send(f).arg = f
    /\ CloseIt.do = "close"
BY DEF Negotiated, Shut, ReadOn, Call, Because, Send, CloseIt

\* What the flag steps are.
LEMMA FlagFields ==
    /\ AuthOk.do = "set" /\ AuthOk.arg = "auth_ok" /\ AuthOk.val = TRUE
    /\ AuthNo.do = "set" /\ AuthNo.arg = "auth_ok" /\ AuthNo.val = FALSE
    /\ AuthResolved.do = "set" /\ AuthResolved.arg = "auth_resolved" /\ AuthResolved.val = TRUE
    /\ AuthRequired.do = "set" /\ AuthRequired.arg = "auth_required" /\ AuthRequired.val = TRUE
    /\ JoinResolved.do = "set" /\ JoinResolved.arg = "join_resolved" /\ JoinResolved.val = TRUE
    /\ JoinFailed.do = "set" /\ JoinFailed.arg = "join_failed" /\ JoinFailed.val = TRUE
    /\ IsBanned.do = "set" /\ IsBanned.arg = "banned" /\ IsBanned.val = TRUE
    /\ IsTaken.do = "set" /\ IsTaken.arg = "nickname_taken" /\ IsTaken.val = TRUE
    /\ Kicked.do = "set" /\ Kicked.arg = "kicked" /\ Kicked.val = TRUE
    /\ GKicked.do = "set" /\ GKicked.arg = "g_kicked" /\ GKicked.val = TRUE
    /\ Lost.do = "set" /\ Lost.arg = "connected" /\ Lost.val = FALSE
BY DEF AuthOk, AuthNo, AuthResolved, AuthRequired,
       JoinResolved, JoinFailed, IsBanned, IsTaken, Kicked, GKicked, Lost, Set

\* A step that neither accepts the password nor sends anything.
Plain(x) == x \in Steps /\ x # AuthOk /\ \A f \in Requests : x # Call(Send(f))

\* Which steps are plain, and which are not for the terminal thread to wait for.
LEMMA PlainSteps ==
    /\ \A x \in Steps \ {AuthOk, Call(Send("IdentityProof"))} : Plain(x)
    /\ {AuthNo, AuthResolved, AuthRequired, JoinResolved, JoinFailed, IsBanned, IsTaken,
        Kicked, GKicked, Lost} \subseteq Steps \ {AuthOk, Call(Send("IdentityProof"))}
    /\ {Negotiated, Shut, ReadOn, Call(CloseIt), Because("connection closed"),
        Because("version"), Because("no handshake"), Because("rejected"), Because("kicked")}
          \subseteq Steps \ {AuthOk, Call(Send("IdentityProof")), JoinResolved, GKicked}
    /\ {AuthOk, AuthNo, AuthResolved, AuthRequired, JoinFailed, IsBanned, IsTaken, Kicked, Lost,
        Call(Send("IdentityProof"))} \subseteq Steps \ {JoinResolved, GKicked}
<1>. DEFINE sets == {AuthNo, AuthResolved, AuthRequired, JoinResolved, JoinFailed, IsBanned,
                     IsTaken, Kicked, GKicked, Lost}
            others == {Negotiated, Shut, ReadOn, Call(CloseIt), Because("connection closed"),
                       Because("version"), Because("no handshake"), Because("rejected"),
                       Because("kicked")}
            proof == Call(Send("IdentityProof"))
<1>1. Steps = sets \cup others \cup {AuthOk, proof}
  BY DEF Steps
<1>2. /\ \A x \in sets : x.do = "set"
      /\ AuthOk.do = "set"
  BY FlagFields
<1>3. \A x \in others : x.do # "set"
  BY StepFields
<1>4. \A h : Call(h).do # "set"
  BY StepFields
<1>5. \A f \in Requests : \A x \in others : x # Call(Send(f))
  <2>1. \A f : Send(f) # CloseIt
    BY StepFields
  <2>2. \A f : Call(Send(f)) # Call(CloseIt)
    BY <2>1, StepFields
  <2>3. \A x \in others \ {Call(CloseIt)} : x.do # "call"
    BY StepFields
  <2>4. \A h : Call(h).do = "call"
    BY StepFields
  <2>. HIDE DEF others
  <2>. QED BY <2>2, <2>3, <2>4
<1>6. AuthOk \notin sets
  <2>1. AuthOk # AuthNo
    <3>1. AuthOk.val = TRUE /\ AuthNo.val = FALSE
      BY FlagFields
    <3>. QED BY <3>1, Zenon
  <2>2. \A x \in sets \ {AuthNo} : x.arg # "auth_ok"
    BY FlagFields
  <2>3. AuthOk.arg = "auth_ok"
    BY FlagFields
  <2>. HIDE DEF sets
  <2>. QED BY <2>1, <2>2, <2>3
<1>7. \A x \in {AuthOk, AuthNo, AuthResolved, AuthRequired, JoinFailed, IsBanned, IsTaken,
               Kicked, Lost} : x # JoinResolved /\ x # GKicked
  BY FlagFields
<1>8. JoinResolved \in sets /\ GKicked \in sets /\ proof \notin sets \cup {AuthOk}
  BY <1>2, <1>4
<1>9. others \cap (sets \cup {AuthOk, proof}) = {}
  <2>1. proof \notin others
    BY <1>5 DEF Requests
  <2>. HIDE DEF others, sets, proof
  <2>. QED BY <1>2, <1>3, <2>1
<1>10. ASSUME NEW x \in Steps \ {AuthOk, proof} PROVE Plain(x)
  <2>1. \A f \in Requests : x # Call(Send(f))
    <3>1. CASE x \in sets
      <4>. HIDE DEF sets
      <4>. QED BY <1>2, <1>4, <3>1
    <3>2. CASE x \in others
      <4>. HIDE DEF others
      <4>. QED BY <1>5, <3>2
    <3>. HIDE DEF sets, others, proof
    <3>. QED BY <1>1, <3>1, <3>2
  <2>. QED BY <2>1 DEF Plain
<1>11. sets \subseteq Steps \ {AuthOk, proof}
  <2>. HIDE DEF sets, others, proof
  <2>. QED BY <1>1, <1>6, <1>8
<1>12. others \subseteq Steps \ {AuthOk, proof, JoinResolved, GKicked}
  <2>. HIDE DEF sets, others, proof
  <2>. QED BY <1>1, <1>8, <1>9
<1>13. {AuthOk, AuthNo, AuthResolved, AuthRequired, JoinFailed, IsBanned, IsTaken, Kicked, Lost,
        proof} \subseteq Steps \ {JoinResolved, GKicked}
  <2>1. proof # JoinResolved /\ proof # GKicked
    <3>. HIDE DEF sets, proof
    <3>. QED BY <1>8
  <2>. HIDE DEF proof
  <2>2. {AuthOk, AuthNo, AuthResolved, AuthRequired, JoinFailed, IsBanned, IsTaken, Kicked, Lost,
         proof} \subseteq Steps
    BY DEF Steps, proof
  <2>. QED BY <1>7, <2>1, <2>2
<1>. QED BY <1>10, <1>11, <1>12, <1>13

\* The places of a sequence after an append.
LEMMA Appended ==
    ASSUME NEW S, NEW s \in Seq(S), NEW y \in S
    PROVE  /\ Len(Append(s, y)) = Len(s) + 1 /\ Append(s, y)[Len(s) + 1] = y
           /\ \A i \in 1 .. Len(s) : Append(s, y)[i] = s[i]
OBVIOUS

\* The places of a concatenation.
LEMMA Joined ==
    ASSUME NEW S, NEW a \in Seq(S), NEW b \in Seq(S)
    PROVE  /\ a \o b \in Seq(S) /\ Len(a \o b) = Len(a) + Len(b)
           /\ Len(a) \in Nat /\ Len(b) \in Nat
           /\ \A i \in 1 .. Len(a) : (a \o b)[i] = a[i]
           /\ \A i \in 1 .. Len(b) : (a \o b)[Len(a) + i] = b[i]
OBVIOUS

\* The elements of a concatenation.
LEMMA ElsJoined ==
    ASSUME NEW S, NEW a \in Seq(S), NEW b \in Seq(S)
    PROVE  Els(a \o b) = Els(a) \cup Els(b)
<1>. DEFINE t == a \o b
            n == Len(a)
            m == Len(b)
<1>1. /\ Len(t) = n + m /\ n \in Nat /\ m \in Nat
      /\ \A i \in 1 .. n : t[i] = a[i]
      /\ \A i \in 1 .. m : t[n + i] = b[i]
  BY Joined
<1>. HIDE DEF t, n, m
<1>2. /\ \A i \in 1 .. n : i \in 1 .. n + m
      /\ \A i \in 1 .. m : n + i \in 1 .. n + m
      /\ \A i \in 1 .. n + m : i \in 1 .. n \/ (i - n \in 1 .. m /\ n + (i - n) = i)
  BY <1>1
<1>3. \A i \in 1 .. Len(t) : t[i] \in Els(a) \cup Els(b)
  BY <1>1, <1>2 DEF Els, n, m
<1>4. (\A i \in 1 .. n : a[i] \in Els(t)) /\ (\A i \in 1 .. m : b[i] \in Els(t))
  <2>1. ASSUME NEW i \in 1 .. n PROVE a[i] \in Els(t)
    BY <1>1, <1>2 DEF Els
  <2>2. ASSUME NEW i \in 1 .. m PROVE b[i] \in Els(t)
    BY <1>1, <1>2 DEF Els
  <2>. QED BY <2>1, <2>2
<1>5. Els(t) = Els(a) \cup Els(b)
  BY <1>3, <1>4 DEF Els, n, m
<1>. QED BY <1>5 DEF t

\* A handler of one step is in order.
LEMMA OneInOrder ==
    ASSUME NEW a \in Steps
    PROVE  GoodHandler(<<a>>) /\ Els(<<a>>) = {a}
<1>1. 1 .. Len(<<a>>) = {1} /\ Tail(<<a>>) = <<>>
  OBVIOUS
<1>2. <<a>> \in Seq(Steps) /\ Els(<<a>>) = {a}
  BY ElsOne
<1>3. Ordered(<<a>>)
  BY <1>1 DEF Ordered
<1>4. \A x : Once(x, <<a>>)
  BY <1>1 DEF Once
<1>. QED BY <1>1, <1>2, <1>3, <1>4, ElsEmpty DEF GoodHandler

\* A handler of two steps.
LEMMA TwoInOrder ==
    ASSUME NEW a \in Steps, NEW b, Plain(b), a \notin {JoinResolved, GKicked}
    PROVE  GoodHandler(<<a, b>>) /\ Els(<<a, b>>) = {a, b}
<1>1. 1 .. Len(<<a, b>>) = {1, 2} /\ Tail(<<a, b>>) = <<b>>
  OBVIOUS
<1>2. b \in Steps /\ b # AuthOk
  BY DEF Plain
<1>3. <<a, b>> \in Seq(Steps) /\ Els(<<a, b>>) = {a, b} /\ Els(<<b>>) = {b}
  BY <1>2, ElsOne, ElsTwo
<1>4. Ordered(<<a, b>>)
  BY <1>1 DEF Ordered
<1>5. \A f \in Requests : Once(Call(Send(f)), <<a, b>>)
  BY <1>1 DEF Once, Plain
<1>. QED BY <1>1, <1>2, <1>3, <1>4, <1>5 DEF GoodHandler

\* A handler of three steps.
LEMMA ThreeInOrder ==
    ASSUME NEW a \in Steps, NEW b, NEW c, Plain(b), Plain(c), a \notin {JoinResolved, GKicked},
           b \notin {JoinResolved, GKicked}
    PROVE  GoodHandler(<<a, b, c>>) /\ Els(<<a, b, c>>) = {a, b, c}
<1>1. 1 .. Len(<<a, b, c>>) = {1, 2, 3} /\ Tail(<<a, b, c>>) = <<b, c>>
  OBVIOUS
<1>2. b \in Steps /\ c \in Steps /\ b # AuthOk /\ c # AuthOk
  BY DEF Plain
<1>3. /\ <<a, b, c>> \in Seq(Steps) /\ Els(<<a, b, c>>) = {a, b, c}
  BY <1>2, ElsThree
<1>4. Els(<<b, c>>) = {b, c}
  BY <1>2, ElsTwo
<1>5. Ordered(<<a, b, c>>)
  BY <1>1 DEF Ordered
<1>6. \A f \in Requests : Once(Call(Send(f)), <<a, b, c>>)
  BY <1>1 DEF Once, Plain
<1>. QED BY <1>1, <1>2, <1>3, <1>4, <1>5, <1>6 DEF GoodHandler

\* A handler that ends with the next read, or with close().
LEMMA AppendInOrder ==
    ASSUME NEW t, GoodHandler(t), t # <<>>, NEW y \in {ReadOn, Call(CloseIt)}
    PROVE  GoodHandler(Append(t, y)) /\ Els(Append(t, y)) = Els(t) \cup {y}
<1>. DEFINE u == Append(t, y)
            n == Len(t)
<1>1. t \in Seq(Steps) /\ Ordered(t) /\ y \in Steps /\ Plain(y)
  BY PlainSteps DEF GoodHandler
<1>2. u \in Seq(Steps) /\ Els(u) = Els(t) \cup {y}
  BY <1>1, ElsAppend
<1>3. Len(u) = n + 1 /\ u[n + 1] = y /\ \A i \in 1 .. n : u[i] = t[i]
  BY <1>1, Appended
<1>4. n \in Nat /\ Tail(t) \in Seq(Steps) /\ Tail(u) = Append(Tail(t), y)
  BY <1>1
<1>5. Els(Tail(u)) = Els(Tail(t)) \cup {y}
  <2>1. Els(Append(Tail(t), y)) = Els(Tail(t)) \cup {y}
    <3>. DEFINE v == Tail(t)
    <3>1. y \in Steps /\ v \in Seq(Steps)
      BY <1>1, <1>4
    <3>. HIDE DEF v
    <3>2. Els(Append(v, y)) = Els(v) \cup {y}
      BY <3>1, ElsAppend
    <3>. QED BY <3>2 DEF v
  <2>. HIDE DEF u
  <2>. QED BY <1>4, <2>1
<1>6. AuthOk \notin Els(Tail(u))
  <2>. HIDE DEF u
  <2>. QED BY <1>1, <1>5 DEF GoodHandler, Plain
<1>7. ASSUME NEW f \in Requests PROVE Once(Call(Send(f)), u)
  <2>1. Once(Call(Send(f)), t) /\ Call(Send(f)) # y
    BY <1>1 DEF GoodHandler, Plain
  <2>. QED BY <1>1, <2>1, ElsAppend
<1>. HIDE DEF u
<1>8. Ordered(u)
  <2>1. \A i, j \in 1 .. n + 1 : i < j => i \in 1 .. n /\ (j \in 1 .. n \/ j = n + 1)
    BY <1>4
  <2>. QED BY <1>1, <1>3, <2>1 DEF Ordered
<1>. QED BY <1>2, <1>6, <1>7, <1>8 DEF GoodHandler, u

\* A handshake that fails: before close(), and after a read that failed.
LEMMA FailedInOrder ==
    ASSUME NEW r \in Failures
    PROVE  LET all == {AuthNo, AuthResolved, JoinFailed, Because(r), JoinResolved}
               shut == Append(HandshakeFailed(r), Call(CloseIt))
               lost == <<Lost, Shut>> \o HandshakeFailed(r)
           IN  /\ GoodHandler(shut) /\ Els(shut) = all \cup {Call(CloseIt)}
               /\ GoodHandler(lost) /\ Els(lost) = all \cup {Lost, Shut}
<1>. DEFINE why == Because(r)
            bye == Call(CloseIt)
            all == {AuthNo, AuthResolved, JoinFailed, why, JoinResolved}
            hf == HandshakeFailed(r)
            two == <<Lost, Shut>>
            shut == Append(hf, bye)
            lost == two \o hf
<1>1. /\ Plain(AuthNo) /\ Plain(AuthResolved) /\ Plain(JoinFailed) /\ Plain(JoinResolved)
      /\ Plain(Lost) /\ Plain(Shut) /\ Plain(why) /\ Plain(bye)
  BY PlainSteps DEF Failures
<1>2. {AuthNo, AuthResolved, JoinFailed, Lost, Shut, why} \cap {JoinResolved, GKicked} = {}
  BY PlainSteps DEF Failures
<1>3. /\ hf = <<AuthNo, AuthResolved, JoinFailed, why, JoinResolved>>
  BY DEF HandshakeFailed, AuthNo, AuthResolved, JoinFailed, JoinResolved
<1>. HIDE DEF why, bye, hf
<1>4. /\ hf \in Seq(Steps) /\ Len(hf) = 5 /\ hf[1] = AuthNo /\ hf[2] = AuthResolved
      /\ hf[3] = JoinFailed /\ hf[4] = why /\ hf[5] = JoinResolved
  BY <1>1, <1>3 DEF Plain
<1>5. Els(hf) = all
  <2>1. 1 .. Len(hf) = {1, 2, 3, 4, 5}
    BY <1>4
  <2>. QED BY <1>4, <2>1 DEF Els
<1>6. /\ two \in Seq(Steps) /\ Len(two) = 2 /\ two[1] = Lost /\ two[2] = Shut
      /\ Els(two) = {Lost, Shut}
  BY <1>1, ElsTwo DEF Plain
<1>. HIDE DEF two
<1>7. shut \in Seq(Steps) /\ Els(shut) = all \cup {bye}
  BY <1>1, <1>4, <1>5, ElsAppend DEF Plain
<1>8. lost \in Seq(Steps) /\ Els(lost) = all \cup {Lost, Shut}
  BY <1>4, <1>5, <1>6, ElsJoined, Joined
<1>9. /\ Len(shut) = 6 /\ shut[6] = bye
      /\ \A i \in 1 .. 5 : shut[i] = hf[i]
  <2>1. /\ Len(shut) = Len(hf) + 1 /\ shut[Len(hf) + 1] = bye
        /\ \A i \in 1 .. Len(hf) : shut[i] = hf[i]
    <3>1. hf \in Seq(Steps) /\ bye \in Steps
      BY <1>1, <1>4 DEF Plain
    <3>. QED BY <3>1, Appended
  <2>2. Len(hf) + 1 = 6
    BY <1>4
  <2>. HIDE DEF shut
  <2>. QED BY <1>4, <2>1, <2>2
<1>10. /\ Len(lost) = 7 /\ lost[1] = Lost /\ lost[2] = Shut
       /\ \A i \in 1 .. 5 : lost[2 + i] = hf[i]
  <2>1. /\ Len(lost) = Len(two) + Len(hf)
        /\ \A i \in 1 .. Len(two) : lost[i] = two[i]
        /\ \A i \in 1 .. Len(hf) : lost[Len(two) + i] = hf[i]
    <3>1. hf \in Seq(Steps) /\ two \in Seq(Steps)
      BY <1>4, <1>6
    <3>. QED BY <3>1, Joined
  <2>2. Len(two) + Len(hf) = 7 /\ 1 \in 1 .. 2 /\ 2 \in 1 .. 2
    BY <1>4, <1>6
  <2>. HIDE DEF lost
  <2>. QED BY <1>4, <1>6, <2>1, <2>2
<1>. HIDE DEF shut, lost
<1>11. Els(Tail(shut)) \subseteq Els(shut) /\ Els(Tail(lost)) \subseteq Els(lost)
  <2>1. shut # <<>> /\ lost # <<>>
    <3>1. Len(<<>>) = 0
      OBVIOUS
    <3>2. 6 # 0 /\ 7 # 0
      OBVIOUS
    <3>. QED BY <1>9, <1>10, <3>1, <3>2, Zenon
  <2>. QED BY <1>7, <1>8, <2>1, ElsTail
<1>12. \A x \in Els(shut) \cup Els(lost) : Plain(x)
  BY <1>1, <1>7, <1>8
<1>13. AuthOk \notin Els(Tail(shut)) /\ AuthOk \notin Els(Tail(lost))
  BY <1>11, <1>12 DEF Plain
<1>14. \A f \in Requests : Once(Call(Send(f)), shut) /\ Once(Call(Send(f)), lost)
  <2>1. \A f \in Requests : Call(Send(f)) \notin Els(shut) /\ Call(Send(f)) \notin Els(lost)
    BY <1>12 DEF Plain
  <2>. QED BY <2>1, OnceAbsent
<1>15. Ordered(shut)
  <2>1. \A i \in 1 .. 6 : shut[i] \in {JoinResolved, GKicked} => i >= 5
    <3>1. \A i \in 1 .. 6 : i = 1 \/ i = 2 \/ i = 3 \/ i = 4 \/ i >= 5
      OBVIOUS
    <3>2. 1 \in 1 .. 5 /\ 2 \in 1 .. 5 /\ 3 \in 1 .. 5 /\ 4 \in 1 .. 5
      OBVIOUS
    <3>3. shut[1] = AuthNo /\ shut[2] = AuthResolved /\ shut[3] = JoinFailed /\ shut[4] = why
      BY <1>4, <1>9, <3>2
    <3>. QED BY <1>2, <3>1, <3>3
  <2>2. \A i, j \in 1 .. 6 : i >= 5 /\ i < j => j = 6
    OBVIOUS
  <2>. QED BY <1>9, <2>1, <2>2 DEF Ordered, bye
<1>16. Ordered(lost)
  <2>1. \A i \in 1 .. 7 : lost[i] \in {JoinResolved, GKicked} => i = 7
    <3>1. \A i \in 1 .. 7 : i = 1 \/ i = 2 \/ i = 3 \/ i = 4 \/ i = 5 \/ i = 6 \/ i = 7
      OBVIOUS
    <3>2. /\ lost[3] = AuthNo /\ lost[4] = AuthResolved /\ lost[5] = JoinFailed /\ lost[6] = why
      <4>1. 3 = 2 + 1 /\ 4 = 2 + 2 /\ 5 = 2 + 3 /\ 6 = 2 + 4
        OBVIOUS
      <4>. QED BY <1>4, <1>10, <4>1
    <3>. QED BY <1>2, <1>10, <3>1, <3>2
  <2>2. \A i, j \in 1 .. 7 : i = 7 => ~(i < j)
    OBVIOUS
  <2>. QED BY <1>10, <2>1, <2>2 DEF Ordered
<1>. QED BY <1>7, <1>8, <1>13, <1>14, <1>15, <1>16 DEF GoodHandler, why, bye, shut, lost, two, hf

\* A frame that is read: its handler is in order and takes these steps.
LEMMA FrameRead ==
    ASSUME Shapes, ReplyInv, HelloInv, todo = <<>>, s2c # <<>>
    PROVE  LET x == Head(s2c)
               t == OnFrame(x)
           IN  GoodHandler(t) /\ Els(t) = StepsOf(x) /\ x \in Frames /\ Coming(x)
<1>. DEFINE x == Head(s2c)
            t == OnFrame(x)
            rejected == Because("rejected")
            kicked == Because("kicked")
            proof == Call(Send("IdentityProof"))
<1>1. x \in Frames /\ Coming(x)
  BY ElsTail DEF Shapes, Coming
<1>2. Greeted <=> negotiated
  BY ElsEmpty DEF Greeted, Doing
<1>3. x \in Foreign => ~negotiated
  BY <1>1, <1>2 DEF HelloInv, ReplyInv, Coming
<1>4. x \notin Foreign \cup {"Hello"} => negotiated
  BY <1>1, <1>2 DEF HelloInv, ReplyInv, Coming
<1>. HIDE DEF x
<1>5. /\ {AuthOk, AuthNo, AuthResolved, AuthRequired, JoinFailed, IsBanned, IsTaken, Kicked,
         proof, Negotiated} \subseteq Steps \ {JoinResolved, GKicked}
      /\ Plain(ReadOn) /\ Plain(AuthResolved) /\ Plain(JoinResolved) /\ Plain(GKicked)
      /\ Plain(rejected) /\ Plain(kicked) /\ rejected \notin {JoinResolved, GKicked}
      /\ kicked \notin {JoinResolved, GKicked} /\ JoinResolved \in Steps /\ ReadOn \in Steps
  BY PlainSteps
<1>6. ASSUME x = "Hello" PROVE GoodHandler(t) /\ Els(t) = StepsOf(x)
  <2>1. t = <<Negotiated, ReadOn>>
    BY <1>4, <1>6 DEF OnFrame, Foreign
  <2>2. GoodHandler(<<Negotiated, ReadOn>>) /\ Els(<<Negotiated, ReadOn>>) = {Negotiated, ReadOn}
    BY <1>5, TwoInOrder
  <2>3. StepsOf(x) = {Negotiated, ReadOn}
    BY <1>6 DEF StepsOf
  <2>. HIDE DEF t
  <2>. QED BY <2>1, <2>2, <2>3
<1>7. ASSUME x = "Junk" PROVE GoodHandler(t) /\ Els(t) = StepsOf(x)
  <2>1. t = <<ReadOn>>
    BY <1>4, <1>7 DEF OnFrame, Foreign
  <2>2. GoodHandler(<<ReadOn>>) /\ Els(<<ReadOn>>) = {ReadOn}
    BY <1>5, OneInOrder
  <2>3. StepsOf(x) = {ReadOn}
    BY <1>7 DEF StepsOf
  <2>. HIDE DEF t
  <2>. QED BY <2>1, <2>2, <2>3
<1>8. ASSUME x = "IdentityAccepted" PROVE GoodHandler(t) /\ Els(t) = StepsOf(x)
  <2>1. t = <<ReadOn>>
    BY <1>4, <1>8 DEF OnFrame, Foreign
  <2>2. GoodHandler(<<ReadOn>>) /\ Els(<<ReadOn>>) = {ReadOn}
    BY <1>5, OneInOrder
  <2>3. StepsOf(x) = {ReadOn}
    BY <1>8 DEF StepsOf
  <2>. HIDE DEF t
  <2>. QED BY <2>1, <2>2, <2>3
<1>9. ASSUME x = "AuthRequired" PROVE GoodHandler(t) /\ Els(t) = StepsOf(x)
  <2>. DEFINE u == <<AuthRequired>>
  <2>1. t = Append(u, ReadOn)
    BY <1>4, <1>9 DEF OnFrame, Foreign, AuthRequired
  <2>2. GoodHandler(u) /\ Els(u) = {AuthRequired} /\ u # <<>>
    BY <1>5, OneInOrder
  <2>3. StepsOf(x) = {AuthRequired, ReadOn}
    BY <1>9 DEF StepsOf
  <2>. HIDE DEF t, u
  <2>. QED BY <2>1, <2>2, <2>3, AppendInOrder
<1>10. ASSUME x = "AuthAccepted" PROVE GoodHandler(t) /\ Els(t) = StepsOf(x)
  <2>. DEFINE u == <<AuthOk, AuthResolved>>
  <2>1. t = Append(u, ReadOn)
    BY <1>4, <1>10 DEF OnFrame, Foreign, AuthOk, AuthResolved
  <2>2. GoodHandler(u) /\ Els(u) = {AuthOk, AuthResolved} /\ u # <<>>
    BY <1>5, TwoInOrder
  <2>3. StepsOf(x) = {AuthOk, AuthResolved, ReadOn}
    BY <1>10 DEF StepsOf
  <2>. HIDE DEF t, u
  <2>. QED BY <2>1, <2>2, <2>3, AppendInOrder
<1>11. ASSUME x = "AuthRejected" PROVE GoodHandler(t) /\ Els(t) = StepsOf(x)
  <2>. DEFINE u == <<AuthNo, AuthResolved>>
  <2>1. t = Append(u, ReadOn)
    BY <1>4, <1>11 DEF OnFrame, Foreign, AuthNo, AuthResolved
  <2>2. GoodHandler(u) /\ Els(u) = {AuthNo, AuthResolved} /\ u # <<>>
    BY <1>5, TwoInOrder
  <2>3. StepsOf(x) = {AuthNo, AuthResolved, ReadOn}
    BY <1>11 DEF StepsOf
  <2>. HIDE DEF t, u
  <2>. QED BY <2>1, <2>2, <2>3, AppendInOrder
<1>12. ASSUME x = "Challenge" PROVE GoodHandler(t) /\ Els(t) = StepsOf(x)
  <2>. DEFINE u == <<proof>>
  <2>1. t = Append(u, ReadOn)
    BY <1>4, <1>12 DEF OnFrame, Foreign
  <2>2. GoodHandler(u) /\ Els(u) = {proof} /\ u # <<>>
    BY <1>5, OneInOrder
  <2>3. StepsOf(x) = {proof, ReadOn}
    BY <1>12 DEF StepsOf
  <2>. HIDE DEF t, u
  <2>. QED BY <2>1, <2>2, <2>3, AppendInOrder
<1>13. ASSUME x = "JoinAccepted" PROVE GoodHandler(t) /\ Els(t) = StepsOf(x)
  <2>. DEFINE u == <<JoinResolved>>
  <2>1. t = Append(u, ReadOn)
    BY <1>4, <1>13 DEF OnFrame, Foreign, JoinResolved
  <2>2. GoodHandler(u) /\ Els(u) = {JoinResolved} /\ u # <<>>
    BY <1>5, OneInOrder
  <2>3. StepsOf(x) = {JoinResolved, ReadOn}
    BY <1>13 DEF StepsOf
  <2>. HIDE DEF t, u
  <2>. QED BY <2>1, <2>2, <2>3, AppendInOrder
<1>14. ASSUME x = "JoinRejected" PROVE GoodHandler(t) /\ Els(t) = StepsOf(x)
  <2>. DEFINE u == <<JoinFailed, rejected, JoinResolved>>
  <2>1. t = Append(u, ReadOn)
    BY <1>4, <1>14 DEF OnFrame, Foreign, JoinFailed, JoinResolved, OnRejected
  <2>2. GoodHandler(u) /\ Els(u) = {JoinFailed, rejected, JoinResolved} /\ u # <<>>
    BY <1>5, ThreeInOrder
  <2>3. StepsOf(x) = {JoinFailed, rejected, JoinResolved, ReadOn}
    BY <1>14 DEF StepsOf
  <2>. HIDE DEF t, u
  <2>. QED BY <2>1, <2>2, <2>3, AppendInOrder
<1>15. ASSUME x = "Banned" PROVE GoodHandler(t) /\ Els(t) = StepsOf(x)
  <2>. DEFINE u == <<IsBanned, JoinResolved>>
  <2>1. t = Append(u, ReadOn)
    BY <1>4, <1>15 DEF OnFrame, Foreign, IsBanned, JoinResolved, OnBanned
  <2>2. GoodHandler(u) /\ Els(u) = {IsBanned, JoinResolved} /\ u # <<>>
    BY <1>5, TwoInOrder
  <2>3. StepsOf(x) = {IsBanned, JoinResolved, ReadOn}
    BY <1>15 DEF StepsOf
  <2>. HIDE DEF t, u
  <2>. QED BY <2>1, <2>2, <2>3, AppendInOrder
<1>16. ASSUME x = "NicknameTaken" PROVE GoodHandler(t) /\ Els(t) = StepsOf(x)
  <2>. DEFINE u == <<IsTaken, JoinResolved>>
  <2>1. t = Append(u, ReadOn)
    BY <1>4, <1>16 DEF OnFrame, Foreign, IsTaken, JoinResolved
  <2>2. GoodHandler(u) /\ Els(u) = {IsTaken, JoinResolved} /\ u # <<>>
    BY <1>5, TwoInOrder
  <2>3. StepsOf(x) = {IsTaken, JoinResolved, ReadOn}
    BY <1>16 DEF StepsOf
  <2>. HIDE DEF t, u
  <2>. QED BY <2>1, <2>2, <2>3, AppendInOrder
<1>17. ASSUME x = "Kick" PROVE GoodHandler(t) /\ Els(t) = StepsOf(x)
  <2>. DEFINE u == <<Kicked, kicked, GKicked>>
  <2>1. t = Append(u, ReadOn)
    BY <1>4, <1>17 DEF OnFrame, Foreign, Kicked, GKicked, OnKick
  <2>2. GoodHandler(u) /\ Els(u) = {Kicked, kicked, GKicked} /\ u # <<>>
    BY <1>5, ThreeInOrder
  <2>3. StepsOf(x) = {Kicked, kicked, GKicked, ReadOn}
    BY <1>17 DEF StepsOf
  <2>. HIDE DEF t, u
  <2>. QED BY <2>1, <2>2, <2>3, AppendInOrder
<1>18. ASSUME x = "OtherHello" PROVE GoodHandler(t) /\ Els(t) = StepsOf(x)
  <2>1. t = Append(HandshakeFailed("version"), Call(CloseIt))
    BY <1>3, <1>18 DEF OnFrame, Foreign
  <2>2. "version" \in Failures
    BY DEF Failures
  <2>3. StepsOf(x) = {AuthNo, AuthResolved, JoinFailed, Because("version"), JoinResolved}
                        \cup {Call(CloseIt)}
    BY <1>18 DEF StepsOf
  <2>. HIDE DEF t
  <2>. QED BY <2>1, <2>2, <2>3, FailedInOrder
<1>19. ASSUME x = "Text" PROVE GoodHandler(t) /\ Els(t) = StepsOf(x)
  <2>1. t = Append(HandshakeFailed("no handshake"), Call(CloseIt))
    BY <1>3, <1>19 DEF OnFrame, Foreign
  <2>2. "no handshake" \in Failures
    BY DEF Failures
  <2>3. StepsOf(x) = {AuthNo, AuthResolved, JoinFailed, Because("no handshake"), JoinResolved}
                        \cup {Call(CloseIt)}
    BY <1>19 DEF StepsOf
  <2>. HIDE DEF t
  <2>. QED BY <2>1, <2>2, <2>3, FailedInOrder
<1>. HIDE DEF t
<1>20. GoodHandler(t) /\ Els(t) = StepsOf(x)
  BY <1>1, <1>6, <1>7, <1>8, <1>9, <1>10, <1>11, <1>12, <1>13, <1>14,
     <1>15, <1>16, <1>17, <1>18, <1>19 DEF Frames
<1>. QED BY <1>1, <1>20 DEF x, t

-----------------------------------------------------------------------------
(***************************************************************************)
(* The server and the network.                                             *)
(***************************************************************************)

\* What the client has done so far is as it was.
ClientSame ==
    /\ Accepted' <=> Accepted
    /\ Resolved' <=> Resolved
    /\ Required' <=> Required
    /\ Decided' <=> Decided
    /\ Failed' <=> Failed
    /\ BannedOn' <=> BannedOn
    /\ TakenOn' <=> TakenOn
    /\ KickedOn' <=> KickedOn
    /\ Greeted' <=> Greeted
    /\ Live' <=> Live

\* A step that leaves the handler and the flags alone.
LEMMA SameClient ==
    ASSUME flags' = flags, todo' = todo, reading' = reading, negotiated' = negotiated
    PROVE  ClientSame /\ \A x : Doing(x)' <=> Doing(x)
<1>1. \A x : Doing(x)' <=> Doing(x)
  BY DEF Doing
<1>2. \A f, x : On(f, x)' <=> On(f, x)
  BY <1>1 DEF On
<1>. QED BY <1>1, <1>2 DEF ClientSame, Accepted, Resolved, Required, Decided, Failed, BannedOn,
                           TakenOn, KickedOn, Greeted, Live

\* Requests are never two at a time.
LEMMA OneRequest ==
    ASSUME RequestInv, NEW f \in Requests, NEW g \in Requests, Up(f), Up(g)
    PROVE  f = g
BY DEF RequestInv, Requests

\* The server takes the one request there is.
LEMMA RequestTaken ==
    ASSUME Shapes, RequestInv, c2s # <<>>, c2s' = Tail(c2s), queue' = queue, posted' = posted,
           todo' = todo
    PROVE  /\ NoUp' /\ Head(c2s) \in Requests /\ Up(Head(c2s)) /\ c2s' \in Seq(Requests)
           /\ \A f \in Requests : Solo(f)'
<1>. DEFINE h == Head(c2s)
<1>1. /\ h \in Requests /\ c2s' \in Seq(Requests) /\ Els(c2s) = {h} \cup Els(c2s')
      /\ \A x : Once(x, c2s) => Once(x, c2s') /\ (h = x => x \notin Els(c2s'))
  BY ElsTail DEF Shapes
<1>2. Up(h)
  BY <1>1 DEF Up
<1>. HIDE DEF h
<1>3. Solo(h)
  BY <1>1 DEF RequestInv
<1>4. ASSUME NEW f \in Requests PROVE ~Up(f)'
  <2>1. CASE f = h
    BY <1>1, <1>3, <2>1 DEF Up, Doing, Solo
  <2>2. CASE f # h
    <3>1. ~Up(f)
      BY <1>1, <1>2, <2>2, OneRequest
    <3>. QED BY <1>1, <3>1 DEF Up, Doing
  <2>. QED BY <2>1, <2>2
<1>5. ASSUME NEW f \in Requests PROVE Solo(f)'
  BY <1>1, <1>4 DEF RequestInv, Solo, Up, Doing
<1>. QED BY <1>1, <1>2, <1>4, <1>5 DEF NoUp, h

\* What the server appends.
LEMMA Answered ==
    ASSUME Shapes, NEW x \in Frames, s2c' = Append(s2c, x)
    PROVE  /\ s2c' \in Seq(Frames) /\ Els(s2c') = Els(s2c) \cup {x}
           /\ \A y : Once(y, s2c) /\ ~Coming(y) => Once(y, s2c')
           /\ \A y : Once(y, s2c) /\ x # y => Once(y, s2c')
           /\ s2c' # <<>> /\ (s2c # <<>> => Head(s2c') = Head(s2c))
<1>1. s2c \in Seq(Frames)
  BY DEF Shapes
<1>2. s2c' # <<>> /\ (s2c # <<>> => Head(s2c') = Head(s2c))
  BY <1>1
<1>. QED BY <1>1, <1>2, ElsAppend DEF Coming

\* The client's part of the invariant, after a step of the server alone.
ClientFixed ==
    /\ flags' = flags /\ todo' = todo /\ reading' = reading /\ negotiated' = negotiated
    /\ posted' = posted /\ queue' = queue /\ open' = open /\ reason' = reason /\ peer' = peer
    /\ pc' = pc /\ verdict' = verdict /\ writing' = writing

\* A server that has not decided answers, and the decision it may come to is new.
LEMMA ServerMoves ==
    ASSUME LoginInv, ClientFixed, NoUp', \A f \in Requests : Solo(f)', Chatbox,
           srv' \in Servers, link = "up", link' \in {"up", "fin"}, c2s' \in Seq(Requests),
           srv \notin Closed \cup {"joined"},
           Accepted => srv' \in Past, srv' \in Past => Accepted, srv' # "connected",
           srv' = "greeted" => link' = "up",
           srv' \in Closed <=> link' = "fin",
           Required => pc \notin PreAuthenticate,
           Accepted => pc \notin PreIdentify,
           s2c' \in Seq(Frames), s2c' # <<>>, s2c # <<>> => Head(s2c') = Head(s2c)
    PROVE  /\ Shapes' /\ ServerInv' /\ RequestInv' /\ HelloInv' /\ AuthInv' /\ StreamInv'
           /\ OutcomeInv' /\ KickInv' /\ TerminalInv' /\ VerdictIsTrue'
<1>1. ClientSame /\ \A x : Doing(x)' <=> Doing(x)
  BY SameClient DEF ClientFixed
<1>2. srv \in {"connected", "greeted", "challenged"} /\ (Chatbox' <=> Chatbox)
  BY DEF LoginInv, Shapes, Servers, Past, Closed, ClientFixed, Chatbox
<1>3. Shapes'
  BY DEF LoginInv, Shapes, ClientFixed
<1>4. ServerInv'
  BY <1>1, <1>2 DEF ServerInv, ClientSame, Closed
<1>5. RequestInv'
  BY DEF RequestInv, NoUp, Requests
<1>6. HelloInv'
  BY <1>1, <1>2 DEF LoginInv, HelloInv, ClientSame
<1>7. AuthInv'
  BY <1>1, <1>2 DEF LoginInv, AuthInv, ClientSame, ClientFixed, Past, Servers
<1>8. StreamInv'
  BY <1>1, <1>2 DEF LoginInv, StreamInv, ClientFixed
<1>9. OutcomeInv'
  BY <1>1, <1>2 DEF LoginInv, OutcomeInv, ClientFixed, ClientSame, Outcomes
<1>10. KickInv'
  BY <1>1, <1>2 DEF LoginInv, KickInv, ClientFixed, ClientSame
<1>11. TerminalInv'
  <2>1. pc \notin {"banned?", "taken?", "failed?", "reason"}
    BY <1>2 DEF LoginInv, TerminalInv, OutcomeInv, Outcomes, Accepted, Decided, On
  <2>. QED BY <2>1 DEF LoginInv, TerminalInv, ClientFixed
<1>12. VerdictIsTrue'
  BY <1>1, <1>2 DEF LoginInv, VerdictIsTrue, ClientFixed
<1>. QED BY <1>3, <1>4, <1>5, <1>6, <1>7, <1>8, <1>9, <1>10, <1>11, <1>12

\* What the server sends in answer to a request: frame x, once, and perhaps
\* IdentityAccepted, which the client ignores.
Answers(x) ==
    /\ s2c' \in Seq(Frames) /\ s2c' # <<>> /\ (s2c # <<>> => Head(s2c') = Head(s2c))
    /\ Els(s2c') \cup {"IdentityAccepted"} = Els(s2c) \cup {x, "IdentityAccepted"}
    /\ \A y \in Frames \ {"IdentityAccepted"} : ~Coming(y) => Once(y, s2c')

\* The server answers with one frame.
LEMMA AnswersOne ==
    ASSUME Shapes, NEW x \in Frames, s2c' = Append(s2c, x)
    PROVE  Answers(x)
<1>1. /\ s2c' \in Seq(Frames) /\ Els(s2c') = Els(s2c) \cup {x}
      /\ \A y : Once(y, s2c) /\ ~Coming(y) => Once(y, s2c')
      /\ s2c' # <<>> /\ (s2c # <<>> => Head(s2c') = Head(s2c))
  BY Answered
<1>2. \A y : ~Coming(y) => Once(y, s2c)
  BY OnceAbsent DEF Coming
<1>. QED BY <1>1, <1>2 DEF Answers

\* The server lets the client in.
LEMMA AnswersTwo ==
    ASSUME Shapes, s2c' = s2c \o <<"IdentityAccepted", "JoinAccepted">>
    PROVE  Answers("JoinAccepted")
<1>. DEFINE a == Append(s2c, "IdentityAccepted")
<1>1. s2c \in Seq(Frames) /\ "IdentityAccepted" \in Frames /\ "JoinAccepted" \in Frames
  BY DEF Shapes, Frames
<1>2. s2c' = Append(a, "JoinAccepted")
  BY <1>1
<1>3. a \in Seq(Frames) /\ a # <<>> /\ (s2c # <<>> => Head(a) = Head(s2c))
  BY <1>1
<1>4. s2c' # <<>> /\ Head(s2c') = Head(a)
  BY <1>1, <1>2, <1>3
<1>5. /\ Els(a) = Els(s2c) \cup {"IdentityAccepted"}
      /\ \A y : Once(y, s2c) /\ y # "IdentityAccepted" => Once(y, a)
  BY <1>1, ElsAppend
<1>. HIDE DEF a
<1>6. /\ Els(s2c') = Els(a) \cup {"JoinAccepted"} /\ s2c' \in Seq(Frames)
      /\ \A y : Once(y, a) /\ y \notin Els(a) => Once(y, s2c')
  <2>. DEFINE j == "JoinAccepted"
  <2>1. a \in Seq(Frames) /\ j \in Frames
    BY <1>1, <1>3
  <2>. HIDE DEF j
  <2>2. /\ Append(a, j) \in Seq(Frames) /\ Els(Append(a, j)) = Els(a) \cup {j}
        /\ \A y : Once(y, a) /\ (y # j \/ y \notin Els(a)) => Once(y, Append(a, j))
    BY <2>1, ElsAppend
  <2>. QED BY <1>2, <2>2 DEF j
<1>7. \A y : ~Coming(y) => Once(y, s2c)
  BY OnceAbsent DEF Coming
<1>8. ASSUME NEW y \in Frames \ {"IdentityAccepted"}, ~Coming(y) PROVE Once(y, s2c')
  BY <1>5, <1>6, <1>7, <1>8 DEF Coming
<1>. QED BY <1>3, <1>4, <1>5, <1>6, <1>8 DEF Answers

\* The server reads a request and answers.
LEMMA LoginServerReads == LoginInv /\ ServerReads => LoginInv'
<1>. SUFFICES ASSUME LoginInv, ServerReads PROVE LoginInv'
  OBVIOUS
<1>. DEFINE h == Head(c2s)
<1>1. ClientFixed /\ Chatbox /\ link = "up" /\ c2s # <<>> /\ c2s' = Tail(c2s)
  BY DEF ServerReads, ClientFixed, Chatbox, streamVars, terminalVars
<1>2. /\ Shapes /\ ServerInv /\ RequestInv /\ ReplyInv /\ VerdictInv /\ AuthInv /\ OutcomeInv
      /\ KickInv
  BY DEF LoginInv
<1>3. /\ NoUp' /\ h \in Requests /\ Up(h) /\ c2s' \in Seq(Requests)
      /\ \A f \in Requests : Solo(f)'
  BY <1>1, <1>2, RequestTaken DEF ClientFixed
<1>4. ClientSame /\ \A x : Doing(x)' <=> Doing(x)
  BY <1>1, SameClient DEF ClientFixed
<1>. HIDE DEF h
<1>5. ~NoUp /\ srv \notin Closed \cup {"joined"}
  BY <1>1, <1>2, <1>3 DEF NoUp, ServerInv
<1>6. /\ Required => pc \notin PreAuthenticate
      /\ Accepted => pc \notin PreIdentify
  BY <1>2, <1>5 DEF AuthInv
<1>7. ~Coming("AuthRequired") /\ ~Coming("AuthAccepted") /\ ~Coming("Challenge")
  BY <1>2, <1>5 DEF ReplyInv
<1>8. /\ ~Coming("AuthRejected") /\ ~Coming("JoinAccepted") /\ ~Coming("JoinRejected")
      /\ ~Coming("Banned") /\ ~Coming("NicknameTaken") /\ ~Coming("Kick")
  BY <1>2, <1>5 DEF ReplyInv, VerdictInv, Closed
<1>9. ASSUME NEW x \in Frames \ (Foreign \cup {"Kick"}), Answers(x), srv' \in Servers,
             Accepted => srv' \in Past, srv' \in Past => Accepted, srv' # "connected",
             link' = IF srv' \in Closed THEN "fin" ELSE "up",
             x = "AuthRequired" => srv' = "greeted" /\ peer = "locked" /\ ~Required,
             x = "AuthAccepted" =>
                srv' = "greeted" /\ (peer = "locked" => pc \notin PreAuthenticate),
             x = "AuthRejected" => srv' = "wrong_password",
             x = "Challenge" => srv' = "challenged",
             x = "JoinAccepted" => srv' = "joined",
             x = "JoinRejected" => srv' = "rejected",
             x = "Banned" => srv' = "banned",
             x = "NicknameTaken" => srv' = "taken"
      PROVE  LoginInv'
  <2>1. s2c' \in Seq(Frames) /\ s2c' # <<>> /\ (s2c # <<>> => Head(s2c') = Head(s2c))
    BY <1>9 DEF Answers
  <2>2. \A y \in Frames \ {"IdentityAccepted"} : Coming(y)' <=> Coming(y) \/ y = x
    BY <1>9 DEF Answers, Coming
  <2>3. \A y \in Frames \ {"IdentityAccepted"} : ~Coming(y) => Once(y, s2c')
    BY <1>9 DEF Answers
  <2>4. /\ Shapes' /\ ServerInv' /\ RequestInv' /\ HelloInv' /\ AuthInv' /\ StreamInv'
        /\ OutcomeInv' /\ KickInv' /\ TerminalInv' /\ VerdictIsTrue'
    <3>1. /\ link' \in {"up", "fin"} /\ (srv' = "greeted" => link' = "up")
          /\ srv' \in Closed <=> link' = "fin"
      BY <1>9 DEF Closed
    <3>. QED BY <1>1, <1>3, <1>5, <1>6, <1>9, <2>1, <3>1, ServerMoves
  <2>5. Accepted => ~Decided
    BY <1>2, <1>5 DEF OutcomeInv, Outcomes, Closed
  <2>6. ReplyInv'
    <3>1. Els(s2c') \cap Foreign = {}
      BY <1>1, <1>2, <1>9 DEF ReplyInv, Answers, Foreign
    <3>2. Chatbox'
      BY <1>1 DEF ClientFixed, Chatbox
    <3>. QED BY <1>1, <1>2, <1>3, <1>4, <1>7, <1>8, <1>9, <2>2, <2>3, <3>1, <3>2
         DEF ReplyInv, ClientSame, ClientFixed, Past, Frames
  <2>7. VerdictInv'
    BY <1>1, <1>2, <1>3, <1>4, <1>7, <1>8, <1>9, <2>2, <2>3, <2>5
       DEF VerdictInv, ClientSame, ClientFixed, Past, Frames
  <2>. QED BY <2>4, <2>6, <2>7 DEF LoginInv
<1>10. /\ \A x \in {"AuthRequired", "AuthAccepted", "AuthRejected", "Challenge", "JoinAccepted",
                   "JoinRejected", "Banned", "NicknameTaken"} :
            x \in Frames \ (Foreign \cup {"Kick"}) /\ (s2c' = Append(s2c, x) => Answers(x))
       /\ s2c' = s2c \o <<"IdentityAccepted", "JoinAccepted">> => Answers("JoinAccepted")
       /\ \A x : s2c \o <<x>> = Append(s2c, x)
  <2>1. \A x : s2c \o <<x>> = Append(s2c, x)
    BY <1>2 DEF Shapes
  <2>2. {"AuthRequired", "AuthAccepted", "AuthRejected", "Challenge", "JoinAccepted",
         "JoinRejected", "Banned", "NicknameTaken"} \subseteq Frames \ (Foreign \cup {"Kick"})
    BY DEF Frames, Foreign
  <2>. QED BY <1>2, <2>1, <2>2, AnswersOne, AnswersTwo
<1>11. CASE h = "Hello"
  <2>1. srv = "connected" /\ ~Accepted /\ ~Required
    BY <1>2, <1>3, <1>11 DEF RequestInv, AuthInv
  <2>2. /\ srv' = "greeted" /\ link' = link
        /\ s2c' = s2c \o <<IF peer = "locked" THEN "AuthRequired" ELSE "AuthAccepted">>
    BY <1>11 DEF ServerReads, Answer, h
  <2>3. "greeted" \in Servers \ (Past \cup Closed)
    BY DEF Servers, Past, Closed
  <2>4. CASE peer = "locked"
    BY <1>1, <1>9, <1>10, <2>1, <2>2, <2>3, <2>4
  <2>5. CASE peer # "locked"
    BY <1>1, <1>9, <1>10, <2>1, <2>2, <2>3, <2>5
  <2>. QED BY <2>4, <2>5
<1>12. ASSUME Accepted, Refusals PROVE LoginInv'
  <2>1. \/ srv' = "rejected" /\ s2c' = Append(s2c, "JoinRejected") /\ link' = "fin"
        \/ srv' = "banned" /\ s2c' = Append(s2c, "Banned") /\ link' = "fin"
        \/ srv' = "taken" /\ s2c' = Append(s2c, "NicknameTaken") /\ link' = "fin"
    BY <1>12 DEF Refusals, Refuse
  <2>2. {"rejected", "banned", "taken"} \subseteq Servers \cap Past \cap Closed
    BY DEF Servers, Past, Closed
  <2>3. CASE srv' = "rejected" /\ s2c' = Append(s2c, "JoinRejected") /\ link' = "fin"
    BY <1>9, <1>10, <1>12, <2>2, <2>3
  <2>4. CASE srv' = "banned" /\ s2c' = Append(s2c, "Banned") /\ link' = "fin"
    BY <1>9, <1>10, <1>12, <2>2, <2>4
  <2>5. CASE srv' = "taken" /\ s2c' = Append(s2c, "NicknameTaken") /\ link' = "fin"
    BY <1>9, <1>10, <1>12, <2>2, <2>5
  <2>. QED BY <2>1, <2>3, <2>4, <2>5
<1>13. CASE h = "Authenticate"
  <2>1. ~Accepted /\ peer = "locked" /\ pc \notin PreAuthenticate
    BY <1>2, <1>3, <1>13 DEF RequestInv
  <2>2. \/ srv' = "greeted" /\ s2c' = s2c \o <<"AuthAccepted">> /\ link' = link
        \/ srv' = "wrong_password" /\ s2c' = Append(s2c, "AuthRejected") /\ link' = "fin"
    BY <1>13 DEF ServerReads, Answer, Refuse, h
  <2>3. /\ "greeted" \in Servers \ (Past \cup Closed)
        /\ "wrong_password" \in (Servers \cap Closed) \ Past
    BY DEF Servers, Past, Closed
  <2>4. CASE srv' = "greeted" /\ s2c' = s2c \o <<"AuthAccepted">> /\ link' = link
    BY <1>1, <1>9, <1>10, <2>1, <2>3, <2>4
  <2>5. CASE srv' = "wrong_password" /\ s2c' = Append(s2c, "AuthRejected") /\ link' = "fin"
    BY <1>9, <1>10, <2>1, <2>3, <2>5
  <2>. QED BY <2>2, <2>4, <2>5
<1>14. CASE h = "Identify"
  <2>1. Accepted
    BY <1>2, <1>3, <1>14 DEF RequestInv
  <2>2. \/ srv' = "challenged" /\ s2c' = s2c \o <<"Challenge">> /\ link' = link
        \/ Refusals
    BY <1>14 DEF ServerReads, Answer, h
  <2>3. "challenged" \in (Servers \cap Past) \ Closed
    BY DEF Servers, Past, Closed
  <2>4. CASE srv' = "challenged" /\ s2c' = s2c \o <<"Challenge">> /\ link' = link
    BY <1>1, <1>9, <1>10, <2>1, <2>3, <2>4
  <2>. QED BY <1>12, <2>1, <2>2, <2>4
<1>15. CASE h = "IdentityProof"
  <2>1. Accepted
    BY <1>2, <1>3, <1>15 DEF RequestInv, ServerInv, Past
  <2>2. \/ /\ srv' = "joined" /\ link' = link
           /\ s2c' = s2c \o <<"IdentityAccepted", "JoinAccepted">>
        \/ Refusals
    BY <1>15 DEF ServerReads, Answer, h
  <2>3. "joined" \in (Servers \cap Past) \ Closed
    BY DEF Servers, Past, Closed
  <2>4. CASE /\ srv' = "joined" /\ link' = link
             /\ s2c' = s2c \o <<"IdentityAccepted", "JoinAccepted">>
    BY <1>1, <1>9, <1>10, <2>1, <2>3, <2>4
  <2>. QED BY <1>12, <2>1, <2>2, <2>4
<1>. QED BY <1>3, <1>11, <1>13, <1>14, <1>15 DEF Requests

\* Requests are where they were.
LEMMA SameRequests ==
    ASSUME c2s' = c2s, queue' = queue, posted' = posted, todo' = todo
    PROVE  /\ NoUp' <=> NoUp
           /\ \A f : (Up(f)' <=> Up(f)) /\ (Solo(f)' <=> Solo(f))
<1>1. \A f : Up(f)' <=> Up(f)
  BY DEF Up, Doing
<1>2. \A f : Solo(f)' <=> Solo(f)
  BY DEF Solo, Doing
<1>. QED BY <1>1, <1>2 DEF NoUp

\* The server takes back its decision.
LEMMA LoginKick == LoginInv /\ Kick => LoginInv'
<1>. SUFFICES ASSUME LoginInv, Kick PROVE LoginInv'
  OBVIOUS
<1>1. /\ ClientFixed /\ c2s' = c2s /\ srv = "joined" /\ srv' = "kicked" /\ link = "up"
      /\ link' = "fin" /\ s2c' = Append(s2c, "Kick")
  BY DEF Kick, ClientFixed, streamVars, terminalVars
<1>2. /\ Shapes /\ ServerInv /\ RequestInv /\ ReplyInv /\ VerdictInv /\ HelloInv /\ AuthInv
      /\ StreamInv /\ OutcomeInv /\ KickInv /\ TerminalInv /\ VerdictIsTrue
  BY DEF LoginInv
<1>3. ClientSame /\ \A x : Doing(x)' <=> Doing(x)
  BY <1>1, SameClient DEF ClientFixed
<1>4. /\ NoUp' <=> NoUp
      /\ \A f : (Up(f)' <=> Up(f)) /\ (Solo(f)' <=> Solo(f))
  BY <1>1, SameRequests DEF ClientFixed
<1>5. /\ s2c' \in Seq(Frames) /\ Els(s2c') = Els(s2c) \cup {"Kick"}
      /\ \A y : Once(y, s2c) /\ ~Coming(y) => Once(y, s2c')
      /\ \A y : Once(y, s2c) /\ "Kick" # y => Once(y, s2c')
      /\ s2c' # <<>> /\ (s2c # <<>> => Head(s2c') = Head(s2c))
  BY <1>1, <1>2, Answered DEF Frames
<1>6. NoUp /\ Accepted /\ Chatbox /\ (Chatbox' <=> Chatbox)
  BY <1>1, <1>2 DEF ServerInv, Past, ClientFixed, Chatbox
<1>7. \A y : Coming(y)' <=> Coming(y) \/ y = "Kick"
  BY <1>5 DEF Coming
<1>8. ~Coming("Kick") /\ ~KickedOn /\ Once("Kick", s2c')
  <2>1. ~Coming("Kick") /\ ~KickedOn
    BY <1>1, <1>2 DEF VerdictInv, KickInv
  <2>2. Once("Kick", s2c)
    BY <2>1, OnceAbsent DEF Coming
  <2>. QED BY <1>5, <2>1, <2>2
<1>9. Shapes'
  BY <1>1, <1>2, <1>5 DEF Shapes, ClientFixed, Servers, Past
<1>10. ServerInv'
  BY <1>1, <1>3, <1>6 DEF ServerInv, ClientSame, Closed
<1>11. RequestInv'
  BY <1>1, <1>2, <1>4, <1>6 DEF RequestInv, NoUp, Requests
<1>12. ReplyInv'
  <2>1. Els(s2c') \cap Foreign = {}
    BY <1>2, <1>5, <1>6 DEF ReplyInv, Foreign
  <2>2. /\ ~Coming("AuthRequired")' /\ ~Coming("AuthAccepted")' /\ ~Coming("AuthRejected")'
        /\ ~Coming("Challenge")'
    BY <1>1, <1>2, <1>7 DEF ReplyInv
  <2>. QED BY <1>6, <2>1, <2>2 DEF ReplyInv
<1>13. VerdictInv'
  BY <1>1, <1>2, <1>3, <1>7, <1>8 DEF VerdictInv, ClientSame
<1>14. HelloInv'
  BY <1>1, <1>2, <1>3, <1>5, <1>6 DEF HelloInv, ClientSame
<1>15. AuthInv'
  BY <1>1, <1>2, <1>3, <1>4, <1>6 DEF AuthInv, ClientSame, ClientFixed
<1>16. StreamInv' /\ KickInv' /\ VerdictIsTrue'
  BY <1>1, <1>2, <1>3 DEF StreamInv, KickInv, VerdictIsTrue, ClientSame, ClientFixed
<1>17. OutcomeInv'
  BY <1>1, <1>2, <1>3, <1>6 DEF OutcomeInv, ClientSame, ClientFixed, Outcomes
<1>18. TerminalInv'
  BY <1>1, <1>2 DEF TerminalInv, ClientFixed
<1>. QED BY <1>9, <1>10, <1>11, <1>12, <1>13, <1>14, <1>15, <1>16, <1>17, <1>18 DEF LoginInv

\* The connection is lost.
LEMMA LoginLoseConnection == LoginInv /\ LoseConnection => LoginInv'
<1>. SUFFICES ASSUME LoginInv, LoseConnection PROVE LoginInv'
  OBVIOUS
<1>1. ClientFixed /\ c2s' = c2s /\ srv' = srv /\ link' = "down"
  BY DEF LoseConnection, ClientFixed, streamVars, terminalVars, serverVars
<1>2. /\ Shapes /\ ServerInv /\ RequestInv /\ ReplyInv /\ VerdictInv /\ HelloInv /\ AuthInv
      /\ StreamInv /\ OutcomeInv /\ KickInv /\ TerminalInv /\ VerdictIsTrue
  BY DEF LoginInv
<1>3. ClientSame /\ \A x : Doing(x)' <=> Doing(x)
  BY <1>1, SameClient DEF ClientFixed
<1>4. /\ NoUp' <=> NoUp
      /\ \A f : (Up(f)' <=> Up(f)) /\ (Solo(f)' <=> Solo(f))
  BY <1>1, SameRequests DEF ClientFixed
<1>5. /\ s2c' \in Seq(Frames) /\ Els(s2c') \subseteq Els(s2c)
      /\ \A y : Once(y, s2c) => Once(y, s2c')
      /\ s2c' # <<>> => s2c # <<>> /\ Head(s2c') = Head(s2c)
  <2>1. PICK n \in 0 .. Len(s2c) : s2c' = SubSeq(s2c, 1, n)
    BY DEF LoseConnection
  <2>. QED BY <1>2, <2>1, ElsFirst DEF Shapes
<1>6. \A y : Coming(y)' => Coming(y)
  BY <1>5 DEF Coming
<1>7. Chatbox' <=> Chatbox
  BY <1>1 DEF ClientFixed, Chatbox
<1>8. Shapes'
  BY <1>1, <1>2, <1>5 DEF Shapes, ClientFixed
<1>9. ServerInv' /\ RequestInv'
  BY <1>1, <1>2, <1>3, <1>4, <1>7 DEF ServerInv, RequestInv, ClientSame, ClientFixed
<1>10. ReplyInv'
  BY <1>1, <1>2, <1>3, <1>4, <1>5, <1>6, <1>7 DEF ReplyInv, ClientSame, ClientFixed
<1>11. VerdictInv'
  BY <1>1, <1>2, <1>3, <1>5, <1>6 DEF VerdictInv, ClientSame
<1>12. HelloInv'
  BY <1>1, <1>2, <1>3, <1>5, <1>7 DEF HelloInv, ClientSame
<1>13. AuthInv'
  BY <1>1, <1>2, <1>3, <1>4 DEF AuthInv, ClientSame, ClientFixed
<1>14. StreamInv' /\ KickInv' /\ VerdictIsTrue'
  BY <1>1, <1>2, <1>3 DEF StreamInv, KickInv, VerdictIsTrue, ClientSame, ClientFixed
<1>15. OutcomeInv'
  BY <1>1, <1>2, <1>3 DEF OutcomeInv, ClientSame, ClientFixed
<1>16. TerminalInv'
  BY <1>1, <1>2 DEF TerminalInv, ClientFixed
<1>. QED BY <1>8, <1>9, <1>10, <1>11, <1>12, <1>13, <1>14, <1>15, <1>16 DEF LoginInv

\* The steps that assign a flag, and those that carry nothing.
FlagSteps  == {AuthOk, AuthNo, AuthResolved, AuthRequired, JoinResolved, JoinFailed, IsBanned,
               IsTaken, Kicked, GKicked, Lost}
PlainOther == {Negotiated, Shut, ReadOn, Call(CloseIt)}

\* No two steps are the same.
LEMMA StepsDiffer ==
    /\ AuthOk \notin {AuthNo, AuthResolved, AuthRequired, JoinResolved, JoinFailed, IsBanned,
                        IsTaken, Kicked, GKicked, Lost}
    /\ AuthNo \notin {AuthResolved, AuthRequired, JoinResolved, JoinFailed, IsBanned,
                        IsTaken, Kicked, GKicked, Lost}
    /\ AuthResolved \notin {AuthRequired, JoinResolved, JoinFailed, IsBanned, IsTaken,
                              Kicked, GKicked, Lost}
    /\ AuthRequired \notin {JoinResolved, JoinFailed, IsBanned, IsTaken, Kicked, GKicked, Lost}
    /\ JoinResolved \notin {JoinFailed, IsBanned, IsTaken, Kicked, GKicked, Lost}
    /\ JoinFailed \notin {IsBanned, IsTaken, Kicked, GKicked, Lost}
    /\ IsBanned \notin {IsTaken, Kicked, GKicked, Lost}
    /\ IsTaken \notin {Kicked, GKicked, Lost}
    /\ Kicked \notin {GKicked, Lost}
    /\ GKicked \notin {Lost}
    /\ Negotiated \notin {Shut, ReadOn, Call(CloseIt)}
    /\ Shut \notin {ReadOn, Call(CloseIt)}
    /\ ReadOn \notin {Call(CloseIt)}
    /\ FlagSteps \cap PlainOther = {}
    /\ \A r : Because(r) \notin FlagSteps \cup PlainOther
    /\ \A r, q : Because(r) = Because(q) => r = q
    /\ \A f : Call(Send(f)) \notin FlagSteps \cup PlainOther
    /\ \A f, g : Call(Send(f)) = Call(Send(g)) => f = g
    /\ \A f, r : Call(Send(f)) # Because(r)
    /\ \A f : Send(f) # CloseIt
    /\ \A f, g : Send(f) = Send(g) => f = g
<1>1. AuthOk # AuthNo
  <2>1. AuthOk.val = TRUE /\ AuthNo.val = FALSE
    BY FlagFields
  <2>. QED BY <2>1, Zenon
<1>2. \A x \in FlagSteps : x.do = "set"
  BY FlagFields DEF FlagSteps
<1>3. \A x \in PlainOther : x.do # "set" /\ x.do # "reason"
  BY StepFields DEF PlainOther
<1>4. FlagSteps \cap PlainOther = {} /\ \A r : Because(r) \notin FlagSteps \cup PlainOther
  <2>1. \A r : Because(r).do = "reason"
    BY StepFields
  <2>. QED BY <1>2, <1>3, <2>1
<1>5. \A f, g : Send(f) # CloseIt /\ (Send(f) = Send(g) => f = g)
  BY StepFields
<1>6. \A f, g : (Call(Send(f)) = Call(Send(g)) => f = g) /\ Call(Send(f)) # Call(CloseIt)
  <2>1. \A h : Call(h).arg = h
    BY StepFields
  <2>. QED BY <1>5, <2>1
<1>7. \A f : Call(Send(f)) \notin FlagSteps \cup PlainOther
  <2>1. \A h : Call(h).do = "call"
    BY StepFields
  <2>2. \A x \in {Negotiated, Shut, ReadOn} : x.do # "call"
    BY StepFields
  <2>. QED BY <1>2, <1>6, <2>1, <2>2 DEF PlainOther
<1>8. \A r, q, f : (Because(r) = Because(q) => r = q) /\ Call(Send(f)) # Because(r)
  <2>1. \A h : Call(h).do = "call"
    BY StepFields
  <2>2. \A r : Because(r).do = "reason" /\ Because(r).arg = r
    BY StepFields
  <2>. QED BY <2>1, <2>2
<1>9. /\ Negotiated \notin {Shut, ReadOn, Call(CloseIt)} /\ Shut \notin {ReadOn, Call(CloseIt)}
      /\ ReadOn # Call(CloseIt)
  BY StepFields
<1>11. AuthOk \notin {AuthResolved, AuthRequired, JoinResolved, JoinFailed, IsBanned, IsTaken,
                      Kicked, GKicked, Lost}
  BY FlagFields
<1>12. AuthNo \notin {AuthResolved, AuthRequired, JoinResolved, JoinFailed, IsBanned, IsTaken,
                      Kicked, GKicked, Lost}
  BY FlagFields
<1>13. AuthResolved \notin {AuthRequired, JoinResolved, JoinFailed, IsBanned, IsTaken, Kicked,
                            GKicked, Lost}
  BY FlagFields
<1>14. AuthRequired \notin {JoinResolved, JoinFailed, IsBanned, IsTaken, Kicked, GKicked, Lost}
  BY FlagFields
<1>15. JoinResolved \notin {JoinFailed, IsBanned, IsTaken, Kicked, GKicked, Lost}
  BY FlagFields
<1>16. JoinFailed \notin {IsBanned, IsTaken, Kicked, GKicked, Lost}
  BY FlagFields
<1>17. IsBanned \notin {IsTaken, Kicked, GKicked, Lost}
  BY FlagFields
<1>18. IsTaken \notin {Kicked, GKicked, Lost}
  BY FlagFields
<1>19. Kicked \notin {GKicked, Lost}
  BY FlagFields
<1>20. GKicked \notin {Lost}
  BY FlagFields
<1>. QED BY <1>1, <1>4, <1>5, <1>6, <1>7, <1>8, <1>9, <1>11, <1>12, <1>13, <1>14,
            <1>15, <1>16, <1>17, <1>18, <1>19, <1>20

\* Which frame makes the client take which step.
LEMMA StepsOfFrames ==
    ASSUME NEW x \in Frames
    PROVE  /\ AuthOk \in StepsOf(x) <=> x = "AuthAccepted"
           /\ AuthNo \in StepsOf(x) <=> x \in {"AuthRejected", "OtherHello", "Text"}
           /\ AuthResolved \in StepsOf(x) <=>
                 x \in {"AuthAccepted", "AuthRejected", "OtherHello", "Text"}
           /\ AuthRequired \in StepsOf(x) <=> x = "AuthRequired"
           /\ JoinResolved \in StepsOf(x) <=>
                 x \in {"JoinAccepted", "JoinRejected", "Banned", "NicknameTaken", "OtherHello",
                       "Text"}
           /\ JoinFailed \in StepsOf(x) <=> x \in {"JoinRejected", "OtherHello", "Text"}
           /\ IsBanned \in StepsOf(x) <=> x = "Banned"
           /\ IsTaken \in StepsOf(x) <=> x = "NicknameTaken"
           /\ GKicked \in StepsOf(x) <=> x = "Kick"
           /\ Negotiated \in StepsOf(x) <=> x = "Hello"
           /\ ReadOn \in StepsOf(x) <=> x \notin {"OtherHello", "Text"}
           /\ Shut \notin StepsOf(x)
           /\ Because("rejected") \in StepsOf(x) <=> x = "JoinRejected"
           /\ Because("kicked") \in StepsOf(x) <=> x = "Kick"
           /\ \A r \in Failures : Because(r) \in StepsOf(x) => x \in {"OtherHello", "Text"}
           /\ \A f \in Requests : Call(Send(f)) \in StepsOf(x) =>
                 f = "IdentityProof" /\ x = "Challenge"
<1>1. CASE x = "Hello"
  BY <1>1, StepsDiffer DEF StepsOf, FlagSteps, PlainOther, Failures
<1>2. CASE x = "OtherHello"
  BY <1>2, StepsDiffer DEF StepsOf, FlagSteps, PlainOther, Failures
<1>3. CASE x = "Junk"
  BY <1>3, StepsDiffer DEF StepsOf, FlagSteps, PlainOther, Failures
<1>4. CASE x = "Text"
  BY <1>4, StepsDiffer DEF StepsOf, FlagSteps, PlainOther, Failures
<1>5. CASE x = "AuthRequired"
  BY <1>5, StepsDiffer DEF StepsOf, FlagSteps, PlainOther, Failures
<1>6. CASE x = "AuthAccepted"
  BY <1>6, StepsDiffer DEF StepsOf, FlagSteps, PlainOther, Failures
<1>7. CASE x = "AuthRejected"
  BY <1>7, StepsDiffer DEF StepsOf, FlagSteps, PlainOther, Failures
<1>8. CASE x = "Challenge"
  BY <1>8, StepsDiffer DEF StepsOf, FlagSteps, PlainOther, Failures
<1>9. CASE x = "IdentityAccepted"
  BY <1>9, StepsDiffer DEF StepsOf, FlagSteps, PlainOther, Failures
<1>10. CASE x = "JoinAccepted"
  BY <1>10, StepsDiffer DEF StepsOf, FlagSteps, PlainOther, Failures
<1>11. CASE x = "JoinRejected"
  BY <1>11, StepsDiffer DEF StepsOf, FlagSteps, PlainOther, Failures
<1>12. CASE x = "Banned"
  BY <1>12, StepsDiffer DEF StepsOf, FlagSteps, PlainOther, Failures
<1>13. CASE x = "NicknameTaken"
  BY <1>13, StepsDiffer DEF StepsOf, FlagSteps, PlainOther, Failures
<1>14. CASE x = "Kick"
  BY <1>14, StepsDiffer DEF StepsOf, FlagSteps, PlainOther, Failures
<1>. QED BY <1>1, <1>2, <1>3, <1>4, <1>5, <1>6, <1>7, <1>8, <1>9, <1>10, <1>11, <1>12, <1>13,
            <1>14 DEF Frames

-----------------------------------------------------------------------------
(***************************************************************************)
(* The network thread.                                                     *)
(***************************************************************************)

\* No handler is running.
LEMMA IdleClient ==
    ASSUME todo = <<>>
    PROVE  /\ \A x : ~Doing(x)
           /\ \A f, x : On(f, x) <=> flags[f]
           /\ (Greeted <=> negotiated) /\ (Live <=> reading)
<1>1. \A x : ~Doing(x)
  BY ElsEmpty DEF Doing
<1>. QED BY <1>1 DEF On, Greeted, Live

\* A frame is read.
LEMMA LoginReadDone == LoginInv /\ ReadDone => LoginInv'
<1>. SUFFICES ASSUME LoginInv, ReadDone PROVE LoginInv'
  OBVIOUS
<1>. DEFINE x == Head(s2c)
<1>1. /\ peer' = peer /\ srv' = srv /\ link' = link /\ c2s' = c2s /\ flags' = flags
      /\ reason' = reason /\ negotiated' = negotiated /\ open' = open /\ queue' = queue
      /\ posted' = posted /\ pc' = pc /\ verdict' = verdict
      /\ todo = <<>> /\ reading /\ s2c # <<>> /\ s2c' = Tail(s2c) /\ reading' = FALSE
      /\ todo' = OnFrame(x) /\ writing' = writing
  BY DEF ReadDone, terminalVars, serverVars
<1>2. /\ Shapes /\ ServerInv /\ RequestInv /\ ReplyInv /\ VerdictInv /\ HelloInv /\ AuthInv
      /\ StreamInv /\ OutcomeInv /\ KickInv /\ TerminalInv /\ VerdictIsTrue
  BY DEF LoginInv
<1>3. x \in Frames /\ Coming(x) /\ GoodHandler(todo') /\ Els(todo') = StepsOf(x)
  BY <1>1, <1>2, FrameRead
<1>4. /\ s2c' \in Seq(Frames) /\ Els(s2c) = {x} \cup Els(s2c')
      /\ \A y : Once(y, s2c) => Once(y, s2c') /\ (x = y => y \notin Els(s2c'))
  BY <1>1, <1>2, ElsTail DEF Shapes
<1>5. /\ \A y : ~Doing(y)
      /\ \A f, y : On(f, y) <=> flags[f]
      /\ (Greeted <=> negotiated) /\ (Live <=> reading)
  BY <1>1, IdleClient
<1>. HIDE DEF x
<1>6. /\ \A y : Doing(y)' <=> y \in StepsOf(x)
      /\ \A f, y : On(f, y)' <=> flags[f] \/ y \in StepsOf(x)
      /\ Greeted' <=> Greeted \/ x = "Hello"
      /\ Live' <=> x \notin {"OtherHello", "Text"}
  <2>1. \A y : Doing(y)' <=> y \in StepsOf(x)
    BY <1>3 DEF Doing
  <2>2. \A f, y : On(f, y)' <=> flags[f] \/ y \in StepsOf(x)
    BY <1>1, <2>1 DEF On
  <2>. QED BY <1>1, <1>3, <1>5, <2>1, <2>2, StepsOfFrames DEF Greeted, Live
<1>7. /\ Accepted' <=> Accepted \/ x = "AuthAccepted"
      /\ Resolved' <=> Resolved \/ x \in {"AuthAccepted", "AuthRejected", "OtherHello", "Text"}
      /\ Required' <=> Required \/ x = "AuthRequired"
      /\ Decided' <=> \/ Decided
                      \/ x \in {"JoinAccepted", "JoinRejected", "Banned", "NicknameTaken",
                                "OtherHello", "Text"}
      /\ Failed' <=> Failed \/ x \in {"JoinRejected", "OtherHello", "Text"}
      /\ BannedOn' <=> BannedOn \/ x = "Banned"
      /\ TakenOn' <=> TakenOn \/ x = "NicknameTaken"
      /\ KickedOn' <=> KickedOn \/ x = "Kick"
  BY <1>3, <1>5, <1>6, StepsOfFrames
     DEF Accepted, Resolved, Required, Decided, Failed, BannedOn, TakenOn, KickedOn
<1>8. \A y : Coming(y)' => Coming(y)
  BY <1>4 DEF Coming
<1>9. \A y : Coming(y)' /\ Once(y, s2c) => x # y /\ Once(y, s2c')
  BY <1>4 DEF Coming
<1>10. Chatbox' <=> Chatbox
  BY <1>1 DEF Chatbox
<1>11. /\ x \in Foreign => ~Chatbox
       /\ x \notin Foreign => Chatbox
  BY <1>2, <1>3 DEF ReplyInv, Coming
<1>12. /\ x = "Challenge" => NoUp /\ srv = "challenged"
       /\ \A f \in Requests : f # "IdentityProof" \/ x # "Challenge" => (Up(f)' <=> Up(f))
       /\ x # "Challenge" => (NoUp' <=> NoUp)
  <2>1. ASSUME NEW f \in Requests, f # "IdentityProof" \/ x # "Challenge" PROVE Up(f)' <=> Up(f)
    <3>1. ~Doing(Call(Send(f)))' /\ ~Doing(Call(Send(f)))
      BY <1>3, <1>5, <1>6, <2>1, StepsOfFrames
    <3>. QED BY <1>1, <3>1 DEF Up
  <2>. QED BY <1>2, <1>3, <2>1 DEF ReplyInv, NoUp
<1>13. \A f \in Requests : Solo(f)'
  <2>1. ASSUME NEW f \in Requests PROVE Solo(f)'
    <3>1. Once(Call(Send(f)), todo')
      BY <1>3 DEF GoodHandler
    <3>2. Doing(Call(Send(f)))' => ~Up(f)
      BY <1>3, <1>6, <1>12, StepsOfFrames DEF NoUp
    <3>. QED BY <1>1, <1>2, <3>1, <3>2 DEF RequestInv, Solo, Up
  <2>. QED BY <2>1
<1>14. Shapes'
  BY <1>1, <1>2, <1>3, <1>4 DEF Shapes, GoodHandler
<1>15. ServerInv'
  <2>1. srv = "joined" => x # "Challenge"
    BY <1>12
  <2>. QED BY <1>1, <1>2, <1>7, <1>10, <1>12, <2>1 DEF ServerInv
<1>16. RequestInv'
  <2>1. /\ Up("Hello")' => Up("Hello") /\ x # "AuthAccepted"
        /\ Up("Authenticate")' => Up("Authenticate") /\ x # "AuthAccepted"
        /\ Up("Identify")' => Up("Identify")
        /\ Up("IdentityProof")' => Up("IdentityProof") \/ x = "Challenge"
    BY <1>2, <1>3, <1>12 DEF Requests, ReplyInv, NoUp
  <2>. QED BY <1>1, <1>2, <1>7, <1>12, <1>13, <2>1 DEF RequestInv
<1>17. ReplyInv'
  <2>1. Els(s2c') \subseteq Els(s2c)
    BY <1>4
  <2>2. Coming("AuthRequired")' => x # "AuthAccepted" /\ x # "AuthRequired" /\ x # "Challenge"
    BY <1>2, <1>3, <1>8, <1>9 DEF ReplyInv
  <2>3. Coming("AuthAccepted")' => x # "AuthAccepted" /\ x # "Challenge"
    BY <1>2, <1>3, <1>8, <1>9 DEF ReplyInv
  <2>4. Coming("Challenge")' => x # "Challenge"
    BY <1>2, <1>8, <1>9 DEF ReplyInv
  <2>. QED BY <1>1, <1>2, <1>7, <1>8, <1>9, <1>10, <1>12, <2>1, <2>2, <2>3, <2>4 DEF ReplyInv
<1>18. VerdictInv'
  <2>1. Chatbox => x \notin {"OtherHello", "Text"}
    BY <1>11 DEF Foreign
  <2>2. \A y \in {"JoinRejected", "Banned", "NicknameTaken"} :
           Coming(y)' => x \notin {"JoinAccepted", "JoinRejected", "Banned", "NicknameTaken"}
    BY <1>2, <1>3, <1>8, <1>9 DEF VerdictInv
  <2>3. \A y \in {"JoinRejected", "Banned", "NicknameTaken"} : Coming(y)' => Chatbox
    BY <1>1, <1>2, <1>8 DEF VerdictInv, ServerInv
  <2>. QED BY <1>1, <1>2, <1>7, <1>8, <1>9, <2>1, <2>2, <2>3 DEF VerdictInv
<1>19. HelloInv'
  <2>1. Chatbox /\ ~Greeted => x = "Hello"
    BY <1>1, <1>2 DEF HelloInv, x
  <2>. QED BY <1>2, <1>6, <1>10, <1>11, <2>1 DEF HelloInv, Foreign
<1>20. AuthInv'
  <2>1. x = "AuthAccepted" =>
           srv = "greeted" /\ NoUp /\ (peer = "locked" => pc \notin PreAuthenticate)
    BY <1>2, <1>3 DEF ReplyInv
  <2>2. x = "AuthAccepted" => ~Resolved
    BY <1>1, <1>2, <1>3, <1>5 DEF ReplyInv, AuthInv
  <2>3. x = "AuthRequired" => srv = "greeted" /\ NoUp /\ peer = "locked"
    BY <1>2, <1>3 DEF ReplyInv
  <2>4. x = "AuthRejected" => srv = "wrong_password"
    BY <1>2, <1>3 DEF ReplyInv
  <2>5. x \in {"OtherHello", "Text"} => ~Chatbox /\ peer # "locked" /\ ~Accepted
    BY <1>2, <1>11 DEF Foreign, Chatbox, AuthInv, ServerInv
  <2>6. Accepted => x \notin {"AuthAccepted", "AuthRejected", "AuthRequired", "OtherHello", "Text"}
    BY <1>2, <1>3, <2>4, <2>5 DEF ReplyInv, AuthInv
  <2>7. Doing(AuthOk)' => x = "AuthAccepted" /\ AuthOk \notin Els(Tail(todo'))
    BY <1>3, <1>6, StepsOfFrames DEF GoodHandler
  <2>8. /\ Doing(AuthNo)' => x \in {"AuthRejected", "OtherHello", "Text"}
        /\ \A r \in Failures : Doing(Because(r))' => x \in {"OtherHello", "Text"}
    BY <1>3, <1>6, StepsOfFrames
  <2>9. pc \in PreIdentify /\ Accepted => x # "Challenge"
    BY <1>2, <1>3 DEF ReplyInv, AuthInv
  <2>10. ~flags["auth_resolved"] <=> ~Resolved
    BY <1>5 DEF Resolved
  <2>11. Required /\ pc \in PreAuthenticate => x # "Challenge"
    BY <1>2, <1>3 DEF ReplyInv, AuthInv
  <2>12. Accepted' =>
            /\ srv \notin {"connected", "wrong_password"} /\ Resolved'
            /\ ~Doing(AuthNo)' /\ \A r \in Failures : ~Doing(Because(r))'
            /\ peer = "locked" => pc \notin PreAuthenticate
            /\ pc \in PreIdentify => NoUp' /\ srv = "greeted"
    BY <1>2, <1>7, <1>12, <2>1, <2>6, <2>8, <2>9 DEF AuthInv
  <2>13. /\ Required' => peer = "locked" /\ srv # "connected"
         /\ Required' /\ pc \in PreAuthenticate => NoUp' /\ srv = "greeted"
    BY <1>2, <1>7, <1>12, <2>3, <2>11 DEF AuthInv
  <2>14. Doing(AuthOk)' => ~flags'["auth_resolved"] /\ AuthOk \notin Els(Tail(todo'))
    BY <1>1, <2>2, <2>7, <2>10
  <2>15. Resolved' /\ ~Accepted' /\ peer = "locked" => srv = "wrong_password" \/ link = "down"
    BY <1>2, <1>7, <2>4, <2>5 DEF AuthInv
  <2>16. Resolved' /\ Live' => Accepted' \/ srv = "wrong_password"
    BY <1>1, <1>2, <1>5, <1>6, <1>7, <2>4 DEF AuthInv
  <2>. QED BY <1>1, <2>12, <2>13, <2>14, <2>15, <2>16 DEF AuthInv
<1>21. StreamInv'
  <2>1. ~Doing(Shut)'
    BY <1>3, <1>6, StepsOfFrames
  <2>. QED BY <1>1, <1>2, <2>1 DEF StreamInv
<1>22. OutcomeInv'
  <2>1. /\ x = "JoinRejected" => srv = "rejected" /\ ~Decided
        /\ x = "Banned" => srv = "banned" /\ ~Decided
        /\ x = "NicknameTaken" => srv = "taken" /\ ~Decided
        /\ x = "JoinAccepted" => srv \in {"joined", "kicked"}
    BY <1>2, <1>3 DEF VerdictInv
  <2>2. srv \in Past => Accepted /\ Resolved /\ Chatbox
    BY <1>2 DEF ServerInv, AuthInv, Past
  <2>3. Accepted' => x \notin {"OtherHello", "Text"}
    BY <1>2, <1>7, <1>11 DEF Foreign, AuthInv, ServerInv
  <2>4. x = "AuthAccepted" => ~Failed /\ ~Decided
    <3>1. x = "AuthAccepted" => ~Resolved
      BY <1>1, <1>2, <1>3, <1>5 DEF ReplyInv, AuthInv
    <3>. QED BY <1>2, <3>1 DEF OutcomeInv
  <2>5. /\ Doing(Because("rejected"))' <=> x = "JoinRejected"
        /\ Doing(IsBanned)' <=> x = "Banned"
        /\ Doing(IsTaken)' <=> x = "NicknameTaken"
        /\ Doing(JoinFailed)' <=> x \in {"JoinRejected", "OtherHello", "Text"}
    BY <1>3, <1>6, StepsOfFrames
  <2>6. flags["join_resolved"] <=> Decided
    BY <1>5 DEF Decided
  <2>7. Ordered(todo')
    BY <1>3 DEF GoodHandler
  <2>8. Failed' \/ Decided' => Resolved'
    BY <1>2, <1>7, <2>1, <2>2 DEF OutcomeInv, Past
  <2>9. Accepted' /\ Failed' => srv = "rejected"
    BY <1>2, <1>7, <2>1, <2>3, <2>4 DEF OutcomeInv
  <2>10. Accepted' /\ Decided' =>
          /\ srv \in Outcomes
          /\ srv = "banned" => BannedOn'
          /\ srv = "taken" => TakenOn'
          /\ srv = "rejected" => Failed' /\ (reason = "rejected" \/ Doing(Because("rejected"))')
    BY <1>2, <1>5, <1>7, <2>1, <2>3, <2>4, <2>5 DEF OutcomeInv, Outcomes
  <2>11. Accepted' /\ flags["join_resolved"] => \A y \in Details : ~Doing(y)'
    BY <2>1, <2>3, <2>5, <2>6 DEF Details
  <2>12. /\ BannedOn' => srv = "banned"
         /\ TakenOn' => srv = "taken"
         /\ Doing(Because("rejected"))' => srv = "rejected"
    BY <1>2, <1>7, <2>1, <2>5 DEF OutcomeInv
  <2>. QED BY <1>1, <2>7, <2>8, <2>9, <2>10, <2>11, <2>12 DEF OutcomeInv
<1>23. KickInv'
  <2>1. x = "Kick" => srv = "kicked" /\ ~KickedOn
    BY <1>2, <1>3 DEF VerdictInv
  <2>2. Doing(Because("kicked"))' <=> x = "Kick"
    BY <1>3, <1>6, StepsOfFrames
  <2>3. flags["g_kicked"] <=> KickedOn
    BY <1>5 DEF KickedOn
  <2>. QED BY <1>1, <1>2, <1>7, <2>1, <2>2, <2>3 DEF KickInv
<1>24. TerminalInv' /\ VerdictIsTrue'
  BY <1>1, <1>2 DEF TerminalInv, VerdictIsTrue
<1>. QED BY <1>14, <1>15, <1>16, <1>17, <1>18, <1>19, <1>20, <1>21, <1>22, <1>23, <1>24 DEF LoginInv


\* Requests only move on or are dropped.
LEMMA RequestsMove ==
    ASSUME LoginInv, flags' = flags, todo' = todo, reading' = reading, negotiated' = negotiated,
           peer' = peer, srv' = srv, link' = link, s2c' = s2c, open' = open, reason' = reason,
           pc' = pc, verdict' = verdict, writing' => queue' # <<>>,
           \A f \in Requests : (Up(f)' => Up(f)) /\ Solo(f)',
           c2s' \in Seq(Requests), queue' \in Seq(Requests), posted' \in Seq(Posting),
           CloseIt \in Els(posted') => CloseIt \in Els(posted)
    PROVE  LoginInv'
<1>1. ClientSame /\ \A x : Doing(x)' <=> Doing(x)
  BY SameClient
<1>2. /\ Shapes /\ ServerInv /\ RequestInv /\ ReplyInv /\ VerdictInv /\ HelloInv /\ AuthInv
      /\ StreamInv /\ OutcomeInv /\ KickInv /\ TerminalInv /\ VerdictIsTrue
  BY DEF LoginInv
<1>3. NoUp => NoUp'
  BY DEF NoUp
<1>4. (\A y : Coming(y)' <=> Coming(y)) /\ (Chatbox' <=> Chatbox)
  BY DEF Coming, Chatbox
<1>5. Shapes'
  BY <1>2 DEF Shapes
<1>6. ServerInv'
  BY <1>1, <1>2, <1>3, <1>4 DEF ServerInv, ClientSame
<1>7. RequestInv'
  BY <1>1, <1>2 DEF RequestInv, ClientSame, Requests
<1>8. ReplyInv'
  BY <1>1, <1>2, <1>3, <1>4 DEF ReplyInv, ClientSame
<1>9. VerdictInv' /\ HelloInv'
  BY <1>1, <1>2, <1>4 DEF VerdictInv, HelloInv, ClientSame
<1>10. AuthInv'
  BY <1>1, <1>2, <1>3 DEF AuthInv, ClientSame
<1>11. StreamInv' /\ KickInv'
  BY <1>1, <1>2 DEF StreamInv, KickInv, ClientSame
<1>12. OutcomeInv'
  BY <1>1, <1>2 DEF OutcomeInv, ClientSame
<1>13. TerminalInv' /\ VerdictIsTrue'
  BY <1>2 DEF TerminalInv, VerdictIsTrue
<1>. QED BY <1>5, <1>6, <1>7, <1>8, <1>9, <1>10, <1>11, <1>12, <1>13 DEF LoginInv

\* The handler of an operation that failed, or of close(), begins.  It tells of
\* a failed handshake only when that is not resolved yet and nothing is read any
\* more.
LEMMA HandlerStarts ==
    ASSUME LoginInv, todo = <<>>, GoodHandler(todo'), flags' = flags, negotiated' = negotiated,
           peer' = peer, srv' = srv, link' = link, s2c' = s2c, c2s' = c2s, open' = open,
           reason' = reason, queue' = queue, pc' = pc, verdict' = verdict,
           writing' => writing, reading' \in BOOLEAN, reading' => reading,
           posted' \in Seq(Posting), Els(posted') \subseteq Els(posted),
           \A f \in Requests : Once(Send(f), posted) => Once(Send(f), posted'),
           flags["closing"] \/ link # "up",
           \/ Els(todo') = {Lost, Shut}
           \/ /\ Els(todo') = {AuthNo, AuthResolved, JoinFailed, Because("connection closed"),
                               JoinResolved} \cup {Lost, Shut}
              /\ ~flags["auth_resolved"] /\ ~reading'
              /\ Accepted \/ srv = "wrong_password" \/ link = "down"
    PROVE  LoginInv'
<1>. DEFINE told == Els(todo') # {Lost, Shut}
<1>1. /\ Shapes /\ ServerInv /\ RequestInv /\ ReplyInv /\ VerdictInv /\ HelloInv /\ AuthInv
      /\ StreamInv /\ OutcomeInv /\ KickInv /\ TerminalInv /\ VerdictIsTrue
  BY DEF LoginInv
<1>2. /\ \A y : ~Doing(y)
      /\ \A f, y : On(f, y) <=> flags[f]
      /\ (Greeted <=> negotiated) /\ (Live <=> reading)
  BY IdleClient
<1>3. told => ~Accepted /\ ~Resolved /\ ~reading' /\ (srv = "wrong_password" \/ link = "down")
  BY <1>1, <1>2 DEF AuthInv, Accepted, Resolved
<1>4. /\ \A y : Doing(y)' <=> y \in Els(todo')
      /\ \A f, y : On(f, y)' <=> flags[f] \/ y \in Els(todo')
  BY DEF Doing, On
<1>5. /\ ~Doing(AuthOk)' /\ ~Doing(AuthRequired)' /\ ~Doing(IsBanned)' /\ ~Doing(IsTaken)'
      /\ ~Doing(GKicked)' /\ ~Doing(Negotiated)' /\ ~Doing(ReadOn)'
      /\ ~Doing(Because("rejected"))' /\ ~Doing(Because("kicked"))'
      /\ \A f \in Requests : ~Doing(Call(Send(f)))'
  BY <1>4, StepsDiffer DEF FlagSteps, PlainOther
<1>6. /\ Doing(AuthResolved)' => told
      /\ Doing(AuthNo)' => told
      /\ Doing(JoinFailed)' => told
      /\ Doing(JoinResolved)' => told
      /\ told => Doing(AuthResolved)'
      /\ \A r \in Failures : Doing(Because(r))' => told
  BY <1>4, StepsDiffer DEF FlagSteps, PlainOther
<1>. HIDE DEF told
<1>7. /\ Accepted' <=> Accepted
      /\ Required' <=> Required
      /\ BannedOn' <=> BannedOn
      /\ TakenOn' <=> TakenOn
      /\ KickedOn' <=> KickedOn
      /\ Greeted' <=> Greeted
      /\ Live' => Live
      /\ Resolved' <=> Resolved \/ told
      /\ Decided' => Decided \/ told
      /\ Decided => Decided'
      /\ Failed' => Failed \/ told
      /\ Failed => Failed'
  BY <1>2, <1>4, <1>5, <1>6 DEF Accepted, Required, BannedOn, TakenOn, KickedOn, Greeted, Live,
                               Resolved, Decided, Failed
<1>8. /\ \A f \in Requests : Up(f)' => Up(f)
      /\ NoUp => NoUp'
  <2>1. ASSUME NEW f \in Requests PROVE Up(f)' => Up(f)
    BY <1>5 DEF Up
  <2>. QED BY <2>1 DEF NoUp
<1>9. \A f \in Requests : Solo(f)'
  <2>1. ASSUME NEW f \in Requests PROVE Solo(f)'
    BY <1>1, <1>5 DEF Solo, RequestInv, GoodHandler
  <2>. QED BY <2>1
<1>10. (\A y : Coming(y)' <=> Coming(y)) /\ (Chatbox' <=> Chatbox)
  BY DEF Coming, Chatbox
<1>11. Shapes'
  BY <1>1 DEF Shapes, GoodHandler
<1>12. ServerInv'
  BY <1>1, <1>7, <1>8, <1>10 DEF ServerInv
<1>13. RequestInv'
  BY <1>1, <1>7, <1>8, <1>9 DEF RequestInv, Requests
<1>14. ReplyInv'
  BY <1>1, <1>7, <1>8, <1>10 DEF ReplyInv
<1>15. VerdictInv'
  <2>1. srv \in {"rejected", "banned", "taken"} => ~told
    BY <1>1, <1>3 DEF ServerInv, Past
  <2>. QED BY <1>1, <1>7, <1>10, <2>1 DEF VerdictInv
<1>16. HelloInv'
  BY <1>1, <1>7, <1>10 DEF HelloInv
<1>17. AuthInv'
  <2>1. Live' => ~told
    BY <1>3, <1>5 DEF Live
  <2>. QED BY <1>1, <1>3, <1>5, <1>6, <1>7, <1>8, <2>1 DEF AuthInv
<1>18. StreamInv'
  BY <1>1, <1>2 DEF StreamInv
<1>19. OutcomeInv'
  <2>1. Ordered(todo')
    BY DEF GoodHandler
  <2>2. Accepted => \A y \in Details : ~Doing(y)'
    BY <1>3, <1>5, <1>6 DEF Details
  <2>. QED BY <1>1, <1>2, <1>3, <1>5, <1>7, <2>1, <2>2 DEF OutcomeInv
<1>20. KickInv'
  BY <1>1, <1>2, <1>5, <1>7 DEF KickInv
<1>21. TerminalInv' /\ VerdictIsTrue'
  BY <1>1 DEF TerminalInv, VerdictIsTrue
<1>. QED BY <1>11, <1>12, <1>13, <1>14, <1>15, <1>16, <1>17, <1>18, <1>19, <1>20, <1>21
     DEF LoginInv

\* The handler that closes the stream.
LEMMA LostInOrder == GoodHandler(<<Lost, Shut>>) /\ Els(<<Lost, Shut>>) = {Lost, Shut}
<1>1. Lost \in Steps /\ Plain(Shut) /\ Lost \notin {JoinResolved, GKicked}
  BY PlainSteps
<1>. QED BY <1>1, TwoInOrder

\* A read fails.
LEMMA LoginReadFails == LoginInv /\ ReadFails => LoginInv'
<1>. SUFFICES ASSUME LoginInv, ReadFails PROVE LoginInv'
  OBVIOUS
<1>1. /\ peer' = peer /\ srv' = srv /\ link' = link /\ s2c' = s2c /\ c2s' = c2s
      /\ flags' = flags /\ reason' = reason /\ negotiated' = negotiated /\ open' = open
      /\ writing' = writing /\ queue' = queue /\ posted' = posted /\ pc' = pc
      /\ verdict' = verdict /\ todo = <<>> /\ reading' = FALSE /\ (~open \/ link # "up")
      /\ todo' = OnError(flags["closing"], flags["auth_resolved"])
  BY DEF ReadFails, terminalVars, serverVars
<1>2. Shapes /\ ServerInv /\ AuthInv /\ StreamInv
  BY DEF LoginInv
<1>3. (flags["closing"] \/ link # "up") /\ posted' \in Seq(Posting)
  BY <1>1, <1>2 DEF StreamInv, Shapes
<1>4. CASE flags["closing"] \/ flags["auth_resolved"]
  <2>1. todo' = <<Lost, Shut>> \o <<>>
    BY <1>1, <1>4 DEF OnError, Lost
  <2>2. <<Lost, Shut>> \o <<>> = <<Lost, Shut>>
    OBVIOUS
  <2>3. GoodHandler(todo') /\ Els(todo') = {Lost, Shut}
    BY <2>1, <2>2, LostInOrder
  <2>. QED BY <1>1, <1>3, <2>3, HandlerStarts
<1>5. CASE ~flags["closing"] /\ ~flags["auth_resolved"]
  <2>1. todo' = <<Lost, Shut>> \o HandshakeFailed("connection closed")
    BY <1>1, <1>5 DEF OnError, Lost
  <2>2. "connection closed" \in Failures
    BY DEF Failures
  <2>3. GoodHandler(todo') /\ Els(todo') = {AuthNo, AuthResolved, JoinFailed,
             Because("connection closed"), JoinResolved} \cup {Lost, Shut}
    BY <2>1, <2>2, FailedInOrder
  <2>4. Accepted \/ srv = "wrong_password" \/ link = "down"
    BY <1>2, <1>3, <1>5 DEF ServerInv, Shapes, Closed, Past
  <2>. QED BY <1>1, <1>3, <1>5, <2>3, <2>4, HandlerStarts
<1>. QED BY <1>4, <1>5

\* A write fails.
LEMMA LoginWriteFails == LoginInv /\ WriteFails => LoginInv'
<1>. SUFFICES ASSUME LoginInv, WriteFails PROVE LoginInv'
  OBVIOUS
<1>1. /\ peer' = peer /\ srv' = srv /\ link' = link /\ s2c' = s2c /\ c2s' = c2s
      /\ flags' = flags /\ reason' = reason /\ negotiated' = negotiated /\ open' = open
      /\ writing' = FALSE /\ queue' = queue /\ posted' = posted /\ pc' = pc
      /\ verdict' = verdict /\ todo = <<>> /\ reading' = reading /\ (~open \/ link # "up")
      /\ todo' = <<Lost, Shut>>
  BY DEF WriteFails, terminalVars, serverVars, Lost
<1>2. Shapes /\ StreamInv
  BY DEF LoginInv
<1>3. (flags["closing"] \/ link # "up") /\ posted' \in Seq(Posting) /\ reading' \in BOOLEAN
  BY <1>1, <1>2 DEF StreamInv, Shapes
<1>4. GoodHandler(todo') /\ Els(todo') = {Lost, Shut}
  BY <1>1, LostInOrder
<1>. QED BY <1>1, <1>3, <1>4, HandlerStarts

\* A request is written.
LEMMA LoginWriteDone == LoginInv /\ WriteDone => LoginInv'
<1>. SUFFICES ASSUME LoginInv, WriteDone PROVE LoginInv'
  OBVIOUS
<1>. DEFINE h == Head(queue)
<1>1. /\ peer' = peer /\ srv' = srv /\ link' = link /\ s2c' = s2c /\ flags' = flags
      /\ reason' = reason /\ negotiated' = negotiated /\ open' = open /\ reading' = reading
      /\ posted' = posted /\ todo' = todo /\ pc' = pc /\ verdict' = verdict /\ writing
      /\ c2s' = Append(c2s, h) /\ queue' = Tail(queue) /\ writing' = (Len(queue) > 1)
  BY DEF WriteDone, terminalVars, serverVars
<1>2. Shapes /\ RequestInv /\ queue # <<>>
  BY <1>1 DEF LoginInv, StreamInv
<1>3. /\ h \in Requests /\ queue' \in Seq(Requests) /\ Els(queue) = {h} \cup Els(queue')
      /\ \A x : Once(x, queue) => Once(x, queue') /\ (h = x => x \notin Els(queue'))
  BY <1>1, <1>2, ElsTail DEF Shapes
<1>4. writing' => queue' # <<>>
  <2>1. queue \in Seq(Requests)
    BY <1>2 DEF Shapes
  <2>2. Len(Tail(queue)) = Len(queue) - 1 /\ Len(queue) \in Nat /\ Len(<<>>) = 0
    BY <1>2, <2>1
  <2>3. \A n \in Nat : n > 1 => n - 1 # 0
    OBVIOUS
  <2>. QED BY <1>1, <2>2, <2>3
<1>. HIDE DEF h
<1>5. /\ c2s' \in Seq(Requests) /\ Els(c2s') = Els(c2s) \cup {h}
      /\ \A x : Once(x, c2s) /\ (x # h \/ x \notin Els(c2s)) => Once(x, c2s')
  BY <1>1, <1>2, <1>3, ElsAppend DEF Shapes
<1>6. ASSUME NEW f \in Requests PROVE (Up(f)' => Up(f)) /\ Solo(f)'
  <2>1. Solo(f)
    BY <1>2 DEF RequestInv
  <2>2. (\A x : Doing(x)' <=> Doing(x)) /\ posted' = posted /\ todo' = todo
    BY <1>1 DEF Doing
  <2>3. Up(f)' => Up(f)
    BY <1>3, <1>5, <2>2 DEF Up
  <2>4. Once(f, c2s') /\ Once(f, queue') /\ Once(Send(f), posted') /\ Once(Call(Send(f)), todo')
    BY <1>3, <1>5, <2>1, <2>2 DEF Solo
  <2>5. f \in Els(c2s') => f \notin Els(queue')
    BY <1>3, <1>5, <2>1 DEF Solo
  <2>6. f \in Els(c2s') \cup Els(queue') => f \in Els(c2s) \cup Els(queue)
    BY <1>3, <1>5
  <2>7. Solo(f)'
    BY <2>1, <2>2, <2>4, <2>5, <2>6 DEF Solo
  <2>. QED BY <2>3, <2>7
<1>7. posted' \in Seq(Posting)
  BY <1>1, <1>2 DEF Shapes
<1>. QED BY <1>1, <1>3, <1>4, <1>5, <1>6, <1>7, RequestsMove

\* A posted handler runs: that of close(), or that of send(), which queues the
\* request or drops it.
LEMMA LoginRunPosted == LoginInv /\ RunPosted => LoginInv'
<1>. SUFFICES ASSUME LoginInv, RunPosted PROVE LoginInv'
  OBVIOUS
<1>. DEFINE h == Head(posted)
<1>1. /\ peer' = peer /\ srv' = srv /\ link' = link /\ s2c' = s2c /\ c2s' = c2s
      /\ flags' = flags /\ reason' = reason /\ negotiated' = negotiated /\ open' = open
      /\ reading' = reading /\ pc' = pc /\ verdict' = verdict
      /\ todo = <<>> /\ posted # <<>> /\ posted' = Tail(posted)
  BY DEF RunPosted, terminalVars, serverVars
<1>2. \/ h.do = "close" /\ todo' = <<Lost, Shut>> /\ queue' = queue /\ writing' = writing
      \/ h.do = "send" /\ todo' = todo /\ queue' = queue /\ writing' = writing
      \/ h.do = "send" /\ todo' = todo /\ queue' = Append(queue, h.arg)
  BY DEF RunPosted, ClosePosted, Lost
<1>3. Shapes /\ RequestInv /\ StreamInv
  BY DEF LoginInv
<1>4. /\ h \in Posting /\ posted' \in Seq(Posting) /\ Els(posted) = {h} \cup Els(posted')
      /\ \A x : Once(x, posted) => Once(x, posted') /\ (h = x => x \notin Els(posted'))
  BY <1>1, <1>3, ElsTail DEF Shapes
<1>5. /\ h = CloseIt \/ \E f \in Requests : h = Send(f)
      /\ CloseIt.do = "close" /\ \A f : Send(f).do = "send" /\ Send(f).arg = f
  BY <1>4, StepFields DEF Posting
<1>. HIDE DEF h
<1>6. CASE h.do = "close" /\ todo' = <<Lost, Shut>> /\ queue' = queue /\ writing' = writing
  <2>1. h = CloseIt
    BY <1>5, <1>6
  <2>2. flags["closing"]
    BY <1>3, <1>4, <2>1 DEF StreamInv
  <2>3. GoodHandler(todo') /\ Els(todo') = {Lost, Shut}
    BY <1>6, LostInOrder
  <2>4. reading' \in BOOLEAN
    BY <1>1, <1>3 DEF Shapes
  <2>. QED BY <1>1, <1>4, <1>6, <2>2, <2>3, <2>4, HandlerStarts
<1>7. CASE h.do = "send" /\ todo' = todo /\ queue' = queue /\ writing' = writing
  <2>1. ASSUME NEW f \in Requests PROVE (Up(f)' => Up(f)) /\ Solo(f)'
    <3>1. Solo(f)
      BY <1>3 DEF RequestInv
    <3>. QED BY <1>1, <1>4, <1>7, <3>1 DEF Up, Solo, Doing
  <2>2. /\ c2s' \in Seq(Requests) /\ queue' \in Seq(Requests)
        /\ writing' => queue' # <<>>
    BY <1>1, <1>3, <1>7 DEF Shapes, StreamInv
  <2>. QED BY <1>1, <1>4, <1>7, <2>1, <2>2, RequestsMove
<1>8. CASE h.do = "send" /\ todo' = todo /\ queue' = Append(queue, h.arg)
  <2>1. PICK g \in Requests : h = Send(g)
    BY <1>5, <1>8
  <2>2. queue' = Append(queue, g)
    BY <1>5, <1>8, <2>1
  <2>3. /\ queue' \in Seq(Requests) /\ Els(queue') = Els(queue) \cup {g}
        /\ \A x : Once(x, queue) /\ (x # g \/ x \notin Els(queue)) => Once(x, queue')
    BY <1>3, <2>2, ElsAppend DEF Shapes
  <2>4. queue' # <<>> /\ c2s' \in Seq(Requests)
    BY <1>1, <1>3, <2>2 DEF Shapes
  <2>5. ASSUME NEW f \in Requests PROVE (Up(f)' => Up(f)) /\ Solo(f)'
    <3>1. Solo(f) /\ \A x : Doing(x)' <=> Doing(x)
      BY <1>3, <1>8 DEF RequestInv, Doing
    <3>2. Up(f)' => Up(f)
      BY <1>1, <1>4, <2>1, <2>3, <3>1 DEF Up
    <3>3. f # g => Send(f) # h
      BY <2>1, StepsDiffer
    <3>4. Once(f, c2s') /\ Once(f, queue') /\ Once(Send(f), posted') /\ Once(Call(Send(f)), todo')
      BY <1>1, <1>4, <1>8, <2>1, <2>3, <3>1 DEF Solo
    <3>5. f \in Els(c2s') => f \notin Els(queue')
      BY <1>1, <1>4, <2>1, <2>3, <3>1 DEF Solo
    <3>6. f \in Els(c2s') \cup Els(queue') => Send(f) \notin Els(posted')
      <4>1. CASE f = g
        BY <1>4, <2>1, <3>1, <4>1 DEF Solo
      <4>2. CASE f # g
        BY <1>1, <1>4, <2>3, <3>1, <4>2 DEF Solo
      <4>. QED BY <4>1, <4>2
    <3>7. Doing(Call(Send(f))) =>
             f \notin Els(c2s') \cup Els(queue') /\ Send(f) \notin Els(posted')
      BY <1>1, <1>4, <2>1, <2>3, <3>1 DEF Solo
    <3>8. Solo(f)'
      BY <3>1, <3>4, <3>5, <3>6, <3>7 DEF Solo
    <3>. QED BY <3>2, <3>8
  <2>. QED BY <1>1, <1>4, <1>8, <2>3, <2>4, <2>5, RequestsMove
<1>. QED BY <1>2, <1>6, <1>7, <1>8

\* What a step is, by what it does.
LEMMA StepKinds ==
    ASSUME NEW s \in Steps
    PROVE  /\ s.do = "set" <=> s \in FlagSteps
           /\ s.do = "call" <=> s \in {Call(CloseIt), Call(Send("IdentityProof"))}
           /\ s.do = "reason" <=> \E r \in Failures \cup {"rejected", "kicked"} : s = Because(r)
           /\ s.do = "negotiated" <=> s = Negotiated
           /\ s.do = "shut" <=> s = Shut
           /\ s.do = "read" <=> s = ReadOn
<1>. DEFINE calls == {Call(CloseIt), Call(Send("IdentityProof"))}
            whys == {Because("connection closed"), Because("version"), Because("no handshake"),
                     Because("rejected"), Because("kicked")}
<1>1. s \in FlagSteps \cup calls \cup whys \cup {Negotiated, Shut, ReadOn}
  BY DEF Steps, FlagSteps
<1>2. \A x \in FlagSteps : x.do = "set"
  BY FlagFields DEF FlagSteps
<1>3. /\ \A x \in calls : x.do = "call"
      /\ \A x \in whys : x.do = "reason"
  BY StepFields
<1>4. s \in whys <=> \E r \in Failures \cup {"rejected", "kicked"} : s = Because(r)
  BY DEF Failures
<1>5. Negotiated.do = "negotiated" /\ Shut.do = "shut" /\ ReadOn.do = "read"
  BY StepFields
<1>. HIDE DEF calls, whys
<1>6. /\ s.do = "set" <=> s \in FlagSteps
      /\ s.do = "call" <=> s \in calls
      /\ s.do = "reason" <=> s \in whys
      /\ s.do = "negotiated" <=> s = Negotiated
      /\ s.do = "shut" <=> s = Shut
      /\ s.do = "read" <=> s = ReadOn
  BY <1>1, <1>2, <1>3, <1>5
<1>. QED BY <1>4, <1>6 DEF calls

\* What a step does to the flags.
FlagsAfter(s) ==
    CASE s.do = "set"  -> [flags EXCEPT ![s.arg] = s.val]
      [] s.do = "call" -> SetClosing(s.arg)
      [] OTHER -> flags

\* A step changes the flag it names, and close() sets closing.
LEMMA StepFlags ==
    ASSUME Shapes, NEW s \in Steps
    PROVE  /\ FlagsAfter(s) \in [Flags -> BOOLEAN]
           /\ \A f \in Flags \ {"closing"} :
                 FlagsAfter(s)[f] = IF s \in FlagSteps /\ s.arg = f THEN s.val ELSE flags[f]
           /\ FlagsAfter(s)["closing"] <=> flags["closing"] \/ s = Call(CloseIt)
<1>. DEFINE g == FlagsAfter(s)
<1>1. flags \in [Flags -> BOOLEAN] /\ "closing" \in Flags
  BY DEF Shapes, Flags
<1>2. CASE s \in FlagSteps
  <2>1. g = [flags EXCEPT ![s.arg] = s.val]
    BY <1>2, StepKinds DEF FlagsAfter
  <2>2. s.arg \in Flags \ {"closing"}
    BY <1>2, FlagFields DEF FlagSteps, Flags
  <2>3. s.val \in BOOLEAN
    <3>1. \A x \in FlagSteps : x.val = TRUE \/ x.val = FALSE
      BY FlagFields, Zenon DEF FlagSteps
    <3>. QED BY <1>2, <3>1
  <2>4. s # Call(CloseIt)
    BY <1>2, StepsDiffer DEF PlainOther
  <2>. QED BY <1>1, <1>2, <2>1, <2>2, <2>3, <2>4
<1>3. CASE s = Call(CloseIt)
  <2>1. s.do = "call" /\ s.arg = CloseIt /\ CloseIt.do = "close"
    BY <1>3, StepFields
  <2>2. g = [flags EXCEPT !["closing"] = TRUE]
    BY <2>1 DEF FlagsAfter, SetClosing
  <2>3. s \notin FlagSteps
    BY <1>3, StepsDiffer DEF PlainOther
  <2>. QED BY <1>1, <1>3, <2>2, <2>3
<1>4. CASE s \notin FlagSteps /\ s # Call(CloseIt)
  <2>1. g = flags
    <3>1. s.do # "set"
      BY <1>4, StepKinds
    <3>2. CASE s.do = "call"
      <4>1. s = Call(Send("IdentityProof"))
        BY <1>4, <3>2, StepKinds
      <4>2. s.arg = Send("IdentityProof") /\ s.arg.do = "send"
        BY <4>1, StepFields
      <4>. QED BY <3>2, <4>2 DEF FlagsAfter, SetClosing
    <3>3. CASE s.do # "call"
      BY <3>1, <3>3 DEF FlagsAfter
    <3>. QED BY <3>2, <3>3
  <2>. QED BY <1>1, <1>4, <2>1
<1>. QED BY <1>2, <1>3, <1>4

\* Which step sets which flag.
LEMMA WhichFlag ==
    ASSUME Shapes, NEW s \in Steps
    PROVE  LET g == FlagsAfter(s) IN
           /\ g["auth_ok"] <=> s = AuthOk \/ (flags["auth_ok"] /\ s # AuthNo)
           /\ g["auth_resolved"] <=> flags["auth_resolved"] \/ s = AuthResolved
           /\ g["auth_required"] <=> flags["auth_required"] \/ s = AuthRequired
           /\ g["join_resolved"] <=> flags["join_resolved"] \/ s = JoinResolved
           /\ g["join_failed"] <=> flags["join_failed"] \/ s = JoinFailed
           /\ g["banned"] <=> flags["banned"] \/ s = IsBanned
           /\ g["nickname_taken"] <=> flags["nickname_taken"] \/ s = IsTaken
           /\ g["g_kicked"] <=> flags["g_kicked"] \/ s = GKicked
<1>. DEFINE g == FlagsAfter(s)
            seen == {"auth_ok", "auth_resolved", "auth_required", "join_resolved",
                     "join_failed", "banned", "nickname_taken", "g_kicked"}
<1>1. \A f \in seen : g[f] = IF s \in FlagSteps /\ s.arg = f THEN s.val ELSE flags[f]
  <2>1. seen \subseteq Flags \ {"closing"}
    BY DEF Flags
  <2>. HIDE DEF seen
  <2>. QED BY <2>1, StepFlags
<1>. HIDE DEF g
<1>2. /\ s \in FlagSteps /\ s.arg = "auth_ok" <=> s = AuthOk \/ s = AuthNo
      /\ s \in FlagSteps /\ s.arg = "auth_resolved" <=> s = AuthResolved
      /\ s \in FlagSteps /\ s.arg = "auth_required" <=> s = AuthRequired
      /\ s \in FlagSteps /\ s.arg = "join_resolved" <=> s = JoinResolved
      /\ s \in FlagSteps /\ s.arg = "join_failed" <=> s = JoinFailed
      /\ s \in FlagSteps /\ s.arg = "banned" <=> s = IsBanned
      /\ s \in FlagSteps /\ s.arg = "nickname_taken" <=> s = IsTaken
      /\ s \in FlagSteps /\ s.arg = "g_kicked" <=> s = GKicked
  BY FlagFields DEF FlagSteps
<1>3. /\ AuthOk.val /\ ~AuthNo.val /\ AuthResolved.val /\ AuthRequired.val /\ JoinResolved.val
      /\ JoinFailed.val /\ IsBanned.val /\ IsTaken.val /\ GKicked.val
  BY FlagFields, Zenon
<1>4. AuthOk # AuthNo
  BY StepsDiffer
<1>5. /\ g["auth_ok"] = IF s = AuthOk \/ s = AuthNo THEN s.val ELSE flags["auth_ok"]
      /\ g["auth_resolved"] = IF s = AuthResolved THEN s.val ELSE flags["auth_resolved"]
      /\ g["auth_required"] = IF s = AuthRequired THEN s.val ELSE flags["auth_required"]
      /\ g["join_resolved"] = IF s = JoinResolved THEN s.val ELSE flags["join_resolved"]
      /\ g["join_failed"] = IF s = JoinFailed THEN s.val ELSE flags["join_failed"]
      /\ g["banned"] = IF s = IsBanned THEN s.val ELSE flags["banned"]
      /\ g["nickname_taken"] = IF s = IsTaken THEN s.val ELSE flags["nickname_taken"]
      /\ g["g_kicked"] = IF s = GKicked THEN s.val ELSE flags["g_kicked"]
  BY <1>1, <1>2
<1>6. g["auth_ok"] <=> s = AuthOk \/ (flags["auth_ok"] /\ s # AuthNo)
  BY <1>3, <1>4, <1>5, Zenon
<1>7. g["auth_resolved"] <=> flags["auth_resolved"] \/ s = AuthResolved
  BY <1>3, <1>5, Zenon
<1>8. g["auth_required"] <=> flags["auth_required"] \/ s = AuthRequired
  BY <1>3, <1>5, Zenon
<1>9. g["join_resolved"] <=> flags["join_resolved"] \/ s = JoinResolved
  BY <1>3, <1>5, Zenon
<1>10. g["join_failed"] <=> flags["join_failed"] \/ s = JoinFailed
  BY <1>3, <1>5, Zenon
<1>11. g["banned"] <=> flags["banned"] \/ s = IsBanned
  BY <1>3, <1>5, Zenon
<1>12. g["nickname_taken"] <=> flags["nickname_taken"] \/ s = IsTaken
  BY <1>3, <1>5, Zenon
<1>13. g["g_kicked"] <=> flags["g_kicked"] \/ s = GKicked
  BY <1>3, <1>5, Zenon
<1>. QED BY <1>6, <1>7, <1>8, <1>9, <1>10, <1>11, <1>12, <1>13 DEF g

\* What a call posts.
LEMMA PostedBy ==
    ASSUME Shapes, NEW h \in Posting
    PROVE  /\ Posts(h) \in Seq(Posting)
           /\ Posts(h) = posted \/ Posts(h) = Append(posted, h)
           /\ Els(Posts(h)) \subseteq Els(posted) \cup {h}
           /\ \A x : Once(x, posted) /\ (x # h \/ x \notin Els(posted)) => Once(x, Posts(h))
<1>1. posted \in Seq(Posting) /\ (Posts(h) = posted \/ Posts(h) = Append(posted, h))
  BY DEF Shapes, Posts
<1>2. CASE Posts(h) = posted
  BY <1>1, <1>2
<1>3. CASE Posts(h) = Append(posted, h)
  BY <1>1, <1>3, ElsAppend
<1>. QED BY <1>1, <1>2, <1>3

\* A step of the running handler.
LEMMA LoginStep == LoginInv /\ Step => LoginInv'
<1>. SUFFICES ASSUME LoginInv, Step PROVE LoginInv'
  OBVIOUS
<1>. DEFINE s == Head(todo)
            proof == Call(Send("IdentityProof"))
<1>1. /\ peer' = peer /\ srv' = srv /\ link' = link /\ s2c' = s2c /\ c2s' = c2s
      /\ writing' = writing /\ queue' = queue /\ pc' = pc /\ verdict' = verdict
      /\ todo # <<>> /\ todo' = Tail(todo)
  BY DEF Step, terminalVars, serverVars
<1>2. /\ flags' = FlagsAfter(s)
      /\ posted' = IF s.do = "call" THEN Posts(s.arg) ELSE posted
      /\ reason' = IF s.do = "reason" THEN s.arg ELSE reason
      /\ negotiated' = (negotiated \/ s.do = "negotiated")
      /\ open' = (open /\ s.do # "shut")
      /\ reading' = (reading \/ s.do = "read")
  BY DEF Step, FlagsAfter
<1>3. /\ Shapes /\ ServerInv /\ RequestInv /\ ReplyInv /\ VerdictInv /\ HelloInv /\ AuthInv
      /\ StreamInv /\ OutcomeInv /\ KickInv /\ TerminalInv /\ VerdictIsTrue
  BY DEF LoginInv
<1>4. /\ s \in Steps /\ todo' \in Seq(Steps) /\ Els(todo) = {s} \cup Els(todo')
      /\ \A x : Once(x, todo) => Once(x, todo') /\ (s = x => x \notin Els(todo'))
      /\ Ordered(todo')
      /\ s \in {JoinResolved, GKicked} => Els(todo') \subseteq {ReadOn, Call(CloseIt)}
  BY <1>1, <1>3, ElsTail DEF Shapes, OutcomeInv
<1>. HIDE DEF s
<1>5. /\ \A x : Doing(x) <=> x = s \/ Doing(x)'
      /\ \A x : Doing(x)' <=> x \in Els(todo')
  BY <1>4 DEF Doing
<1>6. Accepted => s # AuthNo
  BY <1>3, <1>5 DEF AuthInv
<1>7. /\ flags'["auth_ok"] => flags["auth_ok"] \/ s = AuthOk
      /\ flags["auth_ok"] \/ s = AuthOk => flags'["auth_ok"]
      /\ flags'["auth_resolved"] <=> flags["auth_resolved"] \/ s = AuthResolved
      /\ flags'["auth_required"] <=> flags["auth_required"] \/ s = AuthRequired
      /\ flags'["join_resolved"] <=> flags["join_resolved"] \/ s = JoinResolved
      /\ flags'["join_failed"] <=> flags["join_failed"] \/ s = JoinFailed
      /\ flags'["banned"] <=> flags["banned"] \/ s = IsBanned
      /\ flags'["nickname_taken"] <=> flags["nickname_taken"] \/ s = IsTaken
      /\ flags'["g_kicked"] <=> flags["g_kicked"] \/ s = GKicked
  <2>1. flags["auth_ok"] => s # AuthNo
    BY <1>6 DEF Accepted, On
  <2>. QED BY <1>2, <1>3, <1>4, <2>1, WhichFlag
<1>8. ClientSame
  <2>1. /\ Accepted' <=> Accepted
        /\ Resolved' <=> Resolved
        /\ Required' <=> Required
        /\ Decided' <=> Decided
        /\ Failed' <=> Failed
        /\ BannedOn' <=> BannedOn
        /\ TakenOn' <=> TakenOn
        /\ KickedOn' <=> KickedOn
    BY <1>5, <1>7 DEF Accepted, Resolved, Required, Decided, Failed, BannedOn, TakenOn, KickedOn,
                      On
  <2>2. Greeted' <=> Greeted
    BY <1>2, <1>4, <1>5, StepKinds DEF Greeted
  <2>3. Live' <=> Live
    BY <1>2, <1>4, <1>5, StepKinds DEF Live
  <2>. QED BY <2>1, <2>2, <2>3 DEF ClientSame
<1>9. /\ flags' \in [Flags -> BOOLEAN]
      /\ flags'["closing"] <=> flags["closing"] \/ s = Call(CloseIt)
  BY <1>2, <1>3, <1>4, StepFlags
<1>10. /\ \/ s = proof /\ posted' = Posts(Send("IdentityProof"))
          \/ s = Call(CloseIt) /\ posted' = Posts(CloseIt)
          \/ s \notin {proof, Call(CloseIt)} /\ posted' = posted
       /\ Send("IdentityProof") \in Posting /\ CloseIt \in Posting
  <2>1. s.do = "call" => s = Call(CloseIt) \/ s = proof
    BY <1>4, StepKinds
  <2>2. \A h : Call(h).do = "call" /\ Call(h).arg = h
    BY StepFields
  <2>. QED BY <1>2, <2>1, <2>2 DEF Posting, Requests
<1>11. /\ posted' \in Seq(Posting)
       /\ CloseIt \in Els(posted') => CloseIt \in Els(posted) \/ s = Call(CloseIt)
       /\ \A f \in Requests : Send(f) \in Els(posted') =>
             Send(f) \in Els(posted) \/ s = Call(Send(f))
       /\ \A f \in Requests : Once(Send(f), posted) /\
             (s # Call(Send(f)) \/ Send(f) \notin Els(posted)) => Once(Send(f), posted')
  <2>1. CASE s = proof /\ posted' = Posts(Send("IdentityProof"))
    <3>. DEFINE p == Send("IdentityProof")
    <3>1. p \in Posting /\ CloseIt # p /\ s = Call(p)
      BY <1>10, <2>1, StepsDiffer
    <3>2. \A f : (s = Call(Send(f)) <=> Send(f) = p)
      BY <2>1, StepsDiffer
    <3>. HIDE DEF p
    <3>3. /\ posted' \in Seq(Posting) /\ Els(posted') \subseteq Els(posted) \cup {p}
          /\ \A x : Once(x, posted) /\ (x # p \/ x \notin Els(posted)) => Once(x, posted')
      BY <1>3, <2>1, <3>1, PostedBy DEF p
    <3>. QED BY <3>1, <3>2, <3>3
  <2>2. CASE s = Call(CloseIt) /\ posted' = Posts(CloseIt)
    <3>1. \A f : Send(f) # CloseIt
      BY StepsDiffer
    <3>2. /\ posted' \in Seq(Posting) /\ Els(posted') \subseteq Els(posted) \cup {CloseIt}
          /\ \A x : Once(x, posted) /\ (x # CloseIt \/ x \notin Els(posted)) => Once(x, posted')
      BY <1>3, <1>10, <2>2, PostedBy
    <3>. QED BY <2>2, <3>1, <3>2
  <2>3. CASE posted' = posted
    BY <1>3, <2>3 DEF Shapes
  <2>. QED BY <1>10, <2>1, <2>2, <2>3
<1>12. \A f \in Requests : Up(f)' => Up(f)
  <2>1. ASSUME NEW f \in Requests PROVE Up(f)' => Up(f)
    BY <1>1, <1>5, <1>11 DEF Up
  <2>. QED BY <2>1
<1>13. NoUp => NoUp'
  BY <1>12 DEF NoUp
<1>14. \A f \in Requests : Solo(f)'
  <2>1. ASSUME NEW f \in Requests PROVE Solo(f)'
    <3>1. Solo(f)
      BY <1>3 DEF RequestInv
    <3>2. Once(Call(Send(f)), todo') /\ (s = Call(Send(f)) => ~Doing(Call(Send(f)))')
      BY <1>4, <1>5, <3>1 DEF Solo
    <3>3. s = Call(Send(f)) => f \notin Els(c2s) \cup Els(queue) /\ Send(f) \notin Els(posted)
      BY <1>5, <3>1 DEF Solo
    <3>4. Once(Send(f), posted')
      BY <1>11, <3>1, <3>3 DEF Solo
    <3>5. f \in Els(c2s) \cup Els(queue) => Send(f) \notin Els(posted')
      BY <1>11, <3>1, <3>3 DEF Solo
    <3>6. Doing(Call(Send(f)))' =>
             f \notin Els(c2s) \cup Els(queue) /\ Send(f) \notin Els(posted')
      BY <1>5, <1>11, <3>1, <3>2 DEF Solo
    <3>. QED BY <1>1, <3>1, <3>2, <3>4, <3>5, <3>6 DEF Solo
  <2>. QED BY <2>1
<1>15. (\A y : Coming(y)' <=> Coming(y)) /\ (Chatbox' <=> Chatbox)
  BY <1>1 DEF Coming, Chatbox
<1>16. Shapes'
  <2>1. open' \in BOOLEAN /\ reading' \in BOOLEAN /\ negotiated' \in BOOLEAN
    BY <1>2
  <2>. QED BY <1>1, <1>3, <1>4, <1>9, <1>11, <2>1 DEF Shapes
<1>17. ServerInv'
  BY <1>1, <1>3, <1>8, <1>13, <1>15 DEF ServerInv, ClientSame
<1>18. RequestInv'
  BY <1>1, <1>3, <1>8, <1>12, <1>14 DEF RequestInv, ClientSame, Requests
<1>19. ReplyInv'
  BY <1>1, <1>3, <1>8, <1>13, <1>15 DEF ReplyInv, ClientSame
<1>20. VerdictInv' /\ HelloInv'
  BY <1>1, <1>3, <1>8, <1>15 DEF VerdictInv, HelloInv, ClientSame
<1>21. AuthInv'
  <2>1. ~Doing(AuthOk)'
    BY <1>1, <1>3, <1>5 DEF AuthInv
  <2>. QED BY <1>1, <1>3, <1>5, <1>8, <1>13, <2>1 DEF AuthInv, ClientSame
<1>22. StreamInv'
  <2>1. ~open' \/ Doing(Shut)' => ~open \/ Doing(Shut)
    BY <1>2, <1>4, <1>5, StepKinds
  <2>. QED BY <1>1, <1>3, <1>9, <1>11, <2>1 DEF StreamInv
<1>23. OutcomeInv'
  <2>1. s = JoinResolved => \A x \in Details : ~Doing(x)'
    <3>1. Details \cap {ReadOn, Call(CloseIt)} = {}
      BY StepsDiffer DEF Details, FlagSteps, PlainOther
    <3>. QED BY <1>4, <1>5, <3>1
  <2>2. Accepted /\ srv = "rejected" /\ (reason = "rejected" \/ Doing(Because("rejected"))) =>
           reason' = "rejected" \/ Doing(Because("rejected"))'
    <3>1. CASE s = Because("rejected")
      <4>1. s.do = "reason" /\ s.arg = "rejected"
        BY <3>1, StepFields
      <4>. QED BY <1>2, <4>1
    <3>2. CASE s # Because("rejected")
      <4>1. Accepted /\ srv = "rejected" => s.do # "reason"
        BY <1>3, <1>4, <1>5, <3>2, StepKinds DEF AuthInv, KickInv
      <4>. QED BY <1>2, <1>5, <3>2, <4>1
    <3>. QED BY <3>1, <3>2
  <2>3. Accepted /\ flags'["join_resolved"] => \A x \in Details : ~Doing(x)'
    BY <1>3, <1>5, <1>7, <2>1 DEF OutcomeInv
  <2>. QED BY <1>1, <1>3, <1>4, <1>5, <1>8, <2>2, <2>3 DEF OutcomeInv, ClientSame
<1>24. KickInv'
  <2>1. s = GKicked => ~Doing(Because("kicked"))'
    <3>1. Because("kicked") \notin {ReadOn, Call(CloseIt)}
      BY StepsDiffer DEF PlainOther
    <3>. QED BY <1>4, <1>5, <3>1
  <2>. QED BY <1>1, <1>3, <1>5, <1>7, <1>8, <2>1 DEF KickInv, ClientSame
<1>25. TerminalInv' /\ VerdictIsTrue'
  BY <1>1, <1>3, <1>7 DEF TerminalInv, VerdictIsTrue
<1>. QED BY <1>16, <1>17, <1>18, <1>19, <1>20, <1>21, <1>22, <1>23, <1>24, <1>25 DEF LoginInv

-----------------------------------------------------------------------------
(***************************************************************************)
(* The terminal thread.                                                    *)
(***************************************************************************)

\* The terminal thread goes on.  It may close the client, answer the prompt, or
\* send Identify when the server has accepted the password.
LEMMA TerminalMoves ==
    ASSUME LoginInv, peer' = peer, srv' = srv, link' = link, s2c' = s2c, c2s' = c2s,
           reason' = reason, negotiated' = negotiated, open' = open, reading' = reading,
           writing' = writing, queue' = queue, todo' = todo,
           flags' \in [Flags -> BOOLEAN], \A f \in Flags \ {"closing"} : flags'[f] = flags[f],
           flags["closing"] => flags'["closing"],
           posted' \in Seq(Posting), CloseIt \in Els(posted') => flags'["closing"],
           \A f \in Requests : Solo(f)',
           pc' \in PreAuthenticate => pc \in PreAuthenticate,
           pc' \in PreIdentify => pc \in PreIdentify,
           \/ \A f \in Requests : Up(f)' => Up(f)
           \/ /\ \A f \in Requests : Up(f)' => f = "Authenticate"
              /\ Required /\ pc = "prompt" /\ pc' \notin PreAuthenticate
           \/ /\ \A f \in Requests : Up(f)' => f = "Identify"
              /\ Accepted /\ pc = "ok?" /\ pc' \notin PreIdentify,
           TerminalInv', VerdictIsTrue'
    PROVE  LoginInv'
<1>1. /\ Shapes /\ ServerInv /\ RequestInv /\ ReplyInv /\ VerdictInv /\ HelloInv /\ AuthInv
      /\ StreamInv /\ OutcomeInv /\ KickInv
  BY DEF LoginInv
<1>2. \A x : Doing(x)' <=> Doing(x)
  BY DEF Doing
<1>3. \A f \in Flags \ {"closing"} : \A x : On(f, x)' <=> On(f, x)
  BY <1>2 DEF On
<1>4. ClientSame
  BY <1>2, <1>3 DEF ClientSame, Accepted, Resolved, Required, Decided, Failed, BannedOn, TakenOn,
                    KickedOn, Greeted, Live, Flags
<1>5. (\A y : Coming(y)' <=> Coming(y)) /\ (Chatbox' <=> Chatbox)
  BY DEF Coming, Chatbox
<1>6. /\ flags'["auth_resolved"] = flags["auth_resolved"]
      /\ flags'["join_resolved"] = flags["join_resolved"]
      /\ flags'["g_kicked"] = flags["g_kicked"]
  BY DEF Flags
<1>7. Shapes' /\ VerdictInv' /\ HelloInv'
  BY <1>1, <1>4, <1>5 DEF Shapes, VerdictInv, HelloInv, ClientSame
<1>8. StreamInv'
  BY <1>1, <1>2 DEF StreamInv
<1>9. KickInv'
  BY <1>1, <1>2, <1>4, <1>6 DEF KickInv, ClientSame
<1>10. OutcomeInv'
  BY <1>1, <1>2, <1>4, <1>6 DEF OutcomeInv, ClientSame
<1>11. CASE \A f \in Requests : Up(f)' => Up(f)
  <2>1. NoUp => NoUp'
    BY <1>11 DEF NoUp
  <2>2. ServerInv'
    BY <1>1, <1>4, <1>5, <2>1 DEF ServerInv, ClientSame
  <2>3. RequestInv'
    BY <1>1, <1>4, <1>11 DEF RequestInv, ClientSame, Requests
  <2>4. ReplyInv'
    BY <1>1, <1>4, <1>5, <2>1 DEF ReplyInv, ClientSame
  <2>5. AuthInv'
    BY <1>1, <1>2, <1>4, <1>6, <2>1 DEF AuthInv, ClientSame
  <2>. QED BY <1>7, <1>8, <1>9, <1>10, <2>2, <2>3, <2>4, <2>5 DEF LoginInv
<1>12. CASE /\ \A f \in Requests : Up(f)' => f = "Authenticate"
            /\ Required /\ pc = "prompt" /\ pc' \notin PreAuthenticate
  <2>1. pc \in PreAuthenticate
    BY <1>12 DEF PreAuthenticate
  <2>2. peer = "locked" /\ srv = "greeted" /\ ~Accepted
    BY <1>1, <1>12, <2>1 DEF AuthInv
  <2>3. ~Coming("AuthRequired") /\ ~Coming("AuthAccepted") /\ ~Coming("Challenge")
    BY <1>1, <1>12, <2>1, <2>2 DEF ReplyInv
  <2>4. ServerInv'
    BY <1>1, <1>4, <1>5, <2>2 DEF ServerInv, ClientSame
  <2>5. RequestInv'
    BY <1>4, <1>12, <2>2 DEF RequestInv, ClientSame, Requests
  <2>6. ReplyInv'
    BY <1>1, <1>4, <1>5, <2>3 DEF ReplyInv
  <2>7. AuthInv'
    BY <1>1, <1>2, <1>4, <1>6, <1>12, <2>2 DEF AuthInv, ClientSame
  <2>. QED BY <1>7, <1>8, <1>9, <1>10, <2>4, <2>5, <2>6, <2>7 DEF LoginInv
<1>13. CASE /\ \A f \in Requests : Up(f)' => f = "Identify"
            /\ Accepted /\ pc = "ok?" /\ pc' \notin PreIdentify
  <2>1. pc \in PreIdentify /\ pc' \notin PreAuthenticate
    BY <1>13 DEF PreIdentify
  <2>2. srv = "greeted"
    BY <1>1, <1>13, <2>1 DEF AuthInv
  <2>3. ~Coming("AuthRequired") /\ ~Coming("AuthAccepted") /\ ~Coming("Challenge")
    BY <1>1, <1>13, <2>2 DEF ReplyInv
  <2>4. ServerInv'
    BY <1>1, <1>4, <1>5, <2>2 DEF ServerInv, ClientSame
  <2>5. RequestInv'
    BY <1>4, <1>13, <2>2 DEF RequestInv, ClientSame, Requests
  <2>6. ReplyInv'
    BY <1>1, <1>4, <1>5, <2>3 DEF ReplyInv
  <2>7. AuthInv'
    BY <1>1, <1>2, <1>4, <1>6, <1>13, <2>1, <2>2 DEF AuthInv, ClientSame
  <2>. QED BY <1>7, <1>8, <1>9, <1>10, <2>4, <2>5, <2>6, <2>7 DEF LoginInv
<1>. QED BY <1>11, <1>12, <1>13

\* What the terminal thread leaves alone.
Elsewhere ==
    /\ peer' = peer /\ srv' = srv /\ link' = link /\ s2c' = s2c /\ c2s' = c2s
    /\ reason' = reason /\ negotiated' = negotiated /\ open' = open /\ reading' = reading
    /\ writing' = writing /\ queue' = queue /\ todo' = todo

\* The terminal thread only looks at the flags.
LEMMA TerminalLooks ==
    ASSUME LoginInv, Elsewhere, flags' = flags, posted' = posted,
           pc' \in PreAuthenticate => pc \in PreAuthenticate,
           pc' \in PreIdentify => pc \in PreIdentify,
           TerminalInv', VerdictIsTrue'
    PROVE  LoginInv'
<1>1. Shapes /\ RequestInv /\ StreamInv
  BY DEF LoginInv
<1>2. \A f : (Up(f)' <=> Up(f)) /\ (Solo(f)' <=> Solo(f))
  BY SameRequests DEF Elsewhere
<1>3. /\ flags' \in [Flags -> BOOLEAN] /\ posted' \in Seq(Posting)
      /\ CloseIt \in Els(posted') => flags'["closing"]
  BY <1>1 DEF Shapes, StreamInv
<1>4. \A f \in Requests : Solo(f)' /\ (Up(f)' => Up(f))
  BY <1>1, <1>2 DEF RequestInv
<1>. QED BY <1>3, <1>4, TerminalMoves DEF Elsewhere

\* The terminal thread sends a request when none is on its way.
LEMMA TerminalSends ==
    ASSUME LoginInv, Elsewhere, NoUp, NEW g \in Requests, Calls(Send(g))
    PROVE  /\ flags' = flags /\ posted' \in Seq(Posting)
           /\ CloseIt \in Els(posted') => flags'["closing"]
           /\ \A f \in Requests : Solo(f)' /\ (Up(f)' => f = g)
<1>1. Shapes /\ RequestInv /\ StreamInv
  BY DEF LoginInv
<1>2. flags' = flags /\ posted' = Posts(Send(g))
  <2>1. Send(g).do # "close"
    BY StepFields
  <2>. QED BY <2>1 DEF Calls, SetClosing
<1>3. Send(g) \in Posting /\ Send(g) # CloseIt /\ \A f : Send(f) = Send(g) => f = g
  BY StepsDiffer DEF Posting
<1>4. /\ posted' \in Seq(Posting) /\ Els(posted') \subseteq Els(posted) \cup {Send(g)}
      /\ \A x : Once(x, posted) /\ (x # Send(g) \/ x \notin Els(posted)) => Once(x, posted')
  BY <1>1, <1>2, <1>3, PostedBy
<1>5. ASSUME NEW f \in Requests PROVE Solo(f)' /\ (Up(f)' => f = g)
  <2>1. /\ f \notin Els(c2s) /\ f \notin Els(queue) /\ Send(f) \notin Els(posted)
        /\ ~Doing(Call(Send(f)))
    BY DEF NoUp, Up
  <2>2. (Doing(Call(Send(f)))' <=> Doing(Call(Send(f)))) /\ c2s' = c2s /\ queue' = queue
    BY DEF Doing, Elsewhere
  <2>3. Solo(f)
    BY <1>1 DEF RequestInv
  <2>4. Once(Send(f), posted') /\ Once(Call(Send(f)), todo')
    BY <1>4, <2>1, <2>3 DEF Solo, Elsewhere
  <2>5. Solo(f)'
    BY <2>1, <2>2, <2>3, <2>4 DEF Solo
  <2>6. Up(f)' => f = g
    BY <1>3, <1>4, <2>1, <2>2 DEF Up
  <2>. QED BY <2>5, <2>6
<1>. QED BY <1>1, <1>2, <1>3, <1>4, <1>5 DEF StreamInv

\* The terminal thread closes the client.
LEMMA LoginFinish == LoginInv /\ Elsewhere /\ Finish => LoginInv'
<1>. SUFFICES ASSUME LoginInv, Elsewhere, Finish PROVE LoginInv'
  OBVIOUS
<1>1. Shapes /\ RequestInv /\ StreamInv /\ TerminalInv /\ VerdictIsTrue
  BY DEF LoginInv
<1>2. pc = "finish" /\ pc' = "join" /\ verdict' = verdict
  BY DEF Finish, Goto
<1>3. flags' = [flags EXCEPT !["closing"] = TRUE] /\ posted' = Posts(CloseIt)
  <2>1. CloseIt.do = "close"
    BY StepFields
  <2>. QED BY <2>1 DEF Finish, Calls, SetClosing
<1>4. /\ flags' \in [Flags -> BOOLEAN] /\ flags'["closing"] = TRUE
      /\ \A f \in Flags \ {"closing"} : flags'[f] = flags[f]
  BY <1>1, <1>3 DEF Shapes, Flags
<1>5. CloseIt \in Posting /\ \A f : Send(f) # CloseIt
  BY StepsDiffer DEF Posting
<1>6. /\ posted' \in Seq(Posting) /\ Els(posted') \subseteq Els(posted) \cup {CloseIt}
      /\ \A x : Once(x, posted) /\ (x # CloseIt \/ x \notin Els(posted)) => Once(x, posted')
  BY <1>1, <1>3, <1>5, PostedBy
<1>7. ASSUME NEW f \in Requests PROVE Solo(f)' /\ (Up(f)' => Up(f))
  <2>1. Solo(f)
    BY <1>1 DEF RequestInv
  <2>2. (Doing(Call(Send(f)))' <=> Doing(Call(Send(f)))) /\ c2s' = c2s /\ queue' = queue
    BY DEF Doing, Elsewhere
  <2>3. Send(f) \in Els(posted') => Send(f) \in Els(posted)
    BY <1>5, <1>6
  <2>4. Once(Send(f), posted') /\ Once(Call(Send(f)), todo')
    BY <1>5, <1>6, <2>1 DEF Solo, Elsewhere
  <2>5. Solo(f)'
    BY <2>1, <2>2, <2>3, <2>4 DEF Solo
  <2>. QED BY <2>2, <2>3, <2>5 DEF Up
<1>8. TerminalInv' /\ VerdictIsTrue'
  BY <1>1, <1>2 DEF TerminalInv, VerdictIsTrue, Elsewhere
<1>9. pc' \notin PreAuthenticate /\ pc' \notin PreIdentify
  BY <1>2 DEF PreIdentify, PreAuthenticate
<1>. QED BY <1>4, <1>6, <1>7, <1>8, <1>9, TerminalMoves DEF Elsewhere

\* The user answers the prompt.
LEMMA LoginEnterPassword ==
    ASSUME LoginInv, Elsewhere, NEW b \in BOOLEAN, EnterPassword(b)
    PROVE  LoginInv'
<1>1. Shapes /\ AuthInv /\ TerminalInv /\ VerdictIsTrue /\ pc = "prompt"
  BY DEF LoginInv, EnterPassword
<1>2. CASE b
  <2>1. flags' = flags /\ posted' = posted /\ pc' = "finish" /\ verdict' = "gave up"
    BY <1>2 DEF EnterPassword, Tell, NoCall
  <2>2. TerminalInv' /\ VerdictIsTrue' /\ pc' \notin PreIdentify /\ pc' \notin PreAuthenticate
    BY <2>1 DEF TerminalInv, VerdictIsTrue, PreIdentify, PreAuthenticate
  <2>. QED BY <2>1, <2>2, TerminalLooks
<1>3. CASE ~b
  <2>1. pc' = "await_auth" /\ verdict' = verdict /\ Calls(Send("Authenticate"))
    BY <1>3 DEF EnterPassword, Goto
  <2>2. Required /\ pc \in PreAuthenticate /\ pc \in PreIdentify /\ pc' \notin PreAuthenticate
    BY <1>1, <2>1 DEF TerminalInv, Required, On, PreAuthenticate, PreIdentify
  <2>3. NoUp /\ "Authenticate" \in Requests
    BY <1>1, <2>2 DEF AuthInv, Requests
  <2>4. /\ flags' = flags /\ posted' \in Seq(Posting)
        /\ CloseIt \in Els(posted') => flags'["closing"]
        /\ \A f \in Requests : Solo(f)' /\ (Up(f)' => f = "Authenticate")
    BY <2>1, <2>3, TerminalSends
  <2>5. TerminalInv' /\ VerdictIsTrue' /\ flags' \in [Flags -> BOOLEAN]
    BY <1>1, <2>1, <2>4 DEF TerminalInv, VerdictIsTrue, Elsewhere, Shapes
  <2>. QED BY <1>1, <2>1, <2>2, <2>4, <2>5, TerminalMoves DEF Elsewhere
<1>. QED BY <1>2, <1>3

\* The terminal thread identifies the user, or gives up.
LEMMA LoginCheckOk == LoginInv /\ Elsewhere /\ CheckOk => LoginInv'
<1>. SUFFICES ASSUME LoginInv, Elsewhere, CheckOk PROVE LoginInv'
  OBVIOUS
<1>1. Shapes /\ AuthInv /\ TerminalInv /\ VerdictIsTrue /\ pc = "ok?"
  BY DEF LoginInv, CheckOk
<1>2. CASE ~flags["auth_ok"]
  <2>1. flags' = flags /\ posted' = posted /\ pc' = "finish" /\ verdict' = "no handshake"
    BY <1>2 DEF CheckOk, Tell, NoCall
  <2>2. TerminalInv' /\ VerdictIsTrue' /\ pc' \notin PreIdentify /\ pc' \notin PreAuthenticate
    BY <2>1 DEF TerminalInv, VerdictIsTrue, PreIdentify, PreAuthenticate
  <2>. QED BY <2>1, <2>2, TerminalLooks
<1>3. CASE flags["auth_ok"]
  <2>1. pc' = "await_join" /\ verdict' = verdict /\ Calls(Send("Identify"))
    BY <1>3 DEF CheckOk, Goto
  <2>2. /\ Accepted /\ pc \in PreIdentify /\ pc' \notin PreIdentify
        /\ pc' \notin PreAuthenticate
    BY <1>1, <1>3, <2>1 DEF Accepted, On, PreAuthenticate, PreIdentify
  <2>3. NoUp /\ "Identify" \in Requests
    BY <1>1, <2>2 DEF AuthInv, Requests
  <2>4. /\ flags' = flags /\ posted' \in Seq(Posting)
        /\ CloseIt \in Els(posted') => flags'["closing"]
        /\ \A f \in Requests : Solo(f)' /\ (Up(f)' => f = "Identify")
    BY <2>1, <2>3, TerminalSends
  <2>5. TerminalInv' /\ VerdictIsTrue' /\ flags' \in [Flags -> BOOLEAN]
    BY <1>1, <1>3, <2>1, <2>4 DEF TerminalInv, VerdictIsTrue, Elsewhere, Shapes
  <2>. QED BY <1>1, <2>1, <2>2, <2>4, <2>5, TerminalMoves DEF Elsewhere
<1>. QED BY <1>2, <1>3

\* The terminal thread waits for a flag, or reads one and tells the user.
LEMMA LoginLooks ==
    ASSUME LoginInv, Elsewhere, NoCall,
           \/ WaitOver \/ WaitGivenUp \/ CheckRequired \/ CheckPassword \/ CheckBanned
           \/ CheckTaken \/ CheckFailed \/ ReadReason \/ ReadKickReason \/ JoinThread \/ ChatEnds
    PROVE  LoginInv'
<1>1. /\ ServerInv /\ AuthInv /\ OutcomeInv /\ KickInv /\ TerminalInv /\ VerdictIsTrue
  BY DEF LoginInv
<1>2. flags' = flags /\ posted' = posted /\ srv' = srv /\ link' = link
  BY DEF NoCall, Elsewhere
<1>. DEFINE done == /\ TerminalInv' /\ VerdictIsTrue'
                    /\ pc' \in PreAuthenticate => pc \in PreAuthenticate
                    /\ pc' \in PreIdentify => pc \in PreIdentify
<1>3. CASE WaitOver
  <2>1. \/ pc = "await_hello" /\ pc' = "required?"
        \/ pc = "await_auth" /\ pc' = "password?" /\ flags["auth_resolved"]
        \/ pc = "await_join" /\ pc' = "banned?" /\ flags["join_resolved"]
    BY <1>3 DEF WaitOver, Waiting, Ready, Goto
  <2>2. verdict' = verdict
    BY <1>3 DEF WaitOver, Goto
  <2>3. done
    BY <1>1, <1>2, <2>1, <2>2 DEF TerminalInv, VerdictIsTrue, PreAuthenticate, PreIdentify
  <2>. QED BY <1>2, <2>3, TerminalLooks
<1>4. CASE WaitGivenUp
  <2>1. pc' = "finish" /\ verdict' = "gave up"
    BY <1>4 DEF WaitGivenUp, Tell
  <2>2. done
    BY <2>1 DEF TerminalInv, VerdictIsTrue, PreAuthenticate, PreIdentify
  <2>. QED BY <1>2, <2>2, TerminalLooks
<1>5. CASE CheckRequired
  <2>1. /\ pc = "required?" /\ verdict' = verdict
        /\ (pc' = "prompt" /\ flags["auth_required"]) \/ pc' = "ok?"
    BY <1>5 DEF CheckRequired, Goto
  <2>2. done
    BY <1>1, <1>2, <2>1 DEF TerminalInv, VerdictIsTrue, PreAuthenticate, PreIdentify
  <2>. QED BY <1>2, <2>2, TerminalLooks
<1>6. CASE CheckPassword
  <2>1. /\ pc = "password?"
        /\ \/ pc' = "ok?" /\ verdict' = verdict
           \/ pc' = "finish" /\ verdict' = "wrong password" /\ ~flags["auth_ok"]
    BY <1>6 DEF CheckPassword, Goto, Tell
  <2>2. flags["auth_required"] /\ flags["auth_resolved"]
    BY <1>1, <2>1 DEF TerminalInv
  <2>3. Required /\ Resolved /\ peer = "locked" /\ ~Doing(AuthOk)
    BY <1>1, <2>2 DEF AuthInv, Required, Resolved, On
  <2>4. ~flags["auth_ok"] => srv = "wrong_password" \/ link = "down"
    BY <1>1, <2>3 DEF AuthInv, Accepted, On
  <2>5. done
    BY <1>1, <1>2, <2>1, <2>4 DEF TerminalInv, VerdictIsTrue, PreAuthenticate, PreIdentify
  <2>. QED BY <1>2, <2>5, TerminalLooks
<1>7. ASSUME pc \in {"banned?", "taken?", "failed?", "reason"}
      PROVE  /\ Accepted /\ Decided /\ srv \in Outcomes /\ flags["auth_ok"]
             /\ flags["join_resolved"] /\ \A x \in Details : ~Doing(x)
  BY <1>1, <1>7 DEF TerminalInv, OutcomeInv, Accepted, Decided, On
<1>8. CASE CheckBanned
  <2>1. /\ pc = "banned?"
        /\ \/ pc' = "finish" /\ verdict' = "banned" /\ flags["banned"]
           \/ pc' = "taken?" /\ verdict' = verdict /\ ~flags["banned"]
    BY <1>8 DEF CheckBanned, Goto, Tell
  <2>2. flags["banned"] <=> srv = "banned"
    BY <1>1, <1>7, <2>1 DEF OutcomeInv, BannedOn, On, Details
  <2>3. done
    BY <1>1, <1>2, <1>7, <2>1, <2>2
       DEF TerminalInv, VerdictIsTrue, PreAuthenticate, PreIdentify
  <2>. QED BY <1>2, <2>3, TerminalLooks
<1>9. CASE CheckTaken
  <2>1. /\ pc = "taken?"
        /\ \/ pc' = "finish" /\ verdict' = "taken" /\ flags["nickname_taken"]
           \/ pc' = "failed?" /\ verdict' = verdict /\ ~flags["nickname_taken"]
    BY <1>9 DEF CheckTaken, Goto, Tell
  <2>2. flags["nickname_taken"] <=> srv = "taken"
    BY <1>1, <1>7, <2>1 DEF OutcomeInv, TakenOn, On, Details
  <2>3. done
    BY <1>1, <1>2, <1>7, <2>1, <2>2
       DEF TerminalInv, VerdictIsTrue, PreAuthenticate, PreIdentify
  <2>. QED BY <1>2, <2>3, TerminalLooks
<1>10. CASE CheckFailed
  <2>1. /\ pc = "failed?"
        /\ \/ pc' = "reason" /\ verdict' = verdict /\ flags["join_failed"]
           \/ pc' = "chat" /\ verdict' = "joined" /\ ~flags["join_failed"]
    BY <1>10 DEF CheckFailed, Goto, Tell
  <2>2. flags["join_failed"] <=> srv = "rejected"
    BY <1>1, <1>7, <2>1 DEF OutcomeInv, Failed, On, Details
  <2>3. srv \notin {"banned", "taken"}
    BY <1>1, <2>1 DEF TerminalInv
  <2>4. done
    BY <1>1, <1>2, <1>7, <2>1, <2>2, <2>3
       DEF TerminalInv, VerdictIsTrue, PreAuthenticate, PreIdentify, Outcomes
  <2>. QED BY <1>2, <2>4, TerminalLooks
<1>11. CASE ReadReason
  <2>1. pc = "reason" /\ srv = "rejected"
    BY <1>1, <1>11 DEF ReadReason, TerminalInv
  <2>2. reason = "rejected"
    BY <1>1, <1>7, <2>1 DEF OutcomeInv, Details
  <2>3. pc' = "finish" /\ verdict' = "rejected"
    BY <1>11, <2>2 DEF ReadReason, Tell
  <2>4. done
    BY <1>2, <2>1, <2>3 DEF TerminalInv, VerdictIsTrue, PreAuthenticate, PreIdentify
  <2>. QED BY <1>2, <2>4, TerminalLooks
<1>12. CASE ReadKickReason \/ JoinThread \/ ChatEnds
  <2>1. /\ verdict' = verdict
        /\ pc' \in {"finish", "done"} \/ (pc' = "kick_reason" /\ flags["g_kicked"])
    BY <1>12 DEF ReadKickReason, JoinThread, ChatEnds, Goto
  <2>2. done
    BY <1>1, <1>2, <2>1 DEF TerminalInv, VerdictIsTrue, PreAuthenticate, PreIdentify
  <2>. QED BY <1>2, <2>2, TerminalLooks
<1>. QED BY <1>3, <1>4, <1>5, <1>6, <1>8, <1>9, <1>10, <1>11, <1>12

\* A step of the terminal thread.
LEMMA LoginTerminal == LoginInv /\ Terminal => LoginInv'
<1>. SUFFICES ASSUME LoginInv, Terminal PROVE LoginInv'
  OBVIOUS
<1>1. Elsewhere /\ (TerminalSteps \/ ChatEnds)
  BY DEF Terminal, Elsewhere, serverVars
<1>2. ASSUME NEW b \in BOOLEAN, EnterPassword(b) PROVE LoginInv'
  BY <1>1, <1>2, LoginEnterPassword
<1>3. ASSUME \/ WaitOver \/ WaitGivenUp \/ CheckRequired \/ CheckPassword \/ CheckBanned
             \/ CheckTaken \/ CheckFailed \/ ReadReason \/ ReadKickReason \/ JoinThread
             \/ ChatEnds
      PROVE  LoginInv'
  <2>1. NoCall
    BY <1>3 DEF WaitOver, WaitGivenUp, CheckRequired, CheckPassword, CheckBanned, CheckTaken,
                CheckFailed, ReadReason, ReadKickReason, JoinThread, ChatEnds
  <2>. QED BY <1>1, <1>3, <2>1, LoginLooks
<1>. QED BY <1>1, <1>2, <1>3, LoginCheckOk, LoginFinish DEF TerminalSteps

-----------------------------------------------------------------------------
(***************************************************************************)
(* The theorems.                                                           *)
(***************************************************************************)

\* A client that has just connected.
LEMMA LoginInit == Init => LoginInv
<1>. SUFFICES ASSUME Init PROVE LoginInv
  OBVIOUS
<1>1. /\ peer \in {"open", "locked", "old", "stranger"} /\ srv = "connected" /\ link = "up"
      /\ c2s = <<>> /\ flags = [f \in Flags |-> f = "connected"]
      /\ reason = "" /\ negotiated = FALSE /\ open = TRUE /\ reading = TRUE /\ writing = FALSE
      /\ queue = <<>> /\ posted = <<Send("Hello")>> /\ todo = <<>>
      /\ pc = "await_hello" /\ verdict = ""
  BY DEF Init
<1>2. \/ peer \in {"open", "locked"} /\ s2c = <<"Hello">>
      \/ peer = "old" /\ s2c = <<"OtherHello">>
      \/ peer = "stranger" /\ s2c = <<"Junk", "Text">>
  BY <1>1 DEF Init
<1>3. /\ flags \in [Flags -> BOOLEAN]
      /\ \A f \in Flags \ {"connected"} : ~flags[f]
  BY <1>1
<1>4. /\ \A x : ~Doing(x)
      /\ \A f, x : On(f, x) <=> flags[f]
      /\ (Greeted <=> negotiated) /\ (Live <=> reading)
  BY <1>1, IdleClient
<1>5. /\ ~Accepted /\ ~Resolved /\ ~Required /\ ~Decided /\ ~Failed /\ ~BannedOn /\ ~TakenOn
      /\ ~KickedOn /\ ~Greeted
  BY <1>1, <1>3, <1>4 DEF Accepted, Resolved, Required, Decided, Failed, BannedOn, TakenOn,
                         KickedOn, Flags
<1>6. Send("Hello") \in Posting /\ {"Hello", "OtherHello", "Junk", "Text"} \subseteq Frames
  BY DEF Posting, Requests, Frames
<1>7. posted \in Seq(Posting) /\ Els(posted) = {Send("Hello")}
  BY <1>1, <1>6, ElsOne
<1>8. /\ s2c \in Seq(Frames) /\ s2c # <<>>
      /\ peer \in {"open", "locked"} => Els(s2c) = {"Hello"} /\ Head(s2c) = "Hello"
      /\ peer \notin {"open", "locked"} => Els(s2c) \subseteq {"OtherHello", "Junk", "Text"}
  <2>1. CASE peer \in {"open", "locked"} /\ s2c = <<"Hello">>
    <3>1. <<"Hello">> \in Seq(Frames) /\ Els(<<"Hello">>) = {"Hello"}
      BY <1>6, ElsOne
    <3>. QED BY <2>1, <3>1
  <2>2. CASE peer = "old" /\ s2c = <<"OtherHello">>
    <3>1. <<"OtherHello">> \in Seq(Frames) /\ Els(<<"OtherHello">>) = {"OtherHello"}
      BY <1>6, ElsOne
    <3>. QED BY <2>2, <3>1
  <2>3. CASE peer = "stranger" /\ s2c = <<"Junk", "Text">>
    <3>1. <<"Junk", "Text">> \in Seq(Frames) /\ Els(<<"Junk", "Text">>) = {"Junk", "Text"}
      BY <1>6, ElsTwo
    <3>. QED BY <2>3, <3>1
  <2>. QED BY <1>2, <2>1, <2>2, <2>3
<1>9. Els(c2s) = {} /\ Els(queue) = {} /\ Els(todo) = {}
  BY <1>1, ElsEmpty
<1>10. Shapes
  BY <1>1, <1>3, <1>7, <1>8, ElsEmpty DEF Shapes, Servers
<1>11. \A f \in Requests : Up(f) => f = "Hello"
  <2>1. \A f : Send(f) = Send("Hello") => f = "Hello"
    BY StepsDiffer
  <2>. QED BY <1>4, <1>7, <1>9, <2>1 DEF Up
<1>12. \A f \in Requests : Solo(f)
  <2>1. \A x : Once(x, posted)
    <3>1. \A a : 1 .. Len(<<a>>) = {1}
      OBVIOUS
    <3>2. 1 .. Len(posted) = {1}
      BY <1>1, <3>1, Zenon
    <3>. QED BY <3>2 DEF Once
  <2>. QED BY <1>1, <1>4, <1>9, <2>1, ElsEmpty DEF Solo
<1>13. RequestInv
  BY <1>1, <1>5, <1>11, <1>12 DEF RequestInv, Requests
<1>14. ServerInv
  BY <1>1 DEF ServerInv, Closed, Past
<1>15. ReplyInv /\ VerdictInv
  BY <1>8 DEF ReplyInv, VerdictInv, Coming, Chatbox, Foreign
<1>16. HelloInv
  BY <1>5, <1>8 DEF HelloInv, Chatbox
<1>17. AuthInv
  BY <1>4, <1>5 DEF AuthInv
<1>18. StreamInv
  <2>1. CloseIt # Send("Hello")
    BY StepsDiffer
  <2>. QED BY <1>1, <1>4, <1>7, <2>1 DEF StreamInv
<1>19. OutcomeInv /\ KickInv
  BY <1>1, <1>3, <1>4, <1>5, ElsEmpty DEF OutcomeInv, KickInv, Flags
<1>20. TerminalInv /\ VerdictIsTrue
  BY <1>1 DEF TerminalInv, VerdictIsTrue
<1>. QED BY <1>10, <1>13, <1>14, <1>15, <1>16, <1>17, <1>18, <1>19, <1>20 DEF LoginInv

\* A step that changes nothing.
LEMMA LoginStutters == LoginInv /\ UNCHANGED vars => LoginInv'
<1>. SUFFICES ASSUME LoginInv, UNCHANGED vars PROVE LoginInv'
  OBVIOUS
<1>1. Elsewhere /\ flags' = flags /\ posted' = posted /\ pc' = pc /\ verdict' = verdict
  BY DEF vars, serverVars, streamVars, terminalVars, Elsewhere
<1>2. TerminalInv' /\ VerdictIsTrue'
  BY <1>1 DEF LoginInv, TerminalInv, VerdictIsTrue, Elsewhere
<1>. QED BY <1>1, <1>2, TerminalLooks

\* The invariant of the login holds in every state of both threads.
LEMMA LoginAlways == Spec => []LoginInv
<1>1. LoginInv /\ [Next]_vars => LoginInv'
  BY LoginServerReads, LoginKick, LoginLoseConnection, LoginReadDone, LoginReadFails,
     LoginWriteDone, LoginWriteFails, LoginRunPosted, LoginStep, LoginTerminal, LoginStutters
     DEF Next, Network
<1>. QED BY <1>1, LoginInit, PTL DEF Spec

\* What the login tells the user is what the server said: the chat opens only
\* after JoinAccepted, and a ban, a taken nickname, a rejection with its reason
\* and a wrong password are the server's (a connection lost during the password
\* prompt aside), however the flags of ChatClient are set and read.
THEOREM LoginTellsTheTruth == Spec => []VerdictIsTrue
<1>1. LoginInv => VerdictIsTrue
  BY DEF LoginInv
<1>. QED BY <1>1, LoginAlways, PTL

\* join_failure_reason_ and kick_reason_, which are not atomic, are never read
\* by the terminal thread while the network thread is about to assign them.
THEOREM ReasonsArePublished == Spec => []ReasonIsPublished
<1>1. LoginInv => ReasonIsPublished
  <2>. SUFFICES ASSUME LoginInv, pc \in {"reason", "kick_reason"}, todo # <<>>,
                       Head(todo).do = "reason"
                PROVE  FALSE
    BY DEF ReasonIsPublished
  <2>1. Shapes /\ ServerInv /\ AuthInv /\ OutcomeInv /\ KickInv /\ TerminalInv
    BY DEF LoginInv
  <2>2. Head(todo) \in Steps /\ Doing(Head(todo))
    BY <2>1, ElsTail DEF Shapes, Doing
  <2>3. PICK r \in Failures \cup {"rejected", "kicked"} : Head(todo) = Because(r)
    BY <2>2, StepKinds
  <2>4. Doing(Because(r))
    BY <2>2, <2>3
  <2>5. CASE pc = "reason"
    <3>1. srv = "rejected" /\ flags["auth_ok"] /\ flags["join_resolved"]
      BY <2>1, <2>5 DEF TerminalInv
    <3>2. Accepted
      BY <3>1 DEF Accepted, On
    <3>3. ~Doing(Because("rejected"))
      BY <2>1, <3>1, <3>2 DEF OutcomeInv, Details
    <3>. QED BY <2>1, <2>4, <3>1, <3>2, <3>3 DEF AuthInv, KickInv
  <2>6. CASE pc = "kick_reason"
    <3>1. flags["g_kicked"]
      BY <2>1, <2>6 DEF TerminalInv
    <3>2. srv = "kicked" /\ ~Doing(Because("kicked"))
      BY <2>1, <3>1 DEF KickInv, KickedOn, On
    <3>3. Accepted
      BY <2>1, <3>2 DEF ServerInv, Past
    <3>. QED BY <2>1, <2>4, <3>2, <3>3 DEF AuthInv, OutcomeInv
  <2>. QED BY <2>5, <2>6
<1>. QED BY <1>1, LoginAlways, PTL
=============================================================================
