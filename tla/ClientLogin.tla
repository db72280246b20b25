---------------------------- MODULE ClientLogin ----------------------------
(***************************************************************************)
(* The login of a connected client: the handlers of ChatClient             *)
(* (chat_client.h), which run on the network thread and store what the     *)
(* server said in atomic flags, one at a time, and the terminal thread     *)
(* (interactive_app.cpp), which polls the flags with a time limit, sends   *)
(* the answers, and at the end closes the client and joins the network     *)
(* thread.  It begins where ChatClient ends an attempt: connected, with    *)
(* Hello posted and a read pending.                                        *)
(*                                                                         *)
(* The server is what ClientSession may answer; it may also be silent, be  *)
(* of another version, or be no chatbox server at all.  The connection may *)
(* be lost at any time, with the frames that were on their way.            *)
(***************************************************************************)
EXTENDS Sequences, Naturals

VARIABLES
    peer,       \* "open", "locked" (it has a password), "old" or "stranger"
    srv,        \* how far the server has let the client, or why not
    link,       \* "up", "fin" (the server has closed) or "down" (lost)
    s2c, c2s,   \* frames on their way
    flags,      \* the atomics of ChatClient, g_kicked (mark_kicked) among them
    reason,     \* join_failure_reason_, kick_reason_
    negotiated, \* protocol_negotiated_
    open,       \* the stream is open at this end
    reading,    \* a read is pending
    writing,    \* a write is pending
    queue,      \* write_queue_
    posted,     \* handlers posted to the io_context
    todo,       \* the steps the running handler has yet to take
    pc,         \* where the terminal thread is
    verdict     \* what the login told the user

serverVars   == <<peer, srv>>
streamVars   == <<open, reading, writing, queue, posted>>
terminalVars == <<pc, verdict>>
vars == <<serverVars, link, s2c, c2s, flags, reason, negotiated, streamVars, todo,
          terminalVars>>

Flags == {"connected", "closing", "auth_required", "auth_resolved", "auth_ok",
          "join_resolved", "join_failed", "banned", "nickname_taken", "kicked",
          "g_kicked"}

Send(frame) == [do |-> "send", arg |-> frame]
CloseIt     == [do |-> "close", arg |-> ""]

Init ==
    /\ peer \in {"open", "locked", "old", "stranger"} /\ srv = "connected" /\ link = "up"
    /\ s2c = CASE peer \in {"open", "locked"} -> <<"Hello">>
               [] peer = "old" -> <<"OtherHello">>
               [] OTHER -> <<"Junk", "Text">>
    /\ c2s = <<>>
    /\ flags = [f \in Flags |-> f = "connected"]
    /\ reason = "" /\ negotiated = FALSE
    /\ open = TRUE /\ reading = TRUE /\ writing = FALSE
    /\ queue = <<>> /\ posted = <<Send("Hello")>> /\ todo = <<>>
    /\ pc = "await_hello" /\ verdict = ""

-----------------------------------------------------------------------------
(***************************************************************************)
(* The server: ClientSession, and the ways it can fail.                    *)
(***************************************************************************)
\* It answers with a frame and goes on, or closes after it.
Answer(state, frames) == srv' = state /\ s2c' = s2c \o frames /\ link' = link
Refuse(state, frame)  == srv' = state /\ s2c' = Append(s2c, frame) /\ link' = "fin"

Refusals == \/ Refuse("rejected", "JoinRejected")
            \/ Refuse("banned", "Banned")
            \/ Refuse("taken", "NicknameTaken")

ServerReads ==
    /\ peer \in {"open", "locked"} /\ link = "up" /\ c2s # <<>>
    /\ c2s' = Tail(c2s)
    /\ CASE Head(c2s) = "Hello" ->
              Answer("greeted", <<IF peer = "locked" THEN "AuthRequired" ELSE "AuthAccepted">>)
         [] Head(c2s) = "Authenticate" ->
              \/ Answer("greeted", <<"AuthAccepted">>)
              \/ Refuse("wrong_password", "AuthRejected")
         [] Head(c2s) = "Identify" ->
              Answer("challenged", <<"Challenge">>) \/ Refusals
         [] Head(c2s) = "IdentityProof" ->
              Answer("joined", <<"IdentityAccepted", "JoinAccepted">>) \/ Refusals
    /\ UNCHANGED <<peer, flags, reason, negotiated, streamVars, todo, terminalVars>>

Kick ==
    /\ srv = "joined" /\ link = "up"
    /\ srv' = "kicked" /\ s2c' = Append(s2c, "Kick") /\ link' = "fin"
    /\ UNCHANGED <<peer, c2s, flags, reason, negotiated, streamVars, todo, terminalVars>>

\* The connection is lost, and with it a part of what was on its way.
LoseConnection ==
    /\ link # "down" /\ link' = "down"
    /\ \E n \in 0 .. Len(s2c) : s2c' = SubSeq(s2c, 1, n)
    /\ UNCHANGED <<serverVars, c2s, flags, reason, negotiated, streamVars, todo,
                   terminalVars>>

-----------------------------------------------------------------------------
(***************************************************************************)
(* The network thread.  A handler is a sequence of steps.                  *)
(***************************************************************************)
Set(f, b)    == [do |-> "set", arg |-> f, val |-> b]
Because(r)   == [do |-> "reason", arg |-> r]
Negotiated   == [do |-> "negotiated", arg |-> ""]
Shut         == [do |-> "shut", arg |-> ""]
ReadOn       == [do |-> "read", arg |-> ""]
Call(step)   == [do |-> "call", arg |-> step]

\* The order in which a failure of the handshake is told.
HandshakeFailed(r) ==
    <<Set("auth_ok", FALSE), Set("auth_resolved", TRUE), Set("join_failed", TRUE),
      Because(r), Set("join_resolved", TRUE)>>

\* A read that failed.
OnError(closing, resolved) ==
    <<Set("connected", FALSE), Shut>>
    \o (IF ~closing /\ ~resolved THEN HandshakeFailed("connection closed") ELSE <<>>)

OnBannedEarly == <<Set("join_resolved", TRUE), Set("banned", TRUE)>>     \* mutant
OnBanned      == <<Set("banned", TRUE), Set("join_resolved", TRUE)>>

OnKickEarly == <<Set("kicked", TRUE), Set("g_kicked", TRUE), Because("kicked")>> \* mutant
OnKick      == <<Set("kicked", TRUE), Because("kicked"), Set("g_kicked", TRUE)>>

OnRejected == <<Set("join_failed", TRUE), Because("rejected"), Set("join_resolved", TRUE)>>

\* A frame that was read.
OnFrame(frame) ==
    CASE frame = "Junk" -> <<ReadOn>>
      [] frame = "OtherHello" -> Append(HandshakeFailed("version"), Call(CloseIt))
      [] frame = "Hello" -> <<Negotiated, ReadOn>>
      [] frame \notin {"Junk", "OtherHello", "Hello"} /\ ~negotiated ->
            Append(HandshakeFailed("no handshake"), Call(CloseIt))
      [] OTHER -> Append(
            CASE frame = "AuthRequired"  -> <<Set("auth_required", TRUE)>>
              [] frame = "AuthAccepted"  -> <<Set("auth_ok", TRUE), Set("auth_resolved", TRUE)>>
              [] frame = "AuthRejected"  -> <<Set("auth_ok", FALSE), Set("auth_resolved", TRUE)>>
              [] frame = "Challenge"     -> <<Call(Send("IdentityProof"))>>
              [] frame = "JoinAccepted"  -> <<Set("join_resolved", TRUE)>>
              [] frame = "JoinRejected"  -> OnRejected
              [] frame = "Banned"        -> OnBanned
              [] frame = "NicknameTaken" -> <<Set("nickname_taken", TRUE), Set("join_resolved", TRUE)>>
              [] frame = "Kick"          -> OnKick
              [] frame = "IdentityAccepted" -> <<>>, ReadOn)

\* A line may have been read into the buffer before the stream was closed.
ReadDone ==
    /\ todo = <<>> /\ reading /\ s2c # <<>>
    /\ s2c' = Tail(s2c) /\ reading' = FALSE
    /\ todo' = OnFrame(Head(s2c))
    /\ UNCHANGED <<serverVars, link, c2s, flags, reason, negotiated, open, writing,
                   queue, posted, terminalVars>>

ReadFails ==
    /\ todo = <<>> /\ reading
    /\ ~open \/ (link # "up" /\ s2c = <<>>)
    /\ reading' = FALSE
    /\ todo' = OnError(flags["closing"], flags["auth_resolved"])
    /\ UNCHANGED <<serverVars, link, s2c, c2s, flags, reason, negotiated, open, writing,
                   queue, posted, terminalVars>>

\* write_next
WriteDone ==
    /\ todo = <<>> /\ writing /\ open /\ link # "down"
    /\ c2s' = Append(c2s, Head(queue))
    /\ queue' = Tail(queue)
    /\ writing' = (Len(queue) > 1)
    /\ UNCHANGED <<serverVars, link, s2c, flags, reason, negotiated, open, reading,
                   posted, todo, terminalVars>>

WriteFails ==
    /\ todo = <<>> /\ writing /\ (~open \/ link # "up")
    /\ writing' = FALSE
    /\ todo' = <<Set("connected", FALSE), Shut>>
    /\ UNCHANGED <<serverVars, link, s2c, c2s, flags, reason, negotiated, open, reading,
                   queue, posted, terminalVars>>

CloseForgotten == <<Set("connected", FALSE)>>              \* mutant
ClosePosted    == <<Set("connected", FALSE), Shut>>

\* A posted handler: that of send, or that of close.
RunPosted ==
    /\ todo = <<>> /\ posted # <<>>
    /\ posted' = Tail(posted)
    /\ LET h == Head(posted) IN
       \/ /\ h.do = "close"
          /\ todo' = ClosePosted /\ UNCHANGED <<queue, writing>>
       \/ /\ h.do = "send" /\ (~flags["connected"] \/ flags["closing"])
          /\ UNCHANGED <<todo, queue, writing>>
       \/ /\ h.do = "send" /\ flags["connected"] /\ ~flags["closing"]
          /\ queue' = Append(queue, h.arg)
          /\ writing' = (writing \/ queue = <<>>)
          /\ UNCHANGED todo
    /\ UNCHANGED <<serverVars, link, s2c, c2s, flags, reason, negotiated, open, reading,
                   terminalVars>>

\* What send and close do on the thread that calls them.
SetClosing(h) == IF h.do = "close" THEN [flags EXCEPT !["closing"] = TRUE] ELSE flags
Posts(h) == IF h.do = "close" \/ (flags["connected"] /\ ~flags["closing"])
            THEN Append(posted, h) ELSE posted

\* The next step of the running handler.
Step ==
    /\ todo # <<>> /\ todo' = Tail(todo)
    /\ LET s == Head(todo) IN
       /\ flags'  = CASE s.do = "set"  -> [flags EXCEPT ![s.arg] = s.val]
                      [] s.do = "call" -> SetClosing(s.arg)
                      [] OTHER -> flags
       /\ posted' = IF s.do = "call" THEN Posts(s.arg) ELSE posted
       /\ reason' = IF s.do = "reason" THEN s.arg ELSE reason
       /\ negotiated' = (negotiated \/ s.do = "negotiated")
       /\ open'    = (open /\ s.do # "shut")
       /\ reading' = (reading \/ s.do = "read")
    /\ UNCHANGED <<serverVars, link, s2c, c2s, writing, queue, terminalVars>>

Network == ReadDone \/ ReadFails \/ WriteDone \/ WriteFails \/ RunPosted \/ Step

-----------------------------------------------------------------------------
(***************************************************************************)
(* The terminal thread: join_client_session, the chat loop and finish.     *)
(***************************************************************************)
Goto(l) == pc' = l /\ verdict' = verdict
Tell(v) == pc' = (IF v = "joined" THEN "chat" ELSE "finish") /\ verdict' = v
NoCall  == UNCHANGED <<flags, posted>>
Calls(h) == flags' = SetClosing(h) /\ posted' = Posts(h)

\* What wait_for_session waits for.
Ready == CASE pc = "await_hello" -> flags["auth_required"] \/ flags["auth_resolved"]
           [] pc = "await_auth"  -> flags["auth_resolved"]
           [] pc = "await_join"  -> flags["join_resolved"]
           [] OTHER -> FALSE

Waiting == pc \in {"await_hello", "await_auth", "await_join"}

WaitOver ==
    /\ Waiting /\ Ready
    /\ Goto(CASE pc = "await_hello" -> "required?"
              [] pc = "await_auth"  -> "password?"
              [] pc = "await_join"  -> "banned?")
    /\ NoCall

\* Escape, or the five seconds are over and the flag is still not set.
WaitGivenUp == Waiting /\ ~Ready /\ Tell("gave up") /\ NoCall

\* The flags are read one after the other.
CheckRequired ==
    /\ pc = "required?"
    /\ Goto(IF flags["auth_required"] THEN "prompt" ELSE "ok?") /\ NoCall

EnterPassword(cancelled) ==
    /\ pc = "prompt"
    /\ IF cancelled THEN Tell("gave up") /\ NoCall
       ELSE Goto("await_auth") /\ Calls(Send("Authenticate"))

CheckPassword ==
    /\ pc = "password?" /\ NoCall
    /\ IF flags["auth_ok"] THEN Goto("ok?") ELSE Tell("wrong password")

\* auth_ok, then identify.
CheckOk ==
    /\ pc = "ok?"
    /\ IF flags["auth_ok"] THEN Goto("await_join") /\ Calls(Send("Identify"))
       ELSE Tell("no handshake") /\ NoCall

CheckBanned ==
    /\ pc = "banned?" /\ NoCall
    /\ IF flags["banned"] THEN Tell("banned") ELSE Goto("taken?")

CheckTaken ==
    /\ pc = "taken?" /\ NoCall
    /\ IF flags["nickname_taken"] THEN Tell("taken") ELSE Goto("failed?")

CheckFailed ==
    /\ pc = "failed?" /\ NoCall
    /\ IF flags["join_failed"] THEN Goto("reason") ELSE Tell("joined")

ReadReason == pc = "reason" /\ NoCall /\ Tell(reason)

\* The chat loop: the user leaves, or the session has ended.
ChatEnds ==
    /\ pc = "chat" /\ NoCall
    /\ \/ Goto("finish")
       \/ ~flags["connected"] /\ Goto("finish")
       \/ flags["g_kicked"] /\ Goto("kick_reason")

ReadKickReason == pc = "kick_reason" /\ NoCall /\ Goto("finish")

\* finish: close(), then network_thread.join(), which returns when the
\* io_context has no work left.
Finish == pc = "finish" /\ Goto("join") /\ Calls(CloseIt)

JoinThread ==
    /\ pc = "join" /\ todo = <<>> /\ posted = <<>> /\ ~reading /\ ~writing
    /\ Goto("done") /\ NoCall

TerminalSteps ==
    \/ WaitOver \/ CheckRequired \/ CheckPassword \/ CheckOk \/ CheckBanned
    \/ CheckTaken \/ CheckFailed \/ ReadReason \/ ReadKickReason \/ Finish
    \/ JoinThread \/ WaitGivenUp \/ \E b \in BOOLEAN : EnterPassword(b)

Terminal ==
    /\ TerminalSteps \/ ChatEnds
    /\ UNCHANGED <<serverVars, link, s2c, c2s, reason, negotiated, open, reading,
                   writing, queue, todo>>

Next == ServerReads \/ Kick \/ LoseConnection \/ Network \/ Terminal

Spec == Init /\ [][Next]_vars

\* Both threads run; time passes, so that a wait ends; the user answers the
\* prompt.  Nothing is assumed of the server, the network, or of how long the
\* user chats.
Fairness ==
    /\ WF_vars(Network)
    /\ WF_vars(Terminal /\ pc # "chat")

FairSpec == Spec /\ Fairness

-----------------------------------------------------------------------------
(***************************************************************************)
(* Properties.                                                             *)
(***************************************************************************)

\* What the user is told is what the server said, although the flags are set
\* and read one at a time by two threads: the chat opens only after
\* JoinAccepted, a ban or a taken nickname is reported only if the server sent
\* it, and the reason shown is the server's.  A connection that was lost
\* during the password prompt is reported as a wrong password, too.
VerdictIsTrue ==
    /\ verdict = "joined"   => srv \in {"joined", "kicked"}
    /\ verdict = "banned"   => srv = "banned"
    /\ verdict = "taken"    => srv = "taken"
    /\ verdict = "rejected" => srv = "rejected"
    /\ verdict = "wrong password" => srv = "wrong_password" \/ link = "down"
    /\ verdict \notin {"connection closed", "version"}

\* The strings with the reasons are not atomic: the terminal thread never reads
\* one while the network thread is about to assign it.
ReasonIsPublished ==
    pc \in {"reason", "kick_reason"} => todo = <<>> \/ Head(todo).do # "reason"

\* A login always ends, in the chat or with the network thread joined: each
\* wait has a limit, and close() leaves no operation pending that would keep
\* the io_context busy, whatever the server does.
LoginReturns == pc \notin {"chat", "done"} ~> pc \in {"chat", "done"}
=============================================================================
