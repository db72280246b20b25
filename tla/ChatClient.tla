----------------------------- MODULE ChatClient -----------------------------
(***************************************************************************)
(* Connection attempts of ChatClient (chat_client.h) and the loop of the   *)
(* interactive application that makes, retries and ends them               *)
(* (interactive_app.cpp).  Every attempt has a ChatClient object of its    *)
(* own; all of them share one io_context, so that a completion of an       *)
(* attempt that was given up can be run while a later one is in progress.  *)
(* The connected session is reduced to its pending read.                   *)
(***************************************************************************)
EXTENDS Naturals, FiniteSets

CONSTANT MaxAttempts   \* bound: ChatClient objects

ASSUME ClientAssumption == MaxAttempts \in Nat

MaxRetries == 3

VARIABLES
    att,          \* number of the latest attempt, 0 before the first
    alive,        \* attempts whose ChatClient object exists
    token,        \* the attempt whose attempt_lifetime_ is set, or 0
    connecting,   \* connecting_ of the latest object
    phase,        \* connection_phase_ of the latest object
    gen,          \* deadline_generation_ of the latest object
    failure,      \* connection_failure_ of the latest object
    connected,    \* connected_ of the latest object
    ops,          \* operations whose handler has not run: [kind, att]
    timers,       \* deadline waits: [att, gen, st]
    app,          \* where the application's loop is
    retries,      \* retries
    reconnecting, \* reconnecting
    tls,          \* tls_config_.enabled, from the server's entry
    completions,  \* history: calls of the completed callback, per attempt
    unasked,      \* history: attempts in a row that the user did not ask for
    dangling      \* history: a handler has used an object that is gone

clientVars == <<connecting, phase, gen, failure, connected>>
loopVars   == <<app, retries, reconnecting>>
keptVars   == <<att, alive, tls, retries, reconnecting, unasked>>
vars == <<att, alive, tls, token, clientVars, ops, timers, loopVars, completions,
          unasked, dangling>>

Failures == {"None", "Dns", "Refused", "Timeout", "Tls", "Cancelled", "Network"}
Phases   == {"resolve", "tcp", "tls"}
Attempts == 1 .. MaxAttempts

Init ==
    /\ att = 0 /\ alive = {} /\ token = 0
    /\ connecting = FALSE /\ phase = "resolve" /\ gen = 0
    /\ failure = "None" /\ connected = FALSE
    /\ ops = {} /\ timers = {}
    /\ app = "menu" /\ retries = 0 /\ reconnecting = FALSE /\ tls = FALSE
    /\ completions = [a \in Attempts |-> 0]
    /\ unasked = 0 /\ dangling = FALSE

-----------------------------------------------------------------------------
Op(kind, a) == [kind |-> kind, att |-> a]

\* expires_after aborts the waits that have not expired; a wait that has is
\* already queued and its handler will see no error.
Waits(a, g) == {t \in timers : t.st = "expired"} \cup {[att |-> a, gen |-> g, st |-> "armed"]}
NoWaits     == {t \in timers : t.st = "expired"}

\* Mutant: the next phase is entered without arm_deadline.
EnterPhaseUnarmed(p) ==
    /\ phase' = p
    /\ gen' = gen + 1
    /\ timers' = NoWaits
    /\ UNCHANGED <<token, connecting, failure, connected, completions, app>>

\* arm_deadline for the next phase p, whose operation is started.
EnterPhase(p) ==
    /\ phase' = p
    /\ gen' = gen + 1
    /\ timers' = Waits(att, gen + 1)
    /\ UNCHANGED <<token, connecting, failure, connected, completions, app>>

\* finish_connect: the completed callback sends the loop on.
FinishConnect(f) ==
    /\ connecting' = FALSE
    /\ token' = 0
    /\ failure' = f
    /\ connected' = (f = "None")
    /\ completions' = [completions EXCEPT ![att] = @ + 1]
    /\ app' = IF f = "None" THEN "online" ELSE "drain"
    /\ UNCHANGED <<phase, gen>>

Nothing ==
    UNCHANGED <<clientVars, token, timers, completions, app>>

\* A handler looks at its object only when the token it holds has not expired.
LooksAlways(a) == TRUE                                     \* mutant
Looks(a) == token = a

NeverStale(a) == FALSE                                     \* mutant

\* lifetime.expired() || !connecting_
Stale(a) == token # a \/ ~connecting

Uses(a) == dangling' = (dangling \/ (Looks(a) /\ a \notin alive))

\* The io_context is run or polled in these states of the loop.
Polled == app \in {"connecting", "drain", "online", "finish"}

-----------------------------------------------------------------------------
\* async_connect, at the start of an attempt.
StartAttempt ==
    /\ app = "start" /\ att < MaxAttempts
    /\ att' = att + 1
    /\ alive' = alive \cup {att + 1}
    /\ token' = att + 1
    /\ connecting' = TRUE /\ failure' = "None" /\ connected' = FALSE
    /\ phase' = "resolve" /\ gen' = 1
    /\ timers' = Waits(att + 1, 1)
    /\ ops' = ops \cup {Op("resolve", att + 1)}
    /\ app' = "connecting"
    /\ unasked' = IF reconnecting THEN unasked + 1 ELSE 0
    /\ UNCHANGED <<tls, retries, reconnecting, completions, dangling>>

ResolveDone(a, ok) ==
    /\ Polled /\ Op("resolve", a) \in ops
    /\ Uses(a)
    /\ \/ Stale(a) /\ Nothing /\ ops' = ops \ {Op("resolve", a)}
       \/ /\ ~Stale(a) /\ ~ok
          /\ FinishConnect("Dns") /\ timers' = NoWaits /\ ops' = ops \ {Op("resolve", a)}
       \/ /\ ~Stale(a) /\ ok
          /\ EnterPhase("tcp")
          /\ ops' = (ops \ {Op("resolve", a)}) \cup {Op("tcp", a)}
    /\ UNCHANGED keptVars

TcpDone(a, f) ==
    /\ Polled /\ Op("tcp", a) \in ops
    /\ Uses(a)
    /\ \/ Stale(a) /\ Nothing /\ ops' = ops \ {Op("tcp", a)}
       \/ /\ ~Stale(a) /\ f # "None"
          /\ FinishConnect(f) /\ timers' = NoWaits /\ ops' = ops \ {Op("tcp", a)}
       \/ /\ ~Stale(a) /\ f = "None" /\ ~tls
          /\ FinishConnect("None") /\ timers' = NoWaits
          /\ ops' = (ops \ {Op("tcp", a)}) \cup {Op("read", a)}
       \/ /\ ~Stale(a) /\ f = "None" /\ tls
          /\ EnterPhase("tls")
          /\ ops' = (ops \ {Op("tcp", a)}) \cup {Op("tls", a)}
    /\ UNCHANGED keptVars

\* The handshake and verify_peer, with the outcomes it returns: that it throws,
\* because the directory of the trust store cannot be made, is left out.
TlsDone(a, f) ==
    /\ Polled /\ Op("tls", a) \in ops
    /\ Uses(a)
    /\ \/ Stale(a) /\ Nothing /\ ops' = ops \ {Op("tls", a)}
       \/ /\ ~Stale(a) /\ f # "None"
          /\ FinishConnect(f) /\ timers' = NoWaits /\ ops' = ops \ {Op("tls", a)}
       \/ /\ ~Stale(a) /\ f = "None"
          /\ FinishConnect("None") /\ timers' = NoWaits
          /\ ops' = (ops \ {Op("tls", a)}) \cup {Op("read", a)}
    /\ UNCHANGED keptVars

TimerExpires(t) ==
    /\ t \in timers /\ t.st = "armed"
    /\ timers' = (timers \ {t}) \cup {[t EXCEPT !.st = "expired"]}
    /\ UNCHANGED <<tls, att, alive, token, clientVars, ops, loopVars, completions,
                   unasked, dangling>>

AnyGeneration(t) == TRUE                                   \* mutant
CurrentGeneration(t) == t.gen = gen

\* The handler of an expired wait.
DeadlineFires(t) ==
    /\ Polled /\ t \in timers /\ t.st = "expired"
    /\ Uses(t.att)
    /\ IF token = t.att /\ connecting /\ CurrentGeneration(t)
       THEN FinishConnect("Timeout") /\ timers' = NoWaits \ {t}
       ELSE /\ timers' = timers \ {t}
            /\ UNCHANGED <<clientVars, token, completions, app>>
    /\ UNCHANGED <<keptVars, ops>>

\* Escape during the attempt: cancel_connect.
Cancel ==
    /\ app = "connecting" /\ connecting
    /\ FinishConnect("Cancelled") /\ timers' = NoWaits
    /\ UNCHANGED <<keptVars, ops, dangling>>

-----------------------------------------------------------------------------
\* The user picks a server.
ChooseServer ==
    /\ app = "menu"
    /\ app' = "start" /\ retries' = 0 /\ reconnecting' = FALSE
    /\ tls' \in BOOLEAN
    /\ UNCHANGED <<att, alive, token, clientVars, ops, timers, completions,
                   unasked, dangling>>

\* reconnect_delay: the user may press escape while it lasts.
Delay(escape) ==
    /\ app = "delay"
    /\ retries' = retries + 1
    /\ app' = IF escape THEN "menu" ELSE "start"
    /\ UNCHANGED <<tls, att, alive, token, clientVars, ops, timers, reconnecting,
                   completions, unasked, dangling>>

\* The poll after a failed attempt has run the handlers that were cancelled;
\* a resolver that is still busy has not produced one.
Drained == timers = {} /\ \A o \in ops : o.kind = "resolve"

RetryOnceMore ==                                           \* mutant
    /\ reconnecting /\ retries <= MaxRetries
    /\ failure \notin {"Tls", "Cancelled"}

RetriesItself ==
    /\ reconnecting /\ retries < MaxRetries
    /\ failure \notin {"Tls", "Cancelled"}

\* client.reset(), then another attempt, or the choice of the user.
GiveUpAttempt(again) ==
    /\ app = "drain" /\ Drained
    /\ alive' = alive \ {att}
    /\ IF RetriesItself
       THEN app' = "delay" /\ UNCHANGED <<retries, reconnecting>>
       ELSE IF again /\ failure # "Cancelled"
       THEN app' = "start" /\ retries' = 0 /\ reconnecting' = FALSE
       ELSE app' = "menu" /\ UNCHANGED <<retries, reconnecting>>
    /\ UNCHANGED <<tls, att, token, clientVars, ops, timers, completions, unasked,
                   dangling>>

\* The read handler fails: the server, the network or close() ended it.  It
\* holds no token.
ReadFails(a) ==
    /\ app \in {"online", "finish"} /\ Op("read", a) \in ops
    /\ ops' = ops \ {Op("read", a)}
    /\ connected' = FALSE
    /\ dangling' = (dangling \/ a \notin alive)
    /\ UNCHANGED <<tls, att, alive, token, connecting, phase, gen, failure, timers,
                   loopVars, completions, unasked>>

\* The login fails, or the user leaves, or the server kicked or banned.
LeaveSession ==
    /\ app = "online"
    /\ app' = "finish" /\ reconnecting' = FALSE
    /\ UNCHANGED <<tls, att, alive, token, clientVars, ops, timers, retries,
                   completions, unasked, dangling>>

\* The chat loop ends because the connection is gone.
LoseSession ==
    /\ app = "online" /\ ~connected
    /\ app' = "finish" /\ reconnecting' = TRUE /\ retries' = 0
    /\ unasked' = 0
    /\ UNCHANGED <<tls, att, alive, token, clientVars, ops, timers, completions,
                   dangling>>

\* close(), and network_thread.join() until the io_context is out of work;
\* then the object goes.
EndSession ==
    /\ app = "finish" /\ ops = {} /\ timers = {}
    /\ alive' = alive \ {att}
    /\ connected' = FALSE
    /\ app' = IF reconnecting THEN "delay" ELSE "menu"
    /\ UNCHANGED <<tls, att, token, connecting, phase, gen, failure, ops, timers,
                   retries, reconnecting, completions, unasked, dangling>>

-----------------------------------------------------------------------------
Handler ==
    \/ \E a \in Attempts : \/ \E ok \in BOOLEAN : ResolveDone(a, ok)
                           \/ \E f \in {"None", "Refused", "Network"} : TcpDone(a, f)
                           \/ \E f \in {"None", "Tls"} : TlsDone(a, f)
                           \/ ReadFails(a)
    \/ \E t \in timers : DeadlineFires(t)

Loop ==
    \/ ChooseServer \/ StartAttempt \/ Cancel
    \/ \E b \in BOOLEAN : Delay(b) \/ GiveUpAttempt(b)
    \/ LeaveSession \/ LoseSession \/ EndSession

Next == Handler \/ Loop \/ \E t \in timers : TimerExpires(t)

Spec == Init /\ [][Next]_vars

\* Time passes, so that an armed deadline expires, and the loop polls, so that
\* the handler of the deadline that counts is run.
CurrentDeadline == {t \in timers : t.att = att /\ t.gen = gen}
Fairness ==
    /\ WF_vars(\E t \in timers : TimerExpires(t))
    /\ WF_vars(\E t \in CurrentDeadline : DeadlineFires(t))

FairSpec == Spec /\ Fairness

-----------------------------------------------------------------------------
(***************************************************************************)
(* Properties.                                                             *)
(***************************************************************************)

\* Every variable has its type.
TypeOK ==
    /\ att \in 0 .. MaxAttempts /\ alive \subseteq Attempts
    /\ token \in 0 .. MaxAttempts
    /\ connecting \in BOOLEAN /\ phase \in Phases /\ gen \in 0 .. 3
    /\ failure \in Failures /\ connected \in BOOLEAN
    /\ ops \subseteq [kind : Phases \cup {"read"}, att : Attempts]
    /\ timers \subseteq [att : Attempts, gen : 1 .. 3, st : {"armed", "expired"}]
    /\ app \in {"menu", "start", "delay", "connecting", "drain", "online", "finish"}
    /\ retries \in 0 .. MaxRetries /\ reconnecting \in BOOLEAN /\ tls \in BOOLEAN
    /\ completions \in [Attempts -> 0 .. 1]
    /\ unasked \in Nat /\ dangling \in BOOLEAN

\* No handler touches a ChatClient that was destroyed: a late DNS answer finds
\* its token expired, and the reads, which hold none, are drained before.
NoUseAfterDestroy == ~dangling

\* The completed callback has been called exactly once for every attempt but
\* the one in progress, whatever deadlines, cancellations and late answers
\* there were; without it the loop would hang, twice would run it on a dead
\* stack frame.
CompletedOnce ==
    \A a \in Attempts :
        completions[a] = IF a < att \/ (a = att /\ ~connecting) THEN 1 ELSE 0

\* A phase is failed for a timeout only by its own deadline: a deadline of an
\* earlier phase that expired just before the phase ended does not count.
TimeoutIsOfThisPhase ==
    [][failure # "Timeout" /\ failure' = "Timeout"
         => [att |-> att, gen |-> gen, st |-> "expired"] \in timers]_vars

\* After a connection was lost, at most three attempts are made that the user
\* did not ask for, until one of them succeeds.
RetryIsBounded == unasked <= MaxRetries

\* An attempt ends: each phase has a deadline.
AttemptEnds == connecting ~> ~connecting
=============================================================================
