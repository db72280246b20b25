-------------------------- MODULE ChatClientProofs --------------------------
(***************************************************************************)
(* The connection attempts of the client, for any number of them: types,   *)
(* no use of a destroyed ChatClient, one completion per attempt, the bound *)
(* on unasked attempts, and whose deadline a timeout is.                   *)
(***************************************************************************)
EXTENDS ChatClient, TLAPS

\* Where the loop is tells which object exists and whether it is connecting;
\* attempt_lifetime_ is set exactly while it is.
LoopInv ==
    /\ connecting <=> app = "connecting"
    /\ token = IF connecting THEN att ELSE 0
    /\ alive = IF app \in {"connecting", "drain", "online", "finish"} THEN {att} ELSE {}
    /\ app \in {"connecting", "drain", "online", "finish"} => att >= 1

\* An attempt that is in progress has one operation, that of its phase, and
\* as many deadlines were armed as there were phases; a read belongs to the
\* session that is open.
OpsInv ==
    /\ \A o \in ops : o.att <= att
    /\ connecting => \A o \in ops : o.att = att => o.kind = phase
    /\ \A o \in ops : o.kind = "read" => o.att = att /\ app \in {"online", "finish"}
    /\ connecting => /\ phase = "resolve" => gen = 1
                     /\ phase = "tcp" => gen = 2
                     /\ phase = "tls" => gen = 3

\* The attempts that the user did not ask for are counted by retries.
RetryInv ==
    /\ reconnecting => unasked <= retries
    /\ reconnecting /\ app = "start" => unasked < retries
    /\ app = "delay" => reconnecting /\ retries < MaxRetries
    /\ app = "finish" /\ reconnecting => retries < MaxRetries

Inv ==
    /\ TypeOK /\ LoopInv /\ OpsInv /\ RetryInv
    /\ NoUseAfterDestroy /\ CompletedOnce /\ RetryIsBounded

OpsType    == [kind : Phases \cup {"read"}, att : Attempts]
TimersType == [att : Attempts, gen : 1 .. 3, st : {"armed", "expired"}]

\* The first state satisfies Inv.
LEMMA InvInit ==
    ASSUME Init
    PROVE  Inv
<1>1. TypeOK
  <2>1. connecting \in BOOLEAN /\ connected \in BOOLEAN /\ reconnecting \in BOOLEAN
        /\ tls \in BOOLEAN /\ dangling \in BOOLEAN
    BY DEF Init
  <2>2. att \in 0 .. MaxAttempts /\ token \in 0 .. MaxAttempts /\ gen \in 0 .. 3
        /\ retries \in 0 .. MaxRetries /\ unasked \in Nat
        /\ completions \in [Attempts -> 0 .. 1]
    BY ClientAssumption DEF Init, MaxRetries
  <2>. QED BY <2>1, <2>2 DEF Init, TypeOK, Phases, Failures
<1>2. LoopInv /\ OpsInv
  BY DEF Init, LoopInv, OpsInv
<1>3. RetryInv /\ RetryIsBounded
  BY DEF Init, RetryInv, RetryIsBounded, MaxRetries
<1>4. NoUseAfterDestroy /\ CompletedOnce
  BY DEF Init, NoUseAfterDestroy, CompletedOnce, Attempts
<1>. QED BY <1>1, <1>2, <1>3, <1>4 DEF Inv

\* A handler that looks at its object finds it alive.
LEMMA UsesAlive ==
    ASSUME Inv, NEW a \in Attempts, Uses(a)
    PROVE  dangling' = FALSE
<1>1. a # 0
  BY DEF Attempts
<1>2. Looks(a) => a \in alive
  BY <1>1 DEF Looks, Inv, LoopInv
<1>. QED BY <1>2 DEF Uses, Inv, NoUseAfterDestroy, TypeOK

\* A handler that holds no expired token belongs to the attempt in progress.
LEMMA NotStale ==
    ASSUME Inv, NEW a \in Attempts, ~Stale(a)
    PROVE  connecting /\ a = att /\ app = "connecting" /\ att \in Attempts
BY DEF Stale, Inv, LoopInv

\* Handlers that find their attempt over, and timers, change nothing else.
LEMMA QuietStep ==
    ASSUME Inv, ops' \subseteq ops, timers' \subseteq TimersType, dangling' = FALSE,
           UNCHANGED <<keptVars, clientVars, token, completions, app>>
    PROVE  Inv'
<1>1. UNCHANGED <<att, alive, tls, retries, reconnecting, unasked, connecting, phase, gen,
                  failure, connected, token, completions, app>>
  BY DEF keptVars, clientVars
<1>2. TypeOK'
  BY <1>1 DEF Inv, TypeOK, TimersType
<1>3. LoopInv' /\ OpsInv'
  BY <1>1 DEF Inv, LoopInv, OpsInv
<1>4. RetryInv' /\ RetryIsBounded' /\ CompletedOnce'
  BY <1>1 DEF Inv, RetryInv, RetryIsBounded, CompletedOnce
<1>. QED BY <1>2, <1>3, <1>4 DEF Inv, NoUseAfterDestroy

\* finish_connect of the attempt in progress.
LEMMA FinishStep ==
    ASSUME Inv, connecting, NEW f \in Failures, FinishConnect(f),
           ops' \subseteq ops \cup (IF f = "None" THEN {Op("read", att)} ELSE {}),
           timers' \subseteq timers, dangling' = FALSE, UNCHANGED keptVars
    PROVE  Inv'
<1>1. /\ app = "connecting" /\ att \in Attempts /\ att \in 1 .. MaxAttempts
      /\ completions \in [Attempts -> 0 .. 1]
  BY DEF Inv, LoopInv, TypeOK, Attempts
<1>2. /\ connecting' = FALSE /\ token' = 0 /\ failure' = f /\ connected' = (f = "None")
      /\ completions' = [completions EXCEPT ![att] = completions[att] + 1]
      /\ app' = IF f = "None" THEN "online" ELSE "drain"
      /\ UNCHANGED <<phase, gen, att, alive, tls, retries, reconnecting, unasked>>
  BY DEF FinishConnect, keptVars
<1>3. completions[att] = 0
  BY <1>1 DEF Inv, CompletedOnce
<1>4. TypeOK'
  <2>1. completions' \in [Attempts -> 0 .. 1]
    BY <1>1, <1>2, <1>3
  <2>2. ops' \subseteq OpsType
    BY <1>1 DEF Inv, TypeOK, OpsType, Op
  <2>3. token' \in 0 .. MaxAttempts
    BY <1>2, ClientAssumption
  <2>4. connecting' \in BOOLEAN /\ connected' \in BOOLEAN
    BY <1>2
  <2>5. app' \in {"online", "drain"} /\ timers' \subseteq TimersType
    BY <1>2 DEF Inv, TypeOK, TimersType
  <2>. QED BY <1>2, <2>1, <2>2, <2>3, <2>4, <2>5 DEF Inv, TypeOK, OpsType, TimersType
<1>5. LoopInv'
  BY <1>1, <1>2 DEF Inv, LoopInv
<1>6. OpsInv'
  <2>1. ASSUME NEW o \in ops'
        PROVE  o.att <= att /\ (o.kind = "read" => o.att = att /\ app' = "online")
    <3>1. CASE o \in ops
      BY <1>1, <3>1 DEF Inv, OpsInv
    <3>2. CASE o = Op("read", att) /\ f = "None"
      BY <1>1, <1>2, <3>2 DEF Op
    <3>. QED BY <2>1, <3>1, <3>2
  <2>. QED BY <1>2, <2>1 DEF OpsInv
<1>7. RetryInv' /\ RetryIsBounded'
  BY <1>2 DEF Inv, RetryInv, RetryIsBounded
<1>8. CompletedOnce'
  <2>1. ASSUME NEW a \in Attempts
        PROVE  completions'[a] = IF a < att \/ a = att THEN 1 ELSE 0
    <3>1. CASE a = att
      BY <1>1, <1>2, <1>3, <3>1
    <3>2. CASE a # att
      <4>1. completions'[a] = completions[a]
        BY <1>1, <1>2, <3>2
      <4>. QED BY <3>2, <4>1 DEF Inv, CompletedOnce
    <3>. QED BY <3>1, <3>2
  <2>. QED BY <1>2, <2>1 DEF CompletedOnce
<1>. QED BY <1>4, <1>5, <1>6, <1>7, <1>8 DEF Inv, NoUseAfterDestroy

\* The attempt in progress enters its next phase.
LEMMA EnterStep ==
    ASSUME Inv, connecting, NEW p,
           \/ phase = "resolve" /\ p = "tcp"
           \/ phase = "tcp" /\ p = "tls",
           EnterPhase(p), dangling' = FALSE, UNCHANGED keptVars,
           ops' = (ops \ {Op(phase, att)}) \cup {Op(p, att)}
    PROVE  Inv'
<1>1. /\ app = "connecting" /\ att \in Attempts /\ att \in 1 .. MaxAttempts
      /\ gen + 1 \in 1 .. 3 /\ p \in Phases
  BY DEF Inv, LoopInv, OpsInv, TypeOK, Attempts, Phases
<1>2. /\ phase' = p /\ gen' = gen + 1 /\ timers' = Waits(att, gen + 1)
      /\ UNCHANGED <<token, connecting, failure, connected, completions, app>>
      /\ UNCHANGED <<att, alive, tls, retries, reconnecting, unasked>>
  BY DEF EnterPhase, keptVars
<1>3. TypeOK'
  <2>1. timers' \subseteq TimersType
    BY <1>1, <1>2 DEF Inv, TypeOK, TimersType, Waits
  <2>2. ops' \subseteq OpsType
    BY <1>1 DEF Inv, TypeOK, OpsType, Op
  <2>3. gen' \in 0 .. 3
    BY <1>1, <1>2
  <2>. QED BY <1>1, <1>2, <2>1, <2>2, <2>3 DEF Inv, TypeOK, OpsType, TimersType
<1>4. LoopInv' /\ CompletedOnce'
  BY <1>2 DEF Inv, LoopInv, CompletedOnce
<1>5. OpsInv'
  <2>1. ASSUME NEW o \in ops'
        PROVE  o.att <= att /\ (o.att = att => o.kind = p) /\ o.kind # "read"
    <3>1. CASE o = Op(p, att)
      BY <1>1, <3>1 DEF Op, Phases
    <3>2. CASE o \in ops /\ o # Op(phase, att)
      <4>1. o \in OpsType
        BY <3>2 DEF Inv, TypeOK, OpsType
      <4>2. o = [kind |-> o.kind, att |-> o.att]
        BY <4>1 DEF OpsType
      <4>3. o.att # att
        BY <3>2, <4>2 DEF Inv, OpsInv, Op
      <4>. QED BY <1>1, <3>2, <4>3 DEF Inv, OpsInv
    <3>. QED BY <2>1, <3>1, <3>2
  <2>2. /\ p = "tcp" => gen + 1 = 2
        /\ p = "tls" => gen + 1 = 3
        /\ p # "resolve"
    BY DEF Inv, OpsInv
  <2>. QED BY <1>2, <2>1, <2>2 DEF OpsInv
<1>6. RetryInv' /\ RetryIsBounded'
  BY <1>2 DEF Inv, RetryInv, RetryIsBounded
<1>. QED BY <1>3, <1>4, <1>5, <1>6 DEF Inv, NoUseAfterDestroy

\* The completion of resolve, connect and handshake, of whatever attempt.
LEMMA InvPhases ==
    ASSUME Inv, NEW a \in Attempts,
           \/ \E ok \in BOOLEAN : ResolveDone(a, ok)
           \/ \E f \in {"None", "Refused", "Network"} : TcpDone(a, f)
           \/ \E f \in {"None", "Tls"} : TlsDone(a, f)
    PROVE  Inv'
<1>1. dangling' = FALSE /\ UNCHANGED keptVars
  BY UsesAlive DEF ResolveDone, TcpDone, TlsDone
<1>2. NoWaits \subseteq timers /\ timers \subseteq TimersType
  BY DEF NoWaits, Inv, TypeOK, TimersType
<1>3. CASE Stale(a)
  <2>1. Nothing /\ ops' \subseteq ops
    BY <1>3 DEF ResolveDone, TcpDone, TlsDone
  <2>2. timers' \subseteq TimersType
    BY <1>2, <2>1 DEF Nothing
  <2>. QED BY <1>1, <2>1, <2>2, QuietStep DEF Nothing
<1>4. CASE ~Stale(a)
  <2>1. connecting /\ a = att
    BY <1>4, NotStale
  <2>2. ASSUME NEW ok \in BOOLEAN, ResolveDone(a, ok) PROVE Inv'
    <3>1. phase = "resolve"
      BY <2>1, <2>2 DEF ResolveDone, Inv, OpsInv, Op
    <3>2. CASE ok
      <4>1. EnterPhase("tcp") /\ ops' = (ops \ {Op(phase, att)}) \cup {Op("tcp", att)}
        BY <1>4, <2>1, <2>2, <3>1, <3>2 DEF ResolveDone
      <4>. QED BY <1>1, <2>1, <3>1, <4>1, EnterStep
    <3>3. CASE ~ok
      <4>1. FinishConnect("Dns") /\ timers' \subseteq timers /\ ops' \subseteq ops
        BY <1>2, <1>4, <2>2, <3>3 DEF ResolveDone
      <4>2. "Dns" \in Failures
        BY DEF Failures
      <4>. QED BY <1>1, <2>1, <4>1, <4>2, FinishStep
    <3>. QED BY <3>2, <3>3
  <2>3. ASSUME NEW f \in {"None", "Refused", "Network"}, TcpDone(a, f) PROVE Inv'
    <3>1. phase = "tcp" /\ f \in Failures
      BY <2>1, <2>3 DEF TcpDone, Inv, OpsInv, Op, Failures
    <3>2. CASE f = "None" /\ tls
      <4>1. EnterPhase("tls") /\ ops' = (ops \ {Op(phase, att)}) \cup {Op("tls", att)}
        BY <1>4, <2>1, <2>3, <3>1, <3>2 DEF TcpDone
      <4>. QED BY <1>1, <2>1, <3>1, <4>1, EnterStep
    <3>3. CASE f # "None" \/ ~tls
      <4>1. /\ FinishConnect(f) /\ timers' \subseteq timers
            /\ ops' \subseteq ops \cup (IF f = "None" THEN {Op("read", att)} ELSE {})
        BY <1>2, <1>4, <2>1, <2>3, <3>3 DEF TcpDone
      <4>. QED BY <1>1, <2>1, <3>1, <4>1, FinishStep
    <3>. QED BY <3>2, <3>3
  <2>4. ASSUME NEW f \in {"None", "Tls"}, TlsDone(a, f) PROVE Inv'
    <3>1. /\ FinishConnect(f) /\ timers' \subseteq timers /\ f \in Failures
          /\ ops' \subseteq ops \cup (IF f = "None" THEN {Op("read", att)} ELSE {})
      BY <1>2, <1>4, <2>1, <2>4 DEF TlsDone, Failures
    <3>. QED BY <1>1, <2>1, <3>1, FinishStep
  <2>. QED BY <2>2, <2>3, <2>4
<1>. QED BY <1>3, <1>4

\* A deadline expires, and its handler runs.
LEMMA InvTimers ==
    ASSUME Inv, NEW t \in timers, DeadlineFires(t) \/ TimerExpires(t)
    PROVE  Inv'
<1>1. t \in TimersType /\ t.att \in Attempts /\ timers \subseteq TimersType
  BY DEF Inv, TypeOK, TimersType
<1>2. CASE DeadlineFires(t)
  <2>1. dangling' = FALSE /\ UNCHANGED <<keptVars, ops>>
    BY <1>1, <1>2, UsesAlive DEF DeadlineFires
  <2>2. CASE token = t.att /\ connecting /\ CurrentGeneration(t)
    <3>1. FinishConnect("Timeout") /\ timers' \subseteq timers /\ ops' \subseteq ops
      BY <1>2, <2>1, <2>2 DEF DeadlineFires, NoWaits
    <3>2. "Timeout" \in Failures
      BY DEF Failures
    <3>. QED BY <2>1, <2>2, <3>1, <3>2, FinishStep
  <2>3. CASE ~(token = t.att /\ connecting /\ CurrentGeneration(t))
    <3>1. timers' \subseteq TimersType /\ UNCHANGED <<clientVars, token, completions, app>>
      BY <1>1, <1>2, <2>3 DEF DeadlineFires
    <3>. QED BY <2>1, <3>1, QuietStep
  <2>. QED BY <2>2, <2>3
<1>3. CASE TimerExpires(t)
  <2>1. [t EXCEPT !.st = "expired"] \in TimersType
    BY <1>1 DEF TimersType
  <2>2. timers' \subseteq TimersType /\ ops' \subseteq ops
    BY <1>1, <1>3, <2>1 DEF TimerExpires
  <2>3. dangling' = FALSE
    BY <1>3 DEF TimerExpires, Inv, NoUseAfterDestroy, TypeOK
  <2>. QED BY <1>3, <2>2, <2>3, QuietStep DEF TimerExpires, keptVars, loopVars
<1>. QED BY <1>2, <1>3

\* The read handler fails, on an object that is still there.
LEMMA InvRead ==
    ASSUME Inv, NEW a \in Attempts, ReadFails(a)
    PROVE  Inv'
<1>1. UNCHANGED <<tls, att, alive, token, connecting, phase, gen, failure, timers, app,
                  retries, reconnecting, completions, unasked>>
  BY DEF ReadFails, loopVars
<1>2. a \in alive
  BY DEF ReadFails, Op, Inv, LoopInv, OpsInv
<1>3. dangling' = FALSE
  BY <1>2 DEF ReadFails, Inv, NoUseAfterDestroy, TypeOK
<1>4. connected' = FALSE /\ ops' \subseteq ops
  BY DEF ReadFails
<1>5. TypeOK'
  BY <1>1, <1>3, <1>4 DEF Inv, TypeOK
<1>6. LoopInv' /\ OpsInv'
  BY <1>1, <1>4 DEF Inv, LoopInv, OpsInv
<1>7. RetryInv' /\ RetryIsBounded' /\ CompletedOnce'
  BY <1>1 DEF Inv, RetryInv, RetryIsBounded, CompletedOnce
<1>. QED BY <1>3, <1>5, <1>6, <1>7 DEF Inv, NoUseAfterDestroy

\* A new attempt, with an object and a token of its own.
LEMMA InvStart ==
    ASSUME Inv, StartAttempt
    PROVE  Inv'
<1>1. /\ ~connecting /\ token = 0 /\ alive = {} /\ app = "start"
      /\ att \in Nat /\ att + 1 \in 1 .. MaxAttempts /\ att + 1 \in Attempts
  BY ClientAssumption DEF StartAttempt, Inv, LoopInv, TypeOK, Attempts
<1>2. /\ att' = att + 1 /\ alive' = {att + 1} /\ token' = att + 1
      /\ connecting' = TRUE /\ failure' = "None" /\ connected' = FALSE
      /\ phase' = "resolve" /\ gen' = 1 /\ timers' = Waits(att + 1, 1)
      /\ ops' = ops \cup {Op("resolve", att + 1)} /\ app' = "connecting"
      /\ UNCHANGED <<tls, retries, reconnecting, completions, dangling>>
  BY <1>1 DEF StartAttempt
<1>3. unasked' = IF reconnecting THEN unasked + 1 ELSE 0
  BY DEF StartAttempt
<1>4. /\ unasked \in Nat /\ retries \in 0 .. MaxRetries
      /\ reconnecting => unasked < retries
  BY <1>1 DEF Inv, TypeOK, RetryInv
<1>5. unasked' \in Nat /\ (reconnecting => unasked' <= retries) /\ unasked' <= MaxRetries
  <2>1. CASE reconnecting
    BY <1>3, <1>4, <2>1 DEF MaxRetries
  <2>2. CASE ~reconnecting
    BY <1>3, <2>2 DEF MaxRetries
  <2>. QED BY <2>1, <2>2
<1>6. TypeOK'
  <2>1. timers' \subseteq TimersType
    BY <1>1, <1>2 DEF Waits, TimersType, Inv, TypeOK
  <2>2. ops' \subseteq OpsType
    BY <1>1, <1>2 DEF OpsType, Op, Inv, TypeOK, Phases
  <2>3. att' \in 0 .. MaxAttempts /\ token' \in 0 .. MaxAttempts /\ gen' \in 0 .. 3
        /\ alive' \subseteq Attempts
    BY <1>1, <1>2, ClientAssumption
  <2>. QED BY <1>2, <1>5, <2>1, <2>2, <2>3
           DEF Inv, TypeOK, OpsType, TimersType, Phases, Failures
<1>7. LoopInv'
  BY <1>1, <1>2 DEF LoopInv
<1>8. OpsInv'
  <2>1. ASSUME NEW o \in ops
        PROVE  o.att <= att /\ o.att \in Nat /\ o.kind # "read"
    BY <1>1 DEF Inv, TypeOK, OpsInv, Attempts
  <2>2. ASSUME NEW o \in ops'
        PROVE  /\ o.att <= att + 1 /\ o.kind # "read"
               /\ o.att = att + 1 => o.kind = "resolve"
    <3>1. CASE o \in ops
      BY <1>1, <2>1, <3>1
    <3>2. CASE o = Op("resolve", att + 1)
      BY <1>1, <3>2 DEF Op
    <3>. QED BY <1>2, <3>1, <3>2
  <2>. QED BY <1>2, <2>2 DEF OpsInv
<1>9. RetryInv' /\ RetryIsBounded'
  BY <1>2, <1>5 DEF RetryInv, RetryIsBounded
<1>10. CompletedOnce'
  <2>1. ASSUME NEW a \in Attempts
        PROVE  completions[a] = IF a < att + 1 THEN 1 ELSE 0
    <3>1. a \in Nat /\ (a < att + 1 <=> a < att \/ a = att)
      BY <1>1 DEF Attempts
    <3>. QED BY <1>1, <3>1 DEF Inv, CompletedOnce
  <2>. QED BY <1>2, <2>1 DEF CompletedOnce
<1>. QED BY <1>2, <1>6, <1>7, <1>8, <1>9, <1>10 DEF Inv, NoUseAfterDestroy

\* The other steps of the application's loop.
LEMMA InvLoop ==
    ASSUME Inv, Loop, ~StartAttempt
    PROVE  Inv'
<1>1. CASE Cancel
  <2>1. "Cancelled" \in Failures /\ dangling' = FALSE
    BY <1>1 DEF Failures, Cancel, Inv, NoUseAfterDestroy, TypeOK
  <2>2. connecting /\ FinishConnect("Cancelled") /\ timers' \subseteq timers
        /\ ops' \subseteq ops /\ UNCHANGED keptVars
    BY <1>1 DEF Cancel, NoWaits
  <2>. QED BY <2>1, <2>2, FinishStep
<1>2. CASE ~Cancel
  <2>1. /\ UNCHANGED <<att, token, connecting, phase, gen, failure, ops, timers, completions>>
        /\ UNCHANGED dangling
        /\ app \notin {"connecting", "start"} /\ app' # "connecting"
    BY <1>2 DEF Loop, ChooseServer, Delay, GiveUpAttempt, LeaveSession, LoseSession,
                EndSession, clientVars
  <2>2. /\ connected' \in BOOLEAN /\ reconnecting' \in BOOLEAN /\ tls' \in BOOLEAN
        /\ app' \in {"menu", "start", "delay", "finish"}
    BY <1>2, <2>1 DEF Loop, ChooseServer, Delay, GiveUpAttempt, LeaveSession, LoseSession,
                      EndSession, clientVars, Inv, TypeOK
  <2>3. alive' = IF app' = "finish" THEN {att} ELSE {}
    BY <1>2, <2>1 DEF Loop, ChooseServer, Delay, GiveUpAttempt, LeaveSession, LoseSession,
                      EndSession, Inv, LoopInv
  <2>4. \A o \in ops : o.kind = "read" => app' = "finish"
    BY <1>2, <2>1 DEF Loop, ChooseServer, Delay, GiveUpAttempt, LeaveSession, LoseSession,
                      EndSession, Inv, OpsInv, Drained
  <2>5. /\ retries' \in 0 .. MaxRetries
        /\ unasked' \in Nat /\ unasked' <= MaxRetries /\ RetryInv'
    <3>1. /\ retries \in 0 .. MaxRetries /\ unasked \in Nat /\ unasked <= MaxRetries
          /\ reconnecting \in BOOLEAN
      BY DEF Inv, TypeOK, RetryIsBounded
    <3>2. CASE ChooseServer
      BY <3>1, <3>2 DEF ChooseServer, RetryInv, MaxRetries
    <3>3. ASSUME NEW b \in BOOLEAN, Delay(b)
          PROVE  retries' \in 0 .. MaxRetries /\ unasked' = unasked /\ RetryInv'
      BY <3>1, <3>3 DEF Delay, Inv, RetryInv, MaxRetries
    <3>4. ASSUME NEW b \in BOOLEAN, GiveUpAttempt(b)
          PROVE  retries' \in 0 .. MaxRetries /\ unasked' = unasked /\ RetryInv'
      BY <3>1, <3>4 DEF GiveUpAttempt, RetriesItself, Inv, RetryInv, MaxRetries
    <3>5. CASE LeaveSession
      BY <3>1, <3>5 DEF LeaveSession, Inv, RetryInv, MaxRetries
    <3>6. CASE LoseSession
      BY <3>1, <3>6 DEF LoseSession, Inv, RetryInv, MaxRetries
    <3>7. CASE EndSession
      BY <3>1, <3>7 DEF EndSession, Inv, RetryInv, MaxRetries
    <3>. QED BY <1>2, <3>1, <3>2, <3>3, <3>4, <3>5, <3>6, <3>7 DEF Loop
  <2>6. TypeOK'
    <3>1. alive' \subseteq Attempts
      BY <1>2, <2>1 DEF Loop, ChooseServer, Delay, GiveUpAttempt, LeaveSession, LoseSession,
                        EndSession, Inv, TypeOK
    <3>. QED BY <2>1, <2>2, <2>5, <3>1 DEF Inv, TypeOK
  <2>7. LoopInv'
    <3>1. app' = "finish" => app = "online"
      BY <1>2, <2>1 DEF Loop, ChooseServer, Delay, GiveUpAttempt, LeaveSession, LoseSession,
                        EndSession
    <3>. QED BY <2>1, <2>2, <2>3, <3>1 DEF Inv, LoopInv
  <2>8. OpsInv' /\ CompletedOnce'
    BY <2>1, <2>4 DEF Inv, OpsInv, LoopInv, CompletedOnce
  <2>. QED BY <2>1, <2>5, <2>6, <2>7, <2>8 DEF Inv, NoUseAfterDestroy, RetryIsBounded
<1>. QED BY <1>1, <1>2

\* Every step keeps Inv.
LEMMA InvStep ==
    ASSUME Inv, [Next]_vars
    PROVE  Inv'
<1>1. CASE UNCHANGED vars
  <2>1. ops' \subseteq ops /\ timers' \subseteq TimersType /\ dangling' = FALSE
    BY <1>1 DEF vars, Inv, TypeOK, TimersType, NoUseAfterDestroy
  <2>. QED BY <1>1, <2>1, QuietStep DEF vars, keptVars, loopVars
<1>2. CASE Handler
  BY <1>2, InvPhases, InvRead, InvTimers DEF Handler
<1>3. CASE Loop
  BY <1>3, InvStart, InvLoop
<1>. QED BY <1>1, <1>2, <1>3, InvTimers DEF Next

\* The client's state is well typed; in particular retries never exceeds its
\* limit, and no attempt enters a fourth phase.
THEOREM ClientTypeCorrect == Spec => []TypeOK
<1>1. Inv => TypeOK
  BY DEF Inv
<1>. QED BY <1>1, InvInit, InvStep, PTL DEF Spec

\* No handler, however late, touches a ChatClient that was destroyed.
THEOREM NoHandlerOutlivesClient == Spec => []NoUseAfterDestroy
<1>1. Inv => NoUseAfterDestroy
  BY DEF Inv
<1>. QED BY <1>1, InvInit, InvStep, PTL DEF Spec

\* Every attempt but the one in progress has completed exactly once.
THEOREM AttemptsCompleteOnce == Spec => []CompletedOnce
<1>1. Inv => CompletedOnce
  BY DEF Inv
<1>. QED BY <1>1, InvInit, InvStep, PTL DEF Spec

\* No more than MaxRetries attempts in a row are made without the user, over
\* any number of lost connections and reconnections.
THEOREM RetriesAreBounded == Spec => []RetryIsBounded
<1>1. Inv => RetryIsBounded
  BY DEF Inv
<1>. QED BY <1>1, InvInit, InvStep, PTL DEF Spec

\* A step that fails an attempt for a timeout is the handler of the deadline
\* of its current phase.
LEMMA TimeoutStep ==
    ASSUME Inv, [Next]_vars, failure # "Timeout", failure' = "Timeout"
    PROVE  [att |-> att, gen |-> gen, st |-> "expired"] \in timers
<1>1. PICK t \in timers : DeadlineFires(t)
  <2>1. ASSUME NEW a \in Attempts
        PROVE  /\ \A ok \in BOOLEAN : ~ResolveDone(a, ok)
               /\ \A f \in {"None", "Refused", "Network"} : ~TcpDone(a, f)
               /\ \A f \in {"None", "Tls"} : ~TlsDone(a, f)
               /\ ~ReadFails(a)
    BY DEF ResolveDone, TcpDone, TlsDone, ReadFails, FinishConnect, EnterPhase, Nothing,
           clientVars
  <2>2. ~Loop
    BY DEF Loop, ChooseServer, StartAttempt, Cancel, Delay, GiveUpAttempt, LeaveSession,
           LoseSession, EndSession, FinishConnect, clientVars
  <2>3. \A t \in timers : ~TimerExpires(t)
    BY DEF TimerExpires, clientVars
  <2>. QED BY <2>1, <2>2, <2>3 DEF Next, Handler, vars, clientVars
<1>2. token = t.att /\ connecting /\ t.gen = gen /\ t.st = "expired"
  BY <1>1 DEF DeadlineFires, CurrentGeneration, clientVars
<1>3. t.att = att
  BY <1>2 DEF Inv, LoopInv
<1>4. t = [att |-> t.att, gen |-> t.gen, st |-> t.st]
  <2>1. t \in TimersType
    BY DEF Inv, TypeOK, TimersType
  <2>. QED BY <2>1 DEF TimersType
<1>. QED BY <1>2, <1>3, <1>4

\* A phase is failed for a timeout only by its own deadline, never by one of
\* an earlier phase or attempt that expired just before it was rearmed.
THEOREM TimeoutsAreOfTheirPhase == Spec => TimeoutIsOfThisPhase
<1>1. ASSUME Inv, [Next]_vars
      PROVE  [failure # "Timeout" /\ failure' = "Timeout"
                => [att |-> att, gen |-> gen, st |-> "expired"] \in timers]_vars
  BY <1>1, TimeoutStep
<1>. QED BY <1>1, InvInit, InvStep, PTL DEF Spec, TimeoutIsOfThisPhase
=============================================================================
