------------------------- MODULE NetworkTaskProofs --------------------------
(***************************************************************************)
(* What run_network_task and verify_peer guarantee about certificates, for *)
(* any number of tasks, renewals and fingerprints: a request goes only to  *)
(* a server somebody vouches for, and trust is replaced only by a decision *)
(* of the user, who was shown what is replaced.                            *)
(***************************************************************************)
EXTENDS NetworkTask, TLAPS

Places == {"none", "connect", "read", "review", "test", "wait", "asleep", "decide",
           "save", "request", "end", "over"}

TaskState ==
    [pc : Places, interactive : BOOLEAN, pin : Certs \cup {Absent},
     cert : Certs \cup {Absent}, valid : BOOLEAN, previous : Certs \cup {Absent},
     decision : BOOLEAN, answer : {"none", "yes", "no"},
     cancelled : BOOLEAN, done : BOOLEAN, agreed : BOOLEAN, passed : BOOLEAN]

TypeOK ==
    /\ store \in Certs \cup {Absent} /\ legacy \in Certs \cup {Absent}
    /\ tasks \in [Tasks -> TaskState]
    /\ ui \in {"menu", "polling", "asking"}
    /\ ui # "menu" => current \in Tasks

\* The terminal thread is in run_network_task for w.
Attended(w) == ui # "menu" /\ current = w

\* The terminal thread attends only to a task that was started and that it has
\* not given up; a task that was not started was not given up.
AttendsLive ==
    \A w \in Tasks :
        /\ Attended(w) => ~tasks[w].cancelled /\ tasks[w].pc # "none"
        /\ tasks[w].pc = "none" => ~tasks[w].cancelled

\* The question of a task that was not given up is in one place at a time:
\* left for the terminal, on the screen, or answered and not yet read; and the
\* worker has not gone past the wait.
AskedOnce ==
    \A w \in Tasks :
        /\ tasks[w].decision /\ ~tasks[w].cancelled
              => tasks[w].pc \in {"test", "wait", "asleep"} /\ tasks[w].answer = "none"
        /\ Attended(w) /\ ui = "asking"
              => /\ tasks[w].pc \in {"test", "wait", "asleep"}
                 /\ tasks[w].answer = "none" /\ ~tasks[w].decision
        /\ tasks[w].answer # "none" => tasks[w].pc \in {"test", "decide"}
        /\ tasks[w].pc = "decide" => tasks[w].answer # "none" \/ tasks[w].cancelled

\* A yes that a worker finds, and the saving that follows it, are the user's.
AnswersAreReal ==
    \A w \in Tasks : tasks[w].answer = "yes" \/ tasks[w].pc = "save" => tasks[w].agreed

\* A task that has passed verify_peer is past it.
PassedIsPast ==
    \A w \in Tasks : tasks[w].passed => tasks[w].pc \in {"request", "end", "over"}

Inv ==
    /\ TypeOK /\ AttendsLive /\ AskedOnce /\ AnswersAreReal /\ PassedIsPast
    /\ NoUnreviewedRequest

\* The first state satisfies Inv.
LEMMA InvInit ==
    ASSUME Init
    PROVE  Inv
<1>1. NewTask \in TaskState
  BY DEF NewTask, TaskState, Places
<1>. QED BY <1>1, TaskAssumption
         DEF Init, Inv, TypeOK, AttendsLive, AskedOnce, AnswersAreReal, PassedIsPast,
             NoUnreviewedRequest, Attended, NewTask

\* What three of the steps leave in a task's State.
LEMMA TaskUpdates ==
    ASSUME NEW t \in TaskState, NEW l \in Places
    PROVE  /\ \A c \in Certs, b \in BOOLEAN :
                 [t EXCEPT !.pc = l, !.cert = c, !.valid = b] \in TaskState
           /\ \A a \in {"yes", "no"}, b \in BOOLEAN :
                 [t EXCEPT !.answer = a, !.agreed = b, !.pc = l] \in TaskState
           /\ [t EXCEPT !.cancelled = TRUE, !.pc = l] \in TaskState
<1>1. ASSUME NEW c \in Certs, NEW b \in BOOLEAN
      PROVE  [t EXCEPT !.pc = l, !.cert = c, !.valid = b] \in TaskState
  BY DEF TaskState
<1>2. ASSUME NEW a \in {"yes", "no"}, NEW b \in BOOLEAN
      PROVE  [t EXCEPT !.answer = a, !.agreed = b, !.pc = l] \in TaskState
  BY DEF TaskState
<1>3. [t EXCEPT !.cancelled = TRUE, !.pc = l] \in TaskState
  BY DEF TaskState
<1>. QED BY <1>1, <1>2, <1>3

\* Connect presents a certificate to a task that has passed nothing yet.
LEMMA InvConnect ==
    ASSUME Inv, NEW w \in Tasks, Connect(w)
    PROVE  Inv'
<1>. USE DEF Inv, TypeOK, TaskState, Places
<1>1. CASE Fail(w) /\ UNCHANGED <<store, legacy, ui, current, polls>>
  BY <1>1 DEF Connect, At, Fail, AttendsLive, Attended, AskedOnce, AnswersAreReal,
              PassedIsPast, NoUnreviewedRequest
<1>2. ASSUME NEW c \in Certs, NEW v \in BOOLEAN, At(w, "connect"),
             tasks' = [tasks EXCEPT ![w].pc = "read", ![w].cert = c, ![w].valid = v],
             UNCHANGED <<store, legacy, ui, current, polls>>
      PROVE  Inv'
  <2>1. TypeOK'
    <3>1. [tasks[w] EXCEPT !.pc = "read", !.cert = c, !.valid = v] \in TaskState
      <4>1. tasks[w] \in TaskState /\ "read" \in Places
        OBVIOUS
      <4>. HIDE DEF TaskState, Places
      <4>. QED BY <1>2, <4>1, TaskUpdates
    <3>. QED BY <1>2, <3>1 DEF TypeOK
  <2>2. AttendsLive'
    BY <1>2 DEF AttendsLive, Attended
  <2>3. AskedOnce'
    BY <1>2 DEF AskedOnce, Attended, At
  <2>4. AnswersAreReal' /\ PassedIsPast'
    BY <1>2 DEF AnswersAreReal, PassedIsPast, At
  <2>5. NoUnreviewedRequest'
    BY <1>2 DEF NoUnreviewedRequest, PassedIsPast, At
  <2>. QED BY <2>1, <2>2, <2>3, <2>4, <2>5
<1>. QED BY <1>1, <1>2 DEF Connect

\* verify_peer lets a task pass only for a fingerprint that is vouched for.
LEMMA InvReadTrust ==
    ASSUME Inv, NEW w \in Tasks, NEW b \in BOOLEAN, ReadTrust(w, b)
    PROVE  Inv'
<1>. USE DEF Inv, TypeOK, TaskState, Places, At, Goto, Fail
<1>1. TypeOK'
  BY DEF ReadTrust, Merged, Trusted, Changed
<1>2. AttendsLive'
  BY DEF AttendsLive, Attended, ReadTrust, Merged, Trusted, Changed
<1>3. AskedOnce'
  BY DEF AskedOnce, AttendsLive, Attended, ReadTrust, Merged, Trusted, Changed
<1>4. AnswersAreReal'
  BY DEF AnswersAreReal, AskedOnce, AttendsLive, Attended, ReadTrust, Merged, Trusted, Changed
<1>5. PassedIsPast'
  BY DEF PassedIsPast, AttendsLive, AskedOnce, Attended, ReadTrust, Merged, Trusted, Changed
<1>6. NoUnreviewedRequest'
  BY DEF NoUnreviewedRequest, PassedIsPast, AnswersAreReal, AttendsLive, AskedOnce,
         Attended, ReadTrust, Merged, Trusted, Changed
<1>. QED BY <1>1, <1>2, <1>3, <1>4, <1>5, <1>6

\* A question is left for the terminal only by a task that was not given up.
LEMMA InvReview ==
    ASSUME Inv, NEW w \in Tasks, Review(w)
    PROVE  Inv'
<1>. USE DEF Inv, TypeOK, TaskState, Places, At, Goto, Fail
<1>1. TypeOK'
  BY DEF Review
<1>2. AttendsLive'
  BY DEF AttendsLive, Attended, Review
<1>3. AskedOnce'
  BY DEF AskedOnce, AttendsLive, Attended, Review
<1>4. AnswersAreReal'
  BY DEF AnswersAreReal, AskedOnce, AttendsLive, Attended, Review
<1>5. PassedIsPast'
  BY DEF PassedIsPast, AttendsLive, AskedOnce, Attended, Review
<1>6. NoUnreviewedRequest'
  BY DEF NoUnreviewedRequest, PassedIsPast, AnswersAreReal, AttendsLive, AskedOnce,
         Attended, Review
<1>. QED BY <1>1, <1>2, <1>3, <1>4, <1>5, <1>6

\* The wait ends with an answer or with the task given up.
LEMMA InvTestWait ==
    ASSUME Inv, NEW w \in Tasks, TestWait(w)
    PROVE  Inv'
BY DEF Inv, TypeOK, TaskState, Places, AttendsLive, AskedOnce, AnswersAreReal,
             PassedIsPast, NoUnreviewedRequest, Attended, NewTask, At, Goto, Fail, TestWait

\* Sleeping changes no question.
LEMMA InvFallAsleep ==
    ASSUME Inv, NEW w \in Tasks, FallAsleep(w)
    PROVE  Inv'
BY DEF Inv, TypeOK, TaskState, Places, AttendsLive, AskedOnce, AnswersAreReal,
             PassedIsPast, NoUnreviewedRequest, Attended, NewTask, At, Goto, Fail, FallAsleep

\* Only a yes of the user leads on to saving.
LEMMA InvDecide ==
    ASSUME Inv, NEW w \in Tasks, Decide(w)
    PROVE  Inv'
BY DEF Inv, TypeOK, TaskState, Places, AttendsLive, AskedOnce, AnswersAreReal,
             PassedIsPast, NoUnreviewedRequest, Attended, NewTask, At, Goto, Fail, Decide, Accepted

\* A task that saves passes by its user's decision.
LEMMA InvSaveTrust ==
    ASSUME Inv, NEW w \in Tasks, NEW b \in BOOLEAN, SaveTrust(w, b)
    PROVE  Inv'
<1>. USE DEF Inv, TypeOK, TaskState, Places, At, Goto, Fail
<1>1. TypeOK'
  BY DEF SaveTrust
<1>2. AttendsLive'
  BY DEF AttendsLive, Attended, SaveTrust
<1>3. AskedOnce'
  BY DEF AskedOnce, AttendsLive, Attended, SaveTrust
<1>4. AnswersAreReal'
  BY DEF AnswersAreReal, AskedOnce, AttendsLive, Attended, SaveTrust
<1>5. PassedIsPast'
  BY DEF PassedIsPast, AttendsLive, AskedOnce, Attended, SaveTrust
<1>6. NoUnreviewedRequest'
  BY DEF NoUnreviewedRequest, PassedIsPast, AnswersAreReal, AttendsLive, AskedOnce,
         Attended, SaveTrust
<1>. QED BY <1>1, <1>2, <1>3, <1>4, <1>5, <1>6

\* The end of a task changes nothing that was decided.
LEMMA InvFinish ==
    ASSUME Inv, NEW w \in Tasks, Exchange(w) \/ End(w)
    PROVE  Inv'
<1>. USE DEF Inv, TypeOK, TaskState, Places, At, Goto, Fail
<1>1. TypeOK'
  BY DEF Exchange, End
<1>2. AttendsLive'
  BY DEF AttendsLive, Attended, Exchange, End
<1>3. AskedOnce'
  BY DEF AskedOnce, AttendsLive, Attended, Exchange, End
<1>4. AnswersAreReal'
  BY DEF AnswersAreReal, AskedOnce, AttendsLive, Attended, Exchange, End
<1>5. PassedIsPast'
  BY DEF PassedIsPast, AttendsLive, AskedOnce, Attended, Exchange, End
<1>6. NoUnreviewedRequest'
  BY DEF NoUnreviewedRequest, PassedIsPast, AnswersAreReal, AttendsLive, AskedOnce,
         Attended, Exchange, End
<1>. QED BY <1>1, <1>2, <1>3, <1>4, <1>5, <1>6

\* A task starts without a past.
LEMMA InvStart ==
    ASSUME Inv, NEW w \in Tasks, NEW pin \in Certs \cup {Absent},
           StartTask(w, pin) \/ StartRenewal(w, pin)
    PROVE  Inv'
<1>. USE DEF Inv, TypeOK, TaskState, Places, At, Goto, Fail
<1>1. TypeOK'
  BY DEF StartTask, StartRenewal, Fresh
<1>2. AttendsLive'
  BY DEF AttendsLive, Attended, StartTask, StartRenewal, Fresh
<1>3. AskedOnce'
  BY DEF AskedOnce, AttendsLive, Attended, StartTask, StartRenewal, Fresh
<1>4. AnswersAreReal'
  BY DEF AnswersAreReal, AskedOnce, AttendsLive, Attended, StartTask, StartRenewal, Fresh
<1>5. PassedIsPast'
  BY DEF PassedIsPast, AttendsLive, AskedOnce, Attended, StartTask, StartRenewal, Fresh
<1>6. NoUnreviewedRequest'
  BY DEF NoUnreviewedRequest, PassedIsPast, AnswersAreReal, AttendsLive, AskedOnce,
         Attended, StartTask, StartRenewal, Fresh
<1>. QED BY <1>1, <1>2, <1>3, <1>4, <1>5, <1>6

\* An answer reaches a worker that still waits for it.
LEMMA InvAnswer ==
    ASSUME Inv, NEW yes \in BOOLEAN, Answer(yes)
    PROVE  Inv'
<1>. USE DEF Inv, TypeOK, TaskState, Places, At, Goto, Fail
<1>0. current \in Tasks
  BY DEF Answer
<1>1. TypeOK'
  <2>1. Wakened(current) \in Places
    BY <1>0 DEF Wakened
  <2>2. [tasks[current] EXCEPT !.answer = IF yes THEN "yes" ELSE "no", !.agreed = yes,
                               !.pc = Wakened(current)] \in TaskState
    <3>1. tasks[current] \in TaskState /\ (IF yes THEN "yes" ELSE "no") \in {"yes", "no"}
      BY <1>0
    <3>. HIDE DEF TaskState, Places
    <3>. QED BY <2>1, <3>1, TaskUpdates
  <2>. QED BY <1>0, <2>2 DEF Answer, TypeOK
<1>2. AttendsLive'
  BY DEF AttendsLive, Attended, Answer, Locked, Wakened
<1>3. AskedOnce'
  BY DEF AskedOnce, AttendsLive, Attended, Answer, Locked, Wakened
<1>4. AnswersAreReal'
  BY DEF AnswersAreReal, AskedOnce, AttendsLive, Attended, Answer, Locked, Wakened
<1>5. PassedIsPast'
  BY DEF PassedIsPast, AttendsLive, AskedOnce, Attended, Answer, Locked, Wakened
<1>6. NoUnreviewedRequest'
  BY DEF NoUnreviewedRequest, PassedIsPast, AnswersAreReal, AttendsLive, AskedOnce,
         Attended, Answer, Locked, Wakened
<1>. QED BY <1>1, <1>2, <1>3, <1>4, <1>5, <1>6

\* A question is taken once.
LEMMA InvTake ==
    ASSUME Inv, TakeDecision
    PROVE  Inv'
<1>. USE DEF Inv, TypeOK, TaskState, Places, At, Goto, Fail
<1>0. current \in Tasks
  BY DEF TakeDecision
<1>1. TypeOK'
  <2>1. [tasks[current] EXCEPT !.decision = FALSE] \in TaskState
    BY <1>0
  <2>. QED BY <1>0, <2>1 DEF TakeDecision
<1>2. AttendsLive'
  BY DEF AttendsLive, Attended, TakeDecision, Locked
<1>3. AskedOnce'
  BY DEF AskedOnce, AttendsLive, Attended, TakeDecision, Locked
<1>4. AnswersAreReal'
  BY DEF AnswersAreReal, AskedOnce, AttendsLive, Attended, TakeDecision, Locked
<1>5. PassedIsPast'
  BY DEF PassedIsPast, AttendsLive, AskedOnce, Attended, TakeDecision, Locked
<1>6. NoUnreviewedRequest'
  BY DEF NoUnreviewedRequest, PassedIsPast, AnswersAreReal, AttendsLive, AskedOnce,
         Attended, TakeDecision, Locked
<1>. QED BY <1>1, <1>2, <1>3, <1>4, <1>5, <1>6

\* A task that is given up is attended to no more.
LEMMA InvGiveUp ==
    ASSUME Inv, GiveUp
    PROVE  Inv'
<1>. USE DEF Inv, TypeOK, TaskState, Places, At, Goto, Fail
<1>0. current \in Tasks
  BY DEF GiveUp
<1>1. TypeOK'
  <2>1. Wakened(current) \in Places
    BY <1>0 DEF Wakened
  <2>2. [tasks[current] EXCEPT !.cancelled = TRUE, !.pc = Wakened(current)] \in TaskState
    <3>1. tasks[current] \in TaskState
      BY <1>0
    <3>. HIDE DEF TaskState, Places
    <3>. QED BY <2>1, <3>1, TaskUpdates
  <2>. QED BY <1>0, <2>2 DEF GiveUp, Return
<1>2. AttendsLive'
  BY DEF AttendsLive, Attended, GiveUp, Wakened, Return
<1>3. AskedOnce'
  BY DEF AskedOnce, AttendsLive, Attended, GiveUp, Wakened, Return
<1>4. AnswersAreReal'
  BY DEF AnswersAreReal, AskedOnce, AttendsLive, Attended, GiveUp, Wakened, Return
<1>5. PassedIsPast'
  BY DEF PassedIsPast, AttendsLive, AskedOnce, Attended, GiveUp, Wakened, Return
<1>6. NoUnreviewedRequest'
  BY DEF NoUnreviewedRequest, PassedIsPast, AnswersAreReal, AttendsLive, AskedOnce,
         Attended, GiveUp, Wakened, Return
<1>. QED BY <1>1, <1>2, <1>3, <1>4, <1>5, <1>6

\* Polling and returning change no task.
LEMMA InvPoll ==
    ASSUME Inv, Poll \/ TaskDone
    PROVE  Inv'
<1>. USE DEF Inv, TypeOK, TaskState, Places, At, Goto, Fail
<1>1. TypeOK'
  BY DEF Poll, TaskDone, Return
<1>2. AttendsLive'
  BY DEF AttendsLive, Attended, Poll, TaskDone, Return
<1>3. AskedOnce'
  BY DEF AskedOnce, AttendsLive, Attended, Poll, TaskDone, Return
<1>4. AnswersAreReal'
  BY DEF AnswersAreReal, AskedOnce, AttendsLive, Attended, Poll, TaskDone, Return
<1>5. PassedIsPast'
  BY DEF PassedIsPast, AttendsLive, AskedOnce, Attended, Poll, TaskDone, Return
<1>6. NoUnreviewedRequest'
  BY DEF NoUnreviewedRequest, PassedIsPast, AnswersAreReal, AttendsLive, AskedOnce,
         Attended, Poll, TaskDone, Return
<1>. QED BY <1>1, <1>2, <1>3, <1>4, <1>5, <1>6


\* Every step keeps Inv.
LEMMA InvStep ==
    ASSUME Inv, [Next]_vars
    PROVE  Inv'
<1>1. CASE UNCHANGED vars
  BY <1>1 DEF vars, Inv, TypeOK, AttendsLive, AskedOnce, AnswersAreReal, PassedIsPast,
              NoUnreviewedRequest, Attended
<1>2. ASSUME NEW w \in Tasks, Worker(w) PROVE Inv'
  BY <1>2, InvConnect, InvReadTrust, InvReview, InvTestWait, InvFallAsleep, InvDecide,
     InvSaveTrust, InvFinish DEF Worker
<1>3. CASE Terminal
  BY <1>3, InvAnswer, InvTake, InvGiveUp, InvPoll DEF Terminal
<1>. QED BY <1>1, <1>2, <1>3, InvStart DEF Next

\* No task sends its request to a server that neither the trust store, nor a
\* pin, nor a valid chain, nor its own user vouches for, and none to a server
\* whose certificate differs from the trusted one without a yes of its user:
\* for any number of tasks that were given up, renewals and fingerprints.
THEOREM RequestsAreVouched == Spec => []NoUnreviewedRequest
<1>1. Inv => NoUnreviewedRequest
  BY DEF Inv
<1>. QED BY <1>1, InvInit, InvStep, PTL DEF Spec

\* A step that replaces the trusted fingerprint is SaveTrust of a task whose
\* user accepted the new one, having been shown the one that is replaced, or
\* ReadTrust taking over the legacy entry.
LEMMA StoreStep ==
    ASSUME Inv, [Next]_vars, store' # store
    PROVE  \/ store = Absent /\ store' = legacy
           \/ \E w \in Tasks : /\ tasks[w].agreed /\ tasks[w].cert = store'
                               /\ store \in {Absent, tasks[w].previous}
<1>1. ASSUME NEW w \in Tasks, Worker(w)
      PROVE  \E b \in BOOLEAN : ReadTrust(w, b) \/ SaveTrust(w, b)
  BY <1>1 DEF Worker, Connect, Review, TestWait, FallAsleep, Decide, Exchange, End
<1>2. PICK w \in Tasks : Worker(w)
  BY DEF Next, vars, StartTask, StartRenewal, Terminal, TaskDone, TakeDecision, Poll,
         GiveUp, Answer, Return
<1>3. PICK b \in BOOLEAN : ReadTrust(w, b) \/ SaveTrust(w, b)
  BY <1>1, <1>2
<1>4. CASE ReadTrust(w, b)
  BY <1>4 DEF ReadTrust, Merged
<1>5. CASE SaveTrust(w, b)
  <2>1. tasks[w].agreed
    BY <1>5 DEF SaveTrust, At, Inv, AnswersAreReal
  <2>2. tasks[w].cert = store' /\ store \in {Absent, tasks[w].previous}
    BY <1>5 DEF SaveTrust, Conflicts
  <2>. QED BY <2>1, <2>2
<1>. QED BY <1>3, <1>4, <1>5

\* The trust store changes only by a decision of the user about exactly the
\* change that is made, or by taking over the legacy entry, whatever tasks
\* decide and save at the same time.
THEOREM TrustChangesAreReviewed == Spec => TrustIsReviewed
<1>1. ASSUME Inv, [Next]_vars
      PROVE  [store' # store =>
                \/ store = Absent /\ store' = legacy
                \/ \E w \in Tasks : /\ tasks[w].agreed /\ tasks[w].cert = store'
                                    /\ store \in {Absent, tasks[w].previous}]_vars
  BY <1>1, StoreStep
<1>. QED BY <1>1, InvInit, InvStep, PTL DEF Spec, TrustIsReviewed
=============================================================================
