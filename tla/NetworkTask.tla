---------------------------- MODULE NetworkTask ----------------------------
(***************************************************************************)
(* run_network_task (network_task.h), which runs a directory request on a  *)
(* detached thread while the terminal thread shows its progress, asks the  *)
(* user about certificates and can give it up, and the check of the        *)
(* directory's certificate against the trust store in it (verify_peer,     *)
(* tls.cpp).  A task that was given up runs on, next to the ones that      *)
(* follow and to the renewals of a publisher, which may not ask.           *)
(*                                                                         *)
(* All tasks are about one address: the trust store is its entry.          *)
(* trust_store_mutex is held for the whole of ReadTrust and SaveTrust.     *)
(* Mutex and condition variable of a task are modelled: its mutex is held  *)
(* from Review until the wait releases it.                                 *)
(***************************************************************************)
EXTENDS Naturals

CONSTANTS
    Certs,       \* fingerprints a server may present
    Absent,
    MaxTasks,    \* bound: tasks and renewals
    PollLimit    \* the 30 seconds of the terminal's loop, in polls

ASSUME TaskAssumption ==
    Absent \notin Certs /\ MaxTasks \in Nat /\ PollLimit \in Nat \ {0}

VARIABLES
    store,      \* the fingerprint trusted for the address, or Absent
    legacy,     \* the same in the trust store of the working directory
    tasks,      \* the State of every task, and where its worker is
    ui,         \* what the terminal thread does: "menu", "polling", "asking"
    current,    \* the latest task of the terminal thread
    polls       \* polls left until the deadline

vars == <<store, legacy, tasks, ui, current, polls>>

Tasks == 1 .. MaxTasks

NewTask ==
    [pc |-> "none", interactive |-> FALSE, pin |-> Absent,
     cert |-> Absent, valid |-> FALSE, previous |-> Absent,
     decision |-> FALSE, answer |-> "none", cancelled |-> FALSE, done |-> FALSE,
     agreed |-> FALSE, passed |-> FALSE]

Init ==
    /\ store = Absent /\ legacy \in Certs \cup {Absent}
    /\ tasks = [w \in Tasks |-> NewTask]
    /\ ui = "menu" /\ current = 0 /\ polls = 0

\* The worker of w goes on to l.
At(w, l)   == tasks[w].pc = l
Goto(w, l) == tasks' = [tasks EXCEPT ![w].pc = l]
Fail(w)    == tasks' = [tasks EXCEPT ![w].pc = "end"]

\* The mutex of the task's State is held by its worker.
Locked(w) == tasks[w].pc \in {"test", "wait", "decide"}

-----------------------------------------------------------------------------
(***************************************************************************)
(* The worker: send_request with verify_peer in it.                        *)
(***************************************************************************)
\* The phases up to the handshake: the server presents a certificate, valid
\* for the host by its chain or not; or a phase fails, or was cancelled.
Connect(w) ==
    /\ At(w, "connect")
    /\ \/ \E c \in Certs, v \in BOOLEAN :
            tasks' = [tasks EXCEPT ![w].pc = "read", ![w].cert = c, ![w].valid = v]
       \/ Fail(w)
    /\ UNCHANGED <<store, legacy, ui, current, polls>>

\* The entry, merged with the legacy one.
Merged == IF store = Absent THEN legacy ELSE store

Changed(w, previous) == previous # Absent /\ previous # tasks[w].cert

\* verify_peer trusts the certificate without a question.
Trusted(w, previous) ==
    /\ ~Changed(w, previous)
    /\ \/ previous = tasks[w].cert
       \/ tasks[w].pin # Absent
       \/ tasks[w].valid

\* verify_peer, up to the question.
ReadTrust(w, written) ==
    /\ At(w, "read")
    /\ IF store # Merged /\ ~written
       THEN Fail(w) /\ UNCHANGED store
       ELSE /\ store' = Merged
            /\ \/ /\ tasks[w].pin \notin {Absent, tasks[w].cert} /\ Fail(w)
               \/ /\ tasks[w].pin \in {Absent, tasks[w].cert}
                  /\ tasks' = [tasks EXCEPT
                       ![w].previous = Merged,
                       ![w].passed = Trusted(w, Merged),
                       ![w].pc = IF Trusted(w, Merged) THEN "request"
                                 ELSE IF tasks[w].interactive THEN "review" ELSE "end"]
    /\ UNCHANGED <<legacy, ui, current, polls>>

\* confirm_certificate of the task: the question is left for the terminal.
Review(w) ==
    /\ At(w, "review")
    /\ IF tasks[w].cancelled THEN Fail(w)
       ELSE tasks' = [tasks EXCEPT ![w].pc = "test", ![w].decision = TRUE]
    /\ UNCHANGED <<store, legacy, ui, current, polls>>

\* changed.wait: the predicate, under the mutex.
TestWait(w) ==
    /\ At(w, "test")
    /\ Goto(w, IF tasks[w].answer # "none" \/ tasks[w].cancelled THEN "decide" ELSE "wait")
    /\ UNCHANGED <<store, legacy, ui, current, polls>>

\* The wait releases the mutex and sleeps until it is notified.
FallAsleep(w) ==
    /\ At(w, "wait") /\ Goto(w, "asleep")
    /\ UNCHANGED <<store, legacy, ui, current, polls>>

AcceptedUnlessRefused(w) == tasks[w].answer # "no"         \* mutant
Accepted(w) == ~tasks[w].cancelled /\ tasks[w].answer = "yes"

Decide(w) ==
    /\ At(w, "decide")
    /\ tasks' = [tasks EXCEPT ![w].answer = "none",
                              ![w].pc = IF Accepted(w) THEN "save" ELSE "end"]
    /\ UNCHANGED <<store, legacy, ui, current, polls>>

NeverConflicts(w) == FALSE                                 \* mutant

\* The recheck after the decision.
Conflicts(w) == store \notin {Absent, tasks[w].previous, tasks[w].cert}

SaveTrust(w, written) ==
    /\ At(w, "save")
    /\ IF Conflicts(w) \/ ~written THEN Fail(w) /\ UNCHANGED store
       ELSE /\ store' = tasks[w].cert
            /\ tasks' = [tasks EXCEPT ![w].pc = "request", ![w].passed = TRUE]
    /\ UNCHANGED <<legacy, ui, current, polls>>

\* The request and its response, or one of their phases fails.
Exchange(w) ==
    /\ At(w, "request") /\ Goto(w, "end")
    /\ UNCHANGED <<store, legacy, ui, current, polls>>

End(w) ==
    /\ At(w, "end") /\ tasks' = [tasks EXCEPT ![w].pc = "over", ![w].done = TRUE]
    /\ UNCHANGED <<store, legacy, ui, current, polls>>

Worker(w) ==
    \/ Connect(w) \/ Review(w) \/ TestWait(w) \/ FallAsleep(w) \/ Decide(w)
    \/ Exchange(w) \/ End(w)
    \/ \E b \in BOOLEAN : ReadTrust(w, b) \/ SaveTrust(w, b)

-----------------------------------------------------------------------------
(***************************************************************************)
(* The terminal thread.                                                    *)
(***************************************************************************)
Fresh(w) == tasks[w].pc = "none" /\ \A v \in Tasks : v < w => tasks[v].pc # "none"

\* The user looks for servers or publishes one.
StartTask(w, pin) ==
    /\ ui = "menu" /\ Fresh(w)
    /\ tasks' = [tasks EXCEPT ![w].pc = "connect", ![w].pin = pin, ![w].interactive = TRUE]
    /\ ui' = "polling" /\ current' = w /\ polls' = PollLimit
    /\ UNCHANGED <<store, legacy>>

\* A publisher renews its entry: it neither asks nor trusts on first use.
StartRenewal(w, pin) ==
    /\ Fresh(w)
    /\ tasks' = [tasks EXCEPT ![w].pc = "connect", ![w].pin = pin]
    /\ UNCHANGED <<store, legacy, ui, current, polls>>

Return == ui' = "menu" /\ polls' = 0 /\ UNCHANGED <<store, legacy, current>>

TaskDone == ui = "polling" /\ tasks[current].done /\ Return /\ UNCHANGED tasks

TakeDecision ==
    /\ ui = "polling" /\ tasks[current].decision /\ ~Locked(current)
    /\ tasks' = [tasks EXCEPT ![current].decision = FALSE]
    /\ ui' = "asking"
    /\ UNCHANGED <<store, legacy, current, polls>>

\* notify_all
Wakened(w) == IF At(w, "asleep") THEN "test" ELSE tasks[w].pc

\* The user answers, in a dialog without a time limit; the deadline is set
\* anew.  The answer is stored under the mutex, before the notification.
Answer(yes) ==
    /\ ui = "asking" /\ ~Locked(current)
    /\ tasks' = [tasks EXCEPT ![current].answer = IF yes THEN "yes" ELSE "no",
                              ![current].agreed = yes,
                              ![current].pc = Wakened(current)]
    /\ ui' = "polling" /\ polls' = PollLimit
    /\ UNCHANGED <<store, legacy, current>>

Rearmed(n)  == PollLimit                                   \* mutant
NextPoll(n) == n - 1

\* A turn of the loop in which nothing happens.
Poll ==
    /\ ui = "polling" /\ polls > 0 /\ ~tasks[current].done
    /\ polls' = NextPoll(polls)
    /\ UNCHANGED <<store, legacy, tasks, ui, current>>

\* Escape, or the deadline: the task is cancelled, without its mutex.
GiveUp ==
    /\ ui = "polling" /\ ~tasks[current].done
    /\ tasks' = [tasks EXCEPT ![current].cancelled = TRUE, ![current].pc = Wakened(current)]
    /\ Return

Terminal ==
    \/ TaskDone \/ TakeDecision \/ Poll \/ GiveUp
    \/ \E yes \in BOOLEAN : Answer(yes)

Next ==
    \/ \E w \in Tasks : \/ Worker(w)
                        \/ \E pin \in Certs \cup {Absent} : StartTask(w, pin) \/ StartRenewal(w, pin)
    \/ Terminal

Spec == Init /\ [][Next]_vars

\* The terminal thread runs, and the user answers a question.  Nothing is
\* assumed of the escape key, and nothing of the workers.
Fairness ==
    /\ WF_vars(TaskDone \/ Poll \/ \E yes \in BOOLEAN : Answer(yes))
    /\ WF_vars(polls = 0 /\ GiveUp)

FairSpec == Spec /\ Fairness

\* The same, and every worker runs: the phases of a request have time limits.
WorkersSpec == FairSpec /\ \A w \in Tasks : WF_vars(Worker(w))

-----------------------------------------------------------------------------
(***************************************************************************)
(* Properties.                                                             *)
(***************************************************************************)

\* A trusted fingerprint is replaced only by the user, who was shown the one
\* that is replaced, and only by the one that the user accepted, however many
\* tasks that were given up are still running.
TrustIsReviewed ==
    [][store' # store =>
         \/ store = Absent /\ store' = legacy
         \/ \E w \in Tasks : /\ tasks[w].agreed /\ tasks[w].cert = store'
                             /\ store \in {Absent, tasks[w].previous}]_vars

\* No task talks to a server whose certificate differs from the trusted one,
\* or that nothing vouches for, unless its own user has agreed: not because
\* the wait for the answer ended with the task being given up, and not because
\* it may not ask.
NoUnreviewedRequest ==
    \A w \in Tasks :
        tasks[w].passed => \/ tasks[w].agreed
                           \/ tasks[w].previous = tasks[w].cert
                           \/ /\ tasks[w].previous = Absent
                              /\ tasks[w].valid \/ tasks[w].pin = tasks[w].cert

\* The terminal thread comes back to the menu, even if the worker never ends.
TaskReturns == ui # "menu" ~> ui = "menu"

\* A task that was given up ends, and with it its connection.  The terminal
\* thread sets the flag and notifies without the mutex: a worker that has just
\* found the flag unset and not yet gone to sleep misses it.
WorkerEnds == \A w \in Tasks : tasks[w].cancelled ~> tasks[w].done
=============================================================================
