----------------------------- MODULE Directory -----------------------------
(***************************************************************************)
(* The server directory (server_browser.h): ServerBrowser with its entries *)
(* that expire, ServerBrowserPublisher, which registers a hosted server,   *)
(* renews the entry and withdraws it, and list_servers, which a user who   *)
(* looks for a server calls.  The application (interactive_app.cpp) starts *)
(* a publisher in a background task and drops it without waiting: it is    *)
(* destroyed on a thread of its own, while the user may already be hosting *)
(* again under the same name.                                              *)
(*                                                                         *)
(* Time passes in Tick; send_request takes at most ReachTime until it has  *)
(* reached the directory, and then ExchangeTime to write the request and   *)
(* to read the response.  A request may fail before or after the directory *)
(* has handled it, and one that was given up may still be handled later.   *)
(***************************************************************************)
EXTENDS Naturals, SequencesExt

CONSTANTS
    Others,         \* keys of servers that other hosts publish: not 0 or 1
    MaxPublishers,  \* bound: times the user publishes
    Interval,       \* BROWSER_PUBLISH_INTERVAL_SECONDS
    TTL,            \* BROWSER_ENTRY_TTL_SECONDS
    ReachTime,      \* the limits of resolving, connecting and the handshake: 10 seconds each
    ExchangeTime,   \* those of the write, 10, and of the response, 15 and a last read of 10
    MaxLines,       \* the 1000 lines of a response that are read
    MaxLists        \* bound: calls of list_servers

\* An entry lives until the next renewal, with the time that the two requests
\* may take: 60 + 30 + 2 * 35 of 180 seconds.
ASSUME DirectoryAssumption ==
    /\ Others \subseteq Nat \ {0, 1} /\ IsFiniteSet(Others)
    /\ MaxPublishers \in Nat /\ MaxLists \in Nat /\ MaxLines \in Nat
    /\ Interval \in Nat \ {0} /\ TTL \in Nat /\ ReachTime \in Nat /\ ExchangeTime \in Nat
    /\ Interval + ReachTime + 2 * ExchangeTime <= TTL

VARIABLES
    listed,    \* entries_: the age of the entry of every key, or None
    pubs,      \* the publishers: all have the key Mine
    late,      \* requests that were given up, and may still be handled
    lookup,    \* the call of list_servers
    lookups,   \* calls of list_servers so far
    unlisted   \* history: the entry was taken away since its last renewal

vars == <<listed, pubs, late, lookup, lookups, unlisted>>

None == TTL + 2          \* no entry; an entry's age is counted up to TTL + 1
END  == 0                \* the last line; the line of an entry is its key
Mine == 1
Keys == {Mine} \cup Others
Publishers == 1 .. MaxPublishers

NewPublisher ==
    [st |-> "none", req |-> "none", reached |-> FALSE, handled |-> FALSE,
     wait |-> 0, slept |-> 0, missed |-> 0]
NoLookup == [st |-> "idle", lines |-> <<>>, got |-> <<>>, whole |-> {}]

Init ==
    /\ listed = [k \in Keys |-> None]
    /\ pubs = [p \in Publishers |-> NewPublisher]
    /\ late = {}
    /\ lookup = NoLookup /\ lookups = 0 /\ unlisted = FALSE

-----------------------------------------------------------------------------
(***************************************************************************)
(* The directory: process_request.                                         *)
(***************************************************************************)
StaleAtTTL(age) == age >= TTL                              \* mutant
NeverStale(age) == FALSE                                   \* mutant

\* The comparison of remove_stale_locked and of entries().
Stale(age) == age > TTL

Visible(k) == listed[k] # None /\ ~Stale(listed[k])

\* remove_stale_locked
Purged == [k \in Keys |-> IF Visible(k) THEN listed[k] ELSE None]

Register(k)   == listed' = [Purged EXCEPT ![k] = 0]
Unregister(k) == listed' = [listed EXCEPT ![k] = None]

\* A request of publisher p is handled; the newest publisher's entry may be
\* refreshed by it, or taken away by the withdrawal of an older one.
Newest(p) == \A q \in Publishers : q > p => pubs[q].st = "none"
HandleRequest(p, req) ==
    IF req = "REGISTER"
    THEN Register(Mine) /\ unlisted' = (unlisted /\ ~Newest(p))
    ELSE Unregister(Mine) /\ unlisted' = (unlisted \/ ~Newest(p))

\* Other hosts, which renew their entries in time until they withdraw them.
OtherHost(k) ==
    /\ IF Visible(k) THEN Unregister(k) ELSE Register(k)
    /\ UNCHANGED <<pubs, late, lookup, lookups, unlisted>>

\* The directory keeps its entries in memory only.
DirectoryRestarts ==
    /\ listed # [k \in Keys |-> None]
    /\ listed' = [k \in Keys |-> None] /\ unlisted' = TRUE
    /\ UNCHANGED <<pubs, late, lookup, lookups>>

-----------------------------------------------------------------------------
(***************************************************************************)
(* The publisher.                                                          *)
(***************************************************************************)
\* send_request is called.
Request(p, req, st) ==
    pubs' = [pubs EXCEPT ![p].st = st, ![p].req = req, ![p].slept = 0]

\* The application publishes: the task runs start().
Publish(p) ==
    /\ pubs[p].st = "none"
    /\ \A q \in Publishers : q < p => pubs[q].st \in {"stopping", "withdrawing", "gone"}
    /\ Request(p, "REGISTER", "starting")
    /\ UNCHANGED <<listed, late, lookup, lookups, unlisted>>

\* The connection to the directory is established, and the request is written.
Reached(p) ==
    /\ pubs[p].req # "none" /\ ~pubs[p].reached
    /\ pubs' = [pubs EXCEPT ![p].reached = TRUE, ![p].wait = 0]
    /\ UNCHANGED <<listed, late, lookup, lookups, unlisted>>

\* The directory handles the request of p that is under way.
Handled(p) ==
    /\ pubs[p].reached /\ ~pubs[p].handled
    /\ HandleRequest(p, pubs[p].req)
    /\ pubs' = [pubs EXCEPT ![p].handled = TRUE,
                            ![p].missed = IF pubs[p].req = "REGISTER" THEN 0 ELSE @]
    /\ UNCHANGED <<late, lookup, lookups>>

\* What p does when its request has ended.  A publisher that was dropped
\* withdraws its entry only if start() had succeeded; renewals that fail are
\* not reported.
After(p, ok) ==
    CASE pubs[p].st = "starting"    -> IF ok THEN "running" ELSE "gone"
      [] pubs[p].st = "abandoned"   -> IF ok THEN "stopping" ELSE "gone"
      [] pubs[p].st = "withdrawing" -> "gone"
      [] OTHER -> pubs[p].st

EndRequest(p, ok) ==
    pubs' = [pubs EXCEPT ![p].st = After(p, ok), ![p].req = "none", ![p].slept = 0,
                         ![p].wait = 0, ![p].reached = FALSE, ![p].handled = FALSE,
                         ![p].missed = IF pubs[p].handled \/ pubs[p].st # "running"
                                       THEN 0 ELSE Min({@ + 1, 2})]

Answered(p) ==
    /\ pubs[p].handled
    /\ EndRequest(p, TRUE)
    /\ UNCHANGED <<listed, late, lookup, lookups, unlisted>>

\* A phase failed, its time is over or the task was cancelled: the directory
\* may have handled the request, may yet handle it, or never will.
RequestFails(p, lingers) ==
    /\ pubs[p].req # "none" /\ EndRequest(p, FALSE)
    /\ late' = IF lingers /\ pubs[p].reached /\ ~pubs[p].handled
               THEN late \cup {[pub |-> p, req |-> pubs[p].req]} ELSE late
    /\ UNCHANGED <<listed, lookup, lookups, unlisted>>

HandledLate(r) ==
    /\ r \in late /\ late' = late \ {r}
    /\ HandleRequest(r.pub, r.req) \/ UNCHANGED <<listed, unlisted>>
    /\ UNCHANGED <<pubs, lookup, lookups>>

\* Escape, or the time limit of run_network_task.
CancelPublication(p) ==
    /\ pubs[p].st = "starting"
    /\ pubs' = [pubs EXCEPT ![p].st = "abandoned"]
    /\ UNCHANGED <<listed, late, lookup, lookups, unlisted>>

\* publish_loop, after its sleep.
Renew(p) ==
    /\ pubs[p].st = "running" /\ pubs[p].req = "none" /\ pubs[p].slept = Interval
    /\ Request(p, "REGISTER", "running")
    /\ UNCHANGED <<listed, late, lookup, lookups, unlisted>>

\* The host leaves the chat: browser_publisher.reset().  stop() joins the
\* worker, which may be in a request, and then unregisters.
Drop(p) ==
    /\ pubs[p].st = "running"
    /\ pubs' = [pubs EXCEPT ![p].st = "stopping", ![p].slept = 0, ![p].missed = 0]
    /\ UNCHANGED <<listed, late, lookup, lookups, unlisted>>

Withdraw(p) ==
    /\ pubs[p].st = "stopping" /\ pubs[p].req = "none"
    /\ Request(p, "UNREGISTER", "withdrawing")
    /\ UNCHANGED <<listed, late, lookup, lookups, unlisted>>

-----------------------------------------------------------------------------
(***************************************************************************)
(* list_servers.                                                           *)
(***************************************************************************)
EndLookup(st) == [lookup EXCEPT !.st = st, !.lines = <<>>]

\* list_servers, when the response has been read.
WithoutEnd(lines) == IF lines # <<>> THEN "ok" ELSE "failed"             \* mutant
Parsed(lines)     == IF END \in ToSet(lines) THEN "ok" ELSE "failed"

BeginLookup ==
    /\ lookup.st \in {"idle", "ok", "failed"} /\ lookups < MaxLists
    /\ lookup' = [NoLookup EXCEPT !.st = "asked"] /\ lookups' = lookups + 1
    /\ UNCHANGED <<listed, pubs, late, unlisted>>

\* LIST: the entries, in an order that no property depends on, then END.
HandleList ==
    /\ lookup.st = "asked"
    /\ listed' = Purged
    /\ LET keys == {k \in Keys : Visible(k)} IN
       lookup' = [st |-> "reading", got |-> <<>>, whole |-> keys,
                  lines |-> Append(SetToSeq(keys), END)]
    /\ UNCHANGED <<pubs, late, lookups, unlisted>>

ReadLine ==
    /\ lookup.st = "reading" /\ lookup.lines # <<>> /\ Len(lookup.got) < MaxLines
    /\ LET line == Head(lookup.lines) IN
       lookup' = [lookup EXCEPT !.got = Append(@, line), !.lines = Tail(@),
                                !.st = IF line = END THEN "ok" ELSE @]
    /\ UNCHANGED <<listed, pubs, late, lookups, unlisted>>

\* The connection ends, the response has been read for fifteen seconds, or it
\* has too many lines.
ReadEnds ==
    /\ lookup.st = "reading"
    /\ lookup' = EndLookup(Parsed(lookup.got))
    /\ UNCHANGED <<listed, pubs, late, lookups, unlisted>>

\* A phase fails, times out or is cancelled.
LookupFails ==
    /\ lookup.st \in {"asked", "reading"}
    /\ lookup' = EndLookup("failed")
    /\ UNCHANGED <<listed, pubs, late, lookups, unlisted>>

-----------------------------------------------------------------------------
Older(age) == IF age <= TTL THEN age + 1 ELSE age

Sleeping(p) == pubs[p].st = "running" /\ pubs[p].req = "none"

\* The limit of the part of send_request that p is in.
Limit(pub) == IF pub.reached THEN ExchangeTime ELSE ReachTime

\* A unit of time passes.  It does not pass over the end of a sleep, or over
\* the end of a request, which then is answered or fails.
Tick ==
    /\ \A p \in Publishers : /\ pubs[p].req # "none" => pubs[p].wait < Limit(pubs[p])
                             /\ Sleeping(p) => pubs[p].slept < Interval
    /\ listed' = [listed EXCEPT ![Mine] = Older(@)]
    /\ pubs' = [p \in Publishers |->
                  [pubs[p] EXCEPT !.wait  = IF pubs[p].req # "none" THEN @ + 1 ELSE @,
                                  !.slept = IF Sleeping(p) THEN @ + 1 ELSE @]]
    /\ UNCHANGED <<late, lookup, lookups, unlisted>>

Next ==
    \/ \E p \in Publishers :
          \/ Publish(p) \/ Reached(p) \/ Handled(p) \/ Answered(p) \/ CancelPublication(p)
          \/ Renew(p) \/ Drop(p) \/ Withdraw(p)
          \/ \E b \in BOOLEAN : RequestFails(p, b)
    \/ \E r \in late : HandledLate(r)
    \/ \E k \in Others : OtherHost(k)
    \/ DirectoryRestarts \/ Tick
    \/ BeginLookup \/ HandleList \/ ReadLine \/ ReadEnds \/ LookupFails

Spec == Init /\ [][Next]_vars

\* Time passes, a request ends, a publisher takes its steps, and what is left
\* of a request that was given up is handled or lost in the end.
Fairness ==
    /\ WF_vars(Tick)
    /\ \A p \in Publishers : WF_vars(Answered(p) \/ \E b \in BOOLEAN : RequestFails(p, b))
                             /\ WF_vars(Renew(p)) /\ WF_vars(Withdraw(p))
    /\ WF_vars(\E r \in late : HandledLate(r))

FairSpec == Spec /\ Fairness

-----------------------------------------------------------------------------
(***************************************************************************)
(* Properties.                                                             *)
(***************************************************************************)
Active(p) == pubs[p].st \in {"starting", "running"}

\* The renewals that an entry outlives: every request until the next one that
\* is handled may take all of its time.  None may be lost with the limits of
\* the code, where one more takes 125 seconds.
Lasts(missed) ==
    \/ missed = 0
    \/ missed = 1 /\ 2 * Interval + 2 * ReachTime + 3 * ExchangeTime <= TTL

\* A server that is published stays visible although its entry expires and
\* every request takes all the time that its phases allow: between a renewal
\* that was handled as soon as it was sent, and answered as late as possible,
\* and the last moment of the next one.  The withdrawal of the user's previous
\* publisher, which is destroyed in the background and has the same key, and a
\* restart of the directory do hide it, until a renewal brings it back.
RenewedStaysListed ==
    \A p \in Publishers :
        pubs[p].st = "running" /\ Lasts(pubs[p].missed) /\ ~unlisted => Visible(Mine)

\* What list_servers returns with success are all the entries the directory
\* had: a response that was cut off, by the connection, by time or by the
\* limit of its lines, is a failure and never a shorter list.
ListIsWhole ==
    lookup.st = "ok" => ToSet(lookup.got) = lookup.whole \cup {END}

\* A server that is no longer published disappears for good, also when the
\* publication was cancelled, a withdrawal was lost or a registration was
\* handled after it.
WithdrawnDisappears ==
    <>[](\A p \in Publishers : ~Active(p)) => <>[]~Visible(Mine)
=============================================================================
