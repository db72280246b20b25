--------------------------- MODULE DirectoryProofs ---------------------------
(***************************************************************************)
(* How long a published server stays listed, for any interval, life of an  *)
(* entry and limits of a request that DirectoryAssumption allows, and any  *)
(* number of publishers and of other servers.                              *)
(***************************************************************************)
EXTENDS Directory, FiniteSetTheorems, TLAPS

States == {"none", "starting", "abandoned", "running", "stopping", "withdrawing", "gone"}

\* States that a publisher does not come back from.
Dropped(p) == pubs[p].st \in {"stopping", "withdrawing", "gone"}

PubType ==
    [st : States, req : {"none", "REGISTER", "UNREGISTER"}, reached : BOOLEAN, handled : BOOLEAN,
     wait : Nat, slept : Nat, missed : 0 .. 2]

\* The part of the type that the timing needs; lookups have their own.
TimingTypeOK ==
    /\ listed \in [Keys -> Nat]
    /\ pubs \in [Publishers -> PubType]
    /\ late \subseteq [pub : Publishers, req : {"REGISTER", "UNREGISTER"}]
    /\ unlisted \in BOOLEAN

\* Counters run only where they are reset: the parts of a request do not take
\* longer than their limits, a sleep not longer than Interval.
CountersInv ==
    \A p \in Publishers :
        /\ pubs[p].st = "none" => pubs[p].req = "none"
        /\ pubs[p].req = "none" => pubs[p].wait = 0 /\ ~pubs[p].reached
        /\ pubs[p].handled => pubs[p].reached
        /\ pubs[p].wait <= Limit(pubs[p]) /\ pubs[p].slept <= Interval

\* A publisher is started when the ones before it were dropped, and only one
\* that was dropped withdraws.
OrderInv ==
    /\ \A p, q \in Publishers : q < p /\ pubs[p].st # "none" => Dropped(q)
    /\ \A p \in Publishers : pubs[p].req = "UNREGISTER" => pubs[p].st = "withdrawing"
    /\ \A r \in late : r.req = "UNREGISTER" => Dropped(r.pub)

\* The oldest that the entry of a running publisher can be: its age when the
\* last request ended, and the time since then.
Before(missed) ==
    IF missed = 0 THEN ExchangeTime ELSE Interval + ReachTime + 2 * ExchangeTime
Since(pub) ==
    IF pub.req = "none" THEN pub.slept
    ELSE Interval + (IF pub.reached THEN ReachTime ELSE 0) + pub.wait
Oldest(pub) == Before(pub.missed) + Since(pub)

AgeInv ==
    ~unlisted =>
        \A p \in Publishers :
            /\ pubs[p].st \in {"starting", "running"} /\ pubs[p].handled
                  => listed[Mine] <= pubs[p].wait
            /\ pubs[p].st = "running" /\ ~pubs[p].handled /\ Lasts(pubs[p].missed)
                  => listed[Mine] <= Oldest(pubs[p])

TimingInv == TimingTypeOK /\ CountersInv /\ OrderInv /\ AgeInv

\* The bounds of the constants.
LEMMA Durations ==
    /\ Interval \in Nat /\ ReachTime \in Nat /\ ExchangeTime \in Nat /\ TTL \in Nat
    /\ Interval + ReachTime + 2 * ExchangeTime <= TTL
    /\ None = TTL + 2 /\ Mine \in Keys /\ Mine \notin Others
BY DirectoryAssumption DEF None, Mine, Keys

\* A publisher as a record of its counters.
LEMMA PubFields ==
    ASSUME TimingInv, NEW p \in Publishers
    PROVE  /\ pubs[p] \in PubType /\ pubs[p].st \in States
           /\ pubs[p].req \in {"none", "REGISTER", "UNREGISTER"} /\ pubs[p].handled \in BOOLEAN
           /\ pubs[p].reached \in BOOLEAN /\ Limit(pubs[p]) \in Nat
           /\ pubs[p].wait \in Nat /\ pubs[p].slept \in Nat /\ pubs[p].missed \in 0 .. 2
           /\ pubs[p].wait <= Limit(pubs[p]) /\ pubs[p].slept <= Interval
           /\ listed[Mine] \in Nat
BY Durations DEF TimingInv, TimingTypeOK, CountersInv, PubType, Limit

\* The entry of a publisher is young, if it outlives the renewals that were lost.
LEMMA YoungIsVisible ==
    ASSUME TimingInv, ~unlisted, NEW p \in Publishers,
           \/ pubs[p].st \in {"starting", "running"} /\ pubs[p].handled
           \/ pubs[p].st = "running" /\ Lasts(pubs[p].missed)
    PROVE  Visible(Mine) /\ listed[Mine] <= TTL
<1>1. /\ pubs[p].wait \in Nat /\ pubs[p].slept \in Nat /\ pubs[p].missed \in 0 .. 2
      /\ pubs[p].wait <= Limit(pubs[p]) /\ pubs[p].slept <= Interval /\ listed[Mine] \in Nat
  BY PubFields
<1>2. CASE pubs[p].handled
  <2>1. listed[Mine] <= pubs[p].wait
    BY <1>2 DEF TimingInv, AgeInv
  <2>2. listed[Mine] <= TTL
    BY <1>1, <2>1, Durations DEF Limit
  <2>. QED BY <1>1, <2>2, Durations DEF Visible, Stale
<1>3. CASE ~pubs[p].handled
  <2>1. listed[Mine] <= Oldest(pubs[p])
    BY <1>3 DEF TimingInv, AgeInv
  <2>2. Oldest(pubs[p]) <= TTL /\ Oldest(pubs[p]) \in Nat
    <3>1. Since(pubs[p]) \in Nat /\ Since(pubs[p]) <= Interval + ReachTime + ExchangeTime
      BY <1>1, Durations DEF Since, Limit
    <3>2. Before(pubs[p].missed) \in Nat
          /\ Before(pubs[p].missed) + (Interval + ReachTime + ExchangeTime) <= TTL
      <4>1. CASE pubs[p].missed = 0
        BY <4>1, Durations DEF Before
      <4>2. CASE pubs[p].missed = 1
        <5>1. 2 * Interval + 2 * ReachTime + 3 * ExchangeTime <= TTL
          BY <1>3, <4>2 DEF Lasts
        <5>. QED BY <4>2, <5>1, Durations DEF Before
      <4>. QED BY <1>3, <4>1, <4>2 DEF Lasts
    <3>3. Oldest(pubs[p]) = Before(pubs[p].missed) + Since(pubs[p])
      BY DEF Oldest
    <3>. QED BY <3>1, <3>2, <3>3, Durations
  <2>3. listed[Mine] <= TTL
    BY <1>1, <2>1, <2>2, Durations
  <2>. QED BY <1>1, <2>3, Durations DEF Visible, Stale
<1>. QED BY <1>2, <1>3

\* The first state satisfies TimingInv.
LEMMA TimingInit ==
    ASSUME Init
    PROVE  TimingInv
<1>1. NewPublisher \in PubType
  BY DEF NewPublisher, PubType, States
<1>2. TimingTypeOK
  <2>1. None \in Nat
    BY Durations
  <2>2. unlisted \in BOOLEAN
    BY DEF Init
  <2>. QED BY <1>1, <2>1, <2>2 DEF Init, TimingTypeOK
<1>3. \A p \in Publishers : /\ pubs[p].st = "none" /\ pubs[p].req = "none" /\ ~pubs[p].reached
                             /\ ~pubs[p].handled /\ pubs[p].wait = 0 /\ pubs[p].slept = 0
  BY DEF Init, NewPublisher
<1>4. CountersInv
  <2>1. 0 <= Interval /\ \A p \in Publishers : 0 <= Limit(pubs[p])
    BY Durations DEF Limit
  <2>. QED BY <1>3, <2>1 DEF CountersInv
<1>5. OrderInv /\ AgeInv
  BY <1>3 DEF Init, OrderInv, AgeInv
<1>. QED BY <1>2, <1>4, <1>5 DEF TimingInv

\* A step of one publisher, which leaves the directory as it is: n is the
\* publisher's next state.
LEMMA PublisherStep ==
    ASSUME TimingInv, NEW p \in Publishers, NEW n \in PubType,
           pubs' = [pubs EXCEPT ![p] = n], UNCHANGED <<listed, unlisted>>,
           n.st # "none",
           n.req = "none" => n.wait = 0 /\ ~n.reached,
           n.handled => n.reached,
           n.wait <= Limit(n), n.slept <= Interval,
           pubs[p].st = "none" => \A q \in Publishers : q < p => Dropped(q),
           Dropped(p) => n.st \in {"stopping", "withdrawing", "gone"},
           n.req = "UNREGISTER" => n.st = "withdrawing",
           \/ late' = late
           \/ /\ late' = late \cup {[pub |-> p, req |-> pubs[p].req]}
              /\ pubs[p].req # "none"
              /\ pubs[p].req = "UNREGISTER" => n.st \in {"stopping", "withdrawing", "gone"},
           ~unlisted /\ n.st \in {"starting", "running"} /\ n.handled
              => listed[Mine] <= n.wait,
           ~unlisted /\ n.st = "running" /\ ~n.handled /\ Lasts(n.missed)
              => listed[Mine] <= Oldest(n)
    PROVE  TimingInv'
<1>1. /\ pubs' \in [Publishers -> PubType] /\ pubs'[p] = n
      /\ \A q \in Publishers : q # p => pubs'[q] = pubs[q]
  BY DEF TimingInv, TimingTypeOK
<1>2. TimingTypeOK'
  <2>1. pubs[p].req \in {"none", "REGISTER", "UNREGISTER"}
    BY PubFields
  <2>2. late' \subseteq [pub : Publishers, req : {"REGISTER", "UNREGISTER"}]
    <3>1. late \subseteq [pub : Publishers, req : {"REGISTER", "UNREGISTER"}]
      BY DEF TimingInv, TimingTypeOK
    <3>2. CASE late' = late
      BY <3>1, <3>2
    <3>3. CASE /\ late' = late \cup {[pub |-> p, req |-> pubs[p].req]}
               /\ pubs[p].req # "none"
      <4>1. pubs[p].req \in {"REGISTER", "UNREGISTER"}
        BY <2>1, <3>3
      <4>2. [pub |-> p, req |-> pubs[p].req] \in
               [pub : Publishers, req : {"REGISTER", "UNREGISTER"}]
        BY <4>1
      <4>. QED BY <3>1, <3>3, <4>2
    <3>. QED BY <3>2, <3>3
  <2>. QED BY <1>1, <2>2 DEF TimingInv, TimingTypeOK
<1>3. CountersInv'
  <2>1. ASSUME NEW q \in Publishers
        PROVE  /\ pubs'[q].st = "none" => pubs'[q].req = "none"
               /\ pubs'[q].req = "none" => pubs'[q].wait = 0 /\ ~pubs'[q].reached
               /\ pubs'[q].handled => pubs'[q].reached
               /\ pubs'[q].wait <= Limit(pubs'[q]) /\ pubs'[q].slept <= Interval
    <3>1. CASE q = p
      BY <1>1, <3>1
    <3>2. CASE q # p
      BY <1>1, <3>2 DEF TimingInv, CountersInv
    <3>. QED BY <3>1, <3>2
  <2>. QED BY <2>1 DEF CountersInv
<1>4. \A q \in Publishers : Dropped(q) => Dropped(q)'
  BY <1>1 DEF Dropped
<1>5. OrderInv'
  <2>1. ASSUME NEW a \in Publishers, NEW b \in Publishers, b < a, pubs'[a].st # "none"
        PROVE  Dropped(b)'
    <3>1. CASE pubs[a].st # "none"
      BY <1>4, <2>1, <3>1 DEF TimingInv, OrderInv
    <3>2. CASE pubs[a].st = "none"
      <4>1. a = p
        BY <1>1, <2>1, <3>2
      <4>. QED BY <1>4, <2>1, <3>2, <4>1
    <3>. QED BY <3>1, <3>2
  <2>2. ASSUME NEW q \in Publishers, pubs'[q].req = "UNREGISTER"
        PROVE  pubs'[q].st = "withdrawing"
    BY <1>1, <2>2 DEF TimingInv, OrderInv
  <2>3. ASSUME NEW r \in late', r.req = "UNREGISTER"
        PROVE  Dropped(r.pub)'
    <3>1. CASE r \in late
      <4>1. r.pub \in Publishers
        BY <3>1 DEF TimingInv, TimingTypeOK
      <4>. QED BY <1>4, <2>3, <3>1, <4>1 DEF TimingInv, OrderInv
    <3>2. CASE r \notin late
      <4>1. r = [pub |-> p, req |-> pubs[p].req]
        BY <2>3, <3>2
      <4>2. r.pub = p /\ n.st \in {"stopping", "withdrawing", "gone"}
        BY <2>3, <3>2, <4>1
      <4>. QED BY <1>1, <4>2 DEF Dropped
    <3>. QED BY <3>1, <3>2
  <2>. QED BY <2>1, <2>2, <2>3 DEF OrderInv
<1>6. AgeInv'
  <2>1. ASSUME ~unlisted, NEW q \in Publishers
        PROVE  /\ pubs'[q].st \in {"starting", "running"} /\ pubs'[q].handled
                     => listed[Mine] <= pubs'[q].wait
               /\ pubs'[q].st = "running" /\ ~pubs'[q].handled /\ Lasts(pubs'[q].missed)
                     => listed[Mine] <= Oldest(pubs'[q])
    <3>1. CASE q = p
      BY <1>1, <2>1, <3>1
    <3>2. CASE q # p
      BY <1>1, <2>1, <3>2 DEF TimingInv, AgeInv
    <3>. QED BY <3>1, <3>2
  <2>. QED BY <2>1 DEF AgeInv
<1>. QED BY <1>2, <1>3, <1>5, <1>6 DEF TimingInv

\* What a publisher does after a request.
LEMMA AfterValues ==
    ASSUME NEW p, NEW ok \in BOOLEAN
    PROVE  /\ pubs[p].st = "starting" => After(p, ok) \in {"running", "gone"}
           /\ pubs[p].st = "starting" /\ ~ok => After(p, ok) = "gone"
           /\ pubs[p].st = "abandoned" => After(p, ok) \in {"stopping", "gone"}
           /\ pubs[p].st = "withdrawing" => After(p, ok) = "gone"
           /\ pubs[p].st \notin {"starting", "abandoned", "withdrawing"}
                => After(p, ok) = pubs[p].st
BY DEF After

\* The count of lost renewals, which stops at two.
LEMMA MissedValues ==
    /\ Min({0 + 1, 2}) = 1
    /\ \A m \in {1, 2} : Min({m + 1, 2}) = 2
<1>1. Min({0 + 1, 2}) = 1
  BY DEF Min
<1>2. ASSUME NEW m \in {1, 2} PROVE Min({m + 1, 2}) = 2
  BY DEF Min
<1>. QED BY <1>1, <1>2

\* The renewals that a publisher has lost when its request has ended.
Lost(p) == IF pubs[p].handled \/ pubs[p].st # "running" THEN 0 ELSE Min({pubs[p].missed + 1, 2})

\* It counts up to two.
LEMMA LostValues ==
    ASSUME NEW p, pubs[p].missed \in 0 .. 2
    PROVE  \/ (pubs[p].handled \/ pubs[p].st # "running") /\ Lost(p) = 0
           \/ ~pubs[p].handled /\ pubs[p].st = "running" /\ pubs[p].missed = 0 /\ Lost(p) = 1
           \/ ~pubs[p].handled /\ pubs[p].st = "running" /\ Lost(p) = 2
<1>1. ASSUME NEW m \in 0 .. 2 PROVE m = 0 \/ m \in {1, 2}
  OBVIOUS
<1>2. pubs[p].missed = 0 \/ pubs[p].missed \in {1, 2}
  BY <1>1
<1>3. CASE pubs[p].handled \/ pubs[p].st # "running"
  BY <1>3 DEF Lost
<1>4. CASE ~pubs[p].handled /\ pubs[p].st = "running"
  <2>1. Lost(p) = Min({pubs[p].missed + 1, 2})
    BY <1>4 DEF Lost
  <2>2. CASE pubs[p].missed = 0
    BY <1>4, <2>1, <2>2, MissedValues
  <2>3. CASE pubs[p].missed \in {1, 2}
    BY <1>4, <2>1, <2>3, MissedValues
  <2>. QED BY <1>2, <2>2, <2>3
<1>. QED BY <1>3, <1>4

\* Its type.
LEMMA LostInRange ==
    ASSUME NEW p, pubs[p].missed \in 0 .. 2
    PROVE  Lost(p) \in 0 .. 2
<1>1. 0 \in 0 .. 2 /\ 1 \in 0 .. 2 /\ 2 \in 0 .. 2
  OBVIOUS
<1>. QED BY <1>1, LostValues

\* The entry is no older than a publisher allows whose request has just ended.
LEMMA EndedIsYoung ==
    ASSUME TimingInv, NEW p \in Publishers, pubs[p].req # "none", ~unlisted,
           pubs[p].st = "running" \/ (pubs[p].st = "starting" /\ pubs[p].handled),
           NEW n \in PubType, n.req = "none", n.slept = 0, n.missed = Lost(p), Lasts(n.missed)
    PROVE  listed[Mine] <= Oldest(n)
<1>1. /\ pubs[p].wait \in Nat /\ pubs[p].missed \in 0 .. 2 /\ listed[Mine] \in Nat
      /\ pubs[p].wait <= Limit(pubs[p])
  BY PubFields
<1>2. \/ (pubs[p].handled \/ pubs[p].st # "running") /\ Lost(p) = 0
      \/ ~pubs[p].handled /\ pubs[p].st = "running" /\ pubs[p].missed = 0 /\ Lost(p) = 1
      \/ ~pubs[p].handled /\ pubs[p].st = "running" /\ Lost(p) = 2
  BY <1>1, LostValues
<1>3. CASE pubs[p].handled
  <2>1. listed[Mine] <= pubs[p].wait
    BY <1>3 DEF TimingInv, AgeInv
  <2>2. n.missed = 0
    BY <1>2, <1>3
  <2>3. Oldest(n) = ExchangeTime + 0
    BY <2>2 DEF Oldest, Before, Since
  <2>4. pubs[p].wait <= ExchangeTime
    BY <1>1, <1>3 DEF TimingInv, CountersInv, Limit
  <2>. QED BY <1>1, <2>1, <2>3, <2>4, Durations
<1>4. CASE ~pubs[p].handled
  <2>1. pubs[p].st = "running"
    BY <1>4
  <2>2. Lost(p) # 2
    BY DEF Lasts
  <2>3. n.missed = 1 /\ pubs[p].missed = 0
    BY <1>2, <1>4, <2>1, <2>2
  <2>4. listed[Mine] <= Oldest(pubs[p])
    <3>1. Lasts(pubs[p].missed)
      BY <2>3 DEF Lasts
    <3>. QED BY <1>4, <2>1, <3>1 DEF TimingInv, AgeInv
  <2>5. /\ Oldest(pubs[p]) = ExchangeTime + Since(pubs[p]) /\ Since(pubs[p]) \in Nat
        /\ Since(pubs[p]) <= Interval + ReachTime + ExchangeTime
    <3>1. Oldest(pubs[p]) = ExchangeTime + Since(pubs[p])
      BY <2>3 DEF Oldest, Before
    <3>2. /\ Since(pubs[p]) \in Nat
          /\ Since(pubs[p]) <= Interval + ReachTime + ExchangeTime
      BY <1>1, Durations DEF Since, Limit
    <3>. QED BY <3>1, <3>2
  <2>6. Oldest(n) = Interval + ReachTime + 2 * ExchangeTime + 0
    BY <2>3 DEF Oldest, Before, Since
  <2>. QED BY <1>1, <2>4, <2>5, <2>6, Durations
<1>. QED BY <1>3, <1>4

\* Nothing is before the first unit of time.
LEMMA Zero ==
    0 <= Interval /\ 0 \in 0 .. 2 /\ 0 \in Nat /\ \A pub : Limit(pub) \in Nat /\ 0 <= Limit(pub)
BY Durations DEF Limit

\* A request of a publisher ends; a renewal that was not handled is one more
\* that is lost.
LEMMA TimingEndRequest ==
    ASSUME TimingInv, NEW p \in Publishers, NEW ok \in BOOLEAN, EndRequest(p, ok),
           pubs[p].req # "none", ok => pubs[p].handled, UNCHANGED <<listed, unlisted>>,
           \/ late' = late
           \/ late' = late \cup {[pub |-> p, req |-> pubs[p].req]}
    PROVE  TimingInv'
<1>. DEFINE n == [pubs[p] EXCEPT !.st = After(p, ok), !.req = "none", !.slept = 0, !.wait = 0,
                                 !.reached = FALSE, !.handled = FALSE, !.missed = Lost(p)]
<1>1. /\ pubs[p] \in PubType /\ pubs[p].st \in States /\ pubs[p].handled \in BOOLEAN
      /\ pubs[p].wait \in Nat /\ pubs[p].slept \in Nat /\ pubs[p].missed \in 0 .. 2
      /\ pubs[p].wait <= Limit(pubs[p]) /\ listed[Mine] \in Nat
  BY PubFields
<1>3. pubs' = [pubs EXCEPT ![p] = n]
  BY DEF EndRequest, TimingInv, TimingTypeOK, Lost
<1>4. pubs[p].st # "none"
  BY DEF TimingInv, CountersInv
<1>5. After(p, ok) \in States /\ After(p, ok) # "none"
  BY <1>1, <1>4, AfterValues DEF States
<1>6. Lost(p) \in 0 .. 2
  BY <1>1, LostInRange
<1>7. n \in PubType
  BY <1>1, <1>5, <1>6 DEF PubType
<1>8. /\ n.st = After(p, ok) /\ n.req = "none" /\ n.slept = 0 /\ n.wait = 0
      /\ n.reached = FALSE /\ n.handled = FALSE /\ n.missed = Lost(p)
  BY <1>1 DEF PubType
<1>. HIDE DEF n
<1>9. Dropped(p) => n.st \in {"stopping", "withdrawing", "gone"}
  BY <1>8, AfterValues DEF Dropped
<1>10. pubs[p].req = "UNREGISTER" => n.st \in {"stopping", "withdrawing", "gone"}
  BY <1>9 DEF TimingInv, OrderInv, Dropped
<1>11. ASSUME ~unlisted, n.st = "running", Lasts(n.missed)
       PROVE  listed[Mine] <= Oldest(n)
  <2>1. pubs[p].st = "running" \/ (pubs[p].st = "starting" /\ pubs[p].handled)
    <3>1. After(p, ok) = "running"
      BY <1>8, <1>11
    <3>2. pubs[p].st \in {"running", "starting"}
      BY <3>1, AfterValues
    <3>3. pubs[p].st = "starting" => ok
      BY <3>1, AfterValues
    <3>. QED BY <3>2, <3>3
  <2>. QED BY <1>7, <1>8, <1>11, <2>1, EndedIsYoung
<1>12. n.wait <= Limit(n) /\ n.slept <= Interval
  BY <1>8, Zero
<1>13. n.st # "none" /\ ~n.handled /\ ~n.reached /\ n.wait = 0 /\ n.req # "UNREGISTER"
  BY <1>5, <1>8
<1>. QED BY <1>3, <1>4, <1>7, <1>9, <1>10, <1>11, <1>12, <1>13, PublisherStep

\* The other steps of one publisher.
LEMMA TimingPublisher ==
    ASSUME TimingInv, NEW p \in Publishers,
           \/ Publish(p) \/ Reached(p) \/ CancelPublication(p) \/ Renew(p) \/ Drop(p)
           \/ Withdraw(p)
    PROVE  TimingInv'
<1>1. /\ pubs[p] \in PubType /\ pubs[p].st \in States /\ pubs[p].handled \in BOOLEAN
      /\ pubs[p].wait \in Nat /\ pubs[p].slept \in Nat /\ pubs[p].missed \in 0 .. 2
      /\ pubs[p].wait <= Limit(pubs[p]) /\ pubs[p].slept <= Interval /\ listed[Mine] \in Nat
      /\ pubs \in [Publishers -> PubType]
  BY PubFields DEF TimingInv, TimingTypeOK
<1>2. /\ pubs[p].req = "none" => pubs[p].wait = 0 /\ ~pubs[p].reached /\ ~pubs[p].handled
      /\ pubs[p].handled => pubs[p].reached
      /\ pubs[p].st = "none" => pubs[p].req = "none"
      /\ pubs[p].req = "UNREGISTER" => pubs[p].st = "withdrawing"
  BY DEF TimingInv, CountersInv, OrderInv
<1>3. CASE Publish(p)
  <2>. DEFINE n == [pubs[p] EXCEPT !.st = "starting", !.req = "REGISTER", !.slept = 0]
  <2>1. pubs' = [pubs EXCEPT ![p] = n] /\ UNCHANGED <<listed, unlisted, late>>
    BY <1>1, <1>3 DEF Publish, Request
  <2>2. n \in PubType
    BY Zero, <1>1 DEF PubType, States
  <2>3. /\ n.st = "starting" /\ n.req = "REGISTER" /\ n.slept = 0 /\ n.wait = 0
        /\ ~n.reached /\ ~n.handled
    BY <1>1, <1>2, <1>3 DEF Publish, PubType
  <2>4. \A q \in Publishers : q < p => Dropped(q)
    BY <1>3 DEF Publish, Dropped
  <2>5. n.wait <= Limit(n) /\ n.slept <= Interval /\ ~Dropped(p)
    BY Zero, <1>3, <2>3 DEF Publish, Dropped
  <2>. HIDE DEF n
  <2>. QED BY <2>1, <2>2, <2>3, <2>4, <2>5, PublisherStep
<1>4. CASE CancelPublication(p)
  <2>. DEFINE n == [pubs[p] EXCEPT !.st = "abandoned"]
  <2>1. pubs' = [pubs EXCEPT ![p] = n] /\ UNCHANGED <<listed, unlisted, late>>
    BY <1>1, <1>4 DEF CancelPublication
  <2>2. n \in PubType
    BY Zero, <1>1 DEF PubType, States
  <2>3. n.st = "abandoned" /\ n.req = pubs[p].req /\ n.slept = pubs[p].slept
        /\ n.wait = pubs[p].wait /\ n.handled = pubs[p].handled /\ n.reached = pubs[p].reached
    BY <1>1 DEF PubType
  <2>4. ~Dropped(p) /\ pubs[p].st # "none" /\ n.req # "UNREGISTER" /\ n.wait <= Limit(n)
    BY <1>1, <1>2, <1>4, <2>3 DEF CancelPublication, Dropped, Limit
  <2>. HIDE DEF n
  <2>. QED BY <1>1, <1>2, <2>1, <2>2, <2>3, <2>4, PublisherStep
<1>5. CASE Renew(p)
  <2>. DEFINE n == [pubs[p] EXCEPT !.st = "running", !.req = "REGISTER", !.slept = 0]
  <2>1. pubs' = [pubs EXCEPT ![p] = n] /\ UNCHANGED <<listed, unlisted, late>>
    BY <1>1, <1>5 DEF Renew, Request
  <2>2. n \in PubType
    BY Zero, <1>1 DEF PubType, States
  <2>3. n.st = "running" /\ n.req = "REGISTER" /\ n.slept = 0 /\ n.wait = 0
        /\ ~n.reached /\ ~n.handled /\ n.missed = pubs[p].missed
    BY <1>1, <1>2, <1>5 DEF Renew, PubType
  <2>. HIDE DEF n
  <2>4. ~Dropped(p) /\ pubs[p].st # "none"
    BY <1>5 DEF Renew, Dropped
  <2>5. n.wait <= Limit(n) /\ n.slept <= Interval
    BY <2>3, Zero
  <2>6. ASSUME ~unlisted, Lasts(n.missed)
        PROVE  listed[Mine] <= Oldest(n)
    <3>1. listed[Mine] <= Oldest(pubs[p])
      BY <1>2, <1>5, <2>3, <2>6 DEF Renew, TimingInv, AgeInv
    <3>2. Interval + 0 + 0 = Interval
      BY Durations
    <3>3. Oldest(n) = Oldest(pubs[p])
      BY <1>5, <2>3, <3>2 DEF Renew, Oldest, Since
    <3>. QED BY <3>1, <3>3
  <2>. QED BY <2>1, <2>2, <2>3, <2>4, <2>5, <2>6, PublisherStep
<1>6. CASE Drop(p)
  <2>. DEFINE n == [pubs[p] EXCEPT !.st = "stopping", !.slept = 0, !.missed = 0]
  <2>1. pubs' = [pubs EXCEPT ![p] = n] /\ UNCHANGED <<listed, unlisted, late>>
    BY <1>1, <1>6 DEF Drop
  <2>2. n \in PubType
    BY Zero, <1>1 DEF PubType, States
  <2>3. n.st = "stopping" /\ n.req = pubs[p].req /\ n.slept = 0
        /\ n.wait = pubs[p].wait /\ n.handled = pubs[p].handled /\ n.reached = pubs[p].reached
    BY <1>1 DEF PubType
  <2>4. pubs[p].st = "running" /\ n.req # "UNREGISTER" /\ n.slept <= Interval
        /\ n.wait <= Limit(n)
    BY Zero, <1>1, <1>2, <1>6, <2>3 DEF Drop, Limit
  <2>. HIDE DEF n
  <2>. QED BY <1>1, <1>2, <2>1, <2>2, <2>3, <2>4, PublisherStep
<1>7. CASE Withdraw(p)
  <2>. DEFINE n == [pubs[p] EXCEPT !.st = "withdrawing", !.req = "UNREGISTER", !.slept = 0]
  <2>1. pubs' = [pubs EXCEPT ![p] = n] /\ UNCHANGED <<listed, unlisted, late>>
    BY <1>1, <1>7 DEF Withdraw, Request
  <2>2. n \in PubType
    BY Zero, <1>1 DEF PubType, States
  <2>3. n.st = "withdrawing" /\ n.req = "UNREGISTER" /\ n.slept = 0 /\ n.wait = 0
        /\ ~n.reached /\ ~n.handled
    BY <1>1, <1>2, <1>7 DEF Withdraw, PubType
  <2>4. pubs[p].st = "stopping" /\ n.slept <= Interval /\ n.wait <= Limit(n)
    BY Zero, <1>7, <2>3 DEF Withdraw
  <2>. HIDE DEF n
  <2>. QED BY <1>1, <2>1, <2>2, <2>3, <2>4, PublisherStep
<1>8. CASE Reached(p)
  <2>. DEFINE n == [pubs[p] EXCEPT !.reached = TRUE, !.wait = 0]
  <2>1. pubs' = [pubs EXCEPT ![p] = n] /\ UNCHANGED <<listed, unlisted, late>>
    BY <1>1, <1>8 DEF Reached
  <2>2. n \in PubType
    BY Zero, <1>1 DEF PubType
  <2>3. n.st = pubs[p].st /\ n.req = pubs[p].req /\ n.slept = pubs[p].slept /\ n.wait = 0
        /\ n.reached /\ ~n.handled /\ n.missed = pubs[p].missed
    BY <1>1, <1>2, <1>8 DEF Reached, PubType
  <2>. HIDE DEF n
  <2>4. pubs[p].req # "none" /\ ~pubs[p].reached /\ pubs[p].st # "none" /\ ~pubs[p].handled
    BY <1>2, <1>8 DEF Reached
  <2>5. n.wait <= Limit(n) /\ n.slept <= Interval
    BY <1>1, <2>3, Zero
  <2>6. Dropped(p) => n.st \in {"stopping", "withdrawing", "gone"}
    BY <2>3 DEF Dropped
  <2>7. ASSUME ~unlisted, n.st = "running", Lasts(n.missed)
        PROVE  listed[Mine] <= Oldest(n)
    <3>1. listed[Mine] <= Oldest(pubs[p])
      BY <2>3, <2>4, <2>7 DEF TimingInv, AgeInv
    <3>2. /\ Oldest(pubs[p]) = Before(pubs[p].missed) + (Interval + 0 + pubs[p].wait)
          /\ Oldest(n) = Before(pubs[p].missed) + (Interval + ReachTime + 0)
      BY <2>3, <2>4 DEF Oldest, Since
    <3>3. Before(pubs[p].missed) \in Nat
      BY Durations DEF Before
    <3>4. pubs[p].wait <= ReachTime
      BY <1>1, <2>4 DEF Limit
    <3>. QED BY <1>1, <3>1, <3>2, <3>3, <3>4, Durations
  <2>. QED BY <1>2, <2>1, <2>2, <2>3, <2>4, <2>5, <2>6, <2>7, PublisherStep
<1>. QED BY <1>3, <1>4, <1>5, <1>6, <1>7, <1>8

\* A step of the directory that leaves the publishers alone, and the entry of
\* Mine while it is visible.
LEMMA EntryKept ==
    ASSUME TimingInv, UNCHANGED <<pubs, late, unlisted>>, listed' \in [Keys -> Nat],
           Visible(Mine) => listed'[Mine] = listed[Mine]
    PROVE  TimingInv'
<1>1. TimingTypeOK'
  BY DEF TimingInv, TimingTypeOK
<1>2. CountersInv'
  BY DEF TimingInv, CountersInv
<1>3. OrderInv'
  BY DEF TimingInv, OrderInv, Dropped
<1>4. AgeInv'
  <2>1. ASSUME ~unlisted, NEW p \in Publishers,
               pubs[p].st \in {"starting", "running"}, pubs[p].handled
        PROVE  listed'[Mine] <= pubs[p].wait
    <3>1. Visible(Mine)
      BY <2>1, YoungIsVisible
    <3>. QED BY <2>1, <3>1 DEF TimingInv, AgeInv
  <2>2. ASSUME ~unlisted, NEW p \in Publishers,
               pubs[p].st = "running", ~pubs[p].handled, Lasts(pubs[p].missed)
        PROVE  listed'[Mine] <= Oldest(pubs[p])
    <3>1. Visible(Mine)
      BY <2>2, YoungIsVisible
    <3>. QED BY <2>2, <3>1 DEF TimingInv, AgeInv
  <2>. QED BY <2>1, <2>2 DEF AgeInv
<1>. QED BY <1>1, <1>2, <1>3, <1>4 DEF TimingInv

\* The entry is dropped only if it is stale.
LEMMA PurgedKeeps ==
    ASSUME TimingInv
    PROVE  Purged \in [Keys -> Nat] /\ (Visible(Mine) => Purged[Mine] = listed[Mine])
<1>1. listed \in [Keys -> Nat] /\ None \in Nat /\ Mine \in Keys
  BY Durations DEF TimingInv, TimingTypeOK
<1>. QED BY <1>1 DEF Purged

\* Other hosts, and the answer to LIST, keep the entry of Mine.
LEMMA TimingOthers ==
    ASSUME TimingInv, HandleList \/ \E k \in Others : OtherHost(k)
    PROVE  TimingInv'
<1>1. listed \in [Keys -> Nat] /\ None \in Nat /\ Mine \in Keys /\ Mine \notin Others
  BY Durations DEF TimingInv, TimingTypeOK
<1>2. Purged \in [Keys -> Nat] /\ (Visible(Mine) => Purged[Mine] = listed[Mine])
  BY PurgedKeeps
<1>3. CASE HandleList
  <2>1. listed' = Purged /\ UNCHANGED <<pubs, late, unlisted>>
    BY <1>3 DEF HandleList
  <2>. QED BY <1>2, <2>1, EntryKept
<1>4. ASSUME NEW k \in Others, OtherHost(k)
      PROVE  TimingInv'
  <2>1. k \in Keys /\ k # Mine /\ 0 \in Nat
    BY <1>1 DEF Keys
  <2>2. \/ listed' = [listed EXCEPT ![k] = None]
        \/ listed' = [Purged EXCEPT ![k] = 0]
    BY <1>4 DEF OtherHost, Register, Unregister
  <2>3. listed' \in [Keys -> Nat]
    BY <1>1, <1>2, <2>1, <2>2
  <2>4. Visible(Mine) => listed'[Mine] = listed[Mine]
    BY <1>1, <1>2, <2>1, <2>2
  <2>5. UNCHANGED <<pubs, late, unlisted>>
    BY <1>4 DEF OtherHost
  <2>. QED BY <2>3, <2>4, <2>5, EntryKept
<1>. QED BY <1>3, <1>4

\* What the publishers' requests do to the entry: it is new, or the history
\* says that it was taken away, or nobody is publishing.
LEMMA HandledEntry ==
    ASSUME TimingInv, NEW p \in Publishers, NEW req \in {"REGISTER", "UNREGISTER"},
           HandleRequest(p, req), req = "UNREGISTER" => Dropped(p)
    PROVE  /\ listed' \in [Keys -> Nat] /\ unlisted' \in BOOLEAN
           /\ \/ unlisted'
              \/ listed'[Mine] = 0
              \/ \A q \in Publishers : pubs[q].st \notin {"starting", "running"}
<1>1. /\ listed \in [Keys -> Nat] /\ None \in Nat /\ Mine \in Keys /\ unlisted \in BOOLEAN
      /\ Purged \in [Keys -> Nat] /\ 0 \in Nat
  BY Durations, PurgedKeeps DEF TimingInv, TimingTypeOK
<1>2. CASE req = "REGISTER"
  <2>1. listed' = [Purged EXCEPT ![Mine] = 0] /\ unlisted' = (unlisted /\ ~Newest(p))
    BY <1>2 DEF HandleRequest, Register
  <2>2. unlisted' \in BOOLEAN
    BY <2>1
  <2>3. listed' \in [Keys -> Nat] /\ listed'[Mine] = 0
    BY <1>1, <2>1
  <2>. QED BY <2>2, <2>3
<1>3. CASE req = "UNREGISTER"
  <2>1. listed' = [listed EXCEPT ![Mine] = None] /\ unlisted' = (unlisted \/ ~Newest(p))
    BY <1>3 DEF HandleRequest, Unregister
  <2>2. unlisted' \in BOOLEAN
    BY <2>1
  <2>3. listed' \in [Keys -> Nat]
    BY <1>1, <2>1
  <2>4. ASSUME ~unlisted', NEW q \in Publishers
        PROVE  pubs[q].st \notin {"starting", "running"}
    <3>1. Newest(p) /\ Dropped(p)
      BY <1>3, <2>1, <2>4
    <3>2. p \in Int /\ q \in Int
      BY DEF Publishers
    <3>3. q < p \/ q = p \/ q > p
      BY <3>2
    <3>4. CASE q < p
      BY <3>1, <3>4 DEF TimingInv, OrderInv, Dropped
    <3>5. CASE q = p
      BY <3>1, <3>5 DEF Dropped
    <3>6. CASE q > p
      BY <3>1, <3>6 DEF Newest
    <3>. QED BY <3>3, <3>4, <3>5, <3>6
  <2>. QED BY <2>2, <2>3, <2>4
<1>. QED BY <1>2, <1>3

\* No publisher has a negative limit.
LEMMA OldestIsNat ==
    ASSUME NEW n \in PubType
    PROVE  Oldest(n) \in Nat
<1>1. n.slept \in Nat /\ n.wait \in Nat
  BY DEF PubType
<1>2. Interval \in Nat /\ ReachTime \in Nat /\ ExchangeTime \in Nat
  BY Durations
<1>3. Before(n.missed) \in Nat /\ Since(n) \in Nat
  BY <1>1, <1>2 DEF Before, Since
<1>. QED BY <1>3 DEF Oldest

\* The ages when a request has been handled.
LEMMA HandledAge ==
    ASSUME pubs' \in [Publishers -> PubType],
           \A q \in Publishers : pubs'[q].st = pubs[q].st,
           \/ unlisted'
           \/ listed'[Mine] = 0
           \/ \A q \in Publishers : pubs[q].st \notin {"starting", "running"}
    PROVE  AgeInv'
<1>1. ASSUME ~unlisted', listed'[Mine] = 0, NEW q \in Publishers
      PROVE  listed'[Mine] <= pubs'[q].wait /\ listed'[Mine] <= Oldest(pubs'[q])
  <2>1. Oldest(pubs'[q]) \in Nat
    BY OldestIsNat
  <2>2. pubs'[q].wait \in Nat
    BY DEF PubType
  <2>. QED BY <1>1, <2>1, <2>2
<1>2. ASSUME NEW q \in Publishers, pubs[q].st \notin {"starting", "running"}
      PROVE  pubs'[q].st \notin {"starting", "running"}
  BY <1>2
<1>. QED BY <1>1, <1>2 DEF AgeInv

\* The directory handles a request that is under way.
LEMMA TimingHandled ==
    ASSUME TimingInv, NEW p \in Publishers, Handled(p)
    PROVE  TimingInv'
<1>. DEFINE m == IF pubs[p].req = "REGISTER" THEN 0 ELSE pubs[p].missed
            n == [pubs[p] EXCEPT !.handled = TRUE, !.missed = m]
<1>1. /\ pubs \in [Publishers -> PubType] /\ pubs[p] \in PubType
      /\ pubs[p].req \in {"REGISTER", "UNREGISTER"} /\ pubs[p].missed \in 0 .. 2
      /\ pubs[p].reached
  BY PubFields DEF Handled, TimingInv, TimingTypeOK, CountersInv
<1>2. pubs[p].req = "UNREGISTER" => Dropped(p)
  BY DEF TimingInv, OrderInv, Dropped
<1>3. /\ listed' \in [Keys -> Nat] /\ unlisted' \in BOOLEAN
      /\ \/ unlisted'
         \/ listed'[Mine] = 0
         \/ \A q \in Publishers : pubs[q].st \notin {"starting", "running"}
  BY <1>1, <1>2, HandledEntry DEF Handled
<1>4. pubs' = [pubs EXCEPT ![p] = n] /\ late' = late
  BY <1>1 DEF Handled
<1>5. m \in 0 .. 2
  BY <1>1, Zero
<1>6. n \in PubType
  <2>. HIDE DEF m
  <2>. QED BY <1>1, <1>5 DEF PubType
<1>7. /\ n.st = pubs[p].st /\ n.req = pubs[p].req /\ n.wait = pubs[p].wait
      /\ n.slept = pubs[p].slept /\ n.reached = pubs[p].reached
  BY <1>1 DEF PubType
<1>. HIDE DEF m, n
<1>8. /\ pubs' \in [Publishers -> PubType]
      /\ \A q \in Publishers : /\ pubs'[q].st = pubs[q].st /\ pubs'[q].req = pubs[q].req
                               /\ pubs'[q].wait = pubs[q].wait
                               /\ pubs'[q].slept = pubs[q].slept
                               /\ pubs'[q].reached = pubs[q].reached
                               /\ Limit(pubs'[q]) = Limit(pubs[q])
                               /\ q # p => pubs'[q] = pubs[q]
  BY <1>1, <1>4, <1>6, <1>7 DEF Limit
<1>9. TimingTypeOK'
  BY <1>3, <1>4, <1>8 DEF TimingInv, TimingTypeOK
<1>10. CountersInv'
  <2>1. ASSUME NEW q \in Publishers
        PROVE  /\ pubs'[q].st = "none" => pubs'[q].req = "none"
               /\ pubs'[q].req = "none" => pubs'[q].wait = 0 /\ ~pubs'[q].reached
               /\ pubs'[q].handled => pubs'[q].reached
               /\ pubs'[q].wait <= Limit(pubs'[q]) /\ pubs'[q].slept <= Interval
    <3>1. CASE q = p
      BY <1>1, <1>8, <3>1 DEF TimingInv, CountersInv
    <3>2. CASE q # p
      BY <1>8, <3>2 DEF TimingInv, CountersInv
    <3>. QED BY <3>1, <3>2
  <2>. QED BY <2>1 DEF CountersInv
<1>11. OrderInv'
  <2>1. \A q \in Publishers : Dropped(q)' = Dropped(q)
    BY <1>8 DEF Dropped
  <2>2. \A r \in late : r.pub \in Publishers
    BY DEF TimingInv, TimingTypeOK
  <2>. QED BY <1>4, <1>8, <2>1, <2>2 DEF TimingInv, OrderInv
<1>12. AgeInv'
  BY <1>3, <1>8, HandledAge
<1>. QED BY <1>9, <1>10, <1>11, <1>12 DEF TimingInv

\* What is left of a request that was given up is handled, or lost.
LEMMA TimingLate ==
    ASSUME TimingInv, NEW r \in late, HandledLate(r)
    PROVE  TimingInv'
<1>1. /\ listed \in [Keys -> Nat] /\ pubs \in [Publishers -> PubType]
      /\ late \subseteq [pub : Publishers, req : {"REGISTER", "UNREGISTER"}]
      /\ r.pub \in Publishers /\ r.req \in {"REGISTER", "UNREGISTER"}
  BY DEF TimingInv, TimingTypeOK
<1>2. r.req = "UNREGISTER" => Dropped(r.pub)
  BY DEF TimingInv, OrderInv
<1>3. pubs' = pubs /\ late' \subseteq late
  BY DEF HandledLate
<1>4. CASE UNCHANGED <<listed, unlisted>>
  <2>1. TimingTypeOK'
    BY <1>3, <1>4 DEF TimingInv, TimingTypeOK
  <2>2. CountersInv' /\ OrderInv'
    BY <1>3 DEF TimingInv, CountersInv, OrderInv, Dropped
  <2>3. AgeInv'
    BY <1>3, <1>4 DEF TimingInv, AgeInv
  <2>. QED BY <2>1, <2>2, <2>3 DEF TimingInv
<1>5. CASE HandleRequest(r.pub, r.req)
  <2>1. /\ listed' \in [Keys -> Nat] /\ unlisted' \in BOOLEAN
        /\ \/ unlisted'
           \/ listed'[Mine] = 0
           \/ \A q \in Publishers : pubs[q].st \notin {"starting", "running"}
    BY <1>1, <1>2, <1>5, HandledEntry
  <2>2. TimingTypeOK'
    BY <1>1, <1>3, <2>1 DEF TimingTypeOK
  <2>3. CountersInv' /\ OrderInv'
    BY <1>3 DEF TimingInv, CountersInv, OrderInv, Dropped
  <2>4. AgeInv'
    BY <1>1, <1>3, <2>1, HandledAge
  <2>. QED BY <2>2, <2>3, <2>4 DEF TimingInv
<1>. QED BY <1>4, <1>5 DEF HandledLate

\* The directory forgets its entries.
LEMMA TimingRestart ==
    ASSUME TimingInv, DirectoryRestarts
    PROVE  TimingInv'
<1>1. /\ listed' = [k \in Keys |-> None] /\ unlisted' = TRUE /\ UNCHANGED <<pubs, late>>
      /\ None \in Nat
  BY Durations DEF DirectoryRestarts
<1>2. TimingTypeOK'
  BY <1>1 DEF TimingInv, TimingTypeOK
<1>3. CountersInv' /\ OrderInv'
  BY <1>1 DEF TimingInv, CountersInv, OrderInv, Dropped
<1>4. AgeInv'
  BY <1>1 DEF AgeInv
<1>. QED BY <1>2, <1>3, <1>4 DEF TimingInv

\* An entry does not age by more than the time that passes.
LEMMA OlderByOne ==
    ASSUME NEW age \in Nat
    PROVE  Older(age) \in Nat /\ Older(age) <= age + 1
BY Durations DEF Older

\* A unit of time passes: the counter of a publisher that sleeps or waits
\* advances with the age of the entry.
LEMMA TimingTick ==
    ASSUME TimingInv, Tick
    PROVE  TimingInv'
<1>1. /\ listed \in [Keys -> Nat] /\ pubs \in [Publishers -> PubType]
      /\ UNCHANGED <<late, unlisted>> /\ listed[Mine] \in Nat /\ Mine \in Keys
  BY Durations DEF TimingInv, TimingTypeOK, Tick
<1>2. listed' \in [Keys -> Nat] /\ listed'[Mine] \in Nat /\ listed'[Mine] <= listed[Mine] + 1
  <2>1. listed' = [listed EXCEPT ![Mine] = Older(listed[Mine])]
    BY DEF Tick
  <2>2. Older(listed[Mine]) \in Nat /\ Older(listed[Mine]) <= listed[Mine] + 1
    BY <1>1, OlderByOne
  <2>. QED BY <1>1, <2>1, <2>2
<1>3. ASSUME NEW p \in Publishers
      PROVE  /\ pubs'[p] \in PubType /\ pubs'[p].st = pubs[p].st
             /\ pubs'[p].req = pubs[p].req /\ pubs'[p].handled = pubs[p].handled
             /\ pubs'[p].missed = pubs[p].missed /\ pubs'[p].reached = pubs[p].reached
             /\ pubs'[p].wait  = IF pubs[p].req # "none" THEN pubs[p].wait + 1 ELSE pubs[p].wait
             /\ pubs'[p].slept = IF Sleeping(p) THEN pubs[p].slept + 1 ELSE pubs[p].slept
  <2>. DEFINE w == IF pubs[p].req # "none" THEN pubs[p].wait + 1 ELSE pubs[p].wait
              s == IF Sleeping(p) THEN pubs[p].slept + 1 ELSE pubs[p].slept
  <2>1. pubs'[p] = [pubs[p] EXCEPT !.wait = w, !.slept = s]
    BY DEF Tick
  <2>2. pubs[p] \in PubType /\ pubs[p].wait \in Nat /\ pubs[p].slept \in Nat
    BY PubFields
  <2>3. w \in Nat /\ s \in Nat
    BY <2>2
  <2>. HIDE DEF w, s
  <2>4. pubs'[p] \in PubType
    BY <2>1, <2>2, <2>3 DEF PubType
  <2>5. /\ pubs'[p].st = pubs[p].st
        /\ pubs'[p].req = pubs[p].req /\ pubs'[p].handled = pubs[p].handled
        /\ pubs'[p].missed = pubs[p].missed /\ pubs'[p].reached = pubs[p].reached
        /\ pubs'[p].wait = w /\ pubs'[p].slept = s
    BY <2>1, <2>2, <2>3 DEF PubType
  <2>. QED BY <2>4, <2>5 DEF w, s
<1>4. TimingTypeOK'
  <2>1. pubs' \in [Publishers -> PubType]
    BY <1>3 DEF Tick
  <2>. QED BY <1>1, <1>2, <2>1 DEF TimingInv, TimingTypeOK
<1>5. CountersInv'
  <2>1. ASSUME NEW p \in Publishers
        PROVE  /\ pubs'[p].st = "none" => pubs'[p].req = "none"
               /\ pubs'[p].req = "none" => pubs'[p].wait = 0 /\ ~pubs'[p].reached
               /\ pubs'[p].handled => pubs'[p].reached
    BY <1>3 DEF TimingInv, CountersInv
  <2>2. ASSUME NEW p \in Publishers
        PROVE  pubs'[p].wait <= Limit(pubs'[p]) /\ pubs'[p].slept <= Interval
    <3>1. /\ pubs[p].wait \in Nat /\ pubs[p].slept \in Nat
          /\ pubs[p].wait <= Limit(pubs[p]) /\ pubs[p].slept <= Interval
          /\ Interval \in Nat /\ Limit(pubs[p]) \in Nat
      BY PubFields, Durations
    <3>2. /\ pubs[p].req # "none" => pubs[p].wait < Limit(pubs[p])
          /\ Sleeping(p) => pubs[p].slept < Interval
      BY DEF Tick
    <3>3. pubs'[p].wait <= Limit(pubs'[p])
      <4>1. Limit(pubs'[p]) = Limit(pubs[p])
        BY <1>3 DEF Limit
      <4>2. pubs'[p].wait <= Limit(pubs[p])
        BY <1>3, <3>1, <3>2
      <4>. QED BY <4>1, <4>2
    <3>4. pubs'[p].slept <= Interval
      BY <1>3, <3>1, <3>2
    <3>. QED BY <3>3, <3>4
  <2>. QED BY <2>1, <2>2 DEF CountersInv
<1>6. OrderInv'
  <2>1. \A q \in Publishers : Dropped(q)' = Dropped(q)
    BY <1>3 DEF Dropped
  <2>2. \A r \in late : r.pub \in Publishers
    BY DEF TimingInv, TimingTypeOK
  <2>. QED BY <1>1, <1>3, <2>1, <2>2 DEF TimingInv, OrderInv
<1>7. AgeInv'
  <2>1. ASSUME ~unlisted, NEW p \in Publishers,
               pubs[p].st \in {"starting", "running"}, pubs[p].handled
        PROVE  listed'[Mine] <= pubs'[p].wait
    <3>1. pubs[p].req # "none"
      BY <2>1 DEF TimingInv, CountersInv
    <3>2. listed[Mine] <= pubs[p].wait
      BY <2>1 DEF TimingInv, AgeInv
    <3>3. pubs[p].wait \in Nat /\ pubs'[p].wait = pubs[p].wait + 1
      BY <1>3, <3>1, PubFields
    <3>. QED BY <1>1, <1>2, <3>2, <3>3
  <2>2. ASSUME ~unlisted, NEW p \in Publishers,
               pubs[p].st = "running", ~pubs[p].handled, Lasts(pubs[p].missed)
        PROVE  listed'[Mine] <= Oldest(pubs'[p])
    <3>1. listed[Mine] <= Oldest(pubs[p])
      BY <2>2 DEF TimingInv, AgeInv
    <3>2. Oldest(pubs'[p]) = Oldest(pubs[p]) + 1
      <4>1. /\ pubs[p].wait \in Nat /\ pubs[p].slept \in Nat
            /\ Interval \in Nat /\ ReachTime \in Nat
        BY PubFields, Durations
      <4>2. Before(pubs[p].missed) \in Nat /\ Since(pubs[p]) \in Nat
        BY <4>1, Durations DEF Before, Since
      <4>3. Since(pubs'[p]) = Since(pubs[p]) + 1
        <5>1. CASE pubs[p].req = "none"
          <6>1. pubs'[p].slept = pubs[p].slept + 1
            BY <1>3, <2>2, <5>1 DEF Sleeping
          <6>. QED BY <1>3, <5>1, <6>1 DEF Since
        <5>2. CASE pubs[p].req # "none"
          <6>1. pubs'[p].wait = pubs[p].wait + 1
            BY <1>3, <5>2
          <6>. QED BY <1>3, <4>1, <5>2, <6>1 DEF Since
        <5>. QED BY <5>1, <5>2
      <4>4. Oldest(pubs'[p]) = Before(pubs[p].missed) + Since(pubs'[p])
        BY <1>3 DEF Oldest
      <4>5. Oldest(pubs[p]) = Before(pubs[p].missed) + Since(pubs[p])
        BY DEF Oldest
      <4>. QED BY <4>2, <4>3, <4>4, <4>5
    <3>3. Oldest(pubs[p]) \in Nat
      BY <1>1, OldestIsNat
    <3>. QED BY <1>1, <1>2, <3>1, <3>2, <3>3
  <2>. QED BY <1>1, <1>3, <2>1, <2>2 DEF AgeInv
<1>. QED BY <1>4, <1>5, <1>6, <1>7 DEF TimingInv

\* Every step preserves TimingInv.
LEMMA TimingStep ==
    ASSUME TimingInv, [Next]_vars
    PROVE  TimingInv'
<1>1. ASSUME NEW p \in Publishers, Answered(p)
      PROVE  TimingInv'
  <2>1. pubs[p].req # "none"
    BY <1>1 DEF Answered, TimingInv, CountersInv
  <2>. QED BY <1>1, <2>1, TimingEndRequest DEF Answered
<1>2. ASSUME NEW p \in Publishers, NEW b \in BOOLEAN, RequestFails(p, b)
      PROVE  TimingInv'
  <2>1. late' = late \/ late' = late \cup {[pub |-> p, req |-> pubs[p].req]}
    BY <1>2 DEF RequestFails
  <2>. QED BY <1>2, <2>1, TimingEndRequest DEF RequestFails
<1>3. CASE BeginLookup \/ ReadLine \/ ReadEnds \/ LookupFails \/ UNCHANGED vars
  <2>1. UNCHANGED <<listed, pubs, late, unlisted>>
    BY <1>3 DEF BeginLookup, ReadLine, ReadEnds, LookupFails, vars
  <2>2. listed' \in [Keys -> Nat]
    BY <2>1 DEF TimingInv, TimingTypeOK
  <2>. QED BY <2>1, <2>2, EntryKept
<1>. QED BY <1>1, <1>2, <1>3, TimingPublisher, TimingHandled, TimingLate, TimingOthers,
            TimingRestart, TimingTick DEF Next

\* A server that is published stays visible, for any interval of renewals, life
\* of an entry and limits of a request's phases for which the entry outlives the
\* time from one handled renewal to the end of the next, as it does with those
\* of the code, and with any number of publishers, some of which are still
\* withdrawing (publish_loop, send_request, remove_stale_locked).
THEOREM PublishedStaysListed == Spec => []RenewedStaysListed
<1>1. Init => TimingInv
  BY TimingInit
<1>2. TimingInv /\ [Next]_vars => TimingInv'
  BY TimingStep
<1>3. TimingInv => RenewedStaysListed
  BY YoungIsVisible DEF RenewedStaysListed
<1>. QED BY <1>1, <1>2, <1>3, PTL DEF Spec

-----------------------------------------------------------------------------
(***************************************************************************)
(* What list_servers returns.                                              *)
(***************************************************************************)
Lines == Keys \cup {END}

\* END is only the last of the lines still to be read, and has not been read;
\* what was read and what is still to be read are the whole response.
ResponseInv ==
    /\ lookup.got \in Seq(Lines) /\ lookup.lines \in Seq(Lines)
    /\ lookup.st = "reading" =>
          /\ ToSet(lookup.got) \cup ToSet(lookup.lines) = lookup.whole \cup {END}
          /\ END \notin ToSet(lookup.got)
          /\ \A i \in 1 .. Len(lookup.lines) : lookup.lines[i] = END => i = Len(lookup.lines)

LookupType ==
    [st : {"idle", "asked", "reading", "ok", "failed"}, lines : Seq(Lines), got : Seq(Lines),
     whole : SUBSET Keys]

LookupInv == lookup \in LookupType /\ ResponseInv /\ ListIsWhole

\* The keys are finitely many, and END is none of them.
LEMMA KeysAreFinite == IsFiniteSet(Keys) /\ END \notin Keys
<1>1. IsFiniteSet(Others \cup {Mine})
  BY DirectoryAssumption, FS_AddElement
<1>. QED BY <1>1, DirectoryAssumption DEF Keys, END, Mine

\* SetToSeq enumerates a finite set.
LEMMA Enumeration ==
    ASSUME NEW S, IsFiniteSet(S)
    PROVE  SetToSeq(S) \in Seq(S) /\ ToSet(SetToSeq(S)) = S
<1>. DEFINE n == Cardinality(S)
            f == SetToSeq(S)
<1>1. n \in Nat /\ ExistsBijection(1 .. n, S)
  BY FS_CardinalityType
<1>2. \E g \in [1 .. n -> S] : IsInjective(g)
  BY <1>1 DEF ExistsBijection, Bijection, Injection
<1>3. f \in [1 .. n -> S] /\ IsInjective(f)
  BY <1>2 DEF SetToSeq
<1>4. IsFiniteSet(1 .. n) /\ Cardinality(1 .. n) = n
  BY <1>1, FS_Interval
<1>. HIDE DEF n, f
<1>5. f \in Surjection(1 .. n, S)
  <2>1. f \in Injection(1 .. n, S)
    BY <1>3 DEF Injection
  <2>2. Cardinality(1 .. n) = Cardinality(S)
    BY <1>4 DEF n
  <2>. QED BY <2>1, <2>2, FS_Injection
<1>6. ToSet(f) = S
  BY <1>3, <1>5 DEF ToSet, Surjection
<1>7. f \in Seq(S)
  BY <1>1, <1>3
<1>. QED BY <1>6, <1>7 DEF f

\* What a sequence holds when an element is added.
LEMMA AppendedSet ==
    ASSUME NEW T, NEW s \in Seq(T), NEW e \in T
    PROVE  /\ Append(s, e) \in Seq(T) /\ ToSet(Append(s, e)) = ToSet(s) \cup {e}
           /\ Len(Append(s, e)) = Len(s) + 1 /\ Len(s) \in Nat
           /\ \A i \in 1 .. Len(s) : Append(s, e)[i] = s[i]
<1>1. /\ Append(s, e) \in Seq(T) /\ Len(Append(s, e)) = Len(s) + 1 /\ Len(s) \in Nat
      /\ Append(s, e)[Len(s) + 1] = e
      /\ \A i \in 1 .. Len(s) : Append(s, e)[i] = s[i]
      /\ DOMAIN s = 1 .. Len(s) /\ DOMAIN Append(s, e) = 1 .. (Len(s) + 1)
  OBVIOUS
<1>. DEFINE a == Append(s, e)
<1>. HIDE DEF a
<1>2. ASSUME NEW x \in ToSet(a) PROVE x \in ToSet(s) \cup {e}
  <2>1. PICK i \in 1 .. (Len(s) + 1) : x = a[i]
    BY <1>1 DEF ToSet, a
  <2>2. i \in 1 .. Len(s) \/ i = Len(s) + 1
    BY <1>1
  <2>. QED BY <1>1, <2>1, <2>2 DEF ToSet, a
<1>3. ASSUME NEW x \in ToSet(s) PROVE x \in ToSet(a)
  <2>1. PICK i \in 1 .. Len(s) : x = s[i]
    BY <1>1 DEF ToSet
  <2>2. i \in 1 .. (Len(s) + 1)
    BY <1>1
  <2>. QED BY <1>1, <2>1, <2>2 DEF ToSet, a
<1>4. e \in ToSet(a)
  <2>1. Len(s) + 1 \in 1 .. (Len(s) + 1)
    BY <1>1
  <2>. QED BY <1>1, <2>1 DEF ToSet, a
<1>5. ToSet(a) = ToSet(s) \cup {e}
  BY <1>2, <1>3, <1>4
<1>. QED BY <1>1, <1>5 DEF a

\* A sequence without elements.
LEMMA EmptySeq ==
    ASSUME NEW T, NEW s \in Seq(T), Len(s) = 0
    PROVE  s = <<>>
OBVIOUS

\* What a sequence holds, first element and rest.
LEMMA TailSet ==
    ASSUME NEW T, NEW s \in Seq(T), s # <<>>
    PROVE  /\ Head(s) \in T /\ Tail(s) \in Seq(T) /\ ToSet(s) = {Head(s)} \cup ToSet(Tail(s))
           /\ Len(s) \in Nat /\ Len(s) >= 1 /\ Head(s) = s[1] /\ Len(Tail(s)) = Len(s) - 1
           /\ \A i \in 1 .. Len(Tail(s)) : Tail(s)[i] = s[i + 1]
<1>1. /\ Head(s) \in T /\ Tail(s) \in Seq(T)
      /\ Len(s) \in Nat /\ Len(s) >= 1 /\ Head(s) = s[1] /\ Len(Tail(s)) = Len(s) - 1
      /\ \A i \in 1 .. Len(Tail(s)) : Tail(s)[i] = s[i + 1]
      /\ DOMAIN s = 1 .. Len(s) /\ DOMAIN Tail(s) = 1 .. (Len(s) - 1)
  OBVIOUS
<1>. DEFINE t == Tail(s)
<1>. HIDE DEF t
<1>2. ASSUME NEW x \in ToSet(s) PROVE x \in {Head(s)} \cup ToSet(t)
  <2>1. PICK i \in 1 .. Len(s) : x = s[i]
    BY <1>1 DEF ToSet
  <2>2. i = 1 \/ i - 1 \in 1 .. (Len(s) - 1)
    BY <1>1
  <2>3. CASE i = 1
    BY <1>1, <2>1, <2>3
  <2>4. CASE i - 1 \in 1 .. (Len(s) - 1)
    <3>1. t[i - 1] = s[(i - 1) + 1] /\ (i - 1) + 1 = i
      BY <1>1, <2>4 DEF t
    <3>. QED BY <1>1, <2>1, <2>4, <3>1 DEF ToSet, t
  <2>. QED BY <2>2, <2>3, <2>4
<1>3. ASSUME NEW x \in ToSet(t) PROVE x \in ToSet(s)
  <2>1. PICK i \in 1 .. (Len(s) - 1) : x = t[i]
    BY <1>1 DEF ToSet, t
  <2>2. i + 1 \in 1 .. Len(s) /\ x = s[i + 1]
    BY <1>1, <2>1 DEF t
  <2>. QED BY <1>1, <2>2 DEF ToSet
<1>4. Head(s) \in ToSet(s)
  <2>1. 1 \in 1 .. Len(s)
    BY <1>1
  <2>. QED BY <1>1, <2>1 DEF ToSet
<1>5. ToSet(s) = {Head(s)} \cup ToSet(t)
  BY <1>2, <1>3, <1>4
<1>. QED BY <1>1, <1>5 DEF t

\* The first state satisfies LookupInv.
LEMMA LookupInit ==
    ASSUME Init
    PROVE  LookupInv
<1>1. <<>> \in Seq(Lines)
  OBVIOUS
<1>2. lookup = [st |-> "idle", lines |-> <<>>, got |-> <<>>, whole |-> {}]
  BY DEF Init, NoLookup
<1>. QED BY <1>1, <1>2 DEF LookupInv, LookupType, ResponseInv, ListIsWhole

\* The directory answers.
LEMMA LookupAnswered ==
    ASSUME LookupInv, HandleList
    PROVE  LookupInv'
<1>. DEFINE keys == {k \in Keys : Visible(k)}
            order == SetToSeq(keys)
            lines == Append(order, END)
<1>1. keys \subseteq Keys /\ IsFiniteSet(keys) /\ END \notin keys
  BY KeysAreFinite, FS_Subset
<1>2. lookup' = [st |-> "reading", got |-> <<>>, whole |-> keys, lines |-> lines]
  BY DEF HandleList
<1>. HIDE DEF keys
<1>3. order \in Seq(keys) /\ ToSet(order) = keys
  BY <1>1, Enumeration
<1>. HIDE DEF order
<1>4. order \in Seq(Lines) /\ END \in Lines
  BY <1>1, <1>3 DEF Lines
<1>5. /\ lines \in Seq(Lines) /\ ToSet(lines) = keys \cup {END}
      /\ Len(lines) = Len(order) + 1 /\ Len(order) \in Nat
      /\ \A i \in 1 .. Len(order) : lines[i] = order[i]
  BY <1>3, <1>4, AppendedSet
<1>6. \A i \in 1 .. Len(lines) : lines[i] = END => i = Len(lines)
  <2>1. \A i \in 1 .. Len(order) : order[i] \in keys
    BY <1>3
  <2>2. \A i \in 1 .. Len(lines) : i # Len(lines) => i \in 1 .. Len(order)
    BY <1>5
  <2>. QED BY <1>1, <1>5, <2>1, <2>2
<1>. HIDE DEF lines
<1>7. <<>> \in Seq(Lines) /\ ToSet(<<>>) = {}
  BY DEF ToSet
<1>8. lookup'.st = "reading" /\ lookup'.got = <<>> /\ lookup'.whole = keys /\ lookup'.lines = lines
  BY <1>2
<1>9. lookup' \in LookupType
  BY <1>1, <1>2, <1>5, <1>7 DEF LookupType
<1>10. ResponseInv' /\ ListIsWhole'
  BY <1>5, <1>6, <1>7, <1>8 DEF ResponseInv, ListIsWhole
<1>. QED BY <1>9, <1>10 DEF LookupInv

\* A line is read.
LEMMA LookupLine ==
    ASSUME LookupInv, ReadLine
    PROVE  LookupInv'
<1>. DEFINE line == Head(lookup.lines)
            st == IF line = END THEN "ok" ELSE lookup.st
<1>1. /\ lookup \in LookupType /\ lookup.got \in Seq(Lines) /\ lookup.lines \in Seq(Lines)
      /\ lookup.st = "reading" /\ lookup.lines # <<>> /\ lookup.whole \subseteq Keys
  BY DEF LookupInv, LookupType, ReadLine
<1>2. lookup' = [lookup EXCEPT !.got = Append(lookup.got, line), !.lines = Tail(lookup.lines),
                               !.st = st]
  BY DEF ReadLine
<1>3. /\ line \in Lines /\ Tail(lookup.lines) \in Seq(Lines)
      /\ ToSet(lookup.lines) = {line} \cup ToSet(Tail(lookup.lines))
      /\ Len(lookup.lines) \in Nat /\ Len(lookup.lines) >= 1 /\ line = lookup.lines[1]
      /\ Len(Tail(lookup.lines)) = Len(lookup.lines) - 1
      /\ \A i \in 1 .. Len(Tail(lookup.lines)) : Tail(lookup.lines)[i] = lookup.lines[i + 1]
  BY <1>1, TailSet
<1>. HIDE DEF line
<1>4. /\ Append(lookup.got, line) \in Seq(Lines)
      /\ ToSet(Append(lookup.got, line)) = ToSet(lookup.got) \cup {line}
  BY <1>1, <1>3, AppendedSet
<1>5. st \in {"reading", "ok"} /\ (st = "ok" <=> line = END)
  BY <1>1
<1>. HIDE DEF st
<1>6. lookup' \in LookupType
  BY <1>1, <1>2, <1>3, <1>4, <1>5 DEF LookupType
<1>7. /\ lookup'.got = Append(lookup.got, line) /\ lookup'.lines = Tail(lookup.lines)
      /\ lookup'.st = st /\ lookup'.whole = lookup.whole
  BY <1>1, <1>2 DEF LookupType
<1>8. /\ ToSet(lookup.got) \cup ToSet(lookup.lines) = lookup.whole \cup {END}
      /\ END \notin ToSet(lookup.got)
      /\ \A i \in 1 .. Len(lookup.lines) : lookup.lines[i] = END => i = Len(lookup.lines)
  BY <1>1 DEF LookupInv, ResponseInv
<1>9. ToSet(lookup'.got) \cup ToSet(lookup'.lines) = lookup'.whole \cup {END}
  BY <1>3, <1>4, <1>7, <1>8
<1>10. st # "ok" => END \notin ToSet(lookup'.got)
  BY <1>4, <1>5, <1>7, <1>8
<1>11. \A i \in 1 .. Len(lookup'.lines) : lookup'.lines[i] = END => i = Len(lookup'.lines)
  <2>1. ASSUME NEW i \in 1 .. Len(Tail(lookup.lines)), Tail(lookup.lines)[i] = END
        PROVE  i = Len(Tail(lookup.lines))
    <3>1. i + 1 \in 1 .. Len(lookup.lines) /\ lookup.lines[i + 1] = END
      BY <1>3, <2>1
    <3>2. i + 1 = Len(lookup.lines)
      BY <1>8, <3>1
    <3>. QED BY <1>3, <3>2
  <2>. QED BY <1>7, <2>1
<1>12. ResponseInv'
  BY <1>3, <1>4, <1>5, <1>7, <1>9, <1>10, <1>11 DEF ResponseInv
<1>13. ListIsWhole'
  <2>1. ASSUME line = END
        PROVE  ToSet(lookup'.got) = lookup'.whole \cup {END}
    <3>1. Len(lookup.lines) = 1
      <4>1. 1 \in 1 .. Len(lookup.lines)
        BY <1>3
      <4>. QED BY <1>3, <1>8, <2>1, <4>1
    <3>2. ToSet(Tail(lookup.lines)) = {}
      <4>1. Len(Tail(lookup.lines)) = 0
        BY <1>3, <3>1
      <4>2. Tail(lookup.lines) = <<>>
        BY <1>3, <4>1, EmptySeq
      <4>. QED BY <4>2 DEF ToSet
    <3>. QED BY <1>4, <1>7, <1>9, <2>1, <3>2
  <2>. QED BY <1>5, <1>7, <2>1 DEF ListIsWhole
<1>. QED BY <1>6, <1>12, <1>13 DEF LookupInv

\* A call begins, or ends without the last line.
LEMMA LookupEnds ==
    ASSUME LookupInv, BeginLookup \/ ReadEnds \/ LookupFails
    PROVE  LookupInv'
<1>1. /\ lookup \in LookupType /\ lookup.got \in Seq(Lines) /\ <<>> \in Seq(Lines)
  BY DEF LookupInv, LookupType
<1>2. CASE BeginLookup
  <2>1. lookup' = [st |-> "asked", lines |-> <<>>, got |-> <<>>, whole |-> {}]
    BY <1>2 DEF BeginLookup, NoLookup
  <2>. QED BY <1>1, <2>1 DEF LookupInv, LookupType, ResponseInv, ListIsWhole
<1>3. CASE ReadEnds \/ LookupFails
  <2>1. lookup' = [lookup EXCEPT !.st = "failed", !.lines = <<>>]
    <3>1. CASE ReadEnds
      <4>1. END \notin ToSet(lookup.got)
        BY <3>1 DEF ReadEnds, LookupInv, ResponseInv
      <4>. QED BY <3>1, <4>1 DEF ReadEnds, Parsed, EndLookup
    <3>2. CASE LookupFails
      BY <3>2 DEF LookupFails, EndLookup
    <3>. QED BY <1>3, <3>1, <3>2
  <2>2. lookup' \in LookupType
    BY <1>1, <2>1 DEF LookupType
  <2>3. lookup'.st = "failed" /\ lookup'.lines = <<>> /\ lookup'.got = lookup.got
    BY <1>1, <2>1 DEF LookupType
  <2>. QED BY <1>1, <2>2, <2>3 DEF LookupInv, ResponseInv, ListIsWhole
<1>. QED BY <1>2, <1>3

\* The list that a user is shown is never a part of the directory's entries,
\* for any number of entries and any limit of the lines that are read: a
\* response that ends without its last line is a failure (list_servers).
THEOREM ListsAreWhole == Spec => []ListIsWhole
<1>1. Init => LookupInv
  BY LookupInit
<1>2. ASSUME LookupInv, [Next]_vars PROVE LookupInv'
  <2>1. CASE lookup' = lookup
    BY <1>2, <2>1 DEF LookupInv, ResponseInv, ListIsWhole
  <2>2. CASE HandleList \/ ReadLine \/ BeginLookup \/ ReadEnds \/ LookupFails
    BY <1>2, <2>2, LookupAnswered, LookupLine, LookupEnds
  <2>3. CASE UNCHANGED vars
    BY <2>1, <2>3 DEF vars
  <2>4. ASSUME NEW p \in Publishers,
               \/ Publish(p) \/ Reached(p) \/ Handled(p) \/ Answered(p) \/ CancelPublication(p)
               \/ Renew(p) \/ Drop(p) \/ Withdraw(p)
               \/ \E b \in BOOLEAN : RequestFails(p, b)
        PROVE  LookupInv'
    BY <2>1, <2>4 DEF Publish, Reached, Handled, Answered, CancelPublication, Renew, Drop,
                      Withdraw, RequestFails
  <2>5. CASE (\E r \in late : HandledLate(r)) \/ (\E k \in Others : OtherHost(k))
             \/ DirectoryRestarts \/ Tick
    BY <2>1, <2>5 DEF HandledLate, OtherHost, DirectoryRestarts, Tick
  <2>. QED BY <1>2, <2>2, <2>3, <2>4, <2>5 DEF Next
<1>3. LookupInv => ListIsWhole
  BY DEF LookupInv
<1>. QED BY <1>1, <1>2, <1>3, PTL DEF Spec
=============================================================================
