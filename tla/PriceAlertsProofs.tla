-------------------------- MODULE PriceAlertsProofs --------------------------
(***************************************************************************)
(* What price alerts promise, for every number of overlapping scrapes,     *)
(* alerts, pages, thresholds, edits and faults; and, when scrapes of the   *)
(* product run one at a time, that they implement AlertCooldown.           *)
(***************************************************************************)
EXTENDS PriceAlerts, FiniteSetTheorems, WellFoundedInduction, TLAPS

-----------------------------------------------------------------------------
(* The inductive invariant.                                                *)

(* The scrapes under way and those that notified alert a.                  *)
Scraping    == {w \in Workers : Busy(w)}
InFlight(a) == {w \in Workers : a \in Fired(w)}

(* No two transactions begin at one time.                                  *)
Clocked ==
  /\ \A r \in records : r.at <= clock
  /\ \A w \in Workers : Busy(w) =>
       /\ work[w].own.at <= clock
       /\ \A r \in records : r.at # work[w].own.at
       /\ \A v \in Workers \ {w} : Busy(v) => work[v].own.at # work[w].own.at

(* Every scrape is one of the transactions begun.                          *)
StreakBounded == streak + Cardinality(Scraping) <= clock

(* A scrape notifies once: before it, nothing of it is in flight.          *)
Unfired ==
  \A w \in Workers :
    work[w].pc \in {"record", "evaluate", "notify"} => work[w].fired = {}

(* The notices an alert is ahead of its rollbacks are in flight or began   *)
(* the cooldown it is in.  While it is not in one, all are in flight;      *)
(* while it is, one at least is not; and they never were more than there   *)
(* are workers, because none is added once it cools.                       *)
Even(a) ==
  LET n == Cardinality(InFlight(a))
  IN  /\ n <= sent[a] - rollbacks[a]
      /\ sent[a] - rollbacks[a] <= Cardinality(Workers)
      /\ alerts[a].cooling => n < sent[a] - rollbacks[a]
      /\ ~alerts[a].cooling /\ alerts[a].status # "deleted" =>
           n = sent[a] - rollbacks[a]
      /\ alerts[a].status = "absent" =>
           ~alerts[a].cooling /\ InFlight(a) = {}

Counted == \A a \in Alerts : Even(a)

(* A scrape that is to insert a price knows every alert it triggers, or    *)
(* its record will not be the latest.                                      *)
Noticed(w) ==
  work[w].pc \in {"notify", "flush", "commit"} /\ work[w].insert
  /\ work[w].own.ok =>
    \/ \E r \in records : r.at > work[w].own.at
    \/ /\ work[w].latest = work[w].own.price
       /\ work[w].pc # "notify" =>
            \A a \in Alerts \ work[w].touched :
              /\ alerts[a].status = "active"
              /\ ThresholdTriggered(alerts[a], work[w].latest)
              => alerts[a].cooling \/ a \in work[w].fired

Crossing == \A w \in Workers : Noticed(w)
-----------------------------------------------------------------------------
(* The operators.                                                          *)

LEMMA LeastElement ==
  ASSUME NEW S \in SUBSET Nat, S # {}
  PROVE  \E n \in S : \A m \in S : n <= m
<1>1. PICK n \in S : \A m \in S : ~(<<m, n>> \in OpToRel(<, Nat))
  BY NatLessThanWellFounded, WFMin
<1>2. \A m \in S : ~(m < n)
  BY <1>1 DEF OpToRel
<1>3. \A m \in S : n <= m
  BY <1>2
<1> QED
  BY <1>3

(* Latest is among the rows and none of them is later.                     *)
LEMMA LatestIsLast ==
  ASSUME NEW rows, rows \subseteq Record, rows # {}
  PROVE  Latest(rows) \in rows /\ \A q \in rows : q.at <= Latest(rows).at
<1> DEFINE S == {MaxScrapes - r.at : r \in rows}
<1>1. \A r \in rows : r.at \in 1..MaxScrapes
  BY DEF Record
<1>2. S \in SUBSET Nat /\ S # {}
  BY <1>1, AlertsAssumption
<1>3. PICK n \in S : \A m \in S : n <= m
  BY <1>2, LeastElement
<1>4. PICK r \in rows : n = MaxScrapes - r.at
  OBVIOUS
<1>5. ASSUME NEW q \in rows PROVE q.at <= r.at
  <2>1. n <= MaxScrapes - q.at
    BY <1>3
  <2>2. QED
    BY <1>1, <1>4, <2>1, AlertsAssumption
<1>6. \E t \in rows : \A q \in rows : q.at <= t.at
  BY <1>5
<1> HIDE DEF S
<1>7. QED
  BY <1>6 DEF Latest

(* A row that is later than all the others is the latest.                  *)
LEMMA LatestOf ==
  ASSUME NEW rows, rows \subseteq Record, NEW own \in rows,
         \A r \in rows \ {own} : r.at < own.at
  PROVE  Latest(rows) = own
<1>1. Latest(rows) \in rows /\ own.at <= Latest(rows).at
  BY LatestIsLast
<1>2. own.at \in Int /\ Latest(rows).at \in Int
  BY <1>1 DEF Record
<1>3. QED
  BY <1>1, <1>2

(* Two finite sets that differ in w at most.                               *)
LEMMA OneApart ==
  ASSUME NEW S, NEW T, IsFiniteSet(S), IsFiniteSet(T), NEW w,
         S \ {w} = T \ {w}
  PROVE  /\ Cardinality(S) \in Nat /\ Cardinality(T) \in Nat
         /\ (w \in S <=> w \in T) => T = S
         /\ w \in S /\ w \notin T => Cardinality(T) = Cardinality(S) - 1
         /\ w \notin S /\ w \in T => Cardinality(T) = Cardinality(S) + 1
<1>1. Cardinality(S) \in Nat /\ Cardinality(T) \in Nat
  BY FS_CardinalityType
<1>2. (w \in S <=> w \in T) => S = T
  OBVIOUS
<1>3. ASSUME w \in S, w \notin T PROVE Cardinality(T) = Cardinality(S) - 1
  <2>1. T = S \ {w}
    BY <1>3
  <2>2. QED
    BY <1>3, <2>1, FS_RemoveElement
<1>4. ASSUME w \notin S, w \in T PROVE Cardinality(T) = Cardinality(S) + 1
  <2>1. T = S \cup {w}
    BY <1>4
  <2>2. QED
    BY <1>4, <2>1, FS_AddElement
<1>5. QED
  BY <1>1, <1>2, <1>3, <1>4

LEMMA WorkerSets ==
  ASSUME NEW S, S \subseteq Workers
  PROVE  /\ IsFiniteSet(S) /\ Cardinality(S) \in Nat
         /\ Cardinality(Workers) \in Nat
         /\ Cardinality(S) <= Cardinality(Workers)
         /\ S # {} => Cardinality(S) >= 1
         /\ S = {} => Cardinality(S) = 0
<1>1. IsFiniteSet(S) /\ Cardinality(S) <= Cardinality(Workers)
  BY FS_Subset, AlertsAssumption
<1>2. Cardinality(S) \in Nat /\ Cardinality(Workers) \in Nat
  BY <1>1, FS_CardinalityType, AlertsAssumption
<1>3. Cardinality(S) = 0 <=> S = {}
  BY <1>1, FS_EmptySet
<1>4. QED
  BY <1>1, <1>2, <1>3
-----------------------------------------------------------------------------
(* Type correctness of each step.                                          *)

LEMMA BusyTyped ==
  ASSUME TypeOK, NEW w \in Workers, Busy(w)
  PROVE  /\ work[w] \in Job /\ work[w].own \in Record
         /\ work[w].insert \in BOOLEAN /\ work[w].latest \in Nat
         /\ work[w].fired \subseteq Alerts /\ work[w].touched \subseteq Alerts
         /\ Fired(w) = work[w].fired
BY DEF TypeOK, Busy, Idle, Job, Fired

LEMMA FiredTyped ==
  ASSUME TypeOK, NEW w \in Workers PROVE Fired(w) \subseteq Alerts
BY BusyTyped DEF Fired

LEMMA AlertTyped ==
  ASSUME TypeOK, NEW a \in Alerts
  PROVE  /\ alerts[a] \in Alert /\ sent[a] \in Nat /\ rollbacks[a] \in Nat
         /\ alerts[a].cooling \in BOOLEAN /\ alerts[a].edits \in 0..MaxEdits
         /\ alerts[a].status \in {"absent", "active", "paused", "deleted"}
BY DEF TypeOK, Alert

LEMMA BumpTyped ==
  ASSUME NEW f \in [Alerts -> Nat], NEW S
  PROVE  Bump(f, S) \in [Alerts -> Nat]
BY DEF Bump

(* A worker's step is its own.                                             *)
LEMMA OthersWork ==
  ASSUME TypeOK, NEW w \in Workers, Begin(w) \/ ScrapeStep(w) \/ Fail(w)
  PROVE  \A v \in Workers \ {w} : work'[v] = work[v]
BY DEF TypeOK, Begin, ScrapeStep, RecordPrice, EvaluateAlerts, NotifyAlerts,
       Flush, Commit, Fail, RollBack

LEMMA ObservedTyped ==
  ASSUME NEW t \in 1..MaxScrapes, NEW own \in Observed(t)
  PROVE  own \in Record /\ own.at = t
<1>1. CASE own \in [at: {t}, ok: {FALSE}, page: Pages, price: {0}]
  <2>1. FALSE \in BOOLEAN /\ 0 \in Nat
    OBVIOUS
  <2>2. [at: {t}, ok: {FALSE}, page: Pages, price: {0}] \subseteq Record
    BY <2>1 DEF Record
  <2>3. own.at = t
    BY <1>1
  <2>4. QED
    BY <1>1, <2>2, <2>3
<1>2. ASSUME NEW p \in Pages,
             own \in [at: {t}, ok: {TRUE}, page: {p}, price: Readings[p]]
      PROVE  own \in Record /\ own.at = t
  <2>1. Readings[p] \subseteq Nat
    BY AlertsAssumption
  <2>2. QED
    BY <1>2, <2>1 DEF Record
<1>3. QED
  BY <1>1, <1>2 DEF Observed

(* What each step leaves of the scrape it is part of.                      *)
LEMMA Begun ==
  ASSUME TypeOK, NEW w \in Workers, Begin(w)
  PROVE  /\ work'[w] \in Job /\ work'[w].pc = "record"
         /\ work'[w].own.at = clock + 1 /\ work'[w].fired = {}
         /\ clock' \in 0..MaxScrapes /\ clock' = clock + 1
<1>1. PICK own \in Observed(clock + 1) : work' = [work EXCEPT ![w] =
         [pc |-> "record", own |-> own, insert |-> FALSE,
          latest |-> own.price, fired |-> {}, touched |-> {}]]
  BY DEF Begin
<1>2. clock + 1 \in 1..MaxScrapes /\ clock' \in 0..MaxScrapes
  BY AlertsAssumption DEF Begin, TypeOK
<1>3. own \in Record /\ own.at = clock + 1
  BY <1>2, ObservedTyped
<1>4. own.price \in Nat
  BY <1>3 DEF Record
<1>5. [pc |-> "record", own |-> own, insert |-> FALSE,
       latest |-> own.price, fired |-> {}, touched |-> {}] \in Job
  BY <1>3, <1>4 DEF Job
<1>6. QED
  BY <1>1, <1>2, <1>3, <1>5 DEF TypeOK, Begin

LEMMA Recorded ==
  ASSUME TypeOK, NEW w \in Workers, RecordPrice(w)
  PROVE  LET j == work[w]
             k == work'[w]
         IN  /\ k \in Job
             /\ k.insert = ~IsDuplicate(records, j.own)
             /\ k.pc = IF j.own.ok /\ ~IsDuplicate(records, j.own)
                         THEN "evaluate" ELSE "commit"
             /\ k.own = j.own /\ k.latest = j.latest
             /\ k.fired = j.fired /\ k.touched = j.touched
<1> DEFINE d == IsDuplicate(records, work[w].own)
           pc == IF work[w].own.ok /\ ~d THEN "evaluate" ELSE "commit"
           k == [work[w] EXCEPT !.insert = ~d, !.pc = pc]
<1>1. work[w] \in Job
  BY BusyTyped DEF RecordPrice, Busy
<1>2. work'[w] = k
  BY DEF RecordPrice, TypeOK
<1>3. (~d) \in BOOLEAN /\ pc \in {"evaluate", "commit"}
  BY DEF IsDuplicate
<1> HIDE DEF d, pc
<1>4. /\ k \in Job /\ k.insert = ~d /\ k.pc = pc /\ k.own = work[w].own
      /\ k.latest = work[w].latest /\ k.fired = work[w].fired
      /\ k.touched = work[w].touched
  BY <1>1, <1>3 DEF Job
<1> HIDE DEF k
<1>5. QED
  BY <1>2, <1>4 DEF d, pc

LEMMA Evaluated ==
  ASSUME TypeOK, NEW w \in Workers, EvaluateAlerts(w)
  PROVE  LET j == work[w]
             k == work'[w]
             latest == Latest(records \cup {j.own})
         IN  /\ k \in Job
             /\ k.pc = IF latest.ok THEN "notify" ELSE "commit"
             /\ k.latest = latest.price
             /\ k.own = j.own /\ k.insert = j.insert
             /\ k.fired = j.fired /\ k.touched = j.touched
<1> DEFINE latest == Latest(records \cup {work[w].own})
           pc == IF latest.ok THEN "notify" ELSE "commit"
           k == [work[w] EXCEPT !.pc = pc, !.latest = latest.price]
<1>1. work[w] \in Job /\ work[w].own \in Record
  BY BusyTyped DEF EvaluateAlerts, Busy
<1>2. work'[w] = k
  BY DEF EvaluateAlerts, TypeOK
<1>3. latest \in records \cup {work[w].own}
  BY <1>1, LatestIsLast DEF TypeOK
<1>4. latest.price \in Nat /\ pc \in {"notify", "commit"}
  BY <1>1, <1>3 DEF TypeOK, Record
<1> HIDE DEF latest, pc
<1>5. /\ k \in Job /\ k.pc = pc /\ k.latest = latest.price
      /\ k.own = work[w].own /\ k.insert = work[w].insert
      /\ k.fired = work[w].fired /\ k.touched = work[w].touched
  BY <1>1, <1>4 DEF Job
<1> HIDE DEF k
<1>6. QED
  BY <1>2, <1>5 DEF latest, pc

LEMMA RolledBack ==
  ASSUME TypeOK, NEW w \in Workers, RollBack(w)
  PROVE  /\ work'[w] = Idle /\ ~Busy(w)' /\ Fired(w)' = {}
         /\ work' \in [Workers -> {Idle} \cup Job]
         /\ rollbacks' \in [Alerts -> Nat]
<1>1. work'[w] = Idle /\ work' \in [Workers -> {Idle} \cup Job]
  BY DEF RollBack, TypeOK
<1>2. ~Busy(w)' /\ Fired(w)' = {}
  BY <1>1 DEF Busy, Fired, Idle
<1>3. rollbacks' \in [Alerts -> Nat]
  BY BumpTyped DEF RollBack, TypeOK
<1>4. QED
  BY <1>1, <1>2, <1>3

(* NotifyAlerts either notifies all that are due and goes on, or notifies  *)
(* some, fails and is rolled back.                                         *)
LEMMA NotifiedAll ==
  ASSUME TypeOK, NEW w \in Workers, work[w].pc = "notify",
         work' = [work EXCEPT ![w].pc = "flush",
                              ![w].fired = Due(work[w].latest)]
  PROVE  LET j == work[w]
             k == work'[w]
         IN  /\ k \in Job /\ k.pc = "flush" /\ k.fired = Due(j.latest)
             /\ k.own = j.own /\ k.insert = j.insert
             /\ k.latest = j.latest /\ k.touched = j.touched
<1> DEFINE due == Due(work[w].latest)
           k == [work[w] EXCEPT !.pc = "flush", !.fired = due]
<1>1. work[w] \in Job
  BY BusyTyped DEF Busy
<1>2. work'[w] = k
  BY DEF TypeOK
<1>3. due \subseteq Alerts
  BY DEF Due
<1> HIDE DEF due
<1>4. /\ k \in Job /\ k.pc = "flush" /\ k.fired = due
      /\ k.own = work[w].own /\ k.insert = work[w].insert
      /\ k.latest = work[w].latest /\ k.touched = work[w].touched
  BY <1>1, <1>3 DEF Job
<1> HIDE DEF k
<1>5. QED
  BY <1>2, <1>4 DEF due

LEMMA Flushed ==
  ASSUME TypeOK, NEW w \in Workers, work[w].pc = "flush",
         work' = [work EXCEPT ![w].pc = "commit"]
  PROVE  LET j == work[w]
             k == work'[w]
         IN  /\ k \in Job /\ k.pc = "commit" /\ k.fired = j.fired
             /\ k.own = j.own /\ k.insert = j.insert
             /\ k.latest = j.latest /\ k.touched = j.touched
<1>1. work[w] \in Job
  BY BusyTyped DEF Busy
<1>2. work'[w] = [work[w] EXCEPT !.pc = "commit"]
  BY DEF TypeOK
<1>3. QED
  BY <1>1, <1>2 DEF Job

(* An edit of an alert is noted by the scrapes under way, and changes      *)
(* nothing else of them.                                                   *)
LEMMA Touched ==
  ASSUME TypeOK, NEW a \in Alerts, Touch(a), NEW w \in Workers
  PROVE  /\ Busy(w)' <=> Busy(w)
         /\ work'[w] \in {Idle} \cup Job
         /\ work'[w].pc = work[w].pc
         /\ Fired(w)' = Fired(w)
         /\ Busy(w) => /\ work'[w].own = work[w].own
                       /\ work'[w].insert = work[w].insert
                       /\ work'[w].latest = work[w].latest
                       /\ work'[w].fired = work[w].fired
                       /\ work'[w].touched = work[w].touched \cup {a}
<1>1. CASE Busy(w)
  <2>1. work'[w] = [work[w] EXCEPT !.touched = @ \cup {a}]
    BY <1>1 DEF Touch
  <2>2. work[w] \in Job
    BY <1>1, BusyTyped
  <2>3. /\ work'[w] \in Job /\ work'[w].pc = work[w].pc
        /\ work'[w].own = work[w].own /\ work'[w].insert = work[w].insert
        /\ work'[w].latest = work[w].latest
        /\ work'[w].fired = work[w].fired
        /\ work'[w].touched = work[w].touched \cup {a}
    BY <2>1, <2>2 DEF Job
  <2>4. QED
    BY <1>1, <2>3 DEF Busy, Fired
<1>2. CASE ~Busy(w)
  <2>1. work'[w] = Idle /\ work[w] = Idle
    BY <1>2 DEF Touch, TypeOK, Busy, Job
  <2>2. QED
    BY <2>1 DEF Busy, Fired, Idle
<1>3. QED
  BY <1>1, <1>2

(* The streak stays below the clock: a scrape that commits was begun.      *)
LEMMA StreakTyped ==
  ASSUME TypeOK, StreakBounded, NEW w \in Workers, Commit(w)
  PROVE  streak' \in 0..MaxScrapes
<1>1. w \in Scraping /\ Scraping \subseteq Workers
  BY DEF Commit, Scraping, Busy
<1>2. Cardinality(Scraping) \in Nat /\ Cardinality(Scraping) >= 1
  BY <1>1, WorkerSets
<1>3. streak + 1 <= clock
  BY <1>2 DEF StreakBounded, TypeOK
<1>4. QED
  BY <1>3, AlertsAssumption DEF Commit, TypeOK

LEMMA ScrapeTyped ==
  ASSUME TypeOK, StreakBounded, NEW w \in Workers,
         Begin(w) \/ ScrapeStep(w) \/ Fail(w)
  PROVE  TypeOK'
<1>1. CASE Begin(w)
  <2>1. work'[w] \in Job /\ clock' \in 0..MaxScrapes
    BY <1>1, Begun
  <2>2. work' \in [Workers -> {Idle} \cup Job]
    BY <1>1, <2>1 DEF Begin, TypeOK
  <2>3. QED
    BY <1>1, <2>1, <2>2 DEF Begin, TypeOK
<1>2. CASE RecordPrice(w) \/ EvaluateAlerts(w)
  <2>1. work'[w] \in Job
    BY <1>2, Recorded, Evaluated
  <2>2. work' = [work EXCEPT ![w] = work'[w]]
    BY <1>2 DEF RecordPrice, EvaluateAlerts, TypeOK
  <2>3. work' \in [Workers -> {Idle} \cup Job]
    BY <2>1, <2>2 DEF TypeOK
  <2>4. QED
    BY <1>2, <2>3 DEF RecordPrice, EvaluateAlerts, TypeOK
<1>3. CASE NotifyAlerts(w)
  <2>1. CASE /\ sent' = Bump(sent, Due(work[w].latest))
             /\ work' = [work EXCEPT ![w].pc = "flush",
                                     ![w].fired = Due(work[w].latest)]
             /\ UNCHANGED <<faults, rollbacks>>
    <3>1. work'[w] \in Job
      BY <1>3, <2>1, NotifiedAll DEF NotifyAlerts
    <3>2. work' = [work EXCEPT ![w] = work'[w]]
      BY <2>1 DEF TypeOK
    <3>3. work' \in [Workers -> {Idle} \cup Job]
      BY <3>1, <3>2 DEF TypeOK
    <3>4. sent' \in [Alerts -> Nat]
      BY <2>1, BumpTyped DEF TypeOK
    <3>5. QED
      BY <1>3, <2>1, <3>3, <3>4 DEF NotifyAlerts, TypeOK
  <2>2. CASE \E S \in SUBSET Due(work[w].latest) :
               /\ faults < MaxFaults /\ faults' = faults + 1
               /\ sent' = Bump(sent, S)
               /\ rollbacks' = Bump(rollbacks, S)
               /\ work' = [work EXCEPT ![w] = Idle]
    <3>1. sent' \in [Alerts -> Nat] /\ rollbacks' \in [Alerts -> Nat]
      BY <2>2, BumpTyped DEF TypeOK
    <3>2. faults' \in 0..MaxFaults
      BY <2>2, AlertsAssumption DEF TypeOK
    <3>3. work' \in [Workers -> {Idle} \cup Job]
      BY <2>2 DEF TypeOK
    <3>4. QED
      BY <1>3, <3>1, <3>2, <3>3 DEF NotifyAlerts, TypeOK
  <2>3. QED
    BY <1>3, <2>1, <2>2 DEF NotifyAlerts
<1>4. CASE Flush(w)
  <2>1. CASE RollBack(w)
    BY <1>4, <2>1, RolledBack DEF Flush, RollBack, TypeOK
  <2>2. CASE /\ work' = [work EXCEPT ![w].pc = "commit"]
             /\ UNCHANGED <<records, alerts, clock, sent, rollbacks, streak>>
    <3>1. work'[w] \in Job
      BY <1>4, <2>2, Flushed DEF Flush
    <3>2. work' = [work EXCEPT ![w] = work'[w]]
      BY <2>2 DEF TypeOK
    <3>3. work' \in [Workers -> {Idle} \cup Job]
      BY <3>1, <3>2 DEF TypeOK
    <3>4. QED
      BY <1>4, <2>2, <3>3 DEF Flush, TypeOK
  <2>3. QED
    BY <1>4, <2>1, <2>2 DEF Flush
<1>5. CASE Commit(w)
  <2>1. work[w].own \in Record
    BY <1>5, BusyTyped DEF Commit, Busy
  <2>2. records' \subseteq Record
    BY <1>5, <2>1 DEF Commit, TypeOK
  <2>3. \A a \in Alerts : [alerts[a] EXCEPT !.cooling = TRUE] \in Alert
    BY DEF TypeOK, Alert
  <2>4. alerts' \in [Alerts -> Alert]
    BY <1>5, <2>3 DEF Commit, TypeOK
  <2>5. work' \in [Workers -> {Idle} \cup Job]
    BY <1>5 DEF Commit, TypeOK
  <2>6. QED
    BY <1>5, <2>2, <2>4, <2>5, StreakTyped DEF Commit, TypeOK
<1>6. CASE Fail(w)
  <2>1. faults' \in 0..MaxFaults
    BY <1>6, AlertsAssumption DEF Fail, TypeOK
  <2>2. QED
    BY <1>6, <2>1, RolledBack DEF Fail, RollBack, TypeOK
<1>7. QED
  BY <1>1, <1>2, <1>3, <1>4, <1>5, <1>6 DEF ScrapeStep

LEMMA EditTyped ==
  ASSUME TypeOK, NEW a \in Alerts,
         CreateAlert(a) \/ UpdateAlert(a) \/ DeleteAlert(a)
           \/ CooldownElapses(a)
  PROVE  TypeOK'
<1>1. work' \in [Workers -> {Idle} \cup Job]
  <2>1. Touch(a)
    BY DEF CreateAlert, UpdateAlert, DeleteAlert, CooldownElapses
  <2>2. \A w \in Workers : work'[w] \in {Idle} \cup Job
    BY <2>1, Touched
  <2>3. work' = [w \in Workers |-> work'[w]]
    BY <2>1 DEF Touch
  <2>4. QED
    BY <2>2, <2>3
<1>2. alerts[a] \in Alert /\ alerts[a].edits \in 0..MaxEdits
  BY AlertTyped
<1>3. alerts' \in [Alerts -> Alert]
  <2>1. CASE CreateAlert(a)
    <3>1. PICK d \in Directions, t \in Thresholds :
            alerts' = [alerts EXCEPT ![a].status = "active",
                                ![a].direction = d, ![a].threshold = t]
      BY <2>1 DEF CreateAlert
    <3>2. [alerts[a] EXCEPT !.status = "active", !.direction = d,
                            !.threshold = t] \in Alert
      BY <1>2 DEF Alert
    <3>3. QED
      BY <3>1, <3>2 DEF TypeOK
  <2>2. CASE UpdateAlert(a)
    <3>1. PICK s \in {"active", "paused"}, d \in Directions, t \in Thresholds :
            alerts' = [alerts EXCEPT ![a].status = s, ![a].direction = d,
                                ![a].threshold = t, ![a].edits = @ + 1]
      BY <2>2 DEF UpdateAlert
    <3> DEFINE e == alerts[a].edits + 1
               new == [alerts[a] EXCEPT !.status = s, !.direction = d,
                                        !.threshold = t, !.edits = e]
    <3>2. alerts[a].edits < MaxEdits
      BY <2>2 DEF UpdateAlert
    <3>3. e \in 0..MaxEdits
      BY <1>2, <3>2, AlertsAssumption
    <3>4. alerts' = [alerts EXCEPT ![a] = new]
      BY <3>1 DEF TypeOK
    <3> HIDE DEF e
    <3>5. new \in Alert
      BY <1>2, <3>3 DEF Alert
    <3> HIDE DEF new
    <3>6. QED
      BY <3>4, <3>5 DEF TypeOK
  <2>3. CASE DeleteAlert(a)
    BY <1>2, <2>3 DEF DeleteAlert, TypeOK, Alert
  <2>4. CASE CooldownElapses(a)
    BY <1>2, <2>4 DEF CooldownElapses, TypeOK, Alert
  <2>5. QED
    BY <2>1, <2>2, <2>3, <2>4
<1>4. sent' \in [Alerts -> Nat] /\ rollbacks' \in [Alerts -> Nat]
  <2>1. \/ sent' = sent /\ rollbacks' = rollbacks
        \/ /\ sent' = [sent EXCEPT ![a] = 0]
           /\ rollbacks' = [rollbacks EXCEPT ![a] = 0]
    BY DEF CreateAlert, UpdateAlert, DeleteAlert, CooldownElapses
  <2>2. QED
    BY <2>1 DEF TypeOK
<1>5. UNCHANGED <<records, clock, faults, streak>>
  BY DEF CreateAlert, UpdateAlert, DeleteAlert, CooldownElapses
<1>6. QED
  BY <1>1, <1>3, <1>4, <1>5 DEF TypeOK

LEMMA TypeStep == TypeOK /\ StreakBounded /\ [Next]_vars => TypeOK'
<1> SUFFICES ASSUME TypeOK, StreakBounded, [Next]_vars PROVE TypeOK'
  OBVIOUS
<1>1. CASE UNCHANGED vars
  BY <1>1 DEF vars, TypeOK
<1>2. QED
  BY <1>1, ScrapeTyped, EditTyped DEF Next
-----------------------------------------------------------------------------
(* The clock, the streak, and what is in flight.                           *)

(* A scrape that a step goes on with keeps its own record.                 *)
LEMMA OwnKept ==
  ASSUME TypeOK, NEW w \in Workers, ScrapeStep(w) \/ Fail(w)
  PROVE  Busy(w) /\ (Busy(w)' => work'[w].own = work[w].own)
<1>1. CASE RecordPrice(w) \/ EvaluateAlerts(w)
  BY <1>1, Recorded, Evaluated DEF RecordPrice, EvaluateAlerts, Busy
<1>2. CASE NotifyAlerts(w)
  <2>1. CASE work' = [work EXCEPT ![w].pc = "flush",
                                  ![w].fired = Due(work[w].latest)]
    BY <1>2, <2>1, NotifiedAll DEF NotifyAlerts, Busy
  <2>2. CASE work' = [work EXCEPT ![w] = Idle]
    BY <1>2, <2>2 DEF NotifyAlerts, Busy, Idle, TypeOK
  <2>3. QED
    BY <1>2, <2>1, <2>2 DEF NotifyAlerts
<1>3. CASE Flush(w)
  <2>1. CASE RollBack(w)
    BY <1>3, <2>1, RolledBack DEF Flush, Busy
  <2>2. CASE work' = [work EXCEPT ![w].pc = "commit"]
    BY <1>3, <2>2, Flushed DEF Flush, Busy
  <2>3. QED
    BY <1>3, <2>1, <2>2 DEF Flush
<1>4. CASE Commit(w)
  BY <1>4 DEF Commit, Busy, Idle, TypeOK
<1>5. CASE Fail(w)
  BY <1>5, RolledBack DEF Fail
<1>6. QED
  BY <1>1, <1>2, <1>3, <1>4, <1>5 DEF ScrapeStep

LEMMA ClockedStep == TypeOK /\ Clocked /\ [Next]_vars => Clocked'
<1> SUFFICES ASSUME TypeOK, Clocked, [Next]_vars PROVE Clocked'
  OBVIOUS
<1>1. clock \in Nat /\ \A r \in records : r.at \in Int
  BY AlertsAssumption DEF TypeOK, Record
<1>2. ASSUME records' = records, clock' = clock,
             \A v \in Workers :
               Busy(v)' => Busy(v) /\ work'[v].own = work[v].own
      PROVE  Clocked'
  BY <1>2 DEF Clocked
<1>3. ASSUME NEW w \in Workers, Begin(w) PROVE Clocked'
  <2>1. \A v \in Workers \ {w} : work'[v] = work[v]
    BY <1>3, OthersWork
  <2>2. work'[w].own.at = clock + 1 /\ clock' = clock + 1
    BY <1>3, Begun
  <2>3. \A v \in Workers : Busy(v) => work[v].own.at \in Int
    BY BusyTyped DEF Record
  <2>4. \A r \in records' : r.at <= clock' /\ r.at # clock + 1
    BY <1>1, <1>3, <2>2 DEF Clocked, Begin
  <2>5. \A v \in Workers \ {w} : Busy(v)' =>
          work'[v].own.at <= clock' /\ work'[v].own.at # clock + 1
    BY <1>1, <2>1, <2>2, <2>3 DEF Clocked, Busy
  <2>6. records' = records
    BY <1>3 DEF Begin
  <2>7. QED
    BY <1>1, <2>1, <2>2, <2>4, <2>5, <2>6 DEF Clocked, Busy
<1>4. ASSUME NEW w \in Workers, ScrapeStep(w) \/ Fail(w) PROVE Clocked'
  <2>1. \A v \in Workers \ {w} : work'[v] = work[v]
    BY <1>4, OthersWork
  <2>2. \A v \in Workers :
          Busy(v)' => Busy(v) /\ work'[v].own = work[v].own
    BY <1>4, <2>1, OwnKept DEF Busy
  <2>3. CASE Commit(w)
    <3>1. Busy(w) /\ ~Busy(w)' /\ clock' = clock
          /\ records' \subseteq records \cup {work[w].own}
      BY <2>3 DEF Commit, Busy, Idle, TypeOK
    <3>2. \A r \in records' : r.at <= clock'
      BY <3>1 DEF Clocked
    <3>3. \A v \in Workers : Busy(v)' => v # w
      BY <3>1
    <3>4. \A v \in Workers : Busy(v)' =>
            \A r \in records' : r.at # work'[v].own.at
      BY <2>2, <3>1, <3>3 DEF Clocked
    <3>5. QED
      BY <2>2, <3>1, <3>2, <3>4 DEF Clocked
  <2>4. CASE ~Commit(w)
    <3>1. records' = records /\ clock' = clock
      BY <1>4, <2>4 DEF ScrapeStep, RecordPrice, EvaluateAlerts, NotifyAlerts,
         Flush, RollBack, Fail
    <3>2. QED
      BY <1>2, <2>2, <3>1
  <2>5. QED
    BY <2>3, <2>4
<1>5. ASSUME NEW a \in Alerts,
             CreateAlert(a) \/ UpdateAlert(a) \/ DeleteAlert(a)
               \/ CooldownElapses(a)
      PROVE  Clocked'
  <2>1. Touch(a) /\ records' = records /\ clock' = clock
    BY <1>5 DEF CreateAlert, UpdateAlert, DeleteAlert, CooldownElapses
  <2>2. QED
    BY <1>2, <2>1, Touched
<1>6. CASE UNCHANGED vars
  BY <1>2, <1>6 DEF vars, Busy
<1>7. QED
  BY <1>3, <1>4, <1>5, <1>6 DEF Next

(* The workers scraping, and those that notified an alert, change by the   *)
(* one that takes a step.                                                  *)
LEMMA Moves ==
  ASSUME TypeOK, NEW w \in Workers, Begin(w) \/ ScrapeStep(w) \/ Fail(w),
         NEW a \in Alerts
  PROVE  /\ Scraping' \ {w} = Scraping \ {w}
         /\ InFlight(a)' \ {w} = InFlight(a) \ {w}
         /\ Scraping \subseteq Workers /\ Scraping' \subseteq Workers
         /\ InFlight(a) \subseteq Workers /\ InFlight(a)' \subseteq Workers
<1>1. \A v \in Workers \ {w} : work'[v] = work[v]
  BY OthersWork
<1>2. \A v \in Workers \ {w} : (Busy(v)' <=> Busy(v)) /\ Fired(v)' = Fired(v)
  BY <1>1 DEF Busy, Fired
<1>3. QED
  BY <1>2 DEF Scraping, InFlight

LEMMA StreakStep == TypeOK /\ StreakBounded /\ [Next]_vars => StreakBounded'
<1> SUFFICES ASSUME TypeOK, StreakBounded, [Next]_vars PROVE StreakBounded'
  OBVIOUS
<1>1. streak \in Nat /\ clock \in Nat /\ Cardinality(Scraping) \in Nat
  BY WorkerSets, AlertsAssumption DEF TypeOK, Scraping
<1>2. ASSUME NEW w \in Workers, Begin(w) \/ ScrapeStep(w) \/ Fail(w)
      PROVE  StreakBounded'
  <2>1. Scraping' \ {w} = Scraping \ {w} /\ Scraping \subseteq Workers
        /\ Scraping' \subseteq Workers
    <3>1. \A v \in Workers \ {w} : Busy(v)' <=> Busy(v)
      BY <1>2, OthersWork DEF Busy
    <3>2. QED
      BY <3>1 DEF Scraping
  <2>2. IsFiniteSet(Scraping) /\ IsFiniteSet(Scraping')
    BY <2>1, WorkerSets
  <2>3. CASE Begin(w)
    <3>1. w \notin Scraping /\ w \in Scraping'
      BY <2>3, Begun DEF Begin, Scraping, Busy
    <3>2. Cardinality(Scraping') = Cardinality(Scraping) + 1
      BY <2>1, <2>2, <3>1, OneApart
    <3>3. streak' = streak /\ clock' = clock + 1
      BY <2>3 DEF Begin
    <3>4. QED
      BY <1>1, <3>2, <3>3 DEF StreakBounded
  <2>4. CASE Commit(w)
    <3>1. w \in Scraping /\ w \notin Scraping'
      BY <2>4 DEF Commit, Scraping, Busy, Idle, TypeOK
    <3>2. Cardinality(Scraping') = Cardinality(Scraping) - 1
      BY <2>1, <2>2, <3>1, OneApart
    <3>3. (streak' = 0 \/ streak' = streak + 1) /\ clock' = clock
      BY <2>4 DEF Commit
    <3>4. QED
      BY <1>1, <3>2, <3>3 DEF StreakBounded
  <2>5. CASE (ScrapeStep(w) \/ Fail(w)) /\ ~Commit(w)
    <3>1. w \in Scraping
      BY <2>5, OwnKept DEF Scraping
    <3>2. Cardinality(Scraping') \in Nat
          /\ Cardinality(Scraping') <= Cardinality(Scraping)
      BY <1>1, <2>1, <2>2, <3>1, OneApart
    <3>3. streak' = streak /\ clock' = clock
      BY <2>5 DEF ScrapeStep, RecordPrice, EvaluateAlerts, NotifyAlerts,
         Flush, RollBack, Fail
    <3>4. QED
      BY <1>1, <3>2, <3>3 DEF StreakBounded
  <2>6. QED
    BY <1>2, <2>3, <2>4, <2>5
<1>3. ASSUME NEW a \in Alerts,
             CreateAlert(a) \/ UpdateAlert(a) \/ DeleteAlert(a)
               \/ CooldownElapses(a)
      PROVE  StreakBounded'
  <2>1. Touch(a) /\ streak' = streak /\ clock' = clock
    BY <1>3 DEF CreateAlert, UpdateAlert, DeleteAlert, CooldownElapses
  <2>2. Scraping' = Scraping
    BY <2>1, Touched DEF Scraping
  <2>3. QED
    BY <2>1, <2>2 DEF StreakBounded
<1>4. CASE UNCHANGED vars
  BY <1>4 DEF vars, StreakBounded, Scraping, Busy
<1>5. QED
  BY <1>2, <1>3, <1>4 DEF Next

LEMMA Moved ==
  ASSUME TypeOK, NEW w \in Workers, Begin(w) \/ ScrapeStep(w) \/ Fail(w),
         NEW a \in Alerts
  PROVE  LET n == Cardinality(InFlight(a))
             m == Cardinality(InFlight(a)')
         IN  /\ n \in Nat /\ m \in Nat
             /\ (a \in Fired(w) <=> a \in Fired(w)') =>
                  InFlight(a)' = InFlight(a)
             /\ a \in Fired(w) /\ a \notin Fired(w)' => m = n - 1
             /\ a \notin Fired(w) /\ a \in Fired(w)' => m = n + 1
<1>1. /\ InFlight(a)' \ {w} = InFlight(a) \ {w}
      /\ InFlight(a) \subseteq Workers /\ InFlight(a)' \subseteq Workers
  BY Moves
<1>2. IsFiniteSet(InFlight(a)) /\ IsFiniteSet(InFlight(a)')
  BY <1>1, WorkerSets
<1>3. (w \in InFlight(a) <=> a \in Fired(w))
      /\ (w \in InFlight(a)' <=> a \in Fired(w)')
  BY DEF InFlight
<1>4. QED
  BY <1>1, <1>2, <1>3, OneApart

LEMMA UnfiredStep == TypeOK /\ Unfired /\ [Next]_vars => Unfired'
<1> SUFFICES ASSUME TypeOK, Unfired, [Next]_vars PROVE Unfired'
  OBVIOUS
<1> DEFINE Before == {"record", "evaluate", "notify"}
<1>1. ASSUME NEW w \in Workers, Begin(w) \/ ScrapeStep(w) \/ Fail(w)
      PROVE  Unfired'
  <2>1. \A v \in Workers \ {w} : work'[v] = work[v]
    BY <1>1, OthersWork
  <2>2. SUFFICES ASSUME work'[w].pc \in Before PROVE work'[w].fired = {}
    BY <2>1 DEF Unfired
  <2>3. CASE Begin(w)
    BY <2>3, Begun
  <2>4. CASE RecordPrice(w) \/ EvaluateAlerts(w)
    BY <2>4, Recorded, Evaluated DEF RecordPrice, EvaluateAlerts, Unfired
  <2>5. CASE NotifyAlerts(w)
    <3>1. CASE work' = [work EXCEPT ![w].pc = "flush",
                                    ![w].fired = Due(work[w].latest)]
      BY <2>2, <2>5, <3>1, NotifiedAll DEF NotifyAlerts
    <3>2. CASE work' = [work EXCEPT ![w] = Idle]
      BY <2>2, <3>2 DEF Idle, TypeOK
    <3>3. QED
      BY <2>5, <3>1, <3>2 DEF NotifyAlerts
  <2>6. CASE Flush(w)
    <3>1. CASE RollBack(w)
      BY <2>2, <3>1, RolledBack DEF Idle
    <3>2. CASE work' = [work EXCEPT ![w].pc = "commit"]
      BY <2>2, <2>6, <3>2, Flushed DEF Flush
    <3>3. QED
      BY <2>6, <3>1, <3>2 DEF Flush
  <2>7. CASE Commit(w)
    BY <2>2, <2>7 DEF Commit, Idle, TypeOK
  <2>8. CASE Fail(w)
    BY <2>2, <2>8, RolledBack DEF Fail, Idle
  <2>9. QED
    BY <1>1, <2>3, <2>4, <2>5, <2>6, <2>7, <2>8 DEF ScrapeStep
<1>2. ASSUME NEW a \in Alerts,
             CreateAlert(a) \/ UpdateAlert(a) \/ DeleteAlert(a)
               \/ CooldownElapses(a)
      PROVE  Unfired'
  <2>1. Touch(a)
    BY <1>2 DEF CreateAlert, UpdateAlert, DeleteAlert, CooldownElapses
  <2>2. \A w \in Workers : work'[w].pc \in Before =>
          work[w].pc \in Before /\ work'[w].fired = work[w].fired
    BY <2>1, Touched DEF Busy
  <2>3. QED
    BY <2>2 DEF Unfired
<1>3. CASE UNCHANGED vars
  BY <1>3 DEF vars, Unfired
<1>4. QED
  BY <1>1, <1>2, <1>3 DEF Next

(* What an evaluation notifies is active and not cooling.                  *)
LEMMA DueAre ==
  ASSUME NEW price, NEW a \in Due(price)
  PROVE  a \in Alerts /\ alerts[a].status = "active" /\ ~alerts[a].cooling
BY DEF Due

(* What a rollback leaves of an alert's notices.                           *)
LEMMA RollBackEven ==
  ASSUME TypeOK, Counted, NEW w \in Workers, Flush(w) \/ Fail(w), RollBack(w),
         NEW a \in Alerts
  PROVE  Even(a)'
<1>1. a \notin Fired(w)' /\ alerts' = alerts /\ sent' = sent
  BY RolledBack DEF RollBack
<1>2. rollbacks'[a] = IF a \in Fired(w) THEN rollbacks[a] + 1 ELSE rollbacks[a]
  BY DEF RollBack, Bump
<1>3. /\ a \in Fired(w) => Cardinality(InFlight(a)')
                             = Cardinality(InFlight(a)) - 1
      /\ a \notin Fired(w) => InFlight(a)' = InFlight(a)
      /\ Cardinality(InFlight(a)) \in Nat
      /\ Cardinality(InFlight(a)') \in Nat
  BY <1>1, Moved DEF ScrapeStep
<1>4. sent[a] \in Nat /\ rollbacks[a] \in Nat
      /\ Cardinality(Workers) \in Nat
  BY AlertTyped, WorkerSets
<1>5. alerts[a].status = "absent" => a \notin Fired(w)
  BY DEF Counted, Even, InFlight
<1>6. QED
  BY <1>1, <1>2, <1>3, <1>4, <1>5 DEF Counted, Even

(* The step that notifies is the only one that adds a notice, and only to  *)
(* an alert all of whose notices are in flight.                            *)
LEMMA NotifyEven ==
  ASSUME TypeOK, Unfired, Counted, NEW w \in Workers, NotifyAlerts(w),
         NEW a \in Alerts
  PROVE  Even(a)'
<1> DEFINE due == Due(work[w].latest)
<1>1. Busy(w) /\ Fired(w) = {} /\ alerts' = alerts
  BY DEF NotifyAlerts, Busy, Fired, Unfired
<1>2. /\ Cardinality(InFlight(a)) \in Nat
      /\ Cardinality(InFlight(a)') \in Nat
      /\ a \in Fired(w)' => Cardinality(InFlight(a)')
                              = Cardinality(InFlight(a)) + 1
      /\ a \notin Fired(w)' => InFlight(a)' = InFlight(a)
  BY <1>1, Moved DEF ScrapeStep
<1>3. sent[a] \in Nat /\ rollbacks[a] \in Nat
      /\ Cardinality(Workers) \in Nat
  BY AlertTyped, WorkerSets
<1>4. Cardinality(InFlight(a)') <= Cardinality(Workers)
  <2>1. InFlight(a)' \subseteq Workers
    BY DEF InFlight
  <2>2. QED
    BY <2>1, WorkerSets
<1>5. CASE /\ sent' = Bump(sent, due)
           /\ work' = [work EXCEPT ![w].pc = "flush", ![w].fired = due]
           /\ UNCHANGED <<faults, rollbacks>>
  <2>1. Fired(w)' = due
    BY <1>5, NotifiedAll DEF NotifyAlerts, Fired, Busy
  <2>2. sent'[a] = IF a \in due THEN sent[a] + 1 ELSE sent[a]
    BY <1>5 DEF Bump
  <2>3. CASE a \in due
    <3>1. alerts[a].status = "active" /\ ~alerts[a].cooling
      BY <2>3, DueAre
    <3>2. Cardinality(InFlight(a)) = sent[a] - rollbacks[a]
      BY <3>1 DEF Counted, Even
    <3>3. QED
      BY <1>1, <1>2, <1>3, <1>4, <1>5, <2>1, <2>2, <2>3, <3>1, <3>2 DEF Even
  <2>4. CASE a \notin due
    BY <1>1, <1>2, <1>5, <2>1, <2>2, <2>4 DEF Counted, Even
  <2>5. QED
    BY <2>3, <2>4
<1>6. CASE \E S \in SUBSET due :
             /\ sent' = Bump(sent, S)
             /\ rollbacks' = Bump(rollbacks, S)
             /\ work' = [work EXCEPT ![w] = Idle]
  <2>1. PICK S \in SUBSET due :
             /\ sent' = Bump(sent, S)
             /\ rollbacks' = Bump(rollbacks, S)
             /\ work' = [work EXCEPT ![w] = Idle]
    BY <1>6
  <2>2. Fired(w)' = {}
    BY <2>1 DEF Fired, Busy, Idle, TypeOK
  <2>3. sent'[a] - rollbacks'[a] = sent[a] - rollbacks[a]
    BY <1>3, <2>1 DEF Bump
  <2>4. QED
    BY <1>1, <1>2, <2>2, <2>3 DEF Counted, Even
<1>7. QED
  BY <1>5, <1>6 DEF NotifyAlerts

LEMMA CommitEven ==
  ASSUME TypeOK, Counted, NEW w \in Workers, Commit(w), NEW a \in Alerts
  PROVE  Even(a)'
<1>1. /\ Busy(w) /\ Fired(w)' = {} /\ Fired(w) = work[w].fired
      /\ sent' = sent /\ rollbacks' = rollbacks
  BY DEF Commit, Busy, Fired, Idle, TypeOK
<1>2. /\ Cardinality(InFlight(a)) \in Nat
      /\ Cardinality(InFlight(a)') \in Nat
      /\ a \in Fired(w) => Cardinality(InFlight(a)')
                             = Cardinality(InFlight(a)) - 1
      /\ a \notin Fired(w) => InFlight(a)' = InFlight(a)
  BY <1>1, Moved DEF ScrapeStep
<1>3. sent[a] \in Nat /\ rollbacks[a] \in Nat /\ alerts[a] \in Alert
      /\ Cardinality(Workers) \in Nat
  BY AlertTyped, WorkerSets
<1>4. /\ alerts'[a].status = alerts[a].status
      /\ alerts'[a].cooling =
           IF a \in Fired(w) /\ Exists(a) THEN TRUE ELSE alerts[a].cooling
  BY <1>1, <1>3 DEF Commit, Alert
<1>5. CASE a \in Fired(w)
  <2>1. alerts[a].status # "absent"
    BY <1>5 DEF Counted, Even, InFlight
  <2>2. ~Exists(a) => alerts[a].status = "deleted"
    BY <1>3, <2>1 DEF Exists, Alert
  <2>3. QED
    BY <1>1, <1>2, <1>3, <1>4, <1>5, <2>1, <2>2 DEF Counted, Even
<1>6. CASE a \notin Fired(w)
  BY <1>1, <1>2, <1>4, <1>6 DEF Counted, Even
<1>7. QED
  BY <1>5, <1>6

LEMMA EditEven ==
  ASSUME TypeOK, Counted, NEW a \in Alerts, NEW b \in Alerts,
         CreateAlert(b) \/ UpdateAlert(b) \/ DeleteAlert(b)
           \/ CooldownElapses(b)
  PROVE  Even(a)'
<1>1. Touch(b)
  BY DEF CreateAlert, UpdateAlert, DeleteAlert, CooldownElapses
<1>2. InFlight(a)' = InFlight(a)
  BY <1>1, Touched DEF InFlight
<1>3. alerts[b] \in Alert
  BY AlertTyped
<1>4. CASE a # b
  <2>1. alerts'[a] = alerts[a] /\ sent'[a] = sent[a]
        /\ rollbacks'[a] = rollbacks[a]
    BY <1>4 DEF CreateAlert, UpdateAlert, DeleteAlert, CooldownElapses, TypeOK
  <2>2. QED
    BY <1>2, <2>1 DEF Counted, Even
<1>5. CASE a = b /\ CooldownElapses(b)
  <2>1. /\ InFlight(a) = {} /\ sent'[a] = 0 /\ rollbacks'[a] = 0
        /\ ~alerts'[a].cooling /\ alerts'[a].status # "absent"
    BY <1>3, <1>5 DEF CooldownElapses, InFlight, TypeOK, Exists, Alert
  <2>2. Cardinality(InFlight(a)') = 0 /\ Cardinality(Workers) \in Nat
    BY <1>2, <2>1, WorkerSets, FS_EmptySet
  <2>3. QED
    BY <2>1, <2>2 DEF Even
<1>6. CASE a = b /\ ~CooldownElapses(b)
  <2>1. /\ alerts'[a].cooling = alerts[a].cooling
        /\ alerts'[a].status # "absent"
        /\ alerts'[a].status # "deleted" => alerts[a].status # "deleted"
    <3>1. CASE CreateAlert(b)
      <4>1. PICK d \in Directions, t \in Thresholds :
              alerts' = [alerts EXCEPT ![b].status = "active",
                                  ![b].direction = d, ![b].threshold = t]
        BY <3>1 DEF CreateAlert
      <4>2. alerts'[b].status = "active"
            /\ alerts'[b].cooling = alerts[b].cooling
        BY <1>3, <4>1 DEF TypeOK, Alert
      <4>3. alerts[b].status # "deleted"
        BY <3>1 DEF CreateAlert
      <4>4. QED
        BY <1>6, <4>2, <4>3
    <3>2. CASE UpdateAlert(b)
      <4>1. PICK s \in {"active", "paused"}, d \in Directions, t \in Thresholds :
              alerts' = [alerts EXCEPT ![b].status = s, ![b].direction = d,
                                  ![b].threshold = t, ![b].edits = @ + 1]
        BY <3>2 DEF UpdateAlert
      <4>2. alerts'[b].status = s /\ alerts'[b].cooling = alerts[b].cooling
        BY <1>3, <4>1 DEF TypeOK, Alert
      <4>3. alerts[b].status # "deleted"
        BY <3>2 DEF UpdateAlert, Exists
      <4>4. QED
        BY <1>6, <4>2, <4>3
    <3>3. CASE DeleteAlert(b)
      BY <1>3, <1>6, <3>3 DEF DeleteAlert, TypeOK, Exists, Alert
    <3>4. QED
      BY <1>6, <3>1, <3>2, <3>3
  <2>2. sent' = sent /\ rollbacks' = rollbacks
    BY <1>6 DEF CreateAlert, UpdateAlert, DeleteAlert
  <2>3. QED
    BY <1>2, <2>1, <2>2 DEF Counted, Even
<1>7. QED
  BY <1>4, <1>5, <1>6

LEMMA CountedStep == TypeOK /\ Unfired /\ Counted /\ [Next]_vars => Counted'
<1> SUFFICES ASSUME TypeOK, Unfired, Counted, [Next]_vars, NEW a \in Alerts
             PROVE  Even(a)'
  BY DEF Counted
<1>1. ASSUME NEW w \in Workers,
             Begin(w) \/ RecordPrice(w) \/ EvaluateAlerts(w)
      PROVE  Even(a)'
  <2>1. Fired(w)' = Fired(w)
    BY <1>1, Begun, Recorded, Evaluated
       DEF Begin, RecordPrice, EvaluateAlerts, Fired, Busy
  <2>2. InFlight(a)' = InFlight(a)
    BY <1>1, <2>1, Moved DEF ScrapeStep
  <2>3. UNCHANGED <<alerts, sent, rollbacks>>
    BY <1>1 DEF Begin, RecordPrice, EvaluateAlerts
  <2>4. QED
    BY <2>2, <2>3 DEF Counted, Even
<1>2. ASSUME NEW w \in Workers, Flush(w), ~RollBack(w) PROVE Even(a)'
  <2>1. /\ work' = [work EXCEPT ![w].pc = "commit"]
        /\ UNCHANGED <<alerts, sent, rollbacks>>
    BY <1>2 DEF Flush
  <2>2. Fired(w)' = Fired(w)
    BY <1>2, <2>1, Flushed DEF Flush, Fired, Busy
  <2>3. InFlight(a)' = InFlight(a)
    BY <1>2, <2>2, Moved DEF ScrapeStep
  <2>4. QED
    BY <2>1, <2>3 DEF Counted, Even
<1>3. ASSUME NEW w \in Workers, Flush(w) \/ Fail(w), RollBack(w)
      PROVE  Even(a)'
  BY <1>3, RollBackEven
<1>4. CASE UNCHANGED vars
  <2>1. InFlight(a)' = InFlight(a)
    BY <1>4 DEF vars, InFlight, Fired, Busy
  <2>2. QED
    BY <1>4, <2>1 DEF vars, Counted, Even
<1>5. \A w \in Workers : Fail(w) => RollBack(w)
  BY DEF Fail
<1>6. QED
  BY <1>1, <1>2, <1>3, <1>4, <1>5, NotifyEven, CommitEven, EditEven
     DEF Next, ScrapeStep
-----------------------------------------------------------------------------
(* The notices of a cooldown.                                              *)

LEMMA InitTyped == Init => TypeOK
<1> SUFFICES ASSUME Init PROVE TypeOK
  OBVIOUS
<1>1. 0 \in 0..MaxScrapes /\ 0 \in 0..MaxFaults /\ 0 \in 0..MaxEdits
  BY AlertsAssumption
<1>2. (CHOOSE t \in Thresholds : TRUE) \in Thresholds
  BY AlertsAssumption
<1>3. NoAlert \in Alert
  BY <1>1, <1>2 DEF NoAlert, Alert, Directions
<1>4. alerts \in [Alerts -> Alert] /\ work \in [Workers -> {Idle} \cup Job]
  BY <1>3 DEF Init
<1>5. sent \in [Alerts -> Nat] /\ rollbacks \in [Alerts -> Nat]
  BY DEF Init
<1>6. QED
  BY <1>1, <1>4, <1>5 DEF Init, TypeOK

LEMMA InitQuiet ==
  Init => \A w \in Workers : ~Busy(w) /\ Fired(w) = {} /\ work[w] = Idle
BY DEF Init, Busy, Fired, Idle

LEMMA Bounds == Spec => [](TypeOK /\ StreakBounded)
<1>1. Init => StreakBounded
  <2> SUFFICES ASSUME Init PROVE StreakBounded
    OBVIOUS
  <2>1. Scraping = {}
    BY InitQuiet DEF Scraping
  <2>2. Cardinality(Scraping) = 0
    BY <2>1, FS_EmptySet
  <2>3. QED
    BY <2>2 DEF Init, StreakBounded
<1>2. QED
  BY <1>1, InitTyped, TypeStep, StreakStep, PTL DEF Spec

(* Every variable stays in its set: every record comes from a scrape that  *)
(* began, and the failing streak counts scrapes.                           *)
THEOREM TypeCorrect == Spec => []TypeOK
BY Bounds, PTL

LEMMA NoticesCounted == Spec => [](TypeOK /\ Unfired /\ Counted)
<1>1. Init => Unfired /\ Counted
  <2> SUFFICES ASSUME Init PROVE Unfired /\ Counted
    OBVIOUS
  <2>1. Unfired
    BY InitQuiet DEF Unfired, Idle
  <2>2. ASSUME NEW a \in Alerts PROVE Even(a)
    <3>1. InFlight(a) = {}
      BY InitQuiet DEF InFlight
    <3>2. Cardinality(InFlight(a)) = 0 /\ Cardinality(Workers) \in Nat
      BY <3>1, FS_EmptySet, WorkerSets
    <3>3. /\ sent[a] = 0 /\ rollbacks[a] = 0
          /\ alerts[a].cooling = FALSE
      BY DEF Init, NoAlert
    <3>4. QED
      BY <3>1, <3>2, <3>3 DEF Even
  <2>3. QED
    BY <2>1, <2>2 DEF Counted
<1>2. QED
  BY <1>1, Bounds, UnfiredStep, CountedStep, PTL DEF Spec

(* In one cooldown an alert is notified at most once for each worker, and  *)
(* once more for each notice that a rolled back scrape had sent.           *)
THEOREM NoticesAreBounded == Spec => []NoticesBounded
<1>1. TypeOK /\ Counted => NoticesBounded
  <2> SUFFICES ASSUME TypeOK, Counted, NEW a \in Alerts
               PROVE  sent[a] <= Cardinality(Workers) + rollbacks[a]
    BY DEF NoticesBounded
  <2>1. sent[a] \in Nat /\ rollbacks[a] \in Nat /\ Cardinality(Workers) \in Nat
    BY AlertTyped, WorkerSets
  <2>2. sent[a] - rollbacks[a] <= Cardinality(Workers)
    BY DEF Counted, Even
  <2>3. QED
    BY <2>1, <2>2
<1>2. QED
  BY <1>1, NoticesCounted, PTL

(* An alert in its cooldown has a notice that was not rolled back.         *)
THEOREM NeverSilent == Spec => []NeverSilenced
<1>1. TypeOK /\ Counted => NeverSilenced
  <2> SUFFICES ASSUME TypeOK, Counted, NEW a \in Alerts,
                      Exists(a), alerts[a].cooling
               PROVE  sent[a] > rollbacks[a]
    BY DEF NeverSilenced
  <2>1. sent[a] \in Nat /\ rollbacks[a] \in Nat
        /\ Cardinality(InFlight(a)) \in Nat
    BY AlertTyped, WorkerSets DEF InFlight
  <2>2. Cardinality(InFlight(a)) < sent[a] - rollbacks[a]
    BY DEF Counted, Even
  <2>3. QED
    BY <2>1, <2>2
<1>2. QED
  BY <1>1, NoticesCounted, PTL
-----------------------------------------------------------------------------
(* Prices that cross a threshold.                                          *)

(* A scrape under way keeps what it knows while records are added, alerts  *)
(* cool and edits are noted.                                               *)
LEMMA NoticedKept ==
  ASSUME NEW v \in Workers, Noticed(v),
         work'[v].pc = work[v].pc,
         work[v].pc \in {"notify", "flush", "commit"} =>
           /\ work'[v].own = work[v].own /\ work'[v].insert = work[v].insert
           /\ work'[v].latest = work[v].latest
           /\ work'[v].fired = work[v].fired
           /\ work[v].touched \subseteq work'[v].touched
           /\ \A a \in Alerts \ work'[v].touched :
                /\ alerts'[a].status = alerts[a].status
                /\ alerts'[a].direction = alerts[a].direction
                /\ alerts'[a].threshold = alerts[a].threshold
                /\ alerts[a].cooling => alerts'[a].cooling,
         records \subseteq records'
  PROVE  Noticed(v)'
BY DEF Noticed, ThresholdTriggered

(* A commit cools alerts and changes nothing else of them.                 *)
LEMMA CommitAlerts ==
  ASSUME TypeOK, NEW w \in Workers, Commit(w), NEW a \in Alerts
  PROVE  /\ alerts'[a].status = alerts[a].status
         /\ alerts'[a].direction = alerts[a].direction
         /\ alerts'[a].threshold = alerts[a].threshold
         /\ alerts'[a].cooling =
              IF a \in work[w].fired /\ Exists(a) THEN TRUE
                                                  ELSE alerts[a].cooling
<1>1. alerts[a] \in Alert
  BY AlertTyped
<1>2. alerts'[a] = IF a \in work[w].fired /\ Exists(a)
                     THEN [alerts[a] EXCEPT !.cooling = TRUE] ELSE alerts[a]
  BY DEF Commit
<1>3. QED
  BY <1>1, <1>2 DEF Alert

LEMMA EvaluatedNoticed ==
  ASSUME TypeOK, Clocked, NEW w \in Workers, EvaluateAlerts(w)
  PROVE  Noticed(w)'
<1> DEFINE own == work[w].own
           latest == Latest(records \cup {own})
<1>1. Busy(w) /\ own \in Record /\ records \subseteq Record
  BY BusyTyped DEF EvaluateAlerts, Busy, TypeOK
<1>2. latest \in records \cup {own} /\ own.at <= latest.at
  BY <1>1, LatestIsLast
<1>3. /\ work'[w].pc = IF latest.ok THEN "notify" ELSE "commit"
      /\ work'[w].latest = latest.price /\ work'[w].own = own
      /\ records' = records
  BY Evaluated DEF EvaluateAlerts
<1>4. CASE latest = own
  BY <1>3, <1>4 DEF Noticed
<1>5. CASE latest # own
  <2>1. latest \in records /\ latest.at # own.at
    BY <1>1, <1>2, <1>5 DEF Clocked
  <2>2. latest.at > own.at
    BY <1>1, <1>2, <2>1 DEF Record
  <2>3. QED
    BY <1>3, <2>1, <2>2 DEF Noticed
<1>6. QED
  BY <1>4, <1>5

LEMMA CrossingStep == TypeOK /\ Clocked /\ Crossing /\ [Next]_vars => Crossing'
<1> SUFFICES ASSUME TypeOK, Clocked, Crossing, [Next]_vars PROVE Crossing'
  OBVIOUS
<1>1. ASSUME NEW w \in Workers, Begin(w) \/ ScrapeStep(w) \/ Fail(w)
      PROVE  Crossing'
  <2>1. ASSUME NEW v \in Workers \ {w} PROVE Noticed(v)'
    <3>1. work'[v] = work[v] /\ Noticed(v)
      BY <1>1, OthersWork DEF Crossing
    <3>2. records \subseteq records'
      BY <1>1 DEF Begin, ScrapeStep, RecordPrice, EvaluateAlerts, NotifyAlerts,
         Flush, RollBack, Commit, Fail
    <3>3. \A a \in Alerts :
            /\ alerts'[a].status = alerts[a].status
            /\ alerts'[a].direction = alerts[a].direction
            /\ alerts'[a].threshold = alerts[a].threshold
            /\ alerts[a].cooling => alerts'[a].cooling
      <4>1. CASE Commit(w)
        BY <4>1, CommitAlerts
      <4>2. CASE ~Commit(w)
        BY <1>1, <4>2 DEF Begin, ScrapeStep, RecordPrice, EvaluateAlerts,
           NotifyAlerts, Flush, RollBack, Fail
      <4>3. QED
        BY <4>1, <4>2
    <3>4. QED
      BY <3>1, <3>2, <3>3, NoticedKept
  <2>2. Noticed(w)'
    <3>1. ASSUME work'[w].pc \notin {"notify", "flush", "commit"}
          PROVE  Noticed(w)'
      BY <3>1 DEF Noticed
    <3>2. CASE Begin(w)
      BY <3>1, <3>2, Begun
    <3>3. CASE RecordPrice(w)
      BY <3>1, <3>3, Recorded DEF Noticed
    <3>4. CASE EvaluateAlerts(w)
      BY <3>4, EvaluatedNoticed
    <3>5. CASE NotifyAlerts(w)
      <4>1. CASE work' = [work EXCEPT ![w].pc = "flush",
                                      ![w].fired = Due(work[w].latest)]
        <5>1. /\ work[w].pc = "notify" /\ records' = records
              /\ alerts' = alerts
          BY <3>5 DEF NotifyAlerts
        <5>2. /\ work'[w].own = work[w].own /\ work'[w].insert = work[w].insert
              /\ work'[w].latest = work[w].latest
              /\ work'[w].fired = Due(work[w].latest)
          BY <4>1, <5>1, NotifiedAll
        <5>3. Noticed(w)
          BY DEF Crossing
        <5>4. \A a \in Alerts :
                /\ alerts[a].status = "active"
                /\ ThresholdTriggered(alerts[a], work[w].latest)
                => alerts[a].cooling \/ a \in Due(work[w].latest)
          BY DEF Due
        <5>5. QED
          BY <5>1, <5>2, <5>3, <5>4 DEF Noticed, ThresholdTriggered
      <4>2. CASE work' = [work EXCEPT ![w] = Idle]
        BY <3>1, <4>2 DEF Idle, TypeOK
      <4>3. QED
        BY <3>5, <4>1, <4>2 DEF NotifyAlerts
    <3>6. CASE Flush(w)
      <4>1. CASE RollBack(w)
        BY <3>1, <4>1, RolledBack DEF Idle
      <4>2. CASE /\ work' = [work EXCEPT ![w].pc = "commit"]
                 /\ UNCHANGED <<records, alerts, clock, sent, rollbacks, streak>>
        <5>1. work[w].pc = "flush" /\ Noticed(w)
          BY <3>6 DEF Flush, Crossing
        <5>2. /\ work'[w].own = work[w].own /\ work'[w].insert = work[w].insert
              /\ work'[w].latest = work[w].latest
              /\ work'[w].fired = work[w].fired
              /\ work'[w].touched = work[w].touched
          BY <4>2, <5>1, Flushed
        <5>3. QED
          BY <4>2, <5>1, <5>2 DEF Noticed, ThresholdTriggered
      <4>3. QED
        BY <3>6, <4>1, <4>2 DEF Flush
    <3>7. CASE Commit(w)
      BY <3>1, <3>7 DEF Commit, Idle, TypeOK
    <3>8. CASE Fail(w)
      BY <3>1, <3>8, RolledBack DEF Fail, Idle
    <3>9. QED
      BY <1>1, <3>2, <3>3, <3>4, <3>5, <3>6, <3>7, <3>8 DEF ScrapeStep
  <2>3. QED
    BY <2>1, <2>2 DEF Crossing
<1>2. ASSUME NEW b \in Alerts,
             CreateAlert(b) \/ UpdateAlert(b) \/ DeleteAlert(b)
               \/ CooldownElapses(b),
             NEW v \in Workers
      PROVE  Noticed(v)'
  <2>1. Touch(b) /\ records' = records
    BY <1>2 DEF CreateAlert, UpdateAlert, DeleteAlert, CooldownElapses
  <2>2. \A a \in Alerts \ {b} : alerts'[a] = alerts[a]
    BY <1>2 DEF CreateAlert, UpdateAlert, DeleteAlert, CooldownElapses, TypeOK
  <2>3. Noticed(v)
    BY DEF Crossing
  <2>4. work'[v].pc = work[v].pc
    BY <2>1, Touched
  <2>5. work[v].pc \in {"notify", "flush", "commit"} =>
          /\ work'[v].own = work[v].own /\ work'[v].insert = work[v].insert
          /\ work'[v].latest = work[v].latest
          /\ work'[v].fired = work[v].fired
          /\ work'[v].touched = work[v].touched \cup {b}
    BY <2>1, Touched DEF Busy
  <2>6. QED
    BY <2>1, <2>2, <2>3, <2>4, <2>5, NoticedKept
<1>3. CASE UNCHANGED vars
  BY <1>3, NoticedKept DEF vars, Crossing
<1>4. QED
  BY <1>1, <1>2, <1>3 DEF Next, Crossing

LEMMA ScrapesInv == Spec => [](TypeOK /\ Clocked /\ Crossing)
<1>1. Init => Clocked /\ Crossing
  BY InitQuiet DEF Init, Clocked, Crossing, Noticed, Idle
<1>2. QED
  BY <1>1, Bounds, ClockedStep, CrossingStep, PTL DEF Spec

(* A price that becomes the latest has notified every alert it crosses,    *)
(* however scrapes and edits interleave.                                   *)
THEOREM CrossingsNoticed == Spec => CrossingNoticed
<1> DEFINE Cools(w, a) ==
      (/\ Commit(w) /\ work[w].insert /\ work[w].own.ok
       /\ Latest(records') = work[w].own
       /\ alerts[a].status = "active"
       /\ a \notin work[w].touched
       /\ ThresholdTriggered(alerts[a], work[w].own.price))
      => alerts'[a].cooling
<1>1. TypeOK /\ Crossing =>
        [\A w \in Workers : \A a \in Alerts : Cools(w, a)]_vars
  <2> SUFFICES ASSUME TypeOK, Crossing, NEW w \in Workers, NEW a \in Alerts,
                      Commit(w), work[w].insert, work[w].own.ok,
                      Latest(records') = work[w].own,
                      alerts[a].status = "active",
                      a \notin work[w].touched,
                      ThresholdTriggered(alerts[a], work[w].own.price)
               PROVE  alerts'[a].cooling
    OBVIOUS
  <2>1. work[w].own \in Record /\ records \subseteq Record
        /\ records' = records \cup {work[w].own}
    BY BusyTyped DEF Commit, Busy, TypeOK
  <2>2. \A r \in records : r.at <= work[w].own.at
    BY <2>1, LatestIsLast
  <2>3. ~\E r \in records : r.at > work[w].own.at
    BY <2>1, <2>2 DEF Record
  <2>4. alerts[a].cooling \/ a \in work[w].fired
    BY <2>3 DEF Crossing, Noticed, Commit
  <2>5. QED
    BY <2>4, CommitAlerts DEF Exists
<1>2. QED
  BY <1>1, ScrapesInv, PTL DEF Spec, CrossingNoticed

-----------------------------------------------------------------------------
(* Scrapes one at a time.                                                  *)

Alone == \A v, w \in Workers : v = w

(* The scrape under way is the newest transaction, and the record it does  *)
(* not insert is still off the latest's page: none is added behind its     *)
(* back.                                                                   *)
OneByOne ==
  \A w \in Workers : Busy(w) =>
    /\ \A r \in records : r.at < work[w].own.at
    /\ work[w].pc # "record" /\ ~work[w].insert =>
         IsDuplicate(records, work[w].own)

LEMMA OneByOneStep ==
  ASSUME Alone
  PROVE  TypeOK /\ Clocked /\ OneByOne /\ [Next]_vars => OneByOne'
<1> SUFFICES ASSUME TypeOK, Clocked, OneByOne, [Next]_vars PROVE OneByOne'
  OBVIOUS
<1>1. ASSUME records' = records,
             \A v \in Workers : Busy(v)' =>
               /\ Busy(v) /\ work[v].pc # "record"
               /\ work'[v].own = work[v].own
               /\ work'[v].insert = work[v].insert
      PROVE  OneByOne'
  BY <1>1 DEF OneByOne, IsDuplicate
<1>2. ASSUME NEW w \in Workers, Begin(w) \/ ScrapeStep(w) \/ Fail(w)
      PROVE  OneByOne'
  <2>1. Workers = {w}
    BY DEF Alone
  <2>2. CASE Begin(w)
    <3>1. work'[w].own.at = clock + 1 /\ work'[w].pc = "record"
          /\ records' = records
      BY <2>2, Begun DEF Begin
    <3>2. \A r \in records : r.at < clock + 1
      BY AlertsAssumption DEF Clocked, TypeOK, Record
    <3>3. QED
      BY <2>1, <3>1, <3>2 DEF OneByOne
  <2>3. CASE RecordPrice(w)
    <3>1. /\ work'[w].own = work[w].own /\ records' = records /\ Busy(w)
          /\ work'[w].insert = ~IsDuplicate(records, work[w].own)
      BY <2>3, Recorded DEF RecordPrice, Busy
    <3>2. QED
      BY <2>1, <3>1 DEF OneByOne, IsDuplicate
  <2>4. CASE EvaluateAlerts(w)
    BY <1>1, <2>1, <2>4, Evaluated DEF EvaluateAlerts, Busy
  <2>5. CASE NotifyAlerts(w)
    <3>1. CASE work' = [work EXCEPT ![w].pc = "flush",
                                    ![w].fired = Due(work[w].latest)]
      BY <1>1, <2>1, <2>5, <3>1, NotifiedAll DEF NotifyAlerts, Busy
    <3>2. CASE work' = [work EXCEPT ![w] = Idle]
      BY <2>1, <3>2 DEF OneByOne, Busy, Idle, TypeOK
    <3>3. QED
      BY <2>5, <3>1, <3>2 DEF NotifyAlerts
  <2>6. CASE Flush(w)
    <3>1. CASE RollBack(w)
      BY <2>1, <3>1, RolledBack DEF OneByOne
    <3>2. CASE /\ work' = [work EXCEPT ![w].pc = "commit"]
               /\ UNCHANGED <<records, alerts, clock, sent, rollbacks, streak>>
      BY <1>1, <2>1, <2>6, <3>2, Flushed DEF Flush, Busy
    <3>3. QED
      BY <2>6, <3>1, <3>2 DEF Flush
  <2>7. CASE Commit(w)
    BY <2>1, <2>7 DEF Commit, OneByOne, Busy, Idle, TypeOK
  <2>8. CASE Fail(w)
    BY <2>1, <2>8, RolledBack DEF Fail, OneByOne
  <2>9. QED
    BY <1>2, <2>2, <2>3, <2>4, <2>5, <2>6, <2>7, <2>8 DEF ScrapeStep
<1>3. ASSUME NEW a \in Alerts,
             CreateAlert(a) \/ UpdateAlert(a) \/ DeleteAlert(a)
               \/ CooldownElapses(a)
      PROVE  OneByOne'
  <2>1. Touch(a) /\ records' = records
    BY <1>3 DEF CreateAlert, UpdateAlert, DeleteAlert, CooldownElapses
  <2>2. \A v \in Workers : Busy(v)' =>
          /\ Busy(v) /\ work'[v].pc = work[v].pc
          /\ work'[v].own = work[v].own /\ work'[v].insert = work[v].insert
    BY <2>1, Touched
  <2>3. QED
    BY <2>1, <2>2 DEF OneByOne, IsDuplicate
<1>4. CASE UNCHANGED vars
  BY <1>4 DEF vars, OneByOne, Busy, IsDuplicate
<1>5. QED
  BY <1>2, <1>3, <1>4 DEF Next

LEMMA OneByOneInv == ASSUME Alone PROVE Spec => [](TypeOK /\ Clocked /\ OneByOne)
<1>1. Init => OneByOne
  BY InitQuiet DEF OneByOne
<1>2. TypeOK /\ Clocked /\ OneByOne /\ [Next]_vars => OneByOne'
  BY OneByOneStep
<1>3. QED
  BY <1>1, <1>2, ScrapesInv, PTL DEF Spec

(* What the commit of w's scrape leaves as the latest record.              *)
Observes(w) ==
  LET own == work[w].own
      latest == Latest(records')
  IN  /\ latest.ok = own.ok /\ latest.page = own.page
      /\ latest.price # own.price => own.ok /\ ~work[w].insert

LEMMA LatestCommitted ==
  ASSUME TypeOK, OneByOne, NEW w \in Workers, Commit(w)
  PROVE  Observes(w)
<1>1. Busy(w) /\ work[w].own \in Record /\ work[w].pc = "commit"
  BY BusyTyped DEF Commit, Busy
<1>2. CASE work[w].insert
  <2>1. records' = records \cup {work[w].own} /\ records' \subseteq Record
    BY <1>1, <1>2 DEF Commit, TypeOK
  <2>2. \A r \in records' \ {work[w].own} : r.at < work[w].own.at
    BY <1>1, <2>1 DEF OneByOne
  <2>3. Latest(records') = work[w].own
    BY <2>1, <2>2, LatestOf
  <2>4. QED
    BY <2>3 DEF Observes
<1>3. CASE ~work[w].insert
  <2>1. records' = records /\ IsDuplicate(records, work[w].own)
    BY <1>1, <1>3 DEF Commit, OneByOne
  <2>2. Latest(records) \in Record
    BY <2>1, LatestIsLast DEF IsDuplicate, TypeOK
  <2>3. /\ Latest(records).ok = work[w].own.ok
        /\ Latest(records).page = work[w].own.page /\ work[w].own.ok
    BY <1>1, <2>1, <2>2 DEF IsDuplicate, Record
  <2>4. QED
    BY <1>3, <2>1, <2>3 DEF Observes
<1>4. QED
  BY <1>2, <1>3

(* When scrapes of the product run one at a time, a committed scrape       *)
(* leaves a failure as a failure and a price as one off the page it        *)
(* fetched; the price differs only where it was dropped as a duplicate of  *)
(* another price read off the same page.                                   *)
THEOREM LatestObserved == ASSUME Alone PROVE Spec => LatestIsObserved
<1>1. TypeOK /\ OneByOne => [\A w \in Workers : Commit(w) => Observes(w)]_vars
  BY LatestCommitted
<1>2. QED
  BY <1>1, OneByOneInv, PTL DEF LatestIsObserved, Observes
-----------------------------------------------------------------------------
(* The failing streak, one scrape at a time.                               *)

Newer(r) == {q \in records : q.at > r.at}

(* The failures that no later price follows.                               *)
Trailing == {r \in records : \A q \in records : q.at >= r.at => ~q.ok}

FailuresTrail ==
  /\ IsFiniteSet(records)
  /\ \A q, r \in records : q.at = r.at => q = r
  /\ streak = Cardinality(Trailing)

LEMMA Finite ==
  ASSUME IsFiniteSet(records), NEW S, S \subseteq records
  PROVE  /\ IsFiniteSet(S) /\ Cardinality(S) \in Nat
         /\ Cardinality(S) <= Cardinality(records)
         /\ Cardinality(records) \in Nat
BY FS_Subset, FS_CardinalityType

(* A newer record has fewer that are newer.                                *)
LEMMA NewerShrinks ==
  ASSUME TypeOK, IsFiniteSet(records),
         NEW q \in records, NEW r \in records, q.at > r.at
  PROVE  Cardinality(Newer(q)) < Cardinality(Newer(r))
<1>1. q.at \in Int /\ r.at \in Int /\ \A p \in records : p.at \in Int
  BY DEF TypeOK, Record
<1>2. Newer(q) \cup {q} \subseteq Newer(r) /\ q \notin Newer(q)
  BY <1>1 DEF Newer
<1>3. IsFiniteSet(Newer(q)) /\ IsFiniteSet(Newer(r))
      /\ Cardinality(Newer(q)) \in Nat /\ Cardinality(Newer(r)) \in Nat
  BY Finite DEF Newer
<1>4. Cardinality(Newer(q) \cup {q}) = Cardinality(Newer(q)) + 1
  BY <1>2, <1>3, FS_AddElement
<1>5. Cardinality(Newer(q) \cup {q}) <= Cardinality(Newer(r))
  BY <1>2, <1>3, FS_Subset
<1>6. QED
  BY <1>3, <1>4, <1>5

(* Ranked from the newest, records take every rank below their number: n   *)
(* of them rank below n.                                                   *)
LEMMA Ranked ==
  ASSUME TypeOK, FailuresTrail, NEW n \in Nat, n <= Cardinality(records)
  PROVE  Cardinality(Newest(n)) = n
<1> DEFINE N == Cardinality(records)
           rank == [r \in records |-> Cardinality(Newer(r))]
           top == [r \in Newest(n) |-> Cardinality(Newer(r))]
<1>1. N \in Nat /\ IsFiniteSet(records)
  BY Finite DEF FailuresTrail
<1>2. ASSUME NEW r \in records PROVE Cardinality(Newer(r)) \in 0..(N - 1)
  <2>1. Newer(r) \subseteq records \ {r} /\ r.at \in Int
    BY DEF Newer, TypeOK, Record
  <2>2. Cardinality(records \ {r}) = N - 1 /\ IsFiniteSet(records \ {r})
    BY <1>1, <1>2, FS_RemoveElement
  <2>3. Cardinality(Newer(r)) <= N - 1 /\ Cardinality(Newer(r)) \in Nat
    BY <2>1, <2>2, FS_Subset, FS_CardinalityType
  <2>4. QED
    BY <1>1, <2>3
<1>3. ASSUME NEW q \in records, NEW r \in records,
             Cardinality(Newer(q)) = Cardinality(Newer(r))
      PROVE  q = r
  <2>1. q.at \in Int /\ r.at \in Int
    BY DEF TypeOK, Record
  <2>2. ~(q.at > r.at) /\ ~(r.at > q.at)
    BY <1>1, <1>2, <1>3, NewerShrinks
  <2>3. QED
    BY <2>1, <2>2 DEF FailuresTrail
<1>4. IsFiniteSet(0..(N - 1)) /\ Cardinality(0..(N - 1)) = N
  <2> HIDE DEF N
  <2>1. 0 \in Int /\ N - 1 \in Int
    BY <1>1
  <2>2. IsFiniteSet(0..(N - 1))
        /\ Cardinality(0..(N - 1)) = IF 0 > N - 1 THEN 0 ELSE N - 1 - 0 + 1
    BY <2>1, FS_Interval
  <2>3. QED
    BY <1>1, <2>2
<1>5. rank \in Injection(records, 0..(N - 1))
  BY <1>2, <1>3 DEF Injection, IsInjective
<1>6. rank \in Surjection(records, 0..(N - 1))
  BY <1>4, <1>5, FS_Injection
<1>7. \A k \in 0..(N - 1) : \E r \in records : Cardinality(Newer(r)) = k
  BY <1>6 DEF Surjection
<1>8. IsFiniteSet(0..(n - 1)) /\ Cardinality(0..(n - 1)) = n
  <2>1. IsFiniteSet(0..(n - 1))
        /\ Cardinality(0..(n - 1)) = IF 0 > n - 1 THEN 0 ELSE n - 1 - 0 + 1
    BY FS_Interval
  <2>2. QED
    BY <2>1
<1>9. Newest(n) = {r \in records : Cardinality(Newer(r)) < n}
  BY DEF Newest, Newer
<1>10. top \in Injection(Newest(n), 0..(n - 1))
  BY <1>1, <1>2, <1>3, <1>9 DEF Injection, IsInjective
<1>11. top \in Surjection(Newest(n), 0..(n - 1))
  <2>1. ASSUME NEW k \in 0..(n - 1)
        PROVE  \E r \in Newest(n) : Cardinality(Newer(r)) = k
    <3>1. k \in 0..(N - 1) /\ k < n
      BY <1>1
    <3>2. QED
      BY <1>7, <1>9, <3>1
  <2>2. QED
    BY <1>10, <2>1 DEF Injection, Surjection
<1>12. QED
  BY <1>8, <1>10, <1>11, FS_Injection

LEMMA FailuresTrailStep ==
  ASSUME Alone
  PROVE  TypeOK /\ Clocked /\ OneByOne /\ FailuresTrail /\ [Next]_vars
           => FailuresTrail'
<1> SUFFICES ASSUME TypeOK, Clocked, OneByOne, FailuresTrail, [Next]_vars
             PROVE  FailuresTrail'
  OBVIOUS
<1>1. ASSUME NEW w \in Workers, Commit(w) PROVE FailuresTrail'
  <2> DEFINE own == work[w].own
  <2>1. /\ Busy(w) /\ work[w].pc = "commit" /\ own \in Record
        /\ own.at \in Int /\ \A r \in records : r.at \in Int /\ r.at < own.at
    BY <1>1, BusyTyped DEF Commit, Busy, OneByOne, TypeOK, Record
  <2>2. CASE own.ok /\ work[w].insert
    <3>1. records' = records \cup {own} /\ streak' = 0
      BY <1>1, <2>2 DEF Commit
    <3>2. IsFiniteSet(records')
      BY <3>1, FS_AddElement DEF FailuresTrail
    <3>3. Trailing' = {}
      BY <2>1, <2>2, <3>1 DEF Trailing
    <3>4. \A q, r \in records' : q.at = r.at => q = r
      BY <2>1, <3>1 DEF FailuresTrail
    <3>5. QED
      BY <3>1, <3>2, <3>3, <3>4, FS_EmptySet DEF FailuresTrail
  <2>3. CASE own.ok /\ ~work[w].insert
    <3>1. records' = records /\ streak' = 0 /\ IsDuplicate(records, own)
      BY <1>1, <2>1, <2>3 DEF Commit, OneByOne
    <3>2. /\ Latest(records) \in records /\ Latest(records).ok
          /\ \A q \in records : q.at <= Latest(records).at
      BY <3>1, LatestIsLast DEF IsDuplicate, TypeOK
    <3>3. Trailing' = {}
      BY <2>1, <3>1, <3>2 DEF Trailing
    <3>4. QED
      BY <3>1, <3>3, FS_EmptySet DEF FailuresTrail
  <2>4. CASE ~own.ok
    <3>1. work[w].insert
      BY <2>1, <2>4 DEF OneByOne, IsDuplicate, Job
    <3>2. records' = records \cup {own} /\ streak' = streak + 1
          /\ own \notin records
      BY <1>1, <2>1, <2>4, <3>1 DEF Commit
    <3>3. IsFiniteSet(records')
      BY <3>2, FS_AddElement DEF FailuresTrail
    <3>4. Trailing' = Trailing \cup {own} /\ own \notin Trailing
      BY <2>1, <2>4, <3>2 DEF Trailing
    <3>5. IsFiniteSet(Trailing)
      BY Finite DEF FailuresTrail, Trailing
    <3>6. Cardinality(Trailing') = Cardinality(Trailing) + 1
      BY <3>4, <3>5, FS_AddElement
    <3>7. \A q, r \in records' : q.at = r.at => q = r
      BY <2>1, <3>2 DEF FailuresTrail
    <3>8. QED
      BY <3>2, <3>3, <3>6, <3>7 DEF FailuresTrail
  <2>5. QED
    BY <2>2, <2>3, <2>4
<1>2. CASE records' = records /\ streak' = streak
  BY <1>2 DEF FailuresTrail, Trailing
<1>3. ASSUME NEW w \in Workers, Begin(w) \/ ScrapeStep(w) \/ Fail(w), ~Commit(w)
      PROVE  records' = records /\ streak' = streak
  BY <1>3 DEF Begin, ScrapeStep, RecordPrice, EvaluateAlerts, NotifyAlerts,
     Flush, RollBack, Fail
<1>4. ASSUME NEW a \in Alerts,
             CreateAlert(a) \/ UpdateAlert(a) \/ DeleteAlert(a)
               \/ CooldownElapses(a)
      PROVE  records' = records /\ streak' = streak
  BY <1>4 DEF CreateAlert, UpdateAlert, DeleteAlert, CooldownElapses
<1>5. QED
  BY <1>1, <1>2, <1>3, <1>4 DEF Next, vars

LEMMA StreakIsFlagged == TypeOK /\ FailuresTrail => FlaggedIffFailing
<1> SUFFICES ASSUME TypeOK, FailuresTrail
             PROVE  Flagged <=> streak >= MinFailures
  BY DEF FlaggedIffFailing
<1> DEFINE last == Newest(MinFailures)
<1>1. /\ IsFiniteSet(records) /\ MinFailures \in Nat
      /\ \A r \in records : r.at \in Int
  BY AlertsAssumption DEF FailuresTrail, TypeOK, Record
<1>2. Trailing \subseteq records /\ last \subseteq records
  BY DEF Trailing, Newest
<1>3. /\ IsFiniteSet(Trailing) /\ streak = Cardinality(Trailing)
      /\ streak \in Nat /\ streak <= Cardinality(records)
      /\ Cardinality(last) <= Cardinality(records)
      /\ Cardinality(records) \in Nat /\ Cardinality(last) \in Nat
  BY <1>1, <1>2, Finite DEF FailuresTrail
<1>4. \A r \in records :
        r \in last <=> Cardinality(Newer(r)) < MinFailures
  BY DEF Newest, Newer
<1>5. CASE MinFailures > Cardinality(records)
  BY <1>1, <1>3, <1>5 DEF Flagged
<1>6. CASE MinFailures <= Cardinality(records)
  <2>1. Cardinality(last) = MinFailures
    BY <1>1, <1>6, Ranked
  <2>2. ASSUME \A r \in last : ~r.ok PROVE streak >= MinFailures
    <3>1. ASSUME NEW r \in last, NEW q \in records, q.at >= r.at
          PROVE  ~q.ok
      <4>1. CASE q.at = r.at
        BY <1>2, <2>2, <3>1, <4>1 DEF FailuresTrail
      <4>2. CASE q.at > r.at
        <5>1. Cardinality(Newer(q)) < Cardinality(Newer(r))
          BY <1>1, <1>2, <3>1, <4>2, NewerShrinks
        <5>2. Cardinality(Newer(q)) \in Nat /\ Cardinality(Newer(r)) \in Nat
          BY <1>1, Finite DEF Newer
        <5>3. q \in last
          BY <1>1, <1>2, <1>4, <3>1, <5>1, <5>2
        <5>4. QED
          BY <2>2, <5>3
      <4>3. QED
        BY <1>1, <1>2, <3>1, <4>1, <4>2
    <3>2. last \subseteq Trailing
      BY <1>2, <3>1 DEF Trailing
    <3>3. Cardinality(last) <= Cardinality(Trailing)
      BY <1>3, <3>2, FS_Subset
    <3>4. QED
      BY <1>1, <1>3, <2>1, <3>3
  <2>3. ASSUME streak >= MinFailures, NEW r \in last PROVE ~r.ok
    <3>1. SUFFICES ASSUME r.ok PROVE FALSE
      OBVIOUS
    <3>2. Trailing \subseteq Newer(r)
      BY <1>1, <1>2, <3>1 DEF Trailing, Newer
    <3>3. IsFiniteSet(Newer(r)) /\ Cardinality(Newer(r)) \in Nat
      BY <1>1, Finite DEF Newer
    <3>4. Cardinality(Trailing) <= Cardinality(Newer(r))
      BY <3>2, <3>3, FS_Subset
    <3>5. Cardinality(Newer(r)) < MinFailures
      BY <1>2, <1>4
    <3>6. QED
      BY <1>1, <1>3, <2>3, <3>3, <3>4, <3>5
  <2>4. QED
    BY <2>1, <2>2, <2>3 DEF Flagged
<1>7. QED
  BY <1>1, <1>3, <1>5, <1>6

(* When scrapes of the product run one at a time, the view of failing      *)
(* products flags it exactly when its last MinFailures scrapes all failed. *)
THEOREM FlaggedWhenFailing == ASSUME Alone PROVE Spec => []FlaggedIffFailing
<1>1. Init => FailuresTrail
  <2> SUFFICES ASSUME Init PROVE FailuresTrail
    OBVIOUS
  <2>1. records = {} /\ Trailing = {} /\ streak = 0
    BY DEF Init, Trailing
  <2>2. QED
    BY <2>1, FS_EmptySet DEF FailuresTrail
<1>2. TypeOK /\ Clocked /\ OneByOne /\ FailuresTrail /\ [Next]_vars
        => FailuresTrail'
  BY FailuresTrailStep
<1>3. QED
  BY <1>1, <1>2, OneByOneInv, StreakIsFlagged, PTL DEF Spec
-----------------------------------------------------------------------------
(* The alerts' promise, one scrape at a time.                              *)

(* An alert is quiet exactly while one notice of it was not rolled back,   *)
(* and there never are two.                                                *)
LEMMA QuietAre ==
  ASSUME Alone, TypeOK, Counted
  PROVE  /\ Quiet = {a \in Alerts : sent[a] > rollbacks[a]}
         /\ \A a \in Alerts :
              sent[a] = rollbacks[a] \/ sent[a] = rollbacks[a] + 1
<1>1. ASSUME NEW a \in Alerts
      PROVE  /\ a \in Quiet <=> sent[a] > rollbacks[a]
             /\ sent[a] = rollbacks[a] \/ sent[a] = rollbacks[a] + 1
  <2> DEFINE n == Cardinality(InFlight(a))
  <2>1. /\ sent[a] \in Nat /\ rollbacks[a] \in Nat
        /\ alerts[a].cooling \in BOOLEAN
        /\ alerts[a].status \in {"absent", "active", "paused", "deleted"}
    BY AlertTyped
  <2>2. Cardinality(Workers) \in Nat /\ Cardinality(Workers) <= 1
    <3>1. CASE Workers = {}
      BY <3>1, FS_EmptySet
    <3>2. CASE Workers # {}
      <4>1. PICK w : Workers = {w}
        BY <3>2 DEF Alone
      <4>2. QED
        BY <4>1, FS_Singleton
    <3>3. QED
      BY <3>1, <3>2
  <2>3. /\ n \in Nat /\ (InFlight(a) # {} => n >= 1)
        /\ (InFlight(a) = {} => n = 0)
    BY WorkerSets DEF InFlight
  <2>4. a \in UNION {Fired(w) : w \in Workers} <=> InFlight(a) # {}
    BY DEF InFlight
  <2>5. /\ n <= sent[a] - rollbacks[a]
        /\ sent[a] - rollbacks[a] <= Cardinality(Workers)
        /\ alerts[a].cooling => n < sent[a] - rollbacks[a]
        /\ ~alerts[a].cooling /\ alerts[a].status # "deleted" =>
             n = sent[a] - rollbacks[a]
    BY DEF Counted, Even
  <2>6. a \in Quiet <=> \/ alerts[a].cooling
                        \/ ~Exists(a) /\ sent[a] > rollbacks[a]
                        \/ InFlight(a) # {}
    BY <2>4 DEF Quiet
  <2> HIDE DEF n
  <2>7. sent[a] = rollbacks[a] \/ sent[a] = rollbacks[a] + 1
    BY <2>1, <2>2, <2>3, <2>5
  <2>8. a \in Quiet => sent[a] > rollbacks[a]
    BY <2>1, <2>3, <2>5, <2>6
  <2>9. sent[a] > rollbacks[a] => a \in Quiet
    <3>1. CASE alerts[a].cooling \/ alerts[a].status = "deleted"
      BY <2>6, <3>1 DEF Exists
    <3>2. CASE ~alerts[a].cooling /\ alerts[a].status # "deleted"
      BY <2>1, <2>3, <2>5, <2>6, <3>2
    <3>3. QED
      BY <3>1, <3>2
  <2>10. QED
    BY <2>7, <2>8, <2>9
<1>2. Quiet \subseteq Alerts
  BY FiredTyped DEF Quiet
<1>3. QED
  BY <1>1, <1>2

LEMMA QuietAfter ==
  ASSUME Alone
  PROVE  TypeOK' /\ Counted' =>
           Quiet' = {a \in Alerts : sent'[a] > rollbacks'[a]}
<1>1. TypeOK /\ Counted => Quiet = {a \in Alerts : sent[a] > rollbacks[a]}
  BY QuietAre
<1>2. (TypeOK /\ Counted
         => Quiet = {a \in Alerts : sent[a] > rollbacks[a]})'
  BY <1>1, PTL
<1>3. QED
  BY <1>2

LEMMA CooldownStep ==
  ASSUME Alone
  PROVE  /\ TypeOK /\ StreakBounded /\ Unfired /\ Counted /\ [Next]_vars
         => [Cooldown!Next]_(Cooldown!vars)
<1> SUFFICES ASSUME TypeOK, StreakBounded, Unfired, Counted, [Next]_vars
             PROVE  Cooldown!Next \/ UNCHANGED Cooldown!vars
  OBVIOUS
<1> DEFINE Ahead == {a \in Alerts : sent[a] > rollbacks[a]}
<1>1. /\ Quiet = Ahead /\ Quiet' = Ahead'
      /\ \A a \in Alerts : /\ sent[a] \in Nat /\ rollbacks[a] \in Nat
                           /\ \/ sent[a] = rollbacks[a]
                              \/ sent[a] = rollbacks[a] + 1
  <2>1. TypeOK' /\ Counted'
    BY TypeStep, CountedStep
  <2>2. QED
    BY <2>1, QuietAre, QuietAfter, AlertTyped
<1>2. CASE UNCHANGED <<sent, rollbacks>>
  BY <1>1, <1>2 DEF Cooldown!vars
<1>3. ASSUME NEW w \in Workers, NotifyAlerts(w)
      PROVE  Cooldown!Next \/ UNCHANGED Cooldown!vars
  <2> DEFINE due == Due(work[w].latest)
  <2>1. due \subseteq Alerts /\ due \cap Quiet = {}
    <3>1. ASSUME NEW a \in due PROVE a \in Alerts /\ a \notin Quiet
      <4>1. a \in Alerts /\ alerts[a].status = "active" /\ ~alerts[a].cooling
        BY DueAre
      <4>2. \A v \in Workers : Fired(v) = {}
        BY <1>3 DEF Alone, NotifyAlerts, Unfired, Fired
      <4>3. QED
        BY <4>1, <4>2 DEF Quiet, Exists
    <3>2. QED
      BY <3>1
  <2> HIDE DEF due
  <2>2. CASE sent' = Bump(sent, due) /\ rollbacks' = rollbacks
    <3>1. Quiet' = Quiet \cup due
      BY <1>1, <2>1, <2>2 DEF Bump
    <3>2. Cooldown!Notify(due)
      BY <2>1, <2>2, <3>1 DEF Cooldown!Notify, Bump
    <3>3. QED
      BY <2>1, <3>2 DEF Cooldown!Next
  <2>3. ASSUME NEW S \in SUBSET due,
               sent' = Bump(sent, S), rollbacks' = Bump(rollbacks, S)
        PROVE  Cooldown!Next
    <3>1. Quiet' = Quiet
      BY <1>1, <2>1, <2>3 DEF Bump
    <3>2. Cooldown!NotifyAndForget(S)
      BY <2>1, <2>3, <3>1 DEF Cooldown!NotifyAndForget, Bump
    <3>3. QED
      BY <2>1, <3>2 DEF Cooldown!Next
  <2>4. QED
    BY <1>3, <2>2, <2>3 DEF NotifyAlerts, due
<1>4. ASSUME NEW w \in Workers, RollBack(w) PROVE Cooldown!Next
  <2>1. Fired(w) \subseteq Alerts /\ Fired(w) \subseteq Quiet
    BY FiredTyped DEF Quiet
  <2>2. rollbacks' = Bump(rollbacks, Fired(w)) /\ sent' = sent
    BY <1>4 DEF RollBack
  <2>3. Quiet' = Quiet \ Fired(w)
    BY <1>1, <2>1, <2>2 DEF Bump
  <2>4. Cooldown!Forget(Fired(w))
    BY <2>1, <2>2, <2>3 DEF Cooldown!Forget, Bump
  <2>5. QED
    BY <2>1, <2>4 DEF Cooldown!Next
<1>5. ASSUME NEW a \in Alerts, CooldownElapses(a) PROVE Cooldown!Next
  <2>1. /\ a \in Quiet /\ sent' = [sent EXCEPT ![a] = 0]
        /\ rollbacks' = [rollbacks EXCEPT ![a] = 0]
    BY <1>5 DEF CooldownElapses, Quiet
  <2>2. Quiet' = Quiet \ {a}
    BY <1>1, <2>1 DEF TypeOK
  <2>3. Cooldown!Elapse(a)
    BY <2>1, <2>2 DEF Cooldown!Elapse
  <2>4. QED
    BY <2>3 DEF Cooldown!Next
<1>6. ASSUME NEW w \in Workers, Begin(w) \/ ScrapeStep(w) \/ Fail(w)
      PROVE  \/ NotifyAlerts(w) \/ RollBack(w)
             \/ UNCHANGED <<sent, rollbacks>>
  BY <1>6 DEF Begin, ScrapeStep, RecordPrice, EvaluateAlerts, Flush, Commit,
     Fail
<1>7. ASSUME NEW a \in Alerts, CreateAlert(a) \/ UpdateAlert(a) \/ DeleteAlert(a)
      PROVE  UNCHANGED <<sent, rollbacks>>
  BY <1>7 DEF CreateAlert, UpdateAlert, DeleteAlert
<1>8. QED
  BY <1>2, <1>3, <1>4, <1>5, <1>6, <1>7 DEF Next, vars

(* When scrapes of the product run one at a time, the alerts of the        *)
(* database, its transactions and the broker implement AlertCooldown: a    *)
(* notified alert is not notified again until its cooldown elapses or the  *)
(* scrape that notified it is rolled back.                                 *)
THEOREM CooldownKept == ASSUME Alone PROVE Spec => KeepsCooldown
<1>1. Init => Cooldown!Init
  BY InitQuiet DEF Init, Cooldown!Init, Quiet, NoAlert
<1>2. /\ TypeOK /\ StreakBounded /\ Unfired /\ Counted /\ [Next]_vars
      => [Cooldown!Next]_(Cooldown!vars)
  BY CooldownStep
<1>3. QED
  BY <1>1, <1>2, Bounds, NoticesCounted, PTL
     DEF Spec, KeepsCooldown, Cooldown!Spec

(* Inductive for the promise itself: only a quiet alert may be one notice  *)
(* ahead of those a rollback forgot.                                       *)
Balanced ==
  /\ Quiet \subseteq Alerts
  /\ sent \in [Alerts -> Nat] /\ rollbacks \in [Alerts -> Nat]
  /\ \A a \in Alerts :
       /\ a \in Quiet => sent[a] <= 1 + rollbacks[a]
       /\ a \notin Quiet => sent[a] <= rollbacks[a]

(* Whatever keeps AlertCooldown notifies an alert, in one cooldown, at     *)
(* most once more than its rolled back scrapes did.                        *)
THEOREM OneNotice == Cooldown!Spec => []Cooldown!OneNoticePerQuiet
<1>1. Cooldown!Init => Balanced
  BY DEF Cooldown!Init, Balanced
<1>2. Balanced /\ [Cooldown!Next]_(Cooldown!vars) => Balanced'
  <2> SUFFICES ASSUME Balanced, [Cooldown!Next]_(Cooldown!vars)
               PROVE  Balanced'
    OBVIOUS
  <2>1. ASSUME NEW S \in SUBSET Alerts, Cooldown!Notify(S) PROVE Balanced'
    BY <2>1 DEF Balanced, Cooldown!Notify
  <2>2. ASSUME NEW S \in SUBSET Alerts, Cooldown!Forget(S) PROVE Balanced'
    BY <2>2 DEF Balanced, Cooldown!Forget
  <2>3. ASSUME NEW S \in SUBSET Alerts, Cooldown!NotifyAndForget(S)
        PROVE  Balanced'
    BY <2>3 DEF Balanced, Cooldown!NotifyAndForget
  <2>4. ASSUME NEW a \in Alerts, Cooldown!Elapse(a) PROVE Balanced'
    BY <2>4 DEF Balanced, Cooldown!Elapse
  <2>5. CASE UNCHANGED Cooldown!vars
    BY <2>5 DEF Balanced, Cooldown!vars
  <2>6. QED
    BY <2>1, <2>2, <2>3, <2>4, <2>5 DEF Cooldown!Next
<1>3. Balanced => Cooldown!OneNoticePerQuiet
  <2> SUFFICES ASSUME Balanced, NEW a \in Alerts
               PROVE  sent[a] <= 1 + rollbacks[a]
    BY DEF Cooldown!OneNoticePerQuiet
  <2>1. sent[a] \in Nat /\ rollbacks[a] \in Nat
    BY DEF Balanced
  <2>2. QED
    BY <2>1 DEF Balanced
<1>4. QED
  BY <1>1, <1>2, <1>3, PTL DEF Cooldown!Spec

(* So, when scrapes of the product run one at a time, an alert is notified *)
(* at most once in one cooldown but for what a rollback takes back.        *)
THEOREM QuietIsKept ==
  ASSUME Alone PROVE Spec => []Cooldown!OneNoticePerQuiet
BY CooldownKept, OneNotice, PTL DEF KeepsCooldown
=============================================================================
