----------------------------- MODULE PriceAlerts -----------------------------
(***************************************************************************)
(* Scrapes of one product, its price records and its price alerts          *)
(* (services/price_service.py, services/alert_service.py,                  *)
(* services/notifications.py, services/monitoring_service.py,              *)
(* api/v1/alerts.py, and the transaction of tasks/scrape.py around them).  *)
(*                                                                         *)
(* A scrape is one READ COMMITTED transaction: it fetches the page, reads  *)
(* the latest record, inserts its own unless it repeats the latest,        *)
(* evaluates the alerts, hands the notifications to the broker, flushes    *)
(* notified_at and commits.  Whatever it raises rolls all of this back but *)
(* the notifications.  A retry is one more scrape.                         *)
(*                                                                         *)
(* captured_at is the database's now(): the start of the transaction, so a *)
(* slow scrape may commit a record older than the latest.                  *)
(***************************************************************************)
EXTENDS Integers, FiniteSets

CONSTANTS
  Workers,     \* scrapes of the product that may overlap
  Alerts,      \* alert ids that are ever created
  Pages,       \* page contents, by html hash
  Readings,    \* the prices that the product's css_selector and the host's
               \* stored selector, as they are or will be, read off a page
  Thresholds,  \* the threshold prices users set
  MinFailures, \* min_failures of find_failing_products
  MaxScrapes,  \* bound: scrapes
  MaxEdits,    \* bound: edits of each alert
  MaxFaults    \* bound: scrapes that a fault rolls back

ASSUME AlertsAssumption ==
  /\ IsFiniteSet(Workers)
  /\ Readings \in [Pages -> SUBSET Nat]
  /\ Thresholds \subseteq Nat /\ Thresholds # {}
  /\ MinFailures \in Nat \ {0}
  /\ MaxScrapes \in Nat /\ MaxEdits \in Nat /\ MaxFaults \in Nat

VARIABLES
  records,    \* the committed price_record rows
  alerts,     \* the price_alert table
  work,       \* what each worker's scrape is doing
  clock,      \* transactions begun
  faults,
  sent,       \* history: notices of each alert handed to the broker since
              \* its cooldown last ended
  rollbacks,  \* history: of these, the ones whose scrape was rolled back
  streak      \* history: committed scrapes that failed since the last that
              \* found a price

vars == <<records, alerts, work, clock, faults, sent, rollbacks, streak>>
-----------------------------------------------------------------------------
Directions == {"below", "above"}
Record == [at: 1..MaxScrapes, ok: BOOLEAN, page: Pages, price: Nat]
Alert  == [status: {"absent", "active", "paused", "deleted"},
           direction: Directions, threshold: Thresholds,
           cooling: BOOLEAN, edits: 0..MaxEdits]
NoAlert == [status |-> "absent", direction |-> "below",
            threshold |-> CHOOSE t \in Thresholds : TRUE,
            cooling |-> FALSE, edits |-> 0]

(* A scrape: its record, whether it inserts it, the price it compares the  *)
(* alerts with, the alerts it notified, and (history) the alerts that      *)
(* changed since it read them.                                             *)
Idle == [pc |-> "idle"]
Job  == [pc: {"record", "evaluate", "notify", "flush", "commit"},
         own: Record, insert: BOOLEAN, latest: Nat,
         fired: SUBSET Alerts, touched: SUBSET Alerts]

TypeOK ==
  /\ records \subseteq Record
  /\ alerts \in [Alerts -> Alert]
  /\ work \in [Workers -> {Idle} \cup Job]
  /\ clock \in 0..MaxScrapes /\ faults \in 0..MaxFaults
  /\ sent \in [Alerts -> Nat] /\ rollbacks \in [Alerts -> Nat]
  /\ streak \in 0..MaxScrapes

Exists(a) == alerts[a].status \in {"active", "paused"}
Busy(w)   == work[w].pc # "idle"
Fired(w)  == IF Busy(w) THEN work[w].fired ELSE {}

Init ==
  /\ records = {}
  /\ alerts = [a \in Alerts |-> NoAlert]
  /\ work = [w \in Workers |-> Idle]
  /\ clock = 0 /\ faults = 0
  /\ sent = [a \in Alerts |-> 0] /\ rollbacks = [a \in Alerts |-> 0]
  /\ streak = 0
-----------------------------------------------------------------------------
(* ORDER BY captured_at DESC LIMIT 1, over the committed rows and the      *)
(* transaction's own.                                                      *)
Latest(rows) == CHOOSE r \in rows : \A q \in rows : q.at <= r.at

(* Mutation: any repeated hash is a duplicate, failures too.               *)
DuplicateByHash(rows, own) == rows # {} /\ Latest(rows).page = own.page

(* Mutation: the status of the stored record is not looked at.             *)
DuplicateOfFailure(rows, own) ==
  own.ok /\ rows # {} /\ Latest(rows).page = own.page

(* Only a price off the page the latest price was read off is a duplicate, *)
(* whatever price it is.                                                   *)
IsDuplicate(rows, own) ==
  /\ own.ok
  /\ rows # {} /\ Latest(rows).ok
  /\ Latest(rows).page = own.page

ThresholdTriggered(alert, price) ==
  \/ alert.direction = "below" /\ price < alert.threshold
  \/ alert.direction = "above" /\ price > alert.threshold

(* Mutation: the cooldown is not checked.                                  *)
DueAlways(price) ==
  {a \in Alerts : /\ alerts[a].status = "active"
                  /\ ThresholdTriggered(alerts[a], price)}

(* The alerts an evaluation against price notifies.                        *)
Due(price) ==
  {a \in Alerts : /\ alerts[a].status = "active"
                  /\ ~alerts[a].cooling
                  /\ ThresholdTriggered(alerts[a], price)}

(* The records find_failing_products ranks first, and what it decides.     *)
Newest(n) == {r \in records : Cardinality({q \in records : q.at > r.at}) < n}
Flagged == /\ Cardinality(Newest(MinFailures)) = MinFailures
           /\ \A r \in Newest(MinFailures) : ~r.ok
-----------------------------------------------------------------------------
Bump(f, S) == [a \in Alerts |-> IF a \in S THEN f[a] + 1 ELSE f[a]]

(* What a scrape begun at time t may end with: no price, or one that the   *)
(* selectors of the moment read off the page it fetched.                   *)
Observed(t) ==
  [at: {t}, ok: {FALSE}, page: Pages, price: {0}]
    \cup UNION {[at: {t}, ok: {TRUE}, page: {p}, price: Readings[p]] :
                  p \in Pages}

(* Mutation: the clock is read before it advances.                         *)
BeginBeforeTick(w) ==
  /\ ~Busy(w) /\ clock < MaxScrapes
  /\ clock' = clock + 1
  /\ \E own \in Observed(clock) :
       work' = [work EXCEPT ![w] =
         [pc |-> "record", own |-> own, insert |-> FALSE,
          latest |-> own.price, fired |-> {}, touched |-> {}]]
  /\ UNCHANGED <<records, alerts, faults, sent, rollbacks, streak>>

Begin(w) ==
  /\ ~Busy(w) /\ clock < MaxScrapes
  /\ clock' = clock + 1
  /\ \E own \in Observed(clock + 1) :
       work' = [work EXCEPT ![w] =
         [pc |-> "record", own |-> own, insert |-> FALSE,
          latest |-> own.price, fired |-> {}, touched |-> {}]]
  /\ UNCHANGED <<records, alerts, faults, sent, rollbacks, streak>>

(* record_price: the insert is flushed, so the transaction sees it.        *)
RecordPrice(w) ==
  /\ work[w].pc = "record"
  /\ LET duplicate == IsDuplicate(records, work[w].own)
     IN  work' = [work EXCEPT
           ![w].insert = ~duplicate,
           ![w].pc = IF work[w].own.ok /\ ~duplicate
                       THEN "evaluate" ELSE "commit"]
  /\ UNCHANGED <<records, alerts, clock, faults, sent, rollbacks, streak>>

(* Mutation: the new record is not flushed before the alerts are evaluated. *)
EvaluateUnflushed(w) ==
  /\ work[w].pc = "evaluate"
  /\ LET latest == IF records = {} THEN work[w].own ELSE Latest(records)
     IN  work' = [work EXCEPT
           ![w].pc = IF latest.ok THEN "notify" ELSE "commit",
           ![w].latest = latest.price]
  /\ UNCHANGED <<records, alerts, clock, faults, sent, rollbacks, streak>>

(* evaluate_alerts reads the latest record again: it need not be its own.  *)
EvaluateAlerts(w) ==
  /\ work[w].pc = "evaluate"
  /\ LET latest == Latest(records \cup {work[w].own})
     IN  work' = [work EXCEPT
           ![w].pc = IF latest.ok THEN "notify" ELSE "commit",
           ![w].latest = latest.price]
  /\ UNCHANGED <<records, alerts, clock, faults, sent, rollbacks, streak>>

(* Mutation: a broker failure is logged and swallowed.                     *)
NotifyBestEffort(w) ==
  /\ work[w].pc = "notify"
  /\ LET due == Due(work[w].latest)
     IN  \E S \in SUBSET due :
           /\ \/ S = due /\ UNCHANGED faults
              \/ S # due /\ faults < MaxFaults /\ faults' = faults + 1
           /\ sent' = Bump(sent, S)
           /\ work' = [work EXCEPT ![w].pc = "flush", ![w].fired = due]
  /\ UNCHANGED <<records, alerts, clock, rollbacks, streak>>

(* It reads the active alerts and, one after the other, stamps and         *)
(* notifies those that are due.  The broker refusing one raises.           *)
NotifyAlerts(w) ==
  /\ work[w].pc = "notify"
  /\ LET due == Due(work[w].latest)
     IN  \/ /\ sent' = Bump(sent, due)
            /\ work' = [work EXCEPT ![w].pc = "flush", ![w].fired = due]
            /\ UNCHANGED <<faults, rollbacks>>
         \/ \E S \in SUBSET due :
              /\ S # due
              /\ faults < MaxFaults /\ faults' = faults + 1
              /\ sent' = Bump(sent, S)
              /\ rollbacks' = Bump(rollbacks, S)
              /\ work' = [work EXCEPT ![w] = Idle]
  /\ UNCHANGED <<records, alerts, clock, streak>>

RollBack(w) ==
  /\ rollbacks' = Bump(rollbacks, Fired(w))
  /\ work' = [work EXCEPT ![w] = Idle]
  /\ UNCHANGED <<records, alerts, clock, sent, streak>>

(* session.flush(): the UPDATEs wait for the row locks of other scrapes.   *)
(* The row of an alert deleted meanwhile is missed: the ORM raises when it *)
(* updates one row, and cannot tell when it updates several at once.       *)
Flush(w) ==
  /\ work[w].pc = "flush"
  /\ \A v \in Workers : work[v].pc = "commit" =>
       work[v].fired \cap work[w].fired = {}
  /\ \/ /\ \A a \in work[w].fired :
             Exists(a) \/ Cardinality(work[w].fired) > 1
        /\ work' = [work EXCEPT ![w].pc = "commit"]
        /\ UNCHANGED <<records, alerts, clock, sent, rollbacks, streak>>
     \/ /\ \E a \in work[w].fired : ~Exists(a)
        /\ RollBack(w)
  /\ UNCHANGED faults

Commit(w) ==
  /\ work[w].pc = "commit"
  /\ records' = IF work[w].insert THEN records \cup {work[w].own} ELSE records
  /\ alerts' = [a \in Alerts |->
       IF a \in work[w].fired /\ Exists(a)
         THEN [alerts[a] EXCEPT !.cooling = TRUE] ELSE alerts[a]]
  /\ streak' = IF work[w].own.ok THEN 0 ELSE streak + 1
  /\ work' = [work EXCEPT ![w] = Idle]
  /\ UNCHANGED <<clock, faults, sent, rollbacks>>

(* The fetch raises, a connection drops, the worker dies.                  *)
Fail(w) ==
  /\ Busy(w)
  /\ faults < MaxFaults /\ faults' = faults + 1
  /\ RollBack(w)
-----------------------------------------------------------------------------
(* The alerts API.  A statement on a locked row waits for the lock.        *)
Locked(a) == \E w \in Workers : work[w].pc = "commit" /\ a \in work[w].fired

Touch(a) ==
  work' = [w \in Workers |->
    IF Busy(w) THEN [work[w] EXCEPT !.touched = @ \cup {a}] ELSE Idle]

CreateAlert(a) ==
  /\ alerts[a].status = "absent"
  /\ \E d \in Directions, t \in Thresholds :
       alerts' = [alerts EXCEPT ![a].status = "active",
                                ![a].direction = d, ![a].threshold = t]
  /\ Touch(a)
  /\ UNCHANGED <<records, clock, faults, sent, rollbacks, streak>>

(* PATCH: any of the fields; notified_at is not one of them.               *)
UpdateAlert(a) ==
  /\ Exists(a) /\ ~Locked(a) /\ alerts[a].edits < MaxEdits
  /\ \E s \in {"active", "paused"}, d \in Directions, t \in Thresholds :
       alerts' = [alerts EXCEPT ![a].status = s, ![a].direction = d,
                                ![a].threshold = t, ![a].edits = @ + 1]
  /\ Touch(a)
  /\ UNCHANGED <<records, clock, faults, sent, rollbacks, streak>>

DeleteAlert(a) ==
  /\ Exists(a) /\ ~Locked(a)
  /\ alerts' = [alerts EXCEPT ![a].status = "deleted"]
  /\ Touch(a)
  /\ UNCHANGED <<records, clock, faults, sent, rollbacks, streak>>

(* ALERT_COOLDOWN_HOURS after notified_at; longer than a scrape takes.     *)
CooldownElapses(a) ==
  /\ Exists(a) /\ alerts[a].cooling
  /\ \A w \in Workers : a \notin Fired(w)
  /\ alerts' = [alerts EXCEPT ![a].cooling = FALSE]
  /\ sent' = [sent EXCEPT ![a] = 0]
  /\ rollbacks' = [rollbacks EXCEPT ![a] = 0]
  /\ Touch(a)
  /\ UNCHANGED <<records, clock, faults, streak>>
-----------------------------------------------------------------------------
ScrapeStep(w) ==
  \/ RecordPrice(w) \/ EvaluateAlerts(w) \/ NotifyAlerts(w) \/ Flush(w)
  \/ Commit(w)

Next ==
  \/ \E w \in Workers : Begin(w) \/ ScrapeStep(w) \/ Fail(w)
  \/ \E a \in Alerts : CreateAlert(a) \/ UpdateAlert(a) \/ DeleteAlert(a)
                         \/ CooldownElapses(a)

Spec == Init /\ [][Next]_vars
-----------------------------------------------------------------------------
(* Overlapping scrapes of one product may each notify an alert, but only   *)
(* the ones already past the check when the first of them commits; apart   *)
(* from rolled back scrapes, an alert is notified no more often than that  *)
(* in one cooldown.                                                        *)
NoticesBounded ==
  \A a \in Alerts : sent[a] <= Cardinality(Workers) + rollbacks[a]

(* No alert falls silent for a cooldown without a notification that the    *)
(* broker accepted, whatever failed or was rolled back on the way.         *)
NeverSilenced ==
  \A a \in Alerts : Exists(a) /\ alerts[a].cooling => sent[a] > rollbacks[a]

(* When a scrape's price becomes the product's latest price, every active  *)
(* alert it triggers has been notified, by this scrape or by the one that  *)
(* started its cooldown, unless the alert changed while the scrape ran.    *)
CrossingNoticed ==
  [][\A w \in Workers : \A a \in Alerts :
       (/\ Commit(w) /\ work[w].insert /\ work[w].own.ok
        /\ Latest(records') = work[w].own
        /\ alerts[a].status = "active"
        /\ a \notin work[w].touched
        /\ ThresholdTriggered(alerts[a], work[w].own.price))
       => alerts'[a].cooling]_vars

(* Scrapes one at a time: a committed scrape leaves its own outcome as the *)
(* product's latest record: a failure as a failure, a price as one off the *)
(* page it fetched.  Only a price that was dropped as a duplicate may be   *)
(* another than the latest says: when selectors changed, the page did not. *)
LatestIsObserved ==
  [][\A w \in Workers : Commit(w) =>
       LET own == work[w].own
           latest == Latest(records')
       IN  /\ latest.ok = own.ok /\ latest.page = own.page
           /\ latest.price # own.price => own.ok /\ ~work[w].insert]_vars

(* Scrapes one at a time: the failing-products view flags a product        *)
(* exactly when its last MinFailures scrapes all failed, although prices   *)
(* are deduplicated and failures are not.                                  *)
FlaggedIffFailing == Flagged <=> streak >= MinFailures

(* Scrapes one at a time implement the alerts' promise: an alert is quiet  *)
(* from the moment it is handed to the broker.  A deleted one stays so.    *)
Quiet == {a \in Alerts : \/ alerts[a].cooling
                         \/ ~Exists(a) /\ sent[a] > rollbacks[a]}
           \cup UNION {Fired(w) : w \in Workers}
Cooldown == INSTANCE AlertCooldown
              WITH quiet <- Quiet, notices <- sent, forgets <- rollbacks
KeepsCooldown == Cooldown!Spec
=============================================================================
