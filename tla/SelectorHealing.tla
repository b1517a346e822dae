--------------------------- MODULE SelectorHealing ---------------------------
(***************************************************************************)
(* The self-healing loop of one host's price selector                      *)
(* (services/selector_profile_service.py, tasks/selector.py,               *)
(* services/scrape_runner.py, the report-selector-issue endpoint).         *)
(*                                                                         *)
(* Scrapes read the stored selector, fetch the page, and on a              *)
(* selector_miss mark the profile stale and enqueue a regeneration.  A     *)
(* regeneration loads the profile, checks cooldown and budget, spends      *)
(* seconds to minutes on a fetch and an LLM call, and writes what it then  *)
(* concludes.  Users report bad prices.  All of them work on the one       *)
(* selector_profile row in sessions of their own: a row is read once, and  *)
(* at commit the ORM writes the attributes that differ from what was read. *)
(*                                                                         *)
(* Markup is a number that drifts; a stored selector is the markup it was  *)
(* validated on, 0 if there is none.  The built-in selectors match markup  *)
(* 1.  Validated is not read: the gate takes any match that looks like a   *)
(* price, on the page of one product of the host; the scraper may find no  *)
(* text at the first match and miss, or text that is no price and fail.    *)
(***************************************************************************)
EXTENDS Integers, FiniteSets

CONSTANTS
  Scrapers,     \* concurrent scrapes of products on the host
  Regens,       \* slots that run regenerate_selector
  Reporters,    \* concurrent report-selector-issue requests
  MaxAttempts,  \* SELECTOR_MAX_REGEN_ATTEMPTS
  MaxDrifts,    \* bound: markup changes
  MaxReports,   \* bound: reports
  MaxQueue,     \* bound: regeneration messages waiting
  MaxVersion,   \* bound: where version and promoted stop counting
  MaxFaults     \* bound: crashes, lost messages, failed commits, runs without
                \* a credential

ASSUME HealingAssumption ==
  /\ IsFiniteSet(Regens)
  /\ MaxAttempts \in Nat \ {0}
  /\ MaxDrifts \in Nat /\ MaxReports \in Nat
  /\ MaxQueue \in Nat /\ MaxFaults \in Nat
  /\ MaxVersion \in Nat \ {0}

VARIABLES
  profile,    \* the committed selector_profile row of the host
  inserting,  \* the sessions holding an uncommitted INSERT of it: one or none
  session,    \* what each scrape, report and regeneration is doing
  queue,      \* regeneration messages on the playwright queue
  page,       \* the markup the site serves
  reports, faults,
  promoted,   \* history: promotions committed
  spent,      \* history: counted failures since a promotion or a revival
  overlapped  \* history: two regenerations had the row open at one time

vars == <<profile, inserting, session, queue, page, reports, faults,
          promoted, spent, overlapped>>
-----------------------------------------------------------------------------
Sessions == Scrapers \cup Regens \cup Reporters

(* A row.  cooling: last_attempt_at lies less than the cooldown back.      *)
Row == [status: {"absent", "stale", "active", "failed"},
        selector: 0..MaxDrifts + 1, version: 0..MaxVersion,
        failed: 0..MaxAttempts,
        cooling: BOOLEAN]

NoProfile == [status |-> "absent", selector |-> 0, version |-> 0,
              failed |-> 0, cooling |-> FALSE]
Placeholder == [NoProfile EXCEPT !.status = "stale"]

(* A session: the row as it was read, the object as it is now, and the     *)
(* selector it serves (a scrape) or the page it fetched (a regeneration).  *)
Idle == [pc |-> "idle", row |-> NoProfile, obj |-> NoProfile, page |-> 0]
Session == [pc: {"idle", "fetch", "select", "insert", "attempt", "generate",
                 "commit", "broken"},
            row: Row, obj: Row, page: 0..MaxDrifts + 1]

TypeOK ==
  /\ profile \in Row
  /\ inserting \subseteq Sessions /\ Cardinality(inserting) <= 1
  /\ session \in [Sessions -> Session]
  /\ queue \in 0..MaxQueue /\ page \in 1..MaxDrifts + 1
  /\ reports \in 0..MaxReports /\ faults \in 0..MaxFaults
  /\ promoted \in 0..MaxVersion /\ spent \in Nat /\ overlapped \in BOOLEAN

Init ==
  /\ profile = NoProfile /\ inserting = {}
  /\ session = [x \in Sessions |-> Idle]
  /\ queue = 0 /\ page = 1 /\ reports = 0 /\ faults = 0
  /\ promoted = 0 /\ spent = 0 /\ overlapped = FALSE
-----------------------------------------------------------------------------

(* Mutation: the budget is not checked.                                    *)
AllowedOverBudget(p) == ~p.cooling

(* Mutation: the cooldown is not checked.                                  *)
AllowedWhileCooling(p) == p.status # "failed" /\ p.failed < MaxAttempts

RegenerationAllowed(p) ==
  p.status # "failed" /\ p.failed < MaxAttempts /\ ~p.cooling

(* Mutation: a stale profile loses its selector.                           *)
MarkStaleClears(p) ==
  IF p.status = "active" THEN [p EXCEPT !.status = "stale", !.selector = 0]
                         ELSE p

MarkStale(p) ==
  IF p.status = "active" THEN [p EXCEPT !.status = "stale"] ELSE p

RecordAttemptFailure(p) ==
  [p EXCEPT !.failed = @ + 1, !.cooling = TRUE,
            !.status = IF p.failed + 1 >= MaxAttempts THEN "failed" ELSE @]

Count(n) == IF n < MaxVersion THEN n + 1 ELSE n

Promote(p, selector) ==
  [p EXCEPT !.selector = selector, !.status = "active",
            !.version = Count(@), !.cooling = TRUE, !.failed = 0]

ReviveForReport(p) ==
  IF p.status = "failed"
    THEN [p EXCEPT !.failed = 0, !.status = "stale"] ELSE p

(* Mutation: every column is written, changed or not.                      *)
FlushAll(base, row, obj) == obj

(* COMMIT: the UPDATE sets the attributes that were changed, to the values *)
(* computed from the row as it was read, whatever the row holds by now.    *)
Flush(base, row, obj) ==
  [f \in DOMAIN base |-> IF obj[f] # row[f] THEN obj[f] ELSE base[f]]

Committed(x, obj) ==
  IF x \in inserting THEN obj ELSE Flush(profile, session[x].row, obj)

(* End of a transaction: commit obj, or leave the row alone.               *)
Close(x, obj) ==
  /\ profile' = Committed(x, obj)
  /\ inserting' = inserting \ {x}
  /\ session' = [session EXCEPT ![x] = Idle]

Fault == faults < MaxFaults /\ faults' = faults + 1

(* Something fails between two steps: the transaction is rolled back.      *)
Abort(x) ==
  /\ session[x].pc # "idle"
  /\ Fault
  /\ session' = [session EXCEPT ![x] = Idle]
  /\ inserting' = inserting \ {x}
  /\ UNCHANGED <<profile, queue, page, reports, promoted, spent, overlapped>>
-----------------------------------------------------------------------------

(* Mutation: only the miss that found the profile active enqueues.         *)
MarkOnce(x, row) ==
  /\ session' = [session EXCEPT
       ![x] = [@ EXCEPT !.pc = "commit", !.row = row,
                        !.obj = MarkStale(row)]]
  /\ IF RegenerationAllowed(row) /\ row.status = "active" /\ queue < MaxQueue
       THEN \/ queue' = queue + 1 /\ UNCHANGED faults
            \/ Fault /\ UNCHANGED queue
       ELSE UNCHANGED <<queue, faults>>

(* get_or_create_profile, then mark_stale and the best-effort dispatch,    *)
(* which leaves before the caller's transaction commits.                   *)
Mark(x, row) ==
  LET revived == IF x \in Reporters THEN ReviveForReport(row) ELSE row
  IN  /\ session' = [session EXCEPT
           ![x] = [@ EXCEPT !.pc = "commit", !.row = row,
                            !.obj = MarkStale(revived)]]
      /\ IF RegenerationAllowed(revived) /\ queue < MaxQueue
           THEN \/ queue' = queue + 1 /\ UNCHANGED faults
                \/ Fault /\ UNCHANGED queue
           ELSE UNCHANGED <<queue, faults>>

Select(x) ==
  /\ session[x].pc = "select"
  /\ IF profile.status # "absent"
       THEN Mark(x, profile)
       ELSE /\ session' = [session EXCEPT ![x].pc = "insert"]
            /\ UNCHANGED <<queue, faults>>
  /\ UNCHANGED <<profile, inserting, page, reports, promoted, spent,
                 overlapped>>

(* The unique index makes a second INSERT wait for the first transaction;  *)
(* if that commits, the second one breaks its session.                     *)
Insert(x) ==
  /\ session[x].pc = "insert" /\ x \notin Regens
  /\ inserting = {}
  /\ IF profile.status = "absent"
       THEN Mark(x, Placeholder) /\ inserting' = {x}
       ELSE /\ session' = [session EXCEPT ![x].pc = "broken"]
            /\ UNCHANGED <<inserting, queue, faults>>
  /\ UNCHANGED <<profile, page, reports, promoted, spent, overlapped>>

Commit(x) ==
  /\ session[x].pc = "commit"
  /\ Close(x, session[x].obj)
  /\ spent' = IF session[x].row.status = "failed" /\ x \in Reporters
                THEN 0 ELSE spent
  /\ UNCHANGED <<queue, page, reports, faults, promoted, overlapped>>

(* The swallowed IntegrityError left the transaction rolled back, so the   *)
(* commit of the scrape's own record fails and the scrape is retried.      *)
BrokenCommit(x) ==
  /\ session[x].pc = "broken"
  /\ session' = [session EXCEPT ![x] = Idle]
  /\ UNCHANGED <<profile, inserting, queue, page, reports, faults, promoted,
                 spent, overlapped>>
-----------------------------------------------------------------------------
(* run_scrape: the stored selector is served whatever the status.          *)
ReadSelector(s) ==
  /\ session[s].pc = "idle"
  /\ session' = [session EXCEPT ![s].pc = "fetch",
                                ![s].page = profile.selector]
  /\ UNCHANGED <<profile, inserting, queue, page, reports, faults, promoted,
                 spent, overlapped>>

(* A price, a refusal or an extraction_failed ends the scrape; a           *)
(* selector_miss may come of a validated selector too.                     *)
Fetch(s) ==
  /\ session[s].pc = "fetch"
  /\ \/ /\ page \in {1, session[s].page}
        /\ session' = [session EXCEPT ![s] = Idle]
     \/ /\ page # 1
        /\ session' = [session EXCEPT ![s].pc = "select"]
  /\ UNCHANGED <<profile, inserting, queue, page, reports, faults, promoted,
                 spent, overlapped>>

(* No selector fits the markup and no miss is seen: the site refuses, the  *)
(* fetch raises, or what the old selectors find is no price or the wrong.  *)
MissUnseen(s) ==
  /\ session[s].pc = "fetch" /\ page \notin {1, session[s].page}
  /\ session' = [session EXCEPT ![s] = Idle]
  /\ UNCHANGED <<profile, inserting, queue, page, reports, faults, promoted,
                 spent, overlapped>>

Report(u) ==
  /\ session[u].pc = "idle" /\ reports < MaxReports
  /\ reports' = reports + 1
  /\ session' = [session EXCEPT ![u].pc = "select"]
  /\ UNCHANGED <<profile, inserting, queue, page, faults, promoted, spent,
                 overlapped>>
-----------------------------------------------------------------------------
Attempting(r) == session[r].pc \in {"attempt", "generate"}

(* regenerate_selector.  The message is acknowledged on receipt, so it is  *)
(* gone whatever becomes of the attempt.                                   *)
Begin(r) ==
  /\ session[r].pc = "idle" /\ queue > 0
  /\ queue' = queue - 1
  /\ session' = [session EXCEPT ![r] =
       CASE profile.status = "absent" -> [@ EXCEPT !.pc = "insert"]
         [] profile.status # "absent" /\ RegenerationAllowed(profile) ->
              [@ EXCEPT !.pc = "attempt", !.row = profile, !.obj = profile]
         [] OTHER -> Idle]
  /\ overlapped' = (\/ overlapped
                     \/ /\ session'[r].pc = "attempt"
                        /\ \E q \in Regens \ {r} : Attempting(q))
  /\ UNCHANGED <<profile, inserting, page, reports, faults, promoted, spent>>

(* The product of the message was deleted in the meantime.                 *)
NotFound(r) ==
  /\ session[r].pc = "idle" /\ queue > 0
  /\ queue' = queue - 1
  /\ Fault
  /\ UNCHANGED <<profile, inserting, session, page, reports, promoted, spent,
                 overlapped>>

InsertForRegen(r) ==
  /\ session[r].pc = "insert" /\ r \in Regens
  /\ inserting = {}
  /\ IF profile.status = "absent"
       THEN /\ inserting' = {r}
            /\ session' = [session EXCEPT ![r] =
                 [@ EXCEPT !.pc = "attempt", !.row = Placeholder,
                           !.obj = Placeholder]]
       ELSE /\ session' = [session EXCEPT ![r].pc = "broken"]
            /\ UNCHANGED inserting
  /\ UNCHANGED <<profile, queue, page, reports, faults, promoted, spent,
                 overlapped>>

Refetch(r) ==
  /\ session[r].pc = "attempt"
  /\ session' = [session EXCEPT ![r] =
       [@ EXCEPT !.pc = "generate", !.page = page]]
  /\ UNCHANGED <<profile, inserting, queue, page, reports, faults, promoted,
                 spent, overlapped>>

(* An unusable page, a provider error, or a suggestion that finds no       *)
(* plausible price.                                                        *)
AttemptFails(r) ==
  /\ session[r].pc \in {"attempt", "generate"}
  /\ Close(r, RecordAttemptFailure(session[r].obj))
  /\ spent' = spent + 1
  /\ UNCHANGED <<queue, page, reports, faults, promoted, overlapped>>

(* No LLM credential resolves: the attempt is not counted.                 *)
GenerationDisabled(r) ==
  /\ session[r].pc = "generate"
  /\ Fault
  /\ Close(r, session[r].obj)
  /\ UNCHANGED <<queue, page, reports, promoted, spent, overlapped>>

(* One of the suggestion's matches on the page that was fetched reads as a *)
(* plausible price.                                                        *)
AttemptPromotes(r) ==
  /\ session[r].pc = "generate"
  /\ Close(r, Promote(session[r].obj, session[r].page))
  /\ promoted' = Count(promoted)
  /\ spent' = 0
  /\ UNCHANGED <<queue, page, reports, faults, overlapped>>
-----------------------------------------------------------------------------
Drift ==
  /\ page <= MaxDrifts
  /\ page' = page + 1
  /\ UNCHANGED <<profile, inserting, session, queue, reports, faults,
                 promoted, spent, overlapped>>

(* No session has the row open.                                            *)
Calm == \A x \in Sessions : session[x].pc \in {"idle", "fetch"}

(* Hours pass: more than any fetch, LLM call or transaction takes.         *)
CooldownElapses ==
  /\ profile.cooling /\ Calm
  /\ profile' = [profile EXCEPT !.cooling = FALSE]
  /\ UNCHANGED <<inserting, session, queue, page, reports, faults, promoted,
                 spent, overlapped>>

ScrapeStep(s) ==
  ReadSelector(s) \/ Fetch(s) \/ Select(s) \/ Insert(s) \/ Commit(s)
    \/ BrokenCommit(s)

ReportStep(u) == Select(u) \/ Insert(u) \/ Commit(u) \/ BrokenCommit(u)

RegenStep(r) ==
  Begin(r) \/ InsertForRegen(r) \/ Refetch(r) \/ AttemptFails(r)
    \/ GenerationDisabled(r) \/ AttemptPromotes(r) \/ BrokenCommit(r)

Next ==
  \/ \E s \in Scrapers : ScrapeStep(s) \/ MissUnseen(s)
  \/ \E u \in Reporters : Report(u) \/ ReportStep(u)
  \/ \E r \in Regens : RegenStep(r) \/ NotFound(r)
  \/ \E x \in Sessions : Abort(x)
  \/ Drift
  \/ CooldownElapses

Spec == Init /\ [][Next]_vars

(* Beat keeps scraping the host, workers finish what they began and take   *)
(* what is queued, and time passes.  No promise is made for drifts,        *)
(* reports, faults, misses that go unseen or what the LLM answers.         *)
Fairness ==
  /\ \A s \in Scrapers : WF_vars(ScrapeStep(s))
  /\ \A u \in Reporters : WF_vars(ReportStep(u))
  /\ \A r \in Regens : WF_vars(RegenStep(r))
  /\ SF_vars(CooldownElapses)

FairSpec == Spec /\ Fairness
-----------------------------------------------------------------------------
(* However scrapes, reports and regenerations interleave, a host that has  *)
(* a validated selector keeps one, a version number is never taken back,   *)
(* and there is a selector exactly when some promotion numbered it.        *)
NeverWithdrawn ==
  [][/\ profile.selector # 0 => profile'.selector # 0
     /\ profile'.version >= profile.version
     /\ (profile'.version > 0) <=> (profile'.selector # 0)]_vars

(* As long as no two regenerations of the host overlapped, the version     *)
(* counts the promotions and the budget the failures since the last        *)
(* promotion or revival, although scrapes and reports write the same row   *)
(* in between, and a host costs at most MaxAttempts failing LLM calls in a *)
(* row before it is parked.  When they overlap updates are lost, but no    *)
(* more than one for each slot that read the row beforehand.               *)
CountersExact ==
  /\ spent <= MaxAttempts * Cardinality(Regens)
  /\ promoted <= profile.version * Cardinality(Regens)
  /\ ~overlapped =>
       /\ profile.version = promoted
       /\ profile.failed = spent
       /\ profile.status = "failed" => spent = MaxAttempts

(* A stored selector that was validated on the markup the site serves      *)
(* stays one until the markup drifts, unless two regenerations overlapped: *)
(* no late commit of a scrape, a report or an earlier attempt takes it     *)
(* away (the livelock the serving rule was introduced against), and if     *)
(* misses it does not end have it regenerated, it is for one of the same   *)
(* markup.  That the scraper reads its price is not said.                  *)
ValidatedUntilDrift ==
  [][profile.selector = page /\ page' = page /\ ~overlapped =>
       profile'.selector = page]_vars

(* While scrapes go on, their misses do not go unseen for ever and a key   *)
(* resolves, a drifted host is eventually served a selector validated on   *)
(* its present markup, or has spent its budget, whatever messages and      *)
(* commits were lost: the next selector_miss re-enqueues.  The misses need *)
(* not end with that, nor the promotions, each of which clears the budget. *)
(* (Between beat's cycles there are times when no session is open.)        *)
CatchesUpOrSpends ==
  []<>Calm /\ <>[][\A s \in Scrapers : ~MissUnseen(s)]_vars =>
    <>[](\/ page = 1 \/ profile.selector = page
         \/ profile.failed >= MaxAttempts)

(* "a bookkeeping error must never fail - or retry - the scrape that       *)
(* already recorded its result".                                           *)
MissNeverFailsScrape == \A s \in Scrapers : session[s].pc # "broken"

(* "A report also clears a spent attempt budget": when it read one.        *)
ReportClearsBudget ==
  [][\A u \in Reporters :
       Commit(u) /\ session[u].row.failed >= MaxAttempts =>
         profile'.failed < MaxAttempts]_vars
=============================================================================
