# Price Pulse: TLA+ models, model checks and proofs

Price Pulse watches product pages: Celery beat (through RedBeat) schedules
scrapes, workers fetch pages and record prices in PostgreSQL, price alerts are
evaluated in the scrape's transaction and delivered by a second task, a
self-healing loop asks an LLM for a new selector when a site's markup drifts,
and a FastAPI application serves products, alerts, jobs and triggers.  This
directory holds models of the parts in which those processes meet, the TLC
configurations that check them, and theorems checked by TLAPS.

All paths below are relative to `src/backend/app/` unless they begin with `src/`.

## 1. The system

| Component | State it keeps | Operations | Hard behaviour |
|---|---|---|---|
| Scrape job tracking (`workers/scrape_job_signals.py`, `tasks/maintenance.py`) | `scrape_job` rows, one per Celery task id | publish / prerun / postrun signal handlers, retention prune | several slots and the publisher write one row; every write is best effort; acks_late redelivers; retries carry the same id |
| Scrape task (`tasks/scrape.py`) | the message, its retries, one transaction | load, run, commit, retry | a worker may die between commit and acknowledgement |
| Self-healing selectors (`services/selector_profile_service.py`, `tasks/selector.py`, `services/scrape_runner.py`) | one `selector_profile` row per host | serve, mark stale, regenerate, promote, fail, report | minutes pass between the read of the row and its write; the ORM writes only what changed; the dispatch leaves before the commit |
| Price records (`services/price_service.py`) | `price_record` rows | record unless it repeats the latest price | `captured_at` is the start of the transaction, so commit order and record order differ |
| Price alerts (`services/alert_service.py`, `services/notifications.py`, `api/v1/alerts.py`) | `price_alert` rows, `notified_at` | evaluate, create, update, delete | overlapping scrapes; a notification cannot be rolled back, its stamp can |
| Failing products (`services/monitoring_service.py`) | none: ranks the records | find failing products | depends on what deduplication keeps |
| Notification delivery (`tasks/notify.py`) | `notification_log` rows, the message | load, log, dispatch, commit, retry | retries from two handlers of one failure; a webhook posted twice after a crash |
| Schedules (`tasks/schedule.py`, `api/v1/products.py`, `core/database.py`) | product rows, RedBeat entries in Redis | create, patch, delete, start-up sync | no transaction spans the row and the entry; Redis is written before the commit |
| HTTP client and anti-blocking (`scrapers/http_client.py`, `scrapers/anti_blocking.py`) | per call: rotator, block budget, dead proxies, attempt, last block; Redis keys that only delay | request, classify, back off, rotate | two budgets move one rotator; a block must never look like drift |
| Site scrapers (`scrapers/*.py`) | the same per call, in a browser | navigate, classify, rotate, extract from several sources in order | a miss costs an LLM call; a stored selector stands among the scraper's own sources; prices are read by five different rules |
| Selector generation and LLM client (`services/selector_generation.py`, `services/llm/`, `core/config.py`) | none: a configuration resolved per call | resolve, build a client, validate the suggestion | what the API, the start-up and the client accept must agree; the gate and the scrapers read prices differently |
| LLM credentials (`services/llm_credential_service.py`, `core/crypto.py`) | one encrypted row per product | put, delete, resolve | overlapping PUTs each write only what changed; two processes with settings of their own; a rotated SECRET_KEY |
| API, schemas, other settings, front end, migrations, deployment | none of their own | requests, formatting | none |

How they interact:

```
 beat / API --publish--> broker --take--> scrape slot --commit--> price_record
     |                     ^                |  |  |                 price_alert
     | row and entry       | retry          |  |  +-- notice ----> notify slot -> channel, notification_log
     v                     |                |  +-- selector_miss -> regeneration slot -> selector_profile
 product, RedBeat          +----------------+
                                            +-- signal handlers -> scrape_job
```

PostgreSQL runs at READ COMMITTED: a statement sees what is committed when it
starts and the transaction's own writes, and an UPDATE waits for the lock of
the row.  Celery runs with `acks_late` for scrapes and notifications and
acknowledges regenerations on receipt.

### What makes each component correct

* **Jobs.** No row stays `queued` or `started` with nobody left to finish it;
  a finished row states what one real attempt reported; retries and
  redeliveries are bounded; a deleted product leaks no row.
* **Healing.** A host that has a selector keeps one; one that was validated on the
  present markup is not taken away before the markup drifts; the budget and the
  version count what they claim to; a drifted host whose misses are seen is
  served a selector validated on its markup or uses its budget up.
* **Prices and alerts.** A failure and a changed page are always recorded, so the
  latest record is of the page last fetched; a crossing is noticed; an alert is quiet for its cooldown, and never quiet
  without a notice.
* **Notifications.** The log says `sent` for what was delivered and for nothing
  else, shows nothing `pending` that nobody will finish, and a failing channel
  does not multiply messages without end.
* **Fetching.** A call is bounded, uses every proxy before it blames them, is
  blocked after exactly its budget, and reports a block as a block.
* **Extraction.** A miss is reported by those sources alone whose hosts can be
  healed, and a selector that passed the gate on such a page heals it; a
  stored selector does not cost or change a price the scraper finds without it.
* **Credentials.** A user's key goes where its owner said and nowhere else; what
  is accepted at the boundary does not fail later as a charged attempt.
* **Schedules.** Exactly the active products are scheduled, on the right queue.

## 2. The modules

| Module | Models | Composes / used by |
|---|---|---|
| `ScrapeJobs` | a dispatch from publisher to acknowledgement and its row | `MCScrapeJobs` (constants), `ScrapeJobsProofs` (theorems) |
| `SelectorHealing` | one host: scrapes, regenerations, reports on one row | runs on itself; `SelectorHealingProofs` (theorems) |
| `PriceAlerts` | one product: overlapping scrapes, records, alerts, the alerts API | `MCPriceAlerts`; instantiates `AlertCooldown`; `PriceAlertsProofs` (theorems) |
| `AlertCooldown` | the promise: a notified alert is quiet until its cooldown ends | implemented by `PriceAlerts`; its theorem is in `PriceAlertsProofs` |
| `Notifications` | the delivery of the notices `PriceAlerts` hands to the broker | runs on itself; `NotificationsProofs` (theorems) |
| `Schedules` | products, RedBeat entries, requests, a starting worker | `MCSchedules`, `SchedulesProofs` (theorems) |
| `PageFetch` | one call of a scraper's `fetch`, any result of the extraction | `PageFetchProofs` (theorems); `Fetch` of `SelectorHealing` and `Begin` of `PriceAlerts` take its results nondeterministically |
| `PriceText` | the readings of a text as a price, and the gate | operators only, used by `PriceExtraction` |
| `PriceExtraction` | the same call with the pages it may be served and what each scraper makes of them | extends and implements `PageFetch`; `MCPriceExtraction`, `PriceExtractionProofs` (theorems) |
| `LLMClient` | which LLM configurations each boundary accepts, the client built from one | operators only, used by `Credentials` |
| `Credentials` | a product's own LLM credential, the settings of two processes, a generation | `MCCredentials`, `CredentialsProofs` (theorems) |

### ScrapeJobs

`job` is the table, `broker[t][r]` the copies of a message with `retries = r`,
`exec[w]` the slot's place in the sequence *prerun, load, scrape, commit
(except, republish, resend), postrun, ack*.  Each action is one handler or one
step of the task between two points where another process can interleave:
`BeforeTaskPublish`/`Republish` are the publish signal (a retry fires it too),
`OnTaskPrerun` and `OnTaskPostrun` the UPDATEs of the other two, `Load`,
`Scrape`, `Commit`, `Retry`, `Resend` the body, `Crash` a death that gives an
unacknowledged message back.  `Guarded` is `_run_guarded`: the write happens, or
fails and the task goes on.  The foreign key to the product is modelled:
deleting a product deletes its rows, makes the insert of a new one fail and
makes the commit of a new price record raise.  `RetentionPasses` and
`PruneScrapeJobs` are the maintenance task, which looks at age alone.

### SelectorHealing

One host.  `session[x]` holds the row *as it was read* and the object *as it is
now*: `Flush` writes exactly the columns in which they differ, over whatever the
row holds by then, which is what the ORM's UPDATE does.  Markup is a number that
drifts, a selector is the markup it was validated on, and markup 1 is what the
built-in selectors match.  Validated is not read: the gate accepts a selector if
one of its matches on one product's page reads as a price for the gate's parser,
and the scraper may find no text at its first match and miss again, or a text
that is no price and fail.  `Fetch` therefore ends, on markup that some selector
was made for, in a price, a refusal or a failed extraction, and off markup 1 also in a
miss, for a validated selector too.  `MissUnseen` is the scrape of drifted markup
that reports no miss: the site refuses, the fetch raises, or the old selectors
find something.  `MaxVersion` is where `version` and `promoted` stop counting
(`Count`): promotions can follow each other for ever, and the run has those
behaviours too.  A scrape serves the stored selector whatever the status
(`ReadSelector`), may miss, selects or inserts the profile, and marks it
stale together with the best-effort dispatch (`Mark`).  A regeneration checks
the guard (`Begin`), re-fetches, and fails, promotes, or stops because no
credential resolves.  `overlapped` remembers that two regenerations had the row
open at a time: until then the counters are exact and nothing is withdrawn, and
afterwards they stay within bounds.  The unique index on the host makes the
second `Insert` wait, and breaks its session if the first commits.  `Abort` is
anything raised between two steps.

### PriceAlerts and AlertCooldown

One product.  `Begin` fixes `captured_at` (the start of the transaction) and the
outcome of the fetch: a page stands for its html hash, and `Readings` says which
prices the selectors a product may have read off it, for the hash does not
determine the price; `RecordPrice` decides on the insert against the committed
records; `EvaluateAlerts` reads the latest record again, which need not be its
own; `NotifyAlerts` hands notices over one by one, and the broker may refuse one
after accepting others; `Flush` takes the row locks and misses deleted alerts;
`Commit` publishes all of it.  `AlertCooldown` says what users are promised;
`KeepsCooldown` is the refinement, with *quiet* mapped to: cooling, or
notified by a transaction still open, or deleted after a notice.

### Notifications

One alert's notices.  A slot takes a message, loads the alert, flushes a pending
row, delivers, and commits; a webhook that times out commits a failed row and
retries from `_deliver_webhook` (`RetryWebhook`), and that Retry is caught by the
handler around the task, which retries again (`HandleTaskFailure`).  `Republish`
is `Task.retry`: it publishes unless the retries are used up, and raises either
way.  A webhook URL that httpx does not accept raises no error the delivery
expects and goes to the outer handler.  The history counters stop at `MaxCount`, which is above the bound they are
compared with.

### Schedules

`product` is what is committed, `request[r].row` what a request's transaction
sees, `entry` Redis.  A PATCH reads the row, writes the fields that differ (and
takes the lock only if there are any, of which some change nothing that is
scheduled), then touches Redis, then commits.
`ReadActive`, `RegisterNext`, `SyncFails` are the sync of a starting worker; one
worker starts at a time.
`astray` remembers the products of which a fault, a create of an inactive
product or a writer without the row lock left the entry out of step; the next
orderly write clears it.

### PageFetch

One call, from `get_scraper` to the extraction status it ends in.  The http path
(`generic`, `ebay`) asks up to three times through one proxy, the browser path
(`amazon`, and `spa` for the three `PlaywrightScraper`s) navigates once.  An
answer is a status class and the markers in its body; the environment gives any
answer, or none, to each request.  `RotateOnBlock` and `RotateOnDead` are the two
branches of `fetch_page`'s loop, `BackOff` the tail of `_fetch_via_proxy`, where
an earlier block decides what an exhausted chain reports.  Nothing here is
concurrent: a call has its own rotator.

### PriceText and PriceExtraction

A text is the number of digits in each of the groups its commas, dots and dashes
cut it into, and whether words are around and all digits are zero; a reading of
it is how many of the digits are decimals, and the sign, or no price.  That is
what tells the five rules apart: `Normalize` (the locale-aware one), `Strip` (generic),
`DropCommas` (eBay's DOM), `Verbatim` (structured data) and the gate's range in
`Plausible`.  Currencies are left out, and "NaN" and "Infinity" count as words,
although `Decimal` and `json.loads` accept them: such a price would leave the
extraction for the validation of `ScrapedResult`.

A page is what each source of a price finds on it: structured data, the
product's configured selector, the host's stored one, the scraper's own list.
`Generic`, `Amazon`, `Spa` and `Ebay` are the extractions, with what is asked
first, what only the first match decides, what is final although it does not
parse, and what raises.  `ExtractPage` replaces the free choice of
`PageFetch!Extract` by them, so that `ImplementsFetch` says what the scrapers
really return was among the choices; `BrowserBreaks` is what can go wrong in a
browser at that point.  `Promoted` puts a generated selector in the stored one's place on the
very page that was reported, which is the page the gate looks at.

### LLMClient and Credentials

`ValidSettings`, `ValidBody` and `LLMConfigError` are the three boundaries: the
start-up, the request schema and the client; `BuildModel` is the API spoken and
where it is spoken to.  In `Credentials` a PUT or DELETE reads the row (`Read`)
and commits later; `Replaced` writes the columns in which the body differs *from
what was read*, and always the key; the unique index and the row's identity
decide what becomes of a PUT whose row came or went meanwhile.  `sealed` is the
SECRET_KEY a key was encrypted under: after a rotation the row no longer decrypts
and the deployer's default is used.  The API and the worker are restarted one at
a time, and one with invalid settings stays down.  `Generate` resolves, builds
the client and calls; `stale` remembers that the last PUT committed over a row it
had not read.

## 3. The runs

| Run | Shows |
|---|---|
| `jobs` | `NoSilentStall`, `VerdictIsAnAttempts`, `AttemptsBounded`, `RowMovesForward`, and for liveness `EverySendSettles` and `EveryRowSettles`: two fair slots, one id, two retries, one crash, one swallowed write, one refused message, prunes and a deletion |
| `heal` | `CountersExact`, `NeverWithdrawn`, `ValidatedUntilDrift`, and for liveness `CatchesUpOrSpends`: a scrape, reports and two regeneration slots, whose updates can be lost |
| `heal_miss` | violation: `MissNeverFailsScrape` |
| `heal_report` | violation: `ReportClearsBudget` |
| `alerts_seq` | `FlaggedIffFailing`, `LatestIsObserved` and the refinement `KeepsCooldown`: one scrape at a time, two alerts, edits and faults; a page may be read as another price than before |
| `alerts_overlap` | `NoticesBounded`, `NeverSilenced`, `CrossingNoticed`: two overlapping scrapes |
| `notify` | `NothingLeftPending`, `SentIsDelivered`, `RetriesBounded`, and for liveness `EveryNoticeSettles`: two fair slots, faults, a crash, an edit |
| `notify_policy` | violation: `RetryPolicyKept` |
| `schedules_race` | `EntriesFollowRows`, `EntryBeforeOrAfter`: two requests and starting workers on one product, with faults |
| `fetch` | `BlockedIsEarned`, `UnreachableIsTried`, `BlocksAreReported`, `MissIsDrift`, `RequestsBounded`, `MissIsHealable`, `OwnSourcesPrevail` and the refinement `ImplementsFetch`: every answer to every request of one call, and every extraction from the page that comes of it |
| `fetch_additive` | violation: `PurelyAdditive` |
| `credentials` | `KeyGoesWhereItsOwnerSaid`, `IncoherentNeverReachesSdk`, `FailsLateOnlyByName`: two overlapping requests, two edits of the environment, restarts |

Each module's `TypeOK` is checked in its first run.  `CHECK_DEADLOCK FALSE`
everywhere: every bounded instance may come to rest.

### The bounds and why they are enough

* Two actors of a kind (slots, scrapes, requests) are what the races need: every
  lost update, overlap and double insert here is between two sessions.  One
  product, host, alert or task id suffices because rows of different ones share
  no state but the slots; `alerts_seq` uses two alerts because one flush of
  several behaves differently from a flush of one.
* `MaxRetries` is 2 in `jobs` and 1 in `notify` (the code has 3): with 2 there
  is a first, a middle and a last attempt.  In `notify` it keeps the doubling
  small; the theorems hold for any value, and `notify_policy` uses the
  code's 3.
* One crash, fault or refused message reaches each error path at every step
  once; `notify` allows two faults so that both handlers may fail.
* `fetch` has the code's three requests per proxy, up to three proxies (wrapping
  past a proxy that is neither the first nor the last) and up to three rotations,
  so that rotations may run out before, with and after the proxies.  What a page
  holds does not depend on how it was reached, so all pages (`MCPages`) are
  served to calls without proxies and four of them (`MCFewPages`: a miss, a raise
  and a price of each kind) to the others.  A generated selector matches up to
  two of eleven texts, one for each way two of the readings can differ: a second
  match is what tells "the first" from "the first that parses".
* `credentials` has one body and one environment of each kind a boundary treats
  differently, among them the rejected ones, and one secret to rotate to; two
  requests and three writes let a PUT overlap a PUT, a deletion and a
  re-creation, and two edits let a rotation be undone.
* `MaxVersion` is 2 in `heal`, one more than the markup drifts: a promotion, a
  further one, and all that follow.
* The alerts runs serve two pages over the threshold, off one of which some
  selector reads a price under it: the same price off two pages and two prices
  off one page both occur.  The two overlapping scrapes are symmetric.
* `MinFailures` is 2: one failure must not flag and two must.

### Fairness

* `ScrapeJobs`: a producer that began to publish finishes (`WF` on send or
  refusal), and a live slot keeps taking and running (`WF` on its work).
  Nothing obliges users, the environment or time.
* `Notifications`: `WF` on each slot.  A worker that dies is replaced: a crash
  frees the slot, and the supervisor restarts workers.
* `SelectorHealing`: `WF` on scrapes (beat keeps scheduling), on reports and
  regenerations once begun, and `SF` on the cooldown elapsing, which is disabled
  while a session has the row open.  `CatchesUpOrSpends` also assumes that there
  are always again times when no session is open (a cycle of beat takes minutes
  and the cooldown hours), and that misses do not go unseen for ever: while every
  scrape of a drifted host is refused, or finds a text that is no price, nothing
  asks for a regeneration.  No fairness is assumed of drifts, reports, faults,
  lost messages or of what the LLM answers.

## 4. What is proved

Every invariant and every action property of the passing runs is also a theorem,
and so are both refinements.

| Theorem | Says |
|---|---|
| `ScrapeJobsProofs!TypeCorrect` | `Spec => []TypeOK` |
| `ScrapeJobsProofs!StallFreedom` | `Spec => []NoSilentStall` |
| `ScrapeJobsProofs!NoLeak` | `Spec => []NoRowLeaked` |
| `ScrapeJobsProofs!VerdictsEarned` | `Spec => []VerdictIsAnAttempts` |
| `ScrapeJobsProofs!RowsMoveForward` | `Spec => RowMovesForward` |
| `ScrapeJobsProofs!AttemptsAreBounded` | `Spec => []AttemptsBounded` |
| `SelectorHealingProofs!TypeCorrect` | `Spec => []TypeOK` |
| `SelectorHealingProofs!CountersAreExact` | `Spec => []CountersExact` |
| `SelectorHealingProofs!SelectorIsKept` | `Spec => NeverWithdrawn` |
| `SelectorHealingProofs!ValidatedStaysValidated` | `Spec => ValidatedUntilDrift` |
| `PriceAlertsProofs!TypeCorrect` | `Spec => []TypeOK` |
| `PriceAlertsProofs!NoticesAreBounded` | `Spec => []NoticesBounded` |
| `PriceAlertsProofs!NeverSilent` | `Spec => []NeverSilenced` |
| `PriceAlertsProofs!CrossingsNoticed` | `Spec => CrossingNoticed` |
| `PriceAlertsProofs!LatestObserved` | `ASSUME Alone PROVE Spec => LatestIsObserved` |
| `PriceAlertsProofs!FlaggedWhenFailing` | `ASSUME Alone PROVE Spec => []FlaggedIffFailing` |
| `PriceAlertsProofs!CooldownKept` | `ASSUME Alone PROVE Spec => KeepsCooldown` |
| `PriceAlertsProofs!OneNotice` | `Cooldown!Spec => []Cooldown!OneNoticePerQuiet` |
| `PriceAlertsProofs!QuietIsKept` | `ASSUME Alone PROVE Spec => []Cooldown!OneNoticePerQuiet` |
| `NotificationsProofs!TypeCorrect` | `Spec => []TypeOK` |
| `NotificationsProofs!NonePending` | `Spec => []NothingLeftPending` |
| `NotificationsProofs!LogTellsTheTruth` | `Spec => []SentIsDelivered` |
| `NotificationsProofs!AttemptsAreBounded` | `Spec => []RetriesBounded` |
| `SchedulesProofs!TypeCorrect` | `Spec => []TypeOK` |
| `SchedulesProofs!EntriesFollow` | `Spec => []EntriesFollowRows` |
| `SchedulesProofs!BeforeOrAfter` | `Spec => []EntryBeforeOrAfter` |
| `PageFetchProofs!TypeCorrect` | `Spec => []TypeOK` |
| `PageFetchProofs!BlocksEarned` | `Spec => []BlockedIsEarned` |
| `PageFetchProofs!CallBounded` | `Spec => []RequestsBounded` |
| `PageFetchProofs!EveryProxyTried` | `Spec => []UnreachableIsTried` |
| `PageFetchProofs!BlocksReported` | `Spec => []BlocksAreReported` |
| `PageFetchProofs!DriftIsClean` | `Spec => []MissIsDrift` |
| `PriceExtractionProofs!Implements` | `ExtractionSpec => ImplementsFetch` |
| `PriceExtractionProofs!PromisesCarryOver` | the five invariants of `PageFetch` under `ExtractionSpec` |
| `PriceExtractionProofs!DriftIsHealable` | `ExtractionSpec => []MissIsHealable` |
| `PriceExtractionProofs!SafetyNet` | `ExtractionSpec => []OwnSourcesPrevail` |
| `PriceExtractionProofs!EnglishAgrees` | `\A t : English(t) => Strip(t) = Normalize(t)` |
| `CredentialsProofs!TypeCorrect` | `Spec => []TypeOK` |
| `CredentialsProofs!KeysStayHome` | `Spec => []KeyGoesWhereItsOwnerSaid` |
| `CredentialsProofs!PairsCoherent` | `Spec => []IncoherentNeverReachesSdk` |
| `CredentialsProofs!LateFailures` | `Spec => []FailsLateOnlyByName` |

They hold for every value of the constants that the assumptions of the modules
allow, and these only say what the constants are:

* sets of tasks, slots, workers, alerts, products, requests, bodies, environments,
  pages and matches of any size, the bounds natural numbers, at least one request
  for each proxy, a total `ProductOf`;
* `IsFiniteSet(Slots)` in `Notifications`, `IsFiniteSet(Workers)` in `PriceAlerts` and
  `IsFiniteSet(Regens)` in `SelectorHealing`, because their properties count
  members of these sets (a deployment has finitely many worker slots);
* `Thresholds # {}` in `PriceAlerts`: an alert that does not exist yet needs some
  threshold to be typed.

`Alone` is not an assumption of a module but a hypothesis of four theorems: at most
one scrape of the product at a time, the setting of the run `alerts_seq`.  The
properties say "one at a time" themselves, and `NoticesAreBounded` is what is left
of the promise without it.

### The arguments

*StallFreedom.*  `NoSilentStall` is not inductive.  It accepts as a witness any
slot that runs the task, also one that already told `task_postrun` that it
retries: when that one acknowledges, the witness is gone.  `StallFree` asks for
a witness that *will write the row* (`WillReport`: a message, a publisher, or an
attempt before postrun that does not retry), and adds that no attempt on its
last retry re-publishes; it is proved, and no run repeats it.  A retrying attempt
hands over to the message it has just put back, a crash to the redelivered one, and postrun closes the row.

*VerdictsEarned.*  A slot in postrun carries a (state, value) pair that is in
`results`, and `results` only grows; so the row postrun writes has its attempt.
*NoLeak* needs the foreign key in the publish handler and the cascade only; it
is proved and no run repeats it.

*RowsMoveForward.*  While no worker crashed a task has one carrier at most
(`OneCarrier`): its publisher, one copy of its message, or one attempt that will
still write the row; and the row is not ahead of the retries of that carrier
(`Behind`).  A second carrier would be a second writer, which is what a
redelivery after a crash is.

*AttemptsAreBounded*, in `ScrapeJobsProofs` and in `NotificationsProofs`.  The sum of
what every message may still cause is not a formula the provers can do induction
on, so it is a set (`Tokens`): each delivery made holds one token, and whatever
carries the message holds one for each delivery it may still come to.  A step
exchanges tokens for no more than it gives back (`Exchange`), a crash adds the
tokens of one message.  A message of `ScrapeJobs` with r retries holds the numbers
from r to `MaxRetries`.  For `Notifications` the argument is made once for any
family of sets in which a level pays for one delivery and n of the next level
(`Bundles`), and used twice: with n = 1 and those intervals while no webhook timed
out (`Punctual` keeps the second handler out), and with n = 2 and the non-empty
subsets of those intervals, which fall into the least member alone, the sets
without it and the others with it (`Halves`): hence 2^(MaxRetries + 1) - 1.

*SelectorHealing.*  `Rows` says who has the row open and what is in it: what a
scrape or a report will write is `Marked` of what it read, what an attempt read
allowed it.  `Numbered`: what an attempt read is at most one promotion old, since
the first one that ends starts the cooldown and no other begins until it elapses,
which needs the row free.  `Agreed` is the heart: until an attempt starts the
cooldown the row is what the attempts read but for its status, and all attempts
under way read it between the same two cooldowns, so that each of them has at most
one failure or promotion to add (`Counted`) and, if there is only one, none is lost
(`Exact`).  Neither counter property is inductive without what the open sessions
read.  Where the numbers stop, a promotion leaves the version at its last value
(`NewVersion`), and every bound only needs that version and count stop together.

*PriceAlerts.*  `Even` weighs the notices an alert is ahead of its rollbacks
against the scrapes that hold one (`InFlight`): while it is not cooling all are in
flight, while it is cooling one at least is committed, and they are never more than
there are workers because none is added to a cooling alert.  `NoticesBounded` and
`NeverSilenced` are read off it.  `Noticed`: a scrape past its evaluation knows every
alert its price triggers, or its record will not be the latest; it rests on
`Clocked`, that no two transactions begin at one time.  With `Alone`, `OneByOne`
says the scrape under way is the newest transaction and the record it did not
insert is still off the latest's page; `FailuresTrail` that the streak of failures is
exactly the set of records no later price follows, whose members a scan of the
latest `MinFailures` sees (`Newer` shrinks along it).  The refinement maps each
step: `NotifyAlerts` to a notice, `Fail` to a forgotten one, time to the end of a
cooldown, all others to stutters.

*OneNotice.*  The inductive part (`Balanced`) distinguishes the alerts: a quiet
one is at most one notice ahead of its rollbacks, any other not at all.

*Notifications.*  `Settled`: whoever is about to commit a row knows how its
delivery ended.  With it no row is committed as pending, and each step moves the
count of confirmed deliveries, of rows that say sent, of lost rows and of slots
about to commit (`Sending`) so that they agree.

*Schedules.*  `OneWriter`: the row lock admits one request.  `HolderKnows`: before
its Redis step the entry is what the row calls for, after it what the row will
call for, and a holder without such a step changes nothing the entry depends on.
`InOrder` says where in its handler a request holds the lock and what its body
may change.

*PageFetch.*  `Running` ties the count of dead proxies to where the call is and
makes the types inductive.  `Balance`: blocks seen and budget left add up to the
rotations allowed, and no block is remembered between proxies.  `Bounded`: the
requests made are at most `MaxRequests` for each turn of a proxy that is over
(`Turns`) plus the attempt in hand.  `Remembered`: while a call without proxies
asks, a block it saw is in `lastBlock`; it needs `CleanPage`, that http extracts
from unmarked pages only, which is also what `DriftIsClean` rests on.  `Tried`:
walking back from where the rotator is (`Walked`), a running call has put one proxy
more to use than were dead; blocks move it on and never back, so with all but one
dead the walk has met every proxy (`AllWalked`).

*PriceExtraction.*  `Reads` ties result and price of a call to its page:
nothing before the extraction ends in a miss (`FetchMissesNothing`), so a miss is the
page's.  The rest is about sequences: which text is shown is the one at the least
index with a digit (`LeastElement`, from the well-foundedness of the naturals),
so texts without digits may be dropped in front and texts may be added behind
(`ShownFirst`), and the gate's first plausible match is the one a scraper reads
unless an earlier one shows a digit.  Which reading a text gets depends on where
its marks are and not on the digits, so no proof looks into the recursive sums.

*Credentials.*  None of the three properties is inductive.  `Pending`: a
request under way was let in by the boundary while the API was up.  `Unmixed`:
unless the last PUT was stale, the row's fields are those of the body its key
came with; a PUT over the row it read replaces it whole (`Mixed`).
`ClientOfSource`: a call's client was built from what its source said, and a
worker that restarts with other settings has lost its call.

### What is model-checked only

* Liveness: `EverySendSettles` and `EveryRowSettles` of `ScrapeJobs`,
  `EveryNoticeSettles` of `Notifications`, `CatchesUpOrSpends` of `SelectorHealing`.  The
  provers do no reasoning with fairness or ENABLED.
* The findings (section 5), which are counterexamples.
* What the recursive sums of `PriceText` compute from the digits: induction over
  data needs theorems that take an operator, which the provers cannot
  instantiate.  No property of the runs depends on it.

## 5. Where documents and code differ

* **Retry policy of notifications** (`notify_policy`).  A timed out webhook is
  retried from two handlers, so `max_retries=3` allows 15 posts of one notice.
  `RetriesBounded` says what holds.
* **A miss fails its scrape** (`heal_miss`).  The IntegrityError of a lost race
  for a host's first profile is swallowed but its session stays broken.
* **A report does not always clear the budget** (`heal_report`).  A late
  `mark_stale` can leave a spent profile `stale`.  A report that reads it so
  changes nothing, since `revive_for_report` touches failed profiles only, and
  unless an attempt is still under way the host is not regenerated again.
* **A stored selector is not purely additive** (`fetch_additive`).  On Amazon it
  is asked before the legacy list, and its first match with a digit is final, so
  a selector that passed the gate can cost a page a price it would have had.

Behaviour the models share with the code, and which a reader may not expect:

* `notified_at` is read without a lock and visible only at commit, so overlapping
  scrapes each notify in one cooldown; `NoticesBounded` says by how much.
* Retry-After is parsed as a number: without a proxy, a 429 that carries a date
  raises a ValueError out of `fetch_page` (`HttpBlocked`), and the scrape task
  retries the product instead of recording a block.
* The browser path looks at the status only to find blocks: an error page
  without markers is extracted from, and at Amazon counts as a selector miss, so
  `MissIsDrift` is stated for the http path.
* A dead proxy in the browser path ends the call; only blocks rotate there.
* `all_proxies_unreachable` counts dead tries, not dead proxies: when blocks
  rotate in between, a proxy that answered is among those it blames, and one
  that was dead twice counts twice.  All were put to use (`UnreachableIsTried`).
* Promotions can go on for ever.  A selector that passes the gate and still misses
  for the scraper is regenerated when the cooldown ends, and each promotion sets
  the budget back (`services/selector_profile_service.py`:211), so of "those two
  guards ... the reason a page that can never be healed does not turn into an
  unbounded stream of LLM calls" (lines 9-11) only the cooldown works against it.
  `CountersExact` bounds the failures in a row, not the promotions.
* An unchanged page read as another price, because a selector was corrected or
  promoted, is dropped as a duplicate, although `_is_duplicate` is said to be
  "True only for a redundant" observation (`services/price_service.py`:18): the old
  price stays the latest until the page changes (`LatestIsObserved`).
* When a guarded insert of a job row fails, the later UPDATEs find no row: the
  task runs without one.
* Two regeneration slots can both pass the cooldown check of one window, since
  it is stamped after the LLM call; two promotions can share a version number,
  and a promotion writes no 0 over a failure committed since it read 0.
* A broker that refuses a notice rolls the price record of its scrape back, and
  the scrape is retried.
* A notification whose retries are used up raises its own exception, not
  MaxRetriesExceededError, so the branch that marks its row failed is not taken.
* An unchanged page is deduplicated before alerts are evaluated, so an alert
  created (or out of its cooldown) after the price was recorded stays silent
  until the page changes.
* Creating an inactive product registers its schedule.
* The sync of a starting worker registers from a snapshot and never deregisters,
  so a product deactivated meanwhile stays scheduled (`astray` in `Schedules`).
* The gate reads every match with the locale-aware parser until one is
  plausible, the generic scraper reads the first match and drops commas, although
  the gate's docstring speaks of "exactly the same parsing standard" as the
  built-in selectors (`services/selector_generation.py`:87-88).  "19,99" passes as
  19.99 and is served as 1999, "1.234,56" as 1.23456; a selector whose first match
  is a text without a price is promoted and then ends every scrape in
  `extraction_failed`, which asks for no regeneration; one whose first match has no
  text at all ends it in a miss, which does.  `MissIsHealable` says when the two agree.
* The range of the gate is not applied to what is served, and a DOM text that
  shows two prices is read as one number.
* eBay's DOM price loses its commas, whatever they mean.
* Two PUTs of one credential that overlap leave the fields of both
  (`Replaced`), although "the whole credential is replaced"
  (`services/llm_credential_service.py`:34-35); `stale` marks such a row, and no
  incoherent Azure pair reaches the SDK even then.
* A bare OpenRouter model name passes the API and the start-up and fails in the
  client, as a charged attempt (`FailsLateOnlyByName`).
* A worker that redelivers a finished scrape re-opens its row for a while.

What the history variables except, no property judges: an entry that is `astray`
(a rollback after the Redis write, a start-up snapshot, a PATCH without the lock),
and a credential that is `stale` (two PUTs that overlap).  `EntriesFollowRows` and
the properties of `Credentials` say that nothing else leads there and that the next
orderly write repairs it, not what such an entry or row does meanwhile.

## 6. What is not modelled, and why

* How selectors match HTML, how structured data is found in it, currencies, the
  trimming of pages and the prompt: a page is what its sources find.  The
  provider's answer, and how long it takes, is a nondeterministic choice.
* robots.txt and the rate-limit key, which only log and delay; request headers.
* `services/source_preset_service.py` and `scrapers/registry.py` appear as the constant
  `QueueOf`; read-only routes, schemas, settings, logging, the front end, the
  migrations and the deployment keep no state of this kind.
* Two products of one host in one transaction, and several hosts: rows of
  different hosts never meet.
* Several workers that start at the same time.
* Loss of Redis or of the database as a whole.

## 7. Plan

Done: `ScrapeJobs`, `SelectorHealing`, `PriceAlerts` over `AlertCooldown`,
`Notifications`, `Schedules`, `PageFetch`, `PriceExtraction` over `PageFetch` and
`Credentials`, each with its proofs.

Next, in order:

1. `PricePulse`: `PriceAlerts` and `Notifications` composed over one broker; the
   abstract promise is that a crossing that is committed is delivered or logged
   as failed.
2. `SelectorHealing` with `Credentials` and the gate of `PriceText` in place of
   its free choice of what a generation comes back with.
