----------------------------- MODULE ScrapeJobs -----------------------------
(***************************************************************************)
(* The life of one scrape_product dispatch: the Celery message, the        *)
(* attempts workers make at it, and the scrape_job row that signal         *)
(* handlers keep for users (workers/scrape_job_signals.py,                 *)
(* tasks/scrape.py, tasks/maintenance.py).                                 *)
(*                                                                         *)
(* A task id is published once by the API or by beat.  before_task_publish *)
(* inserts the row, then the message goes to the broker.  A worker slot    *)
(* takes the message and runs, in this order, task_prerun, the body, and   *)
(* task_postrun; only then is the message acknowledged (acks_late), so a   *)
(* worker that dies anywhere in between has its message delivered again.   *)
(* An exception in the body re-publishes the message under the same task   *)
(* id with retries + 1.  Every row write is best effort (_run_guarded).    *)
(***************************************************************************)
EXTENDS Integers

CONSTANTS
  Tasks,         \* task ids that are ever published
  Products,
  ProductOf,     \* the product_id each task id carries in its message
  Slots,         \* worker slots that run scrape_product
  MaxRetries,    \* max_retries of scrape_product
  MaxCrashes,    \* bound: worker deaths
  MaxDbFaults,   \* bound: row writes that fail and are swallowed
  MaxSendFaults  \* bound: messages the broker refuses

ASSUME ConstantsAssumption ==
  /\ ProductOf \in [Tasks -> Products]
  /\ MaxRetries \in Nat /\ MaxCrashes \in Nat
  /\ MaxDbFaults \in Nat /\ MaxSendFaults \in Nat

VARIABLES
  products,   \* products that exist
  job,        \* the scrape_job table, by its unique task_id
  dispatch,   \* how far the producer of each task got
  broker,     \* broker[t][r]: copies of t's message with retries = r waiting
  exec,       \* what each worker slot is doing
  crashes, dbFaults, sendFaults,   \* faults so far
  lost,       \* history: tasks one of whose row writes was swallowed
  attempts,   \* history: deliveries of each task so far
  results     \* history: the results attempts reported to task_postrun

vars == <<products, job, dispatch, broker, exec, crashes, dbFaults,
          sendFaults, lost, attempts, results>>
-----------------------------------------------------------------------------
(* The extraction outcomes, of which the row distinguishes only "ok".      *)
Extractions == {"ok", "no_price"}
Retvals     == Extractions \cup {"not_found", "none"}
States      == {"PENDING", "SUCCESS", "RETRY", "FAILURE", "REJECTED"}
Pcs         == {"prerun", "load", "scrape", "commit", "except", "republish",
                "resend", "postrun", "ack"}

Idle == [pc |-> "idle"]
Attempt == [task: Tasks, retries: 0..MaxRetries, pc: Pcs,
            state: States, retval: Retvals]
Result  == [task: Tasks, retries: 0..MaxRetries,
            state: States, retval: Retvals]

(* A row: status, extraction_status, retries, whether started_at and       *)
(* finished_at are set, and whether enqueued_at lies before the retention  *)
(* cut-off.                                                                *)
NoJob  == [status |-> "absent"]
Row    == [status: {"queued", "started", "success", "failure"},
           extraction: Retvals, retries: 0..MaxRetries,
           started: BOOLEAN, finished: BOOLEAN, old: BOOLEAN]
Queued == [status |-> "queued", extraction |-> "none", retries |-> 0,
           started |-> FALSE, finished |-> FALSE, old |-> FALSE]

HasRow(t)   == job[t].status # "absent"
Terminal(t) == job[t].status \in {"success", "failure"}
Open(t)     == job[t].status \in {"queued", "started"}
Runs(w, t)  == exec[w].pc # "idle" /\ exec[w].task = t

TypeOK ==
  /\ products \subseteq Products
  /\ job \in [Tasks -> {NoJob} \cup Row]
  /\ dispatch \in [Tasks -> {"new", "publishing", "sent", "refused"}]
  /\ broker \in [Tasks -> [0..MaxRetries -> Nat]]
  /\ exec \in [Slots -> {Idle} \cup Attempt]
  /\ crashes \in 0..MaxCrashes /\ dbFaults \in 0..MaxDbFaults
  /\ sendFaults \in 0..MaxSendFaults
  /\ lost \subseteq Tasks
  /\ attempts \in [Tasks -> Nat]
  /\ results \subseteq Result

Init ==
  /\ products = Products
  /\ job = [t \in Tasks |-> NoJob]
  /\ dispatch = [t \in Tasks |-> "new"]
  /\ broker = [t \in Tasks |-> [r \in 0..MaxRetries |-> 0]]
  /\ exec = [w \in Slots |-> Idle]
  /\ crashes = 0 /\ dbFaults = 0 /\ sendFaults = 0
  /\ lost = {}
  /\ attempts = [t \in Tasks |-> 0]
  /\ results = {}
-----------------------------------------------------------------------------
(* _run_guarded: the write of row happens, or it fails and nobody is told. *)
Guarded(t, row) ==
  \/ job' = [job EXCEPT ![t] = row] /\ UNCHANGED <<dbFaults, lost>>
  \/ /\ dbFaults < MaxDbFaults
     /\ dbFaults' = dbFaults + 1
     /\ lost' = lost \cup {t}
     /\ UNCHANGED job

(* INSERT ... ON CONFLICT (task_id) DO NOTHING; the foreign key refuses    *)
(* the row of a deleted product.                                           *)
HandlePublish(t) ==
  IF ~HasRow(t) /\ ProductOf[t] \in products THEN Queued ELSE job[t]

(* UPDATE ... WHERE task_id = t: touches nothing when there is no row.     *)
HandlePrerun(t, r) ==
  IF HasRow(t)
    THEN [job[t] EXCEPT !.status = "started", !.started = TRUE,
                        !.retries = r]
    ELSE job[t]

(* Mutation: a task that returned counts as a success whatever it found.   *)
FoldByStateOnly(state, retval) ==
  IF state = "SUCCESS"
    THEN [status |-> "success", extraction |-> retval]
    ELSE [status |-> "failure", extraction |-> "none"]

(* (state, retval) to (status, extraction_status).                         *)
FoldOutcome(state, retval) ==
  IF state = "SUCCESS"
    THEN [status |-> IF retval = "ok" THEN "success" ELSE "failure",
          extraction |-> retval]
    ELSE [status |-> "failure", extraction |-> "none"]

(* Mutation: the attempts, not the retries, are stored.                    *)
PostrunCountsAttempts(t, r, state, retval) ==
  IF state # "RETRY" /\ HasRow(t)
    THEN [job[t] EXCEPT !.status = FoldOutcome(state, retval).status,
                        !.extraction = FoldOutcome(state, retval).extraction,
                        !.retries = r + 1, !.finished = TRUE]
    ELSE job[t]

(* Mutation: the early return for RETRY is missing.                        *)
PostrunWritesRetry(t, r, state, retval) ==
  IF HasRow(t)
    THEN [job[t] EXCEPT !.status = FoldOutcome(state, retval).status,
                        !.extraction = FoldOutcome(state, retval).extraction,
                        !.retries = r, !.finished = TRUE]
    ELSE job[t]

HandlePostrun(t, r, state, retval) ==
  IF state # "RETRY" /\ HasRow(t)
    THEN [job[t] EXCEPT !.status = FoldOutcome(state, retval).status,
                        !.extraction = FoldOutcome(state, retval).extraction,
                        !.retries = r, !.finished = TRUE]
    ELSE job[t]
-----------------------------------------------------------------------------
(* The producers: the trigger endpoint in the API, beat for the schedule.  *)
BeforeTaskPublish(t) ==
  /\ dispatch[t] = "new"
  /\ dispatch' = [dispatch EXCEPT ![t] = "publishing"]
  /\ Guarded(t, HandlePublish(t))
  /\ UNCHANGED <<products, broker, exec, crashes, sendFaults, attempts, results>>

Send(t) ==
  /\ dispatch[t] = "publishing"
  /\ dispatch' = [dispatch EXCEPT ![t] = "sent"]
  /\ broker' = [broker EXCEPT ![t][0] = @ + 1]
  /\ UNCHANGED <<products, job, exec, crashes, dbFaults, sendFaults, lost,
                 attempts, results>>

SendFails(t) ==
  /\ dispatch[t] = "publishing"
  /\ sendFaults < MaxSendFaults
  /\ sendFaults' = sendFaults + 1
  /\ dispatch' = [dispatch EXCEPT ![t] = "refused"]
  /\ UNCHANGED <<products, job, broker, exec, crashes, dbFaults, lost,
                 attempts, results>>
-----------------------------------------------------------------------------
(* The workers.                                                            *)
Deliver(w, t, r) ==
  /\ exec[w].pc = "idle"
  /\ broker[t][r] > 0
  /\ broker' = [broker EXCEPT ![t][r] = @ - 1]
  /\ exec' = [exec EXCEPT ![w] = [task |-> t, retries |-> r, pc |-> "prerun",
                                  state |-> "PENDING", retval |-> "none"]]
  /\ attempts' = [attempts EXCEPT ![t] = @ + 1]
  /\ UNCHANGED <<products, job, dispatch, crashes, dbFaults, sendFaults,
                 lost, results>>

Goto(w, pc) == exec' = [exec EXCEPT ![w].pc = pc]

(* The attempt ends in a Celery state that task_postrun will be told.      *)
Report(w, state, retval) ==
  /\ exec' = [exec EXCEPT ![w].pc = "postrun", ![w].state = state,
                          ![w].retval = retval]
  /\ results' = results \cup {[task |-> exec[w].task,
                               retries |-> exec[w].retries,
                               state |-> state, retval |-> retval]}

OnTaskPrerun(w) ==
  /\ exec[w].pc = "prerun"
  /\ Guarded(exec[w].task, HandlePrerun(exec[w].task, exec[w].retries))
  /\ Goto(w, "load")
  /\ UNCHANGED <<products, dispatch, broker, crashes, sendFaults, attempts, results>>

(* The body reads the product: a missing one ends the task at once.        *)
Load(w) ==
  /\ exec[w].pc = "load"
  /\ IF ProductOf[exec[w].task] \in products
       THEN Goto(w, "scrape") /\ UNCHANGED results
       ELSE Report(w, "SUCCESS", "not_found")
  /\ UNCHANGED <<products, job, dispatch, broker, crashes, dbFaults,
                 sendFaults, lost, attempts>>

(* run_scrape yields a record of some outcome, or raises.                  *)
Scrape(w) ==
  /\ exec[w].pc = "scrape"
  /\ \/ \E s \in Extractions :
          exec' = [exec EXCEPT ![w].pc = "commit", ![w].retval = s]
     \/ Goto(w, "except")
  /\ UNCHANGED <<products, job, dispatch, broker, crashes, dbFaults,
                 sendFaults, lost, attempts, results>>

(* session.commit(): the new price record of a product deleted meanwhile   *)
(* breaks its foreign key; a deduplicated "ok" inserts nothing.            *)
Commit(w) ==
  /\ exec[w].pc = "commit"
  /\ \/ /\ ProductOf[exec[w].task] \in products \/ exec[w].retval = "ok"
        /\ Report(w, "SUCCESS", exec[w].retval)
     \/ /\ exec' = [exec EXCEPT ![w].pc = "except", ![w].retval = "none"]
        /\ UNCHANGED results
  /\ UNCHANGED <<products, job, dispatch, broker, crashes, dbFaults,
                 sendFaults, lost, attempts>>

(* except Exception: self.retry() re-publishes, or on the last attempt     *)
(* lets the exception out.                                                 *)
Retry(w) ==
  /\ exec[w].pc = "except"
  /\ IF exec[w].retries < MaxRetries
       THEN Goto(w, "republish") /\ UNCHANGED results
       ELSE Report(w, "FAILURE", "none")
  /\ UNCHANGED <<products, job, dispatch, broker, crashes, dbFaults,
                 sendFaults, lost, attempts>>

(* before_task_publish fires for the retry message too.                    *)
Republish(w) ==
  /\ exec[w].pc = "republish"
  /\ Guarded(exec[w].task, HandlePublish(exec[w].task))
  /\ Goto(w, "resend")
  /\ UNCHANGED <<products, dispatch, broker, crashes, sendFaults, attempts, results>>

(* Mutation: the handler and the caller both re-publish.                   *)
ResendTwice(w) ==
  /\ exec[w].pc = "resend"
  /\ broker' = [broker EXCEPT
                  ![exec[w].task][exec[w].retries + 1] = @ + 2]
  /\ Report(w, "RETRY", "none")
  /\ UNCHANGED <<products, job, dispatch, crashes, dbFaults, sendFaults, lost,
                 attempts>>

(* A broker that refuses the retry turns the attempt into a rejection.     *)
Resend(w) ==
  /\ exec[w].pc = "resend"
  /\ \/ /\ broker' = [broker EXCEPT
                        ![exec[w].task][exec[w].retries + 1] = @ + 1]
        /\ Report(w, "RETRY", "none")
        /\ UNCHANGED sendFaults
     \/ /\ sendFaults < MaxSendFaults
        /\ sendFaults' = sendFaults + 1
        /\ Report(w, "REJECTED", "none")
        /\ UNCHANGED broker
  /\ UNCHANGED <<products, job, dispatch, crashes, dbFaults, lost, attempts>>

OnTaskPostrun(w) ==
  /\ exec[w].pc = "postrun"
  /\ Guarded(exec[w].task,
             HandlePostrun(exec[w].task, exec[w].retries,
                           exec[w].state, exec[w].retval))
  /\ Goto(w, "ack")
  /\ UNCHANGED <<products, dispatch, broker, crashes, sendFaults, attempts, results>>

(* Mutation: only an attempt whose row was written is acknowledged.        *)
AckIfWritten(w) ==
  /\ exec[w].pc = "ack" /\ exec[w].task \notin lost
  /\ exec' = [exec EXCEPT ![w] = Idle]
  /\ UNCHANGED <<products, job, dispatch, broker, crashes, dbFaults,
                 sendFaults, lost, attempts, results>>

Ack(w) ==
  /\ exec[w].pc = "ack"
  /\ exec' = [exec EXCEPT ![w] = Idle]
  /\ UNCHANGED <<products, job, dispatch, broker, crashes, dbFaults,
                 sendFaults, lost, attempts, results>>

(* Mutation: acks_late is off, so the message dies with the worker.        *)
CrashEarlyAck(w) ==
  /\ exec[w].pc # "idle"
  /\ crashes < MaxCrashes
  /\ crashes' = crashes + 1
  /\ exec' = [exec EXCEPT ![w] = Idle]
  /\ UNCHANGED <<products, job, dispatch, broker, dbFaults, sendFaults, lost,
                 attempts, results>>

(* A worker dies; its unacknowledged message goes back to the queue.       *)
Crash(w) ==
  /\ exec[w].pc # "idle"
  /\ crashes < MaxCrashes
  /\ crashes' = crashes + 1
  /\ broker' = [broker EXCEPT ![exec[w].task][exec[w].retries] = @ + 1]
  /\ exec' = [exec EXCEPT ![w] = Idle]
  /\ UNCHANGED <<products, job, dispatch, dbFaults, sendFaults, lost,
                 attempts, results>>
-----------------------------------------------------------------------------
(* The database's other writers.                                           *)
DeleteProduct(p) ==
  /\ p \in products
  /\ products' = products \ {p}
  /\ job' = [t \in Tasks |-> IF ProductOf[t] = p THEN NoJob ELSE job[t]]
  /\ UNCHANGED <<dispatch, broker, exec, crashes, dbFaults, sendFaults, lost,
                 attempts, results>>

(* SCRAPE_JOB_RETENTION_DAYS go by; an attempt lasts minutes, so only      *)
(* messages can still be waiting.                                          *)
RetentionPasses ==
  /\ \A w \in Slots : exec[w].pc = "idle"
  /\ \E t \in Tasks : HasRow(t) /\ ~job[t].old
  /\ job' = [t \in Tasks |->
               IF HasRow(t) THEN [job[t] EXCEPT !.old = TRUE] ELSE job[t]]
  /\ UNCHANGED <<products, dispatch, broker, exec, crashes, dbFaults,
                 sendFaults, lost, attempts, results>>

(* The delete goes by age alone: it takes rows of waiting tasks too.       *)
PruneScrapeJobs ==
  /\ \E t \in Tasks : HasRow(t) /\ job[t].old
  /\ job' = [t \in Tasks |->
               IF HasRow(t) /\ job[t].old THEN NoJob ELSE job[t]]
  /\ UNCHANGED <<products, dispatch, broker, exec, crashes, dbFaults,
                 sendFaults, lost, attempts, results>>
-----------------------------------------------------------------------------
SlotStep(w) ==
  \/ OnTaskPrerun(w) \/ Load(w) \/ Scrape(w) \/ Commit(w) \/ Retry(w)
  \/ Republish(w) \/ Resend(w) \/ OnTaskPostrun(w) \/ Ack(w)

Work(w) ==
  \/ SlotStep(w)
  \/ \E t \in Tasks, r \in 0..MaxRetries : Deliver(w, t, r)

Environment ==
  \/ \E t \in Tasks : BeforeTaskPublish(t) \/ Send(t) \/ SendFails(t)
  \/ \E w \in Slots : Crash(w)
  \/ \E p \in Products : DeleteProduct(p)
  \/ RetentionPasses
  \/ PruneScrapeJobs

Next == (\E w \in Slots : Work(w)) \/ Environment

Spec == Init /\ [][Next]_vars

(* A producer that has begun to publish goes on, and a live worker keeps   *)
(* taking messages and running what it took.  Nothing else is promised.    *)
Fairness ==
  /\ \A t \in Tasks : WF_vars(Send(t) \/ SendFails(t))
  /\ \A w \in Slots : WF_vars(Work(w))

FairSpec == Spec /\ Fairness
-----------------------------------------------------------------------------
(* A copy of the message, the publisher, or an attempt is still under way. *)
InFlight(t) ==
  \/ dispatch[t] = "publishing"
  \/ \E r \in 0..MaxRetries : broker[t][r] > 0
  \/ \E w \in Slots : Runs(w, t)

(* Of these, the ones that will still write t's row.                       *)
WillReport(w, t) ==
  /\ Runs(w, t)
  /\ exec[w].pc # "ack"
  /\ ~(exec[w].pc = "postrun" /\ exec[w].state = "RETRY")

Live(t) ==
  \/ dispatch[t] = "publishing"
  \/ \E r \in 0..MaxRetries : broker[t][r] > 0
  \/ \E w \in Slots : WillReport(w, t)

(* A row that says queued or started has someone who will still finish it: *)
(* whatever the crashes, redeliveries, retries, prunes and deletions, the  *)
(* jobs view shows no scrape as pending that nobody is going to run,       *)
(* unless a row write was swallowed or the broker refused the dispatch.    *)
NoSilentStall ==
  \A t \in Tasks :
    Open(t) /\ t \notin lost /\ dispatch[t] # "refused" => InFlight(t)

(* The inductive form: an attempt that already told task_postrun it        *)
(* retries will not write the row again, so it cannot be the witness; and  *)
(* no attempt on its last retry sends another message.                     *)
StallFree ==
  /\ \A w \in Slots : exec[w].pc \in {"republish", "resend"} =>
       exec[w].retries < MaxRetries
  /\ \A t \in Tasks :
       Open(t) /\ t \notin lost /\ dispatch[t] # "refused" => Live(t)

(* A publish for a deleted product leaks no row: not the first publish,    *)
(* nor a retry published after the product, and its rows, were deleted.    *)
NoRowLeaked == \A t \in Tasks : HasRow(t) => ProductOf[t] \in products

(* A finished row states what some attempt at its task did report: status, *)
(* extraction status and retries all come from one attempt, and "success"  *)
(* only from one that observed a price.                                    *)
VerdictIsAnAttempts ==
  \A t \in Tasks : Terminal(t) =>
    \E o \in results :
      /\ o.task = t /\ o.retries = job[t].retries /\ o.state # "RETRY"
      /\ (job[t].status = "success")
           <=> (o.state = "SUCCESS" /\ o.retval = "ok")
      /\ job[t].extraction = IF o.state = "SUCCESS" THEN o.retval ELSE "none"

(* The retry policy bounds the attempts: MaxRetries + 1 of them, and as    *)
(* many again for every crash that had a message delivered a second time.  *)
AttemptsBounded ==
  \A t \in Tasks : attempts[t] <= (MaxRetries + 1) * (crashes + 1)

Rank(row) == CASE row.status = "queued" -> 0
               [] row.status = "started" -> 1
               [] OTHER -> 2

(* As long as no worker crashed, a row only moves forward: never back from *)
(* finished to started, nor to fewer retries, however the row was inserted *)
(* and whichever slots ran the attempts.  (A redelivery after a crash does *)
(* re-open a finished row.)                                                *)
RowMovesForward ==
  [][crashes = 0 =>
       \A t \in Tasks : (HasRow(t) /\ HasRow(t)') =>
         /\ Rank(job[t]) <= Rank(job'[t])
         /\ job[t].retries <= job'[t].retries
         /\ Terminal(t) => [job'[t] EXCEPT !.old = job[t].old] = job[t]]_vars

(* What was sent is eventually settled, and its row does not stay open.    *)
EverySendSettles ==
  \A t \in Tasks : dispatch[t] = "publishing" ~> ~InFlight(t)

EveryRowSettles ==
  \A t \in Tasks :
    Open(t) ~> (~Open(t) \/ t \in lost \/ dispatch[t] = "refused")
=============================================================================
