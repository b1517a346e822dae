---------------------------- MODULE Notifications ----------------------------
(***************************************************************************)
(* Delivery of the notifications of one alert (tasks/notify.py).           *)
(*                                                                         *)
(* PriceAlerts hands messages to the broker; a worker slot takes one, logs *)
(* a notification_log row as pending, delivers through the alert's         *)
(* channel, and commits the row with what became of it.  The message is    *)
(* acknowledged last (acks_late).  An exception re-publishes the message   *)
(* with retries + 1, and a webhook that times out does so twice: where it  *)
(* happens, and in the handler around the whole task.                      *)
(***************************************************************************)
EXTENDS Integers, FiniteSets

CONSTANTS
  Slots,       \* worker slots that run send_notification
  Notices,     \* messages PriceAlerts publishes for the alert
  MaxRetries,  \* max_retries of send_notification
  MaxEdits,    \* bound: edits of the alert
  MaxCrashes,  \* bound: worker deaths
  MaxFaults,   \* bound: failed database statements and refused messages
  MaxCount     \* bound: where the history counters stop counting

ASSUME NotificationsAssumption ==
  /\ IsFiniteSet(Slots)
  /\ Notices \in Nat /\ MaxRetries \in Nat /\ MaxEdits \in Nat
  /\ MaxCrashes \in Nat /\ MaxFaults \in Nat /\ MaxCount \in Nat

VARIABLES
  alert,      \* the alert's row: its channel, and whether it has a contact
  logs,       \* logs[s]: committed notification_log rows with status s
  queue,      \* queue[r]: messages with retries = r waiting
  exec,       \* what each slot is doing
  edits, crashes, faults,
  attempts,   \* history: messages taken
  timeouts,   \* history: webhooks that timed out
  delivered,  \* history: deliveries a channel confirmed
  unlogged    \* history: of these, the ones whose row was rolled back

vars == <<alert, logs, queue, exec, edits, crashes, faults, attempts,
          timeouts, delivered, unlogged>>
-----------------------------------------------------------------------------
Channels == {"email", "webhook", "whatsapp"}
Statuses == {"pending", "sent", "failed"}
Alert    == [exists: BOOLEAN, channel: Channels, contact: BOOLEAN]

Idle == [pc |-> "idle"]
Attempt == [pc: {"load", "insert", "dispatch", "commit", "timeout", "retry",
                 "failure", "ack"},
            retries: 0..MaxRetries, alert: Alert, status: Statuses]

TypeOK ==
  /\ alert \in Alert
  /\ logs \in [Statuses -> Nat]
  /\ queue \in [0..MaxRetries -> Nat]
  /\ exec \in [Slots -> {Idle} \cup Attempt]
  /\ edits \in 0..MaxEdits /\ crashes \in 0..MaxCrashes
  /\ faults \in 0..MaxFaults
  /\ attempts \in 0..MaxCount /\ timeouts \in 0..MaxCount
  /\ delivered \in Nat /\ unlogged \in Nat

Init ==
  /\ alert \in [exists: {TRUE}, channel: Channels, contact: BOOLEAN]
  /\ logs = [s \in Statuses |-> 0]
  /\ queue = [r \in 0..MaxRetries |-> IF r = 0 THEN Notices ELSE 0]
  /\ exec = [w \in Slots |-> Idle]
  /\ edits = 0 /\ crashes = 0 /\ faults = 0
  /\ attempts = 0 /\ timeouts = 0
  /\ delivered = 0 /\ unlogged = 0
-----------------------------------------------------------------------------
Goto(w, pc) == exec' = [exec EXCEPT ![w].pc = pc]
Fault == faults < MaxFaults /\ faults' = faults + 1
Count(n) == IF n < MaxCount THEN n + 1 ELSE n

(* The slot's transaction ends without a commit.                           *)
Forgotten(w) ==
  unlogged' = IF exec[w].pc = "commit" /\ exec[w].status = "sent"
                THEN unlogged + 1 ELSE unlogged

Take(w, r) ==
  /\ exec[w].pc = "idle" /\ queue[r] > 0
  /\ queue' = [queue EXCEPT ![r] = @ - 1]
  /\ exec' = [exec EXCEPT ![w] = [pc |-> "load", retries |-> r,
                                  alert |-> alert, status |-> "pending"]]
  /\ attempts' = Count(attempts)
  /\ UNCHANGED <<alert, logs, edits, crashes, faults, timeouts, delivered,
                 unlogged>>

(* The alert is read; a deleted one ends the task.                         *)
Load(w) ==
  /\ exec[w].pc = "load"
  /\ \/ /\ exec' = [exec EXCEPT ![w].alert = alert,
                      ![w].pc = IF alert.exists THEN "insert" ELSE "ack"]
        /\ UNCHANGED faults
     \/ Fault /\ Goto(w, "failure")
  /\ UNCHANGED <<alert, logs, queue, edits, crashes, attempts, timeouts,
                 delivered, unlogged>>

(* Mutation: the pending row is committed instead of flushed.              *)
InsertLogCommitted(w) ==
  /\ exec[w].pc = "insert"
  /\ Goto(w, IF alert.exists THEN "dispatch" ELSE "ack")
  /\ logs' = [logs EXCEPT !["pending"] = @ + 1]
  /\ UNCHANGED <<alert, queue, edits, crashes, faults, attempts, timeouts,
                 delivered, unlogged>>

(* The product and its latest price are read and the row is flushed.  If   *)
(* the alert went meanwhile, its product went with it or the foreign key   *)
(* fails.  Once flushed, the row locks the alert against deletion.         *)
InsertLog(w) ==
  /\ exec[w].pc = "insert"
  /\ \/ /\ exec' = [exec EXCEPT
             ![w].pc = IF alert.exists THEN "dispatch" ELSE "ack"]
        /\ UNCHANGED faults
     \/ Goto(w, "failure") /\ ~alert.exists /\ UNCHANGED faults
     \/ Goto(w, "failure") /\ Fault
  /\ UNCHANGED <<alert, logs, queue, edits, crashes, attempts, timeouts,
                 delivered, unlogged>>

(* Mutation: a status that is not one of NotificationStatus.               *)
ConfirmedAsDelivered(w) ==
  /\ exec' = [exec EXCEPT ![w].pc = "commit", ![w].status = "delivered"]
  /\ delivered' = delivered + 1
  /\ UNCHANGED timeouts

Confirmed(w) ==
  /\ exec' = [exec EXCEPT ![w].pc = "commit", ![w].status = "sent"]
  /\ delivered' = delivered + 1
  /\ UNCHANGED timeouts

(* Mutation: any answer of the webhook counts as sent.                     *)
FailedAsSent(w) ==
  /\ exec' = [exec EXCEPT ![w].pc = "commit", ![w].status = "sent"]
  /\ UNCHANGED <<delivered, timeouts>>

Failed(w) ==
  /\ exec' = [exec EXCEPT ![w].pc = "commit", ![w].status = "failed"]
  /\ UNCHANGED <<delivered, timeouts>>

(* Email and WhatsApp only log; a webhook answers, errs or times out, and  *)
(* a URL that httpx does not accept raises what no handler here catches.   *)
DispatchChannel(w) ==
  /\ exec[w].pc = "dispatch"
  /\ LET a == exec[w].alert
     IN  \/ (a.channel = "email" \/ a.contact) /\ Confirmed(w)
         \/ a.channel # "email" /\ ~a.contact /\ Failed(w)
         \/ a.channel = "webhook" /\ a.contact /\ Failed(w)
         \/ /\ a.channel = "webhook" /\ a.contact
            /\ Goto(w, "failure") /\ UNCHANGED <<delivered, timeouts>>
         \/ /\ a.channel = "webhook" /\ a.contact
            /\ exec' = [exec EXCEPT ![w].pc = "timeout",
                                    ![w].status = "failed"]
            /\ timeouts' = Count(timeouts)
            /\ UNCHANGED delivered
  /\ UNCHANGED <<alert, logs, queue, edits, crashes, faults, attempts,
                 unlogged>>

(* session.commit(): at the end of the task, or before a timed out webhook *)
(* is retried.                                                             *)
CommitLog(w) ==
  /\ exec[w].pc \in {"commit", "timeout"}
  /\ \/ /\ logs' = [logs EXCEPT ![exec[w].status] = @ + 1]
        /\ Goto(w, IF exec[w].pc = "timeout" THEN "retry" ELSE "ack")
        /\ UNCHANGED <<faults, unlogged>>
     \/ /\ Fault /\ Goto(w, "failure")
        /\ Forgotten(w)
        /\ UNCHANGED logs
  /\ UNCHANGED <<alert, queue, edits, crashes, attempts, timeouts, delivered>>

(* Mutation: retry() is called twice on every path.                        *)
RepublishTwice(r) ==
  \/ r < MaxRetries /\ queue' = [queue EXCEPT ![r + 1] = @ + 2] /\ UNCHANGED faults
  \/ r = MaxRetries /\ UNCHANGED <<queue, faults>>

(* task.retry(): publishes unless the retries are used up, and raises in   *)
(* either case, also when the broker refuses the message.                  *)
Republish(r) ==
  \/ /\ r < MaxRetries
     /\ queue' = [queue EXCEPT ![r + 1] = @ + 1]
     /\ UNCHANGED faults
  \/ r < MaxRetries /\ Fault /\ UNCHANGED queue
  \/ r = MaxRetries /\ UNCHANGED <<queue, faults>>

(* _deliver_webhook: what it raises, Retry included, is an Exception.      *)
RetryWebhook(w) ==
  /\ exec[w].pc = "retry"
  /\ Republish(exec[w].retries)
  /\ Goto(w, "failure")
  /\ UNCHANGED <<alert, logs, edits, crashes, attempts, timeouts, delivered,
                 unlogged>>

(* self.retry(exc=exc) re-raises exc on the last attempt, never            *)
(* MaxRetriesExceededError, so the branch for that is not taken.           *)
HandleTaskFailure(w) ==
  /\ exec[w].pc = "failure"
  /\ Republish(exec[w].retries)
  /\ Goto(w, "ack")
  /\ UNCHANGED <<alert, logs, edits, crashes, attempts, timeouts, delivered,
                 unlogged>>

(* Mutation: a failed delivery is never acknowledged.                      *)
AckIfSent(w) ==
  /\ exec[w].pc = "ack" /\ exec[w].status # "failed"
  /\ exec' = [exec EXCEPT ![w] = Idle]
  /\ UNCHANGED <<alert, logs, queue, edits, crashes, faults, attempts,
                 timeouts, delivered, unlogged>>

Ack(w) ==
  /\ exec[w].pc = "ack"
  /\ exec' = [exec EXCEPT ![w] = Idle]
  /\ UNCHANGED <<alert, logs, queue, edits, crashes, faults, attempts,
                 timeouts, delivered, unlogged>>

Crash(w) ==
  /\ exec[w].pc # "idle" /\ crashes < MaxCrashes
  /\ crashes' = crashes + 1
  /\ queue' = [queue EXCEPT ![exec[w].retries] = @ + 1]
  /\ exec' = [exec EXCEPT ![w] = Idle]
  /\ Forgotten(w)
  /\ UNCHANGED <<alert, logs, edits, faults, attempts, timeouts, delivered>>
-----------------------------------------------------------------------------
UpdateAlert ==
  /\ alert.exists /\ edits < MaxEdits
  /\ edits' = edits + 1
  /\ alert' \in [exists: {TRUE}, channel: Channels, contact: BOOLEAN]
  /\ UNCHANGED <<logs, queue, exec, crashes, faults, attempts, timeouts,
                 delivered, unlogged>>

(* The alert or its product is deleted, and the log rows with it.          *)
DeleteAlert ==
  /\ alert.exists /\ edits < MaxEdits
  /\ \A w \in Slots : exec[w].pc \notin {"dispatch", "commit", "timeout"}
  /\ edits' = edits + 1
  /\ alert' = [alert EXCEPT !.exists = FALSE]
  /\ logs' = [s \in Statuses |-> 0]
  /\ delivered' = 0 /\ unlogged' = 0
  /\ UNCHANGED <<queue, exec, crashes, faults, attempts, timeouts>>
-----------------------------------------------------------------------------
Work(w) ==
  \/ \E r \in 0..MaxRetries : Take(w, r)
  \/ Load(w) \/ InsertLog(w) \/ DispatchChannel(w) \/ CommitLog(w)
  \/ RetryWebhook(w) \/ HandleTaskFailure(w) \/ Ack(w)

Next ==
  \/ \E w \in Slots : Work(w) \/ Crash(w)
  \/ UpdateAlert
  \/ DeleteAlert

Spec == Init /\ [][Next]_vars

(* A live worker keeps taking messages and running what it took.           *)
FairSpec == Spec /\ \A w \in Slots : WF_vars(Work(w))
-----------------------------------------------------------------------------
(* Users never see a pending notification that nobody will finish: no row  *)
(* is committed before its delivery ended.                                 *)
NothingLeftPending == logs["pending"] = 0

(* The log tells the truth about deliveries: every confirmed delivery is   *)
(* logged as sent, is about to be, or lost its row to a failed commit or a *)
(* dead worker; nothing else is.                                           *)
SentIsDelivered ==
  delivered - unlogged =
    logs["sent"] + Cardinality({w \in Slots : exec[w].pc = "commit"
                                              /\ exec[w].status = "sent"})

(* Without timed out webhooks the retry policy bounds the attempts as in   *)
(* the scrape task, redeliveries after a crash included; with them, every  *)
(* level of retries at most doubles the messages.                          *)
RetriesBounded ==
  /\ timeouts = 0 => attempts <= (MaxRetries + 1) * (Notices + crashes)
  /\ attempts <= (2^(MaxRetries + 1) - 1) * (Notices + crashes)

(* Every message is eventually used up, however webhooks and faults go.    *)
EveryNoticeSettles ==
  <>[](/\ \A r \in 0..MaxRetries : queue[r] = 0
       /\ \A w \in Slots : exec[w].pc = "idle")

(* "Retry policy: max_retries=3": one notice posts its webhook at most     *)
(* MaxRetries + 1 times when no worker dies.                               *)
RetryPolicyKept ==
  crashes = 0 => timeouts + delivered <= (MaxRetries + 1) * Notices
=============================================================================
