------------------------- MODULE NotificationsProofs -------------------------
(***************************************************************************)
(* What the notification log may say, and how often a message may be       *)
(* taken, for every number of worker slots, messages, retries, edits,      *)
(* crashes and faults.                                                     *)
(***************************************************************************)
EXTENDS Notifications, FiniteSetTheorems, TLAPS

-----------------------------------------------------------------------------
(* Type correctness.                                                       *)

(* Moving a slot to another point of the task keeps the attempt it runs.   *)
LEMMA GotoTyped ==
  ASSUME TypeOK, NEW w \in Slots, exec[w].pc # "idle",
         NEW pc \in {"load", "insert", "dispatch", "commit", "timeout",
                     "retry", "failure", "ack"},
         Goto(w, pc)
  PROVE  exec' \in [Slots -> {Idle} \cup Attempt]
<1>1. exec[w] \in Attempt
  BY DEF TypeOK, Idle
<1>2. [exec[w] EXCEPT !.pc = pc] \in Attempt
  BY <1>1 DEF Attempt
<1>3. QED
  BY <1>2 DEF TypeOK, Goto

(* So does moving it and noting the status of its row.                     *)
LEMMA StatusTyped ==
  ASSUME TypeOK, NEW w \in Slots, exec[w].pc # "idle",
         NEW pc \in {"commit", "timeout"}, NEW status \in Statuses,
         exec' = [exec EXCEPT ![w].pc = pc, ![w].status = status]
  PROVE  exec' \in [Slots -> {Idle} \cup Attempt]
<1>1. exec[w] \in Attempt
  BY DEF TypeOK, Idle
<1>2. [exec[w] EXCEPT !.pc = pc, !.status = status] \in Attempt
  BY <1>1 DEF Attempt
<1>3. exec' = [exec EXCEPT ![w] = [exec[w] EXCEPT !.pc = pc,
                                                  !.status = status]]
  BY DEF TypeOK
<1>4. QED
  BY <1>2, <1>3 DEF TypeOK

LEMMA CountTyped ==
  ASSUME NEW n \in 0..MaxCount PROVE Count(n) \in 0..MaxCount
BY NotificationsAssumption DEF Count

(* A retry leaves a queue of natural numbers, and the faults in bounds.    *)
LEMMA RepublishTyped ==
  ASSUME TypeOK, NEW r \in 0..MaxRetries, Republish(r)
  PROVE  queue' \in [0..MaxRetries -> Nat] /\ faults' \in 0..MaxFaults
<1>1. CASE r < MaxRetries /\ queue' = [queue EXCEPT ![r + 1] = @ + 1]
           /\ UNCHANGED faults
  <2>1. r + 1 \in 0..MaxRetries
    BY <1>1, NotificationsAssumption
  <2>2. QED
    BY <1>1, <2>1 DEF TypeOK
<1>2. CASE r < MaxRetries /\ Fault /\ UNCHANGED queue
  BY <1>2, NotificationsAssumption DEF TypeOK, Fault
<1>3. CASE r = MaxRetries /\ UNCHANGED <<queue, faults>>
  BY <1>3 DEF TypeOK
<1>4. QED
  BY <1>1, <1>2, <1>3 DEF Republish

LEMMA FaultTyped ==
  ASSUME TypeOK, Fault PROVE faults' \in 0..MaxFaults
BY NotificationsAssumption DEF TypeOK, Fault

(* An attempt under way has a number of retries of the policy.             *)
LEMMA AttemptRetries ==
  ASSUME TypeOK, NEW w \in Slots, exec[w].pc # "idle"
  PROVE  /\ exec[w] \in Attempt
         /\ exec[w].retries \in 0..MaxRetries
         /\ exec[w].status \in Statuses
BY DEF TypeOK, Idle, Attempt

LEMMA InitTyped == Init => TypeOK
<1> SUFFICES ASSUME Init PROVE TypeOK
  OBVIOUS
<1>1. alert \in Alert /\ logs \in [Statuses -> Nat]
  BY DEF Init, Alert, Statuses
<1>2. queue \in [0..MaxRetries -> Nat]
  BY NotificationsAssumption DEF Init
<1>3. exec \in [Slots -> {Idle} \cup Attempt]
  BY DEF Init
<1>4. 0 \in 0..MaxEdits /\ 0 \in 0..MaxCrashes /\ 0 \in 0..MaxFaults
      /\ 0 \in 0..MaxCount
  BY NotificationsAssumption
<1>5. QED
  BY <1>1, <1>2, <1>3, <1>4 DEF Init, TypeOK

LEMMA TypeStep == TypeOK /\ [Next]_vars => TypeOK'
<1> SUFFICES ASSUME TypeOK, [Next]_vars PROVE TypeOK'
  OBVIOUS
<1> USE NotificationsAssumption
<1>1. ASSUME NEW w \in Slots, NEW r \in 0..MaxRetries, Take(w, r)
      PROVE  TypeOK'
  <2>1. [pc |-> "load", retries |-> r, alert |-> alert,
         status |-> "pending"] \in Attempt
    BY DEF TypeOK, Attempt, Statuses
  <2>2. exec' \in [Slots -> {Idle} \cup Attempt]
    BY <1>1, <2>1 DEF Take, TypeOK
  <2>3. queue' \in [0..MaxRetries -> Nat]
    BY <1>1 DEF Take, TypeOK
  <2>4. attempts' \in 0..MaxCount
    BY <1>1, CountTyped DEF Take, TypeOK
  <2>5. QED
    BY <1>1, <2>2, <2>3, <2>4 DEF Take, TypeOK
<1>2. ASSUME NEW w \in Slots, Load(w) PROVE TypeOK'
  <2>1. CASE Fault /\ Goto(w, "failure")
    <3>1. exec' \in [Slots -> {Idle} \cup Attempt]
      BY <1>2, <2>1, GotoTyped DEF Load
    <3>2. QED
      BY <1>2, <2>1, <3>1, FaultTyped DEF Load, TypeOK
  <2>2. CASE /\ exec' = [exec EXCEPT ![w].alert = alert,
                    ![w].pc = IF alert.exists THEN "insert" ELSE "ack"]
             /\ UNCHANGED faults
    <3>1. exec[w] \in Attempt
      BY <1>2, AttemptRetries DEF Load
    <3> DEFINE e == [exec[w] EXCEPT !.alert = alert,
                       !.pc = IF alert.exists THEN "insert" ELSE "ack"]
    <3>2. e \in Attempt
      BY <3>1 DEF Attempt, TypeOK
    <3>3. exec' = [exec EXCEPT ![w] = e]
      BY <2>2 DEF TypeOK
    <3> HIDE DEF e
    <3>4. exec' \in [Slots -> {Idle} \cup Attempt]
      BY <3>2, <3>3 DEF TypeOK
    <3>5. QED
      BY <1>2, <2>2, <3>4 DEF Load, TypeOK
  <2>3. QED
    BY <1>2, <2>1, <2>2 DEF Load
<1>3. ASSUME NEW w \in Slots, InsertLog(w) PROVE TypeOK'
  <2>1. PICK pc \in {"dispatch", "ack", "failure"} : Goto(w, pc)
    BY <1>3 DEF InsertLog, Goto
  <2>2. exec' \in [Slots -> {Idle} \cup Attempt]
    BY <1>3, <2>1, GotoTyped DEF InsertLog
  <2>3. faults' \in 0..MaxFaults
    BY <1>3, FaultTyped DEF InsertLog, TypeOK
  <2>4. QED
    BY <1>3, <2>2, <2>3 DEF InsertLog, TypeOK
<1>4. ASSUME NEW w \in Slots, DispatchChannel(w) PROVE TypeOK'
  <2>1. Goto(w, "failure") => exec' \in [Slots -> {Idle} \cup Attempt]
    BY <1>4, GotoTyped DEF DispatchChannel
  <2>2. ASSUME NEW pc \in {"commit", "timeout"}, NEW status \in Statuses,
               exec' = [exec EXCEPT ![w].pc = pc, ![w].status = status]
        PROVE  exec' \in [Slots -> {Idle} \cup Attempt]
    BY <1>4, <2>2, StatusTyped DEF DispatchChannel
  <2>3. \/ Goto(w, "failure")
        \/ \E pc \in {"commit", "timeout"}, status \in Statuses :
             exec' = [exec EXCEPT ![w].pc = pc, ![w].status = status]
    BY <1>4 DEF DispatchChannel, Confirmed, Failed, Statuses
  <2>4. exec' \in [Slots -> {Idle} \cup Attempt]
    BY <2>1, <2>2, <2>3
  <2>5. timeouts' \in 0..MaxCount /\ delivered' \in Nat
    BY <1>4, CountTyped DEF DispatchChannel, Confirmed, Failed, TypeOK
  <2>6. QED
    BY <1>4, <2>4, <2>5 DEF DispatchChannel, TypeOK
<1>5. ASSUME NEW w \in Slots, CommitLog(w) PROVE TypeOK'
  <2>1. PICK pc \in {"retry", "ack", "failure"} : Goto(w, pc)
    BY <1>5 DEF CommitLog, Goto
  <2>2. exec' \in [Slots -> {Idle} \cup Attempt]
    BY <1>5, <2>1, GotoTyped DEF CommitLog
  <2>3. exec[w].status \in Statuses
    BY <1>5, AttemptRetries DEF CommitLog
  <2>4. logs' \in [Statuses -> Nat] /\ unlogged' \in Nat
    BY <1>5, <2>3 DEF CommitLog, Forgotten, TypeOK
  <2>5. faults' \in 0..MaxFaults
    BY <1>5, FaultTyped DEF CommitLog, TypeOK
  <2>6. QED
    BY <1>5, <2>2, <2>4, <2>5 DEF CommitLog, TypeOK
<1>6. ASSUME NEW w \in Slots, RetryWebhook(w) \/ HandleTaskFailure(w)
      PROVE  TypeOK'
  <2>1. PICK pc \in {"failure", "ack"} : Goto(w, pc)
    BY <1>6 DEF RetryWebhook, HandleTaskFailure
  <2>2. exec[w].pc # "idle" /\ Republish(exec[w].retries)
    BY <1>6 DEF RetryWebhook, HandleTaskFailure
  <2>3. exec' \in [Slots -> {Idle} \cup Attempt]
    BY <2>1, <2>2, GotoTyped
  <2>4. queue' \in [0..MaxRetries -> Nat] /\ faults' \in 0..MaxFaults
    BY <2>2, AttemptRetries, RepublishTyped
  <2>5. QED
    BY <1>6, <2>3, <2>4 DEF RetryWebhook, HandleTaskFailure, TypeOK
<1>7. ASSUME NEW w \in Slots, Ack(w) PROVE TypeOK'
  BY <1>7 DEF Ack, TypeOK
<1>8. ASSUME NEW w \in Slots, Crash(w) PROVE TypeOK'
  <2>1. exec[w].retries \in 0..MaxRetries
    BY <1>8, AttemptRetries DEF Crash
  <2>2. queue' \in [0..MaxRetries -> Nat]
    BY <1>8, <2>1 DEF Crash, TypeOK
  <2>3. exec' \in [Slots -> {Idle} \cup Attempt]
    BY <1>8 DEF Crash, TypeOK
  <2>4. crashes' \in 0..MaxCrashes /\ unlogged' \in Nat
    BY <1>8 DEF Crash, Forgotten, TypeOK
  <2>5. QED
    BY <1>8, <2>2, <2>3, <2>4 DEF Crash, TypeOK
<1>9. CASE UpdateAlert
  <2>1. alert' \in Alert
    BY <1>9 DEF UpdateAlert, TypeOK, Alert
  <2>1a. edits' \in 0..MaxEdits
    BY <1>9 DEF UpdateAlert, TypeOK
  <2>2. QED
    BY <1>9, <2>1, <2>1a DEF UpdateAlert, TypeOK
<1>10. CASE DeleteAlert
  <2>1. alert' \in Alert
    BY <1>10 DEF DeleteAlert, TypeOK, Alert
  <2>1a. edits' \in 0..MaxEdits
    BY <1>10 DEF DeleteAlert, TypeOK
  <2>2. logs' \in [Statuses -> Nat]
    BY <1>10 DEF DeleteAlert
  <2>3. QED
    BY <1>10, <2>1, <2>1a, <2>2 DEF DeleteAlert, TypeOK
<1>11. CASE UNCHANGED vars
  BY <1>11 DEF vars, TypeOK
<1>12. QED
  BY <1>1, <1>2, <1>3, <1>4, <1>5, <1>6, <1>7, <1>8, <1>9, <1>10, <1>11
     DEF Next, Work

(* Every variable stays in its set: in particular no queue goes below      *)
(* zero, and an attempt never has more retries than the policy allows.     *)
THEOREM TypeCorrect == Spec => []TypeOK
BY InitTyped, TypeStep, PTL DEF Spec
-----------------------------------------------------------------------------
(* The log.                                                                *)

(* Inductive: whoever is about to commit a row knows how its delivery      *)
(* ended, and a timed out webhook is logged as failed.                     *)
Settled ==
  \A w \in Slots :
    /\ exec[w].pc = "commit" => exec[w].status \in {"sent", "failed"}
    /\ exec[w].pc = "timeout" => exec[w].status = "failed"

(* The slots that are about to commit a confirmed delivery.                *)
Sending == {w \in Slots : exec[w].pc = "commit" /\ exec[w].status = "sent"}

(* A step of one slot leaves the others where they are.                    *)
LEMMA SlotAlone ==
  ASSUME TypeOK, NEW w \in Slots, Work(w) \/ Crash(w)
  PROVE  \A u \in Slots \ {w} : exec'[u] = exec[u]
BY DEF TypeOK, Work, Take, Load, InsertLog, DispatchChannel, Confirmed, Failed,
       CommitLog, RetryWebhook, HandleTaskFailure, Ack, Crash, Goto

LEMMA SettledStep == TypeOK /\ Settled /\ [Next]_vars => Settled'
<1> SUFFICES ASSUME TypeOK, Settled, [Next]_vars PROVE Settled'
  OBVIOUS
<1>1. ASSUME NEW w \in Slots, Work(w) \/ Crash(w) PROVE Settled'
  <2>1. /\ exec'[w].pc = "commit" => exec'[w].status \in {"sent", "failed"}
        /\ exec'[w].pc = "timeout" => exec'[w].status = "failed"
    <3>1. exec[w].pc # "idle" => exec[w] \in Attempt
      BY AttemptRetries
    <3>2. QED
      BY <1>1, <3>1 DEF TypeOK, Attempt, Idle, Work, Take, Load, InsertLog,
         DispatchChannel, Confirmed, Failed, CommitLog, RetryWebhook,
         HandleTaskFailure, Ack, Crash, Goto
  <2>2. QED
    BY <1>1, <2>1, SlotAlone DEF Settled
<1>2. CASE UpdateAlert \/ DeleteAlert \/ UNCHANGED vars
  BY <1>2 DEF UpdateAlert, DeleteAlert, vars, Settled
<1>3. QED
  BY <1>1, <1>2 DEF Next

(* A row says pending only between flush and commit: an unsettled pending  *)
(* row is never committed.                                                 *)
THEOREM NonePending == Spec => []NothingLeftPending
<1> DEFINE Inv == TypeOK /\ Settled /\ NothingLeftPending
<1>1. Init => Inv
  <2>1. Init => Settled /\ NothingLeftPending
    BY DEF Init, Settled, NothingLeftPending, Idle, Statuses
  <2>2. QED
    BY <2>1, InitTyped
<1>2. Inv /\ [Next]_vars => Inv'
  <2> SUFFICES ASSUME Inv, [Next]_vars PROVE NothingLeftPending'
    BY TypeStep, SettledStep
  <2>1. ASSUME NEW w \in Slots, CommitLog(w) PROVE NothingLeftPending'
    <3>1. exec[w].status # "pending"
      BY <2>1 DEF CommitLog, Settled
    <3>2. QED
      BY <2>1, <3>1 DEF CommitLog, TypeOK, Statuses, NothingLeftPending
  <2>2. CASE DeleteAlert
    BY <2>2 DEF DeleteAlert, NothingLeftPending, Statuses
  <2>3. CASE UNCHANGED logs
    BY <2>3 DEF NothingLeftPending
  <2>4. QED
    BY <2>1, <2>2, <2>3 DEF Next, Work, Take, Load, InsertLog,
       DispatchChannel, RetryWebhook, HandleTaskFailure, Ack, Crash,
       UpdateAlert, vars
<1>3. QED
  BY <1>1, <1>2, PTL DEF Spec

(* Two finite sets that differ in w at most.                               *)
LEMMA OneApart ==
  ASSUME NEW S, NEW T, IsFiniteSet(S), IsFiniteSet(T), NEW w,
         S \ {w} = T \ {w}
  PROVE  /\ Cardinality(S) \in Nat /\ Cardinality(T) \in Nat
         /\ (w \in S <=> w \in T) => Cardinality(T) = Cardinality(S)
         /\ w \in S /\ w \notin T => Cardinality(T) = Cardinality(S) - 1
         /\ w \notin S /\ w \in T => Cardinality(T) = Cardinality(S) + 1
<1>1. Cardinality(S) \in Nat /\ Cardinality(T) \in Nat
  BY FS_CardinalityType
<1>2. (w \in S <=> w \in T) => S = T
  OBVIOUS
<1>3. ASSUME w \in S, w \notin T PROVE Cardinality(T) = Cardinality(S) - 1
  <2>1. T = S \ {w}
    BY <1>3
  <2>2. QED
    BY <1>3, <2>1, FS_RemoveElement
<1>4. ASSUME w \notin S, w \in T PROVE Cardinality(T) = Cardinality(S) + 1
  <2>1. T = S \cup {w}
    BY <1>4
  <2>2. QED
    BY <1>4, <2>1, FS_AddElement
<1>5. QED
  BY <1>1, <1>2, <1>3, <1>4

(* What a step of a slot does to the rows that are about to say sent.      *)
LEMMA SendingMoves ==
  ASSUME TypeOK, NEW w \in Slots, Work(w) \/ Crash(w)
  PROVE  /\ Cardinality(Sending) \in Nat /\ Cardinality(Sending') \in Nat
         /\ (w \in Sending <=> w \in Sending') =>
              Cardinality(Sending') = Cardinality(Sending)
         /\ w \in Sending /\ w \notin Sending' =>
              Cardinality(Sending') = Cardinality(Sending) - 1
         /\ w \notin Sending /\ w \in Sending' =>
              Cardinality(Sending') = Cardinality(Sending) + 1
<1>1. Sending \subseteq Slots /\ Sending' \subseteq Slots
  BY DEF Sending
<1>2. IsFiniteSet(Sending) /\ IsFiniteSet(Sending')
  BY <1>1, FS_Subset, NotificationsAssumption
<1>3. \A u \in Slots \ {w} : u \in Sending <=> u \in Sending'
  BY SlotAlone DEF Sending
<1>4. Sending \ {w} = Sending' \ {w}
  BY <1>1, <1>3
<1>5. QED
  BY <1>2, <1>4, OneApart

(* The rows that say sent are exactly the deliveries a channel confirmed,  *)
(* but for the confirmed ones whose row a failed commit or a dead worker   *)
(* took away: whatever the slots do between each other's steps.            *)
THEOREM LogTellsTheTruth == Spec => []SentIsDelivered
<1> DEFINE Inv == TypeOK /\ Settled /\ SentIsDelivered
<1>1. Init => Inv
  <2> SUFFICES ASSUME Init PROVE Settled /\ SentIsDelivered
    BY InitTyped
  <2>1. Sending = {}
    BY DEF Init, Sending, Idle
  <2>2. Cardinality(Sending) = 0
    BY <2>1, FS_EmptySet
  <2>3. logs["sent"] = 0 /\ delivered = 0 /\ unlogged = 0
    BY DEF Init, Statuses
  <2>4. SentIsDelivered
    BY <2>2, <2>3 DEF SentIsDelivered, Sending
  <2>5. Settled
    BY DEF Init, Settled, Idle
  <2>6. QED
    BY <2>4, <2>5
<1>2. Inv /\ [Next]_vars => Inv'
  <2> SUFFICES ASSUME Inv, [Next]_vars PROVE SentIsDelivered'
    BY TypeStep, SettledStep
  <2>1. delivered - unlogged = logs["sent"] + Cardinality(Sending)
    BY DEF SentIsDelivered, Sending
  <2> DEFINE Goal == delivered' - unlogged' =
                       logs'["sent"] + Cardinality(Sending')
  <2>2. SUFFICES Goal
    BY DEF SentIsDelivered, Sending
  <2>3. /\ logs \in [Statuses -> Nat] /\ logs["sent"] \in Nat
        /\ delivered \in Nat /\ unlogged \in Nat
    BY DEF TypeOK, Statuses
  <2>4. ASSUME NEW w \in Slots,
               \/ \E r \in 0..MaxRetries : Take(w, r)
               \/ Load(w) \/ InsertLog(w) \/ RetryWebhook(w)
               \/ HandleTaskFailure(w) \/ Ack(w)
        PROVE  Goal
    <3>1. exec[w] \notin Attempt => exec[w].pc = "idle"
      BY DEF TypeOK, Idle
    <3>2. w \notin Sending /\ w \notin Sending'
      BY <2>4, <3>1 DEF Sending, Take, Load, InsertLog, RetryWebhook,
         HandleTaskFailure, Ack, Goto, TypeOK, Attempt, Idle
    <3>3. Cardinality(Sending') = Cardinality(Sending)
      BY <2>4, <3>2, SendingMoves DEF Work
    <3>4. UNCHANGED <<logs, delivered, unlogged>>
      BY <2>4 DEF Take, Load, InsertLog, RetryWebhook, HandleTaskFailure, Ack
    <3>5. QED
      BY <2>1, <2>3, <3>3, <3>4
  <2>5. ASSUME NEW w \in Slots, DispatchChannel(w) PROVE Goal
    <3>1. exec[w] \in Attempt
      BY <2>5, AttemptRetries DEF DispatchChannel
    <3>2. w \notin Sending
      BY <2>5 DEF DispatchChannel, Sending
    <3>3. CASE Confirmed(w)
      <4>1. w \in Sending'
        BY <3>1, <3>3 DEF Confirmed, Sending, TypeOK, Attempt
      <4>2. Cardinality(Sending') = Cardinality(Sending) + 1
        BY <2>5, <3>2, <4>1, SendingMoves DEF Work
      <4>3. delivered' = delivered + 1 /\ UNCHANGED <<logs, unlogged>>
        BY <2>5, <3>3 DEF Confirmed, DispatchChannel
      <4>4. Cardinality(Sending) \in Nat
        BY <2>5, SendingMoves DEF Work
      <4>5. QED
        BY <2>1, <2>3, <4>2, <4>3, <4>4
    <3>4. CASE /\ exec'[w].status = "failed" \/ exec'[w].pc = "failure"
               /\ UNCHANGED delivered
      <4>1. w \notin Sending'
        BY <3>4 DEF Sending
      <4>2. Cardinality(Sending') = Cardinality(Sending)
        BY <2>5, <3>2, <4>1, SendingMoves DEF Work
      <4>3. QED
        BY <2>1, <2>5, <3>4, <4>2 DEF DispatchChannel
    <3>5. \/ Confirmed(w)
          \/ /\ exec'[w].status = "failed" \/ exec'[w].pc = "failure"
             /\ UNCHANGED delivered
      <4>1. CASE Failed(w)
        BY <3>1, <4>1 DEF Failed, TypeOK, Attempt
      <4>2. CASE /\ exec' = [exec EXCEPT ![w].pc = "timeout",
                                         ![w].status = "failed"]
                 /\ UNCHANGED delivered
        BY <3>1, <4>2 DEF TypeOK, Attempt
      <4>3. CASE Goto(w, "failure") /\ UNCHANGED delivered
        BY <3>1, <4>3 DEF Goto, TypeOK, Attempt
      <4>4. QED
        BY <2>5, <4>1, <4>2, <4>3 DEF DispatchChannel
    <3>6. QED
      BY <3>3, <3>4, <3>5
  <2>6. ASSUME NEW w \in Slots, CommitLog(w) PROVE Goal
    <3>1. exec[w] \in Attempt /\ exec[w].status \in Statuses
      BY <2>6, AttemptRetries DEF CommitLog
    <3>2. w \notin Sending'
      BY <2>6, <3>1 DEF CommitLog, Goto, Sending, TypeOK, Attempt
    <3>3. w \in Sending <=> exec[w].status = "sent"
      BY <2>6 DEF CommitLog, Sending, Settled
    <3>4. CASE logs' = [logs EXCEPT ![exec[w].status] = @ + 1]
               /\ UNCHANGED unlogged
      <4>1. logs'["sent"] = IF w \in Sending THEN logs["sent"] + 1
                                             ELSE logs["sent"]
        BY <2>3, <3>1, <3>3, <3>4 DEF Statuses
      <4>2. Cardinality(Sending) \in Nat /\ Cardinality(Sending') =
              IF w \in Sending THEN Cardinality(Sending) - 1
                               ELSE Cardinality(Sending)
        BY <2>6, <3>2, SendingMoves DEF Work
      <4>3. QED
        BY <2>1, <2>3, <2>6, <3>4, <4>1, <4>2 DEF CommitLog
    <3>5. CASE Forgotten(w) /\ UNCHANGED logs
      <4>1. unlogged' = IF w \in Sending THEN unlogged + 1 ELSE unlogged
        BY <3>5 DEF Forgotten, Sending
      <4>2. Cardinality(Sending) \in Nat /\ Cardinality(Sending') =
              IF w \in Sending THEN Cardinality(Sending) - 1
                               ELSE Cardinality(Sending)
        BY <2>6, <3>2, SendingMoves DEF Work
      <4>3. QED
        BY <2>1, <2>3, <2>6, <3>5, <4>1, <4>2 DEF CommitLog
    <3>6. QED
      BY <2>6, <3>4, <3>5 DEF CommitLog
  <2>7. ASSUME NEW w \in Slots, Crash(w) PROVE Goal
    <3>1. w \notin Sending'
      BY <2>7 DEF Crash, Sending, TypeOK, Idle
    <3>2. unlogged' = IF w \in Sending THEN unlogged + 1 ELSE unlogged
      BY <2>7 DEF Crash, Forgotten, Sending
    <3>3. Cardinality(Sending) \in Nat /\ Cardinality(Sending') =
            IF w \in Sending THEN Cardinality(Sending) - 1
                             ELSE Cardinality(Sending)
      BY <2>7, <3>1, SendingMoves
    <3>4. QED
      BY <2>1, <2>3, <2>7, <3>2, <3>3 DEF Crash
  <2>8. CASE DeleteAlert
    <3>1. Sending' = {}
      BY <2>8 DEF DeleteAlert, Sending
    <3>2. Cardinality(Sending') = 0
      BY <3>1, FS_EmptySet
    <3>3. QED
      BY <2>8, <3>2 DEF DeleteAlert, Statuses
  <2>9. CASE UpdateAlert \/ UNCHANGED vars
    <3>1. Sending' = Sending
      BY <2>9 DEF UpdateAlert, vars, Sending
    <3>2. QED
      BY <2>1, <2>9, <3>1 DEF UpdateAlert, vars
  <2>10. QED
    BY <2>4, <2>5, <2>6, <2>7, <2>8, <2>9 DEF Next, Work
<1>3. QED
  BY <1>1, <1>2, PTL DEF Spec
-----------------------------------------------------------------------------
(* The attempts.  Every message is a bundle of tokens, one of which pays   *)
(* for each time it is taken: K[r] has those of a message with r retries.  *)
(* Taking it spends one, and what is left covers n bundles of the next     *)
(* level, one for each time the attempt may still publish.                 *)

Bundles(K, n) ==
  /\ n \in {1, 2}
  /\ \A r \in 0..MaxRetries + 1 :
       IsFiniteSet(K[r]) /\ Cardinality(K[r]) <= Cardinality(K[0])
  /\ \A r \in 0..MaxRetries :
       n * Cardinality(K[r + 1]) + 1 <= Cardinality(K[r])

Block(K, kind, a, b, r) == {<<kind, a, b, k>> : k \in K[r]}

Busy == {"load", "insert", "dispatch", "commit", "timeout", "retry"}

(* How often a slot may still publish its message.                         *)
Held(w, n) == IF exec[w].pc \in Busy THEN n
                ELSE IF exec[w].pc = "failure" THEN 1 ELSE 0

Made       == {<<"made", i, 0, 0>> : i \in 1..attempts}
Waiting(K) == UNION {UNION {Block(K, "waiting", r, i, r) : i \in 1..queue[r]}
                       : r \in 0..MaxRetries}
Running(K, n) ==
  UNION {UNION {Block(K, "running", w, i, exec[w].retries + 1)
                  : i \in 1..Held(w, n)} : w \in Slots}

Tokens(K, n) == Made \cup Waiting(K) \cup Running(K, n)

(* A crash may have one message delivered again, with all its retries.     *)
Budgeted(K, n) ==
  /\ IsFiniteSet(Tokens(K, n))
  /\ Cardinality(Tokens(K, n)) <= Cardinality(K[0]) * (Notices + crashes)

LEMMA BlockSize ==
  ASSUME NEW K, NEW kind, NEW a, NEW b, NEW r, IsFiniteSet(K[r])
  PROVE  /\ IsFiniteSet(Block(K, kind, a, b, r))
         /\ Cardinality(Block(K, kind, a, b, r)) = Cardinality(K[r])
<1> DEFINE B == Block(K, kind, a, b, r)
           f == [k \in K[r] |-> <<kind, a, b, k>>]
<1>1. f \in Bijection(K[r], B)
  BY DEF Block, Bijection, Injection, IsInjective, Surjection
<1>2. ExistsBijection(K[r], B)
  BY <1>1 DEF ExistsBijection
<1>3. QED
  BY <1>2, FS_Bijection

(* Some elements are exchanged for others.                                 *)
LEMMA Exchange ==
  ASSUME NEW S, NEW T, NEW old, NEW new, NEW extra \in Nat,
         IsFiniteSet(S), IsFiniteSet(new), old \subseteq S,
         T \subseteq (S \ old) \cup new,
         Cardinality(new) <= Cardinality(old) + extra
  PROVE  IsFiniteSet(T) /\ Cardinality(T) <= Cardinality(S) + extra
<1> DEFINE rest == S \ old
<1>1. /\ IsFiniteSet(old) /\ IsFiniteSet(rest) /\ S \cap old = old
      /\ Cardinality(rest) = Cardinality(S) - Cardinality(S \cap old)
  BY FS_Subset, FS_Difference
<1>2. /\ IsFiniteSet(rest \cup new) /\ IsFiniteSet(rest \cap new)
      /\ Cardinality(rest \cup new) = Cardinality(rest) + Cardinality(new)
                                        - Cardinality(rest \cap new)
  BY <1>1, FS_Union, FS_Intersection
<1>3. IsFiniteSet(T) /\ Cardinality(T) <= Cardinality(rest \cup new)
  BY <1>2, FS_Subset
<1>4. /\ Cardinality(S) \in Nat /\ Cardinality(old) \in Nat
      /\ Cardinality(rest) \in Nat /\ Cardinality(new) \in Nat
      /\ Cardinality(rest \cap new) \in Nat
      /\ Cardinality(rest \cup new) \in Nat /\ Cardinality(T) \in Nat
  BY <1>1, <1>2, <1>3, FS_CardinalityType
<1>5. Cardinality(rest) = Cardinality(S) - Cardinality(old)
  BY <1>1
<1> HIDE DEF rest
<1>6. QED
  BY <1>2, <1>3, <1>4, <1>5

LEMMA InWaiting ==
  ASSUME NEW K, NEW x
  PROVE  x \in Waiting(K) <=>
           \E r \in 0..MaxRetries : \E i \in 1..queue[r] :
             x \in Block(K, "waiting", r, i, r)
BY DEF Waiting

LEMMA InRunning ==
  ASSUME NEW K, NEW n, NEW x
  PROVE  x \in Running(K, n) <=>
           \E w \in Slots : \E i \in 1..Held(w, n) :
             x \in Block(K, "running", w, i, exec[w].retries + 1)
BY DEF Running

(* A token tells which bundle it is from.                                  *)
LEMMA FromBlock ==
  ASSUME NEW K, NEW kind, NEW a, NEW b, NEW r, NEW x \in Block(K, kind, a, b, r)
  PROVE  x[1] = kind /\ x[2] = a /\ x[3] = b
BY DEF Block

LEMMA Kinds ==
  ASSUME NEW K, NEW n
  PROVE  /\ \A kind, a, b, r : \A x \in Block(K, kind, a, b, r) :
              x[1] = kind /\ x[2] = a /\ x[3] = b
         /\ \A x \in Made : x[1] = "made"
         /\ \A x \in Waiting(K) : x[1] = "waiting"
         /\ \A x \in Running(K, n) : x[1] = "running"
<1>1. \A kind, a, b, r : \A x \in Block(K, kind, a, b, r) :
        x[1] = kind /\ x[2] = a /\ x[3] = b
  BY FromBlock
<1>2. \A x \in Made : x[1] = "made"
  BY DEF Made
<1>3. \A x \in Waiting(K) : x[1] = "waiting"
  BY <1>1, InWaiting
<1>4. \A x \in Running(K, n) : x[1] = "running"
  BY <1>1, InRunning
<1>5. QED
  BY <1>1, <1>2, <1>3, <1>4

(* A message more of level r is a bundle more.                             *)
LEMMA WaitingMore ==
  ASSUME TypeOK, NEW K, NEW r \in 0..MaxRetries,
         \A q \in 0..MaxRetries :
           queue'[q] = IF q = r THEN queue[q] + 1 ELSE queue[q]
  PROVE  Waiting(K)' \subseteq
           Waiting(K) \cup Block(K, "waiting", r, queue[r] + 1, r)
<1>1. \A q \in 0..MaxRetries : queue[q] \in Nat
  BY DEF TypeOK
<1>2. ASSUME NEW x \in Waiting(K)'
      PROVE  x \in Waiting(K) \cup Block(K, "waiting", r, queue[r] + 1, r)
  <2>1. PICK q \in 0..MaxRetries, i \in Nat :
          i \in 1..queue'[q] /\ x \in Block(K, "waiting", q, i, q)
    BY <1>2 DEF Waiting
  <2>2. i \in 1..queue[q] \/ (q = r /\ i = queue[r] + 1)
    BY <1>1, <2>1
  <2>3. QED
    BY <2>1, <2>2, InWaiting
<1>3. QED
  BY <1>2

(* One less, a bundle less.                                                *)
LEMMA WaitingLess ==
  ASSUME TypeOK, NEW K, NEW r \in 0..MaxRetries, queue[r] > 0,
         \A q \in 0..MaxRetries :
           queue'[q] = IF q = r THEN queue[q] - 1 ELSE queue[q]
  PROVE  /\ Waiting(K)' \subseteq
              Waiting(K) \ Block(K, "waiting", r, queue[r], r)
         /\ Block(K, "waiting", r, queue[r], r) \subseteq Waiting(K)
<1>1. \A q \in 0..MaxRetries : queue[q] \in Nat
  BY DEF TypeOK
<1>2. ASSUME NEW x \in Waiting(K)'
      PROVE  x \in Waiting(K) \ Block(K, "waiting", r, queue[r], r)
  <2>1. PICK q \in 0..MaxRetries, i \in Nat :
          i \in 1..queue'[q] /\ x \in Block(K, "waiting", q, i, q)
    BY <1>2 DEF Waiting
  <2>2. i \in 1..queue[q] /\ ~(q = r /\ i = queue[r])
    BY <1>1, <2>1
  <2>3. x \in Waiting(K)
    BY <2>1, <2>2, InWaiting
  <2>4. x \notin Block(K, "waiting", r, queue[r], r)
    BY <2>1, <2>2, Kinds
  <2>5. QED
    BY <2>3, <2>4
<1>3. queue[r] \in 1..queue[r]
  BY <1>1
<1>4. QED
  BY <1>2, <1>3, InWaiting

(* Slots that give up publications hold no token more.                     *)
LEMMA RunningLess ==
  ASSUME NEW K, NEW n \in {1, 2},
         \A w \in Slots :
           Held(w, n)' > 0 => /\ Held(w, n)' <= Held(w, n)
                              /\ exec'[w].retries = exec[w].retries
  PROVE  Running(K, n)' \subseteq Running(K, n)
<1>1. ASSUME NEW x \in Running(K, n)' PROVE x \in Running(K, n)
  <2>1. PICK w \in Slots, i \in Nat :
          /\ i \in 1..Held(w, n)'
          /\ x \in Block(K, "running", w, i, exec'[w].retries + 1)
    BY <1>1 DEF Running
  <2>2. Held(w, n) \in Nat /\ Held(w, n)' \in Nat
    BY DEF Held
  <2>3. i \in 1..Held(w, n) /\ exec'[w].retries = exec[w].retries
    BY <2>1, <2>2
  <2>4. QED
    BY <2>1, <2>3, InRunning
<1>2. QED
  BY <1>1

(* The other slots keep what they hold.                                    *)
LEMMA HeldAlone ==
  ASSUME TypeOK, NEW n, NEW w \in Slots, Work(w) \/ Crash(w)
  PROVE  \A u \in Slots \ {w} : /\ Held(u, n)' = Held(u, n)
                                /\ exec'[u].retries = exec[u].retries
BY SlotAlone DEF Held

(* A publication spends a bundle that the slot holds.                      *)
LEMMA Published ==
  ASSUME TypeOK, NEW K, NEW n \in {1, 2}, Bundles(K, n), NEW w0 \in Slots,
         RetryWebhook(w0) \/ HandleTaskFailure(w0),
         Held(w0, n)' = Held(w0, n) - 1, Held(w0, n) >= 1,
         exec[w0].retries < MaxRetries,
         queue' = [queue EXCEPT ![exec[w0].retries + 1] = @ + 1]
  PROVE  \E old, new :
           /\ IsFiniteSet(new) /\ Cardinality(new) <= Cardinality(old)
           /\ old \subseteq Tokens(K, n)
           /\ Tokens(K, n)' \subseteq (Tokens(K, n) \ old) \cup new
<1> DEFINE r == exec[w0].retries + 1
           h == Held(w0, n)
           old == Block(K, "running", w0, h, r)
           new == Block(K, "waiting", r, queue[r] + 1, r)
<1>1. /\ exec[w0].retries \in 0..MaxRetries /\ h \in Nat
      /\ exec'[w0].retries = exec[w0].retries
  BY AttemptRetries
     DEF RetryWebhook, HandleTaskFailure, Goto, TypeOK, Attempt, Held
<1>2. r \in 0..MaxRetries /\ r \in 0..MaxRetries + 1
  BY <1>1, NotificationsAssumption
<1>3. \A q \in 0..MaxRetries :
        queue'[q] = IF q = r THEN queue[q] + 1 ELSE queue[q]
  BY <1>2 DEF TypeOK
<1> HIDE DEF h
<1>4. Waiting(K)' \subseteq Waiting(K) \cup new
  <2> HIDE DEF r
  <2>1. QED
    BY <1>2, <1>3, WaitingMore
<1>5. /\ IsFiniteSet(K[r]) /\ IsFiniteSet(new)
      /\ Cardinality(new) = Cardinality(old) /\ Cardinality(new) \in Nat
  BY <1>2, BlockSize, FS_CardinalityType DEF Bundles
<1>6. h \in 1..h
  BY <1>1 DEF h
<1>7. old \subseteq Running(K, n)
  BY <1>6, InRunning DEF h
<1>8. ASSUME NEW x \in Running(K, n)' PROVE x \in Running(K, n) /\ x \notin old
  <2>1. PICK w \in Slots, i \in Nat :
          /\ i \in 1..Held(w, n)'
          /\ x \in Block(K, "running", w, i, exec'[w].retries + 1)
    BY <1>8 DEF Running
  <2>2. x[2] = w /\ x[3] = i
    BY <2>1, FromBlock
  <2>3. \A y \in old : y[2] = w0 /\ y[3] = h
    BY Kinds
  <2>4. CASE w = w0
    <3>1. Held(w, n)' = h - 1 /\ Held(w, n) = h
      BY <2>4 DEF h
    <3>2. i \in 1..Held(w, n) /\ i # h
      BY <1>1, <2>1, <3>1
    <3>3. exec'[w].retries = exec[w].retries
      BY <1>1, <2>4
    <3>4. x \in Running(K, n)
      BY <2>1, <3>2, <3>3, InRunning
    <3>5. QED
      BY <2>2, <2>3, <3>2, <3>4
  <2>5. CASE w # w0
    <3>1. Held(w, n)' = Held(w, n) /\ exec'[w].retries = exec[w].retries
      BY <2>5, HeldAlone DEF Work
    <3>2. x \in Running(K, n)
      BY <2>1, <3>1, InRunning
    <3>3. QED
      BY <2>2, <2>3, <2>5, <3>2
  <2>6. QED
    BY <2>4, <2>5
<1>9. Made' = Made
  BY DEF Made, RetryWebhook, HandleTaskFailure
<1>10. \A x \in Made \cup Waiting(K) : x \notin old
  BY Kinds
<1> HIDE DEF old, new
<1>11. Tokens(K, n)' \subseteq (Tokens(K, n) \ old) \cup new
  BY <1>4, <1>8, <1>9, <1>10 DEF Tokens
<1>12. old \subseteq Tokens(K, n)
  BY <1>7 DEF Tokens
<1>13. Cardinality(new) <= Cardinality(old)
  BY <1>5
<1>14. QED
  BY <1>5, <1>11, <1>12, <1>13

(* A delivery spends the bundle of the message.                            *)
LEMMA Taken ==
  ASSUME TypeOK, NEW K, NEW n \in {1, 2}, Bundles(K, n), NEW w0 \in Slots,
         NEW r \in 0..MaxRetries, Take(w0, r)
  PROVE  \E old, new :
           /\ IsFiniteSet(new) /\ Cardinality(new) <= Cardinality(old)
           /\ old \subseteq Tokens(K, n)
           /\ Tokens(K, n)' \subseteq (Tokens(K, n) \ old) \cup new
<1> DEFINE old == Block(K, "waiting", r, queue[r], r)
           one == Block(K, "running", w0, 1, r + 1)
           two == IF n = 2 THEN Block(K, "running", w0, 2, r + 1) ELSE {}
           made == {<<"made", attempts + 1, 0, 0>>}
           new == one \cup two \cup made
<1>1. /\ queue[r] > 0
      /\ \A q \in 0..MaxRetries :
           queue'[q] = IF q = r THEN queue[q] - 1 ELSE queue[q]
      /\ attempts \in Nat /\ attempts' \in {attempts, attempts + 1}
      /\ exec'[w0].pc = "load" /\ exec'[w0].retries = r
  BY DEF Take, Count, TypeOK
<1>2. Waiting(K)' \subseteq Waiting(K) \ old /\ old \subseteq Waiting(K)
  BY <1>1, WaitingLess
<1>3. Made' \subseteq Made \cup made
  BY <1>1 DEF Made
<1>4. Held(w0, n)' = n
  BY <1>1 DEF Held, Busy
<1>5. ASSUME NEW x \in Running(K, n)' PROVE x \in Running(K, n) \cup one \cup two
  <2>1. PICK w \in Slots, i \in Nat :
          /\ i \in 1..Held(w, n)'
          /\ x \in Block(K, "running", w, i, exec'[w].retries + 1)
    BY <1>5 DEF Running
  <2>2. CASE w = w0
    <3>1. i = 1 \/ (i = 2 /\ n = 2)
      BY <1>4, <2>1, <2>2
    <3>2. QED
      BY <1>1, <2>1, <2>2, <3>1
  <2>3. CASE w # w0
    <3>1. Held(w, n)' = Held(w, n) /\ exec'[w].retries = exec[w].retries
      BY <2>3, HeldAlone DEF Work
    <3>2. QED
      BY <2>1, <3>1, InRunning
  <2>4. QED
    BY <2>2, <2>3
<1>6. /\ r + 1 \in 0..MaxRetries + 1 /\ r \in 0..MaxRetries + 1
      /\ MaxRetries \in Nat
  BY NotificationsAssumption
<1>7. /\ IsFiniteSet(K[r]) /\ IsFiniteSet(K[r + 1])
      /\ n * Cardinality(K[r + 1]) + 1 <= Cardinality(K[r])
  BY <1>6 DEF Bundles
<1>8a. Cardinality(K[r]) \in Nat /\ Cardinality(K[r + 1]) \in Nat
  BY <1>7, FS_CardinalityType
<1>8b. Cardinality(old) = Cardinality(K[r])
  BY <1>7, BlockSize
<1>8c. IsFiniteSet(one) /\ Cardinality(one) = Cardinality(K[r + 1])
  BY <1>7, BlockSize
<1>8d. /\ IsFiniteSet(two)
       /\ Cardinality(two) = IF n = 2 THEN Cardinality(K[r + 1]) ELSE 0
  BY <1>7, BlockSize, FS_EmptySet
<1>8e. IsFiniteSet(made) /\ Cardinality(made) = 1
  BY FS_Singleton
<1> HIDE DEF old, one, two, made
<1>9. /\ IsFiniteSet(one \cup two)
      /\ Cardinality(one \cup two) =
           Cardinality(one) + Cardinality(two) - Cardinality(one \cap two)
      /\ IsFiniteSet(new)
      /\ Cardinality(new) = Cardinality(one \cup two) + Cardinality(made)
                              - Cardinality((one \cup two) \cap made)
  BY <1>8c, <1>8d, <1>8e, FS_Union
<1>10. /\ Cardinality(one \cap two) \in Nat
       /\ Cardinality((one \cup two) \cap made) \in Nat
  BY <1>8c, <1>8d, <1>8e, <1>9, FS_Intersection, FS_CardinalityType
<1>11. Cardinality(new) <= Cardinality(old)
  <2>1. CASE n = 1
    BY <1>7, <1>8a, <1>8b, <1>8c, <1>8d, <1>8e,
       <1>9, <1>10, <2>1
  <2>2. CASE n = 2
    BY <1>7, <1>8a, <1>8b, <1>8c, <1>8d, <1>8e,
       <1>9, <1>10, <2>2
  <2>3. QED
    BY <2>1, <2>2
<1>12. \A x \in Made \cup Running(K, n) : x \notin old
  BY Kinds DEF old
<1>13. Tokens(K, n)' \subseteq (Tokens(K, n) \ old) \cup new
  BY <1>2, <1>3, <1>5, <1>12 DEF Tokens
<1>14. old \subseteq Tokens(K, n)
  BY <1>2 DEF Tokens
<1>15. QED
  BY <1>9, <1>11, <1>13, <1>14

(* No step makes tokens, but for the one that has a message delivered      *)
(* again.  Where one bundle has to do (n = 1), no webhook is retried.      *)
LEMMA BudgetedStep ==
  ASSUME TypeOK, NEW K, NEW n \in {1, 2}, Bundles(K, n), Budgeted(K, n),
         [Next]_vars, n = 1 => \A w \in Slots : exec[w].pc # "retry"
  PROVE  Budgeted(K, n)'
<1> DEFINE S == Tokens(K, n)
           size == Cardinality(K[0])
           Goal == /\ IsFiniteSet(S)
                   /\ Cardinality(S) <= size * (Notices + crashes)
<1> SUFFICES Goal'
  BY DEF Budgeted
<1>1. /\ crashes \in Nat /\ Notices \in Nat /\ MaxRetries \in Nat
      /\ 0 \in 0..MaxRetries + 1 /\ IsFiniteSet(K[0]) /\ size \in Nat
      /\ IsFiniteSet(S) /\ Cardinality(S) \in Nat
      /\ Cardinality(S) <= size * (Notices + crashes)
  BY NotificationsAssumption, FS_CardinalityType
     DEF TypeOK, Budgeted, Bundles
<1>2. /\ size * (Notices + crashes) \in Nat
      /\ size * (Notices + (crashes + 1)) \in Nat
      /\ size * (Notices + (crashes + 1)) = size * (Notices + crashes) + size
  <2> HIDE DEF size
  <2>1. \A a, b \in Nat : a * b \in Nat /\ a * (b + 1) \in Nat
                          /\ a * (b + 1) = a * b + a
    OBVIOUS
  <2>2. Notices + crashes \in Nat
        /\ Notices + (crashes + 1) = (Notices + crashes) + 1
    BY <1>1
  <2>3. QED
    BY <1>1, <2>1, <2>2
<1>3. ASSUME NEW old, NEW new, IsFiniteSet(new), old \subseteq S,
             S' \subseteq (S \ old) \cup new,
             Cardinality(new) <= Cardinality(old), crashes' = crashes
      PROVE  Goal'
  <2>1. IsFiniteSet(old) /\ Cardinality(old) \in Nat /\ Cardinality(new) \in Nat
    BY <1>1, <1>3, FS_Subset, FS_CardinalityType
  <2>2. Cardinality(new) <= Cardinality(old) + 0
    BY <1>3, <2>1
  <2>3. IsFiniteSet(S') /\ Cardinality(S') <= Cardinality(S) + 0
    BY <1>1, <1>3, <2>2, Exchange
  <2>4. Cardinality(S') \in Nat
    BY <2>3, FS_CardinalityType
  <2> HIDE DEF S, size
  <2>5. size' = size
    BY DEF size
  <2>6. QED
    BY <1>1, <1>2, <1>3, <2>3, <2>4, <2>5
<1>4. ASSUME S' \subseteq S, crashes' = crashes PROVE Goal'
  <2>1. IsFiniteSet({}) /\ Cardinality({}) = 0
    BY FS_EmptySet
  <2>2. QED
    BY <1>3, <1>4, <2>1
<1>5. ASSUME NEW w0 \in Slots, Work(w0) \/ Crash(w0), Held(w0, n)' <= Held(w0, n),
             Held(w0, n)' > 0 => exec'[w0].retries = exec[w0].retries
      PROVE  Running(K, n)' \subseteq Running(K, n)
  <2>1. ASSUME NEW w \in Slots, Held(w, n)' > 0
        PROVE  /\ Held(w, n)' <= Held(w, n)
               /\ exec'[w].retries = exec[w].retries
    <3>1. Held(w, n) \in Nat
      BY DEF Held
    <3>2. CASE w = w0
      BY <1>5, <2>1, <3>2
    <3>3. CASE w # w0
      <4>1. Held(w, n)' = Held(w, n) /\ exec'[w].retries = exec[w].retries
        BY <1>5, <3>3, HeldAlone
      <4>2. QED
        BY <3>1, <4>1
    <3>4. QED
      BY <3>2, <3>3
  <2>2. QED
    BY <2>1, RunningLess
<1>6. ASSUME NEW w0 \in Slots, NEW r \in 0..MaxRetries, Take(w0, r)
      PROVE  Goal'
  <2>1. crashes' = crashes
    BY <1>6 DEF Take
  <2>2. QED
    BY <1>3, <1>6, <2>1, Taken
(* Whoever goes on with an attempt keeps its retries, and holds no more.   *)
<1>7. ASSUME NEW w0 \in Slots,
             \/ Load(w0) \/ InsertLog(w0) \/ DispatchChannel(w0)
             \/ CommitLog(w0) \/ RetryWebhook(w0) \/ HandleTaskFailure(w0)
      PROVE  /\ exec'[w0].retries = exec[w0].retries
             /\ Held(w0, n)' <= Held(w0, n)
  <2>1. exec[w0] \in Attempt
    BY <1>7, AttemptRetries DEF Load, InsertLog, DispatchChannel, CommitLog,
       RetryWebhook, HandleTaskFailure
  <2>2. /\ exec'[w0].retries = exec[w0].retries
        /\ exec[w0].pc \in Busy \/ exec[w0].pc = "failure"
        /\ exec[w0].pc = "failure" => exec'[w0].pc = "ack"
    BY <1>7, <2>1 DEF Load, InsertLog, DispatchChannel, Confirmed, Failed,
       CommitLog, RetryWebhook, HandleTaskFailure, Goto, TypeOK, Attempt, Busy
  <2>3. QED
    BY <2>2 DEF Held, Busy
<1>8. ASSUME NEW w0 \in Slots,
             \/ Load(w0) \/ InsertLog(w0) \/ DispatchChannel(w0)
             \/ CommitLog(w0)
      PROVE  Goal'
  <2>1. Running(K, n)' \subseteq Running(K, n)
    BY <1>5, <1>7, <1>8 DEF Work
  <2>2. UNCHANGED <<queue, attempts, crashes>>
    BY <1>8 DEF Load, InsertLog, DispatchChannel, CommitLog
  <2>3. Waiting(K)' = Waiting(K) /\ Made' = Made
    BY <2>2 DEF Waiting, Made
  <2>4. QED
    BY <1>4, <2>1, <2>2, <2>3 DEF Tokens
<1>9. ASSUME NEW w0 \in Slots, RetryWebhook(w0) \/ HandleTaskFailure(w0)
      PROVE  Goal'
  <2>1. /\ UNCHANGED <<attempts, crashes>> /\ Made' = Made
        /\ Republish(exec[w0].retries)
    BY <1>9 DEF RetryWebhook, HandleTaskFailure, Made
  <2>2. CASE UNCHANGED queue
    <3>1. Waiting(K)' = Waiting(K)
      BY <2>2 DEF Waiting
    <3>2. Running(K, n)' \subseteq Running(K, n)
      BY <1>5, <1>7, <1>9 DEF Work
    <3>3. QED
      BY <1>4, <2>1, <3>1, <3>2 DEF Tokens
  <2>3. CASE /\ exec[w0].retries < MaxRetries
             /\ queue' = [queue EXCEPT ![exec[w0].retries + 1] = @ + 1]
    <3>1. exec[w0] \in Attempt
      BY <1>9, AttemptRetries DEF RetryWebhook, HandleTaskFailure
    <3>2. Held(w0, n)' = Held(w0, n) - 1 /\ Held(w0, n) >= 1
      <4>1. CASE RetryWebhook(w0)
        <5>1. exec[w0].pc = "retry" /\ exec'[w0].pc = "failure"
          BY <3>1, <4>1 DEF RetryWebhook, Goto, TypeOK, Attempt
        <5>2. n = 2
          BY <5>1
        <5>3. QED
          BY <5>1, <5>2 DEF Held, Busy
      <4>2. CASE HandleTaskFailure(w0)
        <5>1. exec[w0].pc = "failure" /\ exec'[w0].pc = "ack"
          BY <3>1, <4>2 DEF HandleTaskFailure, Goto, TypeOK, Attempt
        <5>2. QED
          BY <5>1 DEF Held, Busy
      <4>3. QED
        BY <1>9, <4>1, <4>2
    <3>3. QED
      BY <1>3, <1>9, <2>1, <2>3, <3>2, Published
  <2>4. QED
    BY <2>1, <2>2, <2>3 DEF Republish
<1>10. ASSUME NEW w0 \in Slots, Ack(w0) PROVE Goal'
  <2>1. exec'[w0].pc = "idle" /\ UNCHANGED <<queue, attempts, crashes>>
    BY <1>10 DEF Ack, TypeOK, Idle
  <2>2. Held(w0, n)' = 0 /\ Held(w0, n) \in Nat
    BY <2>1 DEF Held, Busy
  <2>3. Running(K, n)' \subseteq Running(K, n)
    BY <1>5, <1>10, <2>2 DEF Work
  <2>4. Waiting(K)' = Waiting(K) /\ Made' = Made
    BY <2>1 DEF Waiting, Made
  <2>5. QED
    BY <1>4, <2>1, <2>3, <2>4 DEF Tokens
<1>11. ASSUME NEW w0 \in Slots, Crash(w0) PROVE Goal'
  <2> DEFINE r == exec[w0].retries
             new == Block(K, "waiting", r, queue[r] + 1, r)
  <2>1. r \in 0..MaxRetries /\ r \in 0..MaxRetries + 1
    BY <1>1, <1>11, AttemptRetries DEF Crash
  <2>2. /\ exec'[w0].pc = "idle" /\ attempts' = attempts
        /\ crashes' = crashes + 1
        /\ queue' = [queue EXCEPT ![r] = @ + 1]
    BY <1>11 DEF Crash, TypeOK, Idle
  <2>3. Held(w0, n)' = 0 /\ Held(w0, n) \in Nat
    BY <2>2 DEF Held, Busy
  <2>4. Running(K, n)' \subseteq Running(K, n)
    BY <1>5, <1>11, <2>3
  <2> HIDE DEF r
  <2>5. \A q \in 0..MaxRetries :
          queue'[q] = IF q = r THEN queue[q] + 1 ELSE queue[q]
    BY <2>1, <2>2 DEF TypeOK
  <2>6. Waiting(K)' \subseteq Waiting(K) \cup new
    BY <2>1, <2>5, WaitingMore
  <2>7. Made' = Made
    BY <2>2 DEF Made
  <2>8. IsFiniteSet(K[r]) /\ Cardinality(K[r]) <= size
    BY <2>1 DEF Bundles
  <2>9. IsFiniteSet(new) /\ Cardinality(new) <= size
    BY <2>8, BlockSize
  <2> HIDE DEF new
  <2>10. S' \subseteq (S \ {}) \cup new
    BY <2>4, <2>6, <2>7 DEF Tokens
  <2>11. Cardinality({}) = 0 /\ Cardinality(new) \in Nat
    BY <2>9, FS_EmptySet, FS_CardinalityType
  <2>12. Cardinality(new) <= Cardinality({}) + size
    BY <1>1, <2>9, <2>11
  <2>13. IsFiniteSet(S') /\ Cardinality(S') <= Cardinality(S) + size
    <3> HIDE DEF S, size
    <3>1. QED
      BY <1>1, <2>9, <2>10, <2>12, Exchange
  <2>14. Cardinality(S') \in Nat
    BY <2>13, FS_CardinalityType
  <2> HIDE DEF S, size
  <2>15. size' = size
    BY DEF size
  <2>16. QED
    BY <1>1, <1>2, <2>2, <2>13, <2>14, <2>15
<1>12. CASE UpdateAlert \/ DeleteAlert \/ UNCHANGED vars
  <2>1. UNCHANGED <<queue, exec, attempts, crashes>>
    BY <1>12 DEF UpdateAlert, DeleteAlert, vars
  <2>2. S' = S
    BY <2>1 DEF Tokens, Made, Waiting, Running, Held
  <2>3. QED
    BY <1>4, <2>1, <2>2
<1>13. QED
  BY <1>6, <1>8, <1>9, <1>10, <1>11, <1>12 DEF Next, Work

(* In the beginning every notice has its bundle.                           *)
LEMMA BudgetedInit ==
  ASSUME Init, NEW K, NEW n, Bundles(K, n)
  PROVE  Budgeted(K, n)
<1> DEFINE P == (1..Notices) \X K[0]
           f == [p \in P |-> <<"waiting", 0, p[1], p[2]>>]
           B == {<<"waiting", 0, i, k>> : i \in 1..Notices, k \in K[0]}
<1>1. /\ Notices \in Nat /\ MaxRetries \in Nat /\ 0 \in 0..MaxRetries + 1
      /\ IsFiniteSet(K[0])
  BY NotificationsAssumption DEF Bundles
<1>2. /\ attempts = 0 /\ crashes = 0
      /\ \A w \in Slots : Held(w, n) = 0
      /\ \A r \in 0..MaxRetries : queue[r] = IF r = 0 THEN Notices ELSE 0
  BY DEF Init, Held, Busy, Idle
<1>3. Made = {}
  BY <1>2 DEF Made
<1>4. Running(K, n) = {}
  BY <1>2, InRunning
<1>5. Waiting(K) \subseteq B
  <2>1. ASSUME NEW x \in Waiting(K) PROVE x \in B
    <3>1. PICK r \in 0..MaxRetries, i \in Nat :
            i \in 1..queue[r] /\ x \in Block(K, "waiting", r, i, r)
      BY <2>1 DEF Waiting
    <3>2. r = 0 /\ i \in 1..Notices
      BY <1>1, <1>2, <3>1
    <3>3. QED
      BY <3>1, <3>2 DEF Block
  <2>2. QED
    BY <2>1
<1>6. /\ IsFiniteSet(1..Notices) /\ Cardinality(1..Notices) = Notices
  <2>1. /\ IsFiniteSet(1..Notices)
        /\ Cardinality(1..Notices) = IF 1 > Notices THEN 0
                                                    ELSE Notices - 1 + 1
    BY <1>1, FS_Interval
  <2>2. QED
    BY <1>1, <2>1
<1>7. IsFiniteSet(P) /\ Cardinality(P) = Notices * Cardinality(K[0])
  BY <1>1, <1>6, FS_Product
<1>8. f \in Bijection(P, B)
  <2>1. f \in [P -> B]
    OBVIOUS
  <2>2. \A p, q \in P : f[p] = f[q] => p = q
    OBVIOUS
  <2>3. \A x \in B : \E p \in P : f[p] = x
    <3>1. \A i \in 1..Notices, k \in K[0] :
            <<i, k>> \in P /\ f[<<i, k>>] = <<"waiting", 0, i, k>>
      OBVIOUS
    <3>2. ASSUME NEW x \in B PROVE \E p \in P : f[p] = x
      <4>1. PICK i \in 1..Notices, k \in K[0] : x = <<"waiting", 0, i, k>>
        BY <3>2
      <4> HIDE DEF P, f
      <4>2. <<i, k>> \in P /\ f[<<i, k>>] = x
        BY <3>1, <4>1
      <4>3. QED
        BY <4>2
    <3> HIDE DEF P, B, f
    <3>3. QED
      BY <3>2
  <2> HIDE DEF P, B, f
  <2>4. QED
    BY <2>1, <2>2, <2>3 DEF Bijection, Injection, IsInjective, Surjection
<1>9. ExistsBijection(P, B)
  BY <1>8 DEF ExistsBijection
<1>10. IsFiniteSet(B) /\ Cardinality(B) = Notices * Cardinality(K[0])
  BY <1>7, <1>9, FS_Bijection
<1> HIDE DEF B
<1>11. Tokens(K, n) \subseteq B
  BY <1>3, <1>4, <1>5 DEF Tokens
<1>12. IsFiniteSet(Tokens(K, n)) /\ Cardinality(Tokens(K, n)) <= Cardinality(B)
  BY <1>10, <1>11, FS_Subset
<1>13. Cardinality(K[0]) \in Nat
  BY <1>1, FS_CardinalityType
<1>14. Notices * Cardinality(K[0]) = Cardinality(K[0]) * (Notices + crashes)
  BY <1>1, <1>2, <1>13
<1>15. QED
  BY <1>10, <1>12, <1>14 DEF Budgeted

(* Every attempt has been paid for.                                        *)
LEMMA PaidFor ==
  ASSUME TypeOK, NEW K, NEW n, Bundles(K, n), Budgeted(K, n)
  PROVE  attempts <= Cardinality(K[0]) * (Notices + crashes)
<1> DEFINE f == [i \in 1..attempts |-> <<"made", i, 0, 0>>]
           size == Cardinality(K[0])
<1>1. attempts \in Nat /\ crashes \in Nat /\ Notices \in Nat
  BY NotificationsAssumption DEF TypeOK
<1>2. /\ IsFiniteSet(1..attempts) /\ Cardinality(1..attempts) = attempts
  <2>1. /\ IsFiniteSet(1..attempts)
        /\ Cardinality(1..attempts) = IF 1 > attempts THEN 0
                                                      ELSE attempts - 1 + 1
    BY <1>1, FS_Interval
  <2>2. QED
    BY <1>1, <2>1
<1>3. f \in Bijection(1..attempts, Made)
  <2>1. f \in [1..attempts -> Made]
    BY DEF Made
  <2>2. \A i, j \in 1..attempts : f[i] = f[j] => i = j
    OBVIOUS
  <2>3. \A x \in Made : \E i \in 1..attempts : f[i] = x
    BY DEF Made
  <2>4. QED
    BY <2>1, <2>2, <2>3 DEF Bijection, Injection, IsInjective, Surjection
<1>4. ExistsBijection(1..attempts, Made)
  BY <1>3 DEF ExistsBijection
<1>5. Cardinality(Made) = attempts
  BY <1>2, <1>4, FS_Bijection
<1>6. Cardinality(Made) <= Cardinality(Tokens(K, n))
  BY FS_Subset DEF Tokens, Budgeted
<1>7. Cardinality(Tokens(K, n)) \in Nat
  BY FS_CardinalityType DEF Budgeted
<1>8. Cardinality(Tokens(K, n)) <= size * (Notices + crashes)
  BY DEF Budgeted
<1>9. size \in Nat
  BY NotificationsAssumption, FS_CardinalityType DEF Bundles
<1> HIDE DEF size
<1>10. size * (Notices + crashes) \in Nat
  <2>1. \A a, b \in Nat : a * b \in Nat
    OBVIOUS
  <2>2. Notices + crashes \in Nat
    BY <1>1
  <2>3. QED
    BY <1>9, <2>1, <2>2
<1>11. attempts <= size * (Notices + crashes)
  BY <1>1, <1>5, <1>6, <1>7, <1>8, <1>10
<1>12. QED
  BY <1>11 DEF size

(* Without timed out webhooks each retry is published once: a bundle has a *)
(* token for each of the retries that are left.                            *)
Once == [r \in 0..MaxRetries + 1 |-> r..MaxRetries]

(* With them each is published twice, and so on at each level: a bundle    *)
(* has a token for each non-empty set of the retries that are left, the    *)
(* first being spent and the others falling into those with and without.   *)
Twice == [r \in 0..MaxRetries + 1 |-> (SUBSET (r..MaxRetries)) \ {{}}]

LEMMA OnceSize ==
  ASSUME NEW r \in 0..MaxRetries + 1
  PROVE  IsFiniteSet(Once[r]) /\ Cardinality(Once[r]) = MaxRetries + 1 - r
<1>1. MaxRetries \in Int /\ r \in Int /\ r <= MaxRetries + 1
  BY NotificationsAssumption
<1>2. /\ IsFiniteSet(r..MaxRetries)
      /\ Cardinality(r..MaxRetries) =
           IF r > MaxRetries THEN 0 ELSE MaxRetries - r + 1
  BY <1>1, FS_Interval
<1>3. QED
  BY <1>1, <1>2 DEF Once

LEMMA OnceBundles == Bundles(Once, 1)
<1>1. MaxRetries \in Nat
  BY NotificationsAssumption
<1>2. ASSUME NEW r \in 0..MaxRetries + 1
      PROVE  IsFiniteSet(Once[r]) /\ Cardinality(Once[r]) <= Cardinality(Once[0])
  <2>1. 0 \in 0..MaxRetries + 1
    BY <1>1
  <2>2. /\ IsFiniteSet(Once[r]) /\ Cardinality(Once[r]) = MaxRetries + 1 - r
        /\ Cardinality(Once[0]) = MaxRetries + 1 - 0
    BY <2>1, OnceSize
  <2>3. QED
    BY <1>1, <2>2
<1>3. ASSUME NEW r \in 0..MaxRetries
      PROVE  1 * Cardinality(Once[r + 1]) + 1 <= Cardinality(Once[r])
  <2>1. r \in 0..MaxRetries + 1 /\ r + 1 \in 0..MaxRetries + 1
    BY <1>1
  <2>2. /\ Cardinality(Once[r]) = MaxRetries + 1 - r
        /\ Cardinality(Once[r + 1]) = MaxRetries + 1 - (r + 1)
    BY <2>1, OnceSize
  <2>3. QED
    BY <1>1, <2>2
<1>4. QED
  BY <1>2, <1>3 DEF Bundles

LEMMA TwiceSize ==
  ASSUME NEW r \in 0..MaxRetries + 1
  PROVE  /\ IsFiniteSet(SUBSET (r..MaxRetries))
         /\ Cardinality(SUBSET (r..MaxRetries)) \in Nat
         /\ IsFiniteSet(Twice[r])
         /\ Cardinality(Twice[r]) = Cardinality(SUBSET (r..MaxRetries)) - 1
<1>1. MaxRetries \in Int /\ r \in Int
  BY NotificationsAssumption
<1>2. IsFiniteSet(r..MaxRetries)
  BY <1>1, FS_Interval
<1>3. IsFiniteSet(SUBSET (r..MaxRetries))
  BY <1>2, FS_SUBSET
<1>4. {} \in SUBSET (r..MaxRetries)
  OBVIOUS
<1>5. Twice[r] = (SUBSET (r..MaxRetries)) \ {{}}
  BY DEF Twice
<1>6. /\ IsFiniteSet(Twice[r])
      /\ Cardinality(Twice[r]) = Cardinality(SUBSET (r..MaxRetries)) - 1
  BY <1>3, <1>4, <1>5, FS_RemoveElement
<1>7. QED
  BY <1>3, <1>6, FS_CardinalityType

(* The sets without r and the sets with r.                                 *)
LEMMA Halves ==
  ASSUME NEW r \in 0..MaxRetries
  PROVE  Cardinality(SUBSET (r..MaxRetries)) =
           Cardinality(SUBSET (r + 1..MaxRetries))
             + Cardinality(SUBSET (r + 1..MaxRetries))
<1> DEFINE A == SUBSET (r + 1..MaxRetries)
           B == {s \in SUBSET (r..MaxRetries) : r \in s}
           f == [s \in A |-> s \cup {r}]
<1>1. /\ MaxRetries \in Nat /\ r \in Nat /\ r <= MaxRetries
      /\ r + 1 \in 0..MaxRetries + 1
  BY NotificationsAssumption
<1>2. /\ r \notin r + 1..MaxRetries
      /\ r..MaxRetries = (r + 1..MaxRetries) \cup {r}
  BY <1>1
<1>3. IsFiniteSet(A) /\ Cardinality(A) \in Nat
  BY <1>1, TwiceSize
<1>4. f \in Bijection(A, B)
  <2>1. \A s \in A : s \cup {r} \in B
    BY <1>2
  <2>2. \A s, t \in A : s \cup {r} = t \cup {r} => s = t
    BY <1>2
  <2>3. \A b \in B : b \ {r} \in A /\ b = (b \ {r}) \cup {r}
    BY <1>2
  <2> HIDE DEF A, B
  <2>4. f \in [A -> B]
    BY <2>1
  <2>5. \A b \in B : \E s \in A : f[s] = b
    BY <2>3
  <2>6. QED
    BY <2>2, <2>4, <2>5 DEF Bijection, Injection, IsInjective, Surjection
<1>5. ExistsBijection(A, B)
  BY <1>4 DEF ExistsBijection
<1>6. IsFiniteSet(B) /\ Cardinality(B) = Cardinality(A)
  BY <1>3, <1>5, FS_Bijection
<1>7. SUBSET (r..MaxRetries) = A \cup B /\ A \cap B = {}
  BY <1>2
<1> HIDE DEF A, B
<1>8. Cardinality(A \cup B) = Cardinality(A) + Cardinality(B)
                                - Cardinality(A \cap B)
  BY <1>3, <1>6, FS_Union
<1>9. Cardinality(A \cap B) = 0
  BY <1>7, FS_EmptySet
<1>10. Cardinality(SUBSET (r..MaxRetries)) = Cardinality(A) + Cardinality(A)
  <2>1. Cardinality(SUBSET (r..MaxRetries)) = Cardinality(A \cup B)
    BY <1>7
  <2>2. Cardinality(A \cup B) = Cardinality(A) + Cardinality(A)
    BY <1>3, <1>6, <1>8, <1>9
  <2>3. QED
    BY <2>1, <2>2
<1>11. QED
  BY <1>10 DEF A

LEMMA TwiceBundles == Bundles(Twice, 2)
<1>1. MaxRetries \in Nat
  BY NotificationsAssumption
<1>2. ASSUME NEW r \in 0..MaxRetries + 1
      PROVE  IsFiniteSet(Twice[r]) /\ Cardinality(Twice[r]) <= Cardinality(Twice[0])
  <2>1. 0 \in 0..MaxRetries + 1
    BY <1>1
  <2>2. Twice[r] \subseteq Twice[0]
    <3>1. r..MaxRetries \subseteq 0..MaxRetries
      BY <1>1
    <3>2. QED
      BY <2>1, <3>1 DEF Twice
  <2>3. IsFiniteSet(Twice[0])
    BY <2>1, TwiceSize
  <2>4. QED
    BY <2>2, <2>3, FS_Subset
<1>3. ASSUME NEW r \in 0..MaxRetries
      PROVE  2 * Cardinality(Twice[r + 1]) + 1 <= Cardinality(Twice[r])
  <2>1. r \in 0..MaxRetries + 1 /\ r + 1 \in 0..MaxRetries + 1
    BY <1>1
  <2>2. /\ Cardinality(Twice[r]) = Cardinality(SUBSET (r..MaxRetries)) - 1
        /\ Cardinality(Twice[r + 1]) =
             Cardinality(SUBSET (r + 1..MaxRetries)) - 1
        /\ Cardinality(SUBSET (r + 1..MaxRetries)) \in Nat
    BY <2>1, TwiceSize
  <2>3. QED
    BY <2>2, Halves
<1>4. QED
  BY <1>2, <1>3 DEF Bundles

(* How many there are in the first level.                                  *)
LEMMA TwiceAll == Cardinality(Twice[0]) = 2^(MaxRetries + 1) - 1
<1>1. MaxRetries \in Nat /\ 0 \in 0..MaxRetries + 1
  BY NotificationsAssumption
<1>2. IsFiniteSet(0..MaxRetries) /\ Cardinality(0..MaxRetries) = MaxRetries + 1
  <2>1. /\ IsFiniteSet(0..MaxRetries)
        /\ Cardinality(0..MaxRetries) = IF 0 > MaxRetries THEN 0
                                          ELSE MaxRetries - 0 + 1
    BY <1>1, FS_Interval
  <2>2. QED
    BY <1>1, <2>1
<1>3. Cardinality(SUBSET (0..MaxRetries)) = 2^(MaxRetries + 1)
  BY <1>2, FS_SUBSET
<1>4. QED
  BY <1>1, <1>3, TwiceSize

(* While no webhook timed out, none is retried and one bundle will do.     *)
Punctual ==
  MaxCount > 0 /\ timeouts = 0 =>
    /\ \A w \in Slots : exec[w].pc \notin {"timeout", "retry"}
    /\ Budgeted(Once, 1)

LEMMA PunctualStep == TypeOK /\ Punctual /\ [Next]_vars => Punctual'
<1> SUFFICES ASSUME TypeOK, Punctual, [Next]_vars,
                    MaxCount > 0, timeouts' = 0
             PROVE  /\ \A w \in Slots : exec'[w].pc \notin {"timeout", "retry"}
                    /\ Budgeted(Once, 1)'
  BY DEF Punctual
<1>1. timeouts' \in {timeouts, Count(timeouts)}
  BY DEF Next, Work, Take, Load, InsertLog, DispatchChannel, Confirmed, Failed,
     CommitLog, RetryWebhook, HandleTaskFailure, Ack, Crash, UpdateAlert,
     DeleteAlert, vars
<1>2. timeouts \in Nat /\ MaxCount \in Nat
  BY NotificationsAssumption DEF TypeOK
<1>3. timeouts = 0 /\ timeouts' # Count(timeouts)
  BY <1>1, <1>2 DEF Count
<1>4. /\ \A w \in Slots : exec[w].pc \notin {"timeout", "retry"}
      /\ Budgeted(Once, 1)
  BY <1>3 DEF Punctual
<1>5. ASSUME NEW w \in Slots PROVE exec'[w].pc \notin {"timeout", "retry"}
  <2>1. ASSUME NEW w0 \in Slots, Work(w0) \/ Crash(w0)
        PROVE  exec'[w].pc \notin {"timeout", "retry"}
    <3>1. CASE w # w0
      BY <1>4, <2>1, <3>1, SlotAlone
    <3>2. CASE w = w0
      <4>1. exec[w].pc # "idle" => exec[w] \in Attempt
        BY AttemptRetries
      <4>2. QED
        BY <1>3, <1>4, <2>1, <3>2, <4>1 DEF TypeOK, Attempt, Idle, Work, Take,
           Load, InsertLog, DispatchChannel, Confirmed, Failed, CommitLog,
           RetryWebhook, HandleTaskFailure, Ack, Crash, Goto
    <3>3. QED
      BY <3>1, <3>2
  <2>2. CASE UpdateAlert \/ DeleteAlert \/ UNCHANGED vars
    BY <1>4, <2>2 DEF UpdateAlert, DeleteAlert, vars
  <2>3. QED
    BY <2>1, <2>2 DEF Next
<1>6. Budgeted(Once, 1)'
  BY <1>4, BudgetedStep, OnceBundles
<1>7. QED
  BY <1>5, <1>6

(* The retry policy bounds the attempts while no webhook times out, and    *)
(* with every level doubled when they do: for any number of notices, slots *)
(* and retries, whatever crashes, faults and edits come in between.        *)
THEOREM AttemptsAreBounded == Spec => []RetriesBounded
<1> DEFINE Inv == TypeOK /\ Punctual /\ Budgeted(Twice, 2)
<1>1. Init => Inv
  <2> SUFFICES ASSUME Init PROVE Punctual /\ Budgeted(Twice, 2)
    BY InitTyped
  <2>1. Budgeted(Twice, 2) /\ Budgeted(Once, 1)
    BY BudgetedInit, TwiceBundles, OnceBundles
  <2>2. \A w \in Slots : exec[w].pc \notin {"timeout", "retry"}
    BY DEF Init, Idle
  <2>3. QED
    BY <2>1, <2>2 DEF Punctual
<1>2. Inv /\ [Next]_vars => Inv'
  <2> SUFFICES ASSUME Inv, [Next]_vars PROVE Budgeted(Twice, 2)'
    BY TypeStep, PunctualStep
  <2>1. QED
    BY BudgetedStep, TwiceBundles
<1>3. Inv => RetriesBounded
  <2> SUFFICES ASSUME Inv PROVE RetriesBounded
    OBVIOUS
  <2>1. attempts <= (2^(MaxRetries + 1) - 1) * (Notices + crashes)
    BY PaidFor, TwiceBundles, TwiceAll
  <2>2. /\ attempts \in 0..MaxCount /\ MaxCount \in Nat /\ crashes \in Nat
        /\ MaxRetries \in Nat /\ Notices \in Nat
    BY NotificationsAssumption DEF TypeOK
  <2>3. ASSUME timeouts = 0, MaxCount > 0
        PROVE  attempts <= (MaxRetries + 1) * (Notices + crashes)
    <3>1. attempts <= Cardinality(Once[0]) * (Notices + crashes)
      BY <2>3, PaidFor, OnceBundles DEF Punctual
    <3>2. 0 \in 0..MaxRetries + 1
      BY <2>2
    <3>3. Cardinality(Once[0]) = MaxRetries + 1 - 0
      BY <3>2, OnceSize
    <3>4. Cardinality(Once[0]) = MaxRetries + 1
      BY <2>2, <3>3
    <3>5. QED
      BY <3>1, <3>4
  <2>4. ASSUME ~(MaxCount > 0)
        PROVE  attempts <= (MaxRetries + 1) * (Notices + crashes)
    <3>1. attempts = 0
      BY <2>2, <2>4
    <3>2. \A a, b \in Nat : 0 <= a * b
      OBVIOUS
    <3>3. MaxRetries + 1 \in Nat /\ Notices + crashes \in Nat
      BY <2>2
    <3>4. QED
      BY <3>1, <3>2, <3>3
  <2>5. QED
    BY <2>1, <2>3, <2>4 DEF RetriesBounded
<1>4. QED
  BY <1>1, <1>2, <1>3, PTL DEF Spec
=============================================================================
