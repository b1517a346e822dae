-------------------------- MODULE ScrapeJobsProofs --------------------------
(***************************************************************************)
(* Theorems about ScrapeJobs for every set of tasks, products and slots,   *)
(* every retry limit and every number of crashes and faults.               *)
(***************************************************************************)
EXTENDS ScrapeJobs, FiniteSetTheorems, TLAPS

(* The row handlers yield rows when they are given rows.                   *)
LEMMA HandlersTyped ==
  ASSUME TypeOK, NEW t \in Tasks, NEW r \in 0..MaxRetries,
         NEW state \in States, NEW retval \in Retvals
  PROVE  /\ HandlePublish(t) \in {NoJob} \cup Row
         /\ HandlePrerun(t, r) \in {NoJob} \cup Row
         /\ HandlePostrun(t, r, state, retval) \in {NoJob} \cup Row
<1>1. job[t] \in {NoJob} \cup Row
  BY DEF TypeOK
<1>2. MaxRetries \in Nat
  BY ConstantsAssumption
<1>3. HandlePublish(t) \in {NoJob} \cup Row
  BY <1>1, <1>2 DEF HandlePublish, Queued, Row, Retvals
<1>4. HasRow(t) => job[t] \in Row
  BY <1>1 DEF HasRow, NoJob
<1>5. HandlePrerun(t, r) \in {NoJob} \cup Row
  BY <1>1, <1>4 DEF HandlePrerun, Row
<1>6. /\ FoldOutcome(state, retval).status \in {"success", "failure"}
      /\ FoldOutcome(state, retval).extraction \in Retvals
  BY DEF FoldOutcome, Retvals
<1>7. HandlePostrun(t, r, state, retval) \in {NoJob} \cup Row
  BY <1>1, <1>4, <1>6 DEF HandlePostrun, Row
<1> QED
  BY <1>3, <1>5, <1>7

(* A guarded write of a row keeps the table, and the fault count, typed.   *)
LEMMA GuardedTyped ==
  ASSUME TypeOK, NEW t \in Tasks, NEW row \in {NoJob} \cup Row,
         Guarded(t, row)
  PROVE  /\ job' \in [Tasks -> {NoJob} \cup Row]
         /\ dbFaults' \in 0..MaxDbFaults
         /\ lost' \subseteq Tasks
<1>1. /\ job \in [Tasks -> {NoJob} \cup Row]
      /\ dbFaults \in 0..MaxDbFaults /\ lost \subseteq Tasks
  BY DEF TypeOK
<1>2. job' \in [Tasks -> {NoJob} \cup Row]
  BY <1>1 DEF Guarded
<1>3. dbFaults' \in 0..MaxDbFaults
  BY <1>1, ConstantsAssumption DEF Guarded
<1>4. lost' \subseteq Tasks
  BY <1>1 DEF Guarded
<1> QED
  BY <1>2, <1>3, <1>4

(* A busy slot holds a well-formed attempt.                                *)
LEMMA BusyTyped ==
  ASSUME TypeOK, NEW w \in Slots, exec[w].pc # "idle"
  PROVE  /\ exec[w] \in Attempt
         /\ exec[w].task \in Tasks /\ exec[w].retries \in 0..MaxRetries
         /\ exec[w].state \in States /\ exec[w].retval \in Retvals
  BY DEF TypeOK, Attempt, Idle

(* Reporting a result keeps the slots and the history typed.               *)
LEMMA ReportTyped ==
  ASSUME TypeOK, NEW w \in Slots, exec[w].pc # "idle",
         NEW state \in States, NEW retval \in Retvals,
         Report(w, state, retval)
  PROVE  /\ exec' \in [Slots -> {Idle} \cup Attempt]
         /\ results' \subseteq Result
<1>1. exec[w] \in Attempt
  BY BusyTyped
<1>2. [exec[w] EXCEPT !.pc = "postrun", !.state = state, !.retval = retval]
        \in Attempt
  BY <1>1 DEF Attempt, Pcs
<1>3. exec' \in [Slots -> {Idle} \cup Attempt]
  BY <1>1, <1>2 DEF TypeOK, Report
<1>4. [task |-> exec[w].task, retries |-> exec[w].retries,
       state |-> state, retval |-> retval] \in Result
  BY <1>1 DEF Attempt, Result
<1> QED
  BY <1>3, <1>4 DEF TypeOK, Report

(* Moving an attempt to another program point keeps the slots typed.       *)
LEMMA GotoTyped ==
  ASSUME TypeOK, NEW w \in Slots, exec[w].pc # "idle", NEW pc \in Pcs,
         Goto(w, pc)
  PROVE  exec' \in [Slots -> {Idle} \cup Attempt]
<1>1. exec[w] \in Attempt
  BY BusyTyped
<1>2. [exec[w] EXCEPT !.pc = pc] \in Attempt
  BY <1>1 DEF Attempt
<1> QED
  BY <1>1, <1>2 DEF TypeOK, Goto

(* One more copy of a message is still a count.                            *)
LEMMA BrokerTyped ==
  ASSUME TypeOK, NEW t \in Tasks, NEW r
  PROVE  [broker EXCEPT ![t][r] = @ + 1] \in [Tasks -> [0..MaxRetries -> Nat]]
<1>1. broker \in [Tasks -> [0..MaxRetries -> Nat]]
  BY DEF TypeOK
<1>2. [broker[t] EXCEPT ![r] = broker[t][r] + 1] \in [0..MaxRetries -> Nat]
  <2>1. broker[t] \in [0..MaxRetries -> Nat]
    BY <1>1
  <2>2. CASE r \in 0..MaxRetries
    <3>1. broker[t][r] \in Nat
      BY <2>1, <2>2
    <3>2. broker[t][r] + 1 \in Nat
      BY <3>1
    <3> QED BY <2>1, <2>2, <3>2
  <2>3. CASE r \notin 0..MaxRetries
    BY <2>1, <2>3
  <2> QED BY <2>2, <2>3
<1> QED
  BY <1>1, <1>2

(* Every step keeps the type invariant.                                    *)
LEMMA TypeStep == TypeOK /\ [Next]_vars => TypeOK'
<1> SUFFICES ASSUME TypeOK, [Next]_vars PROVE TypeOK'
  OBVIOUS
<1> USE ConstantsAssumption
<1>1. ASSUME NEW t \in Tasks, BeforeTaskPublish(t) PROVE TypeOK'
  <2>1. HandlePublish(t) \in {NoJob} \cup Row
    <3>1. 0 \in 0..MaxRetries /\ "PENDING" \in States /\ "none" \in Retvals
      BY DEF States, Retvals
    <3> QED BY <3>1, HandlersTyped
  <2>2. /\ job' \in [Tasks -> {NoJob} \cup Row]
        /\ dbFaults' \in 0..MaxDbFaults /\ lost' \subseteq Tasks
    BY <1>1, <2>1, GuardedTyped DEF BeforeTaskPublish
  <2> QED BY <1>1, <2>2 DEF TypeOK, BeforeTaskPublish
<1>2. ASSUME NEW t \in Tasks, Send(t) \/ SendFails(t) PROVE TypeOK'
  <2>1. broker' \in [Tasks -> [0..MaxRetries -> Nat]]
    <3>1. CASE Send(t)
      BY <3>1, BrokerTyped DEF Send
    <3>2. CASE SendFails(t)
      BY <3>2 DEF TypeOK, SendFails
    <3> QED BY <1>2, <3>1, <3>2
  <2>2. sendFaults' \in 0..MaxSendFaults
    BY <1>2 DEF TypeOK, Send, SendFails
  <2>3. dispatch' \in [Tasks -> {"new", "publishing", "sent", "refused"}]
    BY <1>2 DEF TypeOK, Send, SendFails
  <2> QED BY <1>2, <2>1, <2>2, <2>3 DEF TypeOK, Send, SendFails
<1>3. ASSUME NEW w \in Slots, NEW t \in Tasks, NEW r \in 0..MaxRetries,
             Deliver(w, t, r)
      PROVE  TypeOK'
  <2>1. [task |-> t, retries |-> r, pc |-> "prerun", state |-> "PENDING",
         retval |-> "none"] \in Attempt
    BY DEF Attempt, Pcs, States, Retvals
  <2>2. broker' \in [Tasks -> [0..MaxRetries -> Nat]]
    BY <1>3 DEF TypeOK, Deliver
  <2> QED BY <1>3, <2>1, <2>2 DEF TypeOK, Deliver
<1>4. ASSUME NEW w \in Slots, OnTaskPrerun(w) \/ OnTaskPostrun(w)
      PROVE  TypeOK'
  <2>1. exec[w].pc # "idle"
    BY <1>4 DEF OnTaskPrerun, OnTaskPostrun
  <2>2. /\ exec[w].task \in Tasks /\ exec[w].retries \in 0..MaxRetries
        /\ exec[w].state \in States /\ exec[w].retval \in Retvals
    BY <2>1, BusyTyped
  <2>3. /\ HandlePrerun(exec[w].task, exec[w].retries)
             \in {NoJob} \cup Row
        /\ HandlePostrun(exec[w].task, exec[w].retries, exec[w].state,
                         exec[w].retval) \in {NoJob} \cup Row
    BY <2>2, HandlersTyped
  <2>4. /\ job' \in [Tasks -> {NoJob} \cup Row]
        /\ dbFaults' \in 0..MaxDbFaults /\ lost' \subseteq Tasks
    BY <1>4, <2>2, <2>3, GuardedTyped DEF OnTaskPrerun, OnTaskPostrun
  <2>5. exec' \in [Slots -> {Idle} \cup Attempt]
    BY <1>4, <2>1, GotoTyped DEF OnTaskPrerun, OnTaskPostrun, Pcs
  <2> QED BY <1>4, <2>4, <2>5 DEF TypeOK, OnTaskPrerun, OnTaskPostrun
<1>5. ASSUME NEW w \in Slots, Load(w) \/ Retry(w) PROVE TypeOK'
  <2>1. exec[w].pc # "idle"
    BY <1>5 DEF Load, Retry
  <2>2. /\ exec' \in [Slots -> {Idle} \cup Attempt]
        /\ results' \subseteq Result
    <3>1. CASE \E pc \in Pcs : Goto(w, pc) /\ UNCHANGED results
      BY <3>1, <2>1, GotoTyped DEF TypeOK
    <3>2. CASE \E s \in States, v \in Retvals : Report(w, s, v)
      BY <3>2, <2>1, ReportTyped
    <3> QED
      BY <1>5, <3>1, <3>2 DEF Load, Retry, Pcs, States, Retvals
  <2> QED BY <1>5, <2>2 DEF TypeOK, Load, Retry
<1>6. ASSUME NEW w \in Slots, Scrape(w) \/ Commit(w) PROVE TypeOK'
  <2>1. exec[w].pc # "idle" /\ exec[w] \in Attempt /\ exec[w].retval \in Retvals
    BY <1>6, BusyTyped DEF Scrape, Commit
  <2>2. /\ exec' \in [Slots -> {Idle} \cup Attempt]
        /\ results' \subseteq Result
    <3>1. CASE \E pc \in Pcs : Goto(w, pc) /\ UNCHANGED results
      BY <3>1, <2>1, GotoTyped DEF TypeOK
    <3>2. CASE Report(w, "SUCCESS", exec[w].retval)
      BY <3>2, <2>1, ReportTyped DEF States
    <3>3. CASE /\ \E pc \in Pcs, v \in Retvals :
                    exec' = [exec EXCEPT ![w].pc = pc, ![w].retval = v]
               /\ UNCHANGED results
      <4>1. PICK pc \in Pcs, v \in Retvals :
              exec' = [exec EXCEPT ![w].pc = pc, ![w].retval = v]
        BY <3>3
      <4>2. [exec[w] EXCEPT !.pc = pc, !.retval = v] \in Attempt
        BY <2>1 DEF Attempt
      <4> QED BY <3>3, <4>1, <4>2 DEF TypeOK
    <3> QED
      BY <1>6, <3>1, <3>2, <3>3
      DEF Scrape, Commit, Pcs, Retvals, Extractions
  <2> QED BY <1>6, <2>2 DEF TypeOK, Scrape, Commit
<1>7. ASSUME NEW w \in Slots, Republish(w) PROVE TypeOK'
  <2>1. exec[w].pc # "idle"
    BY <1>7 DEF Republish
  <2>2. /\ exec[w].task \in Tasks /\ exec[w].retries \in 0..MaxRetries
        /\ exec[w].state \in States /\ exec[w].retval \in Retvals
    BY <2>1, BusyTyped
  <2>3. HandlePublish(exec[w].task) \in {NoJob} \cup Row
    BY <2>2, HandlersTyped
  <2>4. /\ job' \in [Tasks -> {NoJob} \cup Row]
        /\ dbFaults' \in 0..MaxDbFaults /\ lost' \subseteq Tasks
    BY <1>7, <2>2, <2>3, GuardedTyped DEF Republish
  <2>5. exec' \in [Slots -> {Idle} \cup Attempt]
    BY <1>7, <2>1, GotoTyped DEF Republish, Pcs
  <2> QED BY <1>7, <2>4, <2>5 DEF TypeOK, Republish
<1>8. ASSUME NEW w \in Slots, Resend(w) PROVE TypeOK'
  <2>1. exec[w].pc # "idle"
    BY <1>8 DEF Resend
  <2>2. /\ exec' \in [Slots -> {Idle} \cup Attempt]
        /\ results' \subseteq Result
    BY <1>8, <2>1, ReportTyped DEF Resend, States, Retvals
  <2>3. broker' \in [Tasks -> [0..MaxRetries -> Nat]]
    <3>1. exec[w].task \in Tasks
      BY <2>1, BusyTyped
    <3>2. CASE broker' = [broker EXCEPT
                            ![exec[w].task][exec[w].retries + 1] = @ + 1]
      BY <3>1, <3>2, BrokerTyped
    <3>3. CASE UNCHANGED broker
      BY <3>3 DEF TypeOK
    <3> QED BY <1>8, <3>2, <3>3 DEF Resend
  <2>4. sendFaults' \in 0..MaxSendFaults
    <3>1. sendFaults' = sendFaults \/ (sendFaults < MaxSendFaults /\ sendFaults' = sendFaults + 1)
      BY <1>8 DEF Resend
    <3> QED BY <3>1 DEF TypeOK
  <2> QED BY <1>8, <2>2, <2>3, <2>4 DEF TypeOK, Resend
<1>9. ASSUME NEW w \in Slots, Ack(w) PROVE TypeOK'
  BY <1>9 DEF TypeOK, Ack
<1>10. ASSUME NEW w \in Slots, Crash(w) PROVE TypeOK'
  <2>1. broker' \in [Tasks -> [0..MaxRetries -> Nat]]
    BY <1>10, BusyTyped, BrokerTyped DEF Crash
  <2> QED BY <1>10, <2>1 DEF TypeOK, Crash
<1>11. ASSUME NEW p \in Products, DeleteProduct(p) PROVE TypeOK'
  BY <1>11 DEF TypeOK, DeleteProduct
<1>12. CASE RetentionPasses \/ PruneScrapeJobs
  <2>1. job' \in [Tasks -> {NoJob} \cup Row]
    <3>1. \A t \in Tasks : HasRow(t) => job[t] \in Row
      BY DEF TypeOK, HasRow, NoJob
    <3>2. \A t \in Tasks :
            HasRow(t) => [job[t] EXCEPT !.old = TRUE] \in Row
      BY <3>1 DEF Row
    <3>3. \A t \in Tasks : job[t] \in {NoJob} \cup Row
      BY DEF TypeOK
    <3> QED BY <1>12, <3>2, <3>3 DEF RetentionPasses, PruneScrapeJobs
  <2> QED BY <1>12, <2>1 DEF TypeOK, RetentionPasses, PruneScrapeJobs
<1>13. CASE UNCHANGED vars
  BY <1>13 DEF TypeOK, vars
<1> QED
  BY <1>1, <1>2, <1>3, <1>4, <1>5, <1>6, <1>7, <1>8, <1>9, <1>10, <1>11,
     <1>12, <1>13
  DEF Next, Work, SlotStep, Environment

(* Type correctness: the table, the broker and the slots hold only what    *)
(* the code can put there; retries never exceed max_retries.               *)
THEOREM TypeCorrect == Spec => []TypeOK
<1>1. Init => TypeOK
  BY ConstantsAssumption DEF Init, TypeOK
<1> QED
  BY <1>1, TypeStep, PTL DEF Spec
-----------------------------------------------------------------------------
(* A witness that a task is live survives a step that leaves it alone.     *)
LEMMA LiveCarries ==
  ASSUME NEW t \in Tasks, Live(t), dispatch'[t] = dispatch[t],
         \A r \in 0..MaxRetries : broker[t][r] > 0 => broker'[t][r] > 0,
         \A w \in Slots : WillReport(w, t) => WillReport(w, t)'
  PROVE  Live(t)'
  BY DEF Live

(* When one busy slot moves, the witnesses on the other slots stay.        *)
LEMMA OthersReport ==
  ASSUME NEW t \in Tasks, NEW w0 \in Slots, NEW w \in Slots, w # w0,
         TypeOK, exec'[w] = exec[w], WillReport(w, t)
  PROVE  WillReport(w, t)'
  BY DEF WillReport, Runs

(* A worker step moves its own slot only.                                  *)
LEMMA SlotAlone ==
  ASSUME TypeOK, NEW w0 \in Slots,
         SlotStep(w0) \/ Crash(w0)
  PROVE  /\ \A w \in Slots : w # w0 => exec'[w] = exec[w]
         /\ dispatch' = dispatch /\ products' = products
         /\ exec[w0].pc # "idle"
  BY DEF SlotStep, Crash, OnTaskPrerun, Load, Scrape, Commit, Retry,
         Republish, Resend, OnTaskPostrun, Ack, Goto, Report, TypeOK

(* A guarded write reaches one task's row only.                            *)
LEMMA GuardedAlone ==
  ASSUME TypeOK, NEW t \in Tasks, NEW row, Guarded(t, row)
  PROVE  /\ \A u \in Tasks : u # t => job'[u] = job[u]
         /\ lost \subseteq lost'
         /\ job'[t] = row \/ (t \in lost' /\ job'[t] = job[t])
  BY DEF TypeOK, Guarded

(* A retry that is sent never exceeds the limit.                           *)
LEMMA RetryLimitStep ==
  TypeOK /\ StallFree /\ [Next]_vars =>
    (\A w \in Slots : exec[w].pc \in {"republish", "resend"} =>
       exec[w].retries < MaxRetries)'
<1> SUFFICES ASSUME TypeOK, StallFree, [Next]_vars, NEW w \in Slots,
                    exec'[w].pc \in {"republish", "resend"}
             PROVE  exec'[w].retries < MaxRetries
  OBVIOUS
<1>1. CASE exec'[w] = exec[w]
  BY <1>1 DEF StallFree
<1>2. CASE exec'[w] # exec[w]
  <2>1. SlotStep(w) \/ Crash(w)
          \/ \E t \in Tasks, r \in 0..MaxRetries : Deliver(w, t, r)
    <3>1. PICK v \in Slots : SlotStep(v) \/ Crash(v)
            \/ \E t \in Tasks, r \in 0..MaxRetries : Deliver(v, t, r)
      BY <1>2 DEF Next, Work, Environment, vars, BeforeTaskPublish, Send,
                  SendFails, DeleteProduct, RetentionPasses, PruneScrapeJobs
    <3>2. v = w
      BY <1>2, <3>1, SlotAlone DEF Deliver, TypeOK
    <3> QED BY <3>1, <3>2
  <2>2. CASE \E t \in Tasks, r \in 0..MaxRetries : Deliver(w, t, r)
    BY <2>2 DEF Deliver, TypeOK
  <2>3. CASE Crash(w)
    BY <2>3 DEF Crash, TypeOK, Idle
  <2>4. CASE SlotStep(w)
    <3>1. exec[w] \in Attempt
      BY <2>4, SlotAlone, BusyTyped
    <3>2. exec[w].pc \in {"except", "republish"}
      BY <2>4, <3>1
      DEF SlotStep, OnTaskPrerun, Load, Scrape, Commit, Retry, Republish,
          Resend, OnTaskPostrun, Ack, Goto, Report, TypeOK, Attempt, Idle
    <3>3. exec'[w].retries = exec[w].retries
      BY <2>4, <3>1, <3>2
      DEF SlotStep, OnTaskPrerun, Load, Scrape, Commit, Retry, Republish,
          Resend, OnTaskPostrun, Ack, Goto, Report, TypeOK, Attempt, Idle
    <3>4. exec[w].pc = "except" => exec[w].retries < MaxRetries
      BY <2>4, <3>1
      DEF SlotStep, OnTaskPrerun, Load, Scrape, Commit, Retry, Republish,
          Resend, OnTaskPostrun, Ack, Goto, Report, TypeOK, Attempt
    <3> QED BY <3>2, <3>3, <3>4 DEF StallFree
  <2> QED BY <2>1, <2>2, <2>3, <2>4
<1> QED BY <1>1, <1>2

(* Every step keeps StallFree.                                             *)
LEMMA StallFreeStep == TypeOK /\ StallFree /\ [Next]_vars => StallFree'
<1> SUFFICES ASSUME TypeOK, StallFree, [Next]_vars, NEW t \in Tasks,
                    Open(t)', t \notin lost', dispatch'[t] # "refused"
             PROVE  Live(t)'
  BY RetryLimitStep DEF StallFree
<1> USE ConstantsAssumption
<1>0. Open(t) /\ t \notin lost /\ dispatch[t] # "refused" => Live(t)
  BY DEF StallFree
<1>1. ASSUME NEW u \in Tasks,
             BeforeTaskPublish(u) \/ Send(u) \/ SendFails(u)
      PROVE  Live(t)'
  <2>1. CASE u = t
    BY <1>1, <2>1 DEF BeforeTaskPublish, Send, SendFails, Live, TypeOK
  <2>2. CASE u # t
    <3>1. /\ job'[t] = job[t] /\ lost \subseteq lost'
          /\ dispatch'[t] = dispatch[t] /\ broker'[t] = broker[t]
          /\ exec' = exec
      BY <1>1, <2>2, GuardedAlone
      DEF BeforeTaskPublish, Send, SendFails, TypeOK
    <3>2. Live(t)
      BY <1>0, <3>1 DEF Open
    <3> QED BY <3>1, <3>2 DEF Live, WillReport, Runs
  <2> QED BY <2>1, <2>2
<1>2. ASSUME NEW w0 \in Slots, NEW u \in Tasks, NEW r0 \in 0..MaxRetries,
             Deliver(w0, u, r0)
      PROVE  Live(t)'
  <2>1. CASE u = t
    <3>1. WillReport(w0, t)'
      BY <1>2, <2>1 DEF Deliver, WillReport, Runs, TypeOK
    <3> QED BY <3>1 DEF Live
  <2>2. CASE u # t
    <3>1. Live(t) /\ dispatch'[t] = dispatch[t] /\ broker'[t] = broker[t]
      BY <1>0, <1>2, <2>2 DEF Deliver, Open, TypeOK
    <3>2. \A w \in Slots : WillReport(w, t) => WillReport(w, t)'
      <4> SUFFICES ASSUME NEW w \in Slots, WillReport(w, t)
                   PROVE  WillReport(w, t)'
        OBVIOUS
      <4>1. w # w0 /\ exec'[w] = exec[w]
        BY <1>2 DEF Deliver, WillReport, Runs, TypeOK
      <4> QED BY <4>1, OthersReport
    <3> QED BY <3>1, <3>2, LiveCarries
  <2> QED BY <2>1, <2>2
<1>3. ASSUME NEW w0 \in Slots, SlotStep(w0) \/ Crash(w0),
             exec[w0].task # t
      PROVE  Live(t)'
  <2>1. exec[w0].task \in Tasks
    BY <1>3, SlotAlone, BusyTyped
  <2>2. job'[t] = job[t] /\ lost \subseteq lost' /\ broker'[t] = broker[t]
    BY <1>3, <2>1, GuardedAlone
    DEF SlotStep, Crash, OnTaskPrerun, Load, Scrape, Commit, Retry,
        Republish, Resend, OnTaskPostrun, Ack, TypeOK
  <2>3. Live(t) /\ dispatch' = dispatch
    BY <1>0, <1>3, <2>2, SlotAlone DEF Open
  <2>4. \A w \in Slots : WillReport(w, t) => WillReport(w, t)'
    <3> SUFFICES ASSUME NEW w \in Slots, WillReport(w, t)
                 PROVE  WillReport(w, t)'
      OBVIOUS
    <3>1. w # w0
      BY <1>3 DEF WillReport, Runs
    <3> QED BY <1>3, <3>1, SlotAlone, OthersReport
  <2> QED BY <2>2, <2>3, <2>4, LiveCarries
<1>4. ASSUME NEW w0 \in Slots, exec[w0].task = t,
             \/ OnTaskPrerun(w0) \/ Load(w0) \/ Scrape(w0) \/ Commit(w0)
             \/ Retry(w0) \/ Republish(w0)
      PROVE  Live(t)'
  <2>1. exec[w0] \in Attempt
    BY <1>4, BusyTyped
    DEF OnTaskPrerun, Load, Scrape, Commit, Retry, Republish
  <2>2. WillReport(w0, t)'
    BY <1>4, <2>1
    DEF OnTaskPrerun, Load, Scrape, Commit, Retry, Republish, Goto, Report,
        WillReport, Runs, TypeOK, Attempt
  <2> QED BY <2>2 DEF Live
<1>5. ASSUME NEW w0 \in Slots, exec[w0].task = t, Resend(w0)
      PROVE  Live(t)'
  <2>1. exec[w0] \in Attempt
    BY <1>5, BusyTyped DEF Resend
  <2>2. CASE broker' = [broker EXCEPT ![t][exec[w0].retries + 1] = @ + 1]
    <3>1. exec[w0].retries + 1 \in 0..MaxRetries
      BY <1>5, <2>1 DEF StallFree, Resend, Attempt
    <3>2. broker[t] \in [0..MaxRetries -> Nat]
      BY DEF TypeOK
    <3>3. broker[t][exec[w0].retries + 1] \in Nat
      BY <3>1, <3>2
    <3>4. broker'[t][exec[w0].retries + 1] > 0
      BY <2>2, <3>1, <3>2, <3>3 DEF TypeOK
    <3> QED BY <3>1, <3>4 DEF Live
  <2>3. CASE Report(w0, "REJECTED", "none")
    <3>1. WillReport(w0, t)'
      BY <1>5, <2>1, <2>3 DEF Report, WillReport, Runs, TypeOK, Attempt
    <3> QED BY <3>1 DEF Live
  <2> QED BY <1>5, <2>2, <2>3 DEF Resend
<1>6. ASSUME NEW w0 \in Slots, exec[w0].task = t,
             OnTaskPostrun(w0) \/ Ack(w0)
      PROVE  Live(t)'
  <2>1. exec[w0] \in Attempt
    BY <1>6, BusyTyped DEF OnTaskPostrun, Ack
  <2>2. job'[t] = job[t] /\ ~WillReport(w0, t)
    <3>1. CASE Ack(w0)
      BY <3>1 DEF Ack, WillReport
    <3>2. CASE OnTaskPostrun(w0) /\ exec[w0].state = "RETRY"
      <4>1. job'[t] = job[t]
        BY <1>6, <3>2, GuardedAlone DEF OnTaskPostrun, HandlePostrun
      <4> QED BY <3>2, <4>1 DEF OnTaskPostrun, WillReport
    <3>3. CASE OnTaskPostrun(w0) /\ exec[w0].state # "RETRY"
      <4>1. job'[t] = HandlePostrun(t, exec[w0].retries, exec[w0].state,
                                    exec[w0].retval)
        BY <1>6, <3>3, GuardedAlone DEF OnTaskPostrun
      <4>2. HasRow(t) => job[t] \in Row
        BY DEF TypeOK, HasRow, NoJob
      <4>3. ~Open(t)'
        BY <3>3, <4>1, <4>2
        DEF HandlePostrun, FoldOutcome, HasRow, Open, Row
      <4> QED BY <4>3
    <3> QED BY <1>6, <3>1, <3>2, <3>3
  <2>3. Live(t) /\ broker' = broker
    BY <1>0, <1>6, <2>2, SlotAlone, GuardedAlone
    DEF Open, OnTaskPostrun, Ack, SlotStep
  <2>4. \A w \in Slots : WillReport(w, t) => WillReport(w, t)'
    BY <1>6, <2>2, SlotAlone, OthersReport DEF SlotStep
  <2> QED BY <1>6, <2>3, <2>4, LiveCarries, SlotAlone DEF SlotStep
<1>7. ASSUME NEW w0 \in Slots, exec[w0].task = t, Crash(w0)
      PROVE  Live(t)'
  <2>1. exec[w0].retries \in 0..MaxRetries
    BY <1>7, BusyTyped DEF Crash
  <2>2. broker[t] \in [0..MaxRetries -> Nat]
    BY DEF TypeOK
  <2>3. broker[t][exec[w0].retries] \in Nat
    BY <2>1, <2>2
  <2>4. broker'[t][exec[w0].retries] > 0
    BY <1>7, <2>1, <2>2, <2>3 DEF Crash, TypeOK
  <2> QED BY <2>1, <2>4 DEF Live
<1>8. CASE (\E p \in Products : DeleteProduct(p))
             \/ RetentionPasses \/ PruneScrapeJobs \/ UNCHANGED vars
  <2>1. /\ dispatch' = dispatch /\ broker' = broker /\ exec' = exec
        /\ lost' = lost
    BY <1>8 DEF DeleteProduct, RetentionPasses, PruneScrapeJobs, vars
  <2>2. job[t] \in Row \/ job[t] = NoJob
    BY DEF TypeOK
  <2>3. Open(t)
    BY <1>8, <2>2
    DEF DeleteProduct, RetentionPasses, PruneScrapeJobs, vars, Open, HasRow,
        NoJob, Row
  <2>4. Live(t)
    BY <1>0, <2>1, <2>3
  <2> QED BY <2>1, <2>4 DEF Live, WillReport, Runs
<1> QED
  BY <1>1, <1>2, <1>3, <1>4, <1>5, <1>6, <1>7, <1>8
  DEF Next, Work, SlotStep, Environment

(* No scrape is shown as pending that nobody is going to run, for any      *)
(* interleaving of publishers, slots, crashes, prunes and deletions.       *)
THEOREM StallFreedom == Spec => []NoSilentStall
<1>1. Init => StallFree
  BY DEF Init, StallFree, Idle, Open, NoJob
<1>2. TypeOK /\ StallFree => NoSilentStall
  BY DEF StallFree, NoSilentStall, Live, InFlight, WillReport
<1> QED
  BY <1>1, <1>2, StallFreeStep, TypeCorrect, PTL DEF Spec
-----------------------------------------------------------------------------
(* How one step can change one row: it stays, goes, ages, or is written by *)
(* one of the three handlers on behalf of its own task.                    *)
LEMMA RowChanges ==
  ASSUME TypeOK, [Next]_vars, NEW t \in Tasks
  PROVE  \/ job'[t] = job[t] \/ job'[t] = NoJob
         \/ HasRow(t) /\ job'[t] = [job[t] EXCEPT !.old = TRUE]
         \/ job'[t] = HandlePublish(t) /\ products' = products
         \/ \E w \in Slots : /\ OnTaskPrerun(w) /\ exec[w].task = t
                             /\ job'[t] = HandlePrerun(t, exec[w].retries)
         \/ \E w \in Slots :
              /\ OnTaskPostrun(w) /\ exec[w].task = t
              /\ job'[t] = HandlePostrun(t, exec[w].retries, exec[w].state,
                                         exec[w].retval)
<1>1. ASSUME NEW u \in Tasks, BeforeTaskPublish(u)
      PROVE  \/ job'[t] = job[t]
             \/ job'[t] = HandlePublish(t) /\ products' = products
  BY <1>1, GuardedAlone DEF BeforeTaskPublish
<1>2. ASSUME NEW w \in Slots, Republish(w)
      PROVE  \/ job'[t] = job[t]
             \/ job'[t] = HandlePublish(t) /\ products' = products
  BY <1>2, BusyTyped, GuardedAlone DEF Republish
<1>3. ASSUME NEW w \in Slots, OnTaskPrerun(w)
      PROVE  job'[t] = job[t]
             \/ (exec[w].task = t
                  /\ job'[t] = HandlePrerun(t, exec[w].retries))
  BY <1>3, BusyTyped, GuardedAlone DEF OnTaskPrerun
<1>4. ASSUME NEW w \in Slots, OnTaskPostrun(w)
      PROVE  job'[t] = job[t]
             \/ (exec[w].task = t
                  /\ job'[t] = HandlePostrun(t, exec[w].retries,
                                             exec[w].state, exec[w].retval))
  BY <1>4, BusyTyped, GuardedAlone DEF OnTaskPostrun
<1>5. ASSUME (\E p \in Products : DeleteProduct(p))
               \/ RetentionPasses \/ PruneScrapeJobs
      PROVE  \/ job'[t] = job[t]
             \/ job'[t] = NoJob
             \/ HasRow(t) /\ job'[t] = [job[t] EXCEPT !.old = TRUE]
  BY <1>5 DEF DeleteProduct, RetentionPasses, PruneScrapeJobs
<1>6. ASSUME \/ \E u \in Tasks : Send(u) \/ SendFails(u)
             \/ \E w \in Slots : \/ Crash(w) \/ Load(w) \/ Scrape(w)
                                 \/ Commit(w) \/ Retry(w) \/ Resend(w)
                                 \/ Ack(w)
             \/ \E w \in Slots, u \in Tasks, r \in 0..MaxRetries :
                  Deliver(w, u, r)
             \/ UNCHANGED vars
      PROVE  job'[t] = job[t]
  BY <1>6 DEF Send, SendFails, Crash, Load, Scrape, Commit, Retry, Resend,
              Ack, Deliver, vars
<1> QED
  BY <1>1, <1>2, <1>3, <1>4, <1>5, <1>6
  DEF Next, Work, SlotStep, Environment

(* No publish, first or retried, leaks a row for a deleted product.        *)
THEOREM NoLeak == Spec => []NoRowLeaked
<1>1. Init => NoRowLeaked
  BY DEF Init, NoRowLeaked, HasRow, NoJob
<1>2. TypeOK /\ NoRowLeaked /\ [Next]_vars => NoRowLeaked'
  <2> SUFFICES ASSUME TypeOK, NoRowLeaked, [Next]_vars, NEW t \in Tasks,
                      HasRow(t)'
               PROVE  ProductOf[t] \in products'
    BY DEF NoRowLeaked
  <2>1. CASE \E p \in Products : DeleteProduct(p)
    BY <2>1 DEF DeleteProduct, NoRowLeaked, HasRow, NoJob
  <2>2. CASE ~\E p \in Products : DeleteProduct(p)
    <3>1. products' = products
      BY <2>2 DEF Next, Work, SlotStep, Environment, BeforeTaskPublish, Send,
         SendFails, Deliver, OnTaskPrerun, Load, Scrape, Commit, Retry,
         Republish, Resend, OnTaskPostrun, Ack, Crash, RetentionPasses,
         PruneScrapeJobs, vars
    <3>2. HasRow(t) => ProductOf[t] \in products
      BY DEF NoRowLeaked
    <3>3. HasRow(t) \/ ProductOf[t] \in products
      <4> SUFFICES ASSUME ~HasRow(t), ProductOf[t] \notin products
                   PROVE  FALSE
        OBVIOUS
      <4>1. CASE job'[t] = job[t] \/ job'[t] = NoJob
        BY <4>1 DEF HasRow, NoJob
      <4>2. CASE job'[t] = HandlePublish(t)
        BY <4>2 DEF HandlePublish, HasRow
      <4>3. CASE \E w \in Slots : job'[t] = HandlePrerun(t, exec[w].retries)
        BY <4>3 DEF HandlePrerun, HasRow
      <4>4. CASE \E w \in Slots :
                   job'[t] = HandlePostrun(t, exec[w].retries, exec[w].state,
                                           exec[w].retval)
        BY <4>4 DEF HandlePostrun, HasRow
      <4> QED BY <4>1, <4>2, <4>3, <4>4, RowChanges
    <3> QED BY <3>1, <3>2, <3>3
  <2> QED BY <2>1, <2>2
<1> QED
  BY <1>1, <1>2, TypeCorrect, PTL DEF Spec

(* What task_postrun is told is on record, and so is every final verdict.  *)
VerdictInv ==
  /\ \A w \in Slots : exec[w].pc = "postrun" =>
       [task |-> exec[w].task, retries |-> exec[w].retries,
        state |-> exec[w].state, retval |-> exec[w].retval] \in results
  /\ VerdictIsAnAttempts

(* Every finished row is the verdict of one attempt that really ended so.  *)
THEOREM VerdictsEarned == Spec => []VerdictIsAnAttempts
<1>1. Init => VerdictInv
  BY DEF Init, VerdictInv, VerdictIsAnAttempts, Terminal, Idle, NoJob
<1>2. TypeOK /\ VerdictInv /\ [Next]_vars => VerdictInv'
  <2> SUFFICES ASSUME TypeOK, VerdictInv, [Next]_vars PROVE VerdictInv'
    OBVIOUS
  <2>1. results \subseteq results'
    BY DEF Next, Work, SlotStep, Environment, BeforeTaskPublish, Send,
       SendFails, Deliver, OnTaskPrerun, Load, Scrape, Commit, Retry,
       Republish, Resend, OnTaskPostrun, Ack, Crash, DeleteProduct,
       RetentionPasses, PruneScrapeJobs, Report, vars
  <2>2. ASSUME NEW w \in Slots, exec'[w].pc = "postrun"
        PROVE  [task |-> exec'[w].task, retries |-> exec'[w].retries,
                state |-> exec'[w].state, retval |-> exec'[w].retval]
                 \in results'
    <3>1. CASE exec'[w] = exec[w]
      BY <2>1, <2>2, <3>1 DEF VerdictInv
    <3>2. CASE exec'[w] # exec[w]
      <4>1. \/ SlotStep(w) \/ Crash(w)
            \/ \E t \in Tasks, r \in 0..MaxRetries : Deliver(w, t, r)
        <5>1. PICK v \in Slots : SlotStep(v) \/ Crash(v)
                \/ \E t \in Tasks, r \in 0..MaxRetries : Deliver(v, t, r)
          BY <3>2 DEF Next, Work, Environment, vars, BeforeTaskPublish, Send,
                      SendFails, DeleteProduct, RetentionPasses,
                      PruneScrapeJobs
        <5>2. v = w
          BY <3>2, <5>1, SlotAlone DEF Deliver, TypeOK
        <5> QED BY <5>1, <5>2
      <4>2. CASE \E s \in States, v \in Retvals :
                   exec[w] \in Attempt /\ Report(w, s, v)
        BY <4>2 DEF Report, TypeOK, Attempt
      <4>3. CASE Crash(w)
                   \/ \E t \in Tasks, r \in 0..MaxRetries : Deliver(w, t, r)
        BY <2>2, <4>3 DEF Crash, Deliver, TypeOK, Idle
      <4>4. CASE SlotStep(w)
        <5>1. exec[w] \in Attempt
          BY <4>4, SlotAlone, BusyTyped
        <5>2. \E s \in States, v \in Retvals : Report(w, s, v)
          BY <2>2, <4>4, <5>1
          DEF SlotStep, OnTaskPrerun, Load, Scrape, Commit, Retry, Republish,
              Resend, OnTaskPostrun, Ack, Goto, TypeOK, Attempt, Idle,
              States, Retvals
        <5> QED BY <4>2, <5>1, <5>2
      <4> QED BY <4>1, <4>3, <4>4
    <3> QED BY <3>1, <3>2
  <2>3. ASSUME NEW t \in Tasks, Terminal(t)'
        PROVE  (\E o \in results :
                  /\ o.task = t /\ o.retries = job[t].retries
                  /\ o.state # "RETRY"
                  /\ (job[t].status = "success")
                       <=> (o.state = "SUCCESS" /\ o.retval = "ok")
                  /\ job[t].extraction =
                       IF o.state = "SUCCESS" THEN o.retval ELSE "none")'
    <3>1. HasRow(t) => job[t] \in Row
      BY DEF TypeOK, HasRow, NoJob
    <3>2. CASE /\ job'[t].status = job[t].status
               /\ job'[t].retries = job[t].retries
               /\ job'[t].extraction = job[t].extraction
      BY <2>1, <2>3, <3>2 DEF VerdictInv, VerdictIsAnAttempts, Terminal
    <3>3. CASE \E w \in Slots :
                 /\ OnTaskPostrun(w) /\ exec[w].task = t
                 /\ HasRow(t) /\ exec[w].state # "RETRY"
                 /\ job'[t] = HandlePostrun(t, exec[w].retries,
                                 exec[w].state, exec[w].retval)
      <4>1. PICK w \in Slots :
                 /\ OnTaskPostrun(w) /\ exec[w].task = t
                 /\ HasRow(t) /\ exec[w].state # "RETRY"
                 /\ job'[t] = HandlePostrun(t, exec[w].retries,
                                 exec[w].state, exec[w].retval)
        BY <3>3
      <4> DEFINE o == [task |-> exec[w].task, retries |-> exec[w].retries,
                       state |-> exec[w].state, retval |-> exec[w].retval]
      <4>2. o \in results'
        BY <2>1, <4>1 DEF VerdictInv, OnTaskPostrun
      <4>3. /\ job'[t].retries = o.retries
            /\ job'[t].status = FoldOutcome(o.state, o.retval).status
            /\ job'[t].extraction = FoldOutcome(o.state, o.retval).extraction
        BY <3>1, <4>1 DEF HandlePostrun, Row
      <4>4. /\ (job'[t].status = "success")
                 <=> (o.state = "SUCCESS" /\ o.retval = "ok")
            /\ job'[t].extraction =
                 IF o.state = "SUCCESS" THEN o.retval ELSE "none"
        BY <4>3 DEF FoldOutcome
      <4> HIDE DEF o
      <4>5. o.task = t /\ o.state # "RETRY"
        BY <4>1 DEF o
      <4> QED BY <4>2, <4>3, <4>4, <4>5
    <3>4. CASE job'[t] = NoJob
      BY <2>3, <3>4 DEF Terminal, NoJob
    <3>5. CASE HasRow(t) /\ job'[t] = [job[t] EXCEPT !.old = TRUE]
      BY <3>1, <3>2, <3>5 DEF Row
    <3>6. CASE job'[t] = HandlePublish(t)
      BY <2>3, <3>2, <3>6 DEF HandlePublish, Queued, Terminal
    <3>7. CASE \E w \in Slots : job'[t] = HandlePrerun(t, exec[w].retries)
      BY <2>3, <3>1, <3>2, <3>7 DEF HandlePrerun, Terminal, Row
    <3>8. CASE \E w \in Slots :
                 /\ OnTaskPostrun(w) /\ exec[w].task = t
                 /\ job'[t] = HandlePostrun(t, exec[w].retries,
                                 exec[w].state, exec[w].retval)
      BY <3>2, <3>3, <3>8 DEF HandlePostrun
    <3> QED
      BY <3>2, <3>4, <3>5, <3>6, <3>7, <3>8, RowChanges
  <2> QED BY <2>2, <2>3 DEF VerdictInv, VerdictIsAnAttempts
<1>3. VerdictInv => VerdictIsAnAttempts
  BY DEF VerdictInv
<1> QED
  BY <1>1, <1>2, <1>3, TypeCorrect, PTL DEF Spec
-----------------------------------------------------------------------------
(* While no worker crashed, a task has one carrier at most: the publisher, *)
(* one copy of its message, or one attempt that will still write the row;  *)
(* and the row does not run ahead of it.                                   *)

Behind(t, r) == HasRow(t) => ~Terminal(t) /\ job[t].retries <= r

Unsent(t) == dispatch[t] \in {"new", "publishing"}

OneCarrier(t) ==
  /\ Unsent(t) => /\ \A r \in 0..MaxRetries : broker[t][r] = 0
                  /\ \A w \in Slots : ~WillReport(w, t)
                  /\ Behind(t, 0)
  /\ \A r \in 0..MaxRetries : broker[t][r] > 0 =>
       /\ broker[t][r] = 1
       /\ \A q \in 0..MaxRetries : broker[t][q] > 0 => q = r
       /\ \A w \in Slots : ~WillReport(w, t)
       /\ Behind(t, r)
  /\ \A w \in Slots : WillReport(w, t) =>
       /\ \A v \in Slots : WillReport(v, t) => v = w
       /\ Behind(t, exec[w].retries)

Carried == crashes = 0 => \A t \in Tasks : OneCarrier(t)

(* What can be told of a row's type.                                       *)
LEMMA RowTyped ==
  ASSUME TypeOK, NEW t \in Tasks
  PROVE  /\ job[t] = NoJob \/ job[t] \in Row
         /\ HasRow(t) <=> job[t] \in Row
         /\ ~HasRow(t) <=> job[t] = NoJob
BY DEF TypeOK, HasRow, NoJob, Row

(* A row that is gone, has aged or was published again is no further.      *)
LEMMA BehindCarries ==
  ASSUME TypeOK, NEW t \in Tasks, NEW r \in 0..MaxRetries, Behind(t, r),
         \/ job'[t] = job[t] \/ job'[t] = NoJob
         \/ HasRow(t) /\ job'[t] = [job[t] EXCEPT !.old = TRUE]
         \/ job'[t] = HandlePublish(t)
  PROVE  Behind(t, r)'
<1>1. CASE job'[t] = job[t]
  BY <1>1 DEF Behind, HasRow, Terminal
<1>2. CASE job'[t] = NoJob
  BY <1>2 DEF Behind, HasRow, NoJob
<1>3. CASE HasRow(t) /\ job'[t] = [job[t] EXCEPT !.old = TRUE]
  <2>1. job[t] \in Row
    BY <1>3, RowTyped
  <2>2. /\ job'[t].status = job[t].status
        /\ job'[t].retries = job[t].retries
    BY <1>3, <2>1 DEF Row
  <2>3. QED
    BY <1>3, <2>2 DEF Behind, HasRow, Terminal
<1>4. CASE job'[t] = HandlePublish(t)
  <2>1. CASE job'[t] = Queued
    BY <2>1 DEF Queued, Behind, Terminal
  <2>2. QED
    BY <1>1, <1>4, <2>1 DEF HandlePublish
<1>5. QED
  BY <1>1, <1>2, <1>3, <1>4

(* A step of an attempt that will write the row afterwards would have      *)
(* before, for the same task and retry.                                    *)
LEMMA SlotKeeps ==
  ASSUME TypeOK, NEW w \in Slots, SlotStep(w)
  PROVE  /\ exec[w] \in Attempt
         /\ \A t : WillReport(w, t)' =>
              WillReport(w, t) /\ exec'[w].retries = exec[w].retries
<1>1. exec[w] \in Attempt
  BY SlotAlone, BusyTyped
<1>2. CASE Ack(w)
  BY <1>1, <1>2 DEF Ack, WillReport, Runs, Idle, TypeOK
<1>3. CASE ~Ack(w)
  <2>1. /\ exec'[w].task = exec[w].task /\ exec'[w].retries = exec[w].retries
        /\ exec[w].pc # "idle" /\ exec[w].pc # "ack"
        /\ exec[w].pc = "postrun" => exec'[w].pc = "ack"
    BY <1>1, <1>3
    DEF SlotStep, OnTaskPrerun, Load, Scrape, Commit, Retry, Republish,
        Resend, OnTaskPostrun, Goto, Report, TypeOK, Attempt
  <2>2. QED
    BY <1>1, <2>1 DEF WillReport, Runs
<1>4. QED
  BY <1>2, <1>3, <1>1

(* A step that adds no carrier and leaves the row no further.              *)
LEMMA Dwindles ==
  ASSUME TypeOK, NEW t \in Tasks, OneCarrier(t),
         Unsent(t)' => Unsent(t), broker'[t] = broker[t],
         \A w \in Slots : WillReport(w, t)' =>
           WillReport(w, t) /\ exec'[w].retries = exec[w].retries,
         \/ job'[t] = job[t] \/ job'[t] = NoJob
         \/ HasRow(t) /\ job'[t] = [job[t] EXCEPT !.old = TRUE]
         \/ job'[t] = HandlePublish(t)
  PROVE  OneCarrier(t)'
<1>1. \A r \in 0..MaxRetries : Behind(t, r) => Behind(t, r)'
  BY BehindCarries
<1>2. 0 \in 0..MaxRetries
  BY ConstantsAssumption
<1>3. \A w \in Slots : WillReport(w, t) => exec[w].retries \in 0..MaxRetries
  BY BusyTyped DEF WillReport, Runs
<1>4. Unsent(t)' => /\ \A r \in 0..MaxRetries : broker'[t][r] = 0
                    /\ \A w \in Slots : ~WillReport(w, t)'
                    /\ Behind(t, 0)'
  BY <1>1, <1>2 DEF OneCarrier
<1>5. \A r \in 0..MaxRetries : broker'[t][r] > 0 =>
        /\ broker'[t][r] = 1
        /\ \A q \in 0..MaxRetries : broker'[t][q] > 0 => q = r
        /\ \A w \in Slots : ~WillReport(w, t)'
        /\ Behind(t, r)'
  BY <1>1 DEF OneCarrier
<1>6. ASSUME NEW w \in Slots, WillReport(w, t)'
      PROVE  /\ \A v \in Slots : WillReport(v, t)' => v = w
             /\ Behind(t, exec[w].retries)'
  <2>1. WillReport(w, t) /\ exec'[w].retries = exec[w].retries
    BY <1>6
  <2>2. Behind(t, exec[w].retries) /\ exec[w].retries \in 0..MaxRetries
        /\ \A v \in Slots : WillReport(v, t) => v = w
    BY <1>3, <2>1 DEF OneCarrier
  <2>3. HasRow(t)' => ~Terminal(t)' /\ job'[t].retries <= exec'[w].retries
    BY <1>1, <2>1, <2>2 DEF Behind
  <2>4. QED
    BY <2>2, <2>3 DEF Behind
<1>7. QED
  BY <1>4, <1>5, <1>6 DEF OneCarrier

(* The slots' part in it.                                                  *)
LEMMA SlotsDwindle ==
  ASSUME TypeOK, NEW t \in Tasks, NEW w0 \in Slots, SlotStep(w0)
  PROVE  \A w \in Slots : WillReport(w, t)' =>
           WillReport(w, t) /\ exec'[w].retries = exec[w].retries
<1>1. \A w \in Slots \ {w0} : exec'[w] = exec[w]
  BY SlotAlone
<1>2. \A w \in Slots \ {w0} : WillReport(w, t)' <=> WillReport(w, t)
  BY <1>1 DEF WillReport, Runs
<1>3. QED
  BY <1>1, <1>2, SlotKeeps

LEMMA CarriedStep == TypeOK /\ StallFree /\ Carried /\ [Next]_vars => Carried'
<1> SUFFICES ASSUME TypeOK, StallFree, Carried, [Next]_vars, crashes' = 0,
                    NEW t \in Tasks
             PROVE  OneCarrier(t)'
  BY DEF Carried
<1> USE ConstantsAssumption
<1>1. crashes = 0 /\ ~\E w \in Slots : Crash(w)
  <2>1. crashes \in Nat
    BY DEF TypeOK
  <2>2. ASSUME NEW w \in Slots, Crash(w) PROVE FALSE
    <3>1. crashes' = crashes + 1
      BY <2>2 DEF Crash
    <3>2. QED
      BY <2>1, <3>1
  <2>3. crashes' = crashes
    BY <2>2 DEF Next, Work, SlotStep, Environment, BeforeTaskPublish, Send,
       SendFails, Deliver, OnTaskPrerun, Load, Scrape, Commit, Retry,
       Republish, Resend, OnTaskPostrun, Ack, DeleteProduct,
       RetentionPasses, PruneScrapeJobs, vars
  <2>4. QED
    BY <2>2, <2>3
<1>2. OneCarrier(t) /\ broker[t] \in [0..MaxRetries -> Nat]
  BY <1>1 DEF Carried, TypeOK
<1>3. ASSUME NEW u \in Tasks,
             BeforeTaskPublish(u) \/ Send(u) \/ SendFails(u)
      PROVE  OneCarrier(t)'
  <2>1. \A w \in Slots : WillReport(w, t)' <=> WillReport(w, t)
    BY <1>3 DEF BeforeTaskPublish, Send, SendFails, WillReport, Runs
  <2>2. exec' = exec
    BY <1>3 DEF BeforeTaskPublish, Send, SendFails
  <2>3. CASE Send(u) /\ u = t
    <3>1. /\ Unsent(t) /\ ~Unsent(t)' /\ job' = job
          /\ 0 \in 0..MaxRetries
          /\ \A r \in 0..MaxRetries :
               broker'[t][r] = IF r = 0 THEN broker[t][r] + 1 ELSE broker[t][r]
      BY <1>2, <2>3 DEF Send, Unsent, TypeOK
    <3>2. /\ \A r \in 0..MaxRetries : broker[t][r] = 0
          /\ \A w \in Slots : ~WillReport(w, t)'
          /\ Behind(t, 0)
      BY <1>2, <2>1, <3>1 DEF OneCarrier
    <3>3. Behind(t, 0)'
      BY <3>1, <3>2 DEF Behind, HasRow, Terminal
    <3>4. \A r \in 0..MaxRetries : broker'[t][r] = IF r = 0 THEN 1 ELSE 0
      BY <3>1, <3>2
    <3>5. QED
      BY <3>1, <3>2, <3>3, <3>4 DEF OneCarrier
  <2>4. CASE ~(Send(u) /\ u = t)
    <3>1. broker'[t] = broker[t]
      BY <1>3, <2>4 DEF BeforeTaskPublish, Send, SendFails, TypeOK
    <3>2. Unsent(t)' => Unsent(t)
      BY <1>3 DEF BeforeTaskPublish, Send, SendFails, Unsent, TypeOK
    <3>3. job'[t] = job[t] \/ job'[t] = HandlePublish(t)
      BY <1>3, GuardedAlone DEF BeforeTaskPublish, Send, SendFails
    <3>4. QED
      BY <1>2, <2>1, <2>2, <3>1, <3>2, <3>3, Dwindles
  <2>5. QED
    BY <2>3, <2>4
<1>4. ASSUME NEW w0 \in Slots, NEW u \in Tasks, NEW r0 \in 0..MaxRetries,
             Deliver(w0, u, r0)
      PROVE  OneCarrier(t)'
  <2>1. /\ dispatch' = dispatch /\ job' = job
        /\ \A w \in Slots \ {w0} : exec'[w] = exec[w]
        /\ exec'[w0].task = u /\ exec'[w0].retries = r0
        /\ exec'[w0].pc = "prerun"
    BY <1>4 DEF Deliver, TypeOK
  <2>2. \A w \in Slots \ {w0} : WillReport(w, t)' <=> WillReport(w, t)
    BY <2>1 DEF WillReport, Runs
  <2>3. CASE u # t
    <3>1. broker'[t] = broker[t] /\ ~WillReport(w0, t)'
      BY <1>4, <2>1, <2>3 DEF Deliver, WillReport, Runs, TypeOK
    <3>2. Unsent(t)' <=> Unsent(t)
      BY <2>1 DEF Unsent
    <3>3. QED
      BY <1>2, <2>1, <2>2, <3>1, <3>2, Dwindles
  <2>4. CASE u = t
    <3>1. /\ broker[t][r0] > 0
          /\ \A r \in 0..MaxRetries :
               broker'[t][r] = IF r = r0 THEN broker[t][r] - 1
                                         ELSE broker[t][r]
      BY <1>2, <1>4, <2>4 DEF Deliver, TypeOK
    <3>2. /\ \A r \in 0..MaxRetries \ {r0} : ~(broker[t][r] > 0)
          /\ broker[t][r0] = 1 /\ ~Unsent(t) /\ Behind(t, r0)
          /\ \A w \in Slots : ~WillReport(w, t)
      BY <1>2, <3>1 DEF OneCarrier
    <3>3. \A r \in 0..MaxRetries : ~(broker'[t][r] > 0)
      BY <1>2, <3>1, <3>2
    <3>4. /\ ~Unsent(t)' /\ \A v \in Slots : WillReport(v, t)' => v = w0
          /\ (HasRow(t)' => ~Terminal(t)' /\ job'[t].retries <= r0)
      BY <2>1, <2>2, <3>2 DEF Unsent, Behind, HasRow, Terminal
    <3>5. QED
      BY <2>1, <3>3, <3>4 DEF OneCarrier, Behind
  <2>5. QED
    BY <2>3, <2>4
<1>5. ASSUME NEW w0 \in Slots, SlotStep(w0), exec[w0].task # t
      PROVE  OneCarrier(t)'
  <2>1. exec[w0].task \in Tasks
    BY <1>5, SlotAlone, BusyTyped
  <2>2. job'[t] = job[t] /\ broker'[t] = broker[t]
    BY <1>5, <2>1, GuardedAlone
    DEF SlotStep, OnTaskPrerun, Load, Scrape, Commit, Retry, Republish,
        Resend, OnTaskPostrun, Ack, TypeOK
  <2>3. Unsent(t)' <=> Unsent(t)
    BY <1>5, SlotAlone DEF Unsent
  <2>4. QED
    BY <1>2, <1>5, <2>2, <2>3, SlotsDwindle, Dwindles
<1>6. ASSUME NEW w0 \in Slots, SlotStep(w0), exec[w0].task = t,
             ~OnTaskPrerun(w0), ~OnTaskPostrun(w0), broker' = broker
      PROVE  OneCarrier(t)'
  <2>1. job'[t] = job[t] \/ job'[t] = HandlePublish(t)
    BY <1>6, GuardedAlone
    DEF SlotStep, Load, Scrape, Commit, Retry, Republish, Resend, Ack
  <2>2. Unsent(t)' <=> Unsent(t)
    BY <1>6, SlotAlone DEF Unsent
  <2>3. QED
    BY <1>2, <1>6, <2>1, <2>2, SlotsDwindle, Dwindles
<1>7. ASSUME NEW w0 \in Slots, Resend(w0), exec[w0].task = t,
             broker' = [broker EXCEPT ![t][exec[w0].retries + 1] = @ + 1],
             Report(w0, "RETRY", "none")
      PROVE  OneCarrier(t)'
  <2> DEFINE r0 == exec[w0].retries
  <2>1. /\ exec[w0] \in Attempt /\ WillReport(w0, t)
        /\ r0 \in 0..MaxRetries /\ r0 < MaxRetries
    BY <1>7, BusyTyped DEF Resend, WillReport, Runs, StallFree
  <2>2. /\ ~Unsent(t) /\ \A r \in 0..MaxRetries : ~(broker[t][r] > 0)
        /\ \A v \in Slots : WillReport(v, t) => v = w0
        /\ Behind(t, r0)
    BY <1>2, <2>1 DEF OneCarrier
  <2>3. \A r \in 0..MaxRetries :
          broker'[t][r] = IF r = r0 + 1 THEN broker[t][r] + 1 ELSE broker[t][r]
    BY <1>2, <1>7, <2>1 DEF TypeOK
  <2>4. \A r \in 0..MaxRetries : broker'[t][r] = IF r = r0 + 1 THEN 1 ELSE 0
    BY <1>2, <2>2, <2>3
  <2>5. exec'[w0].pc = "postrun" /\ exec'[w0].state = "RETRY"
    BY <1>7, <2>1 DEF Report, TypeOK, Attempt
  <2>6. \A w \in Slots : ~WillReport(w, t)'
    <3>1. \A w \in Slots : WillReport(w, t)' => WillReport(w, t)
      BY <1>7, SlotsDwindle DEF SlotStep
    <3>2. QED
      BY <2>2, <2>5, <3>1 DEF WillReport
  <2>7. /\ ~Unsent(t)' /\ job' = job
    BY <1>7, <2>2 DEF Resend, Unsent
  <2>8. HasRow(t)' => ~Terminal(t)' /\ job'[t].retries <= r0 + 1
    <3>1. HasRow(t) => job[t].retries \in Nat
      BY RowTyped DEF Row
    <3>2. r0 \in Nat
      BY <2>1
    <3> HIDE DEF r0
    <3>3. HasRow(t) => job[t].retries <= r0 + 1 /\ ~Terminal(t)
      BY <2>2, <3>1, <3>2 DEF Behind
    <3>4. QED
      BY <2>7, <3>3 DEF HasRow, Terminal
  <2> HIDE DEF r0
  <2>9. \A r \in 0..MaxRetries : broker'[t][r] > 0 => r = r0 + 1
    BY <2>4
  <2>10. QED
    BY <2>4, <2>6, <2>7, <2>8, <2>9 DEF OneCarrier, Behind
<1>8. ASSUME NEW w0 \in Slots, OnTaskPrerun(w0) \/ OnTaskPostrun(w0),
             exec[w0].task = t
      PROVE  OneCarrier(t)'
  <2> DEFINE r0 == exec[w0].retries
  <2>1. /\ SlotStep(w0) /\ exec[w0] \in Attempt /\ broker' = broker
        /\ r0 \in 0..MaxRetries /\ dispatch' = dispatch
    BY <1>8, BusyTyped DEF OnTaskPrerun, OnTaskPostrun, SlotStep
  <2>2. Unsent(t)' <=> Unsent(t)
    BY <2>1 DEF Unsent
  <2>3. \A w \in Slots : WillReport(w, t)' =>
          WillReport(w, t) /\ exec'[w].retries = exec[w].retries
    BY <2>1, SlotsDwindle
  <2>4. CASE job'[t] = job[t]
    BY <1>2, <2>1, <2>2, <2>3, <2>4, Dwindles
  <2>5. CASE job'[t] # job[t]
    <3>1. HasRow(t) /\ job[t] \in Row /\ WillReport(w0, t)
      BY <1>8, <2>1, <2>5, GuardedAlone, RowTyped
      DEF OnTaskPrerun, OnTaskPostrun, HandlePrerun, HandlePostrun,
          WillReport, Runs
    <3>2. /\ ~Unsent(t) /\ \A r \in 0..MaxRetries : ~(broker[t][r] > 0)
          /\ \A v \in Slots : WillReport(v, t) => v = w0
      BY <1>2, <3>1 DEF OneCarrier
    <3>3. CASE OnTaskPrerun(w0)
      <4>1. job'[t].status = "started" /\ job'[t].retries = r0
        <5>1. job'[t] = HandlePrerun(t, r0)
          BY <1>8, <2>5, <3>3, GuardedAlone DEF OnTaskPrerun
        <5> HIDE DEF r0
        <5>2. QED
          BY <3>1, <5>1 DEF HandlePrerun, Row
      <4>2. ~Terminal(t)' /\ job'[t].retries <= r0
        BY <2>1, <4>1 DEF Terminal
      <4>3. \A w \in Slots : WillReport(w, t)' =>
              w = w0 /\ exec'[w].retries = r0
        BY <2>3, <3>2
      <4>4. QED
        BY <2>1, <2>2, <3>2, <4>2, <4>3 DEF OneCarrier, Behind
    <3>4. CASE OnTaskPostrun(w0)
      <4>1. exec'[w0].pc = "ack"
        BY <2>1, <3>4 DEF OnTaskPostrun, Goto, TypeOK, Attempt
      <4>2. \A w \in Slots : ~WillReport(w, t)'
        BY <2>3, <3>2, <4>1 DEF WillReport
      <4>3. QED
        BY <2>1, <2>2, <3>2, <4>2 DEF OneCarrier
    <3>5. QED
      BY <1>8, <3>3, <3>4
  <2>6. QED
    BY <2>4, <2>5
<1>9. CASE (\E p \in Products : DeleteProduct(p))
             \/ RetentionPasses \/ PruneScrapeJobs \/ UNCHANGED vars
  <2>1. /\ dispatch' = dispatch /\ broker' = broker /\ exec' = exec
    BY <1>9 DEF DeleteProduct, RetentionPasses, PruneScrapeJobs, vars
  <2>2. \/ job'[t] = job[t] \/ job'[t] = NoJob
        \/ HasRow(t) /\ job'[t] = [job[t] EXCEPT !.old = TRUE]
    BY <1>9 DEF DeleteProduct, RetentionPasses, PruneScrapeJobs, vars
  <2>3. /\ Unsent(t)' <=> Unsent(t)
        /\ \A w \in Slots : WillReport(w, t)' <=> WillReport(w, t)
    BY <2>1 DEF Unsent, WillReport, Runs
  <2>4. QED
    BY <1>2, <2>1, <2>2, <2>3, Dwindles
<1>10. ASSUME NEW w0 \in Slots, SlotStep(w0), exec[w0].task = t
       PROVE  OneCarrier(t)'
  <2>1. CASE OnTaskPrerun(w0) \/ OnTaskPostrun(w0)
    BY <1>8, <1>10, <2>1
  <2>2. CASE ~OnTaskPrerun(w0) /\ ~OnTaskPostrun(w0) /\ broker' = broker
    BY <1>6, <1>10, <2>2
  <2>3. CASE ~OnTaskPrerun(w0) /\ ~OnTaskPostrun(w0) /\ broker' # broker
    BY <1>7, <1>10, <2>3
    DEF SlotStep, Load, Scrape, Commit, Retry, Republish, Resend, Ack
  <2>4. QED
    BY <2>1, <2>2, <2>3
<1>11. QED
  BY <1>1, <1>3, <1>4, <1>5, <1>9, <1>10 DEF Next, Work, Environment

(* As long as no worker crashed, a row only moves forward: in status, in   *)
(* retries, and not at all once it is finished, whichever slots run the    *)
(* attempts and whatever is deleted, pruned and published again meanwhile. *)
THEOREM RowsMoveForward == Spec => RowMovesForward
<1> DEFINE Forward(t) ==
             HasRow(t) /\ HasRow(t)' =>
               /\ Rank(job[t]) <= Rank(job'[t])
               /\ job[t].retries <= job'[t].retries
               /\ Terminal(t) => [job'[t] EXCEPT !.old = job[t].old] = job[t]
<1>1. Init => Carried
  <2>1. NoJob.status = "absent" /\ Idle.pc = "idle"
    BY DEF NoJob, Idle
  <2> SUFFICES ASSUME Init, NEW t \in Tasks PROVE OneCarrier(t)
    BY DEF Carried
  <2>3. /\ \A r \in 0..MaxRetries : broker[t][r] = 0
        /\ \A w \in Slots : ~WillReport(w, t)
        /\ ~HasRow(t)
    <3>1. \A w \in Slots : exec[w] = Idle
      BY DEF Init
    <3>2. \A w \in Slots : ~WillReport(w, t)
      BY <2>1, <3>1 DEF WillReport, Runs
    <3>3. job[t] = NoJob /\ broker[t] = [r \in 0..MaxRetries |-> 0]
      BY DEF Init
    <3>4. QED
      BY <2>1, <3>2, <3>3 DEF HasRow
  <2>4. QED
    BY <2>3 DEF OneCarrier, Behind
<1>2. Init => StallFree
  BY DEF Init, StallFree, Idle, Open, NoJob
<1>3. Spec => [](TypeOK /\ StallFree /\ Carried)
  BY <1>1, <1>2, StallFreeStep, CarriedStep, TypeCorrect, PTL DEF Spec
<1>4. TypeOK /\ StallFree /\ Carried /\ [Next]_vars =>
        (crashes = 0 => \A t \in Tasks : Forward(t))
  <2> SUFFICES ASSUME TypeOK, Carried, [Next]_vars, crashes = 0,
                      NEW t \in Tasks, HasRow(t), HasRow(t)'
               PROVE  /\ Rank(job[t]) <= Rank(job'[t])
                      /\ job[t].retries <= job'[t].retries
                      /\ Terminal(t) =>
                           [job'[t] EXCEPT !.old = job[t].old] = job[t]
    OBVIOUS
  <2>1. job[t] \in Row /\ job[t].retries \in Nat
        /\ Rank(job[t]) \in {0, 1, 2}
    BY RowTyped DEF Row, Rank
  <2>2. OneCarrier(t)
    BY DEF Carried
  <2>3. CASE job'[t] = job[t]
    BY <2>1, <2>3 DEF Row
  <2>4. CASE job'[t] = [job[t] EXCEPT !.old = TRUE]
    <3>1. /\ job'[t].status = job[t].status
          /\ job'[t].retries = job[t].retries
          /\ [job'[t] EXCEPT !.old = job[t].old] = job[t]
      BY <2>1, <2>4 DEF Row
    <3>2. QED
      BY <2>1, <3>1 DEF Rank
  <2>5. CASE \E w \in Slots :
               /\ OnTaskPrerun(w) /\ exec[w].task = t
               /\ job'[t] = HandlePrerun(t, exec[w].retries)
    <3>1. PICK w \in Slots : /\ OnTaskPrerun(w) /\ exec[w].task = t
                             /\ job'[t] = HandlePrerun(t, exec[w].retries)
      BY <2>5
    <3>2. WillReport(w, t)
      BY <3>1 DEF OnTaskPrerun, WillReport, Runs
    <3>3. ~Terminal(t) /\ job[t].retries <= exec[w].retries
      BY <2>2, <3>2 DEF OneCarrier, Behind
    <3>4. job'[t].status = "started" /\ job'[t].retries = exec[w].retries
      BY <2>1, <3>1 DEF HandlePrerun, Row
    <3>5. Rank(job[t]) \in {0, 1} /\ Rank(job'[t]) = 1
      BY <2>1, <3>3, <3>4 DEF Rank, Terminal, Row
    <3>6. QED
      BY <3>3, <3>4, <3>5
  <2>6. CASE \E w \in Slots :
               /\ OnTaskPostrun(w) /\ exec[w].task = t
               /\ job'[t] = HandlePostrun(t, exec[w].retries, exec[w].state,
                                          exec[w].retval)
    <3>1. PICK w \in Slots :
               /\ OnTaskPostrun(w) /\ exec[w].task = t
               /\ job'[t] = HandlePostrun(t, exec[w].retries, exec[w].state,
                                          exec[w].retval)
      BY <2>6
    <3>2. CASE exec[w].state = "RETRY"
      BY <2>3, <3>1, <3>2 DEF HandlePostrun
    <3>3. CASE exec[w].state # "RETRY"
      <4>1. WillReport(w, t)
        BY <3>1, <3>3 DEF OnTaskPostrun, WillReport, Runs
      <4>2. ~Terminal(t) /\ job[t].retries <= exec[w].retries
        BY <2>2, <4>1 DEF OneCarrier, Behind
      <4>3. /\ job'[t].retries = exec[w].retries
            /\ job'[t].status =
                 FoldOutcome(exec[w].state, exec[w].retval).status
        BY <2>1, <3>1, <3>3 DEF HandlePostrun, Row
      <4>4. Rank(job'[t]) = 2
        BY <4>3 DEF FoldOutcome, Rank
      <4>5. QED
        BY <2>1, <4>2, <4>3, <4>4
    <3>4. QED
      BY <3>2, <3>3
  <2>7. job'[t] = HandlePublish(t) => job'[t] = job[t]
    BY DEF HandlePublish
  <2>8. job'[t] # NoJob
    BY DEF HasRow, NoJob
  <2>9. QED
    BY <2>3, <2>4, <2>5, <2>6, <2>7, <2>8, RowChanges
<1>5. QED
  BY <1>3, <1>4, PTL DEF Spec, RowMovesForward
-----------------------------------------------------------------------------
(* The deliveries a task has had and may still have, as a set of tokens: a *)
(* delivery that was made holds one, and whatever carries the task holds   *)
(* one for each retry it may still come to.  An attempt holds none once    *)
(* it has reported.                                                        *)

Block(kind, a, b, first) == {<<kind, a, b, k>> : k \in first..MaxRetries}

Trying(w, t) == Runs(w, t) /\ exec[w].pc \notin {"postrun", "ack"}

Made(t)    == {<<"made", i, 0, 0>> : i \in 1..attempts[t]}
Unspent(t) == IF Unsent(t) THEN Block("unsent", 0, 0, 0) ELSE {}
Waiting(t) == UNION {Block("waiting", c[1], c[2], c[1]) :
                       c \in {d \in (0..MaxRetries) \X Nat :
                                d[2] \in 1..broker[t][d[1]]}}
Running(t) == UNION {Block("running", w, 0, exec[w].retries + 1) :
                       w \in {v \in Slots : Trying(v, t)}}

Tokens(t) == Made(t) \cup Unspent(t) \cup Waiting(t) \cup Running(t)

(* A crash may have one message delivered again, with all its retries.     *)
Budgeted ==
  \A t \in Tasks :
    /\ IsFiniteSet(Tokens(t))
    /\ Cardinality(Tokens(t)) <= (MaxRetries + 1) * (crashes + 1)

LEMMA BlockSize ==
  ASSUME NEW kind, NEW a, NEW b, NEW first \in 0..MaxRetries + 1
  PROVE  /\ IsFiniteSet(Block(kind, a, b, first))
         /\ Cardinality(Block(kind, a, b, first)) = MaxRetries + 1 - first
<1> DEFINE B == Block(kind, a, b, first)
           f == [k \in first..MaxRetries |-> <<kind, a, b, k>>]
<1>1. MaxRetries \in Int /\ first \in Int /\ first <= MaxRetries + 1
  BY ConstantsAssumption
<1>2. /\ IsFiniteSet(first..MaxRetries)
      /\ Cardinality(first..MaxRetries) = MaxRetries + 1 - first
  <2>1. /\ IsFiniteSet(first..MaxRetries)
        /\ Cardinality(first..MaxRetries) =
             IF first > MaxRetries THEN 0 ELSE MaxRetries - first + 1
    BY <1>1, FS_Interval
  <2>2. QED
    BY <1>1, <2>1
<1>3. f \in Bijection(first..MaxRetries, B)
  BY DEF Block, Bijection, Injection, IsInjective, Surjection
<1>4. ExistsBijection(first..MaxRetries, B)
  BY <1>3 DEF ExistsBijection
<1>5. QED
  BY <1>2, <1>4, FS_Bijection

(* Some elements are exchanged for others.                                 *)
LEMMA Exchange ==
  ASSUME NEW S, NEW T, NEW old, NEW new, NEW extra \in Nat,
         IsFiniteSet(S), IsFiniteSet(new), old \subseteq S,
         T \subseteq (S \ old) \cup new,
         Cardinality(new) <= Cardinality(old) + extra
  PROVE  IsFiniteSet(T) /\ Cardinality(T) <= Cardinality(S) + extra
<1> DEFINE rest == S \ old
<1>1. /\ IsFiniteSet(old) /\ IsFiniteSet(rest) /\ S \cap old = old
      /\ Cardinality(rest) = Cardinality(S) - Cardinality(S \cap old)
  BY FS_Subset, FS_Difference
<1>2. /\ IsFiniteSet(rest \cup new) /\ IsFiniteSet(rest \cap new)
      /\ Cardinality(rest \cup new) = Cardinality(rest) + Cardinality(new)
                                        - Cardinality(rest \cap new)
  BY <1>1, FS_Union, FS_Intersection
<1>3. IsFiniteSet(T) /\ Cardinality(T) <= Cardinality(rest \cup new)
  BY <1>2, FS_Subset
<1>4. /\ Cardinality(S) \in Nat /\ Cardinality(old) \in Nat
      /\ Cardinality(rest) \in Nat /\ Cardinality(new) \in Nat
      /\ Cardinality(rest \cap new) \in Nat
      /\ Cardinality(rest \cup new) \in Nat /\ Cardinality(T) \in Nat
  BY <1>1, <1>2, <1>3, FS_CardinalityType
<1>5. Cardinality(rest) = Cardinality(S) - Cardinality(old)
  BY <1>1
<1> HIDE DEF rest
<1>6. QED
  BY <1>2, <1>3, <1>4, <1>5

(* Each part of the set holds tokens of its own kind.                      *)
LEMMA Kinds ==
  ASSUME NEW t
  PROVE  /\ \A x \in Made(t) : x[1] = "made"
         /\ \A x \in Unspent(t) : x[1] = "unsent"
         /\ \A x \in Waiting(t) : x[1] = "waiting"
         /\ \A x \in Running(t) : x[1] = "running"
         /\ \A kind, a, b, first : \A x \in Block(kind, a, b, first) :
              x[1] = kind
<1>1. \A kind, a, b, first : \A x \in Block(kind, a, b, first) : x[1] = kind
  BY DEF Block
<1>2. QED
  BY <1>1 DEF Made, Unspent, Waiting, Running

LEMMA WaitingMore ==
  ASSUME TypeOK, NEW t \in Tasks, NEW r \in 0..MaxRetries,
         \A q \in 0..MaxRetries :
           broker'[t][q] = IF q = r THEN broker[t][q] + 1 ELSE broker[t][q]
  PROVE  Waiting(t)' \subseteq
           Waiting(t) \cup Block("waiting", r, broker[t][r] + 1, r)
<1>1. \A q \in 0..MaxRetries : broker[t][q] \in Nat
  BY DEF TypeOK
<1>2. ASSUME NEW x \in Waiting(t)'
      PROVE  x \in Waiting(t) \cup Block("waiting", r, broker[t][r] + 1, r)
  <2>1. PICK q \in 0..MaxRetries, i \in Nat :
          i \in 1..broker'[t][q] /\ x \in Block("waiting", q, i, q)
    BY <1>2 DEF Waiting, Block
  <2>2. i \in 1..broker[t][q] \/ (q = r /\ i = broker[t][r] + 1)
    BY <1>1, <2>1
  <2>3. CASE i \in 1..broker[t][q]
    <3>1. <<q, i>> \in {d \in (0..MaxRetries) \X Nat :
                          d[2] \in 1..broker[t][d[1]]}
      BY <2>1, <2>3
    <3>2. QED
      BY <2>1, <3>1 DEF Waiting
  <2>4. QED
    BY <2>1, <2>2, <2>3
<1>3. QED
  BY <1>2

LEMMA WaitingLess ==
  ASSUME TypeOK, NEW t \in Tasks, NEW r \in 0..MaxRetries, broker[t][r] > 0,
         \A q \in 0..MaxRetries :
           broker'[t][q] = IF q = r THEN broker[t][q] - 1 ELSE broker[t][q]
  PROVE  /\ Waiting(t)' \subseteq
              Waiting(t) \ Block("waiting", r, broker[t][r], r)
         /\ Block("waiting", r, broker[t][r], r) \subseteq Waiting(t)
<1>1. \A q \in 0..MaxRetries : broker[t][q] \in Nat
  BY DEF TypeOK
<1>2. ASSUME NEW x \in Waiting(t)'
      PROVE  x \in Waiting(t) \ Block("waiting", r, broker[t][r], r)
  <2>1. PICK q \in 0..MaxRetries, i \in Nat :
          i \in 1..broker'[t][q] /\ x \in Block("waiting", q, i, q)
    BY <1>2 DEF Waiting, Block
  <2>2. i \in 1..broker[t][q] /\ ~(q = r /\ i = broker[t][r])
    BY <1>1, <2>1
  <2>3. <<q, i>> \in {d \in (0..MaxRetries) \X Nat :
                        d[2] \in 1..broker[t][d[1]]}
    BY <2>1, <2>2
  <2>4. x \in Waiting(t)
    BY <2>1, <2>3 DEF Waiting
  <2>5. x[2] = q /\ x[3] = i
    BY <2>1 DEF Block
  <2>6. \A y \in Block("waiting", r, broker[t][r], r) :
          y[2] = r /\ y[3] = broker[t][r]
    BY DEF Block
  <2>7. QED
    BY <2>2, <2>4, <2>5, <2>6
<1>3. <<r, broker[t][r]>> \in {d \in (0..MaxRetries) \X Nat :
                                 d[2] \in 1..broker[t][d[1]]}
  BY <1>1
<1>4. Block("waiting", r, broker[t][r], r) \subseteq Waiting(t)
  BY <1>3 DEF Waiting
<1>5. QED
  BY <1>2, <1>4

LEMMA WaitingSame ==
  ASSUME NEW t, broker'[t] = broker[t]
  PROVE  Waiting(t)' = Waiting(t)
BY DEF Waiting

LEMMA RunningLess ==
  ASSUME NEW t,
         \A w \in Slots : Trying(w, t)' =>
           Trying(w, t) /\ exec'[w].retries = exec[w].retries
  PROVE  Running(t)' \subseteq Running(t)
BY DEF Running

(* Slots end attempts or go on with them.                                  *)
LEMMA TryingKeeps ==
  ASSUME TypeOK, NEW t \in Tasks, NEW w0 \in Slots,
         SlotStep(w0) \/ Crash(w0)
  PROVE  \A w \in Slots : Trying(w, t)' =>
           Trying(w, t) /\ exec'[w].retries = exec[w].retries
<1>1. exec[w0] \in Attempt /\ \A w \in Slots \ {w0} : exec'[w] = exec[w]
  BY SlotAlone, BusyTyped
<1>2. \A w \in Slots \ {w0} : Trying(w, t)' <=> Trying(w, t)
  BY <1>1 DEF Trying, Runs
<1>3. CASE Ack(w0) \/ Crash(w0)
  <2>1. ~Trying(w0, t)'
    BY <1>3 DEF Ack, Crash, Trying, Runs, Idle, TypeOK
  <2>2. QED
    BY <1>1, <1>2, <2>1
<1>4. CASE SlotStep(w0) /\ ~Ack(w0)
  <2>1. /\ exec'[w0].task = exec[w0].task
        /\ exec'[w0].retries = exec[w0].retries
        /\ exec[w0].pc # "idle" /\ exec[w0].pc # "ack"
        /\ exec[w0].pc = "postrun" => exec'[w0].pc = "ack"
    BY <1>1, <1>4
    DEF SlotStep, OnTaskPrerun, Load, Scrape, Commit, Retry, Republish,
        Resend, OnTaskPostrun, Goto, Report, TypeOK, Attempt
  <2>2. Trying(w0, t)' => Trying(w0, t) /\ exec'[w0].retries = exec[w0].retries
    BY <2>1 DEF Trying, Runs
  <2>3. QED
    BY <1>1, <1>2, <2>2
<1>5. QED
  BY <1>3, <1>4

LEMMA BudgetedStep == TypeOK /\ StallFree /\ Budgeted /\ [Next]_vars => Budgeted'
<1> SUFFICES ASSUME TypeOK, StallFree, Budgeted, [Next]_vars, NEW t \in Tasks
             PROVE  (/\ IsFiniteSet(Tokens(t))
                     /\ Cardinality(Tokens(t)) <=
                          (MaxRetries + 1) * (crashes + 1))'
  BY DEF Budgeted
<1> DEFINE M == MaxRetries
           S == Tokens(t)
           Goal == IsFiniteSet(S) /\ Cardinality(S) <= (M + 1) * (crashes + 1)
<1>1. /\ M \in Nat /\ crashes \in Nat
      /\ IsFiniteSet(S) /\ Cardinality(S) \in Nat
      /\ Cardinality(S) <= (M + 1) * (crashes + 1)
      /\ broker[t] \in [0..M -> Nat]
  BY ConstantsAssumption, FS_CardinalityType DEF Budgeted, TypeOK
<1>2. /\ (M + 1) * (crashes + 1) \in Nat /\ (M + 1) * (crashes + 2) \in Nat
      /\ (M + 1) * (crashes + 2) = (M + 1) * (crashes + 1) + (M + 1)
  <2> HIDE DEF M
  <2>1. \A a, b \in Nat : /\ a * (b + 1) \in Nat /\ a * (b + 2) \in Nat
                          /\ a * (b + 2) = a * (b + 1) + a
    OBVIOUS
  <2>2. M + 1 \in Nat
    BY <1>1
  <2>3. QED
    BY <1>1, <2>1, <2>2
<1>3. ASSUME NEW old, NEW new, IsFiniteSet(new), old \subseteq S,
             S' \subseteq (S \ old) \cup new,
             Cardinality(new) <= Cardinality(old), crashes' = crashes
      PROVE  Goal'
  <2>1. IsFiniteSet(old) /\ Cardinality(old) \in Nat /\ Cardinality(new) \in Nat
    BY <1>1, <1>3, FS_Subset, FS_CardinalityType
  <2>2. Cardinality(new) <= Cardinality(old) + 0
    BY <1>3, <2>1
  <2>3. IsFiniteSet(S') /\ Cardinality(S') <= Cardinality(S) + 0
    BY <1>1, <1>3, <2>2, Exchange
  <2>4. Cardinality(S') \in Nat
    BY <2>3, FS_CardinalityType
  <2> HIDE DEF S, M
  <2>5. QED
    BY <1>1, <1>2, <1>3, <2>3, <2>4
<1>4. ASSUME NEW new, IsFiniteSet(new), S' \subseteq S \cup new,
             Cardinality(new) <= M + 1, crashes' = crashes + 1
      PROVE  Goal'
  <2>1. S' \subseteq (S \ {}) \cup new /\ Cardinality(new) <= Cardinality({}) + (M + 1)
        /\ M + 1 \in Nat
    BY <1>1, <1>4, FS_EmptySet
  <2>2. IsFiniteSet(S') /\ Cardinality(S') <= Cardinality(S) + (M + 1)
    <3> HIDE DEF S, M
    <3>1. QED
      BY <1>1, <1>4, <2>1, Exchange
  <2>3. Cardinality(S') \in Nat
    BY <2>2, FS_CardinalityType
  <2>4. crashes' + 1 = crashes + 2
    BY <1>1, <1>4
  <2> HIDE DEF S, M
  <2>5. QED
    BY <1>1, <1>2, <2>2, <2>3, <2>4
<1>5. ASSUME S' \subseteq S, crashes' \in {crashes, crashes + 1} PROVE Goal'
  <2>1. IsFiniteSet({}) /\ Cardinality({}) = 0
    BY FS_EmptySet
  <2>2. CASE crashes' = crashes
    BY <1>3, <1>5, <2>1, <2>2
  <2>3. CASE crashes' = crashes + 1
    BY <1>1, <1>4, <1>5, <2>1, <2>3
  <2>4. QED
    BY <1>5, <2>2, <2>3
<1>6. ASSUME attempts'[t] = attempts[t], Unsent(t)' => Unsent(t)
      PROVE  Made(t)' = Made(t) /\ Unspent(t)' \subseteq Unspent(t)
  BY <1>6 DEF Made, Unspent, Block
<1>7. ASSUME attempts'[t] = attempts[t], Unsent(t)' => Unsent(t),
             broker'[t] = broker[t],
             \A w \in Slots : Trying(w, t)' =>
               Trying(w, t) /\ exec'[w].retries = exec[w].retries
      PROVE  S' \subseteq S
  BY <1>6, <1>7, WaitingSame, RunningLess DEF Tokens
<1>8. ASSUME NEW u \in Tasks,
             BeforeTaskPublish(u) \/ Send(u) \/ SendFails(u)
      PROVE  Goal'
  <2>1. /\ attempts' = attempts /\ exec' = exec /\ crashes' = crashes
        /\ Unsent(t)' => Unsent(t)
    BY <1>8 DEF BeforeTaskPublish, Send, SendFails, Unsent, TypeOK
  <2>2. \A w \in Slots : Trying(w, t)' =>
          Trying(w, t) /\ exec'[w].retries = exec[w].retries
    BY <2>1 DEF Trying, Runs
  <2>3. CASE Send(u) /\ u = t
    <3> DEFINE old == Block("unsent", 0, 0, 0)
               new == Block("waiting", 0, broker[t][0] + 1, 0)
    <3>1. /\ Unsent(t) /\ ~Unsent(t)' /\ 0 \in 0..M /\ 0 \in 0..M + 1
          /\ \A q \in 0..M :
               broker'[t][q] = IF q = 0 THEN broker[t][q] + 1 ELSE broker[t][q]
      BY <1>1, <2>3 DEF Send, Unsent, TypeOK
    <3>2. /\ IsFiniteSet(new) /\ Cardinality(new) = M + 1 - 0
          /\ Cardinality(old) = M + 1 - 0
      BY <3>1, BlockSize
    <3>3. Waiting(t)' \subseteq Waiting(t) \cup new
      BY <3>1, WaitingMore
    <3>4. /\ Made(t)' = Made(t) /\ Unspent(t)' = {} /\ Unspent(t) = old
          /\ Running(t)' \subseteq Running(t)
      BY <2>1, <2>2, <3>1, <1>6, RunningLess DEF Unspent
    <3>5. \A x \in Made(t) \cup Waiting(t) \cup Running(t) : x \notin old
      BY Kinds
    <3> HIDE DEF old, new
    <3>6. old \subseteq S /\ S' \subseteq (S \ old) \cup new
      BY <3>3, <3>4, <3>5 DEF Tokens
    <3>7. Cardinality(new) <= Cardinality(old)
      BY <1>1, <3>2
    <3>8. QED
      BY <1>3, <2>1, <3>2, <3>6, <3>7
  <2>4. CASE ~(Send(u) /\ u = t)
    <3>1. broker'[t] = broker[t]
      BY <1>8, <2>4 DEF BeforeTaskPublish, Send, SendFails, TypeOK
    <3>2. QED
      BY <1>5, <1>7, <2>1, <2>2, <3>1
  <2>5. QED
    BY <2>3, <2>4
<1>9. ASSUME NEW w0 \in Slots, NEW u \in Tasks, NEW r0 \in 0..MaxRetries,
             Deliver(w0, u, r0)
      PROVE  Goal'
  <2>1. /\ dispatch' = dispatch /\ crashes' = crashes
        /\ \A w \in Slots \ {w0} : exec'[w] = exec[w]
        /\ exec'[w0].task = u /\ exec'[w0].retries = r0
        /\ exec'[w0].pc = "prerun" /\ exec[w0].pc = "idle"
        /\ Unsent(t)' <=> Unsent(t)
    BY <1>9 DEF Deliver, TypeOK, Unsent
  <2>2. \A w \in Slots \ {w0} : Trying(w, t)' =>
          Trying(w, t) /\ exec'[w].retries = exec[w].retries
    BY <2>1 DEF Trying, Runs
  <2>3. CASE u # t
    <3>1. /\ broker'[t] = broker[t] /\ attempts'[t] = attempts[t]
          /\ ~Trying(w0, t)'
      BY <1>9, <2>1, <2>3 DEF Deliver, Trying, Runs, TypeOK
    <3>2. QED
      BY <1>5, <1>7, <2>1, <2>2, <3>1
  <2>4. CASE u = t
    <3> DEFINE old == Block("waiting", r0, broker[t][r0], r0)
               run == Block("running", w0, 0, r0 + 1)
               made == <<"made", attempts[t] + 1, 0, 0>>
               new == run \cup {made}
    <3>1. /\ broker[t][r0] > 0 /\ attempts[t] \in Nat
          /\ attempts'[t] = attempts[t] + 1
          /\ \A q \in 0..M :
               broker'[t][q] = IF q = r0 THEN broker[t][q] - 1
                                         ELSE broker[t][q]
      BY <1>1, <1>9, <2>4 DEF Deliver, TypeOK
    <3>2. Waiting(t)' \subseteq Waiting(t) \ old /\ old \subseteq Waiting(t)
      BY <3>1, WaitingLess
    <3>3. Made(t)' \subseteq Made(t) \cup {made}
      BY <3>1 DEF Made
    <3>4. Unspent(t)' = Unspent(t)
      BY <2>1 DEF Unspent, Block
    <3>5. Running(t)' \subseteq Running(t) \cup run
      <4>1. ASSUME NEW x \in Running(t)' PROVE x \in Running(t) \cup run
        <5>1. PICK w \in Slots : Trying(w, t)'
                /\ x \in Block("running", w, 0, exec'[w].retries + 1)
          BY <4>1 DEF Running, Block
        <5>2. CASE w = w0
          BY <2>1, <5>1, <5>2
        <5>3. CASE w # w0
          BY <2>2, <5>1, <5>3 DEF Running
        <5>4. QED
          BY <5>2, <5>3
      <4>2. QED
        BY <4>1
    <3>6. /\ \A x \in Made(t) \cup Unspent(t) \cup Running(t) : x \notin old
      BY Kinds
    <3>7. /\ IsFiniteSet(run) /\ Cardinality(run) = M + 1 - (r0 + 1)
          /\ IsFiniteSet(old) /\ Cardinality(old) = M + 1 - r0
      <4>1. r0 \in 0..M + 1 /\ r0 + 1 \in 0..M + 1
        BY <1>1
      <4>2. QED
        BY <4>1, BlockSize
    <3>8. IsFiniteSet(new) /\ Cardinality(new) <= Cardinality(run) + 1
      <4>1. IsFiniteSet(run) /\ Cardinality(run) \in Nat
        BY <3>7, FS_CardinalityType
      <4> HIDE DEF run, made
      <4>2. /\ IsFiniteSet(run \cup {made})
            /\ Cardinality(run \cup {made}) =
                 IF made \in run THEN Cardinality(run) ELSE Cardinality(run) + 1
        BY <4>1, FS_AddElement
      <4>3. QED
        BY <4>1, <4>2
    <3>9. IsFiniteSet(new) /\ Cardinality(new) <= Cardinality(old)
      BY <1>1, <3>7, <3>8, FS_CardinalityType
    <3> HIDE DEF old, run, made
    <3>10. old \subseteq S /\ S' \subseteq (S \ old) \cup new
      BY <3>2, <3>3, <3>4, <3>5, <3>6 DEF Tokens
    <3> HIDE DEF new
    <3>11. QED
      BY <1>3, <2>1, <3>9, <3>10
  <2>5. QED
    BY <2>3, <2>4
<1>10. ASSUME NEW w0 \in Slots, SlotStep(w0) \/ Crash(w0),
              broker'[t] = broker[t]
       PROVE  Goal'
  <2>1. /\ attempts' = attempts /\ crashes' \in {crashes, crashes + 1}
        /\ Unsent(t)' <=> Unsent(t)
    BY <1>10 DEF SlotStep, OnTaskPrerun, Load, Scrape, Commit, Retry,
       Republish, Resend, OnTaskPostrun, Ack, Crash, Unsent
  <2>2. QED
    BY <1>5, <1>7, <1>10, <2>1, TryingKeeps
<1>11. ASSUME NEW w0 \in Slots, Resend(w0), exec[w0].task = t,
              broker' = [broker EXCEPT ![t][exec[w0].retries + 1] = @ + 1],
              Report(w0, "RETRY", "none")
       PROVE  Goal'
  <2> DEFINE r0 == exec[w0].retries
             old == Block("running", w0, 0, r0 + 1)
             new == Block("waiting", r0 + 1, broker[t][r0 + 1] + 1, r0 + 1)
  <2>1. /\ exec[w0] \in Attempt /\ Trying(w0, t)
        /\ r0 \in 0..MaxRetries /\ r0 < MaxRetries
        /\ r0 + 1 \in 0..M /\ r0 + 1 \in 0..M + 1
    BY <1>1, <1>11, BusyTyped DEF Resend, Trying, Runs, StallFree
  <2>2. \A q \in 0..M :
          broker'[t][q] = IF q = r0 + 1 THEN broker[t][q] + 1 ELSE broker[t][q]
    BY <1>1, <1>11, <2>1 DEF TypeOK
  <2>3. /\ attempts' = attempts /\ crashes' = crashes
        /\ Unsent(t)' <=> Unsent(t)
        /\ exec'[w0].pc = "postrun"
    BY <1>11, <2>1 DEF Resend, Unsent, Report, TypeOK, Attempt
  <2>4. \A w \in Slots : Trying(w, t)' =>
          w # w0 /\ Trying(w, t) /\ exec'[w].retries = exec[w].retries
    <3>1. ~Trying(w0, t)'
      BY <2>3 DEF Trying
    <3>2. QED
      BY <1>11, <3>1, TryingKeeps DEF SlotStep
  <2>5. /\ IsFiniteSet(new) /\ Cardinality(new) = M + 1 - (r0 + 1)
        /\ Cardinality(old) = M + 1 - (r0 + 1)
    BY <2>1, BlockSize
  <2>6. Waiting(t)' \subseteq Waiting(t) \cup new
    BY <2>1, <2>2, WaitingMore
  <2>7. old \subseteq Running(t)
    BY <2>1 DEF Running
  <2>8. Running(t)' \subseteq Running(t) \ old
    <3>1. ASSUME NEW x \in Running(t)' PROVE x \in Running(t) \ old
      <4>1. PICK w \in Slots : Trying(w, t)'
              /\ x \in Block("running", w, 0, exec'[w].retries + 1)
        BY <3>1 DEF Running, Block
      <4>2. w # w0 /\ Trying(w, t) /\ x \in Block("running", w, 0, exec[w].retries + 1)
        BY <2>4, <4>1
      <4>3. x[2] = w /\ \A y \in old : y[2] = w0
        BY <4>2 DEF Block
      <4>4. x \in Running(t)
        BY <4>2 DEF Running
      <4>5. QED
        BY <4>2, <4>3, <4>4
    <3>2. QED
      BY <3>1
  <2>9. Made(t)' = Made(t) /\ Unspent(t)' \subseteq Unspent(t)
    BY <1>6, <2>3
  <2>10. \A x \in Made(t) \cup Unspent(t) \cup Waiting(t) : x \notin old
    BY Kinds
  <2> HIDE DEF old, new
  <2>11. old \subseteq S /\ S' \subseteq (S \ old) \cup new
    BY <2>6, <2>7, <2>8, <2>9, <2>10 DEF Tokens
  <2>12. Cardinality(new) <= Cardinality(old)
    <3>1. Cardinality(new) \in Nat
      BY <2>5, FS_CardinalityType
    <3>2. QED
      BY <2>5, <3>1
  <2>13. QED
    BY <1>3, <2>3, <2>5, <2>11, <2>12
<1>12. ASSUME NEW w0 \in Slots, Crash(w0), exec[w0].task = t
       PROVE  Goal'
  <2> DEFINE r0 == exec[w0].retries
             new == Block("waiting", r0, broker[t][r0] + 1, r0)
  <2>1. r0 \in 0..M /\ r0 \in 0..M + 1
    BY <1>1, <1>12, BusyTyped DEF Crash
  <2>2. /\ \A q \in 0..M : broker'[t][q] = IF q = r0 THEN broker[t][q] + 1
                                                     ELSE broker[t][q]
        /\ attempts' = attempts /\ crashes' = crashes + 1
        /\ Unsent(t)' <=> Unsent(t)
    BY <1>1, <1>12, <2>1 DEF Crash, Unsent, TypeOK
  <2>3. IsFiniteSet(new) /\ Cardinality(new) = M + 1 - r0
    BY <2>1, BlockSize
  <2>4. Waiting(t)' \subseteq Waiting(t) \cup new
    BY <2>1, <2>2, WaitingMore
  <2>5. Running(t)' \subseteq Running(t)
    BY <1>12, TryingKeeps, RunningLess
  <2>6. Made(t)' = Made(t) /\ Unspent(t)' \subseteq Unspent(t)
    BY <1>6, <2>2
  <2> HIDE DEF new
  <2>7. S' \subseteq S \cup new
    BY <2>4, <2>5, <2>6 DEF Tokens
  <2>8. Cardinality(new) <= M + 1
    BY <1>1, <2>1, <2>3
  <2>9. QED
    BY <1>4, <2>2, <2>3, <2>7, <2>8
<1>13. CASE (\E p \in Products : DeleteProduct(p))
              \/ RetentionPasses \/ PruneScrapeJobs \/ UNCHANGED vars
  <2>1. UNCHANGED <<dispatch, broker, exec, attempts, crashes>>
    BY <1>13 DEF DeleteProduct, RetentionPasses, PruneScrapeJobs, vars
  <2>2. S' \subseteq S
    BY <1>7, <2>1 DEF Unsent, Trying, Runs
  <2>3. QED
    BY <1>5, <2>1, <2>2
<1>14. ASSUME NEW w0 \in Slots, SlotStep(w0) \/ Crash(w0) PROVE Goal'
  <2>1. exec[w0].task \in Tasks
    BY <1>14, SlotAlone, BusyTyped
  <2>2. \/ broker'[t] = broker[t]
        \/ Crash(w0) /\ exec[w0].task = t
        \/ /\ Resend(w0) /\ exec[w0].task = t
           /\ broker' = [broker EXCEPT ![t][exec[w0].retries + 1] = @ + 1]
           /\ Report(w0, "RETRY", "none")
    BY <1>14, <2>1 DEF SlotStep, OnTaskPrerun, Load, Scrape, Commit, Retry,
       Republish, Resend, OnTaskPostrun, Ack, Crash, TypeOK
  <2>3. QED
    BY <1>10, <1>11, <1>12, <1>14, <2>2
<1>15. QED
  BY <1>8, <1>9, <1>13, <1>14 DEF Next, Work, Environment

(* The retry policy bounds how often a task is run: max_retries + 1 times, *)
(* and as often again for every crash that had a message delivered again,  *)
(* a message whose retry had already been sent included.                   *)
THEOREM AttemptsAreBounded == Spec => []AttemptsBounded
<1>1. Init => Budgeted
  <2> SUFFICES ASSUME Init, NEW t \in Tasks
               PROVE  /\ IsFiniteSet(Tokens(t))
                      /\ Cardinality(Tokens(t)) <=
                           (MaxRetries + 1) * (crashes + 1)
    BY DEF Budgeted
  <2>1. Idle.pc = "idle" /\ \A w \in Slots : exec[w] = Idle
    BY DEF Init, Idle
  <2>2. Running(t) = {}
    BY <2>1 DEF Running, Trying, Runs
  <2>3. Waiting(t) = {}
    <3>1. \A q \in 0..MaxRetries : broker[t][q] = 0
      BY DEF Init
    <3>2. QED
      BY <3>1 DEF Waiting
  <2>4. Made(t) = {}
    BY DEF Init, Made
  <2>5. Unspent(t) = Block("unsent", 0, 0, 0)
    BY DEF Init, Unspent, Unsent
  <2>6. Tokens(t) = Block("unsent", 0, 0, 0)
    BY <2>2, <2>3, <2>4, <2>5 DEF Tokens
  <2>7. /\ IsFiniteSet(Tokens(t)) /\ Cardinality(Tokens(t)) = MaxRetries + 1
    BY <2>6, BlockSize, ConstantsAssumption
  <2>8. crashes = 0
    BY DEF Init
  <2>9. QED
    BY <2>7, <2>8, ConstantsAssumption
<1>2. Init => StallFree
  BY DEF Init, StallFree, Idle, Open, NoJob
<1>3. TypeOK /\ Budgeted => AttemptsBounded
  <2> SUFFICES ASSUME TypeOK, Budgeted, NEW t \in Tasks
               PROVE  attempts[t] <= (MaxRetries + 1) * (crashes + 1)
    BY DEF AttemptsBounded
  <2> DEFINE a == attempts[t]
             f == [i \in 1..a |-> <<"made", i, 0, 0>>]
  <2>1. a \in Nat /\ IsFiniteSet(Tokens(t))
        /\ Cardinality(Tokens(t)) <= (MaxRetries + 1) * (crashes + 1)
    BY DEF TypeOK, Budgeted
  <2>2. f \in Injection(1..a, Tokens(t))
    BY DEF Tokens, Made, Injection, IsInjective
  <2>3. Cardinality(1..a) <= Cardinality(Tokens(t))
    BY <2>1, <2>2, FS_Injection
  <2>4. Cardinality(1..a) = a
    <3> HIDE DEF a
    <3>1. 1 \in Int /\ a \in Int
      BY <2>1
    <3>2. Cardinality(1..a) = IF 1 > a THEN 0 ELSE a - 1 + 1
      BY <3>1, FS_Interval
    <3>3. QED
      BY <2>1, <3>2
  <2>5. Cardinality(Tokens(t)) \in Nat /\ (MaxRetries + 1) * (crashes + 1) \in Int
    <3>1. MaxRetries + 1 \in Int /\ crashes + 1 \in Int
      BY ConstantsAssumption DEF TypeOK
    <3>2. QED
      BY <2>1, <3>1, FS_CardinalityType
  <2> HIDE DEF a
  <2>6. QED
    BY <2>1, <2>3, <2>4, <2>5 DEF a
<1>4. QED
  BY <1>1, <1>2, <1>3, StallFreeStep, BudgetedStep, TypeCorrect, PTL DEF Spec
=============================================================================
