------------------------ MODULE SelectorHealingProofs ------------------------
(***************************************************************************)
(* What the self-healing loop of a host keeps, for every number of         *)
(* scrapes, regeneration slots and reports, every budget, and any drifts,  *)
(* faults and lost messages.                                               *)
(***************************************************************************)
EXTENDS SelectorHealing, FiniteSetTheorems, TLAPS

-----------------------------------------------------------------------------
(* The inductive invariant.                                                *)

(* The sessions that have read the row and not ended; the attempts.        *)
Reading(x) == session[x].pc \in {"commit", "attempt", "generate"}
Attempters == {r \in Regens : Attempting(r)}
RowOf(x)   == session[x].row

(* What a scrape or a report makes of the row it read.                     *)
Marked(x, row) ==
  MarkStale(IF x \in Reporters THEN ReviveForReport(row) ELSE row)

(* Who has the row open, and what is in it; no row is read before one is   *)
(* committed but by the session that inserts it.                           *)
Rows ==
  /\ profile.status = "absent" => profile = NoProfile
  /\ inserting # {} => profile = NoProfile
  /\ \A x \in inserting : Reading(x) /\ RowOf(x) = Placeholder
  /\ \A x, y \in inserting : x = y
  /\ \A x \in Sessions :
       /\ Reading(x) /\ x \notin inserting => profile.status # "absent"
       /\ session[x].pc = "commit" => session[x].obj = Marked(x, RowOf(x))
       /\ Attempting(x) => /\ x \in Regens
                           /\ session[x].obj = RowOf(x)
                           /\ RegenerationAllowed(RowOf(x))

(* What an attempt read is at most one promotion old, and it validates on  *)
(* the markup it fetched after it read the row.                            *)
Numbered ==
  /\ profile.version > 0 <=> profile.selector # 0
  /\ profile.selector <= page
  /\ \A r \in Attempters :
       /\ RowOf(r).version <= profile.version
       /\ profile.version <= RowOf(r).version + 1
       /\ RowOf(r).selector # 0 => profile.selector # 0
       /\ RowOf(r).selector <= page
       /\ session[r].pc = "generate" =>
            /\ RowOf(r).selector <= session[r].page
            /\ session[r].page <= page /\ session[r].page # 0

(* Until an attempt starts the cooldown, the row is what the attempts read *)
(* but for its status, and late scrapes and reports have no budget to give *)
(* back.  All attempts under way read it between the same two cooldowns.   *)
Agreed ==
  /\ \A y \in Sessions :
       /\ Reading(y) /\ RowOf(y).status = "failed" /\ ~profile.cooling =>
            \/ profile.failed = 0
            \/ profile.status = "failed" /\ profile.failed = RowOf(y).failed
       /\ Reading(y) /\ RowOf(y).status = "active"
          /\ profile.status = "failed" => profile.cooling
  /\ \A r \in Attempters :
       /\ ~profile.cooling =>
            /\ profile.version = RowOf(r).version
            /\ profile.failed = RowOf(r).failed
            /\ profile.selector = RowOf(r).selector
            /\ profile.status # "failed"
       /\ \A q \in Attempters : /\ RowOf(q).version = RowOf(r).version
                                /\ RowOf(q).failed = RowOf(r).failed
       /\ ~overlapped => ~profile.cooling /\ Attempters = {r}

(* Each slot has at most one failure or promotion in one cooldown to come. *)
Counted ==
  LET n == Cardinality(Attempters)
      R == Cardinality(Regens)
  IN  /\ spent <= profile.failed * R
      /\ promoted <= profile.version * R
      /\ \A r \in Attempters :
           /\ profile.cooling => spent + n <= (RowOf(r).failed + 1) * R
           /\ RowOf(r).version < profile.version =>
                promoted + n <= profile.version * R

(* Without overlap nothing is lost.                                        *)
Exact ==
  ~overlapped =>
    /\ profile.version = promoted /\ profile.failed = spent
    /\ profile.status = "failed" => profile.failed = MaxAttempts
    /\ \A y \in Sessions :
         Reading(y) /\ RowOf(y).status = "failed" =>
           RowOf(y).failed = MaxAttempts

-----------------------------------------------------------------------------
(* The operations on a row.                                                *)

LEMMA RowFields ==
  ASSUME NEW p \in Row
  PROVE  /\ DOMAIN p = {"status", "selector", "version", "failed", "cooling"}
         /\ p.status \in {"absent", "stale", "active", "failed"}
         /\ p.selector \in 0..MaxDrifts + 1 /\ p.version \in 0..MaxVersion
         /\ p.failed \in 0..MaxAttempts /\ p.cooling \in BOOLEAN
         /\ p.selector \in Nat /\ p.version \in Nat /\ p.failed \in Nat
BY HealingAssumption DEF Row

LEMMA Counting ==
  ASSUME NEW n \in 0..MaxVersion
  PROVE  /\ Count(n) \in 0..MaxVersion /\ Count(n) \in Nat /\ n \in Nat
         /\ n <= Count(n) /\ Count(n) <= n + 1 /\ 0 < Count(n)
         /\ Count(n) = n => n = MaxVersion
BY HealingAssumption DEF Count

LEMMA NewRows ==
  /\ NoProfile \in Row /\ Placeholder \in Row
  /\ NoProfile.status = "absent" /\ Placeholder.status = "stale"
  /\ NoProfile.selector = 0 /\ Placeholder.selector = 0
  /\ NoProfile.version = 0 /\ Placeholder.version = 0
  /\ NoProfile.failed = 0 /\ Placeholder.failed = 0
  /\ NoProfile.cooling = FALSE /\ Placeholder.cooling = FALSE
<1>1. 0 \in 0..MaxAttempts /\ 0 \in 0..MaxDrifts + 1 /\ 0 \in 0..MaxVersion
  BY HealingAssumption
<1>2. /\ NoProfile \in Row /\ NoProfile.status = "absent"
      /\ NoProfile.selector = 0 /\ NoProfile.version = 0
      /\ NoProfile.failed = 0 /\ NoProfile.cooling = FALSE
  BY <1>1 DEF NoProfile, Row
<1>3. QED
  BY <1>2 DEF Placeholder, Row

LEMMA MarkedFields ==
  ASSUME NEW row \in Row, NEW x
  PROVE  LET obj == Marked(x, row)
             revives == x \in Reporters /\ row.status = "failed"
         IN  /\ obj \in Row
             /\ obj.selector = row.selector /\ obj.version = row.version
             /\ obj.cooling = row.cooling
             /\ obj.failed = IF revives THEN 0 ELSE row.failed
             /\ obj.status = IF revives \/ row.status = "active"
                               THEN "stale" ELSE row.status
<1>1. 0 \in 0..MaxAttempts
  BY HealingAssumption
<1>2. CASE x \in Reporters /\ row.status = "failed"
  <2> DEFINE new == [row EXCEPT !.failed = 0, !.status = "stale"]
  <2>1. /\ new \in Row /\ new.selector = row.selector
        /\ new.version = row.version /\ new.cooling = row.cooling
        /\ new.failed = 0 /\ new.status = "stale"
    BY <1>1 DEF Row
  <2>2. Marked(x, row) = new
    BY <1>2, <2>1 DEF Marked, MarkStale, ReviveForReport
  <2> HIDE DEF new
  <2>3. QED
    BY <1>2, <2>1, <2>2
<1>3. CASE ~(x \in Reporters /\ row.status = "failed")
  <2>1. Marked(x, row) = MarkStale(row)
    BY <1>3 DEF Marked, ReviveForReport
  <2>2. CASE row.status = "active"
    <3> DEFINE new == [row EXCEPT !.status = "stale"]
    <3>1. /\ new \in Row /\ new.selector = row.selector
          /\ new.version = row.version /\ new.cooling = row.cooling
          /\ new.failed = row.failed /\ new.status = "stale"
      BY DEF Row
    <3>2. Marked(x, row) = new
      BY <2>1, <2>2 DEF MarkStale
    <3> HIDE DEF new
    <3>3. QED
      BY <1>3, <2>2, <3>1, <3>2
  <2>3. CASE row.status # "active"
    BY <1>3, <2>1, <2>3 DEF MarkStale
  <2>4. QED
    BY <2>2, <2>3
<1>4. QED
  BY <1>2, <1>3

LEMMA FailureFields ==
  ASSUME NEW row \in Row, RegenerationAllowed(row)
  PROVE  LET obj == RecordAttemptFailure(row)
         IN  /\ obj \in Row
             /\ obj.selector = row.selector /\ obj.version = row.version
             /\ obj.cooling = TRUE /\ obj.failed = row.failed + 1
             /\ obj.status = IF row.failed + 1 >= MaxAttempts
                               THEN "failed" ELSE row.status
<1> DEFINE failed == row.failed + 1
           status == IF failed >= MaxAttempts THEN "failed" ELSE row.status
           new == [row EXCEPT !.failed = failed, !.cooling = TRUE,
                              !.status = status]
<1>1. failed \in 0..MaxAttempts
  BY RowFields, HealingAssumption DEF RegenerationAllowed
<1>2. status \in {"absent", "stale", "active", "failed"}
  BY RowFields
<1>3. RecordAttemptFailure(row) = new
  BY DEF RecordAttemptFailure
<1> HIDE DEF failed, status
<1>4. /\ new \in Row /\ new.selector = row.selector
      /\ new.version = row.version /\ new.cooling = TRUE
      /\ new.failed = failed /\ new.status = status
  BY <1>1, <1>2 DEF Row
<1> HIDE DEF new
<1>5. QED
  BY <1>3, <1>4 DEF failed, status

LEMMA PromotionFields ==
  ASSUME NEW row \in Row, NEW selector \in 0..MaxDrifts + 1
  PROVE  LET obj == Promote(row, selector)
         IN  /\ obj \in Row
             /\ obj.selector = selector /\ obj.version = Count(row.version)
             /\ obj.cooling = TRUE /\ obj.failed = 0 /\ obj.status = "active"
<1> DEFINE version == Count(row.version)
           new == [row EXCEPT !.selector = selector, !.status = "active",
                     !.version = version, !.cooling = TRUE, !.failed = 0]
<1>1. version \in 0..MaxVersion /\ 0 \in 0..MaxAttempts
  BY RowFields, Counting, HealingAssumption
<1>2. Promote(row, selector) = new
  BY DEF Promote
<1> HIDE DEF version
<1>3. /\ new \in Row /\ new.selector = selector
      /\ new.version = version /\ new.cooling = TRUE
      /\ new.failed = 0 /\ new.status = "active"
  BY <1>1 DEF Row
<1> HIDE DEF new
<1>4. QED
  BY <1>2, <1>3 DEF version

LEMMA FlushFields ==
  ASSUME NEW base \in Row, NEW row \in Row, NEW obj \in Row
  PROVE  LET new == Flush(base, row, obj)
         IN  /\ new \in Row
             /\ new.status = IF obj.status # row.status
                               THEN obj.status ELSE base.status
             /\ new.selector = IF obj.selector # row.selector
                                 THEN obj.selector ELSE base.selector
             /\ new.version = IF obj.version # row.version
                                THEN obj.version ELSE base.version
             /\ new.failed = IF obj.failed # row.failed
                               THEN obj.failed ELSE base.failed
             /\ new.cooling = IF obj.cooling # row.cooling
                                THEN obj.cooling ELSE base.cooling
<1>1. DOMAIN base = {"status", "selector", "version", "failed", "cooling"}
  BY RowFields
<1> DEFINE new == Flush(base, row, obj)
<1>2. /\ new.status = IF obj.status # row.status
                        THEN obj.status ELSE base.status
      /\ new.selector = IF obj.selector # row.selector
                          THEN obj.selector ELSE base.selector
      /\ new.version = IF obj.version # row.version
                         THEN obj.version ELSE base.version
      /\ new.failed = IF obj.failed # row.failed
                        THEN obj.failed ELSE base.failed
      /\ new.cooling = IF obj.cooling # row.cooling
                         THEN obj.cooling ELSE base.cooling
      /\ DOMAIN new = DOMAIN base
      /\ new = [f \in DOMAIN base |-> new[f]]
  BY <1>1 DEF Flush
<1> HIDE DEF new
<1>3. /\ new.status \in {"absent", "stale", "active", "failed"}
      /\ new.selector \in 0..MaxDrifts + 1 /\ new.version \in 0..MaxVersion
      /\ new.failed \in 0..MaxAttempts /\ new.cooling \in BOOLEAN
  BY <1>2, RowFields
<1>4. new = [status |-> new.status, selector |-> new.selector,
             version |-> new.version, failed |-> new.failed,
             cooling |-> new.cooling]
  BY <1>1, <1>2
<1>5. new \in Row
  BY <1>3, <1>4 DEF Row
<1>6. QED
  BY <1>2, <1>5 DEF new
-----------------------------------------------------------------------------
(* What each step does to the row and to the sessions.                     *)

LEMMA SessionTyped ==
  ASSUME TypeOK, NEW x \in Sessions
  PROVE  /\ session[x] \in Session /\ RowOf(x) \in Row
         /\ session[x].obj \in Row /\ session[x].page \in 0..MaxDrifts + 1
         /\ session[x].page \in Nat
         /\ Idle \in Session /\ Idle.pc = "idle"
<1>1. session[x] \in Session
  BY DEF TypeOK
<1>2. 0 \in 0..MaxDrifts + 1 /\ 0..MaxDrifts + 1 \subseteq Nat
  BY HealingAssumption
<1>3. Idle \in Session /\ Idle.pc = "idle"
  BY <1>2, NewRows DEF Idle, Session
<1>4. QED
  BY <1>1, <1>2, <1>3 DEF Session, RowOf

LEMMA Slots ==
  /\ Scrapers \subseteq Sessions /\ Regens \subseteq Sessions
  /\ Reporters \subseteq Sessions
BY DEF Sessions

(* The end of a transaction writes what the session changed, and what it   *)
(* inserted.                                                               *)
LEMMA Closed ==
  ASSUME TypeOK, Rows, NEW x \in Sessions, Reading(x), NEW obj \in Row,
         Close(x, obj), x \in inserting => obj.status # "absent"
  PROVE  LET row == RowOf(x)
         IN  /\ profile' \in Row
             /\ profile'.selector = IF obj.selector # row.selector
                                      THEN obj.selector ELSE profile.selector
             /\ profile'.version = IF obj.version # row.version
                                     THEN obj.version ELSE profile.version
             /\ profile'.failed = IF obj.failed # row.failed
                                    THEN obj.failed ELSE profile.failed
             /\ profile'.cooling = IF obj.cooling # row.cooling
                                     THEN obj.cooling ELSE profile.cooling
             /\ profile'.status = IF x \in inserting \/ obj.status # row.status
                                    THEN obj.status ELSE profile.status
<1>1. profile \in Row /\ RowOf(x) \in Row
  BY SessionTyped DEF TypeOK
<1>2. CASE x \in inserting
  <2>1. profile' = obj
    BY <1>2 DEF Close, Committed
  <2>2. profile = NoProfile /\ RowOf(x) = Placeholder
    BY <1>2 DEF Rows
  <2>3. QED
    BY <1>2, <2>1, <2>2, NewRows
<1>3. CASE x \notin inserting
  <2>1. profile' = Flush(profile, RowOf(x), obj)
    BY <1>3 DEF Close, Committed, RowOf
  <2>2. QED
    BY <1>1, <1>3, <2>1, FlushFields
<1>4. QED
  BY <1>2, <1>3

LEMMA Ended ==
  ASSUME TypeOK, NEW x \in Sessions, NEW obj, Close(x, obj)
  PROVE  /\ inserting' = inserting \ {x} /\ session'[x] = Idle /\ ~Reading(x)'
         /\ ~Attempting(x)' /\ \A y \in Sessions \ {x} : session'[y] = session[y]
         /\ session' \in [Sessions -> Session]
<1>1. session' = [session EXCEPT ![x] = Idle] /\ inserting' = inserting \ {x}
  BY DEF Close
<1>2. session'[x] = Idle
  BY <1>1 DEF TypeOK
<1>3. QED
  BY <1>1, <1>2, SessionTyped DEF TypeOK, Reading, Attempting

LEMMA CommitOutcome ==
  ASSUME TypeOK, Rows, NEW x \in Sessions, Commit(x)
  PROVE  LET row == RowOf(x)
             revives == x \in Reporters /\ row.status = "failed"
         IN  /\ profile' \in Row /\ profile'.selector = profile.selector
             /\ profile'.version = profile.version
             /\ profile'.cooling = profile.cooling
             /\ profile'.failed = IF revives /\ row.failed # 0
                                    THEN 0 ELSE profile.failed
             /\ profile'.status = IF revives \/ row.status = "active"
                                       \/ x \in inserting
                                    THEN "stale" ELSE profile.status
             /\ spent' = IF revives THEN 0 ELSE spent
             /\ UNCHANGED <<page, promoted, overlapped>>
<1> DEFINE row == RowOf(x)
           obj == session[x].obj
<1>1. Reading(x) /\ obj = Marked(x, row) /\ Close(x, obj)
  BY DEF Commit, Rows, Reading
<1>2. row \in Row /\ obj \in Row
  BY SessionTyped
<1>3. x \in inserting => row.status = "stale"
  BY NewRows DEF Rows
<1>4. /\ obj.selector = row.selector /\ obj.version = row.version
      /\ obj.cooling = row.cooling
      /\ obj.failed = IF x \in Reporters /\ row.status = "failed"
                        THEN 0 ELSE row.failed
      /\ obj.status = IF (x \in Reporters /\ row.status = "failed")
                           \/ row.status = "active"
                        THEN "stale" ELSE row.status
  BY <1>1, <1>2, MarkedFields
<1> HIDE DEF obj
<1>5. /\ profile' \in Row
      /\ profile'.selector = IF obj.selector # row.selector
                               THEN obj.selector ELSE profile.selector
      /\ profile'.version = IF obj.version # row.version
                              THEN obj.version ELSE profile.version
      /\ profile'.failed = IF obj.failed # row.failed
                             THEN obj.failed ELSE profile.failed
      /\ profile'.cooling = IF obj.cooling # row.cooling
                              THEN obj.cooling ELSE profile.cooling
      /\ profile'.status = IF x \in inserting \/ obj.status # row.status
                             THEN obj.status ELSE profile.status
  BY <1>1, <1>2, <1>3, <1>4, Closed
<1>6. /\ spent' = IF x \in Reporters /\ row.status = "failed" THEN 0 ELSE spent
      /\ UNCHANGED <<page, promoted, overlapped>>
  BY DEF Commit, RowOf
<1> HIDE DEF row
<1>7. QED
  BY <1>3, <1>4, <1>5, <1>6 DEF row

(* An attempt works on the row as it read it.                              *)
LEMMA AttemptRow ==
  ASSUME TypeOK, Rows, NEW r \in Sessions, Attempting(r)
  PROVE  /\ Reading(r) /\ r \in Attempters /\ RowOf(r) \in Row
         /\ session[r].obj = RowOf(r) /\ RegenerationAllowed(RowOf(r))
         /\ RowOf(r).cooling = FALSE /\ RowOf(r).status # "failed"
         /\ r \in inserting => RowOf(r).status = "stale"
<1>1. /\ Reading(r) /\ r \in Attempters /\ RowOf(r) \in Row
      /\ session[r].obj = RowOf(r) /\ RegenerationAllowed(RowOf(r))
  BY SessionTyped DEF Rows, Reading, Attempting, Attempters
<1>2. r \in inserting => RowOf(r).status = "stale"
  BY NewRows DEF Rows
<1>3. RowOf(r).cooling = FALSE /\ RowOf(r).status # "failed"
  BY <1>1, RowFields DEF RegenerationAllowed
<1>4. QED
  BY <1>1, <1>2, <1>3

LEMMA FailOutcome ==
  ASSUME TypeOK, Rows, NEW r \in Regens, AttemptFails(r)
  PROVE  LET row == RowOf(r)
         IN  /\ profile' \in Row /\ profile'.selector = profile.selector
             /\ profile'.version = profile.version /\ profile'.cooling = TRUE
             /\ profile'.failed = row.failed + 1
             /\ profile'.status = IF row.failed + 1 >= MaxAttempts THEN "failed"
                                  ELSE IF r \in inserting THEN "stale"
                                  ELSE profile.status
             /\ spent' = spent + 1 /\ UNCHANGED <<page, promoted, overlapped>>
             /\ r \in Attempters
<1> DEFINE row == RowOf(r)
           obj == RecordAttemptFailure(row)
<1>1. /\ r \in Sessions /\ Attempting(r) /\ spent' = spent + 1
      /\ UNCHANGED <<page, promoted, overlapped>>
  BY Slots DEF AttemptFails, Attempting
<1>2. /\ Reading(r) /\ row \in Row /\ session[r].obj = row
      /\ RegenerationAllowed(row) /\ row.cooling = FALSE
      /\ row.status # "failed" /\ (r \in inserting => row.status = "stale")
      /\ r \in Attempters
  BY <1>1, AttemptRow
<1>3. /\ obj \in Row /\ obj.selector = row.selector
      /\ obj.version = row.version
      /\ obj.cooling = TRUE /\ obj.failed = row.failed + 1
      /\ obj.status = IF row.failed + 1 >= MaxAttempts
                        THEN "failed" ELSE row.status
  BY <1>2, FailureFields
<1>4. Close(r, obj)
  BY <1>2 DEF AttemptFails
<1> HIDE DEF obj
<1>5. r \in inserting => obj.status # "absent"
  BY <1>2, <1>3
<1>6. /\ profile' \in Row
      /\ profile'.selector = IF obj.selector # row.selector
                               THEN obj.selector ELSE profile.selector
      /\ profile'.version = IF obj.version # row.version
                              THEN obj.version ELSE profile.version
      /\ profile'.failed = IF obj.failed # row.failed
                             THEN obj.failed ELSE profile.failed
      /\ profile'.cooling = IF obj.cooling # row.cooling
                              THEN obj.cooling ELSE profile.cooling
      /\ profile'.status = IF r \in inserting \/ obj.status # row.status
                             THEN obj.status ELSE profile.status
  BY <1>1, <1>2, <1>3, <1>4, <1>5, Closed
<1>7. row.failed \in Nat
  BY <1>2, RowFields
<1> HIDE DEF row
<1>8. QED
  BY <1>1, <1>2, <1>3, <1>6, <1>7 DEF row

LEMMA DisabledOutcome ==
  ASSUME TypeOK, Rows, NEW r \in Regens, GenerationDisabled(r)
  PROVE  /\ profile' \in Row /\ profile'.selector = profile.selector
         /\ profile'.version = profile.version
         /\ profile'.cooling = profile.cooling
         /\ profile'.failed = profile.failed
         /\ profile'.status = IF r \in inserting THEN "stale"
                                                 ELSE profile.status
         /\ UNCHANGED <<page, promoted, spent, overlapped>>
         /\ r \in Attempters
<1>1. r \in Sessions /\ Attempting(r)
  BY Slots DEF GenerationDisabled, Attempting
<1>2. /\ Reading(r) /\ RowOf(r) \in Row /\ session[r].obj = RowOf(r)
      /\ r \in Attempters /\ (r \in inserting => RowOf(r).status = "stale")
  BY <1>1, AttemptRow
<1>3. Close(r, RowOf(r))
  BY <1>2 DEF GenerationDisabled
<1>4. /\ profile' \in Row /\ profile'.selector = profile.selector
      /\ profile'.version = profile.version
      /\ profile'.cooling = profile.cooling
      /\ profile'.failed = profile.failed
      /\ profile'.status = IF r \in inserting THEN RowOf(r).status
                                              ELSE profile.status
  BY <1>1, <1>2, <1>3, Closed
<1>5. QED
  BY <1>2, <1>4 DEF GenerationDisabled

LEMMA PromoteOutcome ==
  ASSUME TypeOK, Rows, NEW r \in Regens, AttemptPromotes(r)
  PROVE  LET row == RowOf(r)
             found == session[r].page
         IN  /\ profile' \in Row
             /\ profile'.selector = IF found # row.selector
                                      THEN found ELSE profile.selector
             /\ profile'.version = IF Count(row.version) # row.version
                                     THEN Count(row.version) ELSE profile.version
             /\ profile'.cooling = TRUE
             /\ profile'.failed = IF row.failed # 0 THEN 0 ELSE profile.failed
             /\ profile'.status = IF r \in inserting \/ row.status # "active"
                                    THEN "active" ELSE profile.status
             /\ promoted' = Count(promoted) /\ spent' = 0
             /\ UNCHANGED <<page, overlapped>>
             /\ r \in Attempters
<1> DEFINE row == RowOf(r)
           found == session[r].page
           obj == Promote(row, found)
<1>1. /\ r \in Sessions /\ Attempting(r) /\ promoted' = Count(promoted)
      /\ spent' = 0 /\ UNCHANGED <<page, overlapped>>
  BY Slots DEF AttemptPromotes, Attempting
<1>2. /\ Reading(r) /\ row \in Row /\ session[r].obj = row
      /\ row.cooling = FALSE /\ r \in Attempters
  BY <1>1, AttemptRow
<1>3. found \in 0..MaxDrifts + 1
  BY <1>1, SessionTyped
<1>4. /\ obj \in Row /\ obj.selector = found
      /\ obj.version = Count(row.version)
      /\ obj.cooling = TRUE /\ obj.failed = 0 /\ obj.status = "active"
  BY <1>2, <1>3, PromotionFields
<1>5. Close(r, obj)
  BY <1>2 DEF AttemptPromotes
<1> HIDE DEF obj
<1>6. /\ profile' \in Row
      /\ profile'.selector = IF obj.selector # row.selector
                               THEN obj.selector ELSE profile.selector
      /\ profile'.version = IF obj.version # row.version
                              THEN obj.version ELSE profile.version
      /\ profile'.failed = IF obj.failed # row.failed
                             THEN obj.failed ELSE profile.failed
      /\ profile'.cooling = IF obj.cooling # row.cooling
                              THEN obj.cooling ELSE profile.cooling
      /\ profile'.status = IF r \in inserting \/ obj.status # row.status
                             THEN obj.status ELSE profile.status
  BY <1>1, <1>2, <1>4, <1>5, Closed
<1>7. row.failed \in Nat
  BY <1>2, RowFields
<1> HIDE DEF row, found
<1>8. QED
  BY <1>1, <1>2, <1>4, <1>6, <1>7 DEF row, found

(* The number a promotion gives; where the numbers stop, the row already   *)
(* holds the last one.                                                     *)
LEMMA NewVersion ==
  ASSUME TypeOK, Rows, Numbered, NEW r \in Regens, AttemptPromotes(r)
  PROVE  LET v == RowOf(r).version
             new == profile'.version
         IN  /\ v \in Nat /\ new \in Nat /\ profile.version \in Nat
             /\ v <= new /\ new <= v + 1 /\ new > 0
             /\ profile.version <= new
             /\ new = v + 1 \/ (new = MaxVersion /\ v = MaxVersion)
             /\ new = Count(v)
<1> DEFINE v == RowOf(r).version
           last == profile.version
           new == profile'.version
<1>1. r \in Attempters /\ new = IF Count(v) # v THEN Count(v) ELSE last
  BY PromoteOutcome
<1>2. v \in 0..MaxVersion /\ last \in 0..MaxVersion
  BY Slots, SessionTyped, RowFields DEF TypeOK
<1>3. v <= last /\ last <= v + 1
  BY <1>1 DEF Numbered
<1> HIDE DEF v, last, new
<1>4. MaxVersion \in Nat \ {0}
  BY HealingAssumption
<1>5. CASE v = MaxVersion
  <2>1. Count(v) = v /\ last = v
    BY <1>2, <1>3, <1>4, <1>5 DEF Count
  <2>2. new = v
    BY <1>1, <2>1
  <2>3. QED
    BY <1>2, <1>4, <1>5, <2>1, <2>2 DEF v, last, new
<1>6. CASE v < MaxVersion
  <2>1. Count(v) = v + 1
    BY <1>6 DEF Count
  <2>2. new = v + 1
    BY <1>1, <1>2, <2>1
  <2>3. QED
    BY <1>2, <1>3, <2>1, <2>2 DEF v, last, new
<1>7. QED
  BY <1>2, <1>4, <1>5, <1>6

(* A step that reads and writes nothing of the row: what is read and not   *)
(* ended stays as it is.                                                   *)
Passive ==
  /\ UNCHANGED <<profile, promoted, spent, overlapped>>
  /\ page <= page' /\ inserting' \subseteq inserting
  /\ session' \in [Sessions -> Session]
  /\ \A x \in inserting' : Reading(x)'
  /\ \A x \in Sessions : Reading(x)' =>
       session'[x] = session[x] /\ (x \in inserting => x \in inserting')

(* A session reads the row or inserts it, to mark it stale or to attempt a *)
(* regeneration.                                                           *)
Opens(x) ==
  /\ UNCHANGED <<profile, page, promoted, spent>>
  /\ session' \in [Sessions -> Session]
  /\ \A y \in Sessions \ {x} : session'[y] = session[y]
  /\ ~Reading(x) /\ x \notin inserting
  /\ \/ /\ RowOf(x)' = profile /\ profile.status # "absent"
        /\ inserting' = inserting
     \/ /\ RowOf(x)' = Placeholder /\ profile = NoProfile
        /\ inserting = {} /\ inserting' = {x}
  /\ \/ /\ session'[x].pc = "commit" /\ overlapped' = overlapped
        /\ session'[x].obj = Marked(x, RowOf(x)')
     \/ /\ session'[x].pc = "attempt" /\ session'[x].obj = RowOf(x)'
        /\ x \in Regens /\ RegenerationAllowed(RowOf(x)')
        /\ overlapped' = (overlapped \/ \E q \in Regens \ {x} : Attempting(q))

(* An attempt has fetched the page.                                        *)
Fetches(r) ==
  /\ UNCHANGED <<profile, inserting, page, promoted, spent, overlapped>>
  /\ session' \in [Sessions -> Session]
  /\ \A y \in Sessions \ {r} : session'[y] = session[y]
  /\ r \in Regens /\ session[r].pc = "attempt"
  /\ session'[r].pc = "generate" /\ session'[r].page = page
  /\ session'[r].row = session[r].row /\ session'[r].obj = session[r].obj

LEMMA PcEdit ==
  ASSUME NEW j \in Session, NEW p \in {"select", "insert", "broken"}
  PROVE  /\ [j EXCEPT !.pc = p] \in Session
         /\ [j EXCEPT !.pc = p].pc = p
BY DEF Session

LEMMA PageEdit ==
  ASSUME NEW j \in Session, NEW found \in 0..MaxDrifts + 1,
         NEW p \in {"fetch", "generate"}
  PROVE  LET k == [j EXCEPT !.pc = p, !.page = found]
         IN  /\ k \in Session /\ k.pc = p /\ k.page = found
             /\ k.row = j.row /\ k.obj = j.obj
BY DEF Session

LEMMA RowEdit ==
  ASSUME NEW j \in Session, NEW row \in Row, NEW obj \in Row,
         NEW p \in {"commit", "attempt"}
  PROVE  LET k == [j EXCEPT !.pc = p, !.row = row, !.obj = obj]
         IN  k \in Session /\ k.pc = p /\ k.row = row /\ k.obj = obj
BY DEF Session

(* A session that ends, or goes on without the row, is a passive step.     *)
LEMMA GoesOn ==
  ASSUME TypeOK, Rows, NEW x \in Sessions, NEW k \in Session,
         session' = [session EXCEPT ![x] = k],
         k.pc \notin {"commit", "attempt", "generate"},
         \/ inserting' = inserting /\ ~Reading(x)
         \/ inserting' = inserting \ {x},
         UNCHANGED <<profile, page, promoted, spent, overlapped>>
  PROVE  Passive
<1>1. session' \in [Sessions -> Session]
  BY DEF TypeOK
<1>2. session'[x] = k /\ \A y \in Sessions \ {x} : session'[y] = session[y]
  BY DEF TypeOK
<1>3. ~Reading(x)'
  BY <1>2 DEF Reading
<1>4. \A y \in Sessions \ {x} : Reading(y)' <=> Reading(y)
  BY <1>2 DEF Reading
<1>5. inserting' = inserting \ {x}
  BY DEF Rows
<1>6. page <= page' /\ inserting \subseteq Sessions
  BY HealingAssumption DEF TypeOK
<1>7. \A y \in inserting' : Reading(y)'
  BY <1>4, <1>5, <1>6 DEF Rows
<1>8. QED
  BY <1>1, <1>2, <1>3, <1>5, <1>6, <1>7 DEF Passive

LEMMA ScrapeClass ==
  ASSUME TypeOK, Rows, NEW x \in Sessions,
         ReadSelector(x) \/ Fetch(x) \/ MissUnseen(x) \/ Report(x)
           \/ BrokenCommit(x) \/ Abort(x)
  PROVE  Passive
<1> DEFINE j == session[x]
<1>1. j \in Session /\ Idle \in Session /\ Idle.pc = "idle"
  BY SessionTyped
<1>2. CASE ReadSelector(x)
  <2> DEFINE k == [j EXCEPT !.pc = "fetch", !.page = profile.selector]
  <2>1. profile.selector \in 0..MaxDrifts + 1
    BY RowFields DEF TypeOK
  <2>2. k \in Session /\ k.pc = "fetch"
    BY <1>1, <2>1, PageEdit
  <2>3. session' = [session EXCEPT ![x] = k] /\ ~Reading(x)
        /\ UNCHANGED <<profile, inserting, page, promoted, spent, overlapped>>
    BY <1>2 DEF ReadSelector, Reading, TypeOK
  <2> HIDE DEF k
  <2>4. QED
    BY <2>2, <2>3, GoesOn
<1>3. CASE Fetch(x) \/ MissUnseen(x)
  <2> DEFINE k == [j EXCEPT !.pc = "select"]
  <2>1. k \in Session /\ k.pc = "select"
    BY <1>1, PcEdit
  <2>2. /\ ~Reading(x)
        /\ UNCHANGED <<profile, inserting, page, promoted, spent, overlapped>>
    BY <1>3 DEF Fetch, MissUnseen, Reading
  <2>3. \/ session' = [session EXCEPT ![x] = Idle]
        \/ session' = [session EXCEPT ![x] = k]
    BY <1>3 DEF Fetch, MissUnseen, TypeOK
  <2> HIDE DEF k
  <2>4. QED
    BY <1>1, <2>1, <2>2, <2>3, GoesOn
<1>4. CASE Report(x)
  <2> DEFINE k == [j EXCEPT !.pc = "select"]
  <2>1. k \in Session /\ k.pc = "select"
    BY <1>1, PcEdit
  <2>2. session' = [session EXCEPT ![x] = k] /\ ~Reading(x)
        /\ UNCHANGED <<profile, inserting, page, promoted, spent, overlapped>>
    BY <1>4 DEF Report, Reading, TypeOK
  <2> HIDE DEF k
  <2>3. QED
    BY <2>1, <2>2, GoesOn
<1>5. CASE BrokenCommit(x)
  <2>1. session' = [session EXCEPT ![x] = Idle] /\ ~Reading(x)
        /\ UNCHANGED <<profile, inserting, page, promoted, spent, overlapped>>
    BY <1>5 DEF BrokenCommit, Reading
  <2>2. QED
    BY <1>1, <2>1, GoesOn
<1>6. CASE Abort(x)
  <2>1. session' = [session EXCEPT ![x] = Idle]
        /\ inserting' = inserting \ {x}
        /\ UNCHANGED <<profile, page, promoted, spent, overlapped>>
    BY <1>6 DEF Abort
  <2>2. QED
    BY <1>1, <2>1, GoesOn
<1>7. QED
  BY <1>2, <1>3, <1>4, <1>5, <1>6

LEMMA MarkClass ==
  ASSUME TypeOK, Rows, NEW x \in Sessions, Select(x) \/ Insert(x)
  PROVE  Passive \/ Opens(x)
<1> DEFINE j == session[x]
<1>1. /\ j \in Session /\ ~Reading(x) /\ x \notin inserting
      /\ UNCHANGED <<profile, page, promoted, spent, overlapped>>
  BY SessionTyped DEF Select, Insert, Rows, Reading
<1>2. ASSUME NEW row \in Row, Mark(x, row),
             \/ row = profile /\ profile.status # "absent"
                /\ inserting' = inserting
             \/ row = Placeholder /\ profile = NoProfile /\ inserting = {}
                /\ inserting' = {x}
      PROVE  Opens(x)
  <2> DEFINE obj == Marked(x, row)
             k == [j EXCEPT !.pc = "commit", !.row = row, !.obj = obj]
  <2>1. session' = [session EXCEPT ![x] = k]
    BY <1>2 DEF Mark, Marked, TypeOK
  <2>2. obj \in Row
    BY MarkedFields
  <2> HIDE DEF obj
  <2>3. k \in Session /\ k.pc = "commit" /\ k.row = row /\ k.obj = obj
    BY <1>1, <2>2, RowEdit
  <2> HIDE DEF k
  <2>4. /\ session'[x] = k /\ session' \in [Sessions -> Session]
        /\ \A y \in Sessions \ {x} : session'[y] = session[y]
    BY <2>1, <2>3 DEF TypeOK
  <2>5. RowOf(x)' = row /\ session'[x].pc = "commit"
        /\ session'[x].obj = Marked(x, row)
    BY <2>3, <2>4 DEF RowOf, obj
  <2>6. QED
    BY <1>1, <1>2, <2>4, <2>5 DEF Opens
<1>3. ASSUME NEW p \in {"insert", "broken"},
             session' = [session EXCEPT ![x].pc = p], inserting' = inserting
      PROVE  Passive
  <2> DEFINE k == [j EXCEPT !.pc = p]
  <2>1. k \in Session /\ k.pc = p
    BY <1>1, PcEdit
  <2>2. session' = [session EXCEPT ![x] = k]
    BY <1>3 DEF TypeOK
  <2> HIDE DEF k
  <2>3. QED
    BY <1>1, <1>3, <2>1, <2>2, GoesOn
<1>4. CASE Select(x)
  <2>1. profile \in Row /\ inserting' = inserting
    BY <1>4 DEF Select, TypeOK
  <2>2. CASE profile.status # "absent"
    BY <1>2, <1>4, <2>1, <2>2 DEF Select
  <2>3. CASE profile.status = "absent"
    BY <1>3, <1>4, <2>1, <2>3 DEF Select
  <2>4. QED
    BY <2>2, <2>3
<1>5. CASE Insert(x)
  <2>1. CASE profile.status = "absent"
    <3>1. Mark(x, Placeholder) /\ inserting = {} /\ inserting' = {x}
          /\ profile = NoProfile
      BY <1>5, <2>1 DEF Insert, Rows
    <3>2. QED
      BY <1>2, <3>1, NewRows
  <2>2. CASE profile.status # "absent"
    BY <1>3, <1>5, <2>2 DEF Insert
  <2>3. QED
    BY <2>1, <2>2
<1>6. QED
  BY <1>4, <1>5

LEMMA BeginClass ==
  ASSUME TypeOK, Rows, NEW r \in Regens, Begin(r) \/ InsertForRegen(r)
  PROVE  Passive \/ Opens(r)
<1> DEFINE j == session[r]
<1>1. /\ r \in Sessions /\ j \in Session /\ ~Reading(r) /\ r \notin inserting
      /\ Idle \in Session /\ Idle.pc = "idle" /\ profile \in Row
      /\ UNCHANGED <<profile, page, promoted, spent>>
  BY Slots, SessionTyped DEF Begin, InsertForRegen, Rows, Reading, TypeOK
<1>2. ASSUME NEW row \in Row, RegenerationAllowed(row),
             session' = [session EXCEPT ![r] =
               [@ EXCEPT !.pc = "attempt", !.row = row, !.obj = row]],
             \/ row = profile /\ profile.status # "absent"
                /\ inserting' = inserting
             \/ row = Placeholder /\ profile = NoProfile /\ inserting = {}
                /\ inserting' = {r},
             overlapped' = (overlapped \/ \E q \in Regens \ {r} : Attempting(q))
      PROVE  Opens(r)
  <2> DEFINE k == [j EXCEPT !.pc = "attempt", !.row = row, !.obj = row]
  <2>1. session' = [session EXCEPT ![r] = k]
    BY <1>1, <1>2 DEF TypeOK
  <2>2. k \in Session /\ k.pc = "attempt" /\ k.row = row /\ k.obj = row
    BY <1>1, RowEdit
  <2> HIDE DEF k
  <2>3. /\ session'[r] = k /\ session' \in [Sessions -> Session]
        /\ \A y \in Sessions \ {r} : session'[y] = session[y]
    BY <1>1, <2>1, <2>2 DEF TypeOK
  <2>4. RowOf(r)' = row /\ session'[r].pc = "attempt"
        /\ session'[r].obj = row
    BY <2>2, <2>3 DEF RowOf
  <2>5. QED
    BY <1>1, <1>2, <2>3, <2>4 DEF Opens
<1>3. ASSUME NEW k \in Session, k.pc \in {"idle", "insert", "broken"},
             session' = [session EXCEPT ![r] = k],
             inserting' = inserting, overlapped' = overlapped
      PROVE  Passive
  BY <1>1, <1>3, GoesOn
<1>4. CASE Begin(r)
  <2>1. inserting' = inserting
    BY <1>4 DEF Begin
  <2>2. CASE profile.status = "absent"
    <3> DEFINE k == [j EXCEPT !.pc = "insert"]
    <3>1. k \in Session /\ k.pc = "insert"
      BY <1>1, PcEdit
    <3>2. session' = [session EXCEPT ![r] = k]
      BY <1>1, <1>4, <2>2 DEF Begin, TypeOK
    <3> HIDE DEF k
    <3>3. session'[r].pc = "insert"
      BY <1>1, <3>1, <3>2 DEF TypeOK
    <3>4. overlapped' = overlapped
      BY <1>4, <3>3 DEF Begin, TypeOK
    <3>5. QED
      BY <1>3, <2>1, <3>1, <3>2, <3>4
  <2>3. CASE profile.status # "absent" /\ RegenerationAllowed(profile)
    <3>1. session' = [session EXCEPT ![r] =
            [@ EXCEPT !.pc = "attempt", !.row = profile, !.obj = profile]]
      BY <1>4, <2>3 DEF Begin
    <3>2. session'[r].pc = "attempt"
      <4> DEFINE k == [j EXCEPT !.pc = "attempt", !.row = profile,
                                !.obj = profile]
      <4>1. session'[r] = k
        BY <1>1, <3>1 DEF TypeOK
      <4>2. k.pc = "attempt"
        BY <1>1 DEF Session
      <4> HIDE DEF k
      <4>3. QED
        BY <4>1, <4>2
    <3>3. overlapped' = (overlapped \/ \E q \in Regens \ {r} : Attempting(q))
      BY <1>4, <3>2 DEF Begin
    <3>4. QED
      BY <1>1, <1>2, <2>1, <2>3, <3>1, <3>3
  <2>4. CASE profile.status # "absent" /\ ~RegenerationAllowed(profile)
    <3>1. session' = [session EXCEPT ![r] = Idle]
      BY <1>4, <2>4 DEF Begin
    <3>2. session'[r].pc = "idle"
      BY <1>1, <3>1 DEF TypeOK
    <3>3. overlapped' = overlapped
      BY <1>4, <3>2 DEF Begin, TypeOK
    <3>4. QED
      BY <1>1, <1>3, <2>1, <3>1, <3>3
  <2>5. QED
    BY <2>2, <2>3, <2>4
<1>5. CASE InsertForRegen(r)
  <2>1. CASE profile.status = "absent"
    <3>1. /\ profile = NoProfile /\ inserting = {} /\ inserting' = {r}
          /\ session' = [session EXCEPT ![r] =
               [@ EXCEPT !.pc = "attempt", !.row = Placeholder,
                         !.obj = Placeholder]]
          /\ overlapped' = overlapped
      BY <1>5, <2>1 DEF InsertForRegen, Rows
    <3>2. \A q \in Regens : ~Attempting(q)
      BY <2>1, <3>1, Slots DEF Rows, Reading, Attempting
    <3>3. RegenerationAllowed(Placeholder)
      BY NewRows, HealingAssumption DEF RegenerationAllowed
    <3>4. overlapped' = (overlapped \/ \E q \in Regens \ {r} : Attempting(q))
      BY <3>1, <3>2 DEF TypeOK
    <3>5. QED
      BY <1>2, <3>1, <3>3, <3>4, NewRows
  <2>2. CASE profile.status # "absent"
    <3> DEFINE k == [j EXCEPT !.pc = "broken"]
    <3>1. k \in Session /\ k.pc = "broken"
      BY <1>1, PcEdit
    <3>2. session' = [session EXCEPT ![r] = k] /\ inserting' = inserting
          /\ overlapped' = overlapped
      BY <1>1, <1>5, <2>2 DEF InsertForRegen, TypeOK
    <3> HIDE DEF k
    <3>3. QED
      BY <1>3, <3>1, <3>2
  <2>3. QED
    BY <2>1, <2>2
<1>6. QED
  BY <1>4, <1>5

LEMMA FetchClass ==
  ASSUME TypeOK, NEW r \in Regens, Refetch(r)
  PROVE  Fetches(r)
<1> DEFINE k == [session[r] EXCEPT !.pc = "generate", !.page = page]
<1>1. r \in Sessions /\ session[r] \in Session /\ page \in 0..MaxDrifts + 1
  BY Slots, SessionTyped, HealingAssumption DEF TypeOK
<1>2. session' = [session EXCEPT ![r] = k]
  BY <1>1 DEF Refetch, TypeOK
<1>3. /\ k \in Session /\ k.pc = "generate" /\ k.page = page
      /\ k.row = session[r].row /\ k.obj = session[r].obj
  BY <1>1, PageEdit
<1> HIDE DEF k
<1>4. /\ session'[r] = k /\ session' \in [Sessions -> Session]
      /\ \A y \in Sessions \ {r} : session'[y] = session[y]
  BY <1>1, <1>2, <1>3 DEF TypeOK
<1>5. QED
  BY <1>3, <1>4 DEF Refetch, Fetches

LEMMA StillClass ==
  ASSUME TypeOK, Rows,
         UNCHANGED <<profile, inserting, session, promoted, spent, overlapped>>,
         page <= page'
  PROVE  Passive
BY DEF Passive, TypeOK, Rows, Reading

(* Every step is of one of these kinds.                                    *)
LEMMA Classified ==
  ASSUME TypeOK, Rows, [Next]_vars
  PROVE  \/ Passive
         \/ \E x \in Sessions : Opens(x) \/ Commit(x)
         \/ \E r \in Regens : Fetches(r) \/ AttemptFails(r)
                              \/ GenerationDisabled(r) \/ AttemptPromotes(r)
         \/ CooldownElapses
<1>1. page \in Nat /\ page <= page
  BY HealingAssumption DEF TypeOK
<1>2. ASSUME NEW x \in Sessions,
             ScrapeStep(x) \/ MissUnseen(x) \/ Report(x) \/ ReportStep(x)
               \/ Abort(x)
      PROVE  Passive \/ Opens(x) \/ Commit(x)
  BY <1>2, ScrapeClass, MarkClass DEF ScrapeStep, ReportStep
<1>3. ASSUME NEW r \in Regens, RegenStep(r) \/ NotFound(r)
      PROVE  \/ Passive \/ Opens(r) \/ Fetches(r) \/ AttemptFails(r)
             \/ GenerationDisabled(r) \/ AttemptPromotes(r)
  <2>1. CASE NotFound(r)
    BY <1>1, <2>1, StillClass DEF NotFound
  <2>2. CASE BrokenCommit(r)
    BY <2>2, ScrapeClass, Slots
  <2>3. QED
    BY <1>3, <2>1, <2>2, BeginClass, FetchClass DEF RegenStep
<1>4. CASE Drift \/ UNCHANGED vars
  BY <1>1, <1>4, StillClass DEF Drift, vars
<1>5. QED
  BY <1>2, <1>3, <1>4, Slots DEF Next
-----------------------------------------------------------------------------
(* Type correctness.                                                       *)

LEMMA CountersTyped ==
  ASSUME TypeOK, [Next]_vars
  PROVE  /\ queue' \in 0..MaxQueue /\ page' \in 1..MaxDrifts + 1
         /\ reports' \in 0..MaxReports /\ faults' \in 0..MaxFaults
<1>1. queue' \in {queue, queue - 1, queue + 1}
      /\ (queue' = queue - 1 => queue > 0)
      /\ (queue' = queue + 1 => queue < MaxQueue)
  <2>1. \A x \in Sessions : \A row : Mark(x, row) =>
          queue' = queue \/ (queue' = queue + 1 /\ queue < MaxQueue)
    BY DEF Mark
  <2>2. ASSUME NEW x \in Sessions,
               ScrapeStep(x) \/ MissUnseen(x) \/ Report(x) \/ ReportStep(x)
                 \/ Abort(x)
        PROVE  queue' = queue \/ (queue' = queue + 1 /\ queue < MaxQueue)
    BY <2>1, <2>2 DEF ScrapeStep, ReportStep, ReadSelector, Fetch, MissUnseen,
       Select, Insert, Commit, BrokenCommit, Report, Abort
  <2>3. ASSUME NEW r \in Regens, RegenStep(r) \/ NotFound(r)
        PROVE  queue' = queue \/ (queue' = queue - 1 /\ queue > 0)
    BY <2>3 DEF RegenStep, Begin, InsertForRegen, Refetch, AttemptFails,
       GenerationDisabled, AttemptPromotes, BrokenCommit, NotFound
  <2>4. CASE Drift \/ CooldownElapses \/ UNCHANGED vars
    BY <2>4 DEF Drift, CooldownElapses, vars, TypeOK
  <2>5. queue \in Int
    BY DEF TypeOK
  <2>6. QED
    BY <2>2, <2>3, <2>4, <2>5, Slots DEF Next
<1>2. page' = page \/ (page' = page + 1 /\ page <= MaxDrifts)
  BY DEF Next, vars, ScrapeStep, ReportStep, RegenStep, ReadSelector, Fetch,
     MissUnseen, Select, Insert, Commit, BrokenCommit, Report, Abort, Begin,
     InsertForRegen, Refetch, AttemptFails, GenerationDisabled,
     AttemptPromotes, NotFound, Drift, CooldownElapses
<1>3. reports' = reports \/ (reports' = reports + 1 /\ reports < MaxReports)
  BY DEF Next, vars, ScrapeStep, ReportStep, RegenStep, ReadSelector, Fetch,
     MissUnseen, Select, Insert, Commit, BrokenCommit, Report, Abort, Begin,
     InsertForRegen, Refetch, AttemptFails, GenerationDisabled,
     AttemptPromotes, NotFound, Drift, CooldownElapses
<1>4. faults' = faults \/ (faults' = faults + 1 /\ faults < MaxFaults)
  BY DEF Next, vars, ScrapeStep, ReportStep, RegenStep, ReadSelector, Fetch,
     MissUnseen, Select, Insert, Mark, Commit, BrokenCommit, Report, Abort, Begin,
     InsertForRegen, Refetch, AttemptFails, GenerationDisabled,
     AttemptPromotes, NotFound, Drift, CooldownElapses, Fault
<1>5. QED
  BY <1>1, <1>2, <1>3, <1>4, HealingAssumption DEF TypeOK

(* One session at most holds an INSERT.                                    *)
LEMMA OneInsert ==
  ASSUME TypeOK, Rows, NEW S,
         S \subseteq inserting \/ \E x \in Sessions : S = {x}
  PROVE  /\ S \subseteq Sessions /\ Cardinality(S) <= 1
         /\ \A x, y \in S : x = y
<1>1. S \subseteq Sessions /\ \A x, y \in S : x = y
  BY DEF TypeOK, Rows
<1>2. CASE S = {}
  BY <1>1, <1>2, FS_EmptySet
<1>3. CASE S # {}
  <2>1. PICK x \in S : S = {x}
    BY <1>1, <1>3
  <2>2. Cardinality({x}) = 1
    BY FS_Singleton
  <2>3. QED
    BY <1>1, <2>1, <2>2
<1>4. QED
  BY <1>2, <1>3

LEMMA TypeStep ==
  ASSUME TypeOK, Rows, [Next]_vars
  PROVE  TypeOK' /\ \A x, y \in inserting' : x = y
<1> DEFINE Typed == /\ profile' \in Row
                    /\ session' \in [Sessions -> Session]
                    /\ promoted' \in 0..MaxVersion /\ spent' \in Nat
                    /\ overlapped' \in BOOLEAN
                    /\ \/ inserting' \subseteq inserting
                       \/ \E x \in Sessions : inserting' = {x}
<1>1. SUFFICES Typed
  BY CountersTyped, OneInsert DEF TypeOK
<1>2. CASE Passive
  BY <1>2 DEF Passive, TypeOK
<1>3. ASSUME NEW x \in Sessions, Opens(x) PROVE Typed
  BY <1>3 DEF Opens, TypeOK
<1>4. ASSUME NEW x \in Sessions, Commit(x) PROVE Typed
  <2>1. session' \in [Sessions -> Session] /\ inserting' = inserting \ {x}
    BY <1>4, Ended DEF Commit
  <2>2. QED
    BY <1>4, <2>1, CommitOutcome DEF TypeOK
<1>5. ASSUME NEW r \in Regens, Fetches(r) PROVE Typed
  BY <1>5 DEF Fetches, TypeOK
<1>6. ASSUME NEW r \in Regens,
             AttemptFails(r) \/ GenerationDisabled(r) \/ AttemptPromotes(r)
      PROVE  Typed
  <2>1. session' \in [Sessions -> Session] /\ inserting' = inserting \ {r}
    BY <1>6, Slots, Ended DEF AttemptFails, GenerationDisabled, AttemptPromotes
  <2>2. promoted \in 0..MaxVersion /\ spent \in Nat
        /\ overlapped \in BOOLEAN
    BY DEF TypeOK
  <2>3. CASE AttemptFails(r)
    <3>1. profile' \in Row /\ spent' = spent + 1
          /\ UNCHANGED <<promoted, overlapped>>
      BY <2>3, FailOutcome
    <3>2. QED
      BY <2>1, <2>2, <3>1
  <2>4. CASE GenerationDisabled(r)
    <3>1. profile' \in Row /\ UNCHANGED <<promoted, spent, overlapped>>
      BY <2>4, DisabledOutcome
    <3>2. QED
      BY <2>1, <2>2, <3>1
  <2>5. CASE AttemptPromotes(r)
    <3>1. profile' \in Row /\ promoted' = Count(promoted) /\ spent' = 0
          /\ overlapped' = overlapped
      BY <2>5, PromoteOutcome
    <3>2. promoted' \in 0..MaxVersion
      BY <2>2, <3>1, Counting
    <3>3. QED
      BY <2>1, <2>2, <3>1, <3>2
  <2>6. QED
    BY <1>6, <2>3, <2>4, <2>5
<1>7. CASE CooldownElapses
  <2>1. profile' \in Row
    BY <1>7 DEF CooldownElapses, TypeOK, Row
  <2>2. QED
    BY <1>7, <2>1 DEF CooldownElapses, TypeOK
<1>8. QED
  BY <1>2, <1>3, <1>4, <1>5, <1>6, <1>7, Classified

(* Hours pass while nobody has the row open.                               *)
LEMMA ElapsedOutcome ==
  ASSUME TypeOK, CooldownElapses
  PROVE  /\ profile'.status = profile.status
         /\ profile'.selector = profile.selector
         /\ profile'.version = profile.version
         /\ profile'.failed = profile.failed /\ profile'.cooling = FALSE
         /\ profile.cooling = TRUE
         /\ UNCHANGED <<session, inserting, page, promoted, spent, overlapped>>
         /\ \A x \in Sessions : ~Reading(x) /\ ~Reading(x)'
<1>1. profile' = [profile EXCEPT !.cooling = FALSE] /\ profile \in Row
      /\ profile.cooling
  BY DEF CooldownElapses, TypeOK
<1>2. /\ profile'.status = profile.status
      /\ profile'.selector = profile.selector
      /\ profile'.version = profile.version
      /\ profile'.failed = profile.failed /\ profile'.cooling = FALSE
      /\ profile.cooling = TRUE
  BY <1>1 DEF Row
<1>3. QED
  BY <1>2 DEF CooldownElapses, Calm, Reading

LEMMA RowsStep ==
  ASSUME TypeOK, Rows, [Next]_vars
  PROVE  Rows'
<1>1. \A x, y \in inserting' : x = y
  BY TypeStep
<1>2. CASE Passive
  <2>1. \A x \in Sessions : /\ Attempting(x)' => Reading(x)'
                            /\ session'[x].pc = "commit" => Reading(x)'
    BY DEF Attempting, Reading
  <2>2. \A x \in Sessions : Reading(x)' =>
          /\ session'[x] = session[x] /\ RowOf(x)' = RowOf(x) /\ Reading(x)
          /\ (Attempting(x)' <=> Attempting(x))
          /\ x \in inserting => x \in inserting'
    BY <1>2 DEF Passive, Reading, RowOf, Attempting
  <2>3. /\ profile' = profile /\ inserting' \subseteq inserting
        /\ inserting \subseteq Sessions /\ \A x \in inserting' : Reading(x)'
    BY <1>2 DEF Passive, TypeOK
  <2>4. QED
    BY <1>1, <2>1, <2>2, <2>3 DEF Rows
<1>3. ASSUME NEW x \in Sessions, Opens(x) PROVE Rows'
  <2>1. \A y \in Sessions \ {x} :
          /\ session'[y] = session[y] /\ (Reading(y)' <=> Reading(y))
          /\ (Attempting(y)' <=> Attempting(y)) /\ RowOf(y)' = RowOf(y)
    BY <1>3 DEF Opens, Reading, Attempting, RowOf
  <2>2. Reading(x)' /\ profile' = profile /\ inserting \subseteq Sessions
    BY <1>3 DEF Opens, Reading, TypeOK
  <2>3. \A y \in Sessions \ {x} : y \in inserting' => y \in inserting
    BY <1>3 DEF Opens
  <2>4. \A y \in Sessions \ {x} :
          Reading(y)' /\ y \notin inserting' => profile'.status # "absent"
    BY <1>3, <2>1 DEF Opens, Rows
  <2>5. Reading(x)' /\ x \notin inserting' => profile'.status # "absent"
    BY <1>3 DEF Opens
  <2>6. inserting' # {} => profile' = NoProfile
    BY <1>3 DEF Opens, Rows
  <2>7. \A y \in inserting' : Reading(y)' /\ RowOf(y)' = Placeholder
    BY <1>3, <2>1, <2>2 DEF Opens, Rows
  <2>8. \A y \in Sessions :
          /\ session'[y].pc = "commit" => session'[y].obj = Marked(y, RowOf(y)')
          /\ Attempting(y)' => /\ y \in Regens
                               /\ session'[y].obj = RowOf(y)'
                               /\ RegenerationAllowed(RowOf(y)')
    BY <1>3, <2>1 DEF Opens, Rows, Attempting
  <2>9. QED
    BY <1>1, <2>2, <2>4, <2>5, <2>6, <2>7, <2>8 DEF Rows
<1>4. ASSUME NEW r \in Regens, Fetches(r) PROVE Rows'
  <2>1. \A y \in Sessions :
          /\ (Reading(y)' <=> Reading(y)) /\ RowOf(y)' = RowOf(y)
          /\ (Attempting(y)' <=> Attempting(y))
          /\ session'[y].obj = session[y].obj
          /\ (session'[y].pc = "commit" <=> session[y].pc = "commit")
    BY <1>4 DEF Fetches, Reading, Attempting, RowOf
  <2>2. profile' = profile /\ inserting' = inserting /\ inserting \subseteq Sessions
    BY <1>4 DEF Fetches, TypeOK
  <2>3. QED
    BY <1>1, <2>1, <2>2 DEF Rows
<1>5. ASSUME NEW x \in Sessions, Reading(x), inserting' = inserting \ {x},
             ~Reading(x)', ~Attempting(x)', session'[x] = Idle,
             \A y \in Sessions \ {x} : session'[y] = session[y],
             profile'.status # "absent"
      PROVE  Rows'
  <2>1. inserting' = {}
    <3>1. CASE x \in inserting
      BY <1>5, <3>1 DEF Rows
    <3>2. CASE x \notin inserting
      BY <1>5, <3>2, NewRows DEF Rows
    <3>3. QED
      BY <3>1, <3>2
  <2>2. \A y \in Sessions \ {x} : RowOf(y)' = RowOf(y)
          /\ (Attempting(y)' <=> Attempting(y))
    BY <1>5 DEF RowOf, Attempting
  <2>3. Idle.pc = "idle"
    BY SessionTyped
  <2>4. QED
    BY <1>5, <2>1, <2>2, <2>3 DEF Rows
<1>6. ASSUME NEW x \in Sessions, Commit(x) PROVE Rows'
  <2>1. Reading(x) /\ Close(x, session[x].obj)
    BY <1>6 DEF Commit, Reading
  <2>2. profile'.status # "absent"
    BY <1>6, <2>1, CommitOutcome DEF Rows
  <2>3. QED
    BY <1>5, <2>1, <2>2, Ended
<1>7. ASSUME NEW r \in Regens,
             AttemptFails(r) \/ GenerationDisabled(r) \/ AttemptPromotes(r)
      PROVE  Rows'
  <2>1. \E obj : Close(r, obj)
    BY <1>7 DEF AttemptFails, GenerationDisabled, AttemptPromotes
  <2>2. r \in Sessions /\ Reading(r)
    BY <1>7, Slots
       DEF AttemptFails, GenerationDisabled, AttemptPromotes, Reading
  <2>3. profile'.status # "absent"
    BY <1>7, <2>2, FailOutcome, DisabledOutcome, PromoteOutcome DEF Rows
  <2>4. QED
    BY <1>5, <2>1, <2>2, <2>3, Ended
<1>8. CASE CooldownElapses
  <2>1. /\ inserting = {} /\ inserting' = {}
        /\ \A x \in Sessions : ~Reading(x)' /\ ~Attempting(x)'
                               /\ session'[x].pc # "commit"
    BY <1>8, ElapsedOutcome DEF Rows, Reading, Attempting, TypeOK
  <2>2. profile.status # "absent" /\ profile'.status = profile.status
    BY <1>8, ElapsedOutcome, NewRows DEF Rows
  <2>3. QED
    BY <2>1, <2>2 DEF Rows
<1>9. QED
  BY <1>2, <1>3, <1>4, <1>6, <1>7, <1>8, Classified
-----------------------------------------------------------------------------
(* Versions and selectors.                                                 *)

(* A session that a step leaves alone.                                     *)
LEMMA Same ==
  ASSUME NEW y \in Sessions, session'[y] = session[y]
  PROVE  /\ (Reading(y)' <=> Reading(y)) /\ (Attempting(y)' <=> Attempting(y))
         /\ RowOf(y)' = RowOf(y) /\ (y \in Attempters' <=> y \in Attempters)
BY DEF Reading, Attempting, RowOf, Attempters

LEMMA AttemptersAre ==
  /\ Attempters \subseteq Regens /\ Attempters \subseteq Sessions
  /\ \A r \in Attempters : Reading(r) /\ Attempting(r)
BY Slots DEF Attempters, Attempting, Reading

LEMMA AttemptersAfter ==
  /\ Attempters' \subseteq Regens /\ Attempters' \subseteq Sessions
  /\ \A r \in Attempters' : Reading(r)' /\ Attempting(r)'
BY Slots DEF Attempters, Attempting, Reading

(* The sessions after a session x has ended.                               *)
LEMMA AfterEnd ==
  ASSUME TypeOK, NEW x \in Sessions, NEW obj, Close(x, obj)
  PROVE  /\ Attempters' = Attempters \ {x}
         /\ \A y \in Sessions : Reading(y)' =>
              /\ y # x /\ Reading(y) /\ RowOf(y)' = RowOf(y)
              /\ session'[y] = session[y]
<1>1. ~Reading(x)' /\ x \notin Attempters'
      /\ \A y \in Sessions \ {x} : session'[y] = session[y]
  BY Ended DEF Attempters
<1>2. \A y \in Sessions \ {x} :
        /\ (Reading(y)' <=> Reading(y)) /\ RowOf(y)' = RowOf(y)
        /\ y \in Attempters' <=> y \in Attempters
  BY <1>1, Same
<1>3. QED
  BY <1>1, <1>2, AttemptersAre, AttemptersAfter

LEMMA Closes ==
  /\ \A x \in Sessions : Commit(x) => \E obj : Close(x, obj)
  /\ \A r \in Regens : AttemptFails(r) \/ GenerationDisabled(r)
                         \/ AttemptPromotes(r) =>
                       r \in Sessions /\ \E obj : Close(r, obj)
BY Slots DEF Commit, AttemptFails, GenerationDisabled, AttemptPromotes

(* The sessions after one has opened.                                      *)
LEMMA AfterOpen ==
  ASSUME TypeOK, Rows, NEW x \in Sessions, Opens(x)
  PROVE  /\ x \notin Attempters
         /\ session'[x].pc = "commit" => Attempters' = Attempters
         /\ session'[x].pc = "attempt" => Attempters' = Attempters \cup {x}
         /\ \A y \in Sessions \ {x} : /\ Reading(y)' <=> Reading(y)
                                      /\ RowOf(y)' = RowOf(y)
                                      /\ session'[y] = session[y]
         /\ RowOf(x)' = profile \/ (RowOf(x)' = Placeholder /\ profile = NoProfile)
         /\ profile \in Row /\ RowOf(x)' \in Row
         /\ RowOf(x)'.version = profile.version
         /\ RowOf(x)'.failed = profile.failed
         /\ RowOf(x)'.selector = profile.selector
         /\ RowOf(x)'.cooling = profile.cooling
<1>1. x \notin Attempters /\ \A y \in Sessions \ {x} : session'[y] = session[y]
  BY AttemptersAre DEF Opens
<1>2. \A y \in Sessions \ {x} :
        /\ (Reading(y)' <=> Reading(y)) /\ RowOf(y)' = RowOf(y)
        /\ y \in Attempters' <=> y \in Attempters
  BY <1>1, Same
<1>3. session'[x].pc = "commit" => x \notin Attempters'
  BY DEF Attempters, Attempting
<1>4. session'[x].pc = "attempt" => x \in Attempters'
  BY DEF Attempters, Attempting, Opens
<1>5. RowOf(x)' = profile \/ (RowOf(x)' = Placeholder /\ profile = NoProfile)
  BY DEF Opens
<1>6. profile \in Row
  BY DEF TypeOK
<1>7. Attempters' \ {x} = Attempters
  BY <1>1, <1>2, AttemptersAre, AttemptersAfter
<1>8. /\ session'[x].pc = "commit" => Attempters' = Attempters
      /\ session'[x].pc = "attempt" => Attempters' = Attempters \cup {x}
  BY <1>3, <1>4, <1>7
<1>9. /\ RowOf(x)' \in Row
      /\ RowOf(x)'.version = profile.version
      /\ RowOf(x)'.failed = profile.failed
      /\ RowOf(x)'.selector = profile.selector
      /\ RowOf(x)'.cooling = profile.cooling
  BY <1>5, <1>6, NewRows
<1>10. QED
  BY <1>1, <1>2, <1>5, <1>6, <1>8, <1>9

(* The sessions after a passive step and after a fetch.                    *)
LEMMA AfterPassive ==
  ASSUME Passive
  PROVE  /\ Attempters' \subseteq Attempters
         /\ \A y \in Sessions : Reading(y)' =>
              /\ Reading(y) /\ RowOf(y)' = RowOf(y)
              /\ session'[y] = session[y]
<1>1. \A y \in Sessions : Reading(y)' => session'[y] = session[y]
  BY DEF Passive
<1>2. QED
  BY <1>1, Same, AttemptersAfter

LEMMA AfterFetch ==
  ASSUME NEW r \in Regens, Fetches(r)
  PROVE  /\ Attempters' = Attempters /\ r \in Attempters
         /\ \A y \in Sessions : /\ Reading(y)' <=> Reading(y)
                                /\ RowOf(y)' = RowOf(y)
<1>1. \A y \in Sessions \ {r} : session'[y] = session[y]
  BY DEF Fetches
<1>2. /\ (Reading(r)' <=> Reading(r)) /\ RowOf(r)' = RowOf(r)
      /\ r \in Attempters' /\ r \in Attempters
  BY DEF Fetches, Reading, RowOf, Attempters, Attempting
<1>3. QED
  BY <1>1, <1>2, Same, AttemptersAre, AttemptersAfter

LEMMA NumberTypes ==
  ASSUME TypeOK
  PROVE  /\ page \in Nat /\ page # 0 /\ profile \in Row
         /\ profile.version \in Nat /\ profile.selector \in Nat
         /\ profile.failed \in Nat /\ profile.cooling \in BOOLEAN
         /\ spent \in Nat /\ promoted \in Nat /\ overlapped \in BOOLEAN
         /\ \A y \in Sessions :
              /\ RowOf(y).version \in Nat /\ RowOf(y).selector \in Nat
              /\ RowOf(y).failed \in Nat /\ session[y].page \in Nat
<1>1. page \in Nat /\ page # 0
  BY HealingAssumption DEF TypeOK
<1>2. profile \in Row /\ spent \in Nat /\ promoted \in Nat /\ overlapped \in BOOLEAN
  BY HealingAssumption DEF TypeOK
<1>3. QED
  BY <1>1, <1>2, RowFields, SessionTyped

LEMMA NumberedStep ==
  ASSUME TypeOK, Rows, Numbered, Agreed, [Next]_vars
  PROVE  Numbered'
<1>1. /\ page \in Nat /\ page # 0 /\ profile.version \in Nat
      /\ profile.selector \in Nat
      /\ \A y \in Sessions :
           /\ RowOf(y).version \in Nat /\ RowOf(y).selector \in Nat
           /\ session[y].page \in Nat
  BY NumberTypes
<1>2. Attempters \subseteq Sessions
  BY AttemptersAre
<1>3. CASE Passive
  <2>1. /\ profile' = profile /\ page <= page' /\ page' \in Nat
    BY <1>3, TypeStep, HealingAssumption DEF Passive, TypeOK
  <2>2. /\ Attempters' \subseteq Attempters
        /\ \A r \in Attempters' :
             RowOf(r)' = RowOf(r) /\ session'[r] = session[r]
    BY <1>3, AfterPassive, AttemptersAfter
  <2>3. QED
    BY <1>1, <1>2, <2>1, <2>2 DEF Numbered
<1>4. ASSUME NEW x \in Sessions, Opens(x) PROVE Numbered'
  <2>1. /\ profile' = profile /\ page' = page
        /\ session'[x].pc \in {"commit", "attempt"}
    BY <1>4 DEF Opens
  <2>2. /\ Attempters' \subseteq Attempters \cup {x}
        /\ x \notin Attempters
        /\ RowOf(x)'.version = profile.version
        /\ RowOf(x)'.selector = profile.selector
        /\ \A r \in Attempters' \ {x} :
             RowOf(r)' = RowOf(r) /\ session'[r] = session[r]
    BY <1>4, <2>1, AfterOpen, AttemptersAfter
  <2>3. QED
    BY <1>1, <2>1, <2>2 DEF Numbered
<1>5. ASSUME NEW r \in Regens, Fetches(r) PROVE Numbered'
  <2>1. /\ profile' = profile /\ page' = page /\ session'[r].page = page
        /\ \A y \in Sessions \ {r} : session'[y] = session[y]
    BY <1>5 DEF Fetches
  <2>2. Attempters' = Attempters /\ \A y \in Sessions : RowOf(y)' = RowOf(y)
    BY <1>5, AfterFetch
  <2>3. QED
    BY <1>1, <1>2, <2>1, <2>2 DEF Numbered
<1>6. ASSUME NEW x \in Sessions, NEW obj, Close(x, obj), page' = page,
             profile'.version = profile.version,
             profile'.selector = profile.selector
      PROVE  Numbered'
  <2>1. Attempters' = Attempters \ {x} /\ \A r \in Attempters' :
          RowOf(r)' = RowOf(r) /\ session'[r] = session[r]
    BY <1>6, AfterEnd, AttemptersAfter
  <2>2. QED
    BY <1>6, <2>1 DEF Numbered
<1>7. ASSUME NEW r \in Regens, AttemptPromotes(r) PROVE Numbered'
  <2> DEFINE row == RowOf(r)
             found == session[r].page
  <2>1. /\ profile'.selector = IF found # row.selector
                                 THEN found ELSE profile.selector
        /\ page' = page /\ r \in Attempters /\ session[r].pc = "generate"
        /\ profile'.version \in Nat /\ profile'.version > 0
        /\ row.version <= profile'.version
        /\ profile'.version <= row.version + 1
    BY <1>7, PromoteOutcome, NewVersion DEF AttemptPromotes
  <2>2. /\ row.version \in Nat /\ row.selector \in Nat /\ found \in Nat
        /\ row.selector # 0 => profile.selector # 0
        /\ found <= page /\ found # 0
    BY <1>1, <1>2, <2>1 DEF Numbered
  <2>3. Attempters' \subseteq Attempters /\ \A q \in Attempters' :
          RowOf(q)' = RowOf(q) /\ session'[q] = session[q]
    BY <1>7, Closes, AfterEnd, AttemptersAfter
  <2>4. \A q \in Attempters : RowOf(q).version = row.version
    BY <2>1 DEF Agreed
  <2>5. profile'.version > 0 /\ profile'.selector # 0
        /\ profile'.selector <= page'
    BY <2>1, <2>2 DEF Numbered
  <2> HIDE DEF row, found
  <2>6. QED
    BY <1>1, <1>2, <2>1, <2>2, <2>3, <2>4, <2>5 DEF Numbered
<1>8. CASE CooldownElapses
  <2>1. /\ profile'.version = profile.version
        /\ profile'.selector = profile.selector /\ page' = page
        /\ Attempters' = {}
    BY <1>8, ElapsedOutcome, AttemptersAfter
  <2>2. QED
    BY <2>1 DEF Numbered
<1>9. QED
  BY <1>3, <1>4, <1>5, <1>6, <1>7, <1>8, Classified, Closes, CommitOutcome,
     FailOutcome, DisabledOutcome
-----------------------------------------------------------------------------
(* What the sessions and the row agree on.                                 *)

LEMMA AgreedCommit ==
  ASSUME TypeOK, Rows, Agreed, NEW x \in Sessions, Commit(x)
  PROVE  Agreed'
<1> DEFINE row == RowOf(x)
           revives == x \in Reporters /\ row.status = "failed"
<1>1. /\ Reading(x) /\ x \notin Attempters
      /\ x \in inserting => profile = NoProfile
  BY DEF Commit, Reading, Rows, Attempters, Attempting
<1>2. /\ Attempters' = Attempters
      /\ \A y \in Sessions : Reading(y)' =>
           Reading(y) /\ RowOf(y)' = RowOf(y)
  BY <1>1, AfterEnd, Closes
<1>3. /\ profile'.selector = profile.selector
      /\ profile'.version = profile.version
      /\ profile'.cooling = profile.cooling
      /\ profile'.failed = IF revives /\ row.failed # 0
                             THEN 0 ELSE profile.failed
      /\ profile'.status = IF revives \/ row.status = "active"
                                \/ x \in inserting
                             THEN "stale" ELSE profile.status
      /\ overlapped' = overlapped
  BY CommitOutcome
<1>4. ~profile.cooling /\ revives =>
        \/ profile.failed = 0
        \/ profile.status = "failed" /\ profile.failed = row.failed
  BY <1>1 DEF Agreed
<1>5. row.status = "active" /\ profile.status = "failed" => profile.cooling
  BY <1>1 DEF Agreed
<1>6. \A r \in Attempters : Reading(r) /\ RowOf(r)' = RowOf(r)
  BY <1>2, AttemptersAre, AttemptersAfter
<1> HIDE DEF row, revives
<1>7. ASSUME NEW y \in Sessions, Reading(y)'
      PROVE  /\ RowOf(y)'.status = "failed" /\ ~profile'.cooling =>
                  \/ profile'.failed = 0
                  \/ /\ profile'.status = "failed"
                     /\ profile'.failed = RowOf(y)'.failed
             /\ RowOf(y)'.status = "active" /\ profile'.status = "failed"
                  => profile'.cooling
  <2>1. Reading(y) /\ RowOf(y)' = RowOf(y)
    BY <1>2, <1>7
  <2>2. /\ RowOf(y).status = "failed" /\ ~profile.cooling =>
             \/ profile.failed = 0
             \/ profile.status = "failed" /\ profile.failed = RowOf(y).failed
        /\ RowOf(y).status = "active" /\ profile.status = "failed" =>
             profile.cooling
    BY <2>1 DEF Agreed
  <2>3. x \in inserting => profile.failed = 0
    BY <1>1, NewRows
  <2>4. QED
    BY <1>3, <1>4, <1>5, <2>1, <2>2, <2>3
<1>8. ASSUME NEW r \in Attempters, ~profile'.cooling
      PROVE  /\ profile'.version = RowOf(r)'.version
             /\ profile'.failed = RowOf(r)'.failed
             /\ profile'.selector = RowOf(r)'.selector
             /\ profile'.status # "failed"
  <2>1. /\ profile.version = RowOf(r).version
        /\ profile.failed = RowOf(r).failed
        /\ profile.selector = RowOf(r).selector
        /\ profile.status # "failed"
    BY <1>3, <1>8 DEF Agreed
  <2>2. QED
    BY <1>3, <1>4, <1>6, <1>8, <2>1
<1>9. ASSUME NEW r \in Attempters
      PROVE  /\ \A q \in Attempters : /\ RowOf(q)'.version = RowOf(r)'.version
                                      /\ RowOf(q)'.failed = RowOf(r)'.failed
             /\ ~overlapped' => ~profile'.cooling /\ Attempters' = {r}
  BY <1>2, <1>3, <1>6 DEF Agreed
<1>10. QED
  BY <1>2, <1>7, <1>8, <1>9 DEF Agreed

LEMMA AgreedEnd ==
  ASSUME TypeOK, Rows, Agreed, NEW r \in Regens,
         AttemptFails(r) \/ GenerationDisabled(r) \/ AttemptPromotes(r)
  PROVE  Agreed'
<1>1. /\ r \in Attempters /\ Attempters' = Attempters \ {r}
      /\ \A y \in Sessions : Reading(y)' =>
           Reading(y) /\ RowOf(y)' = RowOf(y)
      /\ overlapped' = overlapped
  BY Closes, AfterEnd, FailOutcome, DisabledOutcome, PromoteOutcome
<1>2. \A q \in Attempters' : q \in Attempters /\ RowOf(q)' = RowOf(q)
  BY <1>1, AttemptersAfter
<1>3. ~overlapped' => Attempters' = {}
  BY <1>1 DEF Agreed
<1>4. ASSUME NEW q \in Attempters', NEW t \in Attempters'
      PROVE  /\ RowOf(t)'.version = RowOf(q)'.version
             /\ RowOf(t)'.failed = RowOf(q)'.failed
  BY <1>2 DEF Agreed
<1>5. CASE profile'.cooling
  BY <1>3, <1>4, <1>5 DEF Agreed
<1>6. CASE ~profile'.cooling
  <2>1. GenerationDisabled(r)
    BY <1>6, FailOutcome, PromoteOutcome
  <2>2. /\ profile'.selector = profile.selector
        /\ profile'.version = profile.version
        /\ profile'.cooling = profile.cooling
        /\ profile'.failed = profile.failed
        /\ profile'.status = IF r \in inserting THEN "stale"
                                                ELSE profile.status
    BY <2>1, DisabledOutcome
  <2>3. r \in inserting => profile.failed = 0
    BY NewRows DEF Rows
  <2>4. ASSUME NEW y \in Sessions, Reading(y)'
        PROVE  /\ RowOf(y)'.status = "failed" /\ ~profile'.cooling =>
                    \/ profile'.failed = 0
                    \/ /\ profile'.status = "failed"
                       /\ profile'.failed = RowOf(y)'.failed
               /\ RowOf(y)'.status = "active" /\ profile'.status = "failed"
                    => profile'.cooling
    <3>1. /\ RowOf(y).status = "failed" /\ ~profile.cooling =>
               \/ profile.failed = 0
               \/ profile.status = "failed" /\ profile.failed = RowOf(y).failed
          /\ RowOf(y).status = "active" /\ profile.status = "failed" =>
               profile.cooling
      BY <1>1, <2>4 DEF Agreed
    <3>2. RowOf(y)' = RowOf(y)
      BY <1>1, <2>4
    <3>3. QED
      BY <2>2, <2>3, <3>1, <3>2
  <2>5. ASSUME NEW q \in Attempters'
        PROVE  /\ profile'.version = RowOf(q)'.version
               /\ profile'.failed = RowOf(q)'.failed
               /\ profile'.selector = RowOf(q)'.selector
               /\ profile'.status # "failed"
    BY <1>2, <1>6, <2>2 DEF Agreed
  <2>6. QED
    BY <1>3, <1>4, <2>4, <2>5 DEF Agreed
<1>7. QED
  BY <1>5, <1>6

LEMMA AgreedOpen ==
  ASSUME TypeOK, Rows, Agreed, NEW x \in Sessions, Opens(x)
  PROVE  Agreed'
<1>1. /\ profile' = profile /\ session'[x].pc \in {"commit", "attempt"}
      /\ profile.cooling \in BOOLEAN /\ overlapped \in BOOLEAN
  BY NumberTypes DEF Opens
<1>2. /\ x \notin Attempters
      /\ session'[x].pc = "commit" => Attempters' = Attempters
      /\ session'[x].pc = "attempt" => Attempters' = Attempters \cup {x}
      /\ \A y \in Sessions \ {x} : /\ Reading(y)' <=> Reading(y)
                                   /\ RowOf(y)' = RowOf(y)
      /\ RowOf(x)' = profile \/ (RowOf(x)' = Placeholder /\ profile = NoProfile)
      /\ RowOf(x)'.version = profile.version
      /\ RowOf(x)'.failed = profile.failed
      /\ RowOf(x)'.selector = profile.selector
      /\ RowOf(x)'.cooling = profile.cooling
  BY AfterOpen
<1>3. /\ RowOf(x)'.status = "failed" => profile.status = "failed"
      /\ RowOf(x)'.status = "active" => profile.status = "active"
      /\ profile.status = "failed" => RowOf(x)'.status = "failed"
  BY <1>2, NewRows
<1>4. ASSUME NEW y \in Sessions, Reading(y)'
      PROVE  /\ RowOf(y)'.status = "failed" /\ ~profile'.cooling =>
                  \/ profile'.failed = 0
                  \/ /\ profile'.status = "failed"
                     /\ profile'.failed = RowOf(y)'.failed
             /\ RowOf(y)'.status = "active" /\ profile'.status = "failed"
                  => profile'.cooling
  <2>1. CASE y = x
    BY <1>1, <1>2, <1>3, <2>1
  <2>2. CASE y # x
    BY <1>1, <1>2, <1>4, <2>2 DEF Agreed
  <2>3. QED
    BY <2>1, <2>2
<1>5. \A r \in Attempters : r \in Sessions /\ r # x /\ RowOf(r)' = RowOf(r)
  BY <1>2, AttemptersAre
<1>6. CASE session'[x].pc = "commit"
  <2>1. Attempters' = Attempters /\ overlapped' = overlapped
    BY <1>2, <1>6 DEF Opens
  <2>2. QED
    BY <1>1, <1>4, <1>5, <2>1 DEF Agreed
<1>7. CASE session'[x].pc = "attempt"
  <2>1. /\ Attempters' = Attempters \cup {x}
        /\ overlapped' = (overlapped \/ \E q \in Regens \ {x} : Attempting(q))
        /\ ~RowOf(x)'.cooling /\ RowOf(x)'.status # "failed"
    BY <1>2, <1>7 DEF Opens, RegenerationAllowed
  <2>2. ~profile.cooling /\ profile.status # "failed"
    BY <1>2, <1>3, <2>1
  <2>3. \A r \in Attempters' : /\ profile.version = RowOf(r)'.version
                               /\ profile.failed = RowOf(r)'.failed
                               /\ profile.selector = RowOf(r)'.selector
    BY <1>2, <1>5, <2>1, <2>2 DEF Agreed
  <2>4. ~overlapped' => Attempters' = {x}
    <3>1. ~overlapped' => \A q \in Regens \ {x} : ~Attempting(q)
      BY <1>1, <2>1
    <3>2. QED
      BY <1>5, <2>1, <3>1, AttemptersAre
  <2>5. QED
    BY <1>1, <1>4, <2>2, <2>3, <2>4 DEF Agreed
<1>8. QED
  BY <1>1, <1>6, <1>7

LEMMA AgreedStep ==
  ASSUME TypeOK, Rows, Agreed, [Next]_vars
  PROVE  Agreed'
<1>1. ASSUME profile' = profile, overlapped' = overlapped,
             Attempters' \subseteq Attempters,
             \A y \in Sessions : Reading(y)' =>
               Reading(y) /\ RowOf(y)' = RowOf(y)
      PROVE  Agreed'
  <2>1. \A r \in Attempters' : RowOf(r)' = RowOf(r) /\ r \in Attempters
    BY <1>1, AttemptersAfter
  <2>2. \A y \in Sessions : Reading(y)' =>
          /\ RowOf(y)'.status = "failed" /\ ~profile'.cooling =>
               \/ profile'.failed = 0
               \/ /\ profile'.status = "failed"
                  /\ profile'.failed = RowOf(y)'.failed
          /\ RowOf(y)'.status = "active" /\ profile'.status = "failed"
               => profile'.cooling
    BY <1>1 DEF Agreed
  <2>3. \A r \in Attempters' : ~overlapped' => Attempters' = {r}
    BY <1>1, <2>1 DEF Agreed
  <2>4. QED
    BY <1>1, <2>1, <2>2, <2>3 DEF Agreed
<1>2. CASE Passive
  BY <1>1, <1>2, AfterPassive DEF Passive
<1>3. ASSUME NEW r \in Regens, Fetches(r) PROVE Agreed'
  BY <1>1, <1>3, AfterFetch DEF Fetches
<1>4. CASE CooldownElapses
  <2>1. Attempters' = {} /\ \A y \in Sessions : ~Reading(y)'
    BY <1>4, ElapsedOutcome, AttemptersAfter
  <2>2. QED
    BY <2>1 DEF Agreed
<1>5. QED
  BY <1>2, <1>3, <1>4, Classified, AgreedOpen, AgreedCommit, AgreedEnd
-----------------------------------------------------------------------------
(* The counters.                                                           *)

LEMMA Times ==
  ASSUME NEW a \in Nat, NEW R \in Nat
  PROVE  /\ a * R \in Nat /\ (a + 1) * R = a * R + R
         /\ (a + 1) * R \in Nat /\ R <= (a + 1) * R
OBVIOUS

LEMMA Moves ==
  ASSUME NEW n \in Nat, NEW m \in Nat, m = n - 1, NEW room \in Nat,
         NEW a \in Nat, NEW b \in Nat, a + n <= room, b <= a + 1
  PROVE  b + m <= room /\ b <= room
OBVIOUS

LEMMA AtLeast ==
  ASSUME NEW a \in Nat, NEW R \in Nat \ {0}
  PROVE  a <= a * R /\ a * R \in Nat
<1>1. PICK b \in Nat : R = b + 1
  <2>1. R - 1 \in Nat /\ R = (R - 1) + 1
    OBVIOUS
  <2>2. QED
    BY <2>1
<1>2. a * (b + 1) = a * b + a /\ a * b \in Nat
  OBVIOUS
<1>3. QED
  BY <1>1, <1>2

(* The attempts under way are no more than there are slots.                *)
LEMMA SlotCount ==
  ASSUME NEW S, S \subseteq Regens
  PROVE  /\ IsFiniteSet(S) /\ Cardinality(S) \in Nat
         /\ Cardinality(Regens) \in Nat
         /\ Cardinality(S) <= Cardinality(Regens)
BY HealingAssumption, FS_Subset, FS_CardinalityType

LEMMA SubCount ==
  /\ Attempters' \subseteq Attempters =>
       Cardinality(Attempters') <= Cardinality(Attempters)
  /\ \A r \in Attempters : Attempters' = Attempters \ {r} =>
       Cardinality(Attempters') = Cardinality(Attempters) - 1
<1>1. IsFiniteSet(Attempters)
  BY SlotCount, AttemptersAre
<1>2. QED
  BY <1>1, FS_Subset, FS_RemoveElement

(* A slot's failure or promotion fits the slots' share of what its row     *)
(* will count.                                                             *)
LEMMA Room ==
  ASSUME TypeOK, Numbered, Agreed, Counted, NEW r \in Attempters
  PROVE  LET n == Cardinality(Attempters)
             R == Cardinality(Regens)
         IN  /\ spent + n <= (RowOf(r).failed + 1) * R
             /\ promoted + n <= (RowOf(r).version + 1) * R
<1> DEFINE n == Cardinality(Attempters)
           R == Cardinality(Regens)
           f == RowOf(r).failed
           v == RowOf(r).version
<1>1. /\ n \in Nat /\ R \in Nat /\ n <= R /\ f \in Nat /\ v \in Nat
      /\ spent \in Nat /\ promoted \in Nat /\ profile.version \in Nat
      /\ profile.cooling \in BOOLEAN
  BY SlotCount, AttemptersAre, NumberTypes
<1>2. /\ spent <= profile.failed * R /\ promoted <= profile.version * R
      /\ profile.cooling => spent + n <= (f + 1) * R
      /\ v < profile.version => promoted + n <= profile.version * R
  BY DEF Counted
<1>3. /\ ~profile.cooling => profile.failed = f
      /\ v <= profile.version /\ profile.version <= v + 1
  BY DEF Agreed, Numbered
<1>4. /\ f * R \in Nat /\ (f + 1) * R = f * R + R
      /\ v * R \in Nat /\ (v + 1) * R = v * R + R
  BY <1>1, Times
<1> HIDE DEF n, R, f, v
<1>5. spent + n <= (f + 1) * R
  <2>1. CASE profile.cooling
    BY <1>2, <2>1
  <2>2. CASE ~profile.cooling
    <3>1. spent <= f * R
      BY <1>2, <1>3, <2>2
    <3>2. QED
      BY <1>1, <1>4, <3>1
  <2>3. QED
    BY <2>1, <2>2
<1>6. promoted + n <= (v + 1) * R
  <2>1. CASE profile.version = v
    <3>1. promoted <= v * R
      BY <1>2, <2>1
    <3>2. QED
      BY <1>1, <1>4, <3>1
  <2>2. CASE profile.version # v
    <3>1. profile.version = v + 1 /\ v < profile.version
      BY <1>1, <1>3, <2>2
    <3>2. QED
      BY <1>2, <3>1
  <2>3. QED
    BY <2>1, <2>2
<1>7. QED
  BY <1>5, <1>6 DEF n, R, f, v

LEMMA CountedStep ==
  ASSUME TypeOK, Rows, Numbered, Agreed, Counted, [Next]_vars
  PROVE  Counted'
<1> DEFINE n == Cardinality(Attempters)
           m == Cardinality(Attempters')
           R == Cardinality(Regens)
<1>1. /\ n \in Nat /\ R \in Nat /\ m \in Nat /\ m <= R /\ n <= R
      /\ spent \in Nat /\ promoted \in Nat
      /\ profile.version \in Nat /\ profile.failed \in Nat
      /\ \A y \in Attempters : RowOf(y).failed \in Nat /\ RowOf(y).version \in Nat
      /\ profile.version * R \in Nat /\ profile.failed * R \in Nat
  <2>1. \A y \in Attempters : y \in Sessions
    BY AttemptersAre
  <2>2. /\ n \in Nat /\ R \in Nat /\ m \in Nat /\ m <= R /\ n <= R
        /\ spent \in Nat /\ promoted \in Nat
        /\ profile.version \in Nat /\ profile.failed \in Nat
        /\ \A y \in Attempters :
             RowOf(y).failed \in Nat /\ RowOf(y).version \in Nat
    BY <2>1, SlotCount, AttemptersAre, AttemptersAfter, NumberTypes
  <2> HIDE DEF n, m, R
  <2>3. QED
    BY <2>2, Times
<1>2. ASSUME spent' <= profile'.failed * R, promoted' <= profile'.version * R,
             \A r \in Attempters' :
               /\ profile'.cooling => spent' + m <= (RowOf(r)'.failed + 1) * R
               /\ RowOf(r)'.version < profile'.version =>
                    promoted' + m <= profile'.version * R
      PROVE  Counted'
  BY <1>2 DEF Counted
<1>3. /\ spent <= profile.failed * R
      /\ promoted <= profile.version * R
      /\ \A r \in Attempters :
           /\ profile.cooling => spent + n <= (RowOf(r).failed + 1) * R
           /\ RowOf(r).version < profile.version =>
                promoted + n <= profile.version * R
  BY DEF Counted
<1>4. \A r \in Attempters : (RowOf(r).failed + 1) * R \in Nat
                            /\ R <= (RowOf(r).failed + 1) * R
  BY <1>1, Times
<1>5. ASSUME profile' = profile, spent' = spent, promoted' = promoted,
             Attempters' \subseteq Attempters,
             \A r \in Attempters' : RowOf(r)' = RowOf(r)
      PROVE  Counted'
  <2>1. m <= n
    BY <1>5, SubCount
  <2> HIDE DEF n, m, R
  <2>2. QED
    BY <1>1, <1>2, <1>3, <1>4, <1>5, <2>1
<1>6. CASE Passive
  BY <1>5, <1>6, AfterPassive, AttemptersAfter DEF Passive
<1>7. ASSUME NEW r \in Regens, Fetches(r) PROVE Counted'
  BY <1>5, <1>7, AfterFetch, AttemptersAfter DEF Fetches
<1>8. ASSUME NEW x \in Sessions, Opens(x) PROVE Counted'
  <2>1. /\ profile' = profile /\ spent' = spent /\ promoted' = promoted
        /\ session'[x].pc \in {"commit", "attempt"}
    BY <1>8 DEF Opens
  <2>2. CASE session'[x].pc = "commit"
    <3>1. Attempters' = Attempters /\ x \notin Attempters
          /\ \A r \in Attempters' : RowOf(r)' = RowOf(r)
      BY <1>8, <2>2, AfterOpen, AttemptersAfter
    <3>2. QED
      BY <1>5, <2>1, <3>1
  <2>3. CASE session'[x].pc = "attempt"
    <3>1. ~RowOf(x)'.cooling
      BY <1>8, <2>3 DEF Opens, RegenerationAllowed
    <3>2. ~profile.cooling
      BY <1>8, <3>1, AfterOpen
    <3>3. Agreed'
      BY <1>8, AgreedOpen
    <3>4. \A r \in Attempters' : RowOf(r)'.version = profile'.version
      BY <2>1, <3>2, <3>3 DEF Agreed
    <3>5. \A r \in Attempters' : ~(RowOf(r)'.version < profile'.version)
      BY <1>1, <2>1, <3>4
    <3> HIDE DEF n, m, R
    <3>6. QED
      BY <1>2, <1>3, <2>1, <3>2, <3>5
  <2>4. QED
    BY <2>1, <2>2, <2>3
<1>9. ASSUME NEW x \in Sessions, Commit(x) PROVE Counted'
  <2>1. /\ Attempters' = Attempters
        /\ \A r \in Attempters : RowOf(r)' = RowOf(r)
    <3>1. x \notin Attempters
      BY <1>9 DEF Commit, Attempters, Attempting
    <3>2. QED
      BY <1>9, <3>1, AfterEnd, Closes, AttemptersAfter
  <2>2. /\ profile'.version = profile.version /\ promoted' = promoted
        /\ profile'.cooling = profile.cooling
        /\ \/ spent' = spent /\ profile'.failed = profile.failed
           \/ spent' = 0 /\ profile'.failed \in {0, profile.failed}
    BY <1>9, CommitOutcome
  <2>3. m = n
    BY <2>1
  <2> HIDE DEF n, m, R
  <2>4. 0 * R = 0
    BY <1>1
  <2>5. spent' <= profile'.failed * R
    BY <1>1, <1>3, <2>2, <2>4
  <2>6. \A r \in Attempters : profile'.cooling =>
          spent' + m <= (RowOf(r)'.failed + 1) * R
    BY <1>1, <1>3, <1>4, <2>1, <2>2, <2>3
  <2>7. QED
    BY <1>2, <1>3, <2>1, <2>2, <2>3, <2>5, <2>6
<1>10. ASSUME NEW r \in Regens, Attempters' = Attempters \ {r}, r \in Attempters,
              \A q \in Attempters' : RowOf(q)' = RowOf(q)
       PROVE  /\ m = n - 1
              /\ \A q \in Attempters' :
                   /\ q \in Attempters
                   /\ RowOf(q)'.failed = RowOf(r).failed
                   /\ RowOf(q)'.version = RowOf(r).version
  BY <1>10, SubCount DEF Agreed
<1>11. ASSUME NEW r \in Regens,
              AttemptFails(r) \/ GenerationDisabled(r) \/ AttemptPromotes(r)
       PROVE  Counted'
  <2> DEFINE f == RowOf(r).failed
             v == RowOf(r).version
  <2>1. /\ r \in Attempters /\ Attempters' = Attempters \ {r}
        /\ \A q \in Attempters' : RowOf(q)' = RowOf(q)
    BY <1>11, Closes, AfterEnd, AttemptersAfter, FailOutcome, DisabledOutcome,
       PromoteOutcome
  <2>2. /\ m = n - 1
        /\ \A q \in Attempters' : /\ q \in Attempters
                                  /\ RowOf(q)'.failed = f
                                  /\ RowOf(q)'.version = v
    BY <1>10, <2>1
  <2>3. /\ f \in Nat /\ v \in Nat
        /\ spent + n <= (f + 1) * R /\ promoted + n <= (v + 1) * R
    BY <1>1, <2>1, Room
  <2>4. /\ (f + 1) * R \in Nat /\ R <= (f + 1) * R /\ (v + 1) * R \in Nat
    BY <1>1, <2>3, Times
  <2>5. v <= profile.version /\ profile.version <= v + 1
    BY <2>1 DEF Numbered
  <2>6. \A q \in Attempters' : RowOf(q).failed = f /\ RowOf(q).version = v
    BY <2>1, <2>2
  <2>7. v < profile.version => promoted + n <= profile.version * R
    BY <1>3, <2>1
  <2>8. CASE AttemptFails(r)
    <3>1. /\ profile'.failed = f + 1 /\ spent' = spent + 1
          /\ profile'.version = profile.version /\ promoted' = promoted
      BY <2>8, FailOutcome
    <3> HIDE DEF n, m, R, f, v
    <3>2. spent' + m <= (f + 1) * R /\ spent' <= (f + 1) * R
      BY <1>1, <2>2, <2>3, <2>4, <3>1
    <3>3. v < profile.version => promoted + m <= profile.version * R
      BY <1>1, <2>2, <2>7
    <3>4. QED
      BY <1>2, <1>3, <2>2, <3>1, <3>2, <3>3
  <2>9. CASE GenerationDisabled(r)
    <3>1. /\ profile'.failed = profile.failed /\ spent' = spent
          /\ profile'.version = profile.version /\ promoted' = promoted
      BY <2>9, DisabledOutcome
    <3> HIDE DEF n, m, R, f, v
    <3>2. spent + m <= (f + 1) * R
      BY <1>1, <2>2, <2>3, <2>4
    <3>3. v < profile.version => promoted + m <= profile.version * R
      BY <1>1, <2>2, <2>7
    <3>4. QED
      BY <1>2, <1>3, <2>2, <3>1, <3>2, <3>3
  <2>10. CASE AttemptPromotes(r)
    <3>1. /\ spent' = 0 /\ promoted' = Count(promoted)
          /\ profile'.failed \in {0, profile.failed}
          /\ \/ profile'.version = v + 1
             \/ profile'.version = MaxVersion /\ v = MaxVersion
      BY <2>10, PromoteOutcome, NewVersion
    <3>2. /\ promoted' \in Nat /\ promoted' <= promoted + 1
          /\ promoted' <= MaxVersion
      BY <3>1, Counting, HealingAssumption DEF TypeOK
    <3> HIDE DEF n, m, R, f, v
    <3>3. spent' <= profile'.failed * R
      <4>1. 0 * R = 0
        BY <1>1
      <4>2. QED
        BY <1>1, <3>1, <4>1
    <3>4. spent' + m <= (f + 1) * R
      BY <1>1, <2>4, <3>1
    <3>5. CASE profile'.version = v + 1
      <4>1. promoted' + m <= (v + 1) * R /\ promoted' <= (v + 1) * R
        <5>1. /\ promoted \in Nat /\ n \in Nat /\ m \in Nat /\ m = n - 1
              /\ (v + 1) * R \in Nat /\ promoted + n <= (v + 1) * R
              /\ promoted' \in Nat /\ promoted' <= promoted + 1
          BY <1>1, <2>2, <2>3, <2>4, <3>2
        <5>2. QED
          BY <5>1, Moves
      <4>2. QED
        BY <1>2, <2>2, <3>1, <3>3, <3>4, <3>5, <4>1
    <3>6. CASE profile'.version = MaxVersion /\ v = MaxVersion
      <4>1. R \in Nat \ {0}
        BY <1>1, <2>2
      <4>2. v <= v * R /\ v * R \in Nat
        BY <2>3, <4>1, AtLeast
      <4>3. promoted' <= v * R
        BY <2>3, <3>2, <3>6, <4>2
      <4>4. QED
        BY <1>2, <2>2, <2>3, <3>1, <3>3, <3>4, <3>6, <4>3
    <3>7. QED
      BY <3>1, <3>5, <3>6
  <2>11. QED
    BY <1>11, <2>8, <2>9, <2>10
<1>12. CASE CooldownElapses
  <2>1. /\ Attempters' = {} /\ spent' = spent /\ promoted' = promoted
        /\ profile'.failed = profile.failed
        /\ profile'.version = profile.version
    BY <1>12, ElapsedOutcome, AttemptersAfter
  <2> HIDE DEF n, m, R
  <2>2. QED
    BY <1>2, <1>3, <2>1
<1>13. QED
  BY <1>6, <1>7, <1>8, <1>9, <1>11, <1>12, Classified
-----------------------------------------------------------------------------
(* What is exact while no two attempts overlap.                            *)

LEMMA ExactStep ==
  ASSUME TypeOK, Rows, Numbered, Agreed, Exact, [Next]_vars
  PROVE  Exact'
<1>1. /\ profile.version \in Nat /\ profile.failed \in Nat
      /\ spent \in Nat /\ promoted \in Nat /\ overlapped \in BOOLEAN
      /\ MaxAttempts \in Nat \ {0}
  BY NumberTypes, HealingAssumption
<1>2. ASSUME profile'.version = profile.version, promoted' = promoted,
             profile'.failed = profile.failed, spent' = spent,
             profile'.status = "failed" => profile.status = "failed",
             ~overlapped' => ~overlapped,
             \A y \in Sessions : Reading(y)' =>
               Reading(y) /\ RowOf(y)' = RowOf(y)
      PROVE  Exact'
  BY <1>2 DEF Exact
<1>3. CASE Passive
  BY <1>2, <1>3, AfterPassive DEF Passive
<1>4. ASSUME NEW x \in Sessions, Opens(x) PROVE Exact'
  <2>1. /\ profile' = profile /\ spent' = spent /\ promoted' = promoted
        /\ ~overlapped' => ~overlapped
    BY <1>1, <1>4 DEF Opens
  <2>2. /\ \A y \in Sessions \ {x} : /\ Reading(y)' <=> Reading(y)
                                     /\ RowOf(y)' = RowOf(y)
        /\ RowOf(x)' = profile \/ (RowOf(x)' = Placeholder /\ profile = NoProfile)
        /\ RowOf(x)'.failed = profile.failed
    BY <1>4, AfterOpen
  <2>3. RowOf(x)'.status = "failed" => profile.status = "failed"
    BY <2>2, NewRows
  <2>4. QED
    BY <2>1, <2>2, <2>3 DEF Exact
<1>5. ASSUME NEW x \in Sessions, Commit(x) PROVE Exact'
  <2> DEFINE row == RowOf(x)
             revives == x \in Reporters /\ row.status = "failed"
  <2>1. /\ profile'.version = profile.version /\ promoted' = promoted
        /\ profile'.failed = IF revives /\ row.failed # 0
                               THEN 0 ELSE profile.failed
        /\ profile'.status = IF revives \/ row.status = "active"
                                  \/ x \in inserting
                               THEN "stale" ELSE profile.status
        /\ spent' = IF revives THEN 0 ELSE spent
        /\ overlapped' = overlapped
    BY <1>5, CommitOutcome
  <2>2. ~overlapped /\ revives => row.failed # 0
    BY <1>1, <1>5 DEF Exact, Commit, Reading
  <2>3. \A y \in Sessions : Reading(y)' => Reading(y) /\ RowOf(y)' = RowOf(y)
    BY <1>5, Closes, AfterEnd
  <2> HIDE DEF row, revives
  <2>4. CASE revives
    BY <2>1, <2>2, <2>3, <2>4 DEF Exact
  <2>5. CASE ~revives
    BY <1>2, <2>1, <2>3, <2>5
  <2>6. QED
    BY <2>4, <2>5
<1>6. ASSUME NEW r \in Regens, Fetches(r) PROVE Exact'
  BY <1>2, <1>6, AfterFetch DEF Fetches
<1>7. ASSUME NEW r \in Regens,
             AttemptFails(r) \/ GenerationDisabled(r) \/ AttemptPromotes(r)
      PROVE  Exact'
  <2> DEFINE row == RowOf(r)
  <2>1. /\ r \in Attempters /\ overlapped' = overlapped
        /\ \A y \in Sessions : Reading(y)' =>
             Reading(y) /\ RowOf(y)' = RowOf(y)
    BY <1>7, Closes, AfterEnd, FailOutcome, DisabledOutcome, PromoteOutcome
  <2>2. ~overlapped => /\ profile.version = row.version
                       /\ profile.failed = row.failed
                       /\ profile.status # "failed"
    BY <2>1 DEF Agreed
  <2>3. /\ row \in Row /\ RegenerationAllowed(row)
    BY <2>1, AttemptersAre, AttemptRow
  <2>4. row.failed \in Nat /\ row.failed < MaxAttempts
    BY <2>3, RowFields DEF RegenerationAllowed
  <2>5. CASE AttemptFails(r)
    <3>1. /\ profile'.version = profile.version /\ promoted' = promoted
          /\ profile'.failed = row.failed + 1 /\ spent' = spent + 1
          /\ profile'.status = IF row.failed + 1 >= MaxAttempts THEN "failed"
                               ELSE IF r \in inserting THEN "stale"
                               ELSE profile.status
      BY <2>5, FailOutcome
    <3> HIDE DEF row
    <3>2. ~overlapped => /\ profile'.failed = spent'
                         /\ profile'.version = promoted'
                         /\ profile'.status = "failed" =>
                              profile'.failed = MaxAttempts
      BY <1>1, <2>2, <2>4, <3>1 DEF Exact
    <3>3. QED
      BY <2>1, <3>2 DEF Exact
  <2>6. CASE GenerationDisabled(r)
    <3>1. /\ profile'.version = profile.version /\ promoted' = promoted
          /\ profile'.failed = profile.failed /\ spent' = spent
          /\ profile'.status = IF r \in inserting THEN "stale"
                                                  ELSE profile.status
      BY <2>6, DisabledOutcome
    <3>2. QED
      BY <1>2, <2>1, <3>1
  <2>7. CASE AttemptPromotes(r)
    <3>1. /\ profile'.version = Count(row.version)
          /\ promoted' = Count(promoted)
          /\ profile'.failed = IF row.failed # 0 THEN 0 ELSE profile.failed
          /\ profile'.status = IF r \in inserting \/ row.status # "active"
                                 THEN "active" ELSE profile.status
          /\ spent' = 0
      BY <2>7, PromoteOutcome, NewVersion
    <3> HIDE DEF row
    <3>2. ~overlapped => /\ profile'.failed = spent'
                         /\ profile'.version = promoted'
                         /\ profile'.status # "failed"
      BY <1>1, <2>2, <3>1 DEF Exact
    <3>3. QED
      BY <2>1, <3>2 DEF Exact
  <2>8. QED
    BY <1>7, <2>5, <2>6, <2>7
<1>8. CASE CooldownElapses
  BY <1>2, <1>8, ElapsedOutcome
<1>9. QED
  BY <1>3, <1>4, <1>5, <1>6, <1>7, <1>8, Classified
-----------------------------------------------------------------------------
(* The theorems.                                                           *)

Inv == TypeOK /\ Rows /\ Numbered /\ Agreed /\ Counted /\ Exact

LEMMA Initially == Init => Inv
<1> SUFFICES ASSUME Init PROVE Inv
  OBVIOUS
<1>1. /\ NoProfile \in Row /\ NoProfile.status = "absent"
      /\ NoProfile.selector = 0 /\ NoProfile.version = 0
      /\ NoProfile.failed = 0 /\ NoProfile.cooling = FALSE
  BY NewRows
<1>2. 0 \in 0..MaxDrifts + 1 /\ 1 \in 1..MaxDrifts + 1 /\ 0 \in 0..MaxVersion
      /\ 0 \in 0..MaxQueue /\ 0 \in 0..MaxReports /\ 0 \in 0..MaxFaults
  BY HealingAssumption
<1>3. Idle \in Session /\ Idle.pc = "idle"
  BY <1>1, <1>2 DEF Idle, Session
<1>4. TypeOK
  <2>1. session \in [Sessions -> Session]
    BY <1>3 DEF Init
  <2>2. Cardinality(inserting) <= 1 /\ inserting \subseteq Sessions
    BY FS_EmptySet DEF Init
  <2>3. QED
    BY <1>1, <1>2, <2>1, <2>2 DEF Init, TypeOK
<1>5. \A x \in Sessions : ~Reading(x) /\ ~Attempting(x)
  BY <1>3 DEF Init, Reading, Attempting
<1>6. Attempters = {}
  BY <1>5, Slots DEF Attempters
<1>7. Rows
  <2>1. \A x \in Sessions : session[x].pc # "commit"
    BY <1>5 DEF Reading
  <2>2. QED
    BY <1>5, <2>1 DEF Init, Rows
<1>8. Numbered
  BY <1>1, <1>6 DEF Init, Numbered
<1>9. Agreed /\ Exact
  BY <1>1, <1>5, <1>6 DEF Init, Agreed, Exact
<1>10. Counted
  <2>1. Cardinality(Regens) \in Nat
    BY SlotCount
  <2>2. 0 <= 0 * Cardinality(Regens)
    BY <2>1
  <2>3. QED
    BY <1>1, <1>6, <2>2 DEF Init, Counted
<1>11. QED
  BY <1>4, <1>7, <1>8, <1>9, <1>10 DEF Inv

LEMMA Stepwise == Inv /\ [Next]_vars => Inv'
<1> SUFFICES ASSUME Inv, [Next]_vars PROVE Inv'
  OBVIOUS
<1>1. TypeOK /\ Rows /\ Numbered /\ Agreed /\ Counted /\ Exact
  BY DEF Inv
<1>2. QED
  BY <1>1, TypeStep, RowsStep, NumberedStep, AgreedStep, CountedStep,
     ExactStep DEF Inv

LEMMA Invariant == Spec => []Inv
BY Initially, Stepwise, PTL DEF Spec

(* The row, the sessions that work on it and the counters keep their       *)
(* types: in particular the attempt counter never exceeds the budget, and  *)
(* the unique index admits one uncommitted INSERT.                         *)
THEOREM TypeCorrect == Spec => []TypeOK
<1>1. Inv => TypeOK
  BY DEF Inv
<1>2. QED
  BY <1>1, Invariant, PTL

(* However many scrapes, reports and regenerations write the row at one    *)
(* time, a version number is never taken back, a validated selector never  *)
(* withdrawn, and none is there that no promotion numbered.                *)
THEOREM SelectorIsKept == Spec => NeverWithdrawn
<1> DEFINE Kept == /\ profile.selector # 0 => profile'.selector # 0
                   /\ profile'.version >= profile.version
                   /\ (profile'.version > 0) <=> (profile'.selector # 0)
<1>1. Inv /\ [Next]_vars => Kept
  <2> SUFFICES ASSUME Inv, [Next]_vars PROVE Kept
    OBVIOUS
  <2>1. TypeOK /\ Rows /\ Numbered /\ Agreed
    BY DEF Inv
  <2>2. TypeOK' /\ Numbered'
    BY Stepwise DEF Inv
  <2>3. profile.version \in Nat /\ profile'.version \in Nat
    BY <2>1, <2>2, NumberTypes, RowFields DEF TypeOK
  <2>4. profile'.version >= profile.version
    <3>1. ASSUME NEW r \in Regens, AttemptPromotes(r)
          PROVE  profile'.version >= profile.version
      <4>1. profile.version <= profile'.version
        BY <2>1, <3>1, NewVersion
      <4>2. QED
        BY <2>3, <4>1
    <3>2. ASSUME profile'.version = profile.version
          PROVE  profile'.version >= profile.version
      BY <2>3, <3>2
    <3>3. QED
      BY <2>1, <3>1, <3>2, Classified, CommitOutcome, FailOutcome,
         DisabledOutcome, ElapsedOutcome DEF Passive, Opens, Fetches
  <2>5. /\ (profile.version > 0) <=> (profile.selector # 0)
        /\ (profile'.version > 0) <=> (profile'.selector # 0)
    BY <2>1, <2>2 DEF Numbered
  <2>6. QED
    BY <2>3, <2>4, <2>5
<1>2. QED
  BY <1>1, Invariant, PTL DEF Spec, NeverWithdrawn

(* Overlapping regenerations lose no more than one update for each slot,   *)
(* and without overlap the version counts the promotions, the attempt      *)
(* counter the failures, and only a spent budget parks the host.           *)
THEOREM CountersAreExact == Spec => []CountersExact
<1>1. Inv => CountersExact
  <2> SUFFICES ASSUME Inv PROVE CountersExact
    OBVIOUS
  <2> DEFINE R == Cardinality(Regens)
             f == profile.failed
  <2>1. TypeOK /\ Counted /\ Exact
    BY DEF Inv
  <2>2. /\ R \in Nat /\ f \in 0..MaxAttempts /\ MaxAttempts \in Nat
        /\ spent \in Nat
    BY <2>1, SlotCount, RowFields, NumberTypes, HealingAssumption DEF TypeOK
  <2>3. spent <= f * R /\ promoted <= profile.version * R
    BY <2>1 DEF Counted
  <2>4. f * R <= MaxAttempts * R
    <3> HIDE DEF f, R
    <3>1. \A a, b, c \in Nat : a <= b => a * c <= b * c
      OBVIOUS
    <3>2. QED
      BY <2>2, <3>1
  <2>5. f * R \in Nat /\ MaxAttempts * R \in Nat
    <3> HIDE DEF f, R
    <3>1. QED
      BY <2>2
  <2>6. spent <= MaxAttempts * R
    <3> HIDE DEF f, R
    <3>1. QED
      BY <2>2, <2>3, <2>4, <2>5
  <2>7. ~overlapped => /\ profile.version = promoted /\ f = spent
                       /\ profile.status = "failed" => spent = MaxAttempts
    BY <2>1 DEF Exact
  <2>8. QED
    BY <2>3, <2>6, <2>7 DEF CountersExact
<1>2. QED
  BY <1>1, Invariant, PTL

(* While no two regenerations overlap, no commit of a scrape, a report or  *)
(* an attempt takes a selector validated on the markup the site serves     *)
(* away before the markup drifts.                                          *)
THEOREM ValidatedStaysValidated == Spec => ValidatedUntilDrift
<1> DEFINE Stays == profile.selector = page /\ page' = page /\ ~overlapped =>
                      profile'.selector = page
<1>1. Inv /\ [Next]_vars => Stays
  <2> SUFFICES ASSUME Inv, [Next]_vars, profile.selector = page, ~overlapped
               PROVE  profile'.selector = page
    OBVIOUS
  <2>1. TypeOK /\ Rows /\ Numbered /\ Agreed
    BY DEF Inv
  <2>2. ASSUME NEW r \in Regens, AttemptPromotes(r)
        PROVE  profile'.selector = page
    <3> DEFINE row == RowOf(r)
               found == session[r].page
    <3>1. /\ r \in Attempters /\ r \in Sessions
          /\ session[r].pc = "generate"
          /\ profile'.selector = IF found # row.selector
                                   THEN found ELSE profile.selector
      BY <2>1, <2>2, PromoteOutcome, AttemptersAre DEF AttemptPromotes
    <3>2. row.selector = profile.selector
      BY <2>1, <3>1 DEF Agreed
    <3>3. row.selector <= found /\ found <= page
      BY <2>1, <3>1 DEF Numbered
    <3>4. page \in Nat /\ found \in Nat
      BY <2>1, <3>1, NumberTypes
    <3> HIDE DEF row, found
    <3>5. QED
      BY <3>1, <3>2, <3>3, <3>4
  <2>3. QED
    BY <2>1, <2>2, Classified, CommitOutcome, FailOutcome, DisabledOutcome,
       ElapsedOutcome DEF Passive, Opens, Fetches
<1>2. QED
  BY <1>1, Invariant, PTL DEF Spec, ValidatedUntilDrift
=============================================================================
