--------------------------- MODULE SchedulesProofs ---------------------------
(***************************************************************************)
(* The schedule follows the product table, for every number of products,   *)
(* requests, presets, worker starts and faults.                            *)
(***************************************************************************)
EXTENDS Schedules, TLAPS

-----------------------------------------------------------------------------
(* Where in its handler a request can be, with what it was asked for: the  *)
(* lock comes with the write, only what names is_active or source_type is  *)
(* scheduled, and any other PATCH leaves both as it read them.             *)
InOrder ==
  \A r \in Requests :
    /\ request[r].pc \in {"write", "delete"} => ~request[r].locked
    /\ request[r].pc \in {"delete", "schedule"} => request[r].patch.routes
    /\ request[r].pc = "write" /\ ~request[r].patch.routes =>
         /\ request[r].patch.active = request[r].row.active
         /\ request[r].patch.source = request[r].row.source

(* The row lock orders the requests that write a product ...              *)
OneWriter(p) ==
  \A r, s \in Requests : Locks(r, p) /\ Locks(s, p) => r = s

(* ... and whoever holds it knows what the entry says: before its Redis    *)
(* step what the row was, after it what the row will be.  A holder without *)
(* a Redis step changes nothing the entry depends on.                      *)
HolderKnows(p) ==
  \A r \in Requests : Locks(r, p) =>
    /\ request[r].pc = "commit" /\ ~request[r].patch.routes =>
         Wanted(request[r].row) = Wanted(product[p])
    /\ p \notin astray /\ request[r].pc = "schedule" =>
         entry[p] = Wanted(product[p])
    /\ p \notin astray /\ request[r].pc = "commit" =>
         entry[p] = Wanted(request[r].row)

EntryFollows(p) ==
  p \notin astray /\ ~Locked(p) => entry[p] = Wanted(product[p])

Orderly(p) == OneWriter(p) /\ HolderKnows(p) /\ EntryFollows(p)

Inv == TypeOK /\ InOrder /\ \A p \in Products : Orderly(p)
-----------------------------------------------------------------------------
(* Type correctness.                                                       *)

(* A row that exists is a row of the table, with a source that has a queue.*)
LEMMA ExistingRow ==
  ASSUME TypeOK, NEW p \in Products, product[p].exists
  PROVE  product[p] \in Row /\ product[p].source \in Sources
BY DEF TypeOK, NoRow, Row

LEMMA BusyTyped ==
  ASSUME TypeOK, NEW r \in Requests, request[r].pc # "idle"
  PROVE  /\ request[r] \in Request /\ request[r].product \in Products
         /\ request[r].row \in Row
         /\ request[r].patch \in
              [routes: BOOLEAN, active: BOOLEAN, source: Sources]
BY DEF TypeOK, Idle, Request

LEMMA WantedTyped ==
  ASSUME NEW row \in Row PROVE Wanted(row) \in Queues \cup {NoEntry}
BY DEF Wanted, Row, Queues

LEMMA FaultTyped == ASSUME TypeOK, Fault PROVE faults' \in 0..MaxFaults
BY SchedulesAssumption DEF TypeOK, Fault

LEMMA InitTyped == Init => TypeOK
<1> SUFFICES ASSUME Init PROVE TypeOK
  OBVIOUS
<1>1. 0 \in 0..MaxPatches /\ 0 \in 0..MaxSyncs /\ 0 \in 0..MaxFaults
  BY SchedulesAssumption
<1>2. product \in [Products -> Row \cup {NoRow}]
  BY DEF Init
<1>3. entry \in [Products -> Queues \cup {NoEntry}]
  BY DEF Init
<1>4. request \in [Requests -> {Idle} \cup Request]
  BY DEF Init
<1>5. QED
  BY <1>1, <1>2, <1>3, <1>4 DEF Init, TypeOK

(* The handlers that take up a request.                                    *)
LEMMA OpeningTyped ==
  ASSUME TypeOK, NEW r \in Requests, NEW p \in Products,
         CreateProduct(r, p) \/ UpdateProduct(r, p) \/ DeleteProduct(r, p)
  PROVE  TypeOK'
<1>1. CASE CreateProduct(r, p)
  <2>1. PICK s \in Sources, a \in CreatedAs :
          request' = [request EXCEPT ![r] =
            [pc |-> "schedule", product |-> p, locked |-> TRUE,
             row |-> [exists |-> TRUE, active |-> a, source |-> s],
             patch |-> [routes |-> TRUE, active |-> TRUE, source |-> s]]]
    BY <1>1 DEF CreateProduct
  <2>2. [pc |-> "schedule", product |-> p, locked |-> TRUE,
         row |-> [exists |-> TRUE, active |-> a, source |-> s],
         patch |-> [routes |-> TRUE, active |-> TRUE, source |-> s]] \in Request
    BY SchedulesAssumption DEF Request, Row
  <2>3. request' \in [Requests -> {Idle} \cup Request]
    BY <2>1, <2>2 DEF TypeOK
  <2>4. QED
    BY <1>1, <2>3 DEF CreateProduct, TypeOK
<1>2. CASE UpdateProduct(r, p)
  <2>1. PICK routes, a \in BOOLEAN, s \in Sources :
          request' = [request EXCEPT ![r] =
            [pc |-> "write", product |-> p, locked |-> FALSE,
             row |-> product[p],
             patch |-> [routes |-> routes, active |-> a, source |-> s]]]
    BY <1>2 DEF UpdateProduct
  <2>2. product[p] \in Row
    BY <1>2, ExistingRow DEF UpdateProduct
  <2>3. [pc |-> "write", product |-> p, locked |-> FALSE, row |-> product[p],
         patch |-> [routes |-> routes, active |-> a, source |-> s]] \in Request
    BY <2>2 DEF Request
  <2>4. request' \in [Requests -> {Idle} \cup Request]
    BY <2>1, <2>3 DEF TypeOK
  <2>5. patches' \in 0..MaxPatches
    BY <1>2, SchedulesAssumption DEF UpdateProduct, TypeOK
  <2>6. QED
    BY <1>2, <2>4, <2>5 DEF UpdateProduct, TypeOK
<1>3. CASE DeleteProduct(r, p)
  <2>1. product[p] \in Row /\ product[p].source \in Sources
    BY <1>3, ExistingRow DEF DeleteProduct
  <2>2. [pc |-> "delete", product |-> p, locked |-> FALSE, row |-> product[p],
         patch |-> [routes |-> TRUE, active |-> FALSE,
                    source |-> product[p].source]] \in Request
    BY <2>1 DEF Request
  <2>3. request' \in [Requests -> {Idle} \cup Request]
    BY <1>3, <2>2 DEF DeleteProduct, TypeOK
  <2>4. QED
    BY <1>3, <2>3 DEF DeleteProduct, TypeOK
<1>4. QED
  BY <1>1, <1>2, <1>3

(* Whether a write takes the row lock.                                     *)
Changes(r, other) ==
  \/ other
  \/ request[r].patch.active # request[r].row.active
  \/ request[r].patch.source # request[r].row.source

LEMMA Written ==
  ASSUME TypeOK, NEW r \in Requests, WriteProduct(r),
         product[request[r].product].exists
  PROVE  LET q == request[r]
             t == request'[r]
         IN  /\ t \in Request
             /\ t.pc = IF q.patch.routes THEN "schedule" ELSE "commit"
             /\ t.product = q.product /\ t.patch = q.patch
             /\ t.locked => ~Locked(q.product)
             /\ t.row.exists
             /\ t.row.active = IF q.patch.active # q.row.active
                                 THEN q.patch.active
                                 ELSE product[q.product].active
             /\ t.row.source = IF q.patch.source # q.row.source
                                 THEN q.patch.source
                                 ELSE product[q.product].source
<1>0. PICK other \in BOOLEAN :
        /\ Changes(r, other) => ~Locked(request[r].product)
        /\ request' = [request EXCEPT ![r] =
             [@ EXCEPT
                !.pc = IF request[r].patch.routes THEN "schedule" ELSE "commit",
                !.locked = Changes(r, other),
                !.row = [product[request[r].product] EXCEPT
                  !.active = IF request[r].patch.active # request[r].row.active
                               THEN request[r].patch.active ELSE @,
                  !.source = IF request[r].patch.source # request[r].row.source
                               THEN request[r].patch.source ELSE @]]]
  BY DEF WriteProduct, Changes
<1> DEFINE changes == Changes(r, other)
           q == request[r]
           p == q.product
           row == [product[p] EXCEPT
                 !.active = IF q.patch.active # q.row.active
                              THEN q.patch.active ELSE @,
                 !.source = IF q.patch.source # q.row.source
                              THEN q.patch.source ELSE @]
           t == [q EXCEPT
                 !.pc = IF q.patch.routes THEN "schedule" ELSE "commit",
                 !.locked = changes,
                 !.row = row]
<1>1. q \in Request /\ p \in Products /\ q.row \in Row
      /\ q.patch \in [routes: BOOLEAN, active: BOOLEAN, source: Sources]
  BY BusyTyped DEF WriteProduct
<1>2. product[p] \in Row /\ product[p].exists
  BY <1>1, ExistingRow
<1>3. /\ row \in Row /\ row.exists
      /\ row.active = IF q.patch.active # q.row.active
                        THEN q.patch.active ELSE product[p].active
      /\ row.source = IF q.patch.source # q.row.source
                        THEN q.patch.source ELSE product[p].source
  BY <1>1, <1>2 DEF Row
<1> HIDE DEF row
<1>4. changes \in BOOLEAN
  BY DEF Changes
<1> HIDE DEF changes
<1>5. /\ t \in Request
      /\ t.pc = IF q.patch.routes THEN "schedule" ELSE "commit"
      /\ t.product = p /\ t.patch = q.patch /\ t.locked = changes
      /\ t.row = row
  BY <1>1, <1>3, <1>4 DEF Request
<1>6. request'[r] = t
  BY <1>0 DEF TypeOK, row, changes
<1> HIDE DEF t
<1>7. changes => ~Locked(p)
  BY <1>0 DEF changes
<1>8. QED
  BY <1>3, <1>5, <1>6, <1>7

(* The statement that deletes: the row it leaves, locked if there was one. *)
LEMMA Deleted ==
  ASSUME TypeOK, NEW r \in Requests, ExecuteDelete(r)
  PROVE  LET q == request[r]
             t == request'[r]
         IN  /\ t \in Request /\ t.pc = "schedule"
             /\ t.product = q.product /\ t.patch = q.patch
             /\ t.locked = product[q.product].exists
             /\ t.row = [q.row EXCEPT !.exists = FALSE]
<1> DEFINE q == request[r]
           row == [q.row EXCEPT !.exists = FALSE]
           t == [q EXCEPT !.pc = "schedule",
                          !.locked = product[q.product].exists,
                          !.row = row]
<1>1. q \in Request /\ q.product \in Products /\ q.row \in Row
  BY BusyTyped DEF ExecuteDelete
<1>2. row \in Row
  BY <1>1 DEF Row
<1>3. product[q.product].exists \in BOOLEAN
  <2>1. product[q.product] \in Row \/ product[q.product] = NoRow
    BY <1>1 DEF TypeOK
  <2>2. NoRow.exists = FALSE
    BY DEF NoRow
  <2>3. QED
    BY <2>1, <2>2 DEF Row
<1>4. request'[r] = t
  BY <1>1 DEF ExecuteDelete, TypeOK, Request
<1> HIDE DEF row
<1>5. /\ t \in Request /\ t.pc = "schedule" /\ t.product = q.product
      /\ t.patch = q.patch /\ t.locked = product[q.product].exists
      /\ t.row = row
  BY <1>1, <1>2, <1>3 DEF Request
<1> HIDE DEF t
<1>6. QED
  BY <1>4, <1>5 DEF row

(* A handler's step changes its own request only.                          *)
LEMMA OthersWait ==
  ASSUME TypeOK, NEW r \in Requests,
         \/ RequestStep(r) \/ RollBack(r)
         \/ \E p \in Products : CreateProduct(r, p) \/ UpdateProduct(r, p)
                                 \/ DeleteProduct(r, p)
  PROVE  \A s \in Requests : s # r => request'[s] = request[s]
BY DEF TypeOK, RequestStep, WriteProduct, ExecuteDelete, SyncSchedule, Commit,
       RollBack, CreateProduct, UpdateProduct, DeleteProduct

LEMMA HandlerTyped ==
  ASSUME TypeOK, NEW r \in Requests, RequestStep(r) \/ RollBack(r)
  PROVE  TypeOK'
<1>1. CASE WriteProduct(r)
  <2>1. request' \in [Requests -> {Idle} \cup Request]
    <3>1. CASE product[request[r].product].exists
      <4>1. request'[r] \in Request
        BY <1>1, <3>1, Written
      <4>2. request' = [request EXCEPT ![r] = request'[r]]
        BY <1>1 DEF WriteProduct, TypeOK
      <4>3. QED
        BY <4>1, <4>2 DEF TypeOK
    <3>2. CASE ~product[request[r].product].exists
      BY <1>1, <3>2 DEF WriteProduct, TypeOK
    <3>3. QED
      BY <3>1, <3>2
  <2>2. QED
    BY <1>1, <2>1 DEF WriteProduct, TypeOK
<1>2. CASE ExecuteDelete(r)
  <2>1. request'[r] \in Request
    BY <1>2, Deleted
  <2>2. request' = [request EXCEPT ![r] = request'[r]]
    BY <1>2 DEF ExecuteDelete, TypeOK
  <2>3. request' \in [Requests -> {Idle} \cup Request]
    BY <2>1, <2>2 DEF TypeOK
  <2>4. QED
    BY <1>2, <2>3 DEF ExecuteDelete, TypeOK
<1>3. CASE SyncSchedule(r)
  <2>1. request[r] \in Request /\ request[r].product \in Products
        /\ request[r].row \in Row
    BY <1>3, BusyTyped DEF SyncSchedule
  <2>2. [request[r] EXCEPT !.pc = "commit"] \in Request
    BY <2>1 DEF Request
  <2>3. request' \in [Requests -> {Idle} \cup Request]
    BY <1>3, <2>2 DEF SyncSchedule, TypeOK
  <2>4. EntryFor(request[r]) \in Queues \cup {NoEntry}
    BY <2>1, WantedTyped DEF EntryFor, Queues, Row
  <2>5. entry' \in [Products -> Queues \cup {NoEntry}]
    BY <1>3, <2>1, <2>4 DEF SyncSchedule, TypeOK
  <2>6. faults' \in 0..MaxFaults /\ astray' \subseteq Products
    BY <1>3, <2>1, FaultTyped DEF SyncSchedule, TypeOK
  <2>7. QED
    BY <1>3, <2>3, <2>5, <2>6 DEF SyncSchedule, TypeOK
<1>4. CASE Commit(r)
  <2>1. request[r].product \in Products /\ request[r].row \in Row
    BY <1>4, BusyTyped DEF Commit
  <2>2. product' \in [Products -> Row \cup {NoRow}]
    BY <1>4, <2>1 DEF Commit, TypeOK
  <2>3. request' \in [Requests -> {Idle} \cup Request]
    BY <1>4 DEF Commit, TypeOK
  <2>4. QED
    BY <1>4, <2>2, <2>3 DEF Commit, TypeOK
<1>5. CASE RollBack(r)
  <2>1. request[r].product \in Products
    BY <1>5, BusyTyped DEF RollBack
  <2>2. request' \in [Requests -> {Idle} \cup Request]
    BY <1>5 DEF RollBack, TypeOK
  <2>3. faults' \in 0..MaxFaults
    BY <1>5, FaultTyped DEF RollBack
  <2>4. astray' \subseteq Products
    BY <1>5, <2>1 DEF RollBack, TypeOK
  <2>5. QED
    BY <1>5, <2>2, <2>3, <2>4 DEF RollBack, TypeOK
<1>6. QED
  BY <1>1, <1>2, <1>3, <1>4, <1>5 DEF RequestStep

LEMMA StartTyped ==
  ASSUME TypeOK, ReadActive \/ RegisterNext \/ SyncFails PROVE TypeOK'
<1>1. CASE ReadActive
  <2>1. \A p \in Products : product[p].exists => product[p].source \in Sources
    BY ExistingRow
  <2>2. sync' \subseteq Products \X Queues
    BY <1>1, <2>1 DEF ReadActive, Queues
  <2>3. syncs' \in 0..MaxSyncs
    BY <1>1, SchedulesAssumption DEF ReadActive, TypeOK
  <2>4. QED
    BY <1>1, <2>2, <2>3 DEF ReadActive, TypeOK
<1>2. CASE RegisterNext
  <2>1. PICK spec \in sync :
          /\ entry' = [entry EXCEPT ![spec[1]] = spec[2]]
          /\ sync' = sync \ {spec}
          /\ astray' = IF Wanted(product[spec[1]]) = spec[2] /\ ~Locked(spec[1])
                         THEN astray \ {spec[1]} ELSE astray \cup {spec[1]}
          /\ UNCHANGED <<product, request, patches, syncs, faults>>
    BY <1>2 DEF RegisterNext
  <2>2. spec[1] \in Products /\ spec[2] \in Queues
    BY DEF TypeOK
  <2>3. QED
    BY <2>1, <2>2 DEF TypeOK
<1>3. CASE SyncFails
  BY <1>3, FaultTyped DEF SyncFails, TypeOK
<1>4. QED
  BY <1>1, <1>2, <1>3

LEMMA TypeStep == TypeOK /\ [Next]_vars => TypeOK'
<1> SUFFICES ASSUME TypeOK, [Next]_vars PROVE TypeOK'
  OBVIOUS
<1>1. CASE UNCHANGED vars
  BY <1>1 DEF vars, TypeOK
<1>2. QED
  BY <1>1, OpeningTyped, HandlerTyped, StartTyped DEF Next
-----------------------------------------------------------------------------
(* The inductive step.                                                     *)

(* Nothing happens to a product whose row, entry and holder stay.          *)
LEMMA Elsewhere ==
  ASSUME NEW p \in Products, Orderly(p),
         product'[p] = product[p], entry'[p] = entry[p],
         p \in astray' <=> p \in astray,
         \A s \in Requests : Locks(s, p)' <=> Locks(s, p),
         \A s \in Requests : Locks(s, p) => request'[s] = request[s]
  PROVE  Orderly(p)'
<1>1. OneWriter(p)'
  BY DEF Orderly, OneWriter
<1>2. HolderKnows(p)'
  BY DEF Orderly, HolderKnows, Wanted
<1>3. EntryFollows(p)'
  BY DEF Orderly, EntryFollows, Locked, Wanted
<1>4. QED
  BY <1>1, <1>2, <1>3 DEF Orderly

(* Nor to a product that the request r neither held nor holds now.         *)
LEMMA Unheld ==
  ASSUME NEW r \in Requests, NEW p \in Products, Orderly(p),
         \A s \in Requests : s # r => request'[s] = request[s],
         ~Locks(r, p), ~Locks(r, p)',
         product'[p] = product[p], entry'[p] = entry[p],
         p \in astray' <=> p \in astray
  PROVE  Orderly(p)'
<1>1. \A s \in Requests : s # r => (Locks(s, p)' <=> Locks(s, p))
  BY DEF Locks, Busy
<1>2. QED
  BY <1>1, Elsewhere

(* When the lock is taken and the row and entry are left, the entry says   *)
(* what the row says.                                                      *)
LEMMA LockTaken ==
  ASSUME NEW r \in Requests, NEW p \in Products, Orderly(p),
         \A s \in Requests : s # r => request'[s] = request[s],
         ~Locked(p), Locks(r, p)',
         product'[p] = product[p], entry'[p] = entry[p],
         p \in astray' <=> p \in astray,
         \/ request'[r].pc = "schedule"
         \/ /\ request'[r].pc = "commit"
            /\ Wanted(request'[r].row) = Wanted(product[p])
  PROVE  Orderly(p)'
<1>1. \A s \in Requests : Locks(s, p)' <=> s = r
  BY DEF Locks, Busy, Locked
<1>2. OneWriter(p)'
  BY <1>1 DEF OneWriter
<1>3. p \notin astray => entry[p] = Wanted(product[p])
  BY DEF Orderly, EntryFollows
<1>4. HolderKnows(p)'
  BY <1>1, <1>3 DEF HolderKnows, Wanted
<1>5. EntryFollows(p)'
  BY <1>1 DEF EntryFollows, Locked
<1>6. QED
  BY <1>2, <1>4, <1>5 DEF Orderly

(* When the holder lets the row go, nobody holds it, and the entry must    *)
(* say what the row says.                                                  *)
LEMMA LockReleased ==
  ASSUME NEW r \in Requests, NEW p \in Products, Orderly(p),
         \A s \in Requests : s # r => request'[s] = request[s],
         Locks(r, p), ~Locks(r, p)',
         p \notin astray' => entry'[p] = Wanted(product'[p])
  PROVE  Orderly(p)'
<1>1. \A s \in Requests : ~Locks(s, p)'
  BY DEF Orderly, OneWriter, Locks, Busy
<1>2. QED
  BY <1>1 DEF Orderly, OneWriter, HolderKnows, EntryFollows, Locked, Wanted

LEMMA OpeningOrderly ==
  ASSUME Inv, NEW r \in Requests, NEW p \in Products,
         CreateProduct(r, p) \/ UpdateProduct(r, p) \/ DeleteProduct(r, p),
         NEW u \in Products
  PROVE  Orderly(u)'
<1>1. TypeOK /\ Orderly(u)
  BY DEF Inv
<1>2. \A s \in Requests : s # r => request'[s] = request[s]
  BY <1>1, OthersWait
<1>3. ~Locks(r, u)
  BY DEF CreateProduct, UpdateProduct, DeleteProduct, Locks, Busy
<1>4. UNCHANGED <<product, entry, astray>>
  BY DEF CreateProduct, UpdateProduct, DeleteProduct
<1>5. CASE ~Locks(r, u)'
  BY <1>1, <1>2, <1>3, <1>4, <1>5, Unheld
<1>6. CASE Locks(r, u)'
  <2>1. CreateProduct(r, p) /\ u = p /\ request'[r].pc = "schedule"
    BY <1>1, <1>6 DEF TypeOK, Locks, Busy, CreateProduct, UpdateProduct,
       DeleteProduct
  <2>2. ~Locked(p)
    BY <2>1 DEF CreateProduct, Fresh, Locked, Locks
  <2>3. QED
    BY <1>1, <1>2, <1>4, <1>6, <2>1, <2>2, LockTaken
<1>7. QED
  BY <1>5, <1>6

LEMMA WriteOrderly ==
  ASSUME Inv, NEW r \in Requests, WriteProduct(r), NEW u \in Products
  PROVE  Orderly(u)'
<1> DEFINE p == request[r].product
<1>1. TypeOK /\ InOrder /\ Orderly(u)
  BY DEF Inv
<1>2. \A s \in Requests : s # r => request'[s] = request[s]
  BY <1>1, OthersWait DEF RequestStep
<1>3. ~Locks(r, u)
  BY <1>1 DEF WriteProduct, InOrder, Locks, Busy
<1>4. UNCHANGED <<product, entry, astray>>
  BY DEF WriteProduct
<1>5. CASE ~Locks(r, u)'
  BY <1>1, <1>2, <1>3, <1>4, <1>5, Unheld
<1>6. CASE Locks(r, u)'
  <2>1. product[p].exists
    BY <1>1, <1>6 DEF TypeOK, WriteProduct, Locks, Busy, Idle
  <2>2. u = p /\ request'[r].locked
    BY <1>1, <1>6, <2>1, Written DEF Locks, Busy
  <2>3. ~Locked(p)
    BY <1>1, <2>1, <2>2, Written
  <2>4. CASE request[r].patch.routes
    <3>1. request'[r].pc = "schedule"
      BY <1>1, <2>1, <2>4, Written
    <3>2. QED
      BY <1>1, <1>2, <1>4, <1>6, <2>2, <2>3, <3>1, LockTaken
  <2>5. CASE ~request[r].patch.routes
    <3>1. /\ request[r].patch.active = request[r].row.active
          /\ request[r].patch.source = request[r].row.source
      BY <1>1, <2>5 DEF InOrder, WriteProduct
    <3>2. /\ request'[r].pc = "commit" /\ request'[r].row.exists
          /\ request'[r].row.active = product[p].active
          /\ request'[r].row.source = product[p].source
      BY <1>1, <2>1, <2>5, <3>1, Written
    <3>3. Wanted(request'[r].row) = Wanted(product[p])
      BY <2>1, <3>2 DEF Wanted
    <3>4. QED
      BY <1>1, <1>2, <1>4, <1>6, <2>2, <2>3, <3>2, <3>3, LockTaken
  <2>6. QED
    BY <2>4, <2>5
<1>7. QED
  BY <1>5, <1>6

LEMMA DeleteOrderly ==
  ASSUME Inv, NEW r \in Requests, ExecuteDelete(r), NEW u \in Products
  PROVE  Orderly(u)'
<1>1. TypeOK /\ InOrder /\ Orderly(u)
  BY DEF Inv
<1>2. \A s \in Requests : s # r => request'[s] = request[s]
  BY <1>1, OthersWait DEF RequestStep
<1>3. ~Locks(r, u)
  BY <1>1 DEF ExecuteDelete, InOrder, Locks, Busy
<1>4. UNCHANGED <<product, entry, astray>>
  BY DEF ExecuteDelete
<1>5. CASE ~Locks(r, u)'
  BY <1>1, <1>2, <1>3, <1>4, <1>5, Unheld
<1>6. CASE Locks(r, u)'
  <2>1. u = request[r].product /\ request'[r].pc = "schedule"
    BY <1>1, <1>6, Deleted DEF Locks, Busy
  <2>2. ~Locked(u)
    BY <2>1 DEF ExecuteDelete
  <2>3. QED
    BY <1>1, <1>2, <1>4, <1>6, <2>1, <2>2, LockTaken
<1>7. QED
  BY <1>5, <1>6

(* The Redis step: whoever is right to write the entry leaves it right,    *)
(* and everyone else leaves the product astray.                            *)
LEMMA SyncOrderly ==
  ASSUME Inv, NEW r \in Requests, SyncSchedule(r), NEW u \in Products
  PROVE  Orderly(u)'
<1> DEFINE q == request[r]
           p == q.product
<1>1. TypeOK /\ InOrder /\ Orderly(u)
  BY DEF Inv
<1>2. \A s \in Requests : s # r => request'[s] = request[s]
  BY <1>1, OthersWait DEF RequestStep
<1>3. q \in Request /\ p \in Products /\ q.pc = "schedule" /\ q.patch.routes
  BY <1>1, BusyTyped DEF SyncSchedule, InOrder
<1>4. /\ request'[r].pc = "commit" /\ request'[r].product = p
      /\ request'[r].locked = q.locked /\ request'[r].row = q.row
      /\ request'[r].patch = q.patch
  BY <1>1, <1>3 DEF SyncSchedule, TypeOK, Request
<1>5. \A s \in Requests : \A v \in Products : Locks(s, v)' <=> Locks(s, v)
  BY <1>2, <1>3, <1>4 DEF Locks, Busy
<1>6. product' = product
  BY DEF SyncSchedule
<1>7. CASE u # p
  <2>1. ~Locks(r, u)
    BY <1>7 DEF Locks, Busy
  <2>2. entry'[u] = entry[u] /\ (u \in astray' <=> u \in astray)
    BY <1>1, <1>3, <1>7 DEF SyncSchedule, TypeOK
  <2>3. QED
    BY <1>1, <1>2, <1>5, <1>6, <2>1, <2>2, Unheld
<1>8. CASE u = p /\ u \in astray'
  <2>1. OneWriter(u)'
    BY <1>1, <1>5 DEF Orderly, OneWriter
  <2>2. ASSUME NEW s \in Requests, Locks(s, u)', request'[s].pc = "commit",
               ~request'[s].patch.routes
        PROVE  Wanted(request'[s].row) = Wanted(product'[u])
    <3>1. s # r
      BY <1>3, <1>4, <2>2
    <3>2. request'[s] = request[s] /\ Locks(s, u)
      BY <1>2, <1>5, <2>2, <3>1
    <3>3. QED
      BY <1>1, <1>6, <2>2, <3>2 DEF Orderly, HolderKnows
  <2>3. HolderKnows(u)'
    BY <1>8, <2>2 DEF HolderKnows, Wanted
  <2>4. EntryFollows(u)'
    BY <1>8 DEF EntryFollows
  <2>5. QED
    BY <2>1, <2>3, <2>4 DEF Orderly
<1>9. CASE u = p /\ u \notin astray'
  <2>1. entry'[p] = EntryFor(q) /\ ~GoesAstray(q)
    BY <1>1, <1>3, <1>9 DEF SyncSchedule, TypeOK
  <2>2. OneWriter(u)'
    BY <1>1, <1>5 DEF Orderly, OneWriter
  <2>3. CASE q.locked
    <3>1. entry'[p] = Wanted(q.row)
      BY <2>1, <2>3 DEF EntryFor, GoesAstray, Creates, Wanted
    <3>2. Locks(r, p)
      BY <1>3, <2>3 DEF Locks, Busy
    <3>3. \A s \in Requests : Locks(s, u)' => s = r
      BY <1>1, <1>5, <1>9, <3>2 DEF Orderly, OneWriter
    <3>4. HolderKnows(u)'
      BY <1>3, <1>4, <1>9, <3>1, <3>3 DEF HolderKnows, Wanted
    <3>5. EntryFollows(u)'
      BY <1>5, <1>9, <3>2 DEF EntryFollows, Locked
    <3>6. QED
      BY <2>2, <3>4, <3>5 DEF Orderly
  <2>4. CASE ~q.locked
    <3>1. /\ Wanted(product[p]) = Wanted(q.row) /\ ~Locked(p)
          /\ entry'[p] = Wanted(q.row)
      BY <2>1, <2>4 DEF EntryFor, GoesAstray, Creates
    <3>2. \A s \in Requests : ~Locks(s, u)'
      BY <1>5, <1>9, <3>1 DEF Locked
    <3>3. HolderKnows(u)'
      BY <3>2 DEF HolderKnows
    <3>4. EntryFollows(u)'
      BY <1>6, <1>9, <3>1 DEF EntryFollows, Wanted
    <3>5. QED
      BY <2>2, <3>3, <3>4 DEF Orderly
  <2>5. QED
    BY <2>3, <2>4
<1>10. QED
  BY <1>7, <1>8, <1>9

(* The end of a request, committed or rolled back.                         *)
LEMMA EndOrderly ==
  ASSUME Inv, NEW r \in Requests, Commit(r) \/ RollBack(r),
         NEW u \in Products
  PROVE  Orderly(u)'
<1> DEFINE q == request[r]
           p == q.product
<1>1. TypeOK /\ InOrder /\ Orderly(u)
  BY DEF Inv
<1>2. \A s \in Requests : s # r => request'[s] = request[s]
  BY <1>1, OthersWait DEF RequestStep
<1>3. q \in Request /\ p \in Products /\ q.row \in Row
  BY <1>1, BusyTyped DEF Commit, RollBack
<1>4. ~Locks(r, u)'
  BY <1>1 DEF Commit, RollBack, TypeOK, Locks, Busy, Idle
<1>5. entry' = entry
  BY DEF Commit, RollBack
<1>6. CASE ~Locks(r, u)
  <2>1. product'[u] = product[u] /\ (u \in astray' <=> u \in astray)
    BY <1>1, <1>3, <1>6 DEF Commit, RollBack, TypeOK, Locks, Busy
  <2>2. QED
    BY <1>1, <1>2, <1>4, <1>5, <1>6, <2>1, Unheld
<1>7. CASE Locks(r, u)
  <2>1. u = p /\ q.locked /\ q.pc \in {"schedule", "commit"}
    BY <1>1, <1>3, <1>7 DEF Locks, Busy, InOrder, Request
  <2>2. ASSUME u \notin astray' PROVE entry'[u] = Wanted(product'[u])
    <3>1. CASE Commit(r)
      <4>1. u \notin astray /\ q.pc = "commit"
        BY <2>2, <3>1 DEF Commit
      <4>2. entry[u] = Wanted(q.row)
        BY <1>1, <1>7, <4>1 DEF Orderly, HolderKnows
      <4>3. product'[u] = IF q.row.exists THEN q.row ELSE NoRow
        BY <1>1, <2>1, <3>1 DEF Commit, TypeOK
      <4>4. Wanted(product'[u]) = Wanted(q.row)
        BY <4>3 DEF Wanted, NoRow
      <4>5. QED
        BY <1>5, <4>2, <4>4
    <3>2. CASE RollBack(r)
      <4>1. u \notin astray /\ product' = product
        BY <2>2, <3>2 DEF RollBack
      <4>2. q.pc = "schedule" \/ (q.pc = "commit" /\ ~q.patch.routes)
        BY <2>1, <2>2, <3>2 DEF RollBack
      <4>3. entry[u] = Wanted(product[u])
        BY <1>1, <1>7, <4>1, <4>2 DEF Orderly, HolderKnows
      <4>4. QED
        BY <1>5, <4>1, <4>3
    <3>3. QED
      BY <3>1, <3>2
  <2>3. QED
    BY <1>1, <1>2, <1>4, <1>7, <2>2, LockReleased
<1>8. QED
  BY <1>6, <1>7

(* A starting worker writes entries without a lock: what it writes is      *)
(* right, or the product is astray.                                        *)
LEMMA StartOrderly ==
  ASSUME Inv, ReadActive \/ RegisterNext \/ SyncFails, NEW u \in Products
  PROVE  Orderly(u)'
<1>1. TypeOK /\ Orderly(u)
  BY DEF Inv
<1>2. product' = product /\ request' = request
  BY DEF ReadActive, RegisterNext, SyncFails
<1>3. \A s \in Requests : Locks(s, u)' <=> Locks(s, u)
  BY <1>2 DEF Locks, Busy
<1>4. CASE entry'[u] = entry[u] /\ (u \in astray' <=> u \in astray)
  BY <1>1, <1>2, <1>3, <1>4, Elsewhere
<1>5. CASE ~(entry'[u] = entry[u] /\ (u \in astray' <=> u \in astray))
  <2>1. RegisterNext
    BY <1>5 DEF ReadActive, SyncFails
  <2>2. PICK spec \in sync :
          /\ entry' = [entry EXCEPT ![spec[1]] = spec[2]]
          /\ astray' = IF Wanted(product[spec[1]]) = spec[2] /\ ~Locked(spec[1])
                         THEN astray \ {spec[1]} ELSE astray \cup {spec[1]}
    BY <2>1 DEF RegisterNext
  <2>3. u = spec[1] /\ entry'[u] = spec[2]
    BY <1>1, <1>5, <2>2 DEF TypeOK
  <2>4. u \notin astray' => Wanted(product[u]) = entry'[u] /\ ~Locked(u)
    BY <2>2, <2>3
  <2>5. OneWriter(u)'
    BY <1>1, <1>3 DEF Orderly, OneWriter
  <2>6. HolderKnows(u)'
    <3>1. ASSUME NEW s \in Requests, Locks(s, u)'
          PROVE  /\ u \in astray'
                 /\ request'[s].pc = "commit" /\ ~request'[s].patch.routes =>
                      Wanted(request'[s].row) = Wanted(product'[u])
      BY <1>1, <1>2, <1>3, <2>4, <3>1 DEF Orderly, HolderKnows, Locked
    <3>2. QED
      BY <3>1 DEF HolderKnows, Wanted
  <2>7. EntryFollows(u)'
    BY <1>2, <2>4 DEF EntryFollows, Wanted
  <2>8. QED
    BY <2>5, <2>6, <2>7 DEF Orderly
<1>6. QED
  BY <1>4, <1>5

LEMMA InOrderStep == TypeOK /\ InOrder /\ [Next]_vars => InOrder'
<1> SUFFICES ASSUME TypeOK, InOrder, [Next]_vars PROVE InOrder'
  OBVIOUS
<1> DEFINE Fine(q) ==
      /\ q.pc \in {"write", "delete"} => ~q.locked
      /\ q.pc \in {"delete", "schedule"} => q.patch.routes
      /\ q.pc = "write" /\ ~q.patch.routes =>
           q.patch.active = q.row.active /\ q.patch.source = q.row.source
<1>1. \A r \in Requests : Fine(request[r])
  BY DEF InOrder
<1>2. SUFFICES \A r \in Requests : Fine(request'[r])
  BY DEF InOrder
<1>3. Fine(Idle)
  BY DEF Idle
<1>4. ASSUME NEW r \in Requests, NEW p \in Products,
             CreateProduct(r, p) \/ UpdateProduct(r, p) \/ DeleteProduct(r, p)
      PROVE  \A s \in Requests : Fine(request'[s])
  <2>1. Fine(request'[r])
    BY <1>4 DEF CreateProduct, UpdateProduct, DeleteProduct, TypeOK
  <2>2. QED
    BY <1>1, <1>4, <2>1, OthersWait
<1>5. ASSUME NEW r \in Requests, RequestStep(r) \/ RollBack(r)
      PROVE  \A s \in Requests : Fine(request'[s])
  <2>1. Fine(request'[r])
    <3>1. CASE WriteProduct(r)
      <4>1. CASE product[request[r].product].exists
        BY <3>1, <4>1, Written
      <4>2. CASE ~product[request[r].product].exists
        BY <1>3, <3>1, <4>2 DEF WriteProduct, TypeOK
      <4>3. QED
        BY <4>1, <4>2
    <3>2. CASE ExecuteDelete(r)
      <4>1. request'[r].pc = "schedule" /\ request'[r].patch = request[r].patch
        BY <3>2, Deleted
      <4>2. request[r].patch.routes
        BY <1>1, <3>2 DEF ExecuteDelete
      <4>3. QED
        BY <4>1, <4>2
    <3>3. CASE SyncSchedule(r)
      <4>1. request'[r].pc = "commit"
        BY <3>3, BusyTyped DEF SyncSchedule, TypeOK, Request
      <4>2. QED
        BY <4>1
    <3>4. CASE Commit(r) \/ RollBack(r)
      BY <1>3, <3>4 DEF Commit, RollBack, TypeOK
    <3>5. QED
      BY <1>5, <3>1, <3>2, <3>3, <3>4 DEF RequestStep
  <2>2. QED
    BY <1>1, <1>5, <2>1, OthersWait
<1>6. CASE ReadActive \/ RegisterNext \/ SyncFails \/ UNCHANGED vars
  BY <1>1, <1>6 DEF ReadActive, RegisterNext, SyncFails, vars
<1>7. QED
  BY <1>4, <1>5, <1>6 DEF Next

LEMMA Initially == Init => Inv
<1> SUFFICES ASSUME Init PROVE Inv
  OBVIOUS
<1>1. \A r \in Requests : request[r] = Idle
  BY DEF Init
<1>2. InOrder
  BY <1>1 DEF InOrder, Idle
<1>3. \A r \in Requests : \A p \in Products : ~Locks(r, p)
  BY <1>1 DEF Locks, Busy, Idle
<1>4. \A p \in Products : entry[p] = Wanted(product[p])
  BY DEF Init, Wanted, NoRow
<1>5. \A p \in Products : Orderly(p)
  BY <1>3, <1>4 DEF Orderly, OneWriter, HolderKnows, EntryFollows
<1>6. QED
  BY <1>2, <1>5, InitTyped DEF Inv

LEMMA Preserved == Inv /\ [Next]_vars => Inv'
<1> SUFFICES ASSUME Inv, [Next]_vars, NEW u \in Products PROVE Orderly(u)'
  BY TypeStep, InOrderStep DEF Inv
<1>1. CASE UNCHANGED vars
  <2>1. \A s \in Requests : Locks(s, u)' <=> Locks(s, u)
    BY <1>1 DEF vars, Locks, Busy
  <2>2. QED
    BY <1>1, <2>1, Elsewhere DEF vars, Inv
<1>2. CASE \E r \in Requests : RequestStep(r) \/ RollBack(r)
  BY <1>2, WriteOrderly, DeleteOrderly, SyncOrderly, EndOrderly
     DEF RequestStep
<1>3. CASE \E r \in Requests : \E p \in Products :
             CreateProduct(r, p) \/ UpdateProduct(r, p) \/ DeleteProduct(r, p)
  BY <1>3, OpeningOrderly
<1>4. CASE ReadActive \/ RegisterNext \/ SyncFails
  BY <1>4, StartOrderly
<1>5. QED
  BY <1>1, <1>2, <1>3, <1>4 DEF Next

THEOREM Invariant == Spec => []Inv
BY Initially, Preserved, PTL DEF Spec

-----------------------------------------------------------------------------
(* Every variable stays in its set: no entry names a queue that no preset  *)
(* names.                                                                  *)
THEOREM TypeCorrect == Spec => []TypeOK
<1>1. Inv => TypeOK
  BY DEF Inv
<1>2. QED
  BY <1>1, Invariant, PTL

(* Outside a row lock, exactly the active products that are not astray     *)
(* have an entry, on the queue of their source.                            *)
THEOREM EntriesFollow == Spec => []EntriesFollowRows
<1>1. Inv => EntriesFollowRows
  BY DEF Inv, Orderly, EntryFollows, EntriesFollowRows
<1>2. QED
  BY <1>1, Invariant, PTL

(* Under a row lock, the entry says what the row said or what it will say. *)
THEOREM BeforeOrAfter == Spec => []EntryBeforeOrAfter
<1>1. Inv => EntryBeforeOrAfter
  <2> SUFFICES ASSUME Inv, NEW r \in Requests, NEW p \in Products,
                      p \notin astray, Locks(r, p)
               PROVE  entry[p] \in {Wanted(product[p]), Wanted(request[r].row)}
    BY DEF EntryBeforeOrAfter
  <2>1. request[r].pc \in {"schedule", "commit"}
    <3>1. request[r] \in Request
      BY BusyTyped DEF Inv, Locks, Busy
    <3>2. QED
      BY <3>1 DEF Inv, InOrder, Locks, Request
  <2>2. QED
    BY <2>1 DEF Inv, Orderly, HolderKnows
<1>2. QED
  BY <1>1, Invariant, PTL
=============================================================================
