------------------------------ MODULE Schedules ------------------------------
(***************************************************************************)
(* The products API and the RedBeat schedule it keeps in step with the     *)
(* product table (api/v1/products.py, tasks/schedule.py, get_db in         *)
(* core/database.py, queue_for_source_type in scrapers/registry.py).       *)
(*                                                                         *)
(* A request changes the product's row, then Redis, then get_db commits:   *)
(* there is no transaction over both, and the Redis step is best effort.   *)
(* Every worker that starts reads the active products and registers them   *)
(* one by one.  Beat dispatches a scrape for every entry it finds.         *)
(***************************************************************************)
EXTENDS Integers, FiniteSets

CONSTANTS
  Products,   \* product ids that are ever given out
  Requests,   \* requests handled at the same time
  Sources,    \* source types with an enabled preset
  QueueOf,    \* the queue each preset names
  CreatedAs,  \* values of is_active that clients create products with
  MaxPatches, \* bound: updates
  MaxSyncs,   \* bound: worker starts
  MaxFaults   \* bound: failed Redis calls and failed commits

ASSUME SchedulesAssumption ==
  /\ CreatedAs \subseteq BOOLEAN
  /\ MaxPatches \in Nat /\ MaxSyncs \in Nat /\ MaxFaults \in Nat

VARIABLES
  product,   \* the committed product table
  entry,     \* the queue of each product's RedBeat entry
  request,   \* what each request is doing
  sync,      \* the registrations a starting worker still has to make
  patches, syncs, faults,
  astray     \* history: products whose entry a fault or a race left behind

vars == <<product, entry, request, sync, patches, syncs, faults, astray>>
-----------------------------------------------------------------------------
Queues   == {QueueOf[s] : s \in Sources}
NoEntry  == "none"
Row      == [exists: BOOLEAN, active: BOOLEAN, source: Sources]
NoRow    == [exists |-> FALSE, active |-> FALSE,
             source |-> CHOOSE s \in Sources : TRUE]

(* A request: the row as it read it, then the row as it left it.  locked:  *)
(* it holds the row lock, having written the row.  patch: what a PATCH     *)
(* sets; one that routes names is_active or source_type.                   *)
Idle == [pc |-> "idle"]
Request == [pc: {"write", "delete", "schedule", "commit"}, product: Products,
            row: Row, locked: BOOLEAN,
            patch: [routes: BOOLEAN, active: BOOLEAN, source: Sources]]

TypeOK ==
  /\ product \in [Products -> Row \cup {NoRow}]
  /\ entry \in [Products -> Queues \cup {NoEntry}]
  /\ request \in [Requests -> {Idle} \cup Request]
  /\ sync \subseteq Products \X Queues
  /\ patches \in 0..MaxPatches /\ syncs \in 0..MaxSyncs
  /\ faults \in 0..MaxFaults
  /\ astray \subseteq Products

Init ==
  /\ product = [p \in Products |-> NoRow]
  /\ entry = [p \in Products |-> NoEntry]
  /\ request = [r \in Requests |-> Idle]
  /\ sync = {}
  /\ patches = 0 /\ syncs = 0 /\ faults = 0
  /\ astray = {}
-----------------------------------------------------------------------------
Busy(r, p)   == request[r].pc # "idle" /\ request[r].product = p
Locks(r, p)  == Busy(r, p) /\ request[r].locked
Locked(p)    == \E r \in Requests : Locks(r, p)
Wanted(row)  == IF row.exists /\ row.active THEN QueueOf[row.source]
                                            ELSE NoEntry
Fault == faults < MaxFaults /\ faults' = faults + 1

(* An id of which no trace is left stands for the next id.                 *)
Fresh(p) ==
  /\ product[p] = NoRow /\ entry[p] = NoEntry /\ p \notin astray
  /\ \A r \in Requests : ~Busy(r, p)
  /\ \A spec \in sync : spec[1] # p

(* POST: the insert is flushed; nobody else sees it before the commit.     *)
CreateProduct(r, p) ==
  /\ request[r].pc = "idle" /\ Fresh(p)
  /\ \E s \in Sources, a \in CreatedAs :
       request' = [request EXCEPT ![r] =
         [pc |-> "schedule", product |-> p, locked |-> TRUE,
          row |-> [exists |-> TRUE, active |-> a, source |-> s],
          patch |-> [routes |-> TRUE, active |-> TRUE, source |-> s]]]
  /\ UNCHANGED <<product, entry, sync, patches, syncs, faults, astray>>

(* PATCH: reads the row; 404 and 422 end it here.                          *)
UpdateProduct(r, p) ==
  /\ request[r].pc = "idle" /\ product[p].exists
  /\ patches < MaxPatches /\ patches' = patches + 1
  /\ \E routes, a \in BOOLEAN, s \in Sources :
       /\ ~routes => a = product[p].active /\ s = product[p].source
       /\ request' = [request EXCEPT ![r] =
            [pc |-> "write", product |-> p, locked |-> FALSE,
             row |-> product[p],
             patch |-> [routes |-> routes, active |-> a, source |-> s]]]
  /\ UNCHANGED <<product, entry, sync, syncs, faults, astray>>

(* flush() and refresh(): an UPDATE sets the fields that differ from what  *)
(* was read, and waits for the row lock; a PATCH that changes nothing      *)
(* writes nothing and takes no lock.  other: a field that routes nothing   *)
(* changes.  A row that is gone is a 500.                                  *)
WriteProduct(r) == \E other \in BOOLEAN :
  LET q == request[r]
      p == q.product
      changes == \/ other
                 \/ q.patch.active # q.row.active
                 \/ q.patch.source # q.row.source
  IN  /\ q.pc = "write"
      /\ changes => ~Locked(p)
      /\ request' = [request EXCEPT ![r] =
           IF ~product[p].exists THEN Idle
             ELSE [q EXCEPT
               !.pc = IF q.patch.routes THEN "schedule" ELSE "commit",
               !.locked = changes,
               !.row = [product[p] EXCEPT
                 !.active = IF q.patch.active # q.row.active
                              THEN q.patch.active ELSE @,
                 !.source = IF q.patch.source # q.row.source
                              THEN q.patch.source ELSE @]]]
      /\ UNCHANGED <<product, entry, sync, patches, syncs, faults, astray>>

(* DELETE: finds the row, then deletes it under its lock.                  *)
DeleteProduct(r, p) ==
  /\ request[r].pc = "idle" /\ product[p].exists
  /\ request' = [request EXCEPT ![r] =
       [pc |-> "delete", product |-> p, locked |-> FALSE, row |-> product[p],
        patch |-> [routes |-> TRUE, active |-> FALSE,
                   source |-> product[p].source]]]
  /\ UNCHANGED <<product, entry, sync, patches, syncs, faults, astray>>

ExecuteDelete(r) ==
  /\ request[r].pc = "delete"
  /\ ~Locked(request[r].product)
  /\ request' = [request EXCEPT ![r].pc = "schedule",
                                ![r].locked = product[request[r].product].exists,
                                ![r].row = [@ EXCEPT !.exists = FALSE]]
  /\ UNCHANGED <<product, entry, sync, patches, syncs, faults, astray>>

(* Mutation: the queue argument is the source type.                        *)
EntryBySource(q) == IF q.row.exists /\ q.row.active THEN q.row.source
                                                    ELSE NoEntry

(* Mutation: what was read and asked for, not the refreshed row, decides.  *)
EntryByPatch(q) == IF q.row.exists /\ q.patch.active
                     THEN QueueOf[q.patch.source] ELSE NoEntry

(* Mutation: a change of the source type does not re-register.             *)
EntryOnToggle(q) ==
  IF q.row.exists /\ q.row.active /\ entry[q.product] # NoEntry
    THEN entry[q.product] ELSE Wanted(q.row)

(* The create handler registers whatever is_active says; the others        *)
(* register an active product and deregister any other.                    *)
Creates(q)  == q.locked /\ q.row.exists /\ ~product[q.product].exists
EntryFor(q) == IF Creates(q) THEN QueueOf[q.row.source] ELSE Wanted(q.row)

(* A create of an inactive product, or an unlocked request when somebody   *)
(* else has changed the row, or holds it to change it.                     *)
GoesAstray(q) ==
  \/ Creates(q) /\ ~q.row.active
  \/ /\ ~q.locked
     /\ Wanted(product[q.product]) # Wanted(q.row) \/ Locked(q.product)

SyncSchedule(r) ==
  LET q == request[r]
  IN  /\ q.pc = "schedule"
      /\ request' = [request EXCEPT ![r].pc = "commit"]
      /\ \/ /\ entry' = [entry EXCEPT ![q.product] = EntryFor(q)]
            /\ astray' = IF GoesAstray(q) THEN astray \cup {q.product}
                                          ELSE astray \ {q.product}
            /\ UNCHANGED faults
         \/ /\ Fault
            /\ astray' = astray \cup {q.product}
            /\ UNCHANGED entry
      /\ UNCHANGED <<product, sync, patches, syncs>>

(* get_db: commits when the handler has returned.                          *)
Commit(r) ==
  /\ request[r].pc = "commit"
  /\ product' = IF request[r].locked
                  THEN [product EXCEPT ![request[r].product] =
                          IF request[r].row.exists THEN request[r].row
                                                   ELSE NoRow]
                  ELSE product
  /\ request' = [request EXCEPT ![r] = Idle]
  /\ UNCHANGED <<entry, sync, patches, syncs, faults, astray>>

RollBack(r) ==
  /\ request[r].pc # "idle"
  /\ Fault
  /\ astray' = IF /\ request[r].pc = "commit"
                   /\ request[r].locked /\ request[r].patch.routes
                 THEN astray \cup {request[r].product} ELSE astray
  /\ request' = [request EXCEPT ![r] = Idle]
  /\ UNCHANGED <<product, entry, sync, patches, syncs>>
-----------------------------------------------------------------------------
(* startup_sync_schedules: one snapshot, then entry by entry.              *)
ReadActive ==
  /\ sync = {} /\ syncs < MaxSyncs
  /\ syncs' = syncs + 1
  /\ sync' = {<<p, QueueOf[product[p].source]>> :
                p \in {q \in Products : product[q].exists /\ product[q].active}}
  /\ UNCHANGED <<product, entry, request, patches, faults, astray>>

RegisterNext ==
  \E spec \in sync :
    LET p == spec[1]
    IN  /\ entry' = [entry EXCEPT ![p] = spec[2]]
        /\ sync' = sync \ {spec}
        /\ astray' = IF Wanted(product[p]) = spec[2] /\ ~Locked(p)
                       THEN astray \ {p} ELSE astray \cup {p}
        /\ UNCHANGED <<product, request, patches, syncs, faults>>

(* The first exception ends the sync; on_worker_ready logs it.             *)
SyncFails ==
  /\ sync # {} /\ Fault
  /\ sync' = {}
  /\ UNCHANGED <<product, entry, request, patches, syncs, astray>>
-----------------------------------------------------------------------------
RequestStep(r) ==
  WriteProduct(r) \/ ExecuteDelete(r) \/ SyncSchedule(r) \/ Commit(r)

Next ==
  \/ \E r \in Requests :
       \/ RequestStep(r) \/ RollBack(r)
       \/ \E p \in Products : CreateProduct(r, p) \/ UpdateProduct(r, p)
                                \/ DeleteProduct(r, p)
  \/ ReadActive \/ RegisterNext \/ SyncFails

Spec == Init /\ [][Next]_vars
-----------------------------------------------------------------------------
(* Although row and entry are written one after the other and no lock      *)
(* spans both, the row lock orders the requests: when nobody is between    *)
(* the two, exactly the active products are scheduled, each on the queue   *)
(* of its source, except where a fault, a create of an inactive product or *)
(* an unlocked writer (a PATCH that changes nothing, a starting worker)    *)
(* left an entry behind, and until the next orderly write repairs it.      *)
EntriesFollowRows ==
  \A p \in Products :
    p \notin astray /\ ~Locked(p) => entry[p] = Wanted(product[p])

(* While a request holds a product's row, the entry says either what the   *)
(* row said before it or what it will say, never a third thing.            *)
EntryBeforeOrAfter ==
  \A r \in Requests : \A p \in Products :
    p \notin astray /\ Locks(r, p) =>
      entry[p] \in {Wanted(product[p]), Wanted(request[r].row)}
=============================================================================
