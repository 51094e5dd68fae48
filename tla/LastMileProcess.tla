--------------------------- MODULE LastMileProcess ---------------------------
(***************************************************************************)
(* The LastMile fulfilment process: the six write use cases of the server, *)
(* each run by AppContext.runWrite inside one PostgreSQL transaction, and  *)
(* the FlowCatalyst platform, which delivers the committed outbox          *)
(* messages back to the server's own routes.                               *)
(*                                                                         *)
(*   POST /fulfilments             -> row + fulfilment:created             *)
(*   fulfilment:created  (process) -> create-shipment job + decision event *)
(*   POST /shipments     (job)     -> row + shipment:created               *)
(*   shipment:created    (process) -> link-shipment job + decision event   *)
(*   POST .../link-shipment (job)  -> row update + shipment-linked         *)
(*   POST /shipments/:id/ready     -> row update + shipment:ready          *)
(*                                                                         *)
(* A request is a sequence of awaits: repository reads run on the pool and *)
(* see what is committed at that moment, statements run in the request's   *)
(* transaction, and between any two of them other requests may run.  The   *)
(* COMMIT and the reply are two steps: an answer may be lost after it.     *)
(***************************************************************************)
EXTENDS LastMileDomain, Naturals, Sequences, FiniteSets

CONSTANTS Requests,     \* slots for requests in flight
          ApiRequests,  \* what callers other than FlowCatalyst may send:
                        \* records [header, input]
          MaxAttempts,  \* deliveries FlowCatalyst makes of one message
          MaxFaults     \* timeouts, failed reads or statements, crashes

ASSUME ProcessAssumption ==
  IsFiniteSet(Requests) /\ MaxAttempts \in Nat /\ MaxFaults \in Nat

VARIABLES db,       \* committed rows of all tables
          req,      \* the request each slot is running
          tries,    \* <<message, n>>: FlowCatalyst made its n-th delivery
          settled,  \* messages whose delivery was answered with 2xx
          faults,   \* faults so far
          lost      \* answers FlowCatalyst awaited and did not get so far

vars == <<db, req, tries, settled, faults, lost>>

-----------------------------------------------------------------------------
(* Inputs.  A message delivered by FlowCatalyst carries its tenant in the  *)
(* body; the two client routes take it from the x-tenant-id header only.   *)
(* leap: an end of the collection window is a leap second, which the body  *)
(* schema's date-time format admits.                                       *)

PostFulfilment == "POST /fulfilments"
PostReady      == "POST /shipments/:id/ready"

FulfilmentCommand ==
  [type: {PostFulfilment}, sourceNote: Notes, missing: SUBSET Legs, leap: BOOLEAN]
ReadyCommand == [type: {PostReady}, shipmentId: ShipmentIds]
Input        == FulfilmentCommand \cup ReadyCommand \cup Message

ClientTypes    == {PostFulfilment, PostReady}
DeliveredTypes == JobTypes \cup {FulfilmentCreated, ShipmentCreated}

ASSUME ApiAssumption ==
  \A a \in ApiRequests : /\ a.header \in Tenants \cup {None}
                         /\ a.input \in Input
                         /\ a.input.type \in ClientTypes \cup DeliveredTypes

ResolveScope(header, bodyTenant) == IF header # None THEN header ELSE bodyTenant

BodyTenant(in) == IF in.type \in ClientTypes THEN None ELSE in.tenantId

(* Mutant of Precheck: a missing tenant passes.                            *)
PrecheckNoTenantGuard(in, tenant) ==
  IF in.type = CreateJob /\ in.missing # {} THEN "LOCATIONS_NOT_GEOCODED" ELSE "ok"

(* The guards a use case evaluates before its first read.                  *)
Precheck(in, tenant) ==
  CASE tenant = None -> "TENANT_REQUIRED"
    [] in.type \notin ClientTypes /\ tenant # BodyTenant(in) -> "TENANT_MISMATCH"
    [] in.type = CreateJob /\ in.missing # {} -> "LOCATIONS_NOT_GEOCODED"
    [] OTHER -> "ok"

-----------------------------------------------------------------------------
(* Requests.  todo holds the statements the use case has still to execute, *)
(* staged those its open transaction has executed.                         *)

Idle == [pc |-> "idle", input |-> None, tenant |-> None, id |-> None,
         shipment |-> None, todo |-> <<>>, staged |-> {}, waiting |-> FALSE,
         outcome |-> "none"]

Init == /\ db = {}
        /\ req = [r \in Requests |-> Idle]
        /\ tries = {}
        /\ settled = {}
        /\ faults = 0
        /\ lost = 0

Running(r, types) == req[r].pc = "run" /\ req[r].input.type \in types

(* Identifiers already taken.  A request reserves the TSID it may need on  *)
(* arrival; it shows in the database only if the request commits.          *)
UsedIds == {d.id : d \in {x \in db : x.table \in AggregateTables}}
           \cup {m.job : m \in {x \in db : x.table = "outbox_messages"}}
           \cup {req[r].id : r \in Requests}

(* generateTsid(): some identifier nobody has used; None if the use case   *)
(* generates none.                                                         *)
FreshIds(in) ==
  CASE in.type = PostFulfilment -> FulfilmentIds \ UsedIds
    [] in.type = CreateJob -> ShipmentIds \ UsedIds
    [] in.type \in {FulfilmentCreated, ShipmentCreated} -> JobIds \ UsedIds
    [] OTHER -> {None}

(* A request arrives: the route resolves the scope, runWrite opens the     *)
(* transaction and the use case evaluates its first guards.                *)
Receive(r, in, header, waiting) ==
  /\ req[r].pc = "idle"
  /\ FreshIds(in) # {}
  /\ LET tenant == ResolveScope(header, BodyTenant(in))
         code   == Precheck(in, tenant)
     IN  req' = [req EXCEPT ![r] =
           [Idle EXCEPT !.pc = IF code = "ok" THEN "run" ELSE "close",
                        !.input = in, !.tenant = tenant, !.waiting = waiting,
                        !.id = CHOOSE id \in FreshIds(in) : TRUE,
                        !.outcome = code]]

(* The use case returns a failure before any statement: runWrite           *)
(* (Effect.result) lets the empty transaction commit.                      *)
Fail(r, code) ==
  /\ req' = [req EXCEPT ![r].pc = "close", ![r].outcome = code]
  /\ UNCHANGED <<db, tries, settled, faults, lost>>

(* The use case has decided: these statements follow, in this order.       *)
Write(r, statements) ==
  /\ req' = [req EXCEPT ![r].pc = "write", ![r].todo = statements]
  /\ UNCHANGED <<db, tries, settled, faults, lost>>

(* Mutant of CommitAggregate: the local audit row is forgotten.             *)
CommitWithoutAudit(row, event) == <<row, event, AuditMessage(event)>>

(* commitAggregate: the aggregate's row, its audit row, its event and the  *)
(* SDK's audit message (auditEnabled).                                     *)
CommitAggregate(row, event) == <<row, AuditLog(event), event, AuditMessage(event)>>

(* Mutant of EmitJob: the job leaves without its event.                     *)
EmitJobAlone(job, event) == <<job>>

(* broker.emit(job), then uow.emitEvent(event).  Whether the SDK adds an   *)
(* audit message to an event without an aggregate is not in the repository.*)
EmitJob(job, event) == <<job, event>>

(* Mutant of FulfilmentById: the tenant is not part of the lookup.          *)
FulfilmentOfAnyTenant(tenant, id) ==
  {f \in db : f.table = "last_mile_fulfilments" /\ f.id = id}

(* Repository reads: the row that is found, if any.  A read that finds one *)
(* it cannot map (not Readable) throws.                                    *)
FulfilmentById(tenant, id) ==
  {f \in db : f.table = "last_mile_fulfilments" /\ f.tenantId = tenant /\ f.id = id}
ShipmentById(tenant, id) ==
  {s \in db : s.table = "last_mile_shipments" /\ s.tenantId = tenant /\ s.id = id}
ActiveBySourceNote(tenant, note) ==
  {f \in db : f.table = "last_mile_fulfilments" /\ f.tenantId = tenant /\ f.sourceNote = note}

Unreadable(found) == \E row \in found : ~Readable(row)

-----------------------------------------------------------------------------
(* The use cases, from their first read to the decision.                   *)

(* CreateLastMileFulfilment.  The uniqueness read is only a hint: it does  *)
(* not see rows that other open transactions have staged.                  *)
CreateLastMileFulfilment(r) ==
  /\ Running(r, {PostFulfilment})
  /\ LET q     == req[r]
         f     == FulfilmentCreate(q.id, q.tenant, q.input)
         found == ActiveBySourceNote(q.tenant, q.input.sourceNote)
     IN  \/ Unreadable(found) /\ Fail(r, "REPO_READ_FAILED")
         \/ found # {} /\ ~Unreadable(found) /\ Fail(r, "SOURCE_NOTE_IN_FLIGHT")
         \/ found = {} /\ Write(r, CommitAggregate(f, FulfilmentEvent(FulfilmentCreated, f)))

(* Mutant of MissingLegs: the event is believed.                            *)
MissingLegsClaimed(f, in) == in.missing

(* The legs without coordinates of the fulfilment read, not of the event.  *)
MissingLegs(f, in) == f.missing

(* HandleLastMileFulfilmentCreated: dispatch the creation of a shipment,   *)
(* or park a fulfilment one of whose legs is not geocoded.                 *)
HandleFulfilmentCreated(r) ==
  /\ Running(r, {FulfilmentCreated})
  /\ LET found == FulfilmentById(req[r].tenant, req[r].input.fulfilmentId)
     IN  \/ found = {} /\ Fail(r, "FULFILMENT_NOT_FOUND")
         \/ Unreadable(found) /\ Fail(r, "REPO_READ_FAILED")
         \/ \E f \in found :
              LET job == CreateShipmentJob(req[r].id, f)
              IN  /\ Readable(f)
                  /\ IF MissingLegs(f, req[r].input) # {}
                     THEN Write(r, CommitAggregate(ScheduleReaction(f),
                                                   FulfilmentEvent(AwaitingGeocoding, f)))
                     ELSE Write(r, EmitJob(job, DecisionEvent(ShipmentRequested, job)))

(* CreateLastMileShipment.  The parent must exist in the tenant; nothing   *)
(* asks whether it already has a shipment.                                 *)
CreateLastMileShipment(r) ==
  /\ Running(r, {CreateJob})
  /\ LET q     == req[r]
         s     == ShipmentCreate(q.id, q.tenant, q.input)
         found == FulfilmentById(q.tenant, q.input.fulfilmentId)
     IN  \/ found = {} /\ Fail(r, "FULFILMENT_NOT_FOUND")
         \/ Unreadable(found) /\ Fail(r, "REPO_READ_FAILED")
         \/ /\ found # {} /\ ~Unreadable(found)
            /\ Write(r, CommitAggregate(s, ShipmentEvent(ShipmentCreated, s)))

(* HandleLastMileShipmentCreated: no read, one job for the parent.         *)
HandleShipmentCreated(r) ==
  /\ Running(r, {ShipmentCreated})
  /\ LET job == LinkShipmentJob(req[r].id, req[r].input)
     IN  Write(r, EmitJob(job, DecisionEvent(LinkDispatched, job)))

(* LinkShipmentToFulfilment, first read: the shipment.                     *)
LoadShipmentToLink(r) ==
  /\ Running(r, {LinkJob})
  /\ LET found == ShipmentById(req[r].tenant, req[r].input.shipmentId)
     IN  \/ found = {} /\ Fail(r, "SHIPMENT_NOT_FOUND")
         \/ Unreadable(found) /\ Fail(r, "REPO_READ_FAILED")
         \/ \E s \in found :
              /\ Readable(s)
              /\ IF s.fulfilmentId # req[r].input.fulfilmentId
                 THEN Fail(r, "FULFILMENT_MISMATCH")
                 ELSE /\ req' = [req EXCEPT ![r].pc = "link", ![r].shipment = s]
                      /\ UNCHANGED <<db, tries, settled, faults, lost>>

(* LinkShipmentToFulfilment, second read: the parent fulfilment.           *)
LinkShipmentToFulfilment(r) ==
  /\ req[r].pc = "link"
  /\ LET q     == req[r]
         found == FulfilmentById(q.tenant, q.input.fulfilmentId)
     IN  \/ found = {} /\ Fail(r, "FULFILMENT_NOT_FOUND")
         \/ Unreadable(found) /\ Fail(r, "REPO_READ_FAILED")
         \/ \E f \in found :
              /\ Readable(f)
              /\ IF IsShipmentLinked(f, q.shipment.id)
                 THEN Fail(r, "SHIPMENT_ALREADY_LINKED")
                 ELSE Write(r, CommitAggregate(LinkShipment(f, q.shipment.id),
                                               LinkedEvent(f, q.shipment.id)))

(* MarkShipmentReady.                                                      *)
MarkShipmentReady(r) ==
  /\ Running(r, {PostReady})
  /\ LET found == ShipmentById(req[r].tenant, req[r].input.shipmentId)
     IN  \/ found = {} /\ Fail(r, "SHIPMENT_NOT_FOUND")
         \/ Unreadable(found) /\ Fail(r, "REPO_READ_FAILED")
         \/ \E s \in found :
              /\ Readable(s)
              /\ IF s.status # "unfinalised"
                 THEN Fail(r, "SHIPMENT_NOT_UNFINALISED")
                 ELSE Write(r, CommitAggregate(MarkReady(s), ShipmentEvent(ShipmentReady, s)))

-----------------------------------------------------------------------------
(* The transaction.                                                        *)

(* Mutant of LockedBy: an INSERT does not wait for open transactions.      *)
LockedByNobody(o, row) == FALSE

(* The open transaction of o holds a row that conflicts with row.          *)
LockedBy(o, row) == \E held \in req[o].staged : Conflicts(held, row)

(* INSERT of the next statement (both repositories' persist is an INSERT,  *)
(* for a new aggregate and for a changed one).  It waits while another     *)
(* open transaction holds a conflicting row; a conflict with a committed   *)
(* row, or one of its own, is a unique violation, which aborts the         *)
(* transaction.  persist then maps the row it got back: where that throws, *)
(* the use case fails, but the row stays in a transaction PostgreSQL has   *)
(* no reason to abort.                                                     *)
Execute(r) ==
  /\ req[r].pc = "write"
  /\ LET row     == Head(req[r].todo)
         rest    == Tail(req[r].todo)
         refused == \E d \in db \cup req[r].staged : Conflicts(d, row)
     IN  /\ \A o \in Requests \ {r} : ~LockedBy(o, row)
         /\ \/ /\ refused
               /\ req' = [req EXCEPT ![r].pc = "close", ![r].outcome = "TX_ABORTED"]
            \/ /\ ~refused /\ ~Readable(row)
               /\ req' = [req EXCEPT ![r].staged = @ \cup {row}, ![r].todo = <<>>,
                                     ![r].pc = "close", ![r].outcome = "COMMIT_FAILED"]
            \/ /\ ~refused /\ Readable(row)
               /\ req' = [req EXCEPT ![r].staged = @ \cup {row}, ![r].todo = rest,
                                     ![r].pc = IF rest = <<>> THEN "close" ELSE "write"]
  /\ UNCHANGED <<db, tries, settled, faults, lost>>

(* Mutants of Accepted: every reply is 2xx, or only a linked one is.        *)
AcceptedAlways(q) == TRUE
AcceptedLinkOnly(q) == q.outcome = "ok" /\ q.input.type = LinkJob

(* What a reply with a 2xx status answers: success, and the duplicate link *)
(* that the route maps to skipped_duplicate.                               *)
Accepted(q) == \/ q.outcome = "ok"
               \/ q.input.type = LinkJob /\ q.outcome = "SHIPMENT_ALREADY_LINKED"

(* Mutant of Committed: a failed statement does not roll back the others.   *)
CommittedRegardless(q) == q.staged

(* What ending the transaction makes permanent.  A failure the use case    *)
(* returns is committed like a success (Effect.result), with the row that  *)
(* could not be read back if there is one; after a failed statement        *)
(* PostgreSQL rolls back.                                                  *)
Committed(q) == IF q.outcome = "TX_ABORTED" THEN {} ELSE q.staged

(* inTransaction ends the transaction.                                     *)
Commit(r) ==
  /\ req[r].pc = "close"
  /\ db' = db \cup Committed(req[r])
  /\ req' = [req EXCEPT ![r].pc = "answer", ![r].staged = {}, ![r].todo = <<>>]
  /\ UNCHANGED <<tries, settled, faults, lost>>

(* The reply goes out and reaches FlowCatalyst if it still waits.          *)
Answer(r) ==
  /\ req[r].pc = "answer"
  /\ settled' = IF req[r].waiting /\ Accepted(req[r])
                THEN settled \cup {req[r].input} ELSE settled
  /\ req' = [req EXCEPT ![r] = Idle]
  /\ UNCHANGED <<db, tries, faults, lost>>

-----------------------------------------------------------------------------
(* Callers.                                                                *)

CallApi(r) ==
  /\ \E a \in ApiRequests : Receive(r, a.input, a.header, FALSE)
  /\ UNCHANGED <<db, tries, settled, faults, lost>>

(* FlowCatalyst still owes a delivery of m: none was answered with 2xx and *)
(* none is awaiting its answer.                                            *)
Undelivered(m) ==
  /\ m \notin settled
  /\ ~\E o \in Requests : req[o].waiting /\ req[o].input = m

(* FlowCatalyst delivers a committed event its subscription names, or a    *)
(* dispatch job, until a delivery is answered with 2xx or the attempts are *)
(* used up.  It sends no x-tenant-id header.                               *)
Deliver(r) ==
  /\ \E m \in {x \in db : x.table = "outbox_messages" /\ x.type \in DeliveredTypes} :
       /\ Undelivered(m)
       /\ \E n \in 1..MaxAttempts :
            /\ <<m, n>> \notin tries
            /\ n > 1 => <<m, n - 1>> \in tries
            /\ tries' = tries \cup {<<m, n>>}
       /\ Receive(r, m, None, TRUE)
  /\ UNCHANGED <<db, settled, faults, lost>>

-----------------------------------------------------------------------------
(* Faults.                                                                 *)

(* A read or a statement fails on the connection.                          *)
ReadFails(r) ==
  /\ faults < MaxFaults
  /\ \/ req[r].pc = "run" /\ req[r].input.type # ShipmentCreated
     \/ req[r].pc = "link"
  /\ req' = [req EXCEPT ![r].pc = "close", ![r].outcome = "REPO_READ_FAILED"]
  /\ faults' = faults + 1
  /\ UNCHANGED <<db, tries, settled, lost>>

StatementFails(r) ==
  /\ faults < MaxFaults
  /\ req[r].pc = "write"
  /\ req' = [req EXCEPT ![r].pc = "close", ![r].outcome = "TX_ABORTED"]
  /\ faults' = faults + 1
  /\ UNCHANGED <<db, tries, settled, lost>>

(* FlowCatalyst gives up waiting (timeoutSeconds, a lost connection) while *)
(* the request goes on: its commit will not be acknowledged.               *)
Timeout(r) ==
  /\ faults < MaxFaults
  /\ req[r].waiting
  /\ req' = [req EXCEPT ![r].waiting = FALSE]
  /\ faults' = faults + 1
  /\ lost' = lost + 1
  /\ UNCHANGED <<db, tries, settled>>

(* Requests whose transaction has ended and whose answer is still awaited. *)
Unheard == {r \in Requests : req[r].waiting /\ req[r].pc = "answer"}

(* The server process dies: PostgreSQL rolls every open transaction back,  *)
(* and every answer that was on its way is lost.                           *)
Crash ==
  /\ faults < MaxFaults
  /\ \E r \in Requests : req[r].pc # "idle"
  /\ req' = [r \in Requests |-> Idle]
  /\ faults' = faults + 1
  /\ lost' = lost + Cardinality(Unheard)
  /\ UNCHANGED <<db, tries, settled>>

-----------------------------------------------------------------------------
UseCase(r) == \/ CreateLastMileFulfilment(r)
              \/ HandleFulfilmentCreated(r)
              \/ CreateLastMileShipment(r)
              \/ HandleShipmentCreated(r)
              \/ LoadShipmentToLink(r)
              \/ LinkShipmentToFulfilment(r)
              \/ MarkShipmentReady(r)

Step(r) == UseCase(r) \/ Execute(r) \/ Commit(r) \/ Answer(r)

Fault == \/ \E r \in Requests : ReadFails(r) \/ StatementFails(r) \/ Timeout(r)
         \/ Crash

Next == \/ \E r \in Requests : CallApi(r) \/ Deliver(r) \/ Step(r)
        \/ Fault

Spec == Init /\ [][Next]_vars

(* A request that can go on does.  Deliveries are strongly fair because a  *)
(* slot is a bound of the model: Fastify accepts every connection, so the  *)
(* calls of others cannot keep FlowCatalyst out.                           *)
FairSpec == /\ Spec
            /\ \A r \in Requests : WF_vars(Step(r))
            /\ SF_vars(\E r \in Requests : Deliver(r))

-----------------------------------------------------------------------------
(* What others than FlowCatalyst may send for the tables to show only what *)
(* the process decided (LastMileContract): a route believes its body.      *)
(* shipment:created is answered without a read, fulfilment:created cannot  *)
(* tell a made-up event from the real one; in production both admit only   *)
(* what FlowCatalyst signed (RequestBoundary).  POST /shipments asks for   *)
(* no signature and does not look at the legs of the fulfilment: that      *)
(* clients leave it to the jobs is assumed of them.  So: what others send  *)
(* there is refused by the guards of the use case, or names a tenant that  *)
(* opens no fulfilments.                                                   *)
TenantOf(a)     == ResolveScope(a.header, BodyTenant(a.input))
GuardRefuses(a) == Precheck(a.input, TenantOf(a)) # "ok"
Openers         == {a.header : a \in {x \in ApiRequests : x.input.type = PostFulfilment}}

GenuineShipments ==
  \A a \in ApiRequests : a.input.type = ShipmentCreated => GuardRefuses(a)

Genuine ==
  /\ GenuineShipments
  /\ \A a \in ApiRequests :
       a.input.type = CreateJob => GuardRefuses(a) \/ TenantOf(a) \notin Openers

GenuineCreations ==
  \A a \in ApiRequests :
    a.input.type = FulfilmentCreated => GuardRefuses(a) \/ TenantOf(a) \notin Openers

-----------------------------------------------------------------------------
(* Properties.                                                             *)

Table(name)  == {d \in db : d.table = name}
Fulfilments  == Table("last_mile_fulfilments")
Shipments    == Table("last_mile_shipments")
Outbox       == Table("outbox_messages")
OfType(type) == {m \in Outbox : m.type = type}

(* Type invariant.  A request's identifier is of the kind its input needs. *)
IdKind(in) == CASE in.type = PostFulfilment -> FulfilmentIds
                [] in.type = CreateJob -> ShipmentIds
                [] in.type \in {FulfilmentCreated, ShipmentCreated} -> JobIds
                [] OTHER -> {None}

Outcomes ==
  {"none", "ok", "TENANT_REQUIRED", "TENANT_MISMATCH", "LOCATIONS_NOT_GEOCODED",
   "SOURCE_NOTE_IN_FLIGHT", "FULFILMENT_NOT_FOUND", "SHIPMENT_NOT_FOUND",
   "FULFILMENT_MISMATCH", "SHIPMENT_ALREADY_LINKED", "SHIPMENT_NOT_UNFINALISED",
   "REPO_READ_FAILED", "COMMIT_FAILED", "TX_ABORTED"}

Slot ==
  [pc: {"idle", "run", "link", "write", "close", "answer"}, input: Input \cup {None},
   tenant: Tenants \cup {None}, id: FulfilmentIds \cup ShipmentIds \cup JobIds \cup {None},
   shipment: ShipmentRow \cup {None}, todo: Seq(Row), staged: SUBSET Row,
   waiting: BOOLEAN, outcome: Outcomes]

RequestOK(q) ==
  /\ q.input \in Input /\ q.input.type \in ClientTypes \cup DeliveredTypes
  /\ q.id \in IdKind(q.input)
  /\ q.waiting => q.input \in Message
  /\ q.pc \notin {"close", "answer"} => q.tenant \in Tenants
  /\ q.pc = "link" => q.input.type = LinkJob /\ q.shipment \in ShipmentRow
  /\ q.pc = "write" => q.todo # <<>>

TypeOK ==
  /\ db \in SUBSET Row
  /\ req \in [Requests -> Slot]
  /\ \A r \in Requests : req[r] = Idle \/ (req[r].pc # "idle" /\ RequestOK(req[r]))
  /\ tries \in SUBSET (Message \X (1..MaxAttempts))
  /\ settled \in SUBSET Message
  /\ faults \in 0..MaxFaults
  /\ lost \in Nat

(* No two rows conflict that are committed, or staged by transactions that *)
(* may still commit: what one request decided from a read that is stale by *)
(* now, another cannot contradict (primary keys, lmf_unique_open_source).  *)
RowsCompatible ==
  /\ \A a, b \in db : Conflicts(a, b) => a = b
  /\ \A r \in Requests : \A a \in req[r].staged :
       /\ \A b \in db : ~Conflicts(a, b)
       /\ \A b \in req[r].staged : Conflicts(a, b) => a = b
       /\ \A o \in Requests \ {r} : ~LockedBy(o, a)

(* At most one open fulfilment stands for a tenant's source note, however  *)
(* many creations raced past the uniqueness read (schema                   *)
(* lmf_unique_open_source, create-last-mile-fulfilment use case rule 1).   *)
SourceNoteUnique ==
  \A f, g \in Fulfilments :
    f.tenantId = g.tenantId /\ f.sourceNote = g.sourceNote => f = g

(* The aggregates whose rows can be read back are exactly those announced, *)
(* and every announcement has its local audit row and its audit message,   *)
(* through failing statements, crashes, late answers and creations whose   *)
(* row cannot be read back (unit-of-work.ts: all of them live in one       *)
(* Drizzle transaction; of an unreadable row LastMileIntake's              *)
(* RowHasItsEvent shows that it is committed alone).                       *)
OutboxAtomicity ==
  /\ {f.id : f \in {x \in Fulfilments : Readable(x)}}
       = {m.fulfilmentId : m \in OfType(FulfilmentCreated)}
  /\ {s.id : s \in {x \in Shipments : Readable(x)}}
       = {m.shipmentId : m \in OfType(ShipmentCreated)}
  /\ \A type \in {FulfilmentCreated, ShipmentCreated} :
       /\ {AuditLog(m) : m \in OfType(type)}
            = {a \in Table("audit_logs") : a.operation = type}
       /\ {AuditMessage(m) : m \in OfType(type)} \subseteq Outbox

(* Every dispatch job has an event that records the decision and names it, *)
(* and no decision event names a job that was never emitted (broker.emit   *)
(* and uow.emitEvent commit together).                                     *)
JobHasDecision ==
  \A jobType \in JobTypes :
    LET decision == IF jobType = CreateJob THEN ShipmentRequested ELSE LinkDispatched
    IN  {j.job : j \in OfType(jobType)} = {e.job : e \in OfType(decision)}

(* Nothing committed points at something that is not: a message's          *)
(* fulfilment exists in the message's tenant, its shipment exists and      *)
(* belongs to that fulfilment, and so does every shipment row, whatever    *)
(* client, foreign tenant or stale link job asked for it (a made-up        *)
(* shipment:created, which is believed, needs FlowCatalyst's signature).   *)
ReferencesHold ==
  \A x \in Shipments \cup Outbox :
    /\ \E f \in Fulfilments : f.id = x.fulfilmentId /\ f.tenantId = x.tenantId
    /\ x \in Outbox /\ x.shipmentId # None =>
         \E s \in Shipments : /\ s.id = x.shipmentId
                              /\ s.fulfilmentId = x.fulfilmentId

(* The process asks for a shipment of a geocoded fulfilment only, whatever *)
(* an event delivered to it claims: its own reading decides (handle-last-  *)
(* mile-fulfilment-created use case, "Branch on geo readiness").  POST     *)
(* /shipments, for which it has no such reading, cannot keep a client from *)
(* asking for another.                                                     *)
JobsForGeocodedOnly ==
  \A j \in OfType(CreateJob) :
    \E f \in Fulfilments : /\ f.id = j.fulfilmentId /\ f.tenantId = j.tenantId
                           /\ f.missing = {} /\ Readable(f)

(* What FlowCatalyst was told is done, is done: a 2xx answer is never      *)
(* followed by the loss of its effect.                                     *)
AckImpliesEffect ==
  \A m \in settled :
    /\ m.type = FulfilmentCreated => \E j \in OfType(CreateJob) : j.fulfilmentId = m.fulfilmentId
    /\ m.type = CreateJob => \E s \in Shipments : s.fulfilmentId = m.fulfilmentId
    /\ m.type = ShipmentCreated => \E j \in OfType(LinkJob) : j.shipmentId = m.shipmentId
    /\ m.type = LinkJob => \E f \in Fulfilments : m.shipmentId \in f.linkedShipments

(* Redelivery creates duplicates (no handler looks for an earlier run), but *)
(* only redelivery after a lost answer does: a fulfilment has at most one   *)
(* shipment more than answers were lost, by a timeout or by a crash that    *)
(* took several of them at once.                                            *)
ShipmentsBoundedByLostAnswers ==
  \A f \in Fulfilments :
    Cardinality({s \in Shipments : s.fulfilmentId = f.id}) <= 1 + lost

(* A request that is refused, for whatever reason and however far it got,  *)
(* changes no row, although runWrite commits even when the use case        *)
(* failed; but for one reason: of a row that cannot be read back, that row *)
(* and nothing else is committed.                                          *)
FailureLeavesNoTrace ==
  [][\A r \in Requests :
       req[r].pc = "close" /\ req'[r].pc = "answer" /\ req[r].outcome # "ok" =>
         \/ db' = db
         \/ /\ req[r].outcome = "COMMIT_FAILED"
            /\ \E d \in db' : ~Readable(d) /\ db' = db \cup {d}]_vars

(* With fewer faults than delivery attempts every geocoded fulfilment that *)
(* can be read back gets its shipment.                                     *)
GeocodedGetsShipment ==
  \A id \in FulfilmentIds :
    (\E f \in Fulfilments : f.id = id /\ f.missing = {} /\ Readable(f))
      ~> \E s \in Shipments : s.fulfilmentId = id

(* With fewer faults than delivery attempts every shipment that can be     *)
(* read back gets the job that is to link it to its fulfilment.            *)
ShipmentGetsLinkJob ==
  \A id \in ShipmentIds :
    (\E s \in Shipments : s.id = id /\ Readable(s))
      ~> \E j \in OfType(LinkJob) : j.shipmentId = id

-----------------------------------------------------------------------------
(* The interleaved, failing process commits nothing that the use cases,    *)
(* each run alone in one atomic step, would not have, the row that cannot  *)
(* be read back included.                                                  *)
Contract == INSTANCE LastMileContract WITH
              fulfilments <- Fulfilments, shipments <- Shipments,
              outbox <- Outbox, auditLogs <- Table("audit_logs")

ImplementsContract == Contract!Spec

-----------------------------------------------------------------------------
(* What the documentation says and the code does not do.                   *)

(* One shipment carries the fulfilment's whole cargo, and inbound events   *)
(* are handled once though redelivered (state.ts, lastHandledEventId).     *)
OneShipmentPerFulfilment ==
  \A a, b \in Shipments : a.fulfilmentId = b.fulfilmentId => a = b

(* "Persist or update one aggregate": a use case that changes an existing  *)
(* row is not refused by the database.  Without faults only a creation may *)
(* lose, to another one for its source note.                               *)
UpdatesCommit ==
  \A r \in Requests :
    faults = 0 /\ req[r].outcome = "TX_ABORTED" => req[r].input.type = PostFulfilment
=============================================================================
