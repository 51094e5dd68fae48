--------------------------- MODULE LastMileDomain ---------------------------
(***************************************************************************)
(* The LastMile aggregates, events and dispatch jobs as rows of the four   *)
(* tables a write transaction touches, and the pure functions of the       *)
(* domain layer (packages/server/src/domain/lastmile) that produce them.   *)
(*                                                                         *)
(* Data is kept to what the process tells apart: a source note and the     *)
(* identifiers are atoms, a location leg is either geocoded or missing, a  *)
(* collection window is one that can be read back from its JSONB column or *)
(* not (leap: an end of it is a leap second, which Date turns into null);  *)
(* cargo, consignee and the promised window are carried unread and left    *)
(* out.  Every row is tagged with the table it belongs to.                 *)
(***************************************************************************)

CONSTANTS Tenants, Notes,                      \* tenant ids, source-note references
          FulfilmentIds, ShipmentIds, JobIds,  \* generated TSIDs
          None                                 \* a null column, an absent header

ASSUME DomainAssumption ==
  None \notin Tenants \cup Notes \cup FulfilmentIds \cup ShipmentIds \cup JobIds

Legs == {"collection", "dropOff"}

(* Event types and dispatch-job codes.                                     *)
FulfilmentCreated == "fulfil:lastmile:fulfilment:created"
ShipmentRequested == "fulfil:lastmile:fulfilment:shipment-requested"
AwaitingGeocoding == "fulfil:lastmile:fulfilment:awaiting-geocoding"
LinkDispatched    == "fulfil:lastmile:fulfilment:shipment-link-dispatched"
ShipmentLinked    == "fulfil:lastmile:fulfilment:shipment-linked"
ShipmentCreated   == "fulfil:lastmile:shipment:created"
ShipmentReady     == "fulfil:lastmile:shipment:ready"
OutboxAudit       == "AUDIT_LOG"
CreateJob         == "fulfil:lastmile:shipment:create"
LinkJob           == "fulfil:lastmile:fulfilment:link-shipment"

EventTypes == {FulfilmentCreated, ShipmentRequested, AwaitingGeocoding,
               LinkDispatched, ShipmentLinked, ShipmentCreated, ShipmentReady}
JobTypes   == {CreateJob, LinkJob}

FulfilmentRow ==
  [table: {"last_mile_fulfilments"}, id: FulfilmentIds, tenantId: Tenants,
   sourceNote: Notes, missing: SUBSET Legs, leap: BOOLEAN,
   linkedShipments: SUBSET ShipmentIds, awaiting: BOOLEAN]

ShipmentRow ==
  [table: {"last_mile_shipments"}, id: ShipmentIds, tenantId: Tenants,
   fulfilmentId: FulfilmentIds, leap: BOOLEAN, status: {"unfinalised", "ready"}]

AuditRow ==
  [table: {"audit_logs"}, operation: EventTypes,
   entityId: FulfilmentIds \cup ShipmentIds]

(* An outbox message: a domain event, a dispatch job or an audit message.  *)
Message ==
  [table: {"outbox_messages"}, type: EventTypes \cup JobTypes \cup {OutboxAudit},
   tenantId: Tenants, fulfilmentId: FulfilmentIds, shipmentId: ShipmentIds \cup {None},
   job: JobIds \cup {None}, missing: SUBSET Legs, leap: BOOLEAN]

Row == FulfilmentRow \cup ShipmentRow \cup AuditRow \cup Message

AggregateTables == {"last_mile_fulfilments", "last_mile_shipments"}

(* toAggregate can map the row back: reviveDate throws on the null that a  *)
(* leap second leaves in the collection column.                            *)
Readable(row) == row.table \in AggregateTables => ~row.leap

(* Mutant of Conflicts: the schema without its partial unique index.        *)
ConflictsByKeyOnly(a, b) ==
  /\ a.table = b.table
  /\ a.table \in AggregateTables
  /\ a.id = b.id

(* Two rows that a primary key or the partial unique index on open source  *)
(* notes keeps from standing side by side.  No operation sets              *)
(* terminated_at, so every fulfilment row is open.  Audit and outbox rows  *)
(* carry a fresh TSID of their own and conflict with nothing.              *)
Conflicts(a, b) ==
  /\ a.table = b.table
  /\ \/ a.table \in AggregateTables /\ a.id = b.id
     \/ /\ a.table = "last_mile_fulfilments"
        /\ a.tenantId = b.tenantId
        /\ a.sourceNote = b.sourceNote

-----------------------------------------------------------------------------
(* Aggregates.                                                             *)

FulfilmentCreate(id, tenantId, in) ==
  [table |-> "last_mile_fulfilments", id |-> id, tenantId |-> tenantId,
   sourceNote |-> in.sourceNote, missing |-> in.missing, leap |-> in.leap,
   linkedShipments |-> {}, awaiting |-> FALSE]

LinkShipment(f, shipmentId) ==
  [f EXCEPT !.linkedShipments = @ \cup {shipmentId}, !.awaiting = FALSE]

IsShipmentLinked(f, shipmentId) == shipmentId \in f.linkedShipments

ScheduleReaction(f) == [f EXCEPT !.awaiting = TRUE]

ShipmentCreate(id, tenantId, in) ==
  [table |-> "last_mile_shipments", id |-> id, tenantId |-> tenantId,
   fulfilmentId |-> in.fulfilmentId, leap |-> in.leap, status |-> "unfinalised"]

MarkReady(s) == [s EXCEPT !.status = "ready"]

-----------------------------------------------------------------------------
(* Outbox messages and the local audit row of an event.                    *)

OutboxMessage(type, tenantId, fulfilmentId, shipmentId, job, missing, leap) ==
  [table |-> "outbox_messages", type |-> type, tenantId |-> tenantId,
   fulfilmentId |-> fulfilmentId, shipmentId |-> shipmentId, job |-> job,
   missing |-> missing, leap |-> leap]

FulfilmentEvent(type, f) ==
  OutboxMessage(type, f.tenantId, f.id, None, None, f.missing, f.leap)

ShipmentEvent(type, s) ==
  OutboxMessage(type, s.tenantId, s.fulfilmentId, s.id, None, {}, s.leap)

(* The job that asks POST /shipments for a shipment of f, and the event    *)
(* that records the decision and names the job.                            *)
CreateShipmentJob(job, f) ==
  OutboxMessage(CreateJob, f.tenantId, f.id, None, job, f.missing, f.leap)

(* The job that asks POST /fulfilments/:id/link-shipment to link the       *)
(* shipment a shipment:created event e announces.                          *)
LinkShipmentJob(job, e) ==
  OutboxMessage(LinkJob, e.tenantId, e.fulfilmentId, e.shipmentId, job, {}, FALSE)

(* shipment-linked of fulfilment f.                                        *)
LinkedEvent(f, shipmentId) ==
  OutboxMessage(ShipmentLinked, f.tenantId, f.id, shipmentId, None, {}, FALSE)

DecisionEvent(type, j) == [j EXCEPT !.type = type]

(* The audit message the SDK puts in the outbox beside a committed event.  *)
AuditMessage(e) == [e EXCEPT !.type = OutboxAudit]

(* entity_type / entity_id come from the event's subject: the shipment of  *)
(* a shipment event, the fulfilment of every other.                        *)
AuditLog(e) ==
  [table |-> "audit_logs", operation |-> e.type,
   entityId |-> IF e.type \in {ShipmentCreated, ShipmentReady}
                THEN e.shipmentId ELSE e.fulfilmentId]
=============================================================================
