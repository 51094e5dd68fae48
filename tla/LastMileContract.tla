--------------------------- MODULE LastMileContract ---------------------------
(***************************************************************************)
(* What the LastMile use cases promise, each as a single atomic step on    *)
(* the committed tables: no transactions, no stale reads, no deliveries,   *)
(* no faults.  LastMileProcess implements it.                              *)
(*                                                                         *)
(* An aggregate appears together with its event and its audit rows, or     *)
(* alone where its row cannot be read back; a dispatch job together with   *)
(* the event that records the decision.  Nothing else ever changes: no     *)
(* step updates or removes a row.                                          *)
(***************************************************************************)
EXTENDS LastMileDomain

VARIABLES fulfilments, shipments, outbox, auditLogs

vars == <<fulfilments, shipments, outbox, auditLogs>>

Init == /\ fulfilments = {}
        /\ shipments = {}
        /\ outbox = {}
        /\ auditLogs = {}

Record(event) == /\ outbox' = outbox \cup {event, AuditMessage(event)}
                 /\ auditLogs' = auditLogs \cup {AuditLog(event)}

Emit(job, decision) ==
  /\ \A m \in outbox : m.job # job.job
  /\ outbox' = outbox \cup {job, DecisionEvent(decision, job)}
  /\ UNCHANGED <<fulfilments, shipments, auditLogs>>

(* A fulfilment row for a source note that has none open.                  *)
OpenFulfilment(f) ==
  /\ f.linkedShipments = {} /\ ~f.awaiting
  /\ \A g \in fulfilments : ~Conflicts(g, f)
  /\ fulfilments' = fulfilments \cup {f}
  /\ UNCHANGED shipments

(* A tenant opens a fulfilment.                                            *)
CreateFulfilment(f) ==
  /\ Readable(f)
  /\ OpenFulfilment(f)
  /\ Record(FulfilmentEvent(FulfilmentCreated, f))

(* The row of a fulfilment that cannot be read back stays, unannounced.    *)
StrandFulfilment(f) ==
  /\ ~Readable(f)
  /\ OpenFulfilment(f)
  /\ UNCHANGED <<outbox, auditLogs>>

(* The process asks for a shipment of a geocoded fulfilment.               *)
RequestShipment(f, job) ==
  /\ f.missing = {} /\ Readable(f)
  /\ Emit(CreateShipmentJob(job, f), ShipmentRequested)

(* A shipment is born of a job that asked for it.                          *)
CreateShipment(j, id) ==
  /\ j.type = CreateJob
  /\ \A s \in shipments : s.id # id
  /\ LET s == ShipmentCreate(id, j.tenantId, j)
     IN  /\ shipments' = shipments \cup {s}
         /\ Record(ShipmentEvent(ShipmentCreated, s))
  /\ UNCHANGED fulfilments

(* The process asks for the shipment to be linked to its fulfilment.       *)
RequestLink(s, job) ==
  Emit(LinkShipmentJob(job, ShipmentEvent(ShipmentCreated, s)), LinkDispatched)

Next == \/ \E f \in FulfilmentRow : CreateFulfilment(f) \/ StrandFulfilment(f)
        \/ \E f \in fulfilments, job \in JobIds : RequestShipment(f, job)
        \/ \E j \in outbox, id \in ShipmentIds : CreateShipment(j, id)
        \/ \E s \in shipments, job \in JobIds : RequestLink(s, job)

Spec == Init /\ [][Next]_vars
=============================================================================
