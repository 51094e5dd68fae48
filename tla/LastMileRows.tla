---------------------------- MODULE LastMileRows ----------------------------
(***************************************************************************)
(* The two Drizzle repositories of the LastMile domain as pure functions:  *)
(* toRow maps an aggregate to the row an INSERT sends, toAggregate maps a  *)
(* row read back to an aggregate.                                          *)
(*                                                                         *)
(* A date is its instant, or Invalid for JavaScript's Invalid Date.        *)
(* Timestamp columns hold dates.  JSONB columns hold what JSON.stringify   *)
(* makes of a value: an instant becomes an ISO string, [iso |-> instant],  *)
(* and Invalid becomes null.  Columns copied unread in both directions     *)
(* (drop-off, consignee, cargo, metadata...) are one field, carried.       *)
(***************************************************************************)
EXTENDS Integers, Sequences

CONSTANTS None,      \* null, undefined
          Invalid    \* an Invalid Date

Date   == Int \cup {Invalid}
Window == [start: Date, end: Date]

(* An ISO 8601 string, and a window in JSON.                               *)
Iso       == [iso: Int]
IsoWindow == [start: Iso \cup {None}, end: Iso \cup {None}]

ASSUME RowsAssumption == /\ Invalid \notin Int
                         /\ None \notin Date \cup Window \cup Iso \cup IsoWindow

(* The stages of a fulfilment; the payload of a stage other than the first *)
(* has one date (plannedAt, startedAt, deliveredAt...), at, and other      *)
(* fields, rest.                                                           *)
OpenStages     == {"awaiting_planning", "planned", "in_progress"}
TerminalStages == {"delivered", "partially_delivered", "completed_with_exceptions",
                   "failed", "cancelled", "escalated", "abandoned"}
LastMileStage  == OpenStages \cup TerminalStages

ShipmentStatus == {"unfinalised", "ready", "planned", "in_transit", "delivered",
                   "failed", "cancelled", "returned"}

IsState(s) ==
  /\ s = [stage |-> s.stage, at |-> s.at, rest |-> s.rest]
  /\ s.stage \in LastMileStage
  /\ IF s.stage = "awaiting_planning" THEN s.at = None ELSE s.at \in Int

-----------------------------------------------------------------------------
(* JSON and back.                                                          *)

Json(d)     == IF d \in Int THEN [iso |-> d] ELSE None
Unreadable(v) == v = None        \* reviveDate throws a TypeError
ReviveDate(v) == v.iso
ReviveDateOrNull(v) == IF v = None THEN None ELSE ReviveDate(v)

JsonWindow(w) ==
  IF w = None THEN None ELSE [start |-> Json(w.start), end |-> Json(w.end)]

(* The spread that revives a window rebuilds start and end; a point        *)
(* without a window is returned as it is.                                  *)
ReviveCollectionPointDates(cp) ==
  IF cp.collectionWindow = None THEN cp
  ELSE [cp EXCEPT !.collectionWindow =
          [start |-> ReviveDate(cp.collectionWindow.start),
           end   |-> ReviveDate(cp.collectionWindow.end)]]

ReviveLinkedShipmentDates(ls) == [ls EXCEPT !.linkedAt = ReviveDate(ls.linkedAt)]

JsonReaction(r) ==
  [awaitingEventType |-> r.awaitingEventType,
   awaitingDeadline |-> Json(r.awaitingDeadline),
   lastHandledEventId |-> r.lastHandledEventId,
   lastReactionAt |-> Json(r.lastReactionAt)]

(* Mutant of ReviveReactionDates: the deadline is revived twice.            *)
ReviveReactionDatesOneDate(r) ==
  [awaitingEventType |-> r.awaitingEventType,
   awaitingDeadline |-> ReviveDateOrNull(r.awaitingDeadline),
   lastHandledEventId |-> r.lastHandledEventId,
   lastReactionAt |-> ReviveDateOrNull(r.awaitingDeadline)]

ReviveReactionDates(r) ==
  [awaitingEventType |-> r.awaitingEventType,
   awaitingDeadline |-> ReviveDateOrNull(r.awaitingDeadline),
   lastHandledEventId |-> r.lastHandledEventId,
   lastReactionAt |-> ReviveDateOrNull(r.lastReactionAt)]

ReviveStatePayloadDates(s) ==
  IF s.stage = "awaiting_planning" THEN s ELSE [s EXCEPT !.at = ReviveDate(s.at)]

(* The flat columns a stage fills.                                         *)
ExtractPlannedAt(s)    == IF s.stage = "planned" THEN s.at ELSE None
ExtractDeliveredAt(s)  == IF s.stage = "delivered" THEN s.at ELSE None
ExtractTerminatedAt(s) ==
  IF s.stage \in {"delivered", "partially_delivered", "completed_with_exceptions",
                  "failed", "cancelled", "escalated", "abandoned"}
  THEN s.at ELSE None

-----------------------------------------------------------------------------
(* last_mile_fulfilments.                                                  *)

FulfilmentToRow(a) ==
  [id |-> a.id, tenantId |-> a.tenantId,
   sourceNoteSystem |-> a.sourceNote.system, sourceNoteType |-> a.sourceNote.type,
   sourceNoteNumber |-> a.sourceNote.number,
   sourceNoteRevision |-> a.sourceNote.revision,
   orderRefSystem |-> IF a.orderRef = None THEN None ELSE a.orderRef.system,
   orderRefNumber |-> IF a.orderRef = None THEN None ELSE a.orderRef.number,
   stage |-> a.state.stage,
   statePayload |-> [a.state EXCEPT !.at = Json(a.state.at)],
   collection |-> [a.collection EXCEPT
                     !.collectionWindow = JsonWindow(a.collection.collectionWindow)],
   promisedWindowStart |-> a.promisedWindow.start,
   promisedWindowEnd |-> a.promisedWindow.end,
   linkedShipments |-> [i \in DOMAIN a.linkedShipments |->
       [a.linkedShipments[i] EXCEPT !.linkedAt = Json(a.linkedShipments[i].linkedAt)]],
   reaction |-> JsonReaction(a.reaction),
   plannedAt |-> ExtractPlannedAt(a.state),
   deliveredAt |-> ExtractDeliveredAt(a.state),
   terminatedAt |-> ExtractTerminatedAt(a.state),
   carried |-> a.carried, version |-> a.version,
   createdAt |-> a.createdAt, updatedAt |-> a.updatedAt]

FulfilmentToAggregate(row) ==
  [id |-> row.id, tenantId |-> row.tenantId,
   sourceNote |-> [system |-> row.sourceNoteSystem, type |-> row.sourceNoteType,
                   number |-> row.sourceNoteNumber, revision |-> row.sourceNoteRevision],
   orderRef |-> IF row.orderRefSystem # None /\ row.orderRefNumber # None
                THEN [system |-> row.orderRefSystem, number |-> row.orderRefNumber]
                ELSE None,
   collection |-> ReviveCollectionPointDates(row.collection),
   promisedWindow |-> [start |-> row.promisedWindowStart, end |-> row.promisedWindowEnd],
   linkedShipments |-> [i \in DOMAIN row.linkedShipments |->
                          ReviveLinkedShipmentDates(row.linkedShipments[i])],
   state |-> ReviveStatePayloadDates(row.statePayload),
   reaction |-> ReviveReactionDates(row.reaction),
   carried |-> row.carried, version |-> row.version,
   createdAt |-> row.createdAt, updatedAt |-> row.updatedAt]

-----------------------------------------------------------------------------
(* last_mile_shipments.                                                    *)

ShipmentToRow(a) ==
  [id |-> a.id, tenantId |-> a.tenantId, fulfilmentId |-> a.fulfilmentId,
   collection |-> [a.collection EXCEPT
                     !.collectionWindow = JsonWindow(a.collection.collectionWindow)],
   promisedWindowStart |-> a.promisedWindow.start,
   promisedWindowEnd |-> a.promisedWindow.end,
   tripId |-> IF a.trip = None THEN None ELSE a.trip.tripId,
   status |-> a.status, carried |-> a.carried, version |-> a.version,
   createdAt |-> a.createdAt, updatedAt |-> a.updatedAt]

ShipmentToAggregate(row) ==
  [id |-> row.id, tenantId |-> row.tenantId, fulfilmentId |-> row.fulfilmentId,
   collection |-> ReviveCollectionPointDates(row.collection),
   promisedWindow |-> [start |-> row.promisedWindowStart, end |-> row.promisedWindowEnd],
   trip |-> IF row.tripId = None THEN None ELSE [tripId |-> row.tripId],
   status |-> row.status, carried |-> row.carried, version |-> row.version,
   createdAt |-> row.createdAt, updatedAt |-> row.updatedAt]

-----------------------------------------------------------------------------
(* Where the mapping throws.                                               *)

(* Before the INSERT is sent: a timestamp column maps its value with       *)
(* toISOString, a RangeError for an Invalid Date.                          *)
Sendable(row) ==
  /\ row.promisedWindowStart # Invalid /\ row.promisedWindowEnd # Invalid
  /\ row.createdAt # Invalid /\ row.updatedAt # Invalid

(* After the INSERT has returned its row: reviveDate finds a null where    *)
(* the aggregate must have a date.                                         *)
WindowReadable(w) == w = None \/ ~(Unreadable(w.start) \/ Unreadable(w.end))

FulfilmentReadable(row) ==
  /\ WindowReadable(row.collection.collectionWindow)
  /\ \A i \in DOMAIN row.linkedShipments : ~Unreadable(row.linkedShipments[i].linkedAt)
  /\ row.statePayload.stage = "awaiting_planning" \/ ~Unreadable(row.statePayload.at)

ShipmentReadable(row) == WindowReadable(row.collection.collectionWindow)

(* Mutant of HoldsSameNote: the index without its WHERE clause.             *)
HoldsSameNoteEver(r, s) ==
  /\ r.tenantId = s.tenantId
  /\ r.sourceNoteSystem = s.sourceNoteSystem /\ r.sourceNoteType = s.sourceNoteType
  /\ r.sourceNoteNumber = s.sourceNoteNumber

(* The partial unique index lmf_unique_open_source.                        *)
HoldsSameNote(r, s) ==
  /\ r.terminatedAt = None /\ s.terminatedAt = None
  /\ r.tenantId = s.tenantId
  /\ r.sourceNoteSystem = s.sourceNoteSystem /\ r.sourceNoteType = s.sourceNoteType
  /\ r.sourceNoteNumber = s.sourceNoteNumber

-----------------------------------------------------------------------------
(* Aggregates whose every date is valid: what the type Date promises and   *)
(* an Invalid Date breaks.                                                 *)
IsWindow(w) == /\ w = [start |-> w.start, end |-> w.end]
               /\ w.start \in Int /\ w.end \in Int
IsPoint(cp) == /\ cp = [place |-> cp.place, collectionWindow |-> cp.collectionWindow]
               /\ cp.collectionWindow = None \/ IsWindow(cp.collectionWindow)

IsFulfilment(a) ==
  /\ a = [id |-> a.id, tenantId |-> a.tenantId, sourceNote |-> a.sourceNote,
          orderRef |-> a.orderRef, collection |-> a.collection,
          promisedWindow |-> a.promisedWindow, linkedShipments |-> a.linkedShipments,
          state |-> a.state, reaction |-> a.reaction, carried |-> a.carried,
          version |-> a.version, createdAt |-> a.createdAt, updatedAt |-> a.updatedAt]
  /\ LET n == a.sourceNote
     IN  n = [system |-> n.system, type |-> n.type, number |-> n.number, revision |-> n.revision]
  /\ \/ a.orderRef = None
     \/ /\ a.orderRef = [system |-> a.orderRef.system, number |-> a.orderRef.number]
        /\ a.orderRef.system # None /\ a.orderRef.number # None
  /\ IsPoint(a.collection) /\ IsWindow(a.promisedWindow)
  /\ a.linkedShipments = [i \in DOMAIN a.linkedShipments |-> a.linkedShipments[i]]
  /\ \A i \in DOMAIN a.linkedShipments :
       LET l == a.linkedShipments[i]
       IN  l = [shipment |-> l.shipment, linkedAt |-> l.linkedAt] /\ l.linkedAt \in Int
  /\ IsState(a.state)
  /\ LET r == a.reaction
     IN  /\ r = [awaitingEventType |-> r.awaitingEventType,
                 awaitingDeadline |-> r.awaitingDeadline,
                 lastHandledEventId |-> r.lastHandledEventId,
                 lastReactionAt |-> r.lastReactionAt]
         /\ r.awaitingDeadline \in Int \cup {None} /\ r.lastReactionAt \in Int \cup {None}
  /\ a.createdAt \in Int /\ a.updatedAt \in Int

IsShipment(a) ==
  /\ a = [id |-> a.id, tenantId |-> a.tenantId, fulfilmentId |-> a.fulfilmentId,
          collection |-> a.collection, promisedWindow |-> a.promisedWindow,
          trip |-> a.trip, status |-> a.status, carried |-> a.carried,
          version |-> a.version, createdAt |-> a.createdAt, updatedAt |-> a.updatedAt]
  /\ IsPoint(a.collection) /\ IsWindow(a.promisedWindow)
  /\ a.trip = None \/ (a.trip = [tripId |-> a.trip.tripId] /\ a.trip.tripId # None)
  /\ a.createdAt \in Int /\ a.updatedAt \in Int

-----------------------------------------------------------------------------
(* Storing an aggregate and reading it back gives the same aggregate:      *)
(* every date that went into JSONB as a string comes back as a date, and   *)
(* no column is lost or swapped.                                           *)
FulfilmentSurvives(a) ==
  LET row == FulfilmentToRow(a)
  IN  Sendable(row) /\ FulfilmentReadable(row) /\ FulfilmentToAggregate(row) = a

ShipmentSurvives(a) ==
  LET row == ShipmentToRow(a)
  IN  Sendable(row) /\ ShipmentReadable(row) /\ ShipmentToAggregate(row) = a

SameNote(a, row) ==
  /\ a.tenantId = row.tenantId /\ a.sourceNote.system = row.sourceNoteSystem
  /\ a.sourceNote.type = row.sourceNoteType /\ a.sourceNote.number = row.sourceNoteNumber
=============================================================================
