------------------------ MODULE LastMileIntake_proofs ------------------------
(***************************************************************************)
(* Proofs about the intake, in six parts: the row mapping of LastMileRows  *)
(* and its partial unique index; the events of the rows that can be read;  *)
(* paths and schemas, and what a second validation does to what has been   *)
(* validated before; where every record of the database comes from, which  *)
(* gives the coherence of cargo and the snapshots that shipments are; what *)
(* is stored of what the schemas accept: every job, and every body but for *)
(* what no schema states; and the two copies of the create body's schema.  *)
(***************************************************************************)
EXTENDS LastMileIntake, SequenceTheorems, FiniteSetTheorems, TLAPS

(* A valid date comes back from JSON as it went in, and is not null.        *)
LEMMA DateRoundTrip ==
  ASSUME NEW d \in Int
  PROVE  /\ Json(d) \in Iso
         /\ ~Unreadable(Json(d))
         /\ ReviveDate(Json(d)) = d
<1>1. Json(d) = [iso |-> d]
  BY DEF Json
<1>2. Json(d).iso = d /\ Json(d) \in Iso
  BY <1>1 DEF Iso
<1> QED
  BY <1>2, RowsAssumption DEF Unreadable, ReviveDate

(* So does a date that may be missing.                                     *)
LEMMA DateOrNullRoundTrip ==
  ASSUME NEW d \in Int \cup {None}
  PROVE  ReviveDateOrNull(Json(d)) = d
<1>1. CASE d = None
  BY <1>1, RowsAssumption DEF Date, Json, ReviveDateOrNull
<1>2. CASE d \in Int
  BY <1>2, DateRoundTrip DEF Unreadable, ReviveDateOrNull
<1> QED
  BY <1>1, <1>2

(* A collection point with or without a window.                            *)
LEMMA PointRoundTrip ==
  ASSUME NEW cp, IsPoint(cp)
  PROVE  LET stored == [cp EXCEPT !.collectionWindow = JsonWindow(cp.collectionWindow)]
         IN  /\ WindowReadable(stored.collectionWindow)
             /\ ReviveCollectionPointDates(stored) = cp
<1> DEFINE w == cp.collectionWindow
           stored == [cp EXCEPT !.collectionWindow = JsonWindow(w)]
<1>1. cp = [place |-> cp.place, collectionWindow |-> w]
  BY DEF IsPoint
<1>2. stored = [place |-> cp.place, collectionWindow |-> JsonWindow(w)]
  BY <1>1
<1>3. CASE w = None
  BY <1>1, <1>2, <1>3 DEF JsonWindow, WindowReadable, ReviveCollectionPointDates
<1>4. CASE w # None
  <2>1. w = [start |-> w.start, end |-> w.end] /\ w.start \in Int /\ w.end \in Int
    BY <1>4 DEF IsPoint, IsWindow
  <2> DEFINE j == [start |-> Json(w.start), end |-> Json(w.end)]
  <2>2. JsonWindow(w) = j
    BY <1>4 DEF JsonWindow
  <2>3. j \in IsoWindow /\ j # None
    BY <2>1, DateRoundTrip, RowsAssumption DEF IsoWindow
  <2>4. ~Unreadable(j.start) /\ ~Unreadable(j.end)
    BY <2>1, DateRoundTrip
  <2>5. ReviveDate(j.start) = w.start /\ ReviveDate(j.end) = w.end
    BY <2>1, DateRoundTrip
  <2>6. stored.collectionWindow = j
    BY <1>2, <2>2
  <2>7. ReviveCollectionPointDates(stored) =
          [stored EXCEPT !.collectionWindow =
             [start |-> ReviveDate(j.start), end |-> ReviveDate(j.end)]]
    BY <2>3, <2>6 DEF ReviveCollectionPointDates
  <2>8. ReviveCollectionPointDates(stored) = [place |-> cp.place, collectionWindow |-> w]
    BY <1>2, <2>1, <2>5, <2>7
  <2> QED
    BY <1>1, <2>4, <2>6, <2>8 DEF WindowReadable
<1> QED
  BY <1>3, <1>4

(* The payload of every stage.                                             *)
LEMMA StateRoundTrip ==
  ASSUME NEW s, IsState(s)
  PROVE  LET stored == [s EXCEPT !.at = Json(s.at)]
         IN  /\ stored.stage = "awaiting_planning" \/ ~Unreadable(stored.at)
             /\ ReviveStatePayloadDates(stored) = s
<1> DEFINE stored == [s EXCEPT !.at = Json(s.at)]
<1>1. s = [stage |-> s.stage, at |-> s.at, rest |-> s.rest]
  BY DEF IsState
<1>2. stored = [stage |-> s.stage, at |-> Json(s.at), rest |-> s.rest]
  BY <1>1
<1>3. CASE s.stage = "awaiting_planning"
  <2>1. s.at = None /\ Json(None) = None
    BY <1>3, RowsAssumption DEF Date, IsState, Json
  <2> QED
    BY <1>1, <1>2, <1>3, <2>1 DEF ReviveStatePayloadDates
<1>4. CASE s.stage # "awaiting_planning"
  <2>1. s.at \in Int
    BY <1>4 DEF IsState
  <2>2. ~Unreadable(stored.at) /\ ReviveDate(stored.at) = s.at
    BY <1>2, <2>1, DateRoundTrip
  <2>3. ReviveStatePayloadDates(stored) = [stored EXCEPT !.at = ReviveDate(stored.at)]
    BY <1>2, <1>4 DEF ReviveStatePayloadDates
  <2>4. ReviveStatePayloadDates(stored) = [stage |-> s.stage, at |-> s.at, rest |-> s.rest]
    BY <1>2, <2>2, <2>3
  <2> QED
    BY <1>1, <2>2, <2>4
<1> QED
  BY <1>3, <1>4

(* The bookkeeping of the reaction.                                        *)
LEMMA ReactionRoundTrip ==
  ASSUME NEW r,
         r = [awaitingEventType |-> r.awaitingEventType,
              awaitingDeadline |-> r.awaitingDeadline,
              lastHandledEventId |-> r.lastHandledEventId,
              lastReactionAt |-> r.lastReactionAt],
         r.awaitingDeadline \in Int \cup {None}, r.lastReactionAt \in Int \cup {None}
  PROVE  ReviveReactionDates(JsonReaction(r)) = r
<1> DEFINE stored == JsonReaction(r)
<1>1. /\ stored.awaitingEventType = r.awaitingEventType
      /\ stored.awaitingDeadline = Json(r.awaitingDeadline)
      /\ stored.lastHandledEventId = r.lastHandledEventId
      /\ stored.lastReactionAt = Json(r.lastReactionAt)
  BY DEF JsonReaction
<1>2. /\ ReviveDateOrNull(stored.awaitingDeadline) = r.awaitingDeadline
      /\ ReviveDateOrNull(stored.lastReactionAt) = r.lastReactionAt
  BY <1>1, DateOrNullRoundTrip
<1> HIDE DEF stored
<1>3. ReviveReactionDates(stored) =
        [awaitingEventType |-> r.awaitingEventType,
         awaitingDeadline |-> r.awaitingDeadline,
         lastHandledEventId |-> r.lastHandledEventId,
         lastReactionAt |-> r.lastReactionAt]
  BY <1>1, <1>2 DEF ReviveReactionDates
<1> QED
  BY <1>3 DEF stored

(* Every entry of linkedShipments.                                         *)
LEMMA LinkedRoundTrip ==
  ASSUME NEW ls, ls = [i \in DOMAIN ls |-> ls[i]],
         \A i \in DOMAIN ls : /\ ls[i] = [shipment |-> ls[i].shipment, linkedAt |-> ls[i].linkedAt]
                              /\ ls[i].linkedAt \in Int
  PROVE  LET stored == [i \in DOMAIN ls |-> [ls[i] EXCEPT !.linkedAt = Json(ls[i].linkedAt)]]
         IN  /\ \A i \in DOMAIN stored : ~Unreadable(stored[i].linkedAt)
             /\ [i \in DOMAIN stored |-> ReviveLinkedShipmentDates(stored[i])] = ls
<1> DEFINE stored == [i \in DOMAIN ls |-> [ls[i] EXCEPT !.linkedAt = Json(ls[i].linkedAt)]]
<1>1. ASSUME NEW i \in DOMAIN ls
      PROVE  /\ ~Unreadable(stored[i].linkedAt)
             /\ ReviveLinkedShipmentDates(stored[i]) = ls[i]
  <2> DEFINE l == ls[i]
  <2>1. l = [shipment |-> l.shipment, linkedAt |-> l.linkedAt] /\ l.linkedAt \in Int
    OBVIOUS
  <2>2. stored[i] = [shipment |-> l.shipment, linkedAt |-> Json(l.linkedAt)]
    BY <2>1
  <2>3. ~Unreadable(stored[i].linkedAt) /\ ReviveDate(stored[i].linkedAt) = l.linkedAt
    BY <2>1, <2>2, DateRoundTrip
  <2>4. ReviveLinkedShipmentDates(stored[i]) = [shipment |-> l.shipment, linkedAt |-> l.linkedAt]
    BY <2>2, <2>3 DEF ReviveLinkedShipmentDates
  <2> QED
    BY <2>1, <2>3, <2>4
<1>2. DOMAIN stored = DOMAIN ls
  OBVIOUS
<1>3. [i \in DOMAIN stored |-> ReviveLinkedShipmentDates(stored[i])] = [i \in DOMAIN ls |-> ls[i]]
  BY <1>1, <1>2
<1> QED
  BY <1>1, <1>2, <1>3

(* A fulfilment survives its row.                                          *)
LEMMA FulfilmentRoundTrip ==
  ASSUME NEW a, IsFulfilment(a)
  PROVE  FulfilmentSurvives(a)
<1> DEFINE row == FulfilmentToRow(a)
           point == [a.collection EXCEPT !.collectionWindow = JsonWindow(a.collection.collectionWindow)]
           state == [a.state EXCEPT !.at = Json(a.state.at)]
           reaction == JsonReaction(a.reaction)
           links == [i \in DOMAIN a.linkedShipments |->
                       [a.linkedShipments[i] EXCEPT !.linkedAt = Json(a.linkedShipments[i].linkedAt)]]
<1>1. /\ row.id = a.id /\ row.tenantId = a.tenantId /\ row.carried = a.carried
      /\ row.version = a.version /\ row.createdAt = a.createdAt /\ row.updatedAt = a.updatedAt
      /\ row.promisedWindowStart = a.promisedWindow.start
      /\ row.promisedWindowEnd = a.promisedWindow.end
      /\ row.collection = point /\ row.statePayload = state
      /\ row.reaction = reaction /\ row.linkedShipments = links
  BY DEF FulfilmentToRow
<1>2. /\ row.sourceNoteSystem = a.sourceNote.system /\ row.sourceNoteType = a.sourceNote.type
      /\ row.sourceNoteNumber = a.sourceNote.number
      /\ row.sourceNoteRevision = a.sourceNote.revision
      /\ row.orderRefSystem = IF a.orderRef = None THEN None ELSE a.orderRef.system
      /\ row.orderRefNumber = IF a.orderRef = None THEN None ELSE a.orderRef.number
  BY DEF FulfilmentToRow
<1>3. WindowReadable(point.collectionWindow) /\ ReviveCollectionPointDates(point) = a.collection
  BY PointRoundTrip DEF IsFulfilment
<1>4. /\ state.stage = "awaiting_planning" \/ ~Unreadable(state.at)
      /\ ReviveStatePayloadDates(state) = a.state
  BY StateRoundTrip DEF IsFulfilment
<1>5. ReviveReactionDates(reaction) = a.reaction
  BY ReactionRoundTrip DEF IsFulfilment
<1>6. /\ \A i \in DOMAIN links : ~Unreadable(links[i].linkedAt)
      /\ [i \in DOMAIN links |-> ReviveLinkedShipmentDates(links[i])] = a.linkedShipments
  BY LinkedRoundTrip DEF IsFulfilment
<1> HIDE DEF row, point, state, reaction, links
<1>7. Sendable(row)
  BY <1>1, RowsAssumption DEF Sendable, IsFulfilment, IsWindow
<1>8. FulfilmentReadable(row)
  BY <1>1, <1>3, <1>4, <1>6 DEF FulfilmentReadable
<1> DEFINE orderRef == IF row.orderRefSystem # None /\ row.orderRefNumber # None
                       THEN [system |-> row.orderRefSystem, number |-> row.orderRefNumber]
                       ELSE None
<1>9. orderRef = a.orderRef
  BY <1>2 DEF IsFulfilment
<1>10. [system |-> row.sourceNoteSystem, type |-> row.sourceNoteType,
        number |-> row.sourceNoteNumber, revision |-> row.sourceNoteRevision] = a.sourceNote
  BY <1>2 DEF IsFulfilment
<1>11. [start |-> row.promisedWindowStart, end |-> row.promisedWindowEnd] = a.promisedWindow
  BY <1>1 DEF IsFulfilment, IsWindow
<1> HIDE DEF orderRef
<1>12. FulfilmentToAggregate(row) =
         [id |-> a.id, tenantId |-> a.tenantId, sourceNote |-> a.sourceNote,
          orderRef |-> a.orderRef, collection |-> a.collection,
          promisedWindow |-> a.promisedWindow, linkedShipments |-> a.linkedShipments,
          state |-> a.state, reaction |-> a.reaction, carried |-> a.carried,
          version |-> a.version, createdAt |-> a.createdAt, updatedAt |-> a.updatedAt]
  BY <1>1, <1>3, <1>4, <1>5, <1>6, <1>9, <1>10, <1>11 DEF FulfilmentToAggregate, orderRef
<1> QED
  BY <1>7, <1>8, <1>12 DEF IsFulfilment, FulfilmentSurvives, row

(* A shipment survives its row.                                            *)
LEMMA ShipmentRoundTrip ==
  ASSUME NEW a, IsShipment(a)
  PROVE  ShipmentSurvives(a)
<1> DEFINE row == ShipmentToRow(a)
           point == [a.collection EXCEPT !.collectionWindow = JsonWindow(a.collection.collectionWindow)]
<1>1. /\ row.id = a.id /\ row.tenantId = a.tenantId /\ row.fulfilmentId = a.fulfilmentId
      /\ row.carried = a.carried /\ row.status = a.status
      /\ row.version = a.version /\ row.createdAt = a.createdAt /\ row.updatedAt = a.updatedAt
      /\ row.promisedWindowStart = a.promisedWindow.start
      /\ row.promisedWindowEnd = a.promisedWindow.end
      /\ row.collection = point
      /\ row.tripId = IF a.trip = None THEN None ELSE a.trip.tripId
  BY DEF ShipmentToRow
<1>2. WindowReadable(point.collectionWindow) /\ ReviveCollectionPointDates(point) = a.collection
  BY PointRoundTrip DEF IsShipment
<1> HIDE DEF row, point
<1>3. Sendable(row)
  BY <1>1, RowsAssumption DEF Sendable, IsShipment, IsWindow
<1>4. ShipmentReadable(row)
  BY <1>1, <1>2 DEF ShipmentReadable
<1>5. (IF row.tripId = None THEN None ELSE [tripId |-> row.tripId]) = a.trip
  BY <1>1 DEF IsShipment
<1>6. [start |-> row.promisedWindowStart, end |-> row.promisedWindowEnd] = a.promisedWindow
  BY <1>1 DEF IsShipment, IsWindow
<1>7. ShipmentToAggregate(row) =
        [id |-> a.id, tenantId |-> a.tenantId, fulfilmentId |-> a.fulfilmentId,
         collection |-> a.collection, promisedWindow |-> a.promisedWindow,
         trip |-> a.trip, status |-> a.status, carried |-> a.carried,
         version |-> a.version, createdAt |-> a.createdAt, updatedAt |-> a.updatedAt]
  BY <1>1, <1>2, <1>5, <1>6 DEF ShipmentToAggregate
<1> QED
  BY <1>3, <1>4, <1>7 DEF IsShipment, ShipmentSurvives, row

-----------------------------------------------------------------------------

(* terminated_at is null exactly in the open stages.                       *)
LEMMA TerminatedAtOfStage ==
  ASSUME NEW s, IsState(s)
  PROVE  ExtractTerminatedAt(s) = None <=> s.stage \in OpenStages
<1>1. CASE s.stage \in OpenStages
  BY <1>1 DEF ExtractTerminatedAt, OpenStages
<1>2. CASE s.stage \in TerminalStages
  <2>1. s.at \in Int /\ s.at # None
    BY <1>2, RowsAssumption DEF Date, IsState, TerminalStages
  <2>2. ExtractTerminatedAt(s) = s.at
    BY <1>2 DEF ExtractTerminatedAt, TerminalStages
  <2>3. s.stage \notin OpenStages
    BY <1>2 DEF TerminalStages, OpenStages
  <2> QED
    BY <2>1, <2>2, <2>3
<1> QED
  BY <1>1, <1>2 DEF IsState, LastMileStage

(* The partial unique index keeps a fulfilment apart from an open row      *)
(* exactly while it is open itself and for the same note.                  *)
LEMMA HeldWhileOpen ==
  ASSUME NEW a, IsFulfilment(a), NEW r, r.terminatedAt = None
  PROVE  HoldsSameNote(FulfilmentToRow(a), r) <=> a.state.stage \in OpenStages /\ SameNote(a, r)
<1> DEFINE row == FulfilmentToRow(a)
<1>1. row.terminatedAt = None <=> a.state.stage \in OpenStages
  BY TerminatedAtOfStage DEF FulfilmentToRow, IsFulfilment
<1>2. /\ row.tenantId = a.tenantId /\ row.sourceNoteSystem = a.sourceNote.system
      /\ row.sourceNoteType = a.sourceNote.type /\ row.sourceNoteNumber = a.sourceNote.number
  BY DEF FulfilmentToRow
<1> HIDE DEF row
<1>3. HoldsSameNote(row, r) <=> a.state.stage \in OpenStages /\ SameNote(a, r)
  BY <1>1, <1>2 DEF HoldsSameNote, SameNote
<1> QED
  BY <1>3 DEF row

-----------------------------------------------------------------------------
(* What the database adds: every stored fulfilment is open.               *)

(* Dates come back from every row a stored aggregate may have: what        *)
(* reviveDate and its callers revive is what JSON.stringify wrote.         *)
THEOREM RowsRoundTrip == Spec => []RoundTrip
<1>1. RoundTrip
  BY FulfilmentRoundTrip, ShipmentRoundTrip DEF RoundTrip
<1> QED
  BY <1>1, PTL

-----------------------------------------------------------------------------
(* The inductive invariant: no request writes a terminated fulfilment.     *)
IsOpen(d) == d.kind = "LastMileFulfilment" => d.row.terminatedAt = None

RowsOpen ==
  /\ \A d \in db : IsOpen(d)
  /\ \A d \in req.staged : IsOpen(d)
  /\ req = [pc |-> req.pc, kind |-> req.kind, command |-> req.command,
            aggregate |-> req.aggregate, staged |-> req.staged,
            aborted |-> req.aborted, outcome |-> req.outcome]
  /\ req.pc = "persist" /\ req.kind = "LastMileFulfilment" =>
       ExtractTerminatedAt(req.aggregate.state) = None

(* No action stages or commits one.                                        *)
LEMMA NextRowsOpen == RowsOpen /\ [Next]_vars => RowsOpen'
<1> SUFFICES ASSUME RowsOpen, [Next]_vars PROVE RowsOpen'
  OBVIOUS
<1>1. CASE PostFulfilment
  <2> DEFINE b == Wire!Validated(Wire!CreateLastMileFulfilmentBody, Wire!Defaults, post.fields)
             lines == ValidatedAll(Wire!PromisedLineDraft, post.lines)
             parcels == ValidatedAll(Wire!ParcelDraft, post.parcels)
             new == [Idle EXCEPT !.kind = "LastMileFulfilment"]
             accepted == WireAccepts(Wire!CreateLastMileFulfilmentBody, Wire!PromisedLineDraft,
                                     Wire!ParcelDraft, b, lines, parcels)
             command == BodyToCommand(b, lines, parcels)
  <2>1. /\ UNCHANGED db
        /\ req' = IF accepted THEN [new EXCEPT !.pc = "rules", !.command = command]
                              ELSE [new EXCEPT !.pc = "close", !.outcome = "BODY_INVALID"]
    BY <1>1, Zenon DEF PostFulfilment, Arrives
  <2> HIDE DEF accepted, command
  <2> QED BY <2>1 DEF RowsOpen, IsOpen, Idle
<1>2. CASE CheckRules
  BY <1>2 DEF CheckRules, To, Refuse, RowsOpen, IsOpen
<1>3. CASE CheckSourceNote
  <2>1. PICK id, f : f = FulfilmentCreate(id, post.tenant, req.command)
                     /\ UNCHANGED db
                     /\ \/ req' = [req EXCEPT !.pc = "persist", !.aggregate = f]
                        \/ \E code : req' = [req EXCEPT !.pc = "close", !.outcome = code]
    BY <1>3 DEF CheckSourceNote, Refuse
  <2>2. f.state.stage = "awaiting_planning"
    BY <2>1 DEF FulfilmentCreate
  <2>3. ExtractTerminatedAt(f.state) = None
    BY <2>2 DEF ExtractTerminatedAt
  <2> HIDE DEF FulfilmentCreate
  <2> QED BY <2>1, <2>3 DEF RowsOpen, IsOpen
<1>4. CASE Persist
  <2> DEFINE result == RegistryPersist(req.kind, req.aggregate)
             row == ToRow(req.kind, req.aggregate)
             failed == result = "aborted"
  <2>1. /\ req.pc = "persist" /\ UNCHANGED db
        /\ req' = [req EXCEPT !.pc      = IF result = "saved" THEN "audit" ELSE "close",
                              !.outcome = IF result = "saved" THEN "none" ELSE "COMMIT_FAILED",
                              !.aborted = failed,
                              !.staged  = IF result \in {"saved", "unread"} THEN {row} ELSE {}]
    BY <1>4, Zenon DEF Persist
  <2>2. IsOpen(ToRow(req.kind, req.aggregate))
    <3>1. ToRow(req.kind, req.aggregate).kind = req.kind
      BY DEF ToRow
    <3>2. ASSUME req.kind = "LastMileFulfilment"
          PROVE  ToRow(req.kind, req.aggregate).row.terminatedAt = None
      <4>1. ToRow(req.kind, req.aggregate).row = FulfilmentToRow(req.aggregate)
        BY <3>2 DEF ToRow
      <4>2. FulfilmentToRow(req.aggregate).terminatedAt = ExtractTerminatedAt(req.aggregate.state)
        BY DEF FulfilmentToRow
      <4> QED BY <2>1, <3>2, <4>1, <4>2 DEF RowsOpen
    <3> QED BY <3>1, <3>2 DEF IsOpen
  <2> HIDE DEF result, row, failed
  <2>3. /\ req'.pc # "persist" /\ UNCHANGED db
        /\ req'.staged \in {{}, {row}}
        /\ req' = [pc |-> req'.pc, kind |-> req'.kind, command |-> req'.command,
                   aggregate |-> req'.aggregate, staged |-> req'.staged,
                   aborted |-> req'.aborted, outcome |-> req'.outcome]
    BY <2>1 DEF RowsOpen
  <2>4. \A d \in req'.staged : IsOpen(d)
    BY <2>2, <2>3 DEF row
  <2> QED BY <2>3, <2>4 DEF RowsOpen, IsOpen
<1>5. CASE WriteLocalAuditLog
  <2>1. IsOpen(Audited(req.aggregate.id))
    BY DEF Audited, IsOpen
  <2> QED BY <1>5, <2>1 DEF WriteLocalAuditLog, RowsOpen
<1>6. CASE WriteEvent
  <2>1. IsOpen(Created(req.aggregate))
    BY DEF Created, IsOpen
  <2> QED BY <1>6, <2>1 DEF WriteEvent, RowsOpen
<1>7. CASE StatementFails
  BY <1>7 DEF StatementFails, RowsOpen
<1>8. CASE Close
  BY <1>8 DEF Close, Committed, RowsOpen, Idle
<1>9. CASE HandleLastMileFulfilmentCreated
  <2>1. UNCHANGED req /\ \E j : IsOpen(j) /\ db' = db \cup {j}
    BY <1>9 DEF HandleLastMileFulfilmentCreated, IsOpen
  <2> QED BY <2>1 DEF RowsOpen
<1>10. CASE PostShipment
  <2> DEFINE new == [Idle EXCEPT !.kind = "LastMileShipment"]
  <2>1. /\ UNCHANGED db
        /\ \/ \E code : req' = [new EXCEPT !.pc = "close", !.outcome = code]
           \/ \E shipment : req' = [new EXCEPT !.pc = "persist", !.aggregate = shipment]
    BY <1>10 DEF PostShipment, Arrives
  <2> QED BY <2>1 DEF RowsOpen, IsOpen, Idle
<1>11. CASE UNCHANGED vars
  BY <1>11 DEF vars, RowsOpen
<1> QED
  BY <1>1, <1>2, <1>3, <1>4, <1>5, <1>6, <1>7, <1>8, <1>9, <1>10, <1>11 DEF Next

(* A terminal stage, and nothing else, frees the note of a stored row in   *)
(* the partial unique index lmf_unique_open_source.                        *)
THEOREM NoteFreed == Spec => []TerminalStagesFreeTheNote
<1>1. Init => RowsOpen
  BY DEF Init, RowsOpen, Idle
<1>2. RowsOpen => TerminalStagesFreeTheNote
  <2> SUFFICES ASSUME RowsOpen, NEW a \in LaterFulfilments, NEW r \in Fulfilments, IsFulfilment(a)
               PROVE  HoldsSameNote(FulfilmentToRow(a), r)
                        <=> a.state.stage \in OpenStages /\ SameNote(a, r)
    BY DEF TerminalStagesFreeTheNote
  <2>1. r.terminatedAt = None
    BY DEF RowsOpen, IsOpen, Fulfilments, Rows
  <2> QED BY <2>1, HeldWhileOpen
<1> QED
  BY <1>1, <1>2, NextRowsOpen, PTL DEF Spec

-----------------------------------------------------------------------------
(* Rows and their events.  A transaction that commits a row holds its      *)
(* audit row and its event as well, unless the row cannot be read.         *)

Announced(d, records) ==
  \/ d.kind = "LastMileFulfilment" /\ FulfilmentReadable(d.row)
  \/ d.kind = "LastMileShipment" /\ ShipmentReadable(d.row)
  => /\ Audited(d.row.id) \in records
     /\ [kind |-> "created", id |-> d.row.id, tenantId |-> d.row.tenantId] \in records

Written == ToRow(req.kind, req.aggregate)

AllAnnounced ==
  /\ \A d \in db : Announced(d, db)
  /\ req.pc # "idle" => req.kind \in Kinds
  /\ req.pc \in {"idle", "rules", "note", "persist"} => req.staged = {}
  /\ req.pc = "audit" => req.staged = {Written}
  /\ req.pc = "event" => req.staged = {Written, Audited(req.aggregate.id)}
  /\ req.pc = "close" /\ ~req.aborted => \A d \in req.staged : Announced(d, req.staged)

(* A row has the kind, the identifier and the tenant of its aggregate.     *)
LEMMA RowOfAggregate ==
  ASSUME NEW kind \in Kinds, NEW a
  PROVE  /\ ToRow(kind, a).kind = kind
         /\ ToRow(kind, a).row.id = a.id /\ ToRow(kind, a).row.tenantId = a.tenantId
BY DEF ToRow, Kinds, Handlers, FulfilmentToRow, ShipmentToRow

(* A row that is inserted and not read back cannot be read later either.   *)
LEMMA UnreadIsUnreadable ==
  ASSUME NEW kind \in Kinds, NEW a, RegistryPersist(kind, a) = "unread", NEW records
  PROVE  Announced(ToRow(kind, a), records)
<1>1. CASE kind = "LastMileFulfilment"
  <2>1. PersistFulfilment(a) = "unread"
    BY <1>1 DEF RegistryPersist
  <2>2. PICK row : row = FulfilmentToRow(a)
    OBVIOUS
  <2>3. ~FulfilmentReadable(row)
    BY <2>1, <2>2 DEF PersistFulfilment
  <2>4. ToRow(kind, a) = [kind |-> kind, row |-> row]
    BY <1>1, <2>2 DEF ToRow
  <2> QED BY <1>1, <2>3, <2>4 DEF Announced
<1>2. CASE kind = "LastMileShipment"
  <2>1. PersistShipment(a) = "unread"
    BY <1>2 DEF RegistryPersist
  <2>2. PICK row : row = ShipmentToRow(a)
    OBVIOUS
  <2>3. ~ShipmentReadable(row)
    BY <2>1, <2>2 DEF PersistShipment
  <2>4. ToRow(kind, a) = [kind |-> kind, row |-> row]
    BY <1>2, <2>2 DEF ToRow
  <2> QED BY <1>2, <2>3, <2>4 DEF Announced
<1> QED BY <1>1, <1>2 DEF Kinds, Handlers

(* Committed records only add to what announces a row.                     *)
LEMMA MoreRecordsAnnounce ==
  ASSUME NEW d, NEW records, NEW more, records \subseteq more, Announced(d, records)
  PROVE  Announced(d, more)
BY DEF Announced

(* Records that are no rows need no event.                                 *)
LEMMA OtherRecordsAreAnnounced ==
  ASSUME NEW d, d.kind \notin Kinds, NEW records
  PROVE  Announced(d, records)
BY DEF Announced, Kinds, Handlers

(* Every step keeps committed and staged rows announced.                   *)
LEMMA NextAnnounced ==
  RowsOpen /\ AllAnnounced /\ [Next]_vars => AllAnnounced'
<1> SUFFICES ASSUME RowsOpen, AllAnnounced, [Next]_vars PROVE AllAnnounced'
  OBVIOUS
<1>0. req = [pc |-> req.pc, kind |-> req.kind, command |-> req.command,
             aggregate |-> req.aggregate, staged |-> req.staged,
             aborted |-> req.aborted, outcome |-> req.outcome]
  BY DEF RowsOpen
<1>1. CASE PostFulfilment \/ PostShipment
  <2>1. PICK kind \in Kinds :
          /\ UNCHANGED db
          /\ \/ \E code : req' = [[Idle EXCEPT !.kind = kind] EXCEPT !.pc = "close", !.outcome = code]
             \/ \E command : req' = [[Idle EXCEPT !.kind = kind] EXCEPT !.pc = "rules",
                                                                    !.command = command]
             \/ \E shipment : req' = [[Idle EXCEPT !.kind = kind] EXCEPT !.pc = "persist",
                                                                     !.aggregate = shipment]
    <3>1. CASE PostFulfilment
      <4> DEFINE b == Wire!Validated(Wire!CreateLastMileFulfilmentBody, Wire!Defaults, post.fields)
                 lines == ValidatedAll(Wire!PromisedLineDraft, post.lines)
                 parcels == ValidatedAll(Wire!ParcelDraft, post.parcels)
                 new == [Idle EXCEPT !.kind = "LastMileFulfilment"]
                 accepted == WireAccepts(Wire!CreateLastMileFulfilmentBody, Wire!PromisedLineDraft,
                                         Wire!ParcelDraft, b, lines, parcels)
                 command == BodyToCommand(b, lines, parcels)
      <4>1. /\ UNCHANGED db
            /\ req' = IF accepted THEN [new EXCEPT !.pc = "rules", !.command = command]
                                  ELSE [new EXCEPT !.pc = "close", !.outcome = "BODY_INVALID"]
        BY <3>1, Zenon DEF PostFulfilment, Arrives
      <4> HIDE DEF accepted, command
      <4> QED BY <4>1 DEF Kinds, Handlers
    <3>2. CASE PostShipment
      BY <3>2 DEF PostShipment, Arrives, Kinds, Handlers
    <3> QED BY <1>1, <3>1, <3>2
  <2>2. /\ req'.kind \in Kinds /\ req'.staged = {} /\ req'.pc \in {"close", "rules", "persist"}
    BY <2>1 DEF Idle
  <2> QED BY <2>1, <2>2 DEF AllAnnounced
<1>2. CASE CheckRules
  BY <1>0, <1>2 DEF CheckRules, To, Refuse, AllAnnounced
<1>3. CASE CheckSourceNote
  <2>1. /\ req.pc = "note" /\ UNCHANGED db
        /\ \/ \E f : req' = [req EXCEPT !.pc = "persist", !.aggregate = f]
           \/ \E code : req' = [req EXCEPT !.pc = "close", !.outcome = code]
    BY <1>3 DEF CheckSourceNote, Refuse
  <2> QED BY <1>0, <2>1 DEF AllAnnounced
<1>4. CASE Persist
  <2>1. PICK result, row : result = RegistryPersist(req.kind, req.aggregate) /\ row = Written
    OBVIOUS
  <2>2. PICK pc, outcome, aborted, staged :
          /\ pc = (IF result = "saved" THEN "audit" ELSE "close")
          /\ aborted = (result = "aborted")
          /\ staged = IF result \in {"saved", "unread"} THEN {row} ELSE {}
          /\ req' = [req EXCEPT !.pc = pc, !.outcome = outcome, !.aborted = aborted,
                                !.staged = staged]
          /\ req.pc = "persist" /\ UNCHANGED db
    BY <1>4, <2>1, Zenon DEF Persist, Written
  <2>3. /\ req'.pc = pc /\ req'.staged = staged /\ req'.aborted = aborted
        /\ req'.kind = req.kind /\ req'.aggregate = req.aggregate
    BY <1>0, <2>2
  <2>4. row = Written' /\ req.kind \in Kinds
    BY <2>1, <2>2, <2>3 DEF Written, AllAnnounced
  <2>5. result = "unread" => \A records : Announced(row, records)
    BY <2>1, <2>4, UnreadIsUnreadable DEF Written
  <2> QED BY <2>2, <2>3, <2>4, <2>5 DEF AllAnnounced
<1>5. CASE WriteLocalAuditLog
  <2>1. UNCHANGED db /\ req.pc = "audit"
    BY <1>5 DEF WriteLocalAuditLog
  <2>2. CASE req.kind = "LastMileFulfilment" /\ post.principal > 100
    <3>1. req' = [req EXCEPT !.pc = "close", !.outcome = "COMMIT_FAILED", !.aborted = TRUE]
      BY <1>5, <2>2 DEF WriteLocalAuditLog
    <3>2. req'.pc = "close" /\ req'.aborted /\ req'.kind = req.kind
      BY <1>0, <3>1
    <3> QED BY <2>1, <3>2 DEF AllAnnounced
  <2>3. CASE ~(req.kind = "LastMileFulfilment" /\ post.principal > 100)
    <3>1. req' = [req EXCEPT !.pc = "event", !.staged = @ \cup {Audited(req.aggregate.id)}]
      BY <1>5, <2>3 DEF WriteLocalAuditLog
    <3>2. /\ req'.pc = "event" /\ req'.kind = req.kind /\ req'.aggregate = req.aggregate
          /\ req'.staged = req.staged \cup {Audited(req.aggregate.id)}
      BY <1>0, <3>1
    <3>3. req'.staged = {Written', Audited(req'.aggregate.id)}
      BY <2>1, <3>2 DEF AllAnnounced, Written
    <3> QED BY <2>1, <3>2, <3>3 DEF AllAnnounced, Audited
  <2> QED BY <2>2, <2>3
<1>6. CASE WriteEvent
  <2>1. /\ req'.pc = "close" /\ req'.kind = req.kind
        /\ req'.staged = req.staged \cup {Created(req.aggregate)} /\ req.pc = "event"
        /\ UNCHANGED db
    BY <1>0, <1>6 DEF WriteEvent
  <2>2. PICK row, a : row = Written /\ a = req.aggregate
    OBVIOUS
  <2>3. req.kind \in Kinds /\ req'.staged = {row, Audited(a.id), Created(a)}
    BY <2>1, <2>2 DEF AllAnnounced
  <2>4. row.row.id = a.id /\ row.row.tenantId = a.tenantId
    BY <2>2, <2>3, RowOfAggregate DEF Written
  <2>5. Announced(row, req'.staged)
    BY <2>3, <2>4 DEF Announced, Created
  <2>6. Audited(a.id).kind \notin Kinds /\ Created(a).kind \notin Kinds
    BY DEF Audited, Created, Kinds, Handlers
  <2>7. \A d \in req'.staged : Announced(d, req'.staged)
    BY <2>3, <2>5, <2>6, OtherRecordsAreAnnounced
  <2> QED BY <2>1, <2>3, <2>7 DEF AllAnnounced
<1>7. CASE StatementFails
  <2>1. /\ req'.pc = "close" /\ req'.aborted = TRUE /\ req'.kind = req.kind /\ req.pc # "idle"
        /\ UNCHANGED db
    BY <1>0, <1>7 DEF StatementFails
  <2> QED BY <2>1 DEF AllAnnounced
<1>8. CASE Close
  <2>1. req' = Idle /\ db' = db \cup Committed(req) /\ req.pc = "close"
    BY <1>8 DEF Close
  <2>2. \A d \in Committed(req) : Announced(d, Committed(req))
    BY <2>1 DEF Committed, AllAnnounced
  <2>3. \A d \in db' : Announced(d, db')
    BY <2>1, <2>2, MoreRecordsAnnounce DEF AllAnnounced
  <2>4. req'.pc = "idle" /\ req'.staged = {}
    BY <2>1 DEF Idle
  <2> QED BY <2>3, <2>4 DEF AllAnnounced
<1>9. CASE HandleLastMileFulfilmentCreated
  <2>1. PICK j : j.kind = "job" /\ db' = db \cup {j}
    BY <1>9 DEF HandleLastMileFulfilmentCreated
  <2>2. j.kind \notin Kinds
    BY <2>1 DEF Kinds, Handlers
  <2>3. \A d \in db' : Announced(d, db')
    BY <2>1, <2>2, MoreRecordsAnnounce, OtherRecordsAreAnnounced DEF AllAnnounced
  <2> QED BY <1>9, <2>3 DEF HandleLastMileFulfilmentCreated, AllAnnounced, Written
<1>10. CASE UNCHANGED vars
  BY <1>10 DEF vars, AllAnnounced, Written
<1> QED
  BY <1>1, <1>2, <1>3, <1>4, <1>5, <1>6, <1>7, <1>8, <1>9, <1>10 DEF Next

(* A stored row that can be read has its audit row and its created event,  *)
(* whatever bodies clients send and whichever statement or mapping fails:  *)
(* the transaction that holds a row and no event is rolled back, or the    *)
(* row is one reviveDate throws on.                                        *)
THEOREM ReadableRowsAreAnnounced == Spec => []ReadableRowHasEvent
<1>1. Init => RowsOpen /\ AllAnnounced
  BY DEF Init, RowsOpen, AllAnnounced, Idle
<1>2. AllAnnounced => ReadableRowHasEvent
  BY DEF AllAnnounced, Announced, ReadableRowHasEvent, Fulfilments, Shipments, Rows
<1> QED
  BY <1>1, <1>2, NextRowsOpen, NextAnnounced, PTL DEF Spec

(* Two names make a path of two.                                           *)
LEMMA Pair ==
  ASSUME NEW a, NEW b
  PROVE  <<a>> \o <<b>> = <<a, b>>
<1> DEFINE S == {a,b}
<1>1. <<a>> \in Seq(S) /\ <<b>> \in Seq(S) /\ <<a,b>> \in Seq(S)
  OBVIOUS
<1>2. PICK s : s = <<a>> \o <<b>>
  OBVIOUS
<1>3. s \in Seq(S) /\ Len(s) = 2 /\ s[1] = a /\ s[2] = b
  BY <1>1, <1>2
<1>4. Len(<<a,b>>) = 2 /\ <<a,b>>[1] = a /\ <<a,b>>[2] = b
  OBVIOUS
<1>5. PICK t : t = <<a,b>>
  OBVIOUS
<1> HIDE DEF S
<1>6. s = <<a,b>>
  BY <1>3
<1> QED BY <1>2, <1>6

(* The names on a path of three.                                           *)
LEMMA TripleParts ==
  ASSUME NEW a, NEW b, NEW c, NEW q, q = <<a, b>> \o <<c>>
  PROVE  Len(q) = 3 /\ q[1] = a /\ q[2] = b /\ q[3] = c
<1> DEFINE S == {a,b,c}
<1>1. <<a,b>> \in Seq(S) /\ <<c>> \in Seq(S)
  OBVIOUS
<1>2. Len(<<a,b>>) = 2 /\ Len(<<c>>) = 1 /\ <<a,b>>[1] = a /\ <<a,b>>[2] = b /\ <<c>>[1] = c
  OBVIOUS
<1> HIDE DEF S
<1> QED BY <1>1, <1>2, ConcatProperties

(* Such a path, put together from the left...                              *)
LEMMA Triple ==
  ASSUME NEW a, NEW b, NEW c
  PROVE  <<a, b>> \o <<c>> = <<a, b, c>>
<1> DEFINE S == {a,b,c}
<1>1. <<a,b>> \in Seq(S) /\ <<c>> \in Seq(S) /\ <<a,b,c>> \in Seq(S)
  OBVIOUS
<1>2. PICK s : s = <<a,b>> \o <<c>>
  OBVIOUS
<1>3. s \in Seq(S) /\ Len(s) = 3 /\ s[1] = a /\ s[2] = b /\ s[3] = c
  BY <1>1, <1>2, TripleParts, ConcatProperties
<1>4. Len(<<a,b,c>>) = 3 /\ <<a,b,c>>[1] = a /\ <<a,b,c>>[2] = b /\ <<a,b,c>>[3] = c
  OBVIOUS
<1>5. PICK t : t = <<a,b,c>>
  OBVIOUS
<1> HIDE DEF S
<1>6. s = <<a,b,c>>
  BY <1>3
<1> QED BY <1>2, <1>6

(* ...and from the right.                                                  *)
LEMMA TripleLeft ==
  ASSUME NEW a, NEW b, NEW c
  PROVE  <<a>> \o <<b, c>> = <<a, b, c>>
<1> DEFINE S == {a,b,c}
<1>1. <<a>> \in Seq(S) /\ <<b>> \in Seq(S) /\ <<c>> \in Seq(S)
  OBVIOUS
<1> HIDE DEF S
<1>2. (<<a>> \o <<b>>) \o <<c>> = <<a>> \o (<<b>> \o <<c>>)
  BY <1>1, ConcatAssociative
<1>3. <<b>> \o <<c>> = <<b,c>> /\ <<a>> \o <<b>> = <<a,b>>
  BY Pair, Zenon
<1>4. <<a,b>> \o <<c>> = <<a,b,c>>
  BY Triple, Zenon
<1> QED BY <1>2, <1>3, <1>4, Zenon
-----------------------------------------------------------------------------
(* The paths of a window, and of what is in one.                           *)
Collecting == <<"collection", "collectionWindow">>
Promised   == <<"promisedWindow">>

(* The paths of the dates of both windows.                                 *)
LEMMA WindowPaths ==
  /\ Collecting \o <<"start">> = <<"collection", "collectionWindow", "start">>
  /\ Collecting \o <<"end">> = <<"collection", "collectionWindow", "end">>
  /\ Promised \o <<"start">> = <<"promisedWindow", "start">>
  /\ Promised \o <<"end">> = <<"promisedWindow", "end">>
BY Pair, Triple, Zenon DEF Collecting, Promised

(* Where a path of a schema comes from.                                    *)
LEMMA OverHas ==
  ASSUME NEW f, NEW g, NEW q, q \in DOMAIN f \/ q \in DOMAIN g
  PROVE  q \in DOMAIN Wire!@@(f, g)
BY DEF Wire!@@

(* A nested schema has its own path and those it nests.                    *)
LEMMA UnderHas ==
  ASSUME NEW k, NEW node, NEW schema
  PROVE  /\ <<k>> \in DOMAIN Wire!Under(k, node, schema)
         /\ \A q \in DOMAIN schema : <<k>> \o q \in DOMAIN Wire!Under(k, node, schema)
BY DEF Wire!Under, Wire!@@, Wire!:>

(* A window has a start and an end.                                        *)
LEMMA WindowSchema ==
  <<"start">> \in DOMAIN Wire!TimeWindow /\ <<"end">> \in DOMAIN Wire!TimeWindow
BY DEF Wire!TimeWindow, Wire!Leaves

(* What both bodies share has the parts of a promise.                      *)
LEMMA SnapshotHas ==
  /\ \A q \in DOMAIN Wire!CollectionPoint : <<"collection">> \o q \in DOMAIN Wire!Snapshot
  /\ \A q \in DOMAIN Wire!DropOffPoint : <<"dropOff">> \o q \in DOMAIN Wire!Snapshot
  /\ \A q \in DOMAIN Wire!TimeWindow : <<"promisedWindow">> \o q \in DOMAIN Wire!Snapshot
  /\ <<"promisedWindow">> \in DOMAIN Wire!Snapshot
  /\ <<"metadata">> \in DOMAIN Wire!Snapshot
  /\ <<"temperatureZone">> \in DOMAIN Wire!Snapshot
<1>1. \A q \in DOMAIN Wire!CollectionPoint : <<"collection">> \o q \in DOMAIN Wire!Snapshot
  BY UnderHas, OverHas DEF Wire!Snapshot
<1>2. \A q \in DOMAIN Wire!DropOffPoint : <<"dropOff">> \o q \in DOMAIN Wire!Snapshot
  BY UnderHas, OverHas DEF Wire!Snapshot
<1>3. \A q \in DOMAIN Wire!TimeWindow : <<"promisedWindow">> \o q \in DOMAIN Wire!Snapshot
  BY UnderHas, OverHas DEF Wire!Snapshot
<1>4. <<"promisedWindow">> \in DOMAIN Wire!Snapshot /\ <<"metadata">> \in DOMAIN Wire!Snapshot
  BY UnderHas, OverHas DEF Wire!Snapshot
<1>5. <<"temperatureZone">> \in DOMAIN Wire!Snapshot
  BY OverHas DEF Wire!Snapshot, Wire!Leaves
<1> QED BY <1>1, <1>2, <1>3, <1>4, <1>5

(* The body of a shipment has all of that and two identifiers.             *)
LEMMA ShipmentBodyHas ==
  /\ \A q \in DOMAIN Wire!Snapshot : q \in DOMAIN Wire!CreateLastMileShipmentBody
  /\ <<"tenantId">> \in DOMAIN Wire!CreateLastMileShipmentBody
  /\ <<"fulfilmentId">> \in DOMAIN Wire!CreateLastMileShipmentBody
BY OverHas DEF Wire!CreateLastMileShipmentBody, Wire!Leaves

(* What the body of a shipment may have, and what it shares with the body  *)
(* of a fulfilment: all but the note and the order.                        *)
LEMMA ShipmentBodyPaths ==
  LET paths == DOMAIN Wire!CreateLastMileShipmentBody
  IN  /\ {<<"metadata">>, <<"temperatureZone">>, <<"tenantId">>, <<"fulfilmentId">>,
          <<"dropOff", "access">>} \subseteq paths
      /\ {Promised, Promised \o <<"start">>, Promised \o <<"end">>} \subseteq paths
      /\ {Collecting, Collecting \o <<"start">>, Collecting \o <<"end">>} \subseteq paths
<1> DEFINE paths == DOMAIN Wire!CreateLastMileShipmentBody
<1>1. {Promised, Promised \o <<"start">>, Promised \o <<"end">>} \subseteq paths
  BY SnapshotHas, ShipmentBodyHas, WindowSchema DEF Promised
<1>2. <<"dropOff", "access">> \in paths
  <2>1. <<"access">> \in DOMAIN Wire!DropOffPoint
    BY UnderHas, OverHas DEF Wire!DropOffPoint
  <2>2. <<"dropOff">> \o <<"access">> \in paths
    BY <2>1, SnapshotHas, ShipmentBodyHas
  <2>3. <<"dropOff">> \o <<"access">> = <<"dropOff", "access">>
    BY Pair, Zenon
  <2> QED BY <2>2, <2>3, Zenon
<1>3. Collecting \in paths
  <2>1. <<"collectionWindow">> \in DOMAIN Wire!CollectionPoint
    BY UnderHas, OverHas DEF Wire!CollectionPoint
  <2>2. <<"collection">> \o <<"collectionWindow">> \in paths
    BY <2>1, SnapshotHas, ShipmentBodyHas
  <2>3. <<"collection">> \o <<"collectionWindow">> = Collecting
    BY Pair, Zenon DEF Collecting
  <2> QED BY <2>2, <2>3, Zenon
<1>4. ASSUME NEW k, <<k>> \in DOMAIN Wire!TimeWindow
      PROVE  Collecting \o <<k>> \in paths
  <2>1. <<"collectionWindow">> \o <<k>> \in DOMAIN Wire!CollectionPoint
    BY <1>4, UnderHas, OverHas DEF Wire!CollectionPoint
  <2>2. <<"collection">> \o (<<"collectionWindow">> \o <<k>>) \in paths
    BY <2>1, SnapshotHas, ShipmentBodyHas
  <2>3. <<"collectionWindow">> \o <<k>> = <<"collectionWindow", k>>
    BY Pair, Zenon
  <2>4. <<"collection">> \o <<"collectionWindow", k>> = <<"collection", "collectionWindow", k>>
    BY TripleLeft, Zenon
  <2>5. Collecting \o <<k>> = <<"collection", "collectionWindow", k>>
    BY Triple, Zenon DEF Collecting
  <2> QED BY <2>2, <2>3, <2>4, <2>5, Zenon
<1>5. {<<"metadata">>, <<"temperatureZone">>, <<"tenantId">>, <<"fulfilmentId">>} \subseteq paths
  BY SnapshotHas, ShipmentBodyHas
<1> QED BY <1>1, <1>2, <1>3, <1>4, <1>5, WindowSchema

(* A path of the body of a fulfilment that is not of its note or its order *)
(* is one of the body of a shipment too.                                   *)
LEMMA FulfilmentBodyPaths ==
  ASSUME NEW q \in DOMAIN Wire!CreateLastMileFulfilmentBody,
         q[1] # "sourceNote", q[1] # "orderRef"
  PROVE  q \in DOMAIN Wire!CreateLastMileShipmentBody
<1>1. ASSUME NEW k, NEW node, NEW r, q \in DOMAIN Wire!Under(k, node, Wire!Leaves(r))
      PROVE  q[1] = k
  <2>1. q = <<k>> \/ \E s \in DOMAIN Wire!Leaves(r) : q = <<k>> \o s
    BY <1>1 DEF Wire!Under, Wire!@@, Wire!:>
  <2>2. q = <<k>> \/ \E l : q = <<k>> \o <<l>>
    BY <2>1 DEF Wire!Leaves
  <2>3. q = <<k>> \/ \E l : q = <<k, l>>
    BY <2>2, Pair, Zenon
  <2> QED BY <2>3
<1>2. \/ q \in DOMAIN Wire!Snapshot
      \/ q \in DOMAIN Wire!Under("sourceNote", Wire!Required(Wire!Node), Wire!SourceNoteRef)
      \/ q \in DOMAIN Wire!Under("orderRef", Wire!Optional(Wire!Node), Wire!OrderRef)
  BY DEF Wire!CreateLastMileFulfilmentBody, Wire!@@
<1>3. q \notin DOMAIN Wire!Under("sourceNote", Wire!Required(Wire!Node), Wire!SourceNoteRef)
  BY <1>1 DEF Wire!SourceNoteRef
<1>4. q \notin DOMAIN Wire!Under("orderRef", Wire!Optional(Wire!Node), Wire!OrderRef)
  BY <1>1 DEF Wire!OrderRef
<1> QED BY <1>2, <1>3, <1>4, ShipmentBodyHas

(* A stored line has the fields of a drafted one, and so has a parcel.     *)
LEMMA CargoPaths ==
  /\ DOMAIN Wire!PromisedLine = DOMAIN Wire!PromisedLineDraft
  /\ DOMAIN Wire!Parcel = DOMAIN Wire!ParcelDraft
  /\ {<<"lineId">>, <<"metadata">>} \subseteq DOMAIN Wire!PromisedLine
  /\ {<<"parcelId">>, <<"lineRefs">>, <<"status">>, <<"metadata">>} \subseteq DOMAIN Wire!Parcel
<1>1. DOMAIN Wire!PromisedLine = DOMAIN Wire!PromisedLineDraft
  BY DEF Wire!PromisedLine, Wire!PromisedLineDraft, Wire!@@, Wire!Leaves, Wire!Under, Wire!:>
<1>2. DOMAIN Wire!Parcel = DOMAIN Wire!ParcelDraft
  BY DEF Wire!Parcel, Wire!ParcelDraft, Wire!@@, Wire!Leaves, Wire!Under, Wire!:>
<1>3. <<"metadata">> \in DOMAIN Wire!PromisedLine /\ <<"metadata">> \in DOMAIN Wire!Parcel
  BY OverHas, UnderHas DEF Wire!PromisedLine, Wire!Parcel
<1>4. <<"lineId">> \in DOMAIN Wire!PromisedLine
  BY DEF Wire!PromisedLine, Wire!@@, Wire!Leaves
<1>5. {<<"parcelId">>, <<"lineRefs">>, <<"status">>} \subseteq DOMAIN Wire!Parcel
  BY DEF Wire!Parcel, Wire!@@, Wire!Leaves
<1> QED BY <1>1, <1>2, <1>3, <1>4, <1>5

-----------------------------------------------------------------------------
(* A second pass.  What the body of a job says of place P, cargo C and     *)
(* windows cw and pw, the use case reads out of it.                        *)
FieldsOf(P, C, cw, pw, tenant) ==
  P @@ C @@ WindowFields(Collecting, cw) @@ WindowFields(Promised, pw)
  @@ (<<"tenantId">> :> tenant) @@ (<<"fulfilmentId">> :> 17)

IsPlacePath(q) == q[1] = "collection" /\ (Len(q) = 1 \/ q[2] # "collectionWindow")

(* A window of the collection is not a part of its place, and the paths of *)
(* the windows are apart.                                                  *)
LEMMA PathFacts ==
  /\ ~IsPlacePath(Collecting) /\ Collecting[1] = "collection"
  /\ ~IsPlacePath(Collecting \o <<"start">>) /\ (Collecting \o <<"start">>)[1] = "collection"
  /\ ~IsPlacePath(Collecting \o <<"end">>) /\ (Collecting \o <<"end">>)[1] = "collection"
  /\ Promised[1] = "promisedWindow" /\ (Promised \o <<"start">>)[1] = "promisedWindow"
  /\ (Promised \o <<"end">>)[1] = "promisedWindow"
  /\ Collecting \o <<"start">> # Collecting \o <<"end">>
  /\ Promised \o <<"start">> # Promised \o <<"end">>
  /\ Collecting # Collecting \o <<"start">> /\ Collecting # Collecting \o <<"end">>
  /\ Promised # Promised \o <<"start">> /\ Promised # Promised \o <<"end">>
  /\ <<"tenantId">>[1] = "tenantId" /\ <<"fulfilmentId">>[1] = "fulfilmentId"
<1>1. PICK s, e : /\ s = <<"collection", "collectionWindow", "start">>
                  /\ e = <<"collection", "collectionWindow", "end">>
  OBVIOUS
<1>2. PICK t, f : t = <<"promisedWindow", "start">> /\ f = <<"promisedWindow", "end">>
  OBVIOUS
<1>3. /\ Len(s) = 3 /\ s[1] = "collection" /\ s[2] = "collectionWindow" /\ s[3] = "start"
      /\ Len(e) = 3 /\ e[1] = "collection" /\ e[2] = "collectionWindow" /\ e[3] = "end"
  BY <1>1
<1>4. /\ Len(t) = 2 /\ t[1] = "promisedWindow" /\ t[2] = "start"
      /\ Len(f) = 2 /\ f[1] = "promisedWindow" /\ f[2] = "end"
  BY <1>2
<1>5. /\ Len(Collecting) = 2 /\ Collecting[1] = "collection" /\ Collecting[2] = "collectionWindow"
      /\ Len(Promised) = 1 /\ Promised[1] = "promisedWindow"
  BY DEF Collecting, Promised
<1>6. /\ Collecting \o <<"start">> = s /\ Collecting \o <<"end">> = e
      /\ Promised \o <<"start">> = t /\ Promised \o <<"end">> = f
  BY <1>1, <1>2, WindowPaths, Zenon
<1> HIDE DEF Collecting, Promised
<1> QED BY <1>3, <1>4, <1>5, <1>6 DEF IsPlacePath

(* The odd values are texts, none of them a number.                        *)
LEMMA OddsAreNoNumbers == /\ Leap \notin Int /\ Coerced \notin Int /\ AjvAddress \notin Int
                          /\ ZodAddress \notin Int /\ LooseKey \notin Int
BY IntakeAssumption DEF Wire!OddValues

(* The dates whose JSON has a year of four digits, and stays a date-time.  *)
InYears(w) == {w.start, w.end} \subseteq FirstInstant..LastInstant

(* What the body of a job has at each of its paths.                        *)
LEMMA SecondFields ==
  ASSUME NEW P, NEW C, NEW cw, NEW pw, NEW tenant,
         \A q \in DOMAIN P : IsPlacePath(q), \A q \in DOMAIN C : q[1] \in Cargo,
         pw # None
  PROVE  LET F == FieldsOf(P, C, cw, pw, tenant)
         IN  /\ F = [q \in DOMAIN F |-> F[q]]
             /\ \A q : IsPlacePath(q) => (q \in DOMAIN F <=> q \in DOMAIN P)
             /\ \A q : q[1] \in Cargo => (q \in DOMAIN F <=> q \in DOMAIN C)
             /\ \A q \in DOMAIN P : F[q] = P[q]
             /\ \A q \in DOMAIN C : F[q] = C[q]
             /\ Collecting \in DOMAIN F <=> cw # None
             /\ cw # None => /\ Collecting \o <<"start">> \in DOMAIN F
                             /\ Collecting \o <<"end">> \in DOMAIN F
                             /\ F[Collecting \o <<"start">>] = JsonDate(cw.start)
                             /\ F[Collecting \o <<"end">>] = JsonDate(cw.end)
             /\ {Promised, Promised \o <<"start">>, Promised \o <<"end">>} \subseteq DOMAIN F
             /\ F[Promised \o <<"start">>] = JsonDate(pw.start)
             /\ F[Promised \o <<"end">>] = JsonDate(pw.end)
             /\ <<"tenantId">> \in DOMAIN F /\ F[<<"tenantId">>] = tenant
             /\ DOMAIN F \subseteq DOMAIN P \cup DOMAIN C
                  \cup {Collecting, Collecting \o <<"start">>, Collecting \o <<"end">>}
                  \cup {Promised, Promised \o <<"start">>, Promised \o <<"end">>}
                  \cup {<<"tenantId">>, <<"fulfilmentId">>}
<1> DEFINE F == FieldsOf(P, C, cw, pw, tenant)
           W == WindowFields(Collecting, cw)
           V == WindowFields(Promised, pw)
<1>1. /\ V = (Promised :> 0) @@ (Promised \o <<"start">> :> JsonDate(pw.start))
                             @@ (Promised \o <<"end">> :> JsonDate(pw.end))
      /\ DOMAIN V = {Promised, Promised \o <<"start">>, Promised \o <<"end">>}
      /\ V[Promised \o <<"start">>] = JsonDate(pw.start)
      /\ V[Promised \o <<"end">>] = JsonDate(pw.end)
  BY PathFacts DEF WindowFields, @@, :>
<1>2. /\ cw = None => DOMAIN W = {}
      /\ cw # None => /\ DOMAIN W = {Collecting, Collecting \o <<"start">>, Collecting \o <<"end">>}
                      /\ W[Collecting \o <<"start">>] = JsonDate(cw.start)
                      /\ W[Collecting \o <<"end">>] = JsonDate(cw.end)
  <2>1. CASE cw = None
    <3>1. W = <<>> /\ DOMAIN <<>> = {}
      BY <2>1 DEF WindowFields
    <3> QED BY <2>1, <3>1
  <2>2. CASE cw # None
    <3>1. W = (Collecting :> 0) @@ (Collecting \o <<"start">> :> JsonDate(cw.start))
                                @@ (Collecting \o <<"end">> :> JsonDate(cw.end))
      BY <2>2 DEF WindowFields
    <3> QED BY <2>2, <3>1, PathFacts DEF @@, :>
  <2> QED BY <2>1, <2>2
<1> HIDE DEF W, V
<1>3. F = P @@ C @@ W @@ V @@ (<<"tenantId">> :> tenant) @@ (<<"fulfilmentId">> :> 17)
  BY Zenon DEF FieldsOf, F, W, V
<1>4. DOMAIN F = DOMAIN P \cup DOMAIN C \cup DOMAIN W \cup DOMAIN V
                 \cup {<<"tenantId">>, <<"fulfilmentId">>}
  BY <1>3 DEF @@, :>
<1>5. /\ \A q \in DOMAIN P : F[q] = P[q]
      /\ \A q \in DOMAIN C : q \notin DOMAIN P => F[q] = C[q]
      /\ \A q \in DOMAIN W : q \notin DOMAIN P \cup DOMAIN C => F[q] = W[q]
      /\ \A q \in DOMAIN V : q \notin DOMAIN P \cup DOMAIN C \cup DOMAIN W => F[q] = V[q]
      /\ <<"tenantId">> \notin DOMAIN P \cup DOMAIN C \cup DOMAIN W \cup DOMAIN V
           => F[<<"tenantId">>] = tenant
      /\ F = [q \in DOMAIN F |-> F[q]]
  BY <1>3 DEF @@, :>
<1> HIDE DEF F
<1>6. Cargo \cap {"collection", "promisedWindow", "tenantId", "fulfilmentId"} = {}
  BY DEF Cargo
<1>7. /\ \A q \in DOMAIN P : q[1] = "collection" /\ IsPlacePath(q)
      /\ \A q \in DOMAIN W : q[1] = "collection" /\ ~IsPlacePath(q)
      /\ \A q \in DOMAIN V : q[1] = "promisedWindow"
  BY <1>1, <1>2, PathFacts DEF IsPlacePath
<1>8. \A q \in DOMAIN C \cup DOMAIN V \cup {<<"tenantId">>, <<"fulfilmentId">>} : q[1] # "collection"
  BY <1>6, <1>7, PathFacts
<1>9. /\ \A q : IsPlacePath(q) => (q \in DOMAIN F <=> q \in DOMAIN P)
      /\ \A q : q[1] \in Cargo => (q \in DOMAIN F <=> q \in DOMAIN C)
  BY <1>4, <1>6, <1>7, <1>8, PathFacts DEF IsPlacePath
<1>10. \A q \in DOMAIN C : F[q] = C[q]
  BY <1>5, <1>7, <1>8
<1>11. \A q \in DOMAIN W : F[q] = W[q]
  BY <1>5, <1>7, <1>8
<1>12. \A q \in DOMAIN V : F[q] = V[q]
  BY <1>5, <1>6, <1>7, <1>8
<1>13. F[<<"tenantId">>] = tenant
  BY <1>5, <1>6, <1>7, PathFacts
<1>14. Collecting \in DOMAIN F <=> cw # None
  BY <1>2, <1>4, <1>7, <1>8, PathFacts
<1> QED BY <1>1, <1>2, <1>4, <1>5, <1>9, <1>10, <1>11, <1>12, <1>13, <1>14 DEF F

(* What has the fields of the schema and its metadata is left alone.       *)
LEMMA AlreadyValid ==
  ASSUME NEW schema, NEW x, x = [q \in DOMAIN x |-> x[q]],
         DOMAIN x \subseteq DOMAIN schema, <<"metadata">> \in DOMAIN x
  PROVE  Wire!Validated(schema, Wire!CargoDefaults, x) = x
<1>1. Wire!Known(schema, x) = x
  <2>1. DOMAIN x \cap DOMAIN schema = DOMAIN x
    OBVIOUS
  <2> QED BY <2>1 DEF Wire!Known
<1>2. DOMAIN Wire!CargoDefaults = {<<"metadata">>}
  BY DEF Wire!CargoDefaults, Wire!:>
<1>3. DOMAIN x \cup DOMAIN Wire!CargoDefaults = DOMAIN x
  BY <1>2
<1>4. Wire!Validated(schema, Wire!CargoDefaults, x) =
        [q \in DOMAIN x \cup DOMAIN Wire!CargoDefaults |->
           IF q \in DOMAIN x THEN x[q] ELSE Wire!CargoDefaults[q]]
  BY <1>1, Zenon DEF Wire!Validated, Wire!@@
<1>5. Wire!Validated(schema, Wire!CargoDefaults, x) = [q \in DOMAIN x |-> x[q]]
  BY <1>3, <1>4
<1> QED BY <1>5

(* The second validation keeps all of the body of a job, and the use case  *)
(* reads out of it the place, the cargo and the windows it was made of.    *)
LEMMA SecondBody ==
  ASSUME NEW P, NEW C, NEW cw, NEW pw, NEW tenant,
         P = [q \in DOMAIN P |-> P[q]], C = [q \in DOMAIN C |-> C[q]],
         \A q \in DOMAIN P : IsPlacePath(q), \A q \in DOMAIN C : q[1] \in Cargo,
         DOMAIN P \cup DOMAIN C \subseteq DOMAIN Wire!CreateLastMileShipmentBody,
         {<<"metadata">>, <<"temperatureZone">>, <<"dropOff", "access">>} \subseteq DOMAIN C,
         cw = None \/ IsWindow(cw), IsWindow(pw), pw # None,
         cw = None \/ InYears(cw), InYears(pw),
         NEW b, b = Wire!Validated(Wire!CreateLastMileShipmentBody, Wire!CargoDefaults,
                                   FieldsOf(P, C, cw, pw, tenant))
  PROVE  /\ b = FieldsOf(P, C, cw, pw, tenant)
         /\ Place(b) = P
         /\ Below(b, Cargo) @@ CommandDefaults = C
         /\ WindowAt(b, Collecting) = cw
         /\ WindowAt(b, Promised) = pw
         /\ b[<<"tenantId">>] = tenant
<1> DEFINE F == FieldsOf(P, C, cw, pw, tenant)
           schema == Wire!CreateLastMileShipmentBody
<1>1. /\ F = [q \in DOMAIN F |-> F[q]]
      /\ \A q : IsPlacePath(q) => (q \in DOMAIN F <=> q \in DOMAIN P)
      /\ \A q : q[1] \in Cargo => (q \in DOMAIN F <=> q \in DOMAIN C)
      /\ \A q \in DOMAIN P : F[q] = P[q]
      /\ \A q \in DOMAIN C : F[q] = C[q]
  BY SecondFields
<1>0. ASSUME NEW w, InYears(w) PROVE JsonDate(w.start) = w.start /\ JsonDate(w.end) = w.end
  BY <1>0 DEF InYears, JsonDate
<1>2. /\ Collecting \in DOMAIN F <=> cw # None
      /\ cw # None => /\ F[Collecting \o <<"start">>] = cw.start
                      /\ F[Collecting \o <<"end">>] = cw.end
  BY <1>0, SecondFields
<1>3. /\ Promised \in DOMAIN F
      /\ F[Promised \o <<"start">>] = pw.start /\ F[Promised \o <<"end">>] = pw.end
      /\ F[<<"tenantId">>] = tenant
  BY <1>0, SecondFields
<1>4. DOMAIN F \subseteq DOMAIN schema
  <2>1. DOMAIN F \subseteq DOMAIN P \cup DOMAIN C
                  \cup {Collecting, Collecting \o <<"start">>, Collecting \o <<"end">>}
                  \cup {Promised, Promised \o <<"start">>, Promised \o <<"end">>}
                  \cup {<<"tenantId">>, <<"fulfilmentId">>}
    BY SecondFields
  <2> HIDE DEF F
  <2>2. /\ {<<"tenantId">>, <<"fulfilmentId">>} \subseteq DOMAIN schema
        /\ {Promised, Promised \o <<"start">>, Promised \o <<"end">>} \subseteq DOMAIN schema
        /\ {Collecting, Collecting \o <<"start">>, Collecting \o <<"end">>} \subseteq DOMAIN schema
    BY ShipmentBodyPaths
  <2>3. DOMAIN P \cup DOMAIN C \subseteq DOMAIN schema
    OBVIOUS
  <2> HIDE DEF schema
  <2> QED BY <2>1, <2>2, <2>3
<1> HIDE DEF F, schema
<1>5. <<"metadata">> \in DOMAIN F
  <2>1. <<"metadata">>[1] \in Cargo
    BY DEF Cargo
  <2> QED BY <1>1, <2>1
<1>6. b = F
  <2>1. b = Wire!Validated(schema, Wire!CargoDefaults, F)
    BY DEF F, schema
  <2> QED BY <1>1, <1>4, <1>5, <2>1, AlreadyValid
<1>7. Place(b) = P
  <2> DEFINE c == Below(F, {"collection"})
  <2>2. c = [q \in DOMAIN c |-> F[q]] /\ DOMAIN c = {q \in DOMAIN F : q[1] = "collection"}
    BY DEF Below
  <2> HIDE DEF c
  <2>3. {q \in DOMAIN c : Len(q) = 1 \/ q[2] # "collectionWindow"} = DOMAIN P
    BY <1>1, <2>2 DEF IsPlacePath
  <2>4. Place(F) = [q \in {s \in DOMAIN c : Len(s) = 1 \/ s[2] # "collectionWindow"} |-> c[q]]
    BY Zenon DEF Place, c
  <2>1. Place(F) = [q \in DOMAIN P |-> F[q]]
    BY <2>2, <2>3, <2>4
  <2> QED BY <1>1, <1>6, <2>1
<1>8. Below(b, Cargo) @@ CommandDefaults = C
  <2>1. Below(F, Cargo) = [q \in DOMAIN C |-> F[q]]
    BY <1>1 DEF Below
  <2>2. Below(F, Cargo) = C
    BY <1>1, <2>1
  <2>3. DOMAIN CommandDefaults = {<<"temperatureZone">>, <<"dropOff", "access">>}
    BY DEF CommandDefaults, @@, :>
  <2>4. C @@ CommandDefaults = [q \in DOMAIN C |-> C[q]]
    BY <2>3 DEF @@
  <2> QED BY <1>6, <2>2, <2>4
<1>9. ASSUME NEW d \in Int PROVE ToDate(d) = d
  BY OddsAreNoNumbers DEF ToDate
<1>10. WindowAt(b, Collecting) = cw
  BY <1>2, <1>6, <1>9 DEF WindowAt, IsWindow
<1>11. WindowAt(b, Promised) = pw
  BY <1>3, <1>6, <1>9 DEF WindowAt, IsWindow
<1> QED BY <1>3, <1>6, <1>7, <1>8, <1>10, <1>11 DEF F

-----------------------------------------------------------------------------
(* What a body comes to, on its way through the intake.                    *)
BodyOf(p)    == Wire!Validated(Wire!CreateLastMileFulfilmentBody, Wire!Defaults, p.fields)
LinesOf(p)   == ValidatedAll(Wire!PromisedLineDraft, p.lines)
ParcelsOf(p) == ValidatedAll(Wire!ParcelDraft, p.parcels)
CommandOf(p) == BodyToCommand(BodyOf(p), LinesOf(p), ParcelsOf(p))
FulfilmentOf(p, id) == FulfilmentCreate(id, p.tenant, CommandOf(p))

ShipmentBodyOf(j) ==
  Wire!Validated(Wire!CreateLastMileShipmentBody, Wire!CargoDefaults, j.fields)
ShipmentLinesOf(j)   == ValidatedAll(Wire!PromisedLine, j.lines)
ShipmentParcelsOf(j) == ValidatedAll(Wire!Parcel, j.parcels)
ShipmentCommandOf(j) ==
  BodyToCommand(ShipmentBodyOf(j), ShipmentLinesOf(j), ShipmentParcelsOf(j))

(* A drafted line, its identifier filled in.                               *)
LEMMA SecondLine ==
  ASSUME NEW x, NEW id, NEW line,
         line = Wire!Validated(Wire!PromisedLineDraft, Wire!CargoDefaults, x)
                @@ (<<"lineId">> :> id)
  PROVE  Wire!Validated(Wire!PromisedLine, Wire!CargoDefaults, line) = line
<1>1. PICK known : known = Wire!Known(Wire!PromisedLineDraft, x)
  OBVIOUS
<1>2. DOMAIN known \subseteq DOMAIN Wire!PromisedLine
  BY <1>1, CargoPaths DEF Wire!Known
<1>3. line = known @@ Wire!CargoDefaults @@ (<<"lineId">> :> id)
  BY <1>1, Zenon DEF Wire!Validated, Wire!@@, @@
<1>4. line = [q \in DOMAIN line |-> line[q]] /\ <<"metadata">> \in DOMAIN line
      /\ DOMAIN line = DOMAIN known \cup {<<"metadata">>} \cup {<<"lineId">>}
  BY <1>3 DEF @@, :>, Wire!CargoDefaults, Wire!:>
<1> QED BY <1>2, <1>4, CargoPaths, AlreadyValid

(* A stored parcel is left alone by the second validation.                 *)
LEMMA ParcelAgain ==
  ASSUME NEW x, NEW id, NEW parcel,
         parcel = Wire!Validated(Wire!ParcelDraft, Wire!CargoDefaults, x)
                  @@ ParcelDefaults @@ (<<"parcelId">> :> id)
  PROVE  Wire!Validated(Wire!Parcel, Wire!CargoDefaults, parcel) = parcel
<1>1. PICK known : known = Wire!Known(Wire!ParcelDraft, x)
  OBVIOUS
<1>2. DOMAIN known \subseteq DOMAIN Wire!Parcel
  BY <1>1, CargoPaths DEF Wire!Known
<1>3. parcel = known @@ Wire!CargoDefaults @@ ParcelDefaults @@ (<<"parcelId">> :> id)
  BY <1>1, Zenon DEF Wire!Validated, Wire!@@, @@
<1>4. DOMAIN ParcelDefaults = {<<"lineRefs">>, <<"status">>}
  BY DEF ParcelDefaults, @@, :>
<1>5. parcel = [q \in DOMAIN parcel |-> parcel[q]] /\ <<"metadata">> \in DOMAIN parcel
      /\ DOMAIN parcel = DOMAIN known \cup {<<"metadata">>} \cup {<<"lineRefs">>, <<"status">>}
                         \cup {<<"parcelId">>}
  BY <1>3, <1>4 DEF @@, :>, Wire!CargoDefaults, Wire!:>
<1> QED BY <1>2, <1>5, CargoPaths, AlreadyValid

(* A drafted parcel, its identifier filled in.                             *)
LEMMA SecondParcel ==
  ASSUME NEW x, NEW id, NEW parcel,
         parcel = Wire!Validated(Wire!ParcelDraft, Wire!CargoDefaults, x)
                  @@ ParcelDefaults @@ (<<"parcelId">> :> id)
  PROVE  Wire!Validated(Wire!Parcel, Wire!CargoDefaults, parcel) @@ ParcelDefaults = parcel
<1>1. PICK known : known = Wire!Known(Wire!ParcelDraft, x)
  OBVIOUS
<1>2. parcel = known @@ Wire!CargoDefaults @@ ParcelDefaults @@ (<<"parcelId">> :> id)
  BY <1>1, Zenon DEF Wire!Validated, Wire!@@, @@
<1>3. DOMAIN ParcelDefaults = {<<"lineRefs">>, <<"status">>}
  BY DEF ParcelDefaults, @@, :>
<1>4. parcel = [q \in DOMAIN parcel |-> parcel[q]] /\ <<"metadata">> \in DOMAIN parcel
      /\ DOMAIN parcel = DOMAIN known \cup {<<"metadata">>} \cup {<<"lineRefs">>, <<"status">>}
                         \cup {<<"parcelId">>}
  BY <1>2, <1>3 DEF @@, :>, Wire!CargoDefaults, Wire!:>
<1>5. Wire!Validated(Wire!Parcel, Wire!CargoDefaults, parcel) = parcel
  BY ParcelAgain
<1>6. DOMAIN parcel \cup DOMAIN ParcelDefaults = DOMAIN parcel
  BY <1>3, <1>4
<1>7. parcel @@ ParcelDefaults = [q \in DOMAIN parcel |-> parcel[q]]
  BY <1>6 DEF @@
<1> QED BY <1>4, <1>5, <1>7

(* The parts of a command and of a new fulfilment.                         *)
LEMMA CommandParts ==
  ASSUME NEW b, NEW lines, NEW parcels, NEW c, c = BodyToCommand(b, lines, parcels)
  PROVE  /\ c.place = Place(b) /\ c.lines = lines
         /\ c.collectionWindow = WindowAt(b, Collecting)
         /\ c.promisedWindow = WindowAt(b, Promised)
         /\ c.cargo = Below(b, Cargo) @@ CommandDefaults
         /\ c.parcels = [i \in DOMAIN parcels |-> parcels[i] @@ ParcelDefaults]
BY DEF BodyToCommand, Collecting, Promised

(* The windows of a command.                                               *)
LEMMA CommandTimes ==
  ASSUME NEW b, NEW lines, NEW parcels, NEW c, c = BodyToCommand(b, lines, parcels)
  PROVE  /\ c.collectionWindow = WindowAt(b, Collecting)
         /\ c.promisedWindow = WindowAt(b, Promised)
BY DEF BodyToCommand, Collecting, Promised

(* What a new fulfilment takes from its command.                           *)
LEMMA FulfilmentParts ==
  ASSUME NEW id, NEW tenant, NEW c, NEW f, f = FulfilmentCreate(id, tenant, c)
  PROVE  /\ f.id = id /\ f.tenantId = tenant
         /\ f.collection = [place |-> c.place, collectionWindow |-> c.collectionWindow]
         /\ f.promisedWindow = c.promisedWindow
         /\ f.carried = [cargo |-> c.cargo, lines |-> WithGenerated(<<"lineId">>, c.lines),
                         parcels |-> WithGenerated(<<"parcelId">>, c.parcels)]
BY DEF FulfilmentCreate

(* The second validation keeps the lines of a job...                       *)
LEMMA LinesKept ==
  ASSUME NEW p, NEW job,
         job.lines = WithGenerated(<<"lineId">>, LinesOf(p))
  PROVE  ShipmentLinesOf(job) = job.lines
<1>1. job.lines = [i \in DOMAIN p.lines |->
                     Wire!Validated(Wire!PromisedLineDraft, Wire!CargoDefaults, p.lines[i])
                     @@ (<<"lineId">> :> Wire!Id(17, i))]
  BY DEF WithGenerated, LinesOf, ValidatedAll
<1>2. ShipmentLinesOf(job) =
        [i \in DOMAIN job.lines |->
           Wire!Validated(Wire!PromisedLine, Wire!CargoDefaults, job.lines[i])]
  BY DEF ShipmentLinesOf, ValidatedAll
<1>3. ASSUME NEW i \in DOMAIN job.lines
      PROVE  Wire!Validated(Wire!PromisedLine, Wire!CargoDefaults, job.lines[i]) = job.lines[i]
  <2>1. job.lines[i] = Wire!Validated(Wire!PromisedLineDraft, Wire!CargoDefaults, p.lines[i])
                       @@ (<<"lineId">> :> Wire!Id(17, i))
    BY <1>1
  <2> QED BY <2>1, SecondLine
<1>4. job.lines = [i \in DOMAIN job.lines |-> job.lines[i]]
  BY <1>1
<1> QED BY <1>2, <1>3, <1>4

(* ...and its parcels.                                                     *)
LEMMA ParcelsKept ==
  ASSUME NEW p, NEW job,
         job.parcels = WithGenerated(<<"parcelId">>,
                         [i \in DOMAIN ParcelsOf(p) |-> ParcelsOf(p)[i] @@ ParcelDefaults])
  PROVE  [i \in DOMAIN ShipmentParcelsOf(job) |-> ShipmentParcelsOf(job)[i] @@ ParcelDefaults]
           = job.parcels
<1>1. job.parcels = [i \in DOMAIN p.parcels |->
                       Wire!Validated(Wire!ParcelDraft, Wire!CargoDefaults, p.parcels[i])
                       @@ ParcelDefaults @@ (<<"parcelId">> :> Wire!Id(17, i))]
  BY DEF WithGenerated, ParcelsOf, ValidatedAll
<1>2. ShipmentParcelsOf(job) =
        [i \in DOMAIN job.parcels |->
           Wire!Validated(Wire!Parcel, Wire!CargoDefaults, job.parcels[i])]
  BY DEF ShipmentParcelsOf, ValidatedAll
<1>3. ASSUME NEW i \in DOMAIN job.parcels
      PROVE  Wire!Validated(Wire!Parcel, Wire!CargoDefaults, job.parcels[i]) @@ ParcelDefaults
               = job.parcels[i]
  <2>1. job.parcels[i] = Wire!Validated(Wire!ParcelDraft, Wire!CargoDefaults, p.parcels[i])
                         @@ ParcelDefaults @@ (<<"parcelId">> :> Wire!Id(17, i))
    BY <1>1
  <2> QED BY <2>1, SecondParcel
<1>4. job.parcels = [i \in DOMAIN job.parcels |-> job.parcels[i]]
  BY <1>1
<1>5. [i \in DOMAIN ShipmentParcelsOf(job) |-> ShipmentParcelsOf(job)[i] @@ ParcelDefaults]
        = [i \in DOMAIN job.parcels |->
             Wire!Validated(Wire!Parcel, Wire!CargoDefaults, job.parcels[i]) @@ ParcelDefaults]
  BY <1>2
<1> QED BY <1>3, <1>4, <1>5

(* The paths a body of a fulfilment gives the place and the cargo.         *)
LEMMA FirstPaths ==
  ASSUME NEW p, NEW P, P = Place(BodyOf(p)),
         NEW C, C = Below(BodyOf(p), Cargo) @@ CommandDefaults
  PROVE  /\ P = [q \in DOMAIN P |-> P[q]] /\ C = [q \in DOMAIN C |-> C[q]]
         /\ \A q \in DOMAIN P : IsPlacePath(q)
         /\ \A q \in DOMAIN C : q[1] \in Cargo
         /\ DOMAIN P \cup DOMAIN C \subseteq DOMAIN Wire!CreateLastMileShipmentBody
         /\ {<<"metadata">>, <<"temperatureZone">>, <<"dropOff", "access">>} \subseteq DOMAIN C
<1> DEFINE b == BodyOf(p)
<1>1. DOMAIN Wire!Defaults = {<<"metadata">>, <<"sourceNote", "revision">>}
  BY DEF Wire!Defaults, Wire!CargoDefaults, Wire!@@, Wire!:>
<1>2. /\ DOMAIN b \subseteq DOMAIN Wire!CreateLastMileFulfilmentBody
                          \cup {<<"metadata">>, <<"sourceNote", "revision">>}
      /\ <<"metadata">> \in DOMAIN b
  BY <1>1 DEF BodyOf, Wire!Validated, Wire!Known, Wire!@@
<1> HIDE DEF b
<1>3. ASSUME NEW q \in DOMAIN b, q[1] \in Cargo \cup {"collection"}
      PROVE  q \in DOMAIN Wire!CreateLastMileShipmentBody
  <2>1. q[1] # "sourceNote" /\ q[1] # "orderRef"
    BY <1>3 DEF Cargo
  <2>2. <<"sourceNote", "revision">>[1] = "sourceNote"
    OBVIOUS
  <2>3. CASE q \in DOMAIN Wire!CreateLastMileFulfilmentBody
    BY <2>1, <2>3, FulfilmentBodyPaths
  <2>4. CASE q = <<"metadata">>
    BY <2>4, ShipmentBodyPaths
  <2> QED BY <1>2, <2>1, <2>2, <2>3, <2>4
<1>4. /\ DOMAIN P = {q \in DOMAIN b : IsPlacePath(q)} /\ P = [q \in DOMAIN P |-> P[q]]
  <2>1. PICK c : c = Below(b, {"collection"})
    OBVIOUS
  <2>2. DOMAIN c = {q \in DOMAIN b : q[1] = "collection"}
    BY <2>1 DEF Below
  <2>3. P = [q \in {s \in DOMAIN c : Len(s) = 1 \/ s[2] # "collectionWindow"} |-> c[q]]
    BY <2>1, Zenon DEF Place, b
  <2> QED BY <2>2, <2>3 DEF IsPlacePath
<1>5. DOMAIN CommandDefaults = {<<"temperatureZone">>, <<"dropOff", "access">>}
  BY DEF CommandDefaults, @@, :>
<1>6. /\ DOMAIN C = {q \in DOMAIN b : q[1] \in Cargo} \cup DOMAIN CommandDefaults
      /\ C = [q \in DOMAIN C |-> C[q]]
  BY DEF Below, @@, b
<1>7. /\ <<"temperatureZone">>[1] \in Cargo /\ <<"dropOff", "access">>[1] \in Cargo
      /\ <<"metadata">>[1] \in Cargo
  BY DEF Cargo
<1>8. \A q \in DOMAIN P \cup DOMAIN C : q \in DOMAIN Wire!CreateLastMileShipmentBody
  BY <1>3, <1>4, <1>5, <1>6, <1>7, ShipmentBodyPaths DEF IsPlacePath
<1> QED BY <1>2, <1>4, <1>5, <1>6, <1>7, <1>8 DEF IsPlacePath

(* A shipment that is the snapshot of a fulfilment.                        *)
SnapshotOf(id, f) ==
  [id |-> id, tenantId |-> f.tenantId, fulfilmentId |-> f.id, collection |-> f.collection,
   promisedWindow |-> f.promisedWindow, trip |-> None, status |-> "unfinalised",
   carried |-> f.carried, version |-> 1, createdAt |-> Now, updatedAt |-> Now]

(* A window of valid dates is not a missing one.                           *)
LEMMA WindowIsThere ==
  ASSUME NEW w, IsWindow(w)
  PROVE  w # None
<1>1. w \in Window
  BY DEF IsWindow, Window, Date
<1> QED BY <1>1, RowsAssumption

(* The job of a fulfilment whose dates are valid, read by POST /shipments. *)
LEMMA SecondPass ==
  ASSUME NEW p, NEW id, NEW f, f = FulfilmentOf(p, id),
         IsPoint(f.collection), IsWindow(f.promisedWindow),
         f.collection.collectionWindow = None \/ InYears(f.collection.collectionWindow),
         InYears(f.promisedWindow),
         NEW j, j = CreateShipmentPayload(f), NEW sid
  PROVE  /\ j.fulfilmentId = id
         /\ ShipmentCreate(sid, ShipmentBodyOf(j)[<<"tenantId">>], j.fulfilmentId,
                           ShipmentCommandOf(j)) = SnapshotOf(sid, f)
<1>1. PICK b, lines, parcels, c : /\ b = BodyOf(p) /\ lines = LinesOf(p) /\ parcels = ParcelsOf(p)
                                  /\ c = BodyToCommand(b, lines, parcels)
  OBVIOUS
<1>2. f = FulfilmentCreate(id, p.tenant, c)
  BY <1>1, Zenon DEF FulfilmentOf, CommandOf
<1>3. /\ c.place = Place(b) /\ c.lines = lines
      /\ c.collectionWindow = WindowAt(b, Collecting)
      /\ c.promisedWindow = WindowAt(b, Promised)
      /\ c.cargo = Below(b, Cargo) @@ CommandDefaults
      /\ c.parcels = [i \in DOMAIN parcels |-> parcels[i] @@ ParcelDefaults]
  BY <1>1, CommandParts
<1>4. /\ f.id = id /\ f.tenantId = p.tenant
      /\ f.collection = [place |-> c.place, collectionWindow |-> c.collectionWindow]
      /\ f.promisedWindow = c.promisedWindow
      /\ f.carried = [cargo |-> c.cargo, lines |-> WithGenerated(<<"lineId">>, c.lines),
                      parcels |-> WithGenerated(<<"parcelId">>, c.parcels)]
  BY <1>2, FulfilmentParts
<1>5. PICK P, C, cw, pw : /\ P = f.collection.place /\ C = f.carried.cargo
                          /\ cw = f.collection.collectionWindow /\ pw = f.promisedWindow
  OBVIOUS
<1>6. P = Place(BodyOf(p)) /\ C = Below(BodyOf(p), Cargo) @@ CommandDefaults
  BY <1>1, <1>3, <1>4, <1>5
<1>7. (cw = None \/ IsWindow(cw)) /\ IsWindow(pw) /\ pw # None
  BY <1>5, WindowIsThere DEF IsPoint
<1>8. /\ j.fields = FieldsOf(P, C, cw, pw, f.tenantId)
      /\ j.lines = f.carried.lines /\ j.parcels = f.carried.parcels /\ j.fulfilmentId = f.id
  BY <1>5 DEF CreateShipmentPayload, FieldsOf, Collecting, Promised
<1>9. /\ P = [q \in DOMAIN P |-> P[q]] /\ C = [q \in DOMAIN C |-> C[q]]
      /\ \A q \in DOMAIN P : IsPlacePath(q)
      /\ \A q \in DOMAIN C : q[1] \in Cargo
      /\ DOMAIN P \cup DOMAIN C \subseteq DOMAIN Wire!CreateLastMileShipmentBody
      /\ {<<"metadata">>, <<"temperatureZone">>, <<"dropOff", "access">>} \subseteq DOMAIN C
  BY <1>6, FirstPaths
<1>10. PICK s : s = ShipmentBodyOf(j)
  OBVIOUS
<1>11. /\ Place(s) = P /\ Below(s, Cargo) @@ CommandDefaults = C
       /\ WindowAt(s, Collecting) = cw /\ WindowAt(s, Promised) = pw
       /\ s[<<"tenantId">>] = f.tenantId
  <2>1. (cw = None \/ InYears(cw)) /\ InYears(pw)
    BY <1>5
  <2> QED BY <1>7, <1>8, <1>9, <1>10, <2>1, SecondBody DEF ShipmentBodyOf
<1>12. PICK d, dl, dp : /\ d = ShipmentCommandOf(j) /\ dl = ShipmentLinesOf(j)
                        /\ dp = ShipmentParcelsOf(j) /\ d = BodyToCommand(s, dl, dp)
  BY <1>10, Zenon DEF ShipmentCommandOf
<1>13. /\ d.place = P /\ d.cargo = C /\ d.collectionWindow = cw /\ d.promisedWindow = pw
       /\ d.lines = dl /\ d.parcels = [i \in DOMAIN dp |-> dp[i] @@ ParcelDefaults]
  BY <1>11, <1>12, CommandParts
<1>14. dl = f.carried.lines
  <2>1. j.lines = WithGenerated(<<"lineId">>, LinesOf(p))
    BY <1>1, <1>3, <1>4, <1>8
  <2> QED BY <1>8, <1>12, <2>1, LinesKept
<1>15. d.parcels = f.carried.parcels
  <2>1. j.parcels = WithGenerated(<<"parcelId">>,
                      [i \in DOMAIN ParcelsOf(p) |-> ParcelsOf(p)[i] @@ ParcelDefaults])
    BY <1>1, <1>3, <1>4, <1>8
  <2> QED BY <1>8, <1>12, <1>13, <2>1, ParcelsKept
<1>16. [cargo |-> d.cargo, lines |-> d.lines, parcels |-> d.parcels] = f.carried
  BY <1>4, <1>5, <1>13, <1>14, <1>15
<1>17. [place |-> d.place, collectionWindow |-> d.collectionWindow] = f.collection
  BY <1>4, <1>5, <1>13
<1>18. ShipmentCreate(sid, s[<<"tenantId">>], j.fulfilmentId, d) = SnapshotOf(sid, f)
  BY <1>5, <1>8, <1>11, <1>13, <1>16, <1>17 DEF ShipmentCreate, SnapshotOf
<1> QED BY <1>4, <1>8, <1>10, <1>12, <1>18

-----------------------------------------------------------------------------
(* Looking a path up in a schema that is put together of others.           *)
IsPath(q) == \E a, b : q = <<a>> \/ q = <<a, b>>

Shallow(schema) == \A q \in DOMAIN schema : IsPath(q)

(* Schemas without nesting are shallow,                                    *)
LEMMA ShallowLeaves ==
  ASSUME NEW r
  PROVE  Shallow(Wire!Leaves(r))
BY DEF Shallow, IsPath, Wire!Leaves

(* and so are those that nest once,                                        *)
LEMMA ShallowUnder ==
  ASSUME NEW k, NEW node, NEW r
  PROVE  Shallow(Wire!Under(k, node, Wire!Leaves(r)))
<1>1. ASSUME NEW q \in DOMAIN Wire!Under(k, node, Wire!Leaves(r))
      PROVE  IsPath(q)
  <2>1. q = <<k>> \/ \E s \in DOMAIN Wire!Leaves(r) : q = <<k>> \o s
    BY <1>1 DEF Wire!Under, Wire!@@, Wire!:>
  <2>2. q = <<k>> \/ \E l : q = <<k>> \o <<l>>
    BY <2>1 DEF Wire!Leaves
  <2>3. q = <<k>> \/ \E l : q = <<k, l>>
    BY <2>2, Pair, Zenon
  <2> QED BY <2>3 DEF IsPath
<1> QED BY <1>1 DEF Shallow

(* or lay such schemas side by side:                                       *)
LEMMA ShallowOver ==
  ASSUME NEW f, NEW g, Shallow(f), Shallow(g)
  PROVE  Shallow(Wire!@@(f, g))
BY DEF Shallow, Wire!@@

(* the parts both bodies nest.                                             *)
LEMMA ShallowSchemas ==
  /\ Shallow(Wire!CollectionPoint) /\ Shallow(Wire!DropOffPoint) /\ Shallow(Wire!Consignee)
  /\ Shallow(Wire!TimeWindow) /\ Shallow(Wire!Metadata)
  /\ Shallow(Wire!SourceNoteRef) /\ Shallow(Wire!OrderRef)
<1>1. Shallow(Wire!CollectionPoint)
  BY ShallowLeaves, ShallowUnder, ShallowOver
  DEF Wire!CollectionPoint, Wire!Address, Wire!GeoPoint, Wire!ContactRef, Wire!TimeWindow
<1>2. Shallow(Wire!DropOffPoint)
  BY ShallowLeaves, ShallowUnder, ShallowOver
  DEF Wire!DropOffPoint, Wire!Address, Wire!GeoPoint, Wire!AccessConstraints
<1>3. Shallow(Wire!Consignee)
  BY ShallowLeaves, ShallowUnder, ShallowOver DEF Wire!Consignee, Wire!ContactRef
<1>4. Shallow(Wire!TimeWindow) /\ Shallow(Wire!Metadata)
  BY ShallowLeaves DEF Wire!TimeWindow, Wire!Metadata
<1>5. Shallow(Wire!SourceNoteRef) /\ Shallow(Wire!OrderRef)
  BY ShallowLeaves DEF Wire!SourceNoteRef, Wire!OrderRef
<1> QED BY <1>1, <1>2, <1>3, <1>4, <1>5

(* A nested schema at its own path and at those it nests.                  *)
LEMMA UnderAt ==
  ASSUME NEW k, NEW node, NEW schema, Shallow(schema)
  PROVE  /\ \A q \in DOMAIN Wire!Under(k, node, schema) : q[1] = k
         /\ Wire!Under(k, node, schema)[<<k>>] = node
         /\ \A q \in DOMAIN schema : Wire!Under(k, node, schema)[<<k>> \o q] = schema[q]
<1>1. ASSUME NEW q \in DOMAIN schema
      PROVE  (<<k>> \o q)[1] = k /\ <<k>> \o q # <<k>> /\ Tail(<<k>> \o q) = q
  <2>1. PICK a, b : q = <<a>> \/ q = <<a, b>>
    BY <1>1 DEF Shallow, IsPath
  <2>2. CASE q = <<a>>
    <3>1. <<k>> \o q = <<k, a>>
      BY <2>2, Pair, Zenon
    <3>2. <<k, a>>[1] = k /\ <<k, a>> # <<k>> /\ Tail(<<k, a>>) = <<a>>
      OBVIOUS
    <3> QED BY <2>2, <3>1, <3>2, Zenon
  <2>3. CASE q = <<a, b>>
    <3>1. <<k>> \o q = <<k, a, b>>
      BY <2>3, TripleLeft, Zenon
    <3>2. /\ <<k, a, b>>[1] = k /\ <<k, a, b>> # <<k>> /\ Tail(<<k, a, b>>) = <<a, b>>
      OBVIOUS
    <3> QED BY <2>3, <3>1, <3>2, Zenon
  <2> QED BY <2>1, <2>2, <2>3
<1>2. /\ Wire!Under(k, node, schema) =
           [x \in {<<k>>} \cup {<<k>> \o q : q \in DOMAIN schema} |->
              IF x \in {<<k>>} THEN node ELSE schema[Tail(x)]]
  BY DEF Wire!Under, Wire!@@, Wire!:>
<1>3. PICK U : U = Wire!Under(k, node, schema)
  OBVIOUS
<1>4. U = [x \in {<<k>>} \cup {<<k>> \o q : q \in DOMAIN schema} |->
              IF x \in {<<k>>} THEN node ELSE schema[Tail(x)]]
  BY <1>2, <1>3, Zenon
<1>5. U[<<k>>] = node /\ <<k>>[1] = k
  BY <1>4
<1>6. ASSUME NEW q \in DOMAIN schema PROVE U[<<k>> \o q] = schema[q]
  BY <1>1, <1>4
<1>7. ASSUME NEW x \in DOMAIN U PROVE x[1] = k
  <2>1. x = <<k>> \/ \E q \in DOMAIN schema : x = <<k>> \o q
    BY <1>4
  <2> QED BY <1>1, <1>5, <2>1
<1> QED BY <1>3, <1>5, <1>6, <1>7, Zenon

-----------------------------------------------------------------------------
(* A schema without nesting at the path of each name.                      *)
LEMMA LeavesAt ==
  ASSUME NEW r
  PROVE  /\ \A q \in DOMAIN Wire!Leaves(r) : q = <<q[1]>> /\ q[1] \in DOMAIN r
         /\ \A k \in DOMAIN r : <<k>> \in DOMAIN Wire!Leaves(r) /\ Wire!Leaves(r)[<<k>>] = r[k]
<1>1. Wire!Leaves(r) = [p \in {<<k>> : k \in DOMAIN r} |-> r[p[1]]]
  BY DEF Wire!Leaves
<1>2. ASSUME NEW k PROVE <<k>>[1] = k
  OBVIOUS
<1> QED BY <1>1, <1>2, Zenon

(* All paths of a nested schema.                                           *)
LEMMA UnderPaths ==
  ASSUME NEW k, NEW node, NEW schema
  PROVE  DOMAIN Wire!Under(k, node, schema) = {<<k>>} \cup {<<k>> \o q : q \in DOMAIN schema}
BY DEF Wire!Under, Wire!@@, Wire!:>

(* A window in a schema.                                                   *)
Dated == Wire!Required({Leap} \cup Int)

(* A nested window has three paths: its own and those of its dates, which  *)
(* it requires.                                                            *)
LEMMA WindowAtPaths ==
  ASSUME NEW k, NEW node, NEW U, U = Wire!Under(k, node, Wire!TimeWindow)
  PROVE  /\ DOMAIN U = {<<k>>, <<k, "start">>, <<k, "end">>}
         /\ U[<<k>>] = node /\ U[<<k, "start">>] = Dated /\ U[<<k, "end">>] = Dated
<1>1. /\ DOMAIN Wire!TimeWindow = {<<"start">>, <<"end">>}
      /\ Wire!TimeWindow[<<"start">>] = Dated /\ Wire!TimeWindow[<<"end">>] = Dated
  BY LeavesAt DEF Wire!TimeWindow, Dated, Wire!Instant, Wire!Leaves
<1>2. <<k>> \o <<"start">> = <<k, "start">> /\ <<k>> \o <<"end">> = <<k, "end">>
  BY Pair, Zenon
<1>3. DOMAIN U = {<<k>>, <<k>> \o <<"start">>, <<k>> \o <<"end">>}
  <2>1. PICK S, s, e : S = DOMAIN Wire!TimeWindow /\ s = <<"start">> /\ e = <<"end">> /\ S = {s, e}
    BY <1>1
  <2>2. DOMAIN U = {<<k>>} \cup {<<k>> \o q : q \in S}
    BY <2>1, UnderPaths
  <2>3. {<<k>> \o q : q \in {s, e}} = {<<k>> \o s, <<k>> \o e}
    OBVIOUS
  <2>4. DOMAIN U = {<<k>>, <<k>> \o s, <<k>> \o e}
    BY <2>1, <2>2, <2>3
  <2> QED BY <2>1, <2>4, Zenon
<1>4. U[<<k>>] = node /\ \A q \in DOMAIN Wire!TimeWindow : U[<<k>> \o q] = Wire!TimeWindow[q]
  BY UnderAt, ShallowSchemas
<1> QED BY <1>1, <1>2, <1>3, <1>4, Zenon

(* Of two schemas side by side, the paths of both.                         *)
LEMMA OverDomain ==
  ASSUME NEW f, NEW g
  PROVE  DOMAIN Wire!@@(f, g) = DOMAIN f \cup DOMAIN g
BY DEF Wire!@@

(* Every path of a nested schema starts with its name.                     *)
LEMMA UnderStarts ==
  ASSUME NEW k, NEW node, NEW schema, Shallow(schema)
  PROVE  \A q \in DOMAIN Wire!Under(k, node, schema) : q[1] = k
<1>1. /\ \A q \in DOMAIN Wire!Under(k, node, schema) : q[1] = k
      /\ Wire!Under(k, node, schema)[<<k>>] = node
      /\ \A q \in DOMAIN schema : Wire!Under(k, node, schema)[<<k>> \o q] = schema[q]
  BY UnderAt
<1> QED BY <1>1

(* The parts that a collection or a drop-off point nests.                  *)
LEMMA LeafSchemas ==
  /\ Shallow(Wire!Address) /\ Shallow(Wire!GeoPoint) /\ Shallow(Wire!ContactRef)
  /\ Shallow(Wire!AccessConstraints)
BY ShallowLeaves DEF Wire!Address, Wire!GeoPoint, Wire!ContactRef, Wire!AccessConstraints

Parent(q) == SubSeq(q, 1, Len(q) - 1)

(* A path without its last name.                                           *)
LEMMA ParentOf ==
  ASSUME NEW a, NEW b, NEW c
  PROVE  Parent(<<a, b>>) = <<a>> /\ Parent(<<a, b, c>>) = <<a, b>>
<1> DEFINE S == {a, b, c}
<1>1. PICK q : q = <<a, b, c>>
  OBVIOUS
<1>2. q \in Seq(S) /\ Len(q) = 3 /\ q[1] = a /\ q[2] = b
  BY <1>1
<1>3. PICK r : r = <<a, b>>
  OBVIOUS
<1>4. r \in Seq(S) /\ Len(r) = 2 /\ r[1] = a /\ r[2] = b
  BY <1>3
<1>5. PICK s : s = <<a>>
  OBVIOUS
<1>6. s \in Seq(S) /\ Len(s) = 1 /\ s[1] = a
  BY <1>5
<1> HIDE DEF S
<1>7. SubSeq(q, 1, 2) = r
  BY <1>2, <1>4
<1>8. SubSeq(r, 1, 1) = s
  BY <1>4, <1>6
<1> QED BY <1>1, <1>2, <1>3, <1>4, <1>5, <1>7, <1>8 DEF Parent

(* The shape of every path of a schema.                                    *)
Regular(q) ==
  \/ Len(q) = 1 /\ q = <<q[1]>>
  \/ /\ Len(q) \in Nat /\ Len(q) > 1 /\ Parent(q)[1] = q[1]
     /\ Len(q) = 2 => Parent(q) = <<q[1]>> /\ q = <<q[1], q[2]>>
     /\ Len(q) > 2 => /\ Parent(q)[2] = q[2] /\ Len(Parent(q)) = 2
                      /\ q = <<q[1], q[2], q[3]>>

(* A path of a nested shallow schema.                                      *)
LEMMA Prefixed ==
  ASSUME NEW k, NEW s, IsPath(s), NEW q, q = <<k>> \o s
  PROVE  q[1] = k /\ q[2] = s[1] /\ Len(q) > 1 /\ Regular(q)
<1>1. PICK a, b : s = <<a>> \/ s = <<a, b>>
  BY DEF IsPath
<1>2. CASE s = <<a>>
  <2>1. q = <<k, a>>
    BY <1>2, Pair, Zenon
  <2>2. Len(<<k, a>>) = 2 /\ <<k, a>>[1] = k /\ <<k, a>>[2] = a /\ <<k>>[1] = k /\ <<a>>[1] = a
    OBVIOUS
  <2>3. PICK r : r = <<k, a>>
    OBVIOUS
  <2>4. Parent(r) = <<k>>
    BY <2>3, ParentOf, Zenon
  <2>5. Len(q) = 2 /\ q[1] = k /\ q[2] = a /\ s[1] = a
    BY <1>2, <2>1, <2>2, Zenon
  <2>6. Parent(q) = <<k>> /\ Parent(q)[1] = k /\ q = <<k, q[2]>>
    BY <2>1, <2>2, <2>3, <2>4, <2>5, Zenon
  <2>7. Regular(q)
    BY <2>5, <2>6 DEF Regular
  <2> QED BY <2>5, <2>7
<1>3. CASE s = <<a, b>>
  <2>1. q = <<k, a, b>>
    BY <1>3, TripleLeft, Zenon
  <2>2. /\ Len(<<k, a, b>>) = 3 /\ <<k, a, b>>[1] = k /\ <<k, a, b>>[2] = a /\ <<k, a, b>>[3] = b
        /\ <<k, a>>[1] = k /\ <<k, a>>[2] = a /\ <<a, b>>[1] = a /\ Len(<<k, a>>) = 2
    OBVIOUS
  <2>3. PICK r : r = <<k, a, b>>
    OBVIOUS
  <2>4. Parent(r) = <<k, a>>
    BY <2>3, ParentOf, Zenon
  <2>5. Len(q) = 3 /\ q[1] = k /\ q[2] = a /\ q[3] = b /\ s[1] = a
    BY <1>3, <2>1, <2>2, Zenon
  <2>6. /\ Parent(q)[1] = k /\ Parent(q)[2] = q[2] /\ Len(Parent(q)) = 2
        /\ q = <<k, q[2], q[3]>>
    BY <2>1, <2>2, <2>3, <2>4, <2>5, Zenon
  <2>7. Regular(q)
    BY <2>5, <2>6 DEF Regular
  <2> QED BY <2>5, <2>7
<1> QED BY <1>1, <1>2, <1>3

(* The window a collection point may have.                                 *)
LEMMA CollectionPointAt ==
  LET W == {<<"collectionWindow">>, <<"collectionWindow", "start">>, <<"collectionWindow", "end">>}
      CP == Wire!CollectionPoint
  IN  /\ W \subseteq DOMAIN CP
      /\ \A q \in DOMAIN CP : q[1] = "collectionWindow" => q \in W
      /\ CP[<<"collectionWindow">>] = Wire!Optional(Wire!Node)
      /\ CP[<<"collectionWindow", "start">>] = Dated
      /\ CP[<<"collectionWindow", "end">>] = Dated
<1> DEFINE L == Wire!Leaves([locationId |-> Wire!Optional(0..40), name |-> Wire!Required(1..200),
                                       dockRef |-> Wire!Optional(0..100), accessNotes |-> Wire!Optional(0..2000)])
           A == Wire!Under("address", Wire!Required(Wire!Node), Wire!Address)
           G == Wire!Under("geo", Wire!Optional(Wire!Node), Wire!GeoPoint)
           K == Wire!Under("contact", Wire!Optional(Wire!Node), Wire!ContactRef)
           U == Wire!Under("collectionWindow", Wire!Optional(Wire!Node), Wire!TimeWindow)
<1>1. Wire!CollectionPoint = Wire!@@(Wire!@@(Wire!@@(Wire!@@(L, A), G), K), U)
  BY DEF Wire!CollectionPoint
<1>3. \A q \in DOMAIN L : q[1] # "collectionWindow"
  BY LeavesAt
<1>4. \A q \in DOMAIN A : q[1] # "collectionWindow"
  <2>1. \A q \in DOMAIN A : q[1] = "address"
    BY UnderStarts, LeafSchemas
  <2> QED BY <2>1
<1>5. \A q \in DOMAIN G : q[1] # "collectionWindow"
  <2>1. \A q \in DOMAIN G : q[1] = "geo"
    BY UnderStarts, LeafSchemas
  <2> QED BY <2>1
<1>6. \A q \in DOMAIN K : q[1] # "collectionWindow"
  <2>1. \A q \in DOMAIN K : q[1] = "contact"
    BY UnderStarts, LeafSchemas
  <2> QED BY <2>1
<1>7. /\ DOMAIN U = {<<"collectionWindow">>, <<"collectionWindow", "start">>,
                     <<"collectionWindow", "end">>}
      /\ U[<<"collectionWindow">>] = Wire!Optional(Wire!Node)
      /\ U[<<"collectionWindow", "start">>] = Dated
      /\ U[<<"collectionWindow", "end">>] = Dated
  BY WindowAtPaths
<1> HIDE DEF L, A, G, K, U
<1>8. PICK R : R = Wire!@@(Wire!@@(Wire!@@(L, A), G), K)
  OBVIOUS
<1>9. \A q \in DOMAIN R : q[1] # "collectionWindow"
  <2>1. DOMAIN R = DOMAIN L \cup DOMAIN A \cup DOMAIN G \cup DOMAIN K
    BY <1>8 DEF Wire!@@
  <2> QED BY <1>3, <1>4, <1>5, <1>6, <2>1
<1>10. \A q \in DOMAIN U : q[1] = "collectionWindow"
  BY UnderStarts, ShallowSchemas DEF U
<1>11. /\ DOMAIN Wire!CollectionPoint = DOMAIN R \cup DOMAIN U
       /\ \A q \in DOMAIN U : Wire!CollectionPoint[q] = U[q]
  <2>1. Wire!CollectionPoint = Wire!@@(R, U)
    BY <1>1, <1>8, Zenon
  <2>2. \A q \in DOMAIN U : q \notin DOMAIN R
    BY <1>9, <1>10
  <2>3. \A q \in DOMAIN U : Wire!@@(R, U)[q] = U[q]
    BY <2>2 DEF Wire!@@
  <2> QED BY <2>1, <2>3, OverDomain
<1> QED BY <1>7, <1>9, <1>11, Zenon

(* The same window, seen from the body.                                    *)
LEMMA CollectionAt ==
  ASSUME NEW U, U = Wire!Under("collection", Wire!Required(Wire!Node), Wire!CollectionPoint)
  PROVE  /\ {<<"collection">>, Collecting, Collecting \o <<"start">>, Collecting \o <<"end">>}
              \subseteq DOMAIN U
         /\ \A q \in DOMAIN U : q[1] = "collection"
         /\ \A q \in DOMAIN U : Len(q) > 1 /\ q[2] = "collectionWindow" =>
              q \in {Collecting, Collecting \o <<"start">>, Collecting \o <<"end">>}
         /\ U[Collecting] = Wire!Optional(Wire!Node)
         /\ U[Collecting \o <<"start">>] = Dated /\ U[Collecting \o <<"end">>] = Dated
<1>1. PICK n, s, e : n = <<"collectionWindow">> /\ s = <<"collectionWindow", "start">>
                     /\ e = <<"collectionWindow", "end">>
  OBVIOUS
<1>2. /\ <<"collection">> \o n = Collecting
      /\ <<"collection">> \o s = Collecting \o <<"start">>
      /\ <<"collection">> \o e = Collecting \o <<"end">>
  <2>1. /\ <<"collection">> \o n = <<"collection", "collectionWindow">>
        /\ <<"collection">> \o s = <<"collection", "collectionWindow", "start">>
        /\ <<"collection">> \o e = <<"collection", "collectionWindow", "end">>
    BY <1>1, Pair, TripleLeft, Zenon
  <2>2. Collecting = <<"collection", "collectionWindow">>
    BY DEF Collecting
  <2> QED BY <2>1, <2>2, WindowPaths, Zenon
<1>3. /\ {n, s, e} \subseteq DOMAIN Wire!CollectionPoint
      /\ \A q \in DOMAIN Wire!CollectionPoint : q[1] = "collectionWindow" => q \in {n, s, e}
      /\ Wire!CollectionPoint[n] = Wire!Optional(Wire!Node)
      /\ Wire!CollectionPoint[s] = Dated /\ Wire!CollectionPoint[e] = Dated
  BY <1>1, CollectionPointAt
<1>4. /\ \A q \in DOMAIN U : q[1] = "collection"
      /\ \A q \in DOMAIN Wire!CollectionPoint :
           U[<<"collection">> \o q] = Wire!CollectionPoint[q]
  BY UnderAt, ShallowSchemas
<1>5. DOMAIN U = {<<"collection">>} \cup {<<"collection">> \o q : q \in DOMAIN Wire!CollectionPoint}
  BY UnderPaths
<1>6. ASSUME NEW q \in DOMAIN U, Len(q) > 1, q[2] = "collectionWindow"
      PROVE  q \in {<<"collection">> \o n, <<"collection">> \o s, <<"collection">> \o e}
  <2>1. q # <<"collection">>
    BY <1>6
  <2>2. PICK r \in DOMAIN Wire!CollectionPoint : q = <<"collection">> \o r
    BY <1>5, <2>1
  <2>3. q[2] = r[1]
    BY <2>2, Prefixed, ShallowSchemas DEF Shallow
  <2> QED BY <1>3, <1>6, <2>2, <2>3
<1>7. {<<"collection">>, <<"collection">> \o n, <<"collection">> \o s, <<"collection">> \o e}
         \subseteq DOMAIN U
  BY <1>3, <1>5
<1> QED BY <1>2, <1>3, <1>4, <1>6, <1>7, Zenon

(* A drop-off point may have access constraints, none of them required.    *)
LEMMA DropOffAt ==
  ASSUME NEW U, U = Wire!Under("dropOff", Wire!Required(Wire!Node), Wire!DropOffPoint)
  PROVE  /\ <<"dropOff", "access">> \in DOMAIN U
         /\ \A q \in DOMAIN U : q[1] = "dropOff"
         /\ U[<<"dropOff", "access">>] = Wire!Optional(Wire!Node)
         /\ \A q \in DOMAIN U : Len(q) > 1 /\ q[2] = "access" => ~U[q].required
<1> DEFINE L == Wire!Leaves([locationId |-> Wire!Optional(0..40), name |-> Wire!Required(1..200),
                                       deliveryInstructions |-> Wire!Optional(0..2000),
                                       unattendedDeliveryAllowed |-> Wire!Required(Wire!Boolean)])
           A == Wire!Under("address", Wire!Required(Wire!Node), Wire!Address)
           G == Wire!Under("geo", Wire!Optional(Wire!Node), Wire!GeoPoint)
           K == Wire!Under("access", Wire!Optional(Wire!Node), Wire!AccessConstraints)
<1>2. Wire!DropOffPoint = Wire!@@(Wire!@@(Wire!@@(L, A), G), K)
  BY DEF Wire!DropOffPoint
<1>3. \A q \in DOMAIN L : q[1] # "access"
  BY LeavesAt
<1>4. \A q \in DOMAIN A : q[1] # "access"
  <2>1. \A q \in DOMAIN A : q[1] = "address"
    BY UnderStarts, LeafSchemas
  <2> QED BY <2>1
<1>5. \A q \in DOMAIN G : q[1] # "access"
  <2>1. \A q \in DOMAIN G : q[1] = "geo"
    BY UnderStarts, LeafSchemas
  <2> QED BY <2>1
<1>6. /\ \A q \in DOMAIN K : q[1] = "access"
      /\ K[<<"access">>] = Wire!Optional(Wire!Node)
      /\ \A q \in DOMAIN K : ~K[q].required
  <2>1. PICK AC : AC = Wire!AccessConstraints
    OBVIOUS
  <2>2. \A q \in DOMAIN AC : ~AC[q].required
    BY <2>1 DEF Wire!AccessConstraints, Wire!Leaves, Wire!Optional
  <2>3. Shallow(AC)
    BY <2>1, ShallowLeaves DEF Wire!AccessConstraints
  <2>4. K = Wire!Under("access", Wire!Optional(Wire!Node), AC)
    BY <2>1
  <2>5. /\ \A q \in DOMAIN K : q[1] = "access"
        /\ K[<<"access">>] = Wire!Optional(Wire!Node)
        /\ \A q \in DOMAIN AC : K[<<"access">> \o q] = AC[q]
    BY <2>3, <2>4, UnderAt
  <2>6. DOMAIN K = {<<"access">>} \cup {<<"access">> \o q : q \in DOMAIN AC}
    BY <2>4, UnderPaths
  <2>7. ~Wire!Optional(Wire!Node).required
    BY DEF Wire!Optional
  <2> QED BY <2>2, <2>5, <2>6, <2>7
<1> HIDE DEF L, A, G, K
<1>7. PICK R : R = Wire!@@(Wire!@@(L, A), G)
  OBVIOUS
<1>8. \A q \in DOMAIN R : q[1] # "access"
  <2>1. DOMAIN R = DOMAIN L \cup DOMAIN A \cup DOMAIN G
    BY <1>7 DEF Wire!@@
  <2> QED BY <1>3, <1>4, <1>5, <2>1
<1>9. PICK D : D = Wire!DropOffPoint
  OBVIOUS
<1>10. /\ DOMAIN D = DOMAIN R \cup DOMAIN K
       /\ \A q \in DOMAIN K : D[q] = K[q]
  <2>1. D = Wire!@@(R, K)
    BY <1>2, <1>7, <1>9, Zenon
  <2>2. \A q \in DOMAIN K : q \notin DOMAIN R
    BY <1>6, <1>8
  <2>3. \A q \in DOMAIN K : Wire!@@(R, K)[q] = K[q]
    BY <2>2 DEF Wire!@@
  <2> QED BY <2>1, <2>3, OverDomain
<1>11. <<"access">> \in DOMAIN K
  BY UnderPaths DEF K
<1>12. /\ \A q \in DOMAIN U : q[1] = "dropOff"
       /\ \A q \in DOMAIN D : U[<<"dropOff">> \o q] = D[q]
  BY <1>9, UnderAt, ShallowSchemas
<1>13. DOMAIN U = {<<"dropOff">>} \cup {<<"dropOff">> \o q : q \in DOMAIN D}
  BY <1>9, UnderPaths
<1>14. <<"dropOff">> \o <<"access">> = <<"dropOff", "access">>
  BY Pair, Zenon
<1>15. ASSUME NEW q \in DOMAIN U, Len(q) > 1, q[2] = "access"
       PROVE  ~U[q].required
  <2>1. q # <<"dropOff">>
    BY <1>15
  <2>2. PICK r \in DOMAIN D : q = <<"dropOff">> \o r
    BY <1>13, <2>1
  <2>3. q[2] = r[1]
    BY <1>9, <2>2, Prefixed, ShallowSchemas DEF Shallow
  <2> QED BY <1>6, <1>8, <1>10, <1>12, <1>15, <2>2, <2>3
<1>16. PICK x : x = <<"access">>
  OBVIOUS
<1>17. x \in DOMAIN K /\ x \in DOMAIN D /\ D[x] = K[x] /\ K[x] = Wire!Optional(Wire!Node)
  BY <1>6, <1>10, <1>11, <1>16
<1>18. <<"dropOff">> \o x \in DOMAIN U /\ U[<<"dropOff">> \o x] = Wire!Optional(Wire!Node)
  BY <1>12, <1>13, <1>17
<1> QED BY <1>12, <1>14, <1>15, <1>16, <1>18, Zenon

(* The paths of nested shallow schemas are regular,                        *)
LEMMA UnderRegular ==
  ASSUME NEW k, NEW node, NEW schema, Shallow(schema)
  PROVE  \A q \in DOMAIN Wire!Under(k, node, schema) : Regular(q)
<1> SUFFICES ASSUME NEW q \in DOMAIN Wire!Under(k, node, schema) PROVE Regular(q)
  OBVIOUS
<1>1. CASE q = <<k>>
  <2>1. Len(<<k>>) = 1 /\ <<k>>[1] = k
    OBVIOUS
  <2> QED BY <1>1, <2>1, Zenon DEF Regular
<1>2. CASE q # <<k>>
  <2>1. PICK s \in DOMAIN schema : q = <<k>> \o s
    <3>1. q \in {<<k>>} \cup {<<k>> \o s : s \in DOMAIN schema}
      BY UnderPaths, Zenon
    <3> QED BY <1>2, <3>1
  <2>2. IsPath(s)
    BY DEF Shallow
  <2> QED BY <2>1, <2>2, Prefixed
<1> QED BY <1>1, <1>2

(* and so are those without nesting.                                       *)
LEMMA LeafRegular ==
  ASSUME NEW r
  PROVE  \A q \in DOMAIN Wire!Leaves(r) : Regular(q)
<1>1. ASSUME NEW q \in DOMAIN Wire!Leaves(r) PROVE Len(q) = 1 /\ q = <<q[1]>>
  <2>1. q = <<q[1]>>
    BY LeavesAt
  <2>2. PICK k : q = <<k>>
    BY <2>1
  <2> QED BY <2>1, <2>2
<1> QED BY <1>1 DEF Regular

Periods(q) == {q, q \o <<"start">>, q \o <<"end">>}

(* What both bodies have in common.                                        *)
LEMMA SnapshotAt ==
  ASSUME NEW S, S = Wire!Snapshot
  PROVE  /\ Periods(Collecting) \cup Periods(Promised) \subseteq DOMAIN S
         /\ S[Collecting] = Wire!Optional(Wire!Node) /\ S[Promised] = Wire!Required(Wire!Node)
         /\ S[Collecting \o <<"start">>] = Dated /\ S[Collecting \o <<"end">>] = Dated
         /\ S[Promised \o <<"start">>] = Dated /\ S[Promised \o <<"end">>] = Dated
         /\ {<<"dropOff", "access">>, <<"temperatureZone">>} \subseteq DOMAIN S
         /\ S[<<"dropOff", "access">>] = Wire!Optional(Wire!Node)
         /\ S[<<"temperatureZone">>] = Wire!Optional(Wire!Enum(Wire!TemperatureZone))
         /\ \A q \in DOMAIN S :
              /\ Regular(q) /\ q[1] \in Cargo \cup {"collection", "promisedWindow"}
              /\ q[1] = "temperatureZone" => q = <<"temperatureZone">>
              /\ q[1] = "promisedWindow" => q \in Periods(Promised)
              /\ q[1] = "collection" /\ Len(q) > 1 /\ q[2] = "collectionWindow"
                   => q \in Periods(Collecting)
              /\ q[1] = "dropOff" /\ Len(q) > 1 /\ q[2] = "access" => ~S[q].required
<1> DEFINE L  == Wire!Leaves([temperatureZone |-> Wire!Optional(Wire!Enum(Wire!TemperatureZone)),
                              handling |-> Wire!Optional(Wire!Enum(Wire!HandlingFlag))])
           CO == Wire!Under("collection", Wire!Required(Wire!Node), Wire!CollectionPoint)
           DR == Wire!Under("dropOff", Wire!Required(Wire!Node), Wire!DropOffPoint)
           CN == Wire!Under("consignee", Wire!Required(Wire!Node), Wire!Consignee)
           PW == Wire!Under("promisedWindow", Wire!Required(Wire!Node), Wire!TimeWindow)
           MD == Wire!Under("metadata", Wire!Optional(0..50), Wire!Metadata)
<1>1. S = Wire!@@(Wire!@@(Wire!@@(Wire!@@(Wire!@@(L, CO), DR), CN), PW), MD)
  BY DEF Wire!Snapshot
<1>2. /\ \A q \in DOMAIN L : Regular(q) /\ q = <<q[1]>> /\ q[1] \in {"temperatureZone", "handling"}
      /\ <<"temperatureZone">> \in DOMAIN L
      /\ L[<<"temperatureZone">>] = Wire!Optional(Wire!Enum(Wire!TemperatureZone))
  BY LeavesAt, LeafRegular
<1>3. \A q \in DOMAIN CO : Regular(q) /\ q[1] = "collection"
  BY UnderStarts, UnderRegular, ShallowSchemas
<1>4. \A q \in DOMAIN DR : Regular(q) /\ q[1] = "dropOff"
  BY UnderStarts, UnderRegular, ShallowSchemas
<1>5. \A q \in DOMAIN CN : Regular(q) /\ q[1] = "consignee"
  BY UnderStarts, UnderRegular, ShallowSchemas
<1>6. \A q \in DOMAIN PW : Regular(q) /\ q[1] = "promisedWindow"
  BY UnderStarts, UnderRegular, ShallowSchemas
<1>7. \A q \in DOMAIN MD : Regular(q) /\ q[1] = "metadata"
  BY UnderStarts, UnderRegular, ShallowSchemas
<1>8. /\ Periods(Collecting) \subseteq DOMAIN CO
      /\ CO[Collecting] = Wire!Optional(Wire!Node)
      /\ CO[Collecting \o <<"start">>] = Dated /\ CO[Collecting \o <<"end">>] = Dated
      /\ \A q \in DOMAIN CO : Len(q) > 1 /\ q[2] = "collectionWindow" => q \in Periods(Collecting)
  BY CollectionAt DEF Periods
<1>9. /\ <<"dropOff", "access">> \in DOMAIN DR
      /\ DR[<<"dropOff", "access">>] = Wire!Optional(Wire!Node)
      /\ \A q \in DOMAIN DR : Len(q) > 1 /\ q[2] = "access" => ~DR[q].required
  BY DropOffAt
<1>10. /\ DOMAIN PW = Periods(Promised)
       /\ PW[Promised] = Wire!Required(Wire!Node)
       /\ PW[Promised \o <<"start">>] = Dated /\ PW[Promised \o <<"end">>] = Dated
  <2>1. /\ DOMAIN PW = {<<"promisedWindow">>, <<"promisedWindow", "start">>,
                        <<"promisedWindow", "end">>}
        /\ PW[<<"promisedWindow">>] = Wire!Required(Wire!Node)
        /\ PW[<<"promisedWindow", "start">>] = Dated /\ PW[<<"promisedWindow", "end">>] = Dated
    BY WindowAtPaths
  <2>2. Promised = <<"promisedWindow">>
    BY DEF Promised
  <2> QED BY <2>1, <2>2, WindowPaths, Zenon DEF Periods
<1> HIDE DEF L, CO, DR, CN, PW, MD
<1>11. DOMAIN S = DOMAIN L \cup DOMAIN CO \cup DOMAIN DR \cup DOMAIN CN \cup DOMAIN PW \cup DOMAIN MD
  BY <1>1 DEF Wire!@@
<1>12. /\ \A q \in DOMAIN L : q \notin DOMAIN CO \cup DOMAIN DR \cup DOMAIN CN \cup DOMAIN PW \cup DOMAIN MD
       /\ \A q \in DOMAIN CO : q \notin DOMAIN L
       /\ \A q \in DOMAIN DR : q \notin DOMAIN L \cup DOMAIN CO
       /\ \A q \in DOMAIN PW : q \notin DOMAIN L \cup DOMAIN CO \cup DOMAIN DR \cup DOMAIN CN
  BY <1>2, <1>3, <1>4, <1>5, <1>6, <1>7
<1>13. /\ \A q \in DOMAIN L : S[q] = L[q]
       /\ \A q \in DOMAIN CO : S[q] = CO[q]
       /\ \A q \in DOMAIN DR : S[q] = DR[q]
       /\ \A q \in DOMAIN PW : S[q] = PW[q]
  BY <1>1, <1>12 DEF Wire!@@
<1>14. /\ Collecting \in DOMAIN CO /\ Collecting \o <<"start">> \in DOMAIN CO
       /\ Collecting \o <<"end">> \in DOMAIN CO
       /\ Promised \in DOMAIN PW /\ Promised \o <<"start">> \in DOMAIN PW
       /\ Promised \o <<"end">> \in DOMAIN PW
  BY <1>8, <1>10 DEF Periods
<1>15. Periods(Collecting) \cup Periods(Promised) \cup {<<"dropOff", "access">>, <<"temperatureZone">>}
         \subseteq DOMAIN S
  BY <1>2, <1>8, <1>9, <1>10, <1>11
<1>16. /\ S[Collecting] = Wire!Optional(Wire!Node) /\ S[Promised] = Wire!Required(Wire!Node)
       /\ S[Collecting \o <<"start">>] = Dated /\ S[Collecting \o <<"end">>] = Dated
       /\ S[Promised \o <<"start">>] = Dated /\ S[Promised \o <<"end">>] = Dated
       /\ S[<<"dropOff", "access">>] = Wire!Optional(Wire!Node)
       /\ S[<<"temperatureZone">>] = Wire!Optional(Wire!Enum(Wire!TemperatureZone))
  BY <1>2, <1>8, <1>9, <1>10, <1>13, <1>14
<1>17. ASSUME NEW q \in DOMAIN S
       PROVE  /\ Regular(q) /\ q[1] \in Cargo \cup {"collection", "promisedWindow"}
              /\ q[1] = "temperatureZone" => q = <<"temperatureZone">>
              /\ q[1] = "promisedWindow" => q \in Periods(Promised)
              /\ q[1] = "collection" /\ Len(q) > 1 /\ q[2] = "collectionWindow"
                   => q \in Periods(Collecting)
              /\ q[1] = "dropOff" /\ Len(q) > 1 /\ q[2] = "access" => ~S[q].required
  <2>1. Cargo = {"dropOff", "consignee", "temperatureZone", "handling", "metadata"}
    BY DEF Cargo
  <2>2. CASE q \in DOMAIN L
    BY <1>2, <2>1, <2>2
  <2>3. CASE q \in DOMAIN CO
    BY <1>3, <1>8, <2>1, <2>3
  <2>4. CASE q \in DOMAIN DR
    BY <1>4, <1>9, <1>13, <2>1, <2>4
  <2>5. CASE q \in DOMAIN CN
    BY <1>5, <2>1, <2>5
  <2>6. CASE q \in DOMAIN PW
    BY <1>6, <1>10, <2>1, <2>6
  <2>7. CASE q \in DOMAIN MD
    BY <1>7, <2>1, <2>7
  <2> QED BY <1>11, <2>2, <2>3, <2>4, <2>5, <2>6, <2>7
<1> QED BY <1>15, <1>16, <1>17

(* Both bodies are checked alike where they have the same field.           *)
LEMMA BodiesAt ==
  ASSUME NEW q \in DOMAIN Wire!Snapshot
  PROVE  /\ q \in DOMAIN Wire!CreateLastMileFulfilmentBody
         /\ q \in DOMAIN Wire!CreateLastMileShipmentBody
         /\ Wire!CreateLastMileFulfilmentBody[q] = Wire!Snapshot[q]
         /\ Wire!CreateLastMileShipmentBody[q] = Wire!Snapshot[q]
BY DEF Wire!@@, Wire!CreateLastMileFulfilmentBody, Wire!CreateLastMileShipmentBody

(* The dates of the windows of an accepted body are there.                 *)
LEMMA DatesThere ==
  ASSUME NEW b, Wire!Fits(Wire!CreateLastMileFulfilmentBody, b),
         NEW q \in {Collecting, Promised}, q \in DOMAIN b
  PROVE  /\ q \o <<"start">> \in DOMAIN b /\ b[q \o <<"start">>] \in {Leap} \cup Int
         /\ q \o <<"end">> \in DOMAIN b /\ b[q \o <<"end">>] \in {Leap} \cup Int
<1> DEFINE schema == Wire!CreateLastMileFulfilmentBody
<1>0. PICK S : S = Wire!Snapshot
  OBVIOUS
<1>1. /\ Periods(Collecting) \cup Periods(Promised) \subseteq DOMAIN S
      /\ S[Collecting \o <<"start">>] = Dated /\ S[Collecting \o <<"end">>] = Dated
      /\ S[Promised \o <<"start">>] = Dated /\ S[Promised \o <<"end">>] = Dated
  BY <1>0, SnapshotAt
<1>2. Dated.required /\ Dated.allowed = {Leap} \cup Int
  BY DEF Dated, Wire!Required
<1>3. \A s \in DOMAIN S : s \in DOMAIN schema /\ schema[s] = S[s]
  BY <1>0, BodiesAt
<1> HIDE DEF schema
<1>4. /\ \A s \in DOMAIN schema :
           /\ schema[s].required
           /\ Len(s) = 1 \/ Parent(s) \in DOMAIN b
           => s \in DOMAIN b
      /\ \A s \in DOMAIN b \cap DOMAIN schema : b[s] \in schema[s].allowed
  BY DEF Wire!Fits, Parent, schema
<1>5. ASSUME NEW s \in DOMAIN S, S[s] = Dated, Parent(s) = q
      PROVE  s \in DOMAIN b /\ b[s] \in {Leap} \cup Int
  BY <1>2, <1>3, <1>4, <1>5
<1>6. /\ Parent(Promised \o <<"start">>) = Promised /\ Parent(Promised \o <<"end">>) = Promised
      /\ Parent(Collecting \o <<"start">>) = Collecting
      /\ Parent(Collecting \o <<"end">>) = Collecting
  <2>1. Promised = <<"promisedWindow">> /\ Collecting = <<"collection", "collectionWindow">>
    BY DEF Promised, Collecting
  <2> QED BY <2>1, WindowPaths, ParentOf, Zenon
<1>7. PICK s, e : s = q \o <<"start">> /\ e = q \o <<"end">>
  OBVIOUS
<1>8. /\ s \in DOMAIN S /\ S[s] = Dated /\ Parent(s) = q
      /\ e \in DOMAIN S /\ S[e] = Dated /\ Parent(e) = q
  BY <1>1, <1>6, <1>7 DEF Periods
<1>9. s \in DOMAIN b /\ b[s] \in {Leap} \cup Int /\ e \in DOMAIN b /\ b[e] \in {Leap} \cup Int
  BY <1>5, <1>8
<1> QED BY <1>7, <1>9

(* A body the server accepts says when: its windows have dates.            *)
LEMMA WindowsOf ==
  ASSUME NEW b, Wire!Fits(Wire!CreateLastMileFulfilmentBody, b)
  PROVE  /\ WindowAt(b, Promised) \in Window
         /\ WindowAt(b, Collecting) \in Window \cup {None}
<1>1. ASSUME NEW q \in {Collecting, Promised}, q \in DOMAIN b
      PROVE  WindowAt(b, q) \in Window
  <2>1. PICK s, e : s = q \o <<"start">> /\ e = q \o <<"end">>
    OBVIOUS
  <2>2. /\ q \o <<"start">> \in DOMAIN b /\ b[q \o <<"start">>] \in {Leap} \cup Int
        /\ q \o <<"end">> \in DOMAIN b /\ b[q \o <<"end">>] \in {Leap} \cup Int
    BY <1>1, DatesThere
  <2>3. ToDate(b[s]) \in Date /\ ToDate(b[e]) \in Date
    BY <2>1, <2>2 DEF ToDate, Date
  <2> QED BY <1>1, <2>1, <2>3 DEF WindowAt, Window
<1>2. Promised \in DOMAIN b
  <2>1. PICK S, full : S = Wire!Snapshot /\ full = Wire!CreateLastMileFulfilmentBody
    OBVIOUS
  <2>2. Promised \in DOMAIN S /\ S[Promised] = Wire!Required(Wire!Node)
    BY <2>1, SnapshotAt DEF Periods
  <2>3. Promised \in DOMAIN full /\ full[Promised].required
    BY <2>1, <2>2, BodiesAt DEF Wire!Required
  <2>4. Len(Promised) = 1
    BY DEF Promised
  <2> QED BY <2>1, <2>3, <2>4 DEF Wire!Fits
<1>3. Collecting \notin DOMAIN b => WindowAt(b, Collecting) = None
  BY DEF WindowAt
<1> QED BY <1>1, <1>2, <1>3

(* What the intake has verified of a body that it stores: the wire's       *)
(* schemas and the rules; of one that it can read back: its dates.         *)
Accepted(p) ==
  WireAccepts(Wire!CreateLastMileFulfilmentBody, Wire!PromisedLineDraft, Wire!ParcelDraft,
              BodyOf(p), LinesOf(p), ParcelsOf(p))
Ruled(p) == FirstBroken(Rules(CommandOf(p))) = "ok"
Sound(p) == LET c == CommandOf(p)
            IN  /\ IsWindow(c.promisedWindow)
                /\ c.collectionWindow = None \/ IsWindow(c.collectionWindow)

(* The windows of the command of an accepted body are there.               *)
LEMMA CommandWindows ==
  ASSUME NEW p, Accepted(p), NEW c, c = CommandOf(p)
  PROVE  c.promisedWindow \in Window /\ c.collectionWindow \in Window \cup {None}
<1>1. PICK b : b = BodyOf(p)
  OBVIOUS
<1>2. Wire!Fits(Wire!CreateLastMileFulfilmentBody, b)
  BY <1>1 DEF Accepted, WireAccepts
<1>3. c.promisedWindow = WindowAt(b, Promised) /\ c.collectionWindow = WindowAt(b, Collecting)
  <2>1. c = BodyToCommand(b, LinesOf(p), ParcelsOf(p))
    BY <1>1, Zenon DEF CommandOf
  <2> QED BY <2>1, CommandTimes
<1> QED BY <1>2, <1>3, WindowsOf

(* The promised window of a row that fits has dates of four digits.        *)
LEMMA StoredWindow ==
  ASSUME NEW f, FitsColumns(FulfilmentToRow(f))
  PROVE  InYears(f.promisedWindow)
<1>1. PICK row : row = FulfilmentToRow(f)
  OBVIOUS
<1>2. row.promisedWindowStart = f.promisedWindow.start /\ row.promisedWindowEnd = f.promisedWindow.end
  BY <1>1 DEF FulfilmentToRow
<1>3. {row.promisedWindowStart, row.promisedWindowEnd} \subseteq FirstStored..LastInstant
  BY <1>1 DEF FitsColumns, FitsTimestamps
<1> QED BY <1>2, <1>3, IntakeAssumption DEF InYears

(* What a new fulfilment takes from the command of its body.               *)
LEMMA NewFulfilment ==
  ASSUME NEW p, NEW id, NEW c, c = CommandOf(p), NEW f, f = FulfilmentOf(p, id)
  PROVE  /\ f.id = id /\ f.tenantId = p.tenant
         /\ f.collection = [place |-> c.place, collectionWindow |-> c.collectionWindow]
         /\ f.promisedWindow = c.promisedWindow
         /\ f.carried = [cargo |-> c.cargo, lines |-> WithGenerated(<<"lineId">>, c.lines),
                         parcels |-> WithGenerated(<<"parcelId">>, c.parcels)]
<1>1. f = FulfilmentCreate(id, p.tenant, c)
  BY DEF FulfilmentOf
<1> QED BY <1>1, FulfilmentParts

(* A job that the wire's schema accepts has such dates in its collection   *)
(* window: the JSON of others is no date-time.                             *)
LEMMA AcceptedInYears ==
  ASSUME NEW p, NEW id, NEW f, f = FulfilmentOf(p, id),
         IsPoint(f.collection), IsWindow(f.promisedWindow),
         NEW j, j = CreateShipmentPayload(f),
         Wire!Fits(Wire!CreateLastMileShipmentBody, ShipmentBodyOf(j))
  PROVE  f.collection.collectionWindow = None \/ InYears(f.collection.collectionWindow)
<1>1. PICK c : c = CommandOf(p)
  OBVIOUS
<1>2. /\ f.collection = [place |-> c.place, collectionWindow |-> c.collectionWindow]
      /\ f.carried = [cargo |-> c.cargo, lines |-> WithGenerated(<<"lineId">>, c.lines),
                      parcels |-> WithGenerated(<<"parcelId">>, c.parcels)]
  BY <1>1, NewFulfilment
<1>3. PICK P, C, cw, pw : /\ P = f.collection.place /\ C = f.carried.cargo
                          /\ cw = f.collection.collectionWindow /\ pw = f.promisedWindow
  OBVIOUS
<1>4. P = Place(BodyOf(p)) /\ C = Below(BodyOf(p), Cargo) @@ CommandDefaults
  <2>1. PICK b, lines, parcels : /\ b = BodyOf(p) /\ lines = LinesOf(p) /\ parcels = ParcelsOf(p)
                                 /\ c = BodyToCommand(b, lines, parcels)
    BY <1>1, Zenon DEF CommandOf
  <2>2. /\ c.place = Place(b) /\ c.lines = lines
        /\ c.collectionWindow = WindowAt(b, Collecting)
        /\ c.promisedWindow = WindowAt(b, Promised)
        /\ c.cargo = Below(b, Cargo) @@ CommandDefaults
        /\ c.parcels = [i \in DOMAIN parcels |-> parcels[i] @@ ParcelDefaults]
    BY <2>1, CommandParts
  <2> QED BY <1>2, <1>3, <2>1, <2>2
<1>5. PICK F : F = FieldsOf(P, C, cw, pw, f.tenantId)
  OBVIOUS
<1>6. j.fields = F
  BY <1>3, <1>5 DEF CreateShipmentPayload, FieldsOf, Collecting, Promised
<1>7. PICK s, e : s = Collecting \o <<"start">> /\ e = Collecting \o <<"end">>
  OBVIOUS
<1>8. cw # None => /\ s \in DOMAIN F /\ F[s] = JsonDate(cw.start)
                   /\ e \in DOMAIN F /\ F[e] = JsonDate(cw.end)
  <2>1. pw # None
    BY <1>3, WindowIsThere
  <2>2. /\ \A q \in DOMAIN P : IsPlacePath(q)
        /\ \A q \in DOMAIN C : q[1] \in Cargo
    BY <1>4, FirstPaths
  <2> QED BY <1>5, <1>7, <2>1, <2>2, SecondFields
<1>9. PICK schema, b : schema = Wire!CreateLastMileShipmentBody /\ b = ShipmentBodyOf(j)
  OBVIOUS
<1>10. \A q \in DOMAIN F \cap DOMAIN schema : q \in DOMAIN b /\ b[q] = F[q]
  <2>1. b = Wire!Known(schema, F) @@ Wire!CargoDefaults
    BY <1>6, <1>9 DEF ShipmentBodyOf, Wire!Validated, Wire!@@, @@
  <2> QED BY <2>1 DEF Wire!Known, @@
<1>11. /\ s \in DOMAIN schema /\ schema[s] = Dated /\ e \in DOMAIN schema /\ schema[e] = Dated
  <2>1. PICK S : S = Wire!Snapshot
    OBVIOUS
  <2>2. /\ s \in DOMAIN S /\ S[s] = Dated /\ e \in DOMAIN S /\ S[e] = Dated
    BY <1>7, <2>1, SnapshotAt DEF Periods
  <2> QED BY <1>9, <2>1, <2>2, BodiesAt
<1>12. \A q \in {s, e} : q \in DOMAIN F => F[q] \in {Leap} \cup Int
  <2>1. Dated.allowed = {Leap} \cup Int
    BY DEF Dated, Wire!Required
  <2> QED BY <1>9, <1>10, <1>11, <2>1 DEF Wire!Fits
<1>13. ASSUME NEW d, JsonDate(d) \in {Leap} \cup Int PROVE d \in FirstInstant..LastInstant
  BY <1>13, IntakeAssumption DEF JsonDate
<1>14. cw # None => InYears(cw)
  BY <1>8, <1>12, <1>13 DEF InYears
<1> QED BY <1>3, <1>14

(* A new fulfilment awaits planning and has no shipments.                  *)
LEMMA NewState ==
  ASSUME NEW p, NEW id, NEW f, f = FulfilmentOf(p, id)
  PROVE  /\ f.linkedShipments = <<>>
         /\ f.state = [stage |-> "awaiting_planning", at |-> None, rest |-> None]
         /\ f.createdAt = Now /\ f.updatedAt = Now
BY DEF FulfilmentOf, FulfilmentCreate

(* A body is timely when its job can say when to collect.                  *)
Timely(p) == LET c == CommandOf(p)
             IN  c.collectionWindow = None \/ InYears(c.collectionWindow)

(* A body is sound when the dates of its fulfilment are valid.             *)
LEMMA SoundPoint ==
  ASSUME NEW p, NEW id, NEW f, f = FulfilmentOf(p, id)
  PROVE  Sound(p) <=> IsPoint(f.collection) /\ IsWindow(f.promisedWindow)
<1>1. PICK c : c = CommandOf(p)
  OBVIOUS
<1>2. /\ f.id = id /\ f.tenantId = p.tenant
      /\ f.collection = [place |-> c.place, collectionWindow |-> c.collectionWindow]
      /\ f.promisedWindow = c.promisedWindow
      /\ f.carried = [cargo |-> c.cargo, lines |-> WithGenerated(<<"lineId">>, c.lines),
                      parcels |-> WithGenerated(<<"parcelId">>, c.parcels)]
  BY <1>1, NewFulfilment
<1>3. IsPoint(f.collection) <=> c.collectionWindow = None \/ IsWindow(c.collectionWindow)
  BY <1>2 DEF IsPoint
<1> QED BY <1>1, <1>2, <1>3 DEF Sound

(* Its row.                                                                *)
LEMMA RowParts ==
  ASSUME NEW a, NEW row, row = FulfilmentToRow(a)
  PROVE  /\ row.id = a.id /\ row.tenantId = a.tenantId /\ row.carried = a.carried
         /\ row.promisedWindowStart = a.promisedWindow.start
         /\ row.promisedWindowEnd = a.promisedWindow.end
         /\ row.collection = [a.collection EXCEPT
                                !.collectionWindow = JsonWindow(a.collection.collectionWindow)]
         /\ row.createdAt = a.createdAt /\ row.updatedAt = a.updatedAt
BY DEF FulfilmentToRow

(* A window that can be read back from JSON had valid dates.               *)
LEMMA JsonOfWindow ==
  ASSUME NEW w \in Window, WindowReadable(JsonWindow(w))
  PROVE  IsWindow(w)
<1>1. w # None
  BY RowsAssumption
<1>2. JsonWindow(w) = [start |-> Json(w.start), end |-> Json(w.end)]
  BY <1>1 DEF JsonWindow
<1>3. PICK j : j = JsonWindow(w)
  OBVIOUS
<1>4. j.start = Json(w.start) /\ j.end = Json(w.end)
  BY <1>2, <1>3
<1>5. ASSUME NEW d \in Date, Json(d) # None PROVE d \in Int
  BY <1>5 DEF Json
<1>6. w = [start |-> w.start, end |-> w.end] /\ w.start \in Date /\ w.end \in Date
  BY DEF Window
<1>7. j # None
  <2>1. Json(w.start) \in Iso \cup {None} /\ Json(w.end) \in Iso \cup {None}
    BY DEF Json, Iso
  <2>2. j \in IsoWindow
    BY <1>2, <1>3, <2>1 DEF IsoWindow
  <2> QED BY <2>2, RowsAssumption
<1> QED BY <1>3, <1>4, <1>5, <1>6, <1>7 DEF WindowReadable, Unreadable, IsWindow

(* A body whose row the driver sends and the server reads back is sound.   *)
LEMMA KeptIsSound ==
  ASSUME NEW p, Accepted(p), NEW id, NEW f, f = FulfilmentOf(p, id),
         NEW row, row = FulfilmentToRow(f), Sendable(row), FulfilmentReadable(row)
  PROVE  Sound(p)
<1>1. PICK c : c = CommandOf(p)
  OBVIOUS
<1>2. /\ f.id = id /\ f.tenantId = p.tenant
      /\ f.collection = [place |-> c.place, collectionWindow |-> c.collectionWindow]
      /\ f.promisedWindow = c.promisedWindow
      /\ f.carried = [cargo |-> c.cargo, lines |-> WithGenerated(<<"lineId">>, c.lines),
                      parcels |-> WithGenerated(<<"parcelId">>, c.parcels)]
  BY <1>1, NewFulfilment
<1>3. /\ row.promisedWindowStart = f.promisedWindow.start
      /\ row.promisedWindowEnd = f.promisedWindow.end
      /\ row.collection = [f.collection EXCEPT
                             !.collectionWindow = JsonWindow(f.collection.collectionWindow)]
  BY DEF FulfilmentToRow
<1>4. c.promisedWindow \in Window /\ c.collectionWindow \in Window \cup {None}
  BY <1>1, CommandWindows
<1>5. IsWindow(c.promisedWindow)
  BY <1>2, <1>3, <1>4 DEF Sendable, IsWindow, Window, Date
<1>6. row.collection.collectionWindow = JsonWindow(c.collectionWindow)
  BY <1>2, <1>3
<1>7. WindowReadable(JsonWindow(c.collectionWindow))
  BY <1>6 DEF FulfilmentReadable
<1>8. c.collectionWindow = None \/ IsWindow(c.collectionWindow)
  BY <1>4, <1>7, JsonOfWindow
<1> QED BY <1>1, <1>5, <1>8 DEF Sound

(* The row of a sound body is sent and read back, with the place and the   *)
(* windows it had.                                                         *)
LEMMA SoundIsKept ==
  ASSUME NEW p, Sound(p), NEW id, NEW f, f = FulfilmentOf(p, id),
         NEW row, row = FulfilmentToRow(f)
  PROVE  /\ Sendable(row) /\ FulfilmentReadable(row)
         /\ ReviveCollectionPointDates(row.collection) = f.collection
         /\ [start |-> row.promisedWindowStart, end |-> row.promisedWindowEnd] = f.promisedWindow
<1>1. IsPoint(f.collection) /\ IsWindow(f.promisedWindow)
  BY SoundPoint
<1>2. /\ row.promisedWindowStart = f.promisedWindow.start
      /\ row.promisedWindowEnd = f.promisedWindow.end
      /\ row.collection = [f.collection EXCEPT
                             !.collectionWindow = JsonWindow(f.collection.collectionWindow)]
      /\ row.createdAt = f.createdAt /\ row.updatedAt = f.updatedAt
      /\ row.statePayload = [f.state EXCEPT !.at = Json(f.state.at)]
      /\ DOMAIN row.linkedShipments = DOMAIN f.linkedShipments
  BY DEF FulfilmentToRow
<1>3. /\ f.linkedShipments = <<>>
      /\ f.state = [stage |-> "awaiting_planning", at |-> None, rest |-> None]
      /\ f.createdAt = Now /\ f.updatedAt = Now
  BY NewState
<1>4. PICK cp : cp = f.collection /\ IsPoint(cp)
  BY <1>1
<1>5. PICK stored : stored = [cp EXCEPT !.collectionWindow = JsonWindow(cp.collectionWindow)]
  OBVIOUS
<1>6. WindowReadable(stored.collectionWindow) /\ ReviveCollectionPointDates(stored) = cp
  BY <1>4, <1>5, PointRoundTrip
<1>7. row.collection = stored
  BY <1>2, <1>4, <1>5
<1>8. Sendable(row)
  BY <1>1, <1>2, <1>3, IntakeAssumption, RowsAssumption DEF Sendable, IsWindow
<1>9. FulfilmentReadable(row)
  <2>1. DOMAIN row.linkedShipments = {} /\ row.statePayload.stage = "awaiting_planning"
    BY <1>2, <1>3
  <2> QED BY <1>6, <1>7, <2>1 DEF FulfilmentReadable
<1>10. [start |-> row.promisedWindowStart, end |-> row.promisedWindowEnd] = f.promisedWindow
  BY <1>1, <1>2 DEF IsWindow
<1> QED BY <1>4, <1>6, <1>7, <1>8, <1>9, <1>10

(* What is read back of a stored fulfilment.                               *)
LEMMA RowKeepsPromise ==
  ASSUME NEW p, Sound(p), NEW id, NEW f, f = FulfilmentOf(p, id),
         NEW row, row = FulfilmentToRow(f), NEW g, g = FulfilmentToAggregate(row)
  PROVE  /\ g.id = f.id /\ g.tenantId = f.tenantId /\ g.carried = f.carried
         /\ g.collection = f.collection /\ g.promisedWindow = f.promisedWindow
<1>1. /\ ReviveCollectionPointDates(row.collection) = f.collection
      /\ [start |-> row.promisedWindowStart, end |-> row.promisedWindowEnd] = f.promisedWindow
      /\ Sendable(row) /\ FulfilmentReadable(row)
  <2>1. /\ Sendable(row) /\ FulfilmentReadable(row)
         /\ ReviveCollectionPointDates(row.collection) = f.collection
         /\ [start |-> row.promisedWindowStart, end |-> row.promisedWindowEnd] = f.promisedWindow
    BY SoundIsKept
  <2> QED BY <2>1
<1>2. row.id = f.id /\ row.tenantId = f.tenantId /\ row.carried = f.carried
  BY DEF FulfilmentToRow
<1>3. /\ g.id = row.id /\ g.tenantId = row.tenantId /\ g.carried = row.carried
      /\ g.collection = ReviveCollectionPointDates(row.collection)
      /\ g.promisedWindow = [start |-> row.promisedWindowStart, end |-> row.promisedWindowEnd]
  BY DEF FulfilmentToAggregate
<1> QED BY <1>1, <1>2, <1>3

(* The job of a fulfilment depends on its promise alone.                   *)
LEMMA SameJob ==
  ASSUME NEW f, NEW g, g.id = f.id, g.tenantId = f.tenantId, g.carried = f.carried,
         g.collection = f.collection, g.promisedWindow = f.promisedWindow
  PROVE  CreateShipmentPayload(g) = CreateShipmentPayload(f)
<1>1. PICK fields : fields = f.collection.place @@ f.carried.cargo
              @@ WindowFields(<<"collection", "collectionWindow">>, f.collection.collectionWindow)
              @@ WindowFields(<<"promisedWindow">>, f.promisedWindow)
              @@ (<<"tenantId">> :> f.tenantId) @@ (<<"fulfilmentId">> :> 17)
  OBVIOUS
<1>2. fields = g.collection.place @@ g.carried.cargo
              @@ WindowFields(<<"collection", "collectionWindow">>, g.collection.collectionWindow)
              @@ WindowFields(<<"promisedWindow">>, g.promisedWindow)
              @@ (<<"tenantId">> :> g.tenantId) @@ (<<"fulfilmentId">> :> 17)
  BY <1>1, Zenon
<1>3. CreateShipmentPayload(f) = [fields |-> fields, lines |-> f.carried.lines,
                                  parcels |-> f.carried.parcels, fulfilmentId |-> f.id]
  BY <1>1, Zenon DEF CreateShipmentPayload
<1>4. CreateShipmentPayload(g) = [fields |-> fields, lines |-> g.carried.lines,
                                  parcels |-> g.carried.parcels, fulfilmentId |-> g.id]
  BY <1>2, Zenon DEF CreateShipmentPayload
<1> QED BY <1>3, <1>4

(* A snapshot is an aggregate whose dates are valid.                       *)
LEMMA SnapshotSurvives ==
  ASSUME NEW p, Sound(p), NEW id, NEW f, f = FulfilmentOf(p, id),
         NEW sid, NEW s, s = SnapshotOf(sid, f), NEW row, row = ShipmentToRow(s)
  PROVE  /\ Sendable(row) /\ ShipmentReadable(row) /\ ShipmentToAggregate(row) = s
         /\ row.id = sid /\ row.tenantId = f.tenantId /\ row.fulfilmentId = f.id
         /\ row.carried = f.carried
<1>1. IsPoint(f.collection) /\ IsWindow(f.promisedWindow)
  BY SoundPoint
<1>2. /\ s.collection = f.collection /\ s.promisedWindow = f.promisedWindow /\ s.trip = None
      /\ s.createdAt = Now /\ s.updatedAt = Now
      /\ s.id = sid /\ s.tenantId = f.tenantId /\ s.fulfilmentId = f.id /\ s.carried = f.carried
      /\ s = [id |-> s.id, tenantId |-> s.tenantId, fulfilmentId |-> s.fulfilmentId,
          collection |-> s.collection, promisedWindow |-> s.promisedWindow,
          trip |-> s.trip, status |-> s.status, carried |-> s.carried,
          version |-> s.version, createdAt |-> s.createdAt, updatedAt |-> s.updatedAt]
  BY DEF SnapshotOf
<1>3. IsShipment(s)
  BY <1>1, <1>2, IntakeAssumption DEF IsShipment
<1>4. ShipmentSurvives(s)
  BY <1>3, ShipmentRoundTrip
<1>5. /\ row.id = s.id /\ row.tenantId = s.tenantId /\ row.fulfilmentId = s.fulfilmentId
      /\ row.carried = s.carried
  BY DEF ShipmentToRow
<1> QED BY <1>2, <1>4, <1>5 DEF ShipmentSurvives

-----------------------------------------------------------------------------
(* The inductive invariant of the data: every record is what the intake    *)
(* makes of the one body p, and a job or a shipment is only of a           *)
(* fulfilment that is stored and can be read back.                         *)
RowOf(p, id) == ToRow("LastMileFulfilment", FulfilmentOf(p, id))

Traced(p, records, d) ==
  /\ d.kind = "LastMileFulfilment" =>
       /\ Accepted(p) /\ Ruled(p)
       /\ d.row.id.prefix = "lmf" /\ d = RowOf(p, d.row.id) /\ FitsColumns(d.row)
  /\ d.kind = "created" /\ d.id.prefix = "lmf" => Sound(p)
  /\ d.kind = "job" =>
       LET id == d.payload.fulfilmentId
           f  == FulfilmentOf(p, id)
       IN  /\ Sound(p) /\ RowOf(p, id) \in records
           /\ d.payload = CreateShipmentPayload(f)
           /\ Geocoded([place |-> f.collection.place, cargo |-> f.carried.cargo])
  /\ d.kind = "LastMileShipment" =>
       /\ Sound(p) /\ RowOf(p, d.row.fulfilmentId) \in records
       /\ d.row = ShipmentToRow(SnapshotOf(d.row.id, FulfilmentOf(p, d.row.fulfilmentId)))

FulfilmentUnderway(p, q, records) ==
  /\ q.pc \in {"rules", "note"} => Accepted(p) /\ q.command = CommandOf(p)
  /\ q.pc = "note" => Ruled(p)
  /\ q.pc \in {"persist", "audit", "event"} =>
       /\ Accepted(p) /\ Ruled(p)
       /\ q.aggregate.id.prefix = "lmf"
       /\ q.aggregate = FulfilmentOf(p, q.aggregate.id)
  /\ q.pc = "persist" =>
       \A d \in records : d.kind = "LastMileFulfilment" =>
                            ~HoldsSameNote(d.row, FulfilmentToRow(q.aggregate))
  /\ q.pc \in {"audit", "event"} => Sound(p)

ShipmentUnderway(p, q, records) ==
  /\ q.pc \notin {"rules", "note"}
  /\ q.pc \in {"persist", "audit", "event"} =>
       /\ q.aggregate.id.prefix = "shp"
       /\ Sound(p) /\ Timely(p) /\ RowOf(p, q.aggregate.fulfilmentId) \in records
       /\ q.aggregate = SnapshotOf(q.aggregate.id, FulfilmentOf(p, q.aggregate.fulfilmentId))

DataTraced ==
  /\ post \in Posts
  /\ \A d \in db : Traced(post, db, d)
  /\ \A d \in req.staged : Traced(post, db, d)
  /\ req.kind = "LastMileFulfilment" => FulfilmentUnderway(post, req, db)
  /\ req.kind = "LastMileShipment" => ShipmentUnderway(post, req, db)

(* Committed records only add to what a record is traced to.               *)
LEMMA MoreRecordsTrace ==
  ASSUME NEW p, NEW records, NEW more, records \subseteq more, NEW d, Traced(p, records, d)
  PROVE  Traced(p, more, d)
BY DEF Traced

(* Records that carry no promise trace back trivially.                     *)
LEMMA OtherRecordsAreTraced ==
  ASSUME NEW p, NEW records, NEW d,
         d.kind \notin {"LastMileFulfilment", "LastMileShipment", "created", "job"}
  PROVE  Traced(p, records, d)
BY DEF Traced

(* Both kinds of row, as they are staged.                                  *)
LEMMA StagedFulfilment ==
  ASSUME NEW p, Accepted(p), Ruled(p), NEW records,
         NEW a, a.id.prefix = "lmf", a = FulfilmentOf(p, a.id), FitsColumns(FulfilmentToRow(a))
  PROVE  Traced(p, records, ToRow("LastMileFulfilment", a))
<1>1. PICK row : row = FulfilmentToRow(a)
  OBVIOUS
<1>2. PICK d : d = ToRow("LastMileFulfilment", a)
  OBVIOUS
<1>3. d.kind = "LastMileFulfilment" /\ d.row = row
  BY <1>1, <1>2 DEF ToRow
<1>4. row.id = a.id
  BY <1>1 DEF FulfilmentToRow
<1>5. d = RowOf(p, d.row.id)
  BY <1>2, <1>3, <1>4 DEF RowOf
<1> QED BY <1>1, <1>2, <1>3, <1>4, <1>5 DEF Traced

LEMMA StagedShipment ==
  ASSUME NEW p, Sound(p), NEW records, NEW a, RowOf(p, a.fulfilmentId) \in records,
         a = SnapshotOf(a.id, FulfilmentOf(p, a.fulfilmentId))
  PROVE  Traced(p, records, ToRow("LastMileShipment", a))
<1>1. PICK row : row = ShipmentToRow(a)
  OBVIOUS
<1>2. PICK d : d = ToRow("LastMileShipment", a)
  OBVIOUS
<1>3. d.kind = "LastMileShipment" /\ d.row = row
  BY <1>1, <1>2 DEF ToRow
<1>4. row.id = a.id /\ row.fulfilmentId = a.fulfilmentId
  BY <1>1 DEF ShipmentToRow
<1> QED BY <1>1, <1>2, <1>3, <1>4 DEF Traced

(* The promised window of a stored row has dates of four-digit years.      *)
LEMMA RowInYears ==
  ASSUME NEW p, NEW records, \A d \in records : Traced(p, records, d),
         NEW id, RowOf(p, id) \in records, NEW f, f = FulfilmentOf(p, id)
  PROVE  InYears(f.promisedWindow)
<1>1. PICK d : d = RowOf(p, id)
  OBVIOUS
<1>2. d.kind = "LastMileFulfilment" /\ d.row = FulfilmentToRow(f)
  BY <1>1 DEF RowOf, ToRow
<1>3. FitsColumns(FulfilmentToRow(f))
  BY <1>1, <1>2 DEF Traced
<1> QED BY <1>3, StoredWindow

(* The job of a row that is stored and announced.                          *)
LEMMA JobOfRow ==
  ASSUME NEW p, NEW records, NEW d \in records, d.kind = "LastMileFulfilment", Sound(p),
         Traced(p, records, d), NEW g, g = FulfilmentToAggregate(d.row),
         Geocoded([place |-> g.collection.place, cargo |-> g.carried.cargo]),
         NEW job, job.kind = "job", job.payload = CreateShipmentPayload(g)
  PROVE  Traced(p, records, job)
<1>1. PICK id, f : id = d.row.id /\ f = FulfilmentOf(p, id)
  OBVIOUS
<1>2. d = RowOf(p, id)
  BY <1>1 DEF Traced
<1>3. d.row = FulfilmentToRow(f)
  BY <1>1, <1>2 DEF RowOf, ToRow
<1>4. /\ g.id = f.id /\ g.tenantId = f.tenantId /\ g.carried = f.carried
      /\ g.collection = f.collection /\ g.promisedWindow = f.promisedWindow
  BY <1>1, <1>3, RowKeepsPromise
<1>5. job.payload = CreateShipmentPayload(f)
  BY <1>4, SameJob
<1>6. job.payload.fulfilmentId = id
  <2>1. f.id = d.row.id
    BY <1>3, RowParts DEF FulfilmentToRow
  <2> QED BY <1>1, <1>5, <2>1 DEF CreateShipmentPayload
<1> QED BY <1>1, <1>2, <1>4, <1>5, <1>6 DEF Traced

RequestShape ==
  req = [pc |-> req.pc, kind |-> req.kind, command |-> req.command,
         aggregate |-> req.aggregate, staged |-> req.staged,
         aborted |-> req.aborted, outcome |-> req.outcome]

(* A request that has only been opened has nothing to trace.               *)
LEMMA NothingUnderway ==
  ASSUME NEW p, NEW q, NEW records, q.pc \notin {"rules", "note", "persist", "audit", "event"}
  PROVE  FulfilmentUnderway(p, q, records) /\ ShipmentUnderway(p, q, records)
BY DEF FulfilmentUnderway, ShipmentUnderway

(* Persist writes a row, or none.                                          *)
LEMMA RowWritten ==
  ASSUME NEW a, NEW kind \in Kinds, NEW result, result = RegistryPersist(kind, a)
  PROVE  /\ kind = "LastMileFulfilment" /\ result \in {"saved", "unread"} =>
              /\ FitsColumns(FulfilmentToRow(a)) /\ Sendable(FulfilmentToRow(a))
              /\ result = "saved" => FulfilmentReadable(FulfilmentToRow(a))
<1> SUFFICES ASSUME kind = "LastMileFulfilment", result \in {"saved", "unread"}
             PROVE  /\ FitsColumns(FulfilmentToRow(a)) /\ Sendable(FulfilmentToRow(a))
                    /\ result = "saved" => FulfilmentReadable(FulfilmentToRow(a))
  OBVIOUS
<1>1. result = PersistFulfilment(a)
  BY DEF RegistryPersist
<1>2. PICK row : row = FulfilmentToRow(a)
  OBVIOUS
<1> QED BY <1>1, <1>2 DEF PersistFulfilment

(* Every step keeps the records traced to the body.                        *)
LEMMA NextTraced ==
  RowsOpen /\ AllAnnounced /\ DataTraced /\ [Next]_vars => DataTraced'
<1> SUFFICES ASSUME RowsOpen, AllAnnounced, DataTraced, [Next]_vars PROVE DataTraced'
  OBVIOUS
<1>0. RequestShape
  BY DEF RowsOpen, RequestShape
<1>p. PICK p : p = post
  OBVIOUS
<1>u. /\ \A d \in db : Traced(p, db, d)
      /\ \A d \in req.staged : Traced(p, db, d)
      /\ p \in Posts
  BY <1>p DEF DataTraced
<1>1. CASE PostFulfilment
  <2> DEFINE b == Wire!Validated(Wire!CreateLastMileFulfilmentBody, Wire!Defaults, post.fields)
             lines == ValidatedAll(Wire!PromisedLineDraft, post.lines)
             parcels == ValidatedAll(Wire!ParcelDraft, post.parcels)
             new == [Idle EXCEPT !.kind = "LastMileFulfilment"]
             accepted == WireAccepts(Wire!CreateLastMileFulfilmentBody, Wire!PromisedLineDraft,
                                     Wire!ParcelDraft, b, lines, parcels)
             command == BodyToCommand(b, lines, parcels)
  <2>1. /\ UNCHANGED <<post, db>>
        /\ req' = IF accepted THEN [new EXCEPT !.pc = "rules", !.command = command]
                              ELSE [new EXCEPT !.pc = "close", !.outcome = "BODY_INVALID"]
    BY <1>1, Zenon DEF PostFulfilment, Arrives
  <2>2. accepted <=> Accepted(p)
    BY <1>p, Zenon DEF Accepted, BodyOf, LinesOf, ParcelsOf
  <2>3. command = CommandOf(p)
    BY <1>p, Zenon DEF CommandOf, BodyOf, LinesOf, ParcelsOf
  <2> HIDE DEF accepted, command
  <2>4. PICK q : q = req'
    OBVIOUS
  <2>5. /\ q.kind = "LastMileFulfilment" /\ q.staged = {}
        /\ \/ q.pc = "rules" /\ q.command = command /\ accepted
           \/ q.pc = "close"
    BY <2>1, <2>4 DEF Idle
  <2>6. FulfilmentUnderway(p, q, db)
    BY <2>2, <2>3, <2>5 DEF FulfilmentUnderway
  <2> QED BY <1>p, <1>u, <2>1, <2>4, <2>5, <2>6 DEF DataTraced
<1>2. CASE CheckRules
  <2>1. PICK q : q = req'
    OBVIOUS
  <2>2. /\ req.pc = "rules" /\ UNCHANGED <<post, db>>
        /\ q.kind = req.kind /\ q.staged = req.staged /\ q.command = req.command
        /\ \/ q.pc = "note" /\ FirstBroken(Rules(req.command)) = "ok"
           \/ q.pc = "close"
    BY <1>0, <1>2, <2>1 DEF CheckRules, To, Refuse, RequestShape
  <2>3. req.kind = "LastMileFulfilment" /\ Accepted(p) /\ req.command = CommandOf(p)
    BY <1>p, <2>2 DEF DataTraced, AllAnnounced, Kinds, Handlers, FulfilmentUnderway, ShipmentUnderway
  <2>4. FulfilmentUnderway(p, q, db)
    BY <2>2, <2>3 DEF FulfilmentUnderway, Ruled
  <2> QED BY <1>p, <1>u, <2>1, <2>2, <2>3, <2>4 DEF DataTraced
<1>3. CASE CheckSourceNote
  <2>1. PICK id, f : /\ id = [prefix |-> "lmf", number |-> sent["LastMileFulfilment"]]
                     /\ f = FulfilmentCreate(id, post.tenant, req.command)
    OBVIOUS
  <2>2. PICK q : q = req'
    OBVIOUS
  <2>3. /\ req.pc = "note" /\ UNCHANGED <<post, db>>
        /\ \/ /\ q = [req EXCEPT !.pc = "persist", !.aggregate = f]
              /\ {r \in Fulfilments : HoldsSameNote(r, FulfilmentToRow(f))} = {}
           \/ \E code : q = [req EXCEPT !.pc = "close", !.outcome = code]
    BY <1>3, <2>1, <2>2 DEF CheckSourceNote, Refuse
  <2>4. /\ q.kind = req.kind /\ q.staged = req.staged
        /\ \/ /\ q.pc = "persist" /\ q.aggregate = f
              /\ {r \in Fulfilments : HoldsSameNote(r, FulfilmentToRow(f))} = {}
           \/ q.pc = "close"
    BY <1>0, <2>3 DEF RequestShape
  <2>5. req.kind = "LastMileFulfilment" /\ Accepted(p) /\ Ruled(p) /\ req.command = CommandOf(p)
    BY <1>p, <2>3 DEF DataTraced, AllAnnounced, Kinds, Handlers, FulfilmentUnderway, ShipmentUnderway
  <2>6. f = FulfilmentOf(p, id)
    BY <1>p, <2>1, <2>5 DEF FulfilmentOf
  <2>7. f.id = id /\ id.prefix = "lmf"
    <3>1. f.id = id
      BY <2>1 DEF FulfilmentCreate
    <3> QED BY <2>1, <3>1
  <2>8. ASSUME q.pc = "persist", NEW d \in db, d.kind = "LastMileFulfilment"
        PROVE  ~HoldsSameNote(d.row, FulfilmentToRow(f))
    <3>1. d.row \in Fulfilments
      BY <2>8 DEF Fulfilments, Rows
    <3> QED BY <2>4, <2>8, <3>1
  <2>9. FulfilmentUnderway(p, q, db)
    BY <2>4, <2>5, <2>6, <2>7, <2>8 DEF FulfilmentUnderway
  <2> QED BY <1>p, <1>u, <2>2, <2>3, <2>4, <2>5, <2>9 DEF DataTraced
<1>4. CASE Persist
  <2>1. PICK result, row, a, kind :
          /\ a = req.aggregate /\ kind = req.kind
          /\ result = RegistryPersist(kind, a) /\ row = ToRow(kind, a)
    OBVIOUS
  <2>2. PICK pc, outcome, aborted, staged :
          /\ pc = (IF result = "saved" THEN "audit" ELSE "close")
          /\ aborted = (result = "aborted")
          /\ staged = IF result \in {"saved", "unread"} THEN {row} ELSE {}
          /\ req' = [req EXCEPT !.pc = pc, !.outcome = outcome, !.aborted = aborted,
                                !.staged = staged]
          /\ req.pc = "persist" /\ UNCHANGED <<post, db>>
    BY <1>4, <2>1, Zenon DEF Persist
  <2>3. PICK q : q = req'
    OBVIOUS
  <2>4. q.pc = pc /\ q.staged = staged /\ q.kind = kind /\ q.aggregate = a
    BY <1>0, <2>1, <2>2, <2>3 DEF RequestShape
  <2>5. kind \in Kinds
    BY <2>1, <2>2 DEF AllAnnounced
  <2>6. CASE kind = "LastMileFulfilment"
    <3>1. /\ Accepted(p) /\ Ruled(p) /\ a.id.prefix = "lmf" /\ a = FulfilmentOf(p, a.id)
      BY <1>p, <2>1, <2>2, <2>6 DEF DataTraced, FulfilmentUnderway
    <3>2. /\ result \in {"saved", "unread"} =>
                FitsColumns(FulfilmentToRow(a)) /\ Sendable(FulfilmentToRow(a))
          /\ result = "saved" => FulfilmentReadable(FulfilmentToRow(a))
      BY <2>1, <2>5, <2>6, RowWritten
    <3>3. result = "saved" => Sound(p)
      BY <3>1, <3>2, KeptIsSound
    <3>4. result \in {"saved", "unread"} => Traced(p, db, row)
      BY <2>1, <2>6, <3>1, <3>2, StagedFulfilment
    <3>5. \A d \in q.staged : Traced(p, db, d)
      BY <2>2, <2>4, <3>4
    <3>6. FulfilmentUnderway(p, q, db)
      BY <2>2, <2>4, <3>1, <3>3 DEF FulfilmentUnderway
    <3> QED BY <1>p, <1>u, <2>2, <2>3, <2>4, <2>6, <3>5, <3>6 DEF DataTraced
  <2>7. CASE kind = "LastMileShipment"
    <3>1. /\ a.id.prefix = "shp" /\ Sound(p) /\ Timely(p) /\ RowOf(p, a.fulfilmentId) \in db
          /\ a = SnapshotOf(a.id, FulfilmentOf(p, a.fulfilmentId))
      BY <1>p, <2>1, <2>2, <2>7 DEF DataTraced, ShipmentUnderway
    <3>2. Traced(p, db, row)
      BY <2>1, <2>7, <3>1, StagedShipment
    <3>3. \A d \in q.staged : Traced(p, db, d)
      BY <2>2, <2>4, <3>2
    <3>4. ShipmentUnderway(p, q, db)
      BY <2>2, <2>4, <3>1 DEF ShipmentUnderway
    <3> QED BY <1>p, <1>u, <2>2, <2>3, <2>4, <2>7, <3>3, <3>4 DEF DataTraced
  <2> QED BY <2>5, <2>6, <2>7 DEF Kinds, Handlers
<1>5. CASE WriteLocalAuditLog
  <2>1. PICK q : q = req'
    OBVIOUS
  <2>2. /\ req.pc = "audit" /\ UNCHANGED <<post, db>>
        /\ \/ q = [req EXCEPT !.pc = "close", !.outcome = "COMMIT_FAILED", !.aborted = TRUE]
           \/ q = [req EXCEPT !.pc = "event", !.staged = @ \cup {Audited(req.aggregate.id)}]
    BY <1>5, <2>1 DEF WriteLocalAuditLog
  <2>3. CASE q = [req EXCEPT !.pc = "close", !.outcome = "COMMIT_FAILED", !.aborted = TRUE]
    <3>1. q.pc = "close" /\ q.staged = req.staged
      BY <1>0, <2>3 DEF RequestShape
    <3>2. FulfilmentUnderway(p, q, db) /\ ShipmentUnderway(p, q, db)
      BY <3>1, NothingUnderway
    <3> QED BY <1>p, <1>u, <2>1, <2>2, <3>1, <3>2 DEF DataTraced
  <2>4. CASE q = [req EXCEPT !.pc = "event", !.staged = @ \cup {Audited(req.aggregate.id)}]
    <3>1. /\ q.pc = "event" /\ q.kind = req.kind /\ q.aggregate = req.aggregate
          /\ q.staged = req.staged \cup {Audited(req.aggregate.id)}
      BY <1>0, <2>4 DEF RequestShape
    <3>2. Traced(p, db, Audited(req.aggregate.id))
      <4>1. Audited(req.aggregate.id).kind = "audit"
        BY DEF Audited
      <4> QED BY <4>1, OtherRecordsAreTraced
    <3>3. \A d \in q.staged : Traced(p, db, d)
      BY <1>u, <3>1, <3>2
    <3>4. /\ q.kind = "LastMileFulfilment" => FulfilmentUnderway(p, q, db)
          /\ q.kind = "LastMileShipment" => ShipmentUnderway(p, q, db)
      BY <1>p, <2>2, <3>1 DEF DataTraced, FulfilmentUnderway, ShipmentUnderway
    <3> QED BY <1>p, <1>u, <2>1, <2>2, <3>1, <3>3, <3>4 DEF DataTraced
  <2> QED BY <2>2, <2>3, <2>4
<1>6. CASE WriteEvent
  <2>1. PICK q : q = req'
    OBVIOUS
  <2>2. /\ req.pc = "event" /\ UNCHANGED <<post, db>> /\ q.pc = "close"
        /\ q.kind = req.kind
        /\ q.staged = req.staged \cup {Created(req.aggregate)}
    BY <1>0, <1>6, <2>1 DEF WriteEvent, RequestShape
  <2>3. Traced(p, db, Created(req.aggregate))
    <3>1. PICK e : e = Created(req.aggregate)
      OBVIOUS
    <3>2. e.kind = "created" /\ e.id = req.aggregate.id
      BY <3>1 DEF Created
    <3>3. req.kind \in Kinds
      BY <2>2 DEF AllAnnounced
    <3>4. req.aggregate.id.prefix = "lmf" => Sound(p)
      BY <1>p, <2>2, <3>3 DEF DataTraced, FulfilmentUnderway, ShipmentUnderway, Kinds, Handlers
    <3> QED BY <3>1, <3>2, <3>4 DEF Traced
  <2>4. \A d \in q.staged : Traced(p, db, d)
    BY <1>u, <2>2, <2>3
  <2>5. FulfilmentUnderway(p, q, db) /\ ShipmentUnderway(p, q, db)
    BY <2>2, NothingUnderway
  <2> QED BY <1>p, <1>u, <2>1, <2>2, <2>4, <2>5 DEF DataTraced
<1>7. CASE StatementFails
  <2>1. PICK q : q = req'
    OBVIOUS
  <2>2. UNCHANGED <<post, db>> /\ q.pc = "close" /\ q.staged = req.staged
    BY <1>0, <1>7, <2>1 DEF StatementFails, RequestShape
  <2>3. FulfilmentUnderway(p, q, db) /\ ShipmentUnderway(p, q, db)
    BY <2>2, NothingUnderway
  <2> QED BY <1>p, <1>u, <2>1, <2>2, <2>3 DEF DataTraced
<1>8. CASE Close
  <2>1. PICK q, more : q = req' /\ more = db'
    OBVIOUS
  <2>2. UNCHANGED post /\ q.pc = "idle" /\ q.staged = {} /\ more = db \cup Committed(req)
    BY <1>8, <2>1 DEF Close, Idle
  <2>3. more \subseteq db \cup req.staged /\ db \subseteq more
    BY <2>2 DEF Committed
  <2>4. \A d \in more : Traced(p, more, d)
    BY <1>u, <2>3, MoreRecordsTrace
  <2>5. FulfilmentUnderway(p, q, more) /\ ShipmentUnderway(p, q, more)
    BY <2>2, NothingUnderway
  <2> QED BY <1>p, <1>u, <2>1, <2>2, <2>4, <2>5 DEF DataTraced
<1>9. CASE HandleLastMileFulfilmentCreated
  <2>1. PICK e, row, g, job :
          /\ e \in db /\ row \in Fulfilments
          /\ e.kind = "created" /\ e.id = row.id
          /\ g = FulfilmentToAggregate(row)
          /\ Geocoded([place |-> g.collection.place, cargo |-> g.carried.cargo])
          /\ job = [kind |-> "job", payload |-> CreateShipmentPayload(g)]
          /\ db' = db \cup {job} /\ UNCHANGED <<post, req>> /\ req.pc = "idle"
    BY <1>9, Zenon DEF HandleLastMileFulfilmentCreated
  <2>2. PICK d \in db : d.kind = "LastMileFulfilment" /\ d.row = row
    BY <2>1 DEF Fulfilments, Rows
  <2>3. Traced(p, db, d) /\ row.id.prefix = "lmf"
    BY <1>u, <2>2 DEF Traced
  <2>4. Sound(p)
    BY <1>u, <2>1, <2>3 DEF Traced
  <2>5. job.kind = "job" /\ job.payload = CreateShipmentPayload(g)
    BY <2>1
  <2>6. Traced(p, db, job)
    BY <2>1, <2>2, <2>3, <2>4, <2>5, JobOfRow
  <2>7. PICK more : more = db'
    OBVIOUS
  <2>8. \A x \in more : Traced(p, more, x)
    BY <1>u, <2>1, <2>6, <2>7, MoreRecordsTrace
  <2>9. PICK q : q = req
    OBVIOUS
  <2>10. /\ \A x \in q.staged : Traced(p, more, x)
         /\ FulfilmentUnderway(p, q, more) /\ ShipmentUnderway(p, q, more)
    BY <1>u, <2>1, <2>7, <2>9, MoreRecordsTrace, NothingUnderway
  <2> QED BY <1>p, <1>u, <2>1, <2>7, <2>8, <2>9, <2>10 DEF DataTraced
<1>10. CASE PostShipment
  <2>1. PICK q : q = req'
    OBVIOUS
  <2> DEFINE new == [Idle EXCEPT !.kind = "LastMileShipment"]
  <2>2. PICK d, j, sid :
          /\ d \in db /\ d.kind = "job" /\ j = d.payload
          /\ sid = [prefix |-> "shp", number |-> sent["LastMileShipment"] + 1]
          /\ UNCHANGED <<post, db>>
          /\ \/ \E code : q = [new EXCEPT !.pc = "close", !.outcome = code]
             \/ /\ Wire!Fits(Wire!CreateLastMileShipmentBody, ShipmentBodyOf(j))
                /\ q = [new EXCEPT !.pc = "persist",
                           !.aggregate = ShipmentCreate(sid, ShipmentBodyOf(j)[<<"tenantId">>],
                                                        j.fulfilmentId, ShipmentCommandOf(j))]
    <3>1. PICK j \in {d \in db : d.kind = "job"} :
            LET x       == j.payload
                b       == Wire!Validated(Wire!CreateLastMileShipmentBody, Wire!CargoDefaults, x.fields)
                lines   == ValidatedAll(Wire!PromisedLine, x.lines)
                parcels == ValidatedAll(Wire!Parcel, x.parcels)
                c       == BodyToCommand(b, lines, parcels)
                id      == [prefix |-> "shp", number |-> sent["LastMileShipment"] + 1]
                parent  == {r \in Fulfilments : r.id = x.fulfilmentId /\ r.tenantId = post.tenant}
                opened    == [Idle EXCEPT !.kind = "LastMileShipment"]
                refuse(code) == [opened EXCEPT !.pc = "close", !.outcome = code]
            IN  req' =
                  IF ~WireAccepts(Wire!CreateLastMileShipmentBody, Wire!PromisedLine, Wire!Parcel,
                                  b, lines, parcels) THEN refuse("BODY_INVALID")
                  ELSE IF ~Geocoded(c) THEN refuse("LOCATIONS_NOT_GEOCODED")
                  ELSE IF ~\E r \in parent : FulfilmentReadable(r) THEN refuse("FULFILMENT_NOT_FOUND")
                  ELSE [opened EXCEPT !.pc = "persist",
                                   !.aggregate = ShipmentCreate(id, b[<<"tenantId">>], x.fulfilmentId, c)]
      BY <1>10 DEF PostShipment
    <3> DEFINE y == j.payload
               nextId == [prefix |-> "shp", number |-> sent["LastMileShipment"] + 1]
               s == ShipmentCreate(nextId, ShipmentBodyOf(y)[<<"tenantId">>], y.fulfilmentId,
                                   ShipmentCommandOf(y))
               accepts == WireAccepts(Wire!CreateLastMileShipmentBody, Wire!PromisedLine,
                                     Wire!Parcel, ShipmentBodyOf(y), ShipmentLinesOf(y),
                                     ShipmentParcelsOf(y))
               geocoded == Geocoded(ShipmentCommandOf(y))
               found == \E r \in {x \in Fulfilments : x.id = y.fulfilmentId
                                                    /\ x.tenantId = post.tenant} :
                         FulfilmentReadable(r)
    <3>4. q = IF ~accepts THEN [new EXCEPT !.pc = "close", !.outcome = "BODY_INVALID"]
                   ELSE IF ~geocoded
                     THEN [new EXCEPT !.pc = "close", !.outcome = "LOCATIONS_NOT_GEOCODED"]
                   ELSE IF ~found
                     THEN [new EXCEPT !.pc = "close", !.outcome = "FULFILMENT_NOT_FOUND"]
                   ELSE [new EXCEPT !.pc = "persist", !.aggregate = s]
      BY <2>1, <3>1, Zenon DEF ShipmentBodyOf, ShipmentCommandOf, ShipmentLinesOf, ShipmentParcelsOf
    <3>5. accepts => Wire!Fits(Wire!CreateLastMileShipmentBody, ShipmentBodyOf(y))
      BY DEF WireAccepts
    <3> HIDE DEF accepts, geocoded, found
    <3>3. /\ j \in db /\ j.kind = "job"
          /\ \/ \E code : q = [new EXCEPT !.pc = "close", !.outcome = code]
             \/ /\ Wire!Fits(Wire!CreateLastMileShipmentBody, ShipmentBodyOf(y))
                /\ q = [new EXCEPT !.pc = "persist", !.aggregate = s]
      BY <3>1, <3>4, <3>5, Zenon
    <3>2. UNCHANGED <<post, db>>
      BY <1>10 DEF PostShipment, Arrives
    <3> QED BY <3>2, <3>3, Zenon
  <2>3. PICK id, f : id = j.fulfilmentId /\ f = FulfilmentOf(p, id)
    OBVIOUS
  <2>4. Sound(p) /\ RowOf(p, id) \in db /\ j = CreateShipmentPayload(f)
    BY <1>u, <2>2, <2>3 DEF Traced
  <2>5. IsPoint(f.collection) /\ IsWindow(f.promisedWindow)
    BY <2>3, <2>4, SoundPoint
  <2>6. PICK a : a = ShipmentCreate(sid, ShipmentBodyOf(j)[<<"tenantId">>], j.fulfilmentId,
                                    ShipmentCommandOf(j))
    OBVIOUS
  <2>7. ASSUME Wire!Fits(Wire!CreateLastMileShipmentBody, ShipmentBodyOf(j))
        PROVE  Timely(p) /\ a = SnapshotOf(sid, f)
    <3>1. f.collection.collectionWindow = None \/ InYears(f.collection.collectionWindow)
      BY <2>3, <2>4, <2>5, <2>7, AcceptedInYears
    <3>2. Timely(p)
      <4>1. PICK c : c = CommandOf(p)
        OBVIOUS
      <4>2. /\ f.id = id /\ f.tenantId = p.tenant
            /\ f.collection = [place |-> c.place, collectionWindow |-> c.collectionWindow]
            /\ f.promisedWindow = c.promisedWindow
            /\ f.carried = [cargo |-> c.cargo, lines |-> WithGenerated(<<"lineId">>, c.lines),
                            parcels |-> WithGenerated(<<"parcelId">>, c.parcels)]
        BY <2>3, <4>1, NewFulfilment
      <4> QED BY <3>1, <4>1, <4>2 DEF Timely
    <3>3. InYears(f.promisedWindow)
      BY <1>u, <2>3, <2>4, RowInYears
    <3> QED BY <2>3, <2>4, <2>5, <2>6, <3>1, <3>2, <3>3, SecondPass
  <2>8. sid.prefix = "shp" /\ f.id = id
    <3>1. f.id = id
      BY <2>3, <2>4 DEF CreateShipmentPayload
    <3> QED BY <2>2, <3>1
  <2>9. \/ q.pc = "close"
        \/ /\ Wire!Fits(Wire!CreateLastMileShipmentBody, ShipmentBodyOf(j))
           /\ q.pc = "persist" /\ q.aggregate = a
    BY <2>2, <2>6 DEF Idle
  <2>10. q.kind = "LastMileShipment" /\ q.staged = {}
    BY <2>2 DEF Idle
  <2>11. ShipmentUnderway(p, q, db)
    <3>1. CASE q.pc = "close"
      BY <3>1, NothingUnderway
    <3>2. CASE q.pc = "persist" /\ Timely(p) /\ q.aggregate = SnapshotOf(sid, f)
      <4>1. PICK s : s = q.aggregate /\ s.id = sid /\ s.fulfilmentId = f.id
        BY <3>2 DEF SnapshotOf
      <4> QED BY <2>3, <2>4, <2>8, <3>2, <4>1 DEF ShipmentUnderway
    <3> QED BY <2>7, <2>9, <3>1, <3>2
  <2> QED BY <1>p, <1>u, <2>1, <2>2, <2>10, <2>11 DEF DataTraced
<1>11. CASE UNCHANGED vars
  BY <1>11 DEF vars, DataTraced
<1> QED
  BY <1>1, <1>2, <1>3, <1>4, <1>5, <1>6, <1>7, <1>8, <1>9, <1>10, <1>11 DEF Next

(* No rule is broken when none is reported.                                *)
LEMMA NoneBroken ==
  ASSUME NEW rules, DOMAIN rules = 1..7, \A i \in 1..7 : rules[i][2] # "ok",
         FirstBroken(rules) = "ok"
  PROVE  \A i \in 1..7 : ~rules[i][1]
<1> DEFINE broken == {i \in DOMAIN rules : rules[i][1]}
           first == CHOOSE i \in broken : \A j \in broken : i <= j
<1> SUFFICES ASSUME broken # {} PROVE FALSE
  OBVIOUS
<1>1. \E i \in broken : \A j \in broken : i <= j
  OBVIOUS
<1>2. first \in broken
  BY <1>1
<1>3. rules[first][2] = "ok"
  BY DEF FirstBroken
<1> QED BY <1>2, <1>3

(* Two of the rules: identifiers of lines are distinct, and parcels refer  *)
(* to lines that are there.                                                *)
LEMMA RulesOk ==
  ASSUME NEW c, FirstBroken(Rules(c)) = "ok"
  PROVE  /\ \A i, j \in DOMAIN c.lines :
              /\ <<"lineId">> \in DOMAIN c.lines[i] \cap DOMAIN c.lines[j]
              /\ c.lines[i][<<"lineId">>] = c.lines[j][<<"lineId">>]
              => i = j
         /\ \A i \in DOMAIN c.parcels : c.parcels[i][<<"lineRefs">>] \subseteq DeclaredLines(c.lines)
<1>1. PICK R : R = Rules(c)
  OBVIOUS
<1>2. DOMAIN R = 1..7 /\ \A i \in 1..7 : R[i][2] # "ok"
  BY <1>1 DEF Rules
<1>3. ~R[5][1] /\ ~R[7][1]
  BY <1>1, <1>2, NoneBroken
<1>4. R[5][1] = \E i, j \in DOMAIN c.lines :
                   /\ i # j /\ <<"lineId">> \in DOMAIN c.lines[i] \cap DOMAIN c.lines[j]
                   /\ c.lines[i][<<"lineId">>] = c.lines[j][<<"lineId">>]
  BY <1>1 DEF Rules
<1>5. R[7][1] = \E i \in DOMAIN c.parcels : ~(c.parcels[i][<<"lineRefs">>] \subseteq DeclaredLines(c.lines))
  BY <1>1 DEF Rules
<1> QED BY <1>3, <1>4, <1>5

Identified(p, lines, stored) ==
  /\ DOMAIN stored = DOMAIN p.lines /\ DOMAIN lines = DOMAIN p.lines
  /\ \A i \in DOMAIN p.lines :
       /\ <<"lineId">> \in DOMAIN stored[i]
       /\ <<"lineId">> \in DOMAIN lines[i] <=> <<"lineId">> \in DOMAIN p.lines[i]
       /\ <<"lineId">> \in DOMAIN lines[i] =>
            /\ stored[i][<<"lineId">>] = lines[i][<<"lineId">>]
            /\ lines[i][<<"lineId">>] = p.lines[i][<<"lineId">>]
       /\ <<"lineId">> \notin DOMAIN lines[i] =>
            stored[i][<<"lineId">>] = Wire!Id(17, i)

(* A line of a stored fulfilment has the identifier the client gave it, or *)
(* the one the server generated.                                           *)
LEMMA LineIds ==
  ASSUME NEW p, NEW lines, lines = LinesOf(p),
         NEW stored, stored = WithGenerated(<<"lineId">>, lines)
  PROVE  Identified(p, lines, stored)
<1>1. /\ DOMAIN lines = DOMAIN p.lines
      /\ \A i \in DOMAIN p.lines :
           lines[i] = Wire!Validated(Wire!PromisedLineDraft, Wire!CargoDefaults, p.lines[i])
  BY DEF LinesOf, ValidatedAll
<1>2. /\ DOMAIN stored = DOMAIN lines
      /\ \A i \in DOMAIN lines :
           /\ DOMAIN stored[i] = DOMAIN lines[i] \cup {<<"lineId">>}
           /\ stored[i][<<"lineId">>] = IF <<"lineId">> \in DOMAIN lines[i]
                                        THEN lines[i][<<"lineId">>] ELSE Wire!Id(17, i)
  BY DEF WithGenerated, @@, :>
<1>3. ASSUME NEW i \in DOMAIN p.lines
      PROVE  /\ <<"lineId">> \in DOMAIN lines[i] <=> <<"lineId">> \in DOMAIN p.lines[i]
             /\ <<"lineId">> \in DOMAIN lines[i] =>
                  lines[i][<<"lineId">>] = p.lines[i][<<"lineId">>]
  <2>1. PICK known : known = Wire!Known(Wire!PromisedLineDraft, p.lines[i])
    OBVIOUS
  <2>2. /\ DOMAIN lines[i] = DOMAIN known \cup DOMAIN Wire!CargoDefaults
        /\ \A q \in DOMAIN known : lines[i][q] = known[q]
    BY <1>1, <2>1 DEF Wire!Validated, Wire!@@
  <2>3. DOMAIN Wire!CargoDefaults = {<<"metadata">>} /\ <<"lineId">> # <<"metadata">>
    BY DEF Wire!CargoDefaults, Wire!:>
  <2>4. /\ DOMAIN known = DOMAIN p.lines[i] \cap DOMAIN Wire!PromisedLineDraft
        /\ \A q \in DOMAIN known : known[q] = p.lines[i][q]
    BY <2>1 DEF Wire!Known
  <2>5. <<"lineId">> \in DOMAIN Wire!PromisedLineDraft
    BY CargoPaths
  <2> QED BY <2>2, <2>3, <2>4, <2>5
<1> QED BY <1>1, <1>2, <1>3 DEF Identified

(* Lines have identifiers of their own, and parcels refer to these lines.  *)
Coherent(lines, parcels) ==
  /\ \A i, j \in DOMAIN lines :
       lines[i][<<"lineId">>] = lines[j][<<"lineId">>] => i = j
  /\ \A i \in DOMAIN parcels : parcels[i][<<"lineRefs">>] \subseteq DeclaredLines(lines)

(* The cargo of a fulfilment the rules let through.                        *)
LEMMA CargoOfRuled ==
  ASSUME NEW p \in Posts, Ruled(p), NEW id, NEW f, f = FulfilmentOf(p, id),
         NEW lines, lines = f.carried.lines, NEW parcels, parcels = f.carried.parcels
  PROVE  Coherent(lines, parcels)
<1>1. PICK c : c = CommandOf(p)
  OBVIOUS
<1>2. /\ f.id = id /\ f.tenantId = p.tenant
      /\ f.collection = [place |-> c.place, collectionWindow |-> c.collectionWindow]
      /\ f.promisedWindow = c.promisedWindow
      /\ f.carried = [cargo |-> c.cargo, lines |-> WithGenerated(<<"lineId">>, c.lines),
                      parcels |-> WithGenerated(<<"parcelId">>, c.parcels)]
  BY <1>1, NewFulfilment
<1>d. PICK drafts : drafts = LinesOf(p)
  OBVIOUS
<1>e. PICK boxes : boxes = ParcelsOf(p)
  OBVIOUS
<1>3. c.lines = drafts /\ c.parcels = [i \in DOMAIN boxes |-> boxes[i] @@ ParcelDefaults]
  BY <1>1, <1>d, <1>e DEF CommandOf, BodyToCommand
<1>4. lines = WithGenerated(<<"lineId">>, drafts)
  BY <1>2, <1>3
<1>5. /\ \A i, j \in DOMAIN c.lines :
           /\ <<"lineId">> \in DOMAIN c.lines[i] \cap DOMAIN c.lines[j]
           /\ c.lines[i][<<"lineId">>] = c.lines[j][<<"lineId">>]
           => i = j
      /\ \A i \in DOMAIN c.parcels :
           c.parcels[i][<<"lineRefs">>] \subseteq DeclaredLines(c.lines)
  BY <1>1, RulesOk DEF Ruled
<1>6. /\ DOMAIN lines = DOMAIN p.lines /\ DOMAIN drafts = DOMAIN p.lines
      /\ \A i \in DOMAIN p.lines :
           /\ <<"lineId">> \in DOMAIN lines[i]
           /\ <<"lineId">> \in DOMAIN drafts[i] <=> <<"lineId">> \in DOMAIN p.lines[i]
           /\ <<"lineId">> \in DOMAIN drafts[i] =>
                /\ lines[i][<<"lineId">>] = drafts[i][<<"lineId">>]
                /\ drafts[i][<<"lineId">>] = p.lines[i][<<"lineId">>]
           /\ <<"lineId">> \notin DOMAIN drafts[i] =>
                lines[i][<<"lineId">>] = Wire!Id(17, i)
  <2>1. Identified(p, drafts, lines)
    BY <1>d, <1>4, LineIds
  <2> QED BY <2>1 DEF Identified
<1>7. /\ DOMAIN p.lines \subseteq Nat
      /\ \A i, j \in DOMAIN p.lines :
           <<"lineId">> \in DOMAIN p.lines[i] => p.lines[i][<<"lineId">>] # Wire!Id(17, j)
  BY IntakeAssumption
<1>8. ASSUME NEW i \in Nat, NEW j \in Nat, Wire!Id(17, i) = Wire!Id(17, j)
      PROVE  i = j
  BY <1>8 DEF Wire!Id
<1>9. ASSUME NEW i \in DOMAIN lines, NEW j \in DOMAIN lines,
             lines[i][<<"lineId">>] = lines[j][<<"lineId">>]
      PROVE  i = j
  <2>1. CASE <<"lineId">> \in DOMAIN drafts[i] /\ <<"lineId">> \in DOMAIN drafts[j]
    BY <1>3, <1>5, <1>6, <1>9, <2>1
  <2>2. CASE <<"lineId">> \in DOMAIN drafts[i] /\ <<"lineId">> \notin DOMAIN drafts[j]
    BY <1>6, <1>7, <1>9, <2>2
  <2>3. CASE <<"lineId">> \notin DOMAIN drafts[i] /\ <<"lineId">> \in DOMAIN drafts[j]
    BY <1>6, <1>7, <1>9, <2>3
  <2>4. CASE <<"lineId">> \notin DOMAIN drafts[i] /\ <<"lineId">> \notin DOMAIN drafts[j]
    <3>1. Wire!Id(17, i) = Wire!Id(17, j) /\ i \in Nat /\ j \in Nat
      BY <1>6, <1>7, <1>9, <2>4
    <3> QED BY <1>8, <3>1
  <2> QED BY <2>1, <2>2, <2>3, <2>4
<1>10. DeclaredLines(drafts) \subseteq DeclaredLines(lines)
  BY <1>6 DEF DeclaredLines
<1>11. ASSUME NEW i \in DOMAIN parcels
       PROVE  parcels[i][<<"lineRefs">>] \subseteq DeclaredLines(lines)
  <2>1. PICK packed : packed = c.parcels
    OBVIOUS
  <2>2. parcels = WithGenerated(<<"parcelId">>, packed)
    BY <1>2, <2>1
  <2>3. /\ i \in DOMAIN packed /\ <<"lineRefs">> \in DOMAIN packed[i]
        /\ parcels[i][<<"lineRefs">>] = packed[i][<<"lineRefs">>]
    <3>1. DOMAIN parcels = DOMAIN packed
          /\ \A q \in DOMAIN packed[i] : parcels[i][q] = packed[i][q]
      BY <2>2 DEF WithGenerated, @@
    <3>2. DOMAIN ParcelDefaults = {<<"lineRefs">>, <<"status">>}
      BY DEF ParcelDefaults, @@, :>
    <3>3. packed[i] = boxes[i] @@ ParcelDefaults
      BY <1>3, <2>1, <3>1
    <3>4. <<"lineRefs">> \in DOMAIN packed[i]
      BY <3>2, <3>3 DEF @@
    <3> QED BY <3>1, <3>4
  <2> QED BY <1>3, <1>5, <1>10, <2>1, <2>3
<1> QED BY <1>9, <1>11 DEF Coherent

(* The rows of the database.                                               *)
LEMMA FulfilmentRow ==
  ASSUME NEW p, NEW records, NEW d \in records, d.kind = "LastMileFulfilment",
         Traced(p, records, d)
  PROVE  Ruled(p) /\ d.row.carried = FulfilmentOf(p, d.row.id).carried
<1>1. PICK f : f = FulfilmentOf(p, d.row.id)
  OBVIOUS
<1>2. d = ToRow("LastMileFulfilment", f) /\ Ruled(p)
  BY <1>1 DEF Traced, RowOf
<1>3. d.row = FulfilmentToRow(f)
  BY <1>2 DEF ToRow
<1>4. d.row.carried = f.carried
  BY <1>3 DEF FulfilmentToRow
<1> QED BY <1>1, <1>2, <1>4

(* The row of a shipment and that of its fulfilment, read back.            *)
LEMMA ShipmentRow ==
  ASSUME NEW p, NEW records, NEW d, d.kind = "LastMileShipment", Traced(p, records, d),
         NEW f, f = FulfilmentOf(p, d.row.fulfilmentId),
         NEW row, row = FulfilmentToRow(f)
  PROVE  /\ ToRow("LastMileFulfilment", f) \in records
         /\ d.row.carried = f.carried
         /\ d.row.tenantId = row.tenantId /\ row.id = d.row.fulfilmentId
         /\ LET s == ShipmentToAggregate(d.row)
                g == FulfilmentToAggregate(row)
            IN  /\ s.collection = g.collection /\ s.promisedWindow = g.promisedWindow
                /\ s.carried = g.carried
<1>1. Sound(p) /\ ToRow("LastMileFulfilment", f) \in records
  BY DEF Traced, RowOf
<1>2. PICK s : s = SnapshotOf(d.row.id, f) /\ d.row = ShipmentToRow(s)
  BY DEF Traced
<1>3. /\ Sendable(d.row) /\ ShipmentReadable(d.row) /\ ShipmentToAggregate(d.row) = s
      /\ d.row.id = d.row.id /\ d.row.tenantId = f.tenantId /\ d.row.fulfilmentId = f.id
      /\ d.row.carried = f.carried
  BY <1>1, <1>2, SnapshotSurvives
<1>4. PICK g : g = FulfilmentToAggregate(row)
  OBVIOUS
<1>5. /\ g.id = f.id /\ g.tenantId = f.tenantId /\ g.carried = f.carried
      /\ g.collection = f.collection /\ g.promisedWindow = f.promisedWindow
  BY <1>1, <1>4, RowKeepsPromise
<1>6. /\ s.collection = f.collection /\ s.promisedWindow = f.promisedWindow
      /\ s.carried = f.carried
  BY <1>2 DEF SnapshotOf
<1>7. row.id = f.id /\ row.tenantId = f.tenantId
  BY DEF FulfilmentToRow
<1> QED BY <1>1, <1>3, <1>4, <1>5, <1>6, <1>7

(* The empty database.                                                     *)
LEMMA InitTraced ==
  Init => RowsOpen /\ AllAnnounced /\ DataTraced
BY DEF Init, RowsOpen, AllAnnounced, DataTraced, Idle, FulfilmentUnderway, ShipmentUnderway

(* In every stored row each line has an identifier of its own, given or    *)
(* generated, and parcels refer to lines of their own row: nothing on the  *)
(* way from the body to either table separates a parcel from its lines.    *)
THEOREM CargoStaysCoherent == Spec => []CargoIsCoherent
<1>1. DataTraced => CargoIsCoherent
  <2> SUFFICES ASSUME DataTraced PROVE CargoIsCoherent
    OBVIOUS
  <2>1. PICK p : p = post /\ p \in Posts /\ \A d \in db : Traced(p, db, d)
    BY DEF DataTraced
  <2>2. ASSUME NEW r \in Fulfilments \cup Shipments
        PROVE  \E id : Ruled(p) /\ r.carried = FulfilmentOf(p, id).carried
    <3>1. CASE r \in Fulfilments
      <4>1. PICK d \in db : d.kind = "LastMileFulfilment" /\ d.row = r
        BY <3>1 DEF Fulfilments, Rows
      <4> QED BY <2>1, <4>1, FulfilmentRow
    <3>2. CASE r \in Shipments
      <4>1. PICK d \in db : d.kind = "LastMileShipment" /\ d.row = r
        BY <3>2 DEF Shipments, Rows
      <4>2. PICK f, row : f = FulfilmentOf(p, d.row.fulfilmentId) /\ row = FulfilmentToRow(f)
        OBVIOUS
      <4>3. /\ ToRow("LastMileFulfilment", f) \in db
            /\ d.row.carried = f.carried
            /\ d.row.tenantId = row.tenantId /\ row.id = d.row.fulfilmentId
            /\ LET s == ShipmentToAggregate(d.row)
                   g == FulfilmentToAggregate(row)
               IN  /\ s.collection = g.collection /\ s.promisedWindow = g.promisedWindow
                   /\ s.carried = g.carried
        BY <2>1, <4>1, <4>2, ShipmentRow
      <4>4. PICK e \in db : e = ToRow("LastMileFulfilment", f)
        BY <4>3
      <4>5. e.kind = "LastMileFulfilment"
        BY <4>4 DEF ToRow
      <4>6. Ruled(p)
        BY <2>1, <4>4, <4>5, FulfilmentRow
      <4> QED BY <4>1, <4>2, <4>3, <4>6
    <3> QED BY <3>1, <3>2
  <2>3. ASSUME NEW r \in Fulfilments \cup Shipments,
               NEW lines, lines = r.carried.lines, NEW parcels, parcels = r.carried.parcels
        PROVE  Coherent(lines, parcels)
    <3>0. PICK id, f : f = FulfilmentOf(p, id) /\ Ruled(p) /\ r.carried = f.carried
      BY <2>2
    <3>1. f = FulfilmentOf(p, id) /\ Ruled(p)
      BY <3>0
    <3>p. p \in Posts
      BY <2>1
    <3>2. lines = f.carried.lines /\ parcels = f.carried.parcels
      BY <2>3, <3>0
    <3> QED BY <3>p, <3>1, <3>2, CargoOfRuled
  <2> QED BY <2>3 DEF CargoIsCoherent, Coherent
<1> QED
  BY <1>1, InitTraced, NextRowsOpen, NextAnnounced, NextTraced, PTL DEF Spec

(* Every stored shipment is the snapshot of a stored fulfilment: read back *)
(* from their tables, both have the same tenant, places, windows and       *)
(* cargo, although the promise went through a row, a job's JSON, a second  *)
(* validation and a second row.                                            *)
THEOREM ShipmentsCarryThePromise == Spec => []ShipmentCarriesPromise
<1>1. DataTraced => ShipmentCarriesPromise
  <2> SUFFICES ASSUME DataTraced, NEW s \in Shipments
               PROVE  \E f \in Fulfilments :
                        LET shipment   == ShipmentToAggregate(s)
                            fulfilment == FulfilmentToAggregate(f)
                        IN  /\ f.id = s.fulfilmentId /\ f.tenantId = s.tenantId
                            /\ shipment.collection = fulfilment.collection
                            /\ shipment.promisedWindow = fulfilment.promisedWindow
                            /\ shipment.carried = fulfilment.carried
    BY DEF ShipmentCarriesPromise
  <2>1. PICK p : p = post /\ p \in Posts /\ \A d \in db : Traced(p, db, d)
    BY DEF DataTraced
  <2>2. PICK d \in db : d.kind = "LastMileShipment" /\ d.row = s
    BY DEF Shipments, Rows
  <2>3. PICK f, row : f = FulfilmentOf(p, d.row.fulfilmentId) /\ row = FulfilmentToRow(f)
    OBVIOUS
  <2>4. /\ ToRow("LastMileFulfilment", f) \in db
        /\ d.row.carried = f.carried
        /\ d.row.tenantId = row.tenantId /\ row.id = d.row.fulfilmentId
        /\ LET shipment == ShipmentToAggregate(d.row)
               g == FulfilmentToAggregate(row)
           IN  /\ shipment.collection = g.collection /\ shipment.promisedWindow = g.promisedWindow
               /\ shipment.carried = g.carried
    BY <2>1, <2>2, <2>3, ShipmentRow
  <2>5. row \in Fulfilments
    <3>1. PICK e \in db : e = ToRow("LastMileFulfilment", f)
      BY <2>4
    <3>2. e.kind = "LastMileFulfilment" /\ e.row = row
      BY <2>3, <3>1 DEF ToRow
    <3> QED BY <3>2 DEF Fulfilments, Rows
  <2> QED BY <2>2, <2>4, <2>5
<1> QED
  BY <1>1, InitTraced, NextRowsOpen, NextAnnounced, NextTraced, PTL DEF Spec

-----------------------------------------------------------------------------
(* The second validation accepts what the first one and the use case have *)
(* made of an accepted body.                                               *)

(* A catalog has a first value.                                            *)
LEMMA CatalogsStart ==
  /\ Wire!Ambient \in Wire!Enum(Wire!TemperatureZone)
  /\ Wire!Packed \in Wire!Enum(Wire!ParcelStatus)
<1>0. ASSUME NEW S PROVE Wire!Cardinality(S) = Cardinality(S)
  BY Zenon DEF Wire!Cardinality, Cardinality
<1>1. ASSUME NEW S, NEW x, IsFiniteSet(S)
      PROVE  /\ IsFiniteSet(S \cup {x}) /\ Cardinality(S \cup {x}) \in Nat
             /\ Cardinality(S \cup {x}) >= 1
  <2>1. IsFiniteSet(S \cup {x})
    BY <1>1, FS_AddElement
  <2>2. Cardinality(S \cup {x}) \in Nat
    BY <2>1, FS_CardinalityType
  <2>3. Cardinality(S \cup {x}) # 0
    BY <2>1, FS_EmptySet
  <2> QED BY <2>1, <2>2, <2>3
<1>2. IsFiniteSet({})
  BY FS_EmptySet
<1>3. /\ Wire!TemperatureZone = {} \cup {"ambient"} \cup {"chilled"} \cup {"frozen"} \cup {"deep_frozen"}
      /\ Wire!ParcelStatus = {} \cup {"packed"} \cup {"picked_up"} \cup {"delivered"}
                                \cup {"failed"} \cup {"returned"}
  BY DEF Wire!TemperatureZone, Wire!ParcelStatus
<1>4. IsFiniteSet({} \cup {"ambient"} \cup {"chilled"} \cup {"frozen"})
  BY <1>1, <1>2
<1>5. IsFiniteSet({} \cup {"packed"} \cup {"picked_up"} \cup {"delivered"} \cup {"failed"})
  BY <1>1, <1>2
<1>6. /\ Cardinality(Wire!TemperatureZone) \in Nat /\ Cardinality(Wire!TemperatureZone) >= 1
      /\ Cardinality(Wire!ParcelStatus) \in Nat /\ Cardinality(Wire!ParcelStatus) >= 1
  BY <1>1, <1>3, <1>4, <1>5
<1>7. /\ Wire!Enum(Wire!TemperatureZone) = 1 .. Cardinality(Wire!TemperatureZone)
      /\ Wire!Enum(Wire!ParcelStatus) = 1 .. Cardinality(Wire!ParcelStatus)
  BY <1>0, Zenon DEF Wire!Enum
<1>8. PICK n, m : n = Cardinality(Wire!TemperatureZone) /\ m = Cardinality(Wire!ParcelStatus)
  OBVIOUS
<1>9. 1 \in 1..n /\ 1 \in 1..m
  BY <1>6, <1>8
<1> QED BY <1>7, <1>8, <1>9, Zenon DEF Wire!Ambient, Wire!Packed

(* The rest of what the body of a job has.                                 *)
LEMMA JobFields ==
  ASSUME NEW P, NEW C, NEW cw, NEW pw, NEW tenant,
         \A q \in DOMAIN P : IsPlacePath(q), \A q \in DOMAIN C : q[1] \in Cargo, pw # None,
         NEW F, F = FieldsOf(P, C, cw, pw, tenant)
  PROVE  /\ F[Promised] = 0 /\ (cw # None => F[Collecting] = 0)
         /\ <<"fulfilmentId">> \in DOMAIN F /\ F[<<"fulfilmentId">>] = 17
         /\ cw = None => \A q \in DOMAIN F : q \notin Periods(Collecting)
<1> DEFINE W == WindowFields(Collecting, cw)
           V == WindowFields(Promised, pw)
<1>1. /\ DOMAIN V = {Promised, Promised \o <<"start">>, Promised \o <<"end">>}
      /\ V[Promised] = 0
  BY PathFacts DEF WindowFields, @@, :>
<1>2. /\ cw = None => DOMAIN W = {}
      /\ cw # None => /\ DOMAIN W = {Collecting, Collecting \o <<"start">>, Collecting \o <<"end">>}
                      /\ W[Collecting] = 0
  <2>1. CASE cw = None
    <3>1. W = <<>> /\ DOMAIN <<>> = {}
      BY <2>1 DEF WindowFields
    <3> QED BY <2>1, <3>1
  <2>2. CASE cw # None
    <3>1. W = (Collecting :> 0) @@ (Collecting \o <<"start">> :> JsonDate(cw.start))
                                @@ (Collecting \o <<"end">> :> JsonDate(cw.end))
      BY <2>2 DEF WindowFields
    <3> QED BY <2>2, <3>1, PathFacts DEF @@, :>
  <2> QED BY <2>1, <2>2
<1> HIDE DEF W, V
<1>3. F = P @@ C @@ W @@ V @@ (<<"tenantId">> :> tenant) @@ (<<"fulfilmentId">> :> 17)
  BY Zenon DEF FieldsOf, W, V
<1>4. /\ \A q \in DOMAIN W : q \notin DOMAIN P \cup DOMAIN C => q \in DOMAIN F /\ F[q] = W[q]
      /\ \A q \in DOMAIN V : q \notin DOMAIN P \cup DOMAIN C \cup DOMAIN W =>
                               q \in DOMAIN F /\ F[q] = V[q]
      /\ <<"fulfilmentId">> \in DOMAIN F
      /\ <<"fulfilmentId">> \notin DOMAIN P \cup DOMAIN C \cup DOMAIN W \cup DOMAIN V
           => F[<<"fulfilmentId">>] = 17
  <2>1. <<"fulfilmentId">> # <<"tenantId">>
    OBVIOUS
  <2> QED BY <1>3, <2>1 DEF @@, :>
<1>5. Cargo \cap {"collection", "promisedWindow", "tenantId", "fulfilmentId"} = {}
  BY DEF Cargo
<1>6. /\ \A q \in DOMAIN P : q[1] = "collection" /\ IsPlacePath(q)
      /\ \A q \in DOMAIN W : q[1] = "collection" /\ ~IsPlacePath(q)
      /\ \A q \in DOMAIN V : q[1] = "promisedWindow"
  BY <1>1, <1>2, PathFacts DEF IsPlacePath
<1>7. cw = None => \A q \in DOMAIN F : q \notin Periods(Collecting)
  <2>1. DOMAIN F = DOMAIN P \cup DOMAIN C \cup DOMAIN W \cup DOMAIN V
                   \cup {<<"tenantId">>, <<"fulfilmentId">>}
    BY <1>3 DEF @@, :>
  <2>2. \A q \in Periods(Collecting) : q[1] = "collection" /\ ~IsPlacePath(q)
    BY PathFacts DEF Periods
  <2> QED BY <1>2, <1>5, <1>6, <2>1, <2>2
<1> QED BY <1>1, <1>2, <1>4, <1>5, <1>6, <1>7, PathFacts

(* What a body gives the place and the cargo.                              *)
LEMMA FirstValues ==
  ASSUME NEW b, NEW P, P = Place(b), NEW C, C = Below(b, Cargo) @@ CommandDefaults
  PROVE  /\ \A q : q \in DOMAIN P <=> q \in DOMAIN b /\ IsPlacePath(q)
         /\ \A q \in DOMAIN P : P[q] = b[q]
         /\ \A q : q \in DOMAIN C <=> \/ q \in DOMAIN b /\ q[1] \in Cargo
                                      \/ q \in {<<"temperatureZone">>, <<"dropOff", "access">>}
         /\ \A q \in DOMAIN C : \/ C[q] = b[q] /\ q \in DOMAIN b
                                \/ C[q] = Wire!Ambient /\ q = <<"temperatureZone">>
                                \/ C[q] = 0 /\ q = <<"dropOff", "access">>
<1>1. PICK c : c = Below(b, {"collection"})
  OBVIOUS
<1>2. DOMAIN c = {q \in DOMAIN b : q[1] = "collection"} /\ \A q \in DOMAIN c : c[q] = b[q]
  BY <1>1 DEF Below
<1>3. P = [q \in {s \in DOMAIN c : Len(s) = 1 \/ s[2] # "collectionWindow"} |-> c[q]]
  BY <1>1, Zenon DEF Place
<1>4. /\ \A q : q \in DOMAIN P <=> q \in DOMAIN b /\ IsPlacePath(q)
      /\ \A q \in DOMAIN P : P[q] = b[q]
  BY <1>2, <1>3 DEF IsPlacePath
<1>5. PICK k : k = Below(b, Cargo)
  OBVIOUS
<1>6. DOMAIN k = {q \in DOMAIN b : q[1] \in Cargo} /\ \A q \in DOMAIN k : k[q] = b[q]
  BY <1>5 DEF Below
<1>7. PICK d : d = CommandDefaults
  OBVIOUS
<1>8. /\ DOMAIN d = {<<"temperatureZone">>, <<"dropOff", "access">>}
      /\ d[<<"temperatureZone">>] = Wire!Ambient /\ d[<<"dropOff", "access">>] = 0
  <2>1. <<"temperatureZone">> # <<"dropOff", "access">>
    OBVIOUS
  <2> QED BY <1>7, <2>1 DEF CommandDefaults, @@, :>
<1>9. /\ DOMAIN C = DOMAIN k \cup DOMAIN d
      /\ \A q \in DOMAIN k : C[q] = k[q]
      /\ \A q \in DOMAIN d : q \notin DOMAIN k => C[q] = d[q]
  BY <1>5, <1>7 DEF @@
<1>10. PICK t, a : t = <<"temperatureZone">> /\ a = <<"dropOff", "access">>
  OBVIOUS
<1>11. DOMAIN d = {t, a} /\ d[t] = Wire!Ambient /\ d[a] = 0
  BY <1>8, <1>10
<1>12. \A q : q \in DOMAIN C <=> \/ q \in DOMAIN b /\ q[1] \in Cargo
                                 \/ q \in {t, a}
  BY <1>6, <1>9, <1>11
<1>13. \A q \in DOMAIN C : \/ C[q] = b[q] /\ q \in DOMAIN b
                           \/ C[q] = Wire!Ambient /\ q = t
                           \/ C[q] = 0 /\ q = a
  <2> SUFFICES ASSUME NEW q \in DOMAIN C
               PROVE  \/ C[q] = b[q] /\ q \in DOMAIN b
                      \/ C[q] = Wire!Ambient /\ q = t
                      \/ C[q] = 0 /\ q = a
    OBVIOUS
  <2>1. CASE q \in DOMAIN k
    BY <1>6, <1>9, <2>1
  <2>2. CASE q \notin DOMAIN k
    <3>1. q \in DOMAIN d /\ C[q] = d[q]
      BY <1>9, <2>2
    <3> QED BY <1>11, <3>1
  <2> QED BY <2>1, <2>2
<1> QED BY <1>4, <1>10, <1>12, <1>13

(* The body F of a job repeats the body b of the creation: its place, its  *)
(* cargo but for two defaults, its windows as dates.                       *)
Access == <<"dropOff", "access">>
Zone   == <<"temperatureZone">>

Repeats(F, b) ==
  /\ \A q : IsPlacePath(q) => (q \in DOMAIN F <=> q \in DOMAIN b)
  /\ \A q \in DOMAIN F : IsPlacePath(q) => F[q] = b[q]
  /\ \A q : q[1] \in Cargo => (q \in DOMAIN F <=> q \in DOMAIN b \/ q \in {Zone, Access})
  /\ \A q \in DOMAIN F : q[1] \in Cargo => \/ q \in DOMAIN b /\ F[q] = b[q]
                                           \/ q = Zone /\ F[q] = Wire!Ambient
                                           \/ q = Access /\ F[q] = 0
  /\ Collecting \in DOMAIN F => Periods(Collecting) \subseteq DOMAIN F
  /\ Periods(Promised) \subseteq DOMAIN F
  /\ \A q \in Periods(Collecting) \cap DOMAIN F : IF q = Collecting THEN F[q] = 0 ELSE F[q] \in Int
  /\ \A q \in Periods(Promised) : IF q = Promised THEN F[q] = 0 ELSE F[q] \in Int

LEMMA FieldsRepeat ==
  ASSUME NEW b, NEW P, P = Place(b), NEW C, C = Below(b, Cargo) @@ CommandDefaults,
         NEW cw, cw = None \/ IsWindow(cw), NEW pw, IsWindow(pw), pw # None, NEW tenant,
         cw = None \/ InYears(cw), InYears(pw),
         NEW F, F = FieldsOf(P, C, cw, pw, tenant)
  PROVE  Repeats(F, b)
<1>1. /\ \A q : q \in DOMAIN P <=> q \in DOMAIN b /\ IsPlacePath(q)
      /\ \A q \in DOMAIN P : P[q] = b[q]
      /\ \A q : q \in DOMAIN C <=> \/ q \in DOMAIN b /\ q[1] \in Cargo
                                   \/ q \in {<<"temperatureZone">>, <<"dropOff", "access">>}
      /\ \A q \in DOMAIN C : \/ C[q] = b[q] /\ q \in DOMAIN b
                             \/ C[q] = Wire!Ambient /\ q = <<"temperatureZone">>
                             \/ C[q] = 0 /\ q = <<"dropOff", "access">>
  BY FirstValues
<1>2. Zone[1] \in Cargo /\ Access[1] \in Cargo
  BY DEF Zone, Access, Cargo
<1>3. /\ \A q \in DOMAIN P : IsPlacePath(q)
      /\ \A q : q \in DOMAIN C <=> \/ q \in DOMAIN b /\ q[1] \in Cargo
                                   \/ q \in {Zone, Access}
      /\ \A q \in DOMAIN C : \/ C[q] = b[q] /\ q \in DOMAIN b
                             \/ C[q] = Wire!Ambient /\ q = Zone
                             \/ C[q] = 0 /\ q = Access
  BY <1>1 DEF Zone, Access
<1>4. \A q \in DOMAIN C : q[1] \in Cargo
  BY <1>2, <1>3
<1>5. /\ F = [q \in DOMAIN F |-> F[q]]
      /\ \A q : IsPlacePath(q) => (q \in DOMAIN F <=> q \in DOMAIN P)
      /\ \A q : q[1] \in Cargo => (q \in DOMAIN F <=> q \in DOMAIN C)
      /\ \A q \in DOMAIN P : F[q] = P[q]
      /\ \A q \in DOMAIN C : F[q] = C[q]
      /\ Collecting \in DOMAIN F <=> cw # None
      /\ cw # None => /\ Collecting \o <<"start">> \in DOMAIN F
                      /\ Collecting \o <<"end">> \in DOMAIN F
                      /\ F[Collecting \o <<"start">>] = JsonDate(cw.start)
                      /\ F[Collecting \o <<"end">>] = JsonDate(cw.end)
      /\ {Promised, Promised \o <<"start">>, Promised \o <<"end">>} \subseteq DOMAIN F
      /\ F[Promised \o <<"start">>] = JsonDate(pw.start)
      /\ F[Promised \o <<"end">>] = JsonDate(pw.end)
      /\ <<"tenantId">> \in DOMAIN F /\ F[<<"tenantId">>] = tenant
      /\ DOMAIN F \subseteq DOMAIN P \cup DOMAIN C
           \cup {Collecting, Collecting \o <<"start">>, Collecting \o <<"end">>}
           \cup {Promised, Promised \o <<"start">>, Promised \o <<"end">>}
           \cup {<<"tenantId">>, <<"fulfilmentId">>}
  BY <1>3, <1>4, SecondFields
<1>6. /\ F[Promised] = 0 /\ (cw # None => F[Collecting] = 0)
      /\ <<"fulfilmentId">> \in DOMAIN F /\ F[<<"fulfilmentId">>] = 17
      /\ cw = None => \A q \in DOMAIN F : q \notin Periods(Collecting)
  BY <1>3, <1>4, JobFields
<1>7. PICK cs, ce, ps, pe :
        /\ cs = Collecting \o <<"start">> /\ ce = Collecting \o <<"end">>
        /\ ps = Promised \o <<"start">> /\ pe = Promised \o <<"end">>
  OBVIOUS
<1>8. /\ Periods(Collecting) = {Collecting, cs, ce} /\ Periods(Promised) = {Promised, ps, pe}
      /\ cs # Collecting /\ ce # Collecting /\ ps # Promised /\ pe # Promised
  BY <1>7, PathFacts DEF Periods
<1>y. ASSUME NEW w, InYears(w) PROVE JsonDate(w.start) = w.start /\ JsonDate(w.end) = w.end
  BY <1>y DEF InYears, JsonDate
<1>9. Collecting \in DOMAIN F => Periods(Collecting) \subseteq DOMAIN F
  BY <1>5, <1>7, <1>8
<1>10. Periods(Promised) \subseteq DOMAIN F
  BY <1>5, <1>7, <1>8
<1>11. ASSUME NEW q \in Periods(Collecting), q \in DOMAIN F
       PROVE  IF q = Collecting THEN F[q] = 0 ELSE F[q] \in Int
  <2>1. cw # None
    BY <1>6, <1>11
  <2>2. F[Collecting] = 0
    BY <1>6, <2>1
  <2>3. F[cs] = JsonDate(cw.start) /\ F[ce] = JsonDate(cw.end)
    BY <1>5, <1>7, <2>1, Zenon
  <2>4. F[cs] = cw.start /\ F[ce] = cw.end
    BY <1>y, <2>1, <2>3
  <2> QED BY <1>8, <1>11, <2>1, <2>2, <2>4 DEF IsWindow
<1>12. ASSUME NEW q \in Periods(Promised)
       PROVE  IF q = Promised THEN F[q] = 0 ELSE F[q] \in Int
  <2>1. F[Promised] = 0
    BY <1>6
  <2>2. F[ps] = pw.start /\ F[pe] = pw.end
    <3>1. F[ps] = JsonDate(pw.start) /\ F[pe] = JsonDate(pw.end)
      BY <1>5, <1>7, Zenon
    <3> QED BY <1>y, <3>1
  <2> QED BY <1>8, <1>12, <2>1, <2>2 DEF IsWindow
<1>13. /\ \A q : IsPlacePath(q) => (q \in DOMAIN F <=> q \in DOMAIN b)
       /\ \A q \in DOMAIN F : IsPlacePath(q) => F[q] = b[q]
  BY <1>1, <1>5
<1>14. /\ \A q : q[1] \in Cargo => (q \in DOMAIN F <=> q \in DOMAIN b \/ q \in {Zone, Access})
       /\ \A q \in DOMAIN F : q[1] \in Cargo => \/ q \in DOMAIN b /\ F[q] = b[q]
                                                \/ q = Zone /\ F[q] = Wire!Ambient
                                                \/ q = Access /\ F[q] = 0
  BY <1>3, <1>5
<1> QED BY <1>9, <1>10, <1>11, <1>12, <1>13, <1>14 DEF Repeats

(* The other fields of the body of a job.                                  *)
LEMMA ShipmentBodyAt ==
  ASSUME NEW S, S = Wire!CreateLastMileShipmentBody
  PROVE  /\ DOMAIN S = DOMAIN Wire!Snapshot \cup {<<"tenantId">>, <<"fulfilmentId">>}
         /\ S[<<"tenantId">>] = Wire!Required(1..100)
         /\ S[<<"fulfilmentId">>] = Wire!Required(1..40)
<1>1. PICK T, L, r : /\ T = Wire!Snapshot /\ L = Wire!Leaves(r)
                     /\ r = [tenantId |-> Wire!Required(1..100),
                             fulfilmentId |-> Wire!Required(1..40)]
  OBVIOUS
<1>2. S = Wire!@@(T, L)
  BY <1>1 DEF Wire!CreateLastMileShipmentBody
<1>3. /\ DOMAIN r = {"tenantId", "fulfilmentId"}
      /\ r["tenantId"] = Wire!Required(1..100) /\ r["fulfilmentId"] = Wire!Required(1..40)
  BY <1>1
<1>4. /\ DOMAIN L = {<<"tenantId">>, <<"fulfilmentId">>}
      /\ L[<<"tenantId">>] = r["tenantId"] /\ L[<<"fulfilmentId">>] = r["fulfilmentId"]
  BY <1>1, <1>3, LeavesAt
<1>5. \A q \in DOMAIN T : q[1] \in Cargo \cup {"collection", "promisedWindow"}
  BY <1>1, SnapshotAt
<1>6. /\ <<"tenantId">>[1] = "tenantId" /\ <<"fulfilmentId">>[1] = "fulfilmentId"
      /\ {"tenantId", "fulfilmentId"} \cap (Cargo \cup {"collection", "promisedWindow"}) = {}
  BY DEF Cargo
<1>7. /\ DOMAIN S = DOMAIN T \cup DOMAIN L
      /\ \A q \in DOMAIN S : S[q] = IF q \in DOMAIN T THEN T[q] ELSE L[q]
  BY <1>2 DEF Wire!@@
<1> QED BY <1>1, <1>3, <1>4, <1>5, <1>6, <1>7

(* A path of one name is nobody's child, a longer one has a parent whose   *)
(* path starts like its own.                                               *)
LEMMA ParentKind ==
  ASSUME NEW q, Regular(q), Len(q) # 1
  PROVE  /\ Parent(q)[1] = q[1]
         /\ IsPlacePath(q) => IsPlacePath(Parent(q))
         /\ Parent(q) = Access => q[1] = "dropOff" /\ Len(q) > 1 /\ q[2] = "access"
         /\ Parent(q) = Zone => q[1] = "temperatureZone"
<1>1. /\ Len(q) \in Nat /\ Len(q) > 1 /\ Parent(q)[1] = q[1]
      /\ Len(q) = 2 => Parent(q) = <<q[1]>> /\ q = <<q[1], q[2]>>
      /\ Len(q) > 2 => /\ Parent(q)[2] = q[2] /\ Len(Parent(q)) = 2
                       /\ q = <<q[1], q[2], q[3]>>
  BY DEF Regular
<1>2. Len(q) = 2 \/ Len(q) > 2
  <2>1. PICK n : n = Len(q)
    OBVIOUS
  <2>2. n \in Nat /\ n > 1
    BY <1>1, <2>1
  <2> QED BY <2>1, <2>2
<1>3. ASSUME NEW k PROVE Len(<<k>>) = 1
  OBVIOUS
<1>4. IsPlacePath(q) => IsPlacePath(Parent(q))
  BY <1>1, <1>2, <1>3 DEF IsPlacePath
<1>5. Parent(q) = Access => q[1] = "dropOff" /\ q[2] = "access"
  <2>1. Len(Access) = 2 /\ Access[1] = "dropOff" /\ Access[2] = "access"
    BY DEF Access
  <2> QED BY <1>1, <1>2, <1>3, <2>1
<1>6. Zone[1] = "temperatureZone"
  BY DEF Zone
<1> QED BY <1>1, <1>4, <1>5, <1>6

(* The dates of a collection window have the window as their parent.       *)
LEMMA WindowParents ==
  /\ Parent(Collecting \o <<"start">>) = Collecting
  /\ Parent(Collecting \o <<"end">>) = Collecting
  /\ Len(Collecting \o <<"start">>) # 1 /\ Len(Collecting \o <<"end">>) # 1
<1>1. ASSUME NEW s
      PROVE  Parent(Collecting \o <<s>>) = Collecting /\ Len(Collecting \o <<s>>) # 1
  <2>1. Collecting \o <<s>> = <<"collection", "collectionWindow", s>>
    BY Triple, Zenon DEF Collecting
  <2>2. Parent(<<"collection", "collectionWindow", s>>) = <<"collection", "collectionWindow">>
    BY ParentOf
  <2>3. Len(<<"collection", "collectionWindow", s>>) = 3
    OBVIOUS
  <2>4. Len(Collecting \o <<s>>) = 3
    BY <2>1, <2>3, Zenon
  <2>5. Len(Collecting \o <<s>>) # 1
    BY <2>4
  <2>6. Parent(Collecting \o <<s>>) = Collecting
    BY <2>1, <2>2, Zenon DEF Collecting
  <2> QED BY <2>5, <2>6
<1> QED BY <1>1

(* Such a body is accepted, if the tenant's name fits.                     *)
LEMMA RepeatedFits ==
  ASSUME NEW b, Wire!Fits(Wire!CreateLastMileFulfilmentBody, b),
         NEW F, Repeats(F, b), <<"tenantId">> \in DOMAIN F, F[<<"tenantId">>] \in 1..100,
         <<"fulfilmentId">> \in DOMAIN F, F[<<"fulfilmentId">>] = 17
  PROVE  Wire!Fits(Wire!CreateLastMileShipmentBody, F)
<1>1. PICK S, T, B : /\ S = Wire!Snapshot /\ T = Wire!CreateLastMileShipmentBody
                     /\ B = Wire!CreateLastMileFulfilmentBody
  OBVIOUS
<1>2. /\ DOMAIN T = DOMAIN S \cup {<<"tenantId">>, <<"fulfilmentId">>}
      /\ T[<<"tenantId">>] = Wire!Required(1..100)
      /\ T[<<"fulfilmentId">>] = Wire!Required(1..40)
  BY <1>1, ShipmentBodyAt
<1>3. \A q \in DOMAIN S : q \in DOMAIN B /\ B[q] = S[q] /\ T[q] = S[q]
  BY <1>1, BodiesAt
<1>4. /\ \A q \in DOMAIN B :
           B[q].required /\ (Len(q) = 1 \/ Parent(q) \in DOMAIN b) => q \in DOMAIN b
      /\ \A q \in DOMAIN b \cap DOMAIN B : b[q] \in B[q].allowed
  BY <1>1 DEF Wire!Fits, Parent
<1>5. ASSUME NEW q \in DOMAIN S, S[q].required, Len(q) = 1 \/ Parent(q) \in DOMAIN b
      PROVE  q \in DOMAIN b
  BY <1>3, <1>4, <1>5
<1>6. ASSUME NEW q \in DOMAIN S, q \in DOMAIN b
      PROVE  b[q] \in S[q].allowed
  BY <1>3, <1>4, <1>6
<1>7. /\ Periods(Collecting) \cup Periods(Promised) \subseteq DOMAIN S
      /\ S[Collecting] = Wire!Optional(Wire!Node) /\ S[Promised] = Wire!Required(Wire!Node)
      /\ S[Collecting \o <<"start">>] = Dated /\ S[Collecting \o <<"end">>] = Dated
      /\ S[Promised \o <<"start">>] = Dated /\ S[Promised \o <<"end">>] = Dated
      /\ {<<"dropOff", "access">>, <<"temperatureZone">>} \subseteq DOMAIN S
      /\ S[<<"dropOff", "access">>] = Wire!Optional(Wire!Node)
      /\ S[<<"temperatureZone">>] = Wire!Optional(Wire!Enum(Wire!TemperatureZone))
      /\ \A q \in DOMAIN S :
           /\ Regular(q) /\ q[1] \in Cargo \cup {"collection", "promisedWindow"}
           /\ q[1] = "temperatureZone" => q = <<"temperatureZone">>
           /\ q[1] = "promisedWindow" => q \in Periods(Promised)
           /\ q[1] = "collection" /\ Len(q) > 1 /\ q[2] = "collectionWindow"
                => q \in Periods(Collecting)
           /\ q[1] = "dropOff" /\ Len(q) > 1 /\ q[2] = "access" => ~S[q].required
  BY <1>1, SnapshotAt
<1>8. PICK cs, ce, ps, pe :
        /\ cs = Collecting \o <<"start">> /\ ce = Collecting \o <<"end">>
        /\ ps = Promised \o <<"start">> /\ pe = Promised \o <<"end">>
  OBVIOUS
<1>9. /\ Periods(Collecting) = {Collecting, cs, ce} /\ Periods(Promised) = {Promised, ps, pe}
      /\ cs # Collecting /\ ce # Collecting /\ ps # Promised /\ pe # Promised
  BY <1>8, PathFacts DEF Periods
<1>10. /\ S[cs] = Dated /\ S[ce] = Dated /\ S[ps] = Dated /\ S[pe] = Dated
  BY <1>7, <1>8, Zenon
<1>11. \A q \in DOMAIN S :
         /\ Regular(q) /\ q[1] \in Cargo \cup {"collection", "promisedWindow"}
         /\ q[1] = "temperatureZone" => q = Zone
         /\ q[1] = "promisedWindow" => q \in Periods(Promised)
         /\ q[1] = "collection" /\ Len(q) > 1 /\ q[2] = "collectionWindow"
              => q \in Periods(Collecting)
         /\ q[1] = "dropOff" /\ Len(q) > 1 /\ q[2] = "access" => ~S[q].required
  BY <1>7 DEF Zone
<1>12. /\ S[Access] = Wire!Optional(Wire!Node)
       /\ S[Zone] = Wire!Optional(Wire!Enum(Wire!TemperatureZone))
  BY <1>7 DEF Zone, Access
<1>13. /\ 0 \in Wire!Optional(Wire!Node).allowed /\ 0 \in Wire!Required(Wire!Node).allowed
       /\ Wire!Ambient \in Wire!Optional(Wire!Enum(Wire!TemperatureZone)).allowed
       /\ Int \subseteq Dated.allowed /\ ~Wire!Optional(Wire!Node).required
       /\ F[<<"tenantId">>] \in Wire!Required(1..100).allowed
       /\ 17 \in Wire!Required(1..40).allowed
  BY CatalogsStart DEF Wire!Optional, Wire!Required, Wire!Node, Dated
<1>14. ASSUME NEW q \in DOMAIN S, q[1] = "collection", ~IsPlacePath(q)
       PROVE  q \in Periods(Collecting)
  <2>1. Len(q) > 1 /\ q[2] = "collectionWindow"
    <3>1. Len(q) # 1 /\ q[2] = "collectionWindow"
      BY <1>14 DEF IsPlacePath
    <3>2. Len(q) = 1 \/ Len(q) > 1
      BY <1>11 DEF Regular
    <3> QED BY <3>1, <3>2
  <2> QED BY <1>11, <1>14, <2>1
(* What it requires is there. *)
<1>15. ASSUME NEW q \in DOMAIN S, S[q].required, Len(q) = 1 \/ Parent(q) \in DOMAIN F
       PROVE  q \in DOMAIN F
  <2>1. CASE IsPlacePath(q)
    <3>1. Len(q) # 1 => Parent(q) \in DOMAIN b
      <4>1. ASSUME Len(q) # 1 PROVE IsPlacePath(Parent(q))
        BY <1>11, <2>1, <4>1, ParentKind
      <4> QED BY <1>15, <4>1 DEF Repeats
    <3>2. q \in DOMAIN b
      BY <1>5, <1>15, <3>1
    <3> QED BY <2>1, <3>2 DEF Repeats
  <2>2. CASE q \in Periods(Collecting)
    <3>1. q # Collecting
      BY <1>7, <1>13, <1>15
    <3>2. Parent(cs) = Collecting /\ Parent(ce) = Collecting
      BY <1>8, WindowParents
    <3>3. Len(cs) # 1 /\ Len(ce) # 1
      BY <1>8, WindowParents
    <3>4. Collecting \in DOMAIN F
      BY <1>9, <1>15, <2>2, <3>1, <3>2, <3>3
    <3> QED BY <2>2, <3>4 DEF Repeats
  <2>3. CASE q[1] = "promisedWindow"
    BY <1>11, <2>3 DEF Repeats
  <2>4. CASE q[1] \in Cargo
    <3>1. CASE Len(q) = 1
      <4>1. q \in DOMAIN b
        BY <1>5, <1>15, <3>1
      <4> QED BY <2>4, <4>1 DEF Repeats
    <3>2. CASE Len(q) # 1
      <4>1. Parent(q) \in DOMAIN F /\ Parent(q)[1] \in Cargo
        BY <1>11, <1>15, <2>4, <3>2, ParentKind
      <4>2. Parent(q) # Access
        BY <1>11, <1>15, <3>2, ParentKind
      <4>3. Parent(q) # Zone
        <5>1. Len(Zone) = 1
          BY DEF Zone
        <5> QED BY <1>11, <3>2, <5>1, ParentKind
      <4>4. Parent(q) \in DOMAIN b
        BY <4>1, <4>2, <4>3 DEF Repeats
      <4>5. q \in DOMAIN b
        BY <1>5, <1>15, <4>4
      <4> QED BY <2>4, <4>5 DEF Repeats
    <3> QED BY <3>1, <3>2
  <2> QED BY <1>11, <1>14, <2>1, <2>2, <2>3, <2>4
(* What is there is allowed. *)
<1>16. ASSUME NEW q \in DOMAIN S, q \in DOMAIN F
       PROVE  F[q] \in S[q].allowed
  <2>1. CASE IsPlacePath(q)
    BY <1>6, <1>16, <2>1 DEF Repeats
  <2>2. CASE q \in Periods(Collecting)
    <3>1. IF q = Collecting THEN F[q] = 0 ELSE F[q] \in Int
      BY <1>16, <2>2 DEF Repeats
    <3> QED BY <1>7, <1>9, <1>10, <1>13, <2>2, <3>1
  <2>3. CASE q[1] = "promisedWindow"
    <3>1. q \in Periods(Promised)
      BY <1>11, <2>3
    <3>2. IF q = Promised THEN F[q] = 0 ELSE F[q] \in Int
      BY <3>1 DEF Repeats
    <3> QED BY <1>7, <1>9, <1>10, <1>13, <3>1, <3>2
  <2>4. CASE q[1] \in Cargo
    <3>1. \/ q \in DOMAIN b /\ F[q] = b[q]
          \/ q = Zone /\ F[q] = Wire!Ambient
          \/ q = Access /\ F[q] = 0
      BY <1>16, <2>4 DEF Repeats
    <3> QED BY <1>6, <1>12, <1>13, <3>1
  <2> QED BY <1>11, <1>14, <2>1, <2>2, <2>3, <2>4
<1>17. ASSUME NEW q \in DOMAIN T, T[q].required, Len(q) = 1 \/ Parent(q) \in DOMAIN F
       PROVE  q \in DOMAIN F
  BY <1>2, <1>3, <1>15, <1>17
<1>18. ASSUME NEW q \in DOMAIN F \cap DOMAIN T
       PROVE  F[q] \in T[q].allowed
  BY <1>2, <1>3, <1>13, <1>16, <1>18
<1> QED BY <1>1, <1>17, <1>18 DEF Wire!Fits, Parent

(* The schema S of a stored item asks for no other values than the schema  *)
(* D of a drafted one; of what D leaves open it requires only fields K.    *)
Completes(S, D, K) ==
  /\ DOMAIN S = DOMAIN D
  /\ \A q \in DOMAIN S :
       /\ S[q].allowed = D[q].allowed
       /\ S[q].required => Len(q) = 1 /\ (D[q].required \/ q \in K)

(* So a draft that fits becomes an item that does, once K is filled in.    *)
LEMMA CompletedFits ==
  ASSUME NEW S, NEW D, NEW K, Completes(S, D, K),
         NEW y, Wire!Fits(D, y), NEW x, DOMAIN y \subseteq DOMAIN x, K \subseteq DOMAIN x,
         \A q \in DOMAIN x \cap DOMAIN S :
           \/ q \in DOMAIN y /\ x[q] = y[q]
           \/ x[q] \in S[q].allowed
  PROVE  Wire!Fits(S, x)
<1>1. ASSUME NEW q \in DOMAIN S, S[q].required
      PROVE  q \in DOMAIN x
  BY <1>1 DEF Completes, Wire!Fits
<1>2. ASSUME NEW q \in DOMAIN x \cap DOMAIN S
      PROVE  x[q] \in S[q].allowed
  BY <1>2 DEF Completes, Wire!Fits
<1> QED BY <1>1, <1>2 DEF Wire!Fits

(* Metadata and its entries.                                               *)
Entry == Wire!Optional((0..2048) \cup {LooseKey})

LEMMA MetadataAt ==
  ASSUME NEW node, NEW U, U = Wire!Under("metadata", node, Wire!Metadata)
  PROVE  /\ DOMAIN U = {<<"metadata">>, <<"metadata", "value">>}
         /\ U[<<"metadata">>] = node /\ U[<<"metadata", "value">>] = Entry
<1>1. DOMAIN Wire!Metadata = {<<"value">>} /\ Wire!Metadata[<<"value">>] = Entry
  <2>1. PICK r : r = [value |-> Entry]
    OBVIOUS
  <2>2. Wire!Metadata = Wire!Leaves([value |-> Entry])
    BY Zenon DEF Wire!Metadata, Entry
  <2>3. DOMAIN r = {"value"} /\ r["value"] = Entry
    BY <2>1
  <2>4. PICK L, v : L = Wire!Leaves(r) /\ L = Wire!Metadata /\ v = <<"value">>
    BY <2>1, <2>2, Zenon
  <2>5. /\ \A q \in DOMAIN L : q = <<q[1]>> /\ q[1] \in DOMAIN r
        /\ \A k \in DOMAIN r : <<k>> \in DOMAIN L /\ L[<<k>>] = r[k]
    BY <2>4, LeavesAt, Zenon
  <2>6. v \in DOMAIN L /\ L[v] = Entry
    BY <2>3, <2>4, <2>5, Zenon
  <2>7. \A q \in DOMAIN L : q = v
    BY <2>3, <2>4, <2>5, Zenon
  <2> QED BY <2>4, <2>6, <2>7, Zenon
<1>2. <<"metadata">> \o <<"value">> = <<"metadata", "value">>
  BY Pair, Zenon
<1>3. DOMAIN U = {<<"metadata">>, <<"metadata">> \o <<"value">>}
  <2>1. PICK S, v : S = DOMAIN Wire!Metadata /\ v = <<"value">> /\ S = {v}
    BY <1>1
  <2>2. DOMAIN U = {<<"metadata">>} \cup {<<"metadata">> \o q : q \in S}
    BY <2>1, UnderPaths
  <2> QED BY <2>1, <2>2, Zenon
<1>4. /\ U[<<"metadata">>] = node
      /\ \A q \in DOMAIN Wire!Metadata : U[<<"metadata">> \o q] = Wire!Metadata[q]
  BY UnderAt, ShallowSchemas
<1>5. U[<<"metadata">> \o <<"value">>] = Entry
  <2>1. <<"value">> \in DOMAIN Wire!Metadata
    BY <1>1
  <2>2. U[<<"metadata">> \o <<"value">>] = Wire!Metadata[<<"value">>]
    BY <1>4, <2>1, Zenon
  <2> QED BY <1>1, <2>2, Zenon
<1> QED BY <1>2, <1>3, <1>4, <1>5, Zenon

(* Two schemas of names and metadata, the one completing the other.        *)
LEMMA CompletesByName ==
  ASSUME NEW r, NEW d, NEW n, NEW m, NEW K, DOMAIN r = DOMAIN d, "metadata" \notin DOMAIN r,
         \A k \in DOMAIN r : /\ r[k].allowed = d[k].allowed
                             /\ r[k].required => d[k].required \/ <<k>> \in K,
         n.allowed = m.allowed, <<"metadata">> \in K,
         NEW S, S = Wire!@@(Wire!Leaves(r), Wire!Under("metadata", n, Wire!Metadata)),
         NEW D, D = Wire!@@(Wire!Leaves(d), Wire!Under("metadata", m, Wire!Metadata))
  PROVE  /\ Completes(S, D, K)
         /\ \A k \in DOMAIN r : S[<<k>>] = r[k]
<1>1. PICK L, M, U, V : /\ L = Wire!Leaves(r) /\ M = Wire!Leaves(d)
                        /\ U = Wire!Under("metadata", n, Wire!Metadata)
                        /\ V = Wire!Under("metadata", m, Wire!Metadata)
  OBVIOUS
<1>2. /\ \A q \in DOMAIN L : q = <<q[1]>> /\ q[1] \in DOMAIN r
      /\ \A k \in DOMAIN r : <<k>> \in DOMAIN L /\ L[<<k>>] = r[k]
  BY <1>1, LeavesAt
<1>3. /\ \A q \in DOMAIN M : q = <<q[1]>> /\ q[1] \in DOMAIN d
      /\ \A k \in DOMAIN d : <<k>> \in DOMAIN M /\ M[<<k>>] = d[k]
  BY <1>1, LeavesAt
<1>4. /\ DOMAIN U = {<<"metadata">>, <<"metadata", "value">>}
      /\ U[<<"metadata">>] = n /\ U[<<"metadata", "value">>] = Entry
  BY <1>1, MetadataAt
<1>5. /\ DOMAIN V = {<<"metadata">>, <<"metadata", "value">>}
      /\ V[<<"metadata">>] = m /\ V[<<"metadata", "value">>] = Entry
  BY <1>1, MetadataAt
<1>6. /\ DOMAIN S = DOMAIN L \cup DOMAIN U /\ DOMAIN D = DOMAIN M \cup DOMAIN V
      /\ \A q \in DOMAIN S : S[q] = IF q \in DOMAIN L THEN L[q] ELSE U[q]
      /\ \A q \in DOMAIN D : D[q] = IF q \in DOMAIN M THEN M[q] ELSE V[q]
  BY <1>1 DEF Wire!@@
<1>7. DOMAIN L = DOMAIN M
  <2>1. ASSUME NEW q PROVE q \in DOMAIN L <=> \E k \in DOMAIN r : q = <<k>>
    BY <1>2
  <2>2. ASSUME NEW q PROVE q \in DOMAIN M <=> \E k \in DOMAIN r : q = <<k>>
    BY <1>3
  <2> QED BY <2>1, <2>2
<1>8. Len(<<"metadata">>) = 1 /\ \A k : Len(<<k>>) = 1
  OBVIOUS
<1>9. ASSUME NEW q \in DOMAIN S
      PROVE  /\ S[q].allowed = D[q].allowed
             /\ S[q].required => Len(q) = 1 /\ (D[q].required \/ q \in K)
  <2>1. CASE q \in DOMAIN L
    <3>1. PICK k \in DOMAIN r : q = <<k>>
      BY <1>2, <2>1
    <3>2. S[q] = r[k] /\ D[q] = d[k]
      BY <1>2, <1>3, <1>6, <1>7, <2>1, <3>1
    <3> QED BY <1>8, <3>1, <3>2
  <2>2. CASE q \notin DOMAIN L
    <3>1. q \in DOMAIN U /\ q \in DOMAIN V /\ S[q] = U[q] /\ D[q] = V[q]
      BY <1>4, <1>5, <1>6, <1>7, <2>2
    <3>2. CASE q = <<"metadata">>
      <4>1. S[q] = n /\ D[q] = m
        BY <1>4, <1>5, <3>1, <3>2
      <4> QED BY <1>8, <3>2, <4>1
    <3>3. CASE q = <<"metadata", "value">>
      <4>1. S[q] = Entry /\ D[q] = Entry
        BY <1>4, <1>5, <3>1, <3>3
      <4>2. ~Entry.required
        BY DEF Entry, Wire!Optional
      <4> QED BY <4>1, <4>2
    <3> QED BY <1>4, <3>1, <3>2, <3>3
  <2> QED BY <2>1, <2>2
<1>10. DOMAIN S = DOMAIN D
  BY <1>4, <1>5, <1>6, <1>7
<1> QED BY <1>2, <1>6, <1>9, <1>10 DEF Completes

(* Stored cargo and drafted cargo.                                         *)
LineKeys   == {<<"lineId">>, <<"metadata">>}
ParcelKeys == {<<"parcelId">>, <<"lineRefs">>, <<"status">>, <<"metadata">>}

LEMMA LineCompletes ==
  /\ Completes(Wire!PromisedLine, Wire!PromisedLineDraft, LineKeys)
  /\ Wire!PromisedLine[<<"lineId">>].allowed = Wire!IdUpTo(40)
<1> DEFINE r == [lineId |-> Wire!Required(Wire!IdUpTo(40)), sku |-> Wire!Required(1..200),
                 description |-> Wire!Required(1..2000), quantity |-> Wire!Required(Wire!AtLeast(1)),
                 uom |-> Wire!Required(Wire!Enum(Wire!UnitOfMeasure)),
                 sourceLineRef |-> Wire!Optional(0..200)]
           d == [lineId |-> Wire!Optional(Wire!IdUpTo(40)), sku |-> Wire!Required(1..200),
                 description |-> Wire!Required(1..2000), quantity |-> Wire!Required(Wire!AtLeast(1)),
                 uom |-> Wire!Required(Wire!Enum(Wire!UnitOfMeasure)),
                 sourceLineRef |-> Wire!Optional(0..200)]
           n == Wire!Required(0..50)
           m == Wire!Optional(0..50)
<1>4. /\ Wire!PromisedLine =
           Wire!@@(Wire!Leaves(r), Wire!Under("metadata", n, Wire!Metadata))
      /\ Wire!PromisedLineDraft =
           Wire!@@(Wire!Leaves(d), Wire!Under("metadata", m, Wire!Metadata))
  BY DEF Wire!PromisedLine, Wire!PromisedLineDraft
<1>5. /\ n.allowed = m.allowed /\ <<"metadata">> \in LineKeys /\ <<"lineId">> \in LineKeys
      /\ r.lineId.allowed = Wire!IdUpTo(40) /\ d.lineId.allowed = Wire!IdUpTo(40)
  BY DEF LineKeys, Wire!Required, Wire!Optional
<1>6. /\ DOMAIN r = DOMAIN d /\ "metadata" \notin DOMAIN r /\ "lineId" \in DOMAIN r
      /\ \A k \in DOMAIN r : k # "lineId" => r[k] = d[k]
  OBVIOUS
<1> HIDE DEF r, d, n, m
<1>7. \A k \in DOMAIN r : /\ r[k].allowed = d[k].allowed
                          /\ r[k].required => d[k].required \/ <<k>> \in LineKeys
  BY <1>5, <1>6
<1>8. /\ Completes(Wire!PromisedLine, Wire!PromisedLineDraft, LineKeys)
      /\ \A k \in DOMAIN r : Wire!PromisedLine[<<k>>] = r[k]
  BY <1>4, <1>5, <1>6, <1>7, CompletesByName
<1> QED BY <1>5, <1>6, <1>8

LEMMA ParcelCompletes ==
  /\ Completes(Wire!Parcel, Wire!ParcelDraft, ParcelKeys)
  /\ Wire!Parcel[<<"parcelId">>].allowed = Wire!IdUpTo(40)
  /\ Wire!Parcel[<<"lineRefs">>].allowed = SUBSET Wire!IdUpTo(40)
  /\ Wire!Parcel[<<"status">>].allowed = Wire!Enum(Wire!ParcelStatus)
<1> DEFINE r == [parcelId |-> Wire!Required(Wire!IdUpTo(40)),
                 type |-> Wire!Required(Wire!Enum(Wire!ParcelType)),
                 label |-> Wire!Optional(0..200), weightGrams |-> Wire!Required(Wire!AtLeast(1)),
                 lengthMm |-> Wire!Optional(Wire!AtLeast(1)),
                 widthMm |-> Wire!Optional(Wire!AtLeast(1)),
                 heightMm |-> Wire!Optional(Wire!AtLeast(1)),
                 volumeCm3 |-> Wire!Optional(Wire!AtLeast(1)),
                 lineRefs |-> Wire!Required(SUBSET Wire!IdUpTo(40)),
                 status |-> Wire!Required(Wire!Enum(Wire!ParcelStatus))]
           d == [parcelId |-> Wire!Optional(Wire!IdUpTo(40)),
                 type |-> Wire!Required(Wire!Enum(Wire!ParcelType)),
                 label |-> Wire!Optional(0..200), weightGrams |-> Wire!Required(Wire!AtLeast(1)),
                 lengthMm |-> Wire!Optional(Wire!AtLeast(1)),
                 widthMm |-> Wire!Optional(Wire!AtLeast(1)),
                 heightMm |-> Wire!Optional(Wire!AtLeast(1)),
                 volumeCm3 |-> Wire!Optional(Wire!AtLeast(1)),
                 lineRefs |-> Wire!Optional(SUBSET Wire!IdUpTo(40)),
                 status |-> Wire!Optional(Wire!Enum(Wire!ParcelStatus))]
           n == Wire!Required(0..50)
           m == Wire!Optional(0..50)
<1>1. /\ Wire!Parcel =
           Wire!@@(Wire!Leaves(r), Wire!Under("metadata", n, Wire!Metadata))
      /\ Wire!ParcelDraft =
           Wire!@@(Wire!Leaves(d), Wire!Under("metadata", m, Wire!Metadata))
  BY DEF Wire!Parcel, Wire!ParcelDraft
<1>2. /\ n.allowed = m.allowed /\ <<"metadata">> \in ParcelKeys
      /\ {<<"parcelId">>, <<"lineRefs">>, <<"status">>} \subseteq ParcelKeys
      /\ r.parcelId.allowed = Wire!IdUpTo(40) /\ d.parcelId.allowed = Wire!IdUpTo(40)
      /\ r.lineRefs.allowed = SUBSET Wire!IdUpTo(40) /\ d.lineRefs.allowed = SUBSET Wire!IdUpTo(40)
      /\ r.status.allowed = Wire!Enum(Wire!ParcelStatus)
      /\ d.status.allowed = Wire!Enum(Wire!ParcelStatus)
  BY DEF ParcelKeys, Wire!Required, Wire!Optional
<1>3. /\ DOMAIN r = DOMAIN d /\ "metadata" \notin DOMAIN r
      /\ {"parcelId", "lineRefs", "status"} \subseteq DOMAIN r
      /\ \A k \in DOMAIN r : k \notin {"parcelId", "lineRefs", "status"} => r[k] = d[k]
  OBVIOUS
<1> HIDE DEF r, d, n, m
<1>4. ASSUME NEW k \in DOMAIN r
      PROVE  /\ r[k].allowed = d[k].allowed
             /\ r[k].required => d[k].required \/ <<k>> \in ParcelKeys
  <2>1. CASE k \in {"parcelId", "lineRefs", "status"}
    <3>1. CASE k = "parcelId"
      BY <1>2, <3>1
    <3>2. CASE k = "lineRefs"
      BY <1>2, <3>2
    <3>3. CASE k = "status"
      BY <1>2, <3>3
    <3> QED BY <2>1, <3>1, <3>2, <3>3
  <2>2. CASE k \notin {"parcelId", "lineRefs", "status"}
    BY <1>3, <2>2
  <2> QED BY <2>1, <2>2
<1>5. /\ Completes(Wire!Parcel, Wire!ParcelDraft, ParcelKeys)
      /\ \A k \in DOMAIN r : Wire!Parcel[<<k>>] = r[k]
  BY <1>1, <1>2, <1>3, <1>4, CompletesByName
<1> QED BY <1>2, <1>3, <1>5

(* The identifiers the server generates have the shape of identifiers.     *)
LEMMA GeneratedId ==
  ASSUME NEW i \in Nat
  PROVE  Wire!Id(17, i) \in Wire!IdUpTo(40)
BY DEF Wire!Id, Wire!IdUpTo

(* A line of an accepted body, its identifier filled in, is one that POST  *)
(* /shipments accepts...                                                   *)
LEMMA LineFits ==
  ASSUME NEW y, Wire!Fits(Wire!PromisedLineDraft, y), <<"metadata">> \in DOMAIN y,
         NEW i \in Nat, NEW line, line = y @@ (<<"lineId">> :> Wire!Id(17, i))
  PROVE  Wire!Fits(Wire!PromisedLine, line)
<1>1. /\ DOMAIN line = DOMAIN y \cup {<<"lineId">>}
      /\ \A q \in DOMAIN line : line[q] = IF q \in DOMAIN y THEN y[q] ELSE Wire!Id(17, i)
  BY DEF @@, :>
<1>2. LineKeys \subseteq DOMAIN line
  BY <1>1 DEF LineKeys
<1>3. ASSUME NEW q \in DOMAIN line \cap DOMAIN Wire!PromisedLine
      PROVE  \/ q \in DOMAIN y /\ line[q] = y[q]
             \/ line[q] \in Wire!PromisedLine[q].allowed
  <2>1. CASE q \in DOMAIN y
    BY <1>1, <2>1
  <2>2. CASE q \notin DOMAIN y
    <3>1. q = <<"lineId">> /\ line[q] = Wire!Id(17, i)
      BY <1>1, <2>2
    <3>2. Wire!PromisedLine[q].allowed = Wire!IdUpTo(40)
      BY <3>1, LineCompletes
    <3> QED BY <3>1, <3>2, GeneratedId
  <2> QED BY <2>1, <2>2
<1> QED BY <1>1, <1>2, <1>3, LineCompletes, CompletedFits

(* ...and so is a parcel.                                                  *)
LEMMA ParcelFits ==
  ASSUME NEW y, Wire!Fits(Wire!ParcelDraft, y), <<"metadata">> \in DOMAIN y,
         NEW i \in Nat, NEW parcel,
         parcel = y @@ ParcelDefaults @@ (<<"parcelId">> :> Wire!Id(17, i))
  PROVE  Wire!Fits(Wire!Parcel, parcel)
<1>1. /\ DOMAIN ParcelDefaults = {<<"lineRefs">>, <<"status">>}
      /\ ParcelDefaults[<<"lineRefs">>] = {} /\ ParcelDefaults[<<"status">>] = Wire!Packed
  <2>1. <<"lineRefs">> # <<"status">>
    OBVIOUS
  <2> QED BY <2>1 DEF ParcelDefaults, @@, :>
<1>2. PICK d : d = ParcelDefaults
  OBVIOUS
<1>3. /\ DOMAIN parcel = DOMAIN y \cup DOMAIN d \cup {<<"parcelId">>}
      /\ \A q \in DOMAIN parcel : parcel[q] = IF q \in DOMAIN y THEN y[q]
                                              ELSE IF q \in DOMAIN d THEN d[q]
                                              ELSE Wire!Id(17, i)
  BY <1>2 DEF @@, :>
<1>4. ParcelKeys \subseteq DOMAIN parcel
  BY <1>1, <1>2, <1>3 DEF ParcelKeys
<1>5. ASSUME NEW q \in DOMAIN parcel \cap DOMAIN Wire!Parcel
      PROVE  \/ q \in DOMAIN y /\ parcel[q] = y[q]
             \/ parcel[q] \in Wire!Parcel[q].allowed
  <2>1. CASE q \in DOMAIN y
    BY <1>3, <2>1
  <2>2. CASE q \notin DOMAIN y /\ q = <<"lineRefs">>
    <3>1. parcel[q] = {} /\ Wire!Parcel[q].allowed = SUBSET Wire!IdUpTo(40)
      BY <1>1, <1>2, <1>3, <2>2, ParcelCompletes
    <3> QED BY <3>1
  <2>3. CASE q \notin DOMAIN y /\ q = <<"status">>
    <3>1. parcel[q] = Wire!Packed /\ Wire!Parcel[q].allowed = Wire!Enum(Wire!ParcelStatus)
      BY <1>1, <1>2, <1>3, <2>3, ParcelCompletes
    <3> QED BY <3>1, CatalogsStart
  <2>4. CASE q \notin DOMAIN y /\ q \notin {<<"lineRefs">>, <<"status">>}
    <3>1. q = <<"parcelId">> /\ parcel[q] = Wire!Id(17, i)
      BY <1>1, <1>2, <1>3, <2>4
    <3>2. Wire!Parcel[q].allowed = Wire!IdUpTo(40)
      BY <3>1, ParcelCompletes
    <3> QED BY <3>1, <3>2, GeneratedId
  <2> QED BY <2>1, <2>2, <2>3, <2>4
<1> QED BY <1>3, <1>4, <1>5, ParcelCompletes, CompletedFits

(* What a validation has filled in is there.                               *)
LEMMA MetadataFilled ==
  ASSUME NEW schema, NEW x
  PROVE  <<"metadata">> \in DOMAIN Wire!Validated(schema, Wire!CargoDefaults, x)
<1>1. DOMAIN Wire!CargoDefaults = {<<"metadata">>}
  BY DEF Wire!CargoDefaults, Wire!:>
<1> QED BY <1>1 DEF Wire!Validated, Wire!@@

(* All lines of a job are accepted,                                        *)
LEMMA LinesFit ==
  ASSUME NEW p \in Posts, Accepted(p), NEW j,
         j.lines = WithGenerated(<<"lineId">>, LinesOf(p))
  PROVE  \A i \in DOMAIN ShipmentLinesOf(j) :
           Wire!Fits(Wire!PromisedLine, ShipmentLinesOf(j)[i])
<1>1. j.lines = [i \in DOMAIN p.lines |->
                   Wire!Validated(Wire!PromisedLineDraft, Wire!CargoDefaults, p.lines[i])
                   @@ (<<"lineId">> :> Wire!Id(17, i))]
  BY DEF WithGenerated, LinesOf, ValidatedAll
<1>2. PICK kept : kept = ShipmentLinesOf(j)
  OBVIOUS
<1>3. kept = j.lines
  BY <1>2, LinesKept
<1>4. DOMAIN kept = DOMAIN p.lines /\ DOMAIN p.lines \subseteq Nat
  BY <1>1, <1>3, IntakeAssumption
<1>5. ASSUME NEW i \in DOMAIN p.lines
      PROVE  Wire!Fits(Wire!PromisedLine, kept[i])
  <2>1. PICK y : y = Wire!Validated(Wire!PromisedLineDraft, Wire!CargoDefaults, p.lines[i])
    OBVIOUS
  <2>2. kept[i] = y @@ (<<"lineId">> :> Wire!Id(17, i))
    BY <1>1, <1>3, <2>1
  <2>3. PICK drafts : drafts = LinesOf(p)
    OBVIOUS
  <2>4. i \in DOMAIN drafts /\ drafts[i] = y
    BY <2>1, <2>3 DEF LinesOf, ValidatedAll
  <2>5. Wire!Fits(Wire!PromisedLineDraft, y)
    BY <2>3, <2>4 DEF Accepted, WireAccepts
  <2>6. <<"metadata">> \in DOMAIN y /\ i \in Nat
    BY <1>4, <2>1, MetadataFilled
  <2> QED BY <2>2, <2>5, <2>6, LineFits
<1> QED BY <1>2, <1>4, <1>5

(* ...and all parcels.                                                     *)
LEMMA ParcelsFit ==
  ASSUME NEW p \in Posts, Accepted(p), NEW j,
         j.parcels = WithGenerated(<<"parcelId">>,
                       [i \in DOMAIN ParcelsOf(p) |-> ParcelsOf(p)[i] @@ ParcelDefaults])
  PROVE  \A i \in DOMAIN ShipmentParcelsOf(j) :
           Wire!Fits(Wire!Parcel, ShipmentParcelsOf(j)[i])
<1>1. j.parcels = [i \in DOMAIN p.parcels |->
                     Wire!Validated(Wire!ParcelDraft, Wire!CargoDefaults, p.parcels[i])
                     @@ ParcelDefaults @@ (<<"parcelId">> :> Wire!Id(17, i))]
  BY DEF WithGenerated, ParcelsOf, ValidatedAll
<1>2. PICK kept, stored : kept = ShipmentParcelsOf(j) /\ stored = j.parcels
  OBVIOUS
<1>3. kept = [i \in DOMAIN stored |->
                Wire!Validated(Wire!Parcel, Wire!CargoDefaults, stored[i])]
  BY <1>2 DEF ShipmentParcelsOf, ValidatedAll
<1>4. DOMAIN kept = DOMAIN p.parcels /\ DOMAIN stored = DOMAIN p.parcels
      /\ DOMAIN p.parcels \subseteq Nat
  BY <1>1, <1>2, <1>3, IntakeAssumption
<1>5. ASSUME NEW i \in DOMAIN p.parcels
      PROVE  Wire!Fits(Wire!Parcel, kept[i])
  <2>1. PICK y : y = Wire!Validated(Wire!ParcelDraft, Wire!CargoDefaults, p.parcels[i])
    OBVIOUS
  <2>2. stored[i] = Wire!Validated(Wire!ParcelDraft, Wire!CargoDefaults, p.parcels[i])
                    @@ ParcelDefaults @@ (<<"parcelId">> :> Wire!Id(17, i))
    BY <1>1, <1>2
  <2>3. kept[i] = stored[i]
    BY <1>3, <1>4, <2>2, ParcelAgain
  <2>4. PICK drafts : drafts = ParcelsOf(p)
    OBVIOUS
  <2>5. i \in DOMAIN drafts /\ drafts[i] = y
    BY <2>1, <2>4 DEF ParcelsOf, ValidatedAll
  <2>6. Wire!Fits(Wire!ParcelDraft, y)
    BY <2>4, <2>5 DEF Accepted, WireAccepts
  <2>7. <<"metadata">> \in DOMAIN y /\ i \in Nat
    BY <1>4, <2>1, MetadataFilled
  <2>8. kept[i] = y @@ ParcelDefaults @@ (<<"parcelId">> :> Wire!Id(17, i))
    BY <2>1, <2>2, <2>3
  <2> QED BY <2>6, <2>7, <2>8, ParcelFits
<1> QED BY <1>2, <1>4, <1>5

(* POST /shipments accepts the job of an accepted body, and finds the      *)
(* coordinates that the handler had found.                                 *)
LEMMA JobWelcome ==
  ASSUME NEW p \in Posts, Accepted(p), NEW id, NEW f, f = FulfilmentOf(p, id),
         IsPoint(f.collection), IsWindow(f.promisedWindow), p.tenant <= 100,
         f.collection.collectionWindow = None \/ InYears(f.collection.collectionWindow),
         InYears(f.promisedWindow),
         Geocoded([place |-> f.collection.place, cargo |-> f.carried.cargo]),
         NEW j, j = CreateShipmentPayload(f)
  PROVE  /\ WireAccepts(Wire!CreateLastMileShipmentBody, Wire!PromisedLine, Wire!Parcel,
                        ShipmentBodyOf(j), ShipmentLinesOf(j), ShipmentParcelsOf(j))
         /\ Geocoded(ShipmentCommandOf(j))
<1>1. PICK b, lines, parcels, c : /\ b = BodyOf(p) /\ lines = LinesOf(p) /\ parcels = ParcelsOf(p)
                                  /\ c = BodyToCommand(b, lines, parcels)
  OBVIOUS
<1>2. f = FulfilmentCreate(id, p.tenant, c)
  BY <1>1, Zenon DEF FulfilmentOf, CommandOf
<1>3. /\ c.place = Place(b) /\ c.lines = lines
      /\ c.collectionWindow = WindowAt(b, Collecting)
      /\ c.promisedWindow = WindowAt(b, Promised)
      /\ c.cargo = Below(b, Cargo) @@ CommandDefaults
      /\ c.parcels = [i \in DOMAIN parcels |-> parcels[i] @@ ParcelDefaults]
  BY <1>1, CommandParts
<1>4. /\ f.id = id /\ f.tenantId = p.tenant
      /\ f.collection = [place |-> c.place, collectionWindow |-> c.collectionWindow]
      /\ f.promisedWindow = c.promisedWindow
      /\ f.carried = [cargo |-> c.cargo, lines |-> WithGenerated(<<"lineId">>, c.lines),
                      parcels |-> WithGenerated(<<"parcelId">>, c.parcels)]
  BY <1>2, FulfilmentParts
<1>5. PICK P, C, cw, pw : /\ P = f.collection.place /\ C = f.carried.cargo
                          /\ cw = f.collection.collectionWindow /\ pw = f.promisedWindow
  OBVIOUS
<1>6. P = Place(BodyOf(p)) /\ C = Below(BodyOf(p), Cargo) @@ CommandDefaults
  BY <1>1, <1>3, <1>4, <1>5
<1>7. (cw = None \/ IsWindow(cw)) /\ IsWindow(pw) /\ pw # None
  BY <1>5, WindowIsThere DEF IsPoint
<1>y. (cw = None \/ InYears(cw)) /\ InYears(pw)
  BY <1>5
<1>8. /\ j.fields = FieldsOf(P, C, cw, pw, f.tenantId)
      /\ j.lines = f.carried.lines /\ j.parcels = f.carried.parcels /\ j.fulfilmentId = f.id
  BY <1>5 DEF CreateShipmentPayload, FieldsOf, Collecting, Promised
<1>9. /\ P = [q \in DOMAIN P |-> P[q]] /\ C = [q \in DOMAIN C |-> C[q]]
      /\ \A q \in DOMAIN P : IsPlacePath(q)
      /\ \A q \in DOMAIN C : q[1] \in Cargo
      /\ DOMAIN P \cup DOMAIN C \subseteq DOMAIN Wire!CreateLastMileShipmentBody
      /\ {<<"metadata">>, <<"temperatureZone">>, <<"dropOff", "access">>} \subseteq DOMAIN C
  BY <1>6, FirstPaths
<1>10. PICK s : s = ShipmentBodyOf(j)
  OBVIOUS
<1>11. /\ s = FieldsOf(P, C, cw, pw, f.tenantId)
       /\ Place(s) = P /\ Below(s, Cargo) @@ CommandDefaults = C
       /\ WindowAt(s, Collecting) = cw /\ WindowAt(s, Promised) = pw
       /\ s[<<"tenantId">>] = f.tenantId
  BY <1>7, <1>y, <1>8, <1>9, <1>10, SecondBody DEF ShipmentBodyOf
<1>12. Repeats(s, b)
  BY <1>1, <1>6, <1>7, <1>y, <1>11, FieldsRepeat
<1>13. /\ s[Promised] = 0 /\ (cw # None => s[Collecting] = 0)
       /\ <<"fulfilmentId">> \in DOMAIN s /\ s[<<"fulfilmentId">>] = 17
       /\ cw = None => \A q \in DOMAIN s : q \notin Periods(Collecting)
  BY <1>7, <1>9, <1>11, JobFields
<1>14. <<"tenantId">> \in DOMAIN s
  <2>1. PICK g : g = P @@ C @@ WindowFields(Collecting, cw) @@ WindowFields(Promised, pw)
    OBVIOUS
  <2>2. s = g @@ (<<"tenantId">> :> f.tenantId) @@ (<<"fulfilmentId">> :> 17)
    BY <1>11, <2>1, Zenon DEF FieldsOf
  <2> QED BY <2>2 DEF @@, :>
<1>15. s[<<"tenantId">>] \in 1..100
  BY <1>4, <1>11, IntakeAssumption
<1>16. Wire!Fits(Wire!CreateLastMileFulfilmentBody, b)
  BY <1>1 DEF Accepted, WireAccepts
<1>17. Wire!Fits(Wire!CreateLastMileShipmentBody, s)
  BY <1>12, <1>13, <1>14, <1>15, <1>16, RepeatedFits
<1>18. \A i \in DOMAIN ShipmentLinesOf(j) :
         Wire!Fits(Wire!PromisedLine, ShipmentLinesOf(j)[i])
  <2>1. j.lines = WithGenerated(<<"lineId">>, LinesOf(p))
    BY <1>1, <1>3, <1>4, <1>8
  <2> QED BY <2>1, LinesFit
<1>19. \A i \in DOMAIN ShipmentParcelsOf(j) :
         Wire!Fits(Wire!Parcel, ShipmentParcelsOf(j)[i])
  <2>1. j.parcels = WithGenerated(<<"parcelId">>,
                      [i \in DOMAIN ParcelsOf(p) |-> ParcelsOf(p)[i] @@ ParcelDefaults])
    BY <1>1, <1>3, <1>4, <1>8
  <2> QED BY <2>1, ParcelsFit
<1>20. PICK d, dl, dp : /\ d = ShipmentCommandOf(j) /\ dl = ShipmentLinesOf(j)
                        /\ dp = ShipmentParcelsOf(j) /\ d = BodyToCommand(s, dl, dp)
  BY <1>10, Zenon DEF ShipmentCommandOf
<1>21. d.place = P /\ d.cargo = C
  <2>1. /\ d.place = Place(s) /\ d.lines = dl
        /\ d.collectionWindow = WindowAt(s, Collecting)
        /\ d.promisedWindow = WindowAt(s, Promised)
        /\ d.cargo = Below(s, Cargo) @@ CommandDefaults
        /\ d.parcels = [i \in DOMAIN dp |-> dp[i] @@ ParcelDefaults]
    BY <1>20, CommandParts
  <2> QED BY <1>11, <2>1
<1>22. Geocoded(d)
  BY <1>5, <1>21 DEF Geocoded
<1>23. WireAccepts(Wire!CreateLastMileShipmentBody, Wire!PromisedLine, Wire!Parcel, s, dl, dp)
  BY <1>17, <1>18, <1>19, <1>20 DEF WireAccepts
<1> QED BY <1>10, <1>20, <1>22, <1>23

-----------------------------------------------------------------------------
(* What is stored of what has been accepted.                               *)

(* The type of an aggregate, by the prefix of its identifier.              *)
LEMMA TypeNames ==
  ASSUME NEW a
  PROVE  /\ a.id.prefix = "lmf" => TypeNameOf(a) = "LastMileFulfilment"
         /\ a.id.prefix = "shp" => TypeNameOf(a) = "LastMileShipment"
BY DEF TypeNameOf, ExtractTypeName, PrefixMap, Handlers

(* The snapshot of a fulfilment that fits its columns is stored and read   *)
(* back.                                                                   *)
LEMMA ShipmentSaved ==
  ASSUME NEW p \in Posts, Sound(p), NEW a, a.id.prefix = "shp",
         NEW f, f = FulfilmentOf(p, a.fulfilmentId), a = SnapshotOf(a.id, f),
         FitsColumns(FulfilmentToRow(f))
  PROVE  RegistryPersist("LastMileShipment", a) = "saved"
<1>1. TypeNameOf(a) = "LastMileShipment"
  BY TypeNames
<1>2. PICK row, sid, id : row = ShipmentToRow(a) /\ sid = a.id /\ id = a.fulfilmentId
  OBVIOUS
<1>3. /\ Sendable(row) /\ ShipmentReadable(row) /\ ShipmentToAggregate(row) = a
      /\ row.id = sid /\ row.tenantId = f.tenantId /\ row.fulfilmentId = f.id
      /\ row.carried = f.carried
  BY <1>2, SnapshotSurvives
<1>4. row.tenantId <= 100 /\ FitsTimestamps(row)
  <2>1. PICK stored : stored = FulfilmentToRow(f)
    OBVIOUS
  <2>2. /\ stored.tenantId = f.tenantId
        /\ stored.promisedWindowStart = f.promisedWindow.start
        /\ stored.promisedWindowEnd = f.promisedWindow.end
    BY <2>1 DEF FulfilmentToRow
  <2>3. a.promisedWindow = f.promisedWindow
    BY DEF SnapshotOf
  <2>4. /\ row.promisedWindowStart = f.promisedWindow.start
        /\ row.promisedWindowEnd = f.promisedWindow.end
    BY <1>2, <2>3 DEF ShipmentToRow
  <2>5. stored.tenantId <= 100 /\ FitsTimestamps(stored)
    BY <2>1 DEF FitsColumns
  <2> QED BY <1>3, <2>2, <2>4, <2>5 DEF FitsTimestamps
<1>5. PersistShipment(a) = IF ShipmentReadable(row) THEN "saved" ELSE "unread"
  BY <1>2, <1>3, <1>4 DEF PersistShipment
<1> QED BY <1>1, <1>3, <1>5 DEF RegistryPersist

(* A stored row of the fulfilment: what was accepted, and fits its columns.*)
LEMMA StoredRow ==
  ASSUME NEW p, NEW id, NEW f, f = FulfilmentOf(p, id), NEW records,
         NEW d, d = RowOf(p, id), Traced(p, records, d)
  PROVE  /\ Accepted(p) /\ p.tenant <= 100 /\ FitsColumns(FulfilmentToRow(f))
         /\ d.kind = "LastMileFulfilment" /\ d.row = FulfilmentToRow(f)
         /\ d.row.id = id /\ d.row.tenantId = p.tenant
<1>1. d.kind = "LastMileFulfilment" /\ d.row = FulfilmentToRow(f)
  BY DEF RowOf, ToRow
<1>2. Accepted(p) /\ FitsColumns(d.row)
  BY <1>1 DEF Traced
<1>3. f.id = id /\ f.tenantId = p.tenant
  <2>1. PICK c : c = CommandOf(p)
    OBVIOUS
  <2>2. /\ f.id = id /\ f.tenantId = p.tenant
        /\ f.collection = [place |-> c.place, collectionWindow |-> c.collectionWindow]
        /\ f.promisedWindow = c.promisedWindow
        /\ f.carried = [cargo |-> c.cargo, lines |-> WithGenerated(<<"lineId">>, c.lines),
                        parcels |-> WithGenerated(<<"parcelId">>, c.parcels)]
    BY <2>1, NewFulfilment
  <2> QED BY <2>2
<1>4. d.row.id = f.id /\ d.row.tenantId = f.tenantId
  BY <1>1 DEF FulfilmentToRow
<1> QED BY <1>1, <1>2, <1>3, <1>4 DEF FitsColumns

(* What a validated body has, its client wrote, but for the defaults.      *)
LEMMA BodyFields ==
  ASSUME NEW p, NEW b, b = BodyOf(p)
  PROVE  /\ <<"sourceNote", "revision">> \in DOMAIN b
         /\ \A q \in DOMAIN b :
              \/ /\ q \in DOMAIN p.fields \cap DOMAIN Wire!CreateLastMileFulfilmentBody
                 /\ b[q] = p.fields[q]
              \/ q \in {<<"metadata">>, <<"sourceNote", "revision">>} /\ b[q] \in {0, 1}
         /\ DOMAIN p.fields \cap DOMAIN Wire!CreateLastMileFulfilmentBody \subseteq DOMAIN b
<1> DEFINE schema == Wire!CreateLastMileFulfilmentBody
           D == Wire!Defaults
           K == [q \in DOMAIN p.fields \cap DOMAIN schema |-> p.fields[q]]
<1>1. /\ DOMAIN D = {<<"metadata">>, <<"sourceNote", "revision">>}
      /\ \A q \in DOMAIN D : D[q] \in {0, 1}
  BY DEF Wire!Defaults, Wire!CargoDefaults, Wire!@@, Wire!:>
<1>2. b = Wire!@@(K, D)
  BY DEF BodyOf, Wire!Validated, Wire!Known
<1> HIDE DEF schema, D
<1>3. /\ DOMAIN b = (DOMAIN p.fields \cap DOMAIN schema) \cup DOMAIN D
      /\ \A q \in DOMAIN b : b[q] = IF q \in DOMAIN p.fields \cap DOMAIN schema
                                    THEN p.fields[q] ELSE D[q]
  BY <1>2 DEF Wire!@@
<1> QED BY <1>1, <1>3 DEF schema

(* Between which instants a window is can be read off what the client sent.*)
LEMMA WindowWithin ==
  ASSUME NEW p \in Posts, Accepted(p), NEW q \in {Collecting, Promised},
         NEW w, w = WindowAt(BodyOf(p), q), w = None \/ IsWindow(w), NEW from, NEW to
  PROVE  Within(p.fields, q, from, to) <=> w = None \/ {w.start, w.end} \subseteq from..to
<1>1. PICK b : b = BodyOf(p)
  OBVIOUS
<1>3. PICK s, e : s = q \o <<"start">> /\ e = q \o <<"end">>
  OBVIOUS
<1>4. Within(p.fields, q, from, to) <=>
        \A x \in {s, e} : x \in DOMAIN p.fields => p.fields[x] \in from..to
  BY <1>3 DEF Within
<1>5. PICK schema : schema = Wire!CreateLastMileFulfilmentBody
  OBVIOUS
<1>6. /\ \A x \in DOMAIN b :
           \/ x \in DOMAIN p.fields \cap DOMAIN schema /\ b[x] = p.fields[x]
           \/ x \in {<<"metadata">>, <<"sourceNote", "revision">>}
      /\ DOMAIN p.fields \cap DOMAIN schema \subseteq DOMAIN b
  BY <1>1, <1>5, BodyFields
<1>7. /\ {q, s, e} \subseteq DOMAIN schema
      /\ \A x \in {s, e} : x \notin {<<"metadata">>, <<"sourceNote", "revision">>}
  <2>1. Periods(q) \subseteq DOMAIN Wire!Snapshot
    BY SnapshotAt
  <2>2. Periods(q) = {q, s, e}
    BY <1>3 DEF Periods
  <2>3. {q, s, e} \subseteq DOMAIN schema
    BY <1>5, <2>1, <2>2, BodiesAt
  <2>4. s[1] \in {"collection", "promisedWindow"} /\ e[1] \in {"collection", "promisedWindow"}
    BY <1>3, PathFacts
  <2>5. <<"metadata">>[1] = "metadata" /\ <<"sourceNote", "revision">>[1] = "sourceNote"
    OBVIOUS
  <2> QED BY <2>3, <2>4, <2>5
<1>8. CASE q \in DOMAIN b
  <2>1. /\ s \in DOMAIN b /\ b[s] \in {Leap} \cup Int
        /\ e \in DOMAIN b /\ b[e] \in {Leap} \cup Int
    <3>1. Wire!Fits(Wire!CreateLastMileFulfilmentBody, b)
      BY <1>1 DEF Accepted, WireAccepts
    <3> QED BY <1>3, <1>8, <3>1, DatesThere
  <2>2. w = [start |-> ToDate(b[s]), end |-> ToDate(b[e])]
    BY <1>1, <1>3, <1>8 DEF WindowAt
  <2>3. w # None
    <3>1. w \in Window
      BY <2>1, <2>2 DEF Window, Date, ToDate
    <3> QED BY <3>1, RowsAssumption
  <2>4. w.start = b[s] /\ w.end = b[e]
    BY <2>2, <2>3, RowsAssumption DEF IsWindow, ToDate
  <2>5. /\ s \in DOMAIN p.fields /\ b[s] = p.fields[s]
        /\ e \in DOMAIN p.fields /\ b[e] = p.fields[e]
    BY <1>6, <1>7, <2>1
  <2> QED BY <1>4, <2>3, <2>4, <2>5
<1>9. CASE q \notin DOMAIN b
  <2>1. w = None
    BY <1>1, <1>9 DEF WindowAt
  <2>2. ASSUME NEW x \in {s, e}, x \in DOMAIN p.fields PROVE FALSE
    <3>1. Parent(x) = q /\ Len(x) > 1
      <4>1. CASE q = Collecting
        <5>1. PICK k : x = <<"collection", "collectionWindow", k>>
          BY <1>3, <2>2, <4>1, WindowPaths, Zenon
        <5>2. Len(x) = 3
          BY <5>1
        <5>3. Parent(x) = q
          BY <4>1, <5>1, ParentOf, Zenon DEF Collecting
        <5> QED BY <5>2, <5>3
      <4>2. CASE q = Promised
        <5>1. PICK k : x = <<"promisedWindow", k>>
          BY <1>3, <2>2, <4>2, WindowPaths, Zenon
        <5>2. Len(x) = 2
          BY <5>1
        <5>3. Parent(x) = q
          BY <4>2, <5>1, ParentOf, Zenon DEF Promised
        <5> QED BY <5>2, <5>3
      <4> QED BY <4>1, <4>2
    <3>2. q \in DOMAIN p.fields
      BY <2>2, <3>1, IntakeAssumption DEF IsObject, Parent
    <3> QED BY <1>6, <1>7, <1>9, <3>2
  <2> QED BY <1>4, <2>1, <2>2
<1> QED BY <1>8, <1>9

(* So can whether a body is timely,                                        *)
LEMMA TimelyWithin ==
  ASSUME NEW p \in Posts, Accepted(p), Sound(p)
  PROVE  Timely(p) <=> Within(p.fields, Collecting, FirstInstant, LastInstant)
<1>1. PICK b, c, w : b = BodyOf(p) /\ c = CommandOf(p) /\ w = c.collectionWindow
  OBVIOUS
<1>2. w = WindowAt(b, Collecting)
  <2>1. c = BodyToCommand(b, LinesOf(p), ParcelsOf(p))
    BY <1>1, Zenon DEF CommandOf
  <2>2. c.collectionWindow = WindowAt(b, Collecting)
    BY <2>1, CommandTimes
  <2> QED BY <1>1, <2>2
<1>3. w = None \/ IsWindow(w)
  BY <1>1 DEF Sound
<1>4. Within(p.fields, Collecting, FirstInstant, LastInstant) <=>
        w = None \/ {w.start, w.end} \subseteq FirstInstant..LastInstant
  BY <1>1, <1>2, <1>3, WindowWithin
<1> QED BY <1>1, <1>4 DEF Timely, InYears

(* and whether its promised window fits the timestamps of a row.           *)
LEMMA PromisedFits ==
  ASSUME NEW p \in Posts, Accepted(p), Sound(p),
         Within(p.fields, Promised, FirstStored, LastInstant),
         NEW id, NEW row, row = FulfilmentToRow(FulfilmentOf(p, id))
  PROVE  FitsTimestamps(row)
<1>1. PICK b, c, w, f : /\ b = BodyOf(p) /\ c = CommandOf(p) /\ w = c.promisedWindow
                        /\ f = FulfilmentOf(p, id)
  OBVIOUS
<1>2. w = WindowAt(b, Promised)
  <2>1. c = BodyToCommand(b, LinesOf(p), ParcelsOf(p))
    BY <1>1, Zenon DEF CommandOf
  <2>2. c.promisedWindow = WindowAt(b, Promised)
    BY <2>1, CommandTimes
  <2> QED BY <1>1, <2>2
<1>3. IsWindow(w) /\ w # None
  BY <1>1, WindowIsThere DEF Sound
<1>4. Within(p.fields, Promised, FirstStored, LastInstant) <=>
        w = None \/ {w.start, w.end} \subseteq FirstStored..LastInstant
  BY <1>1, <1>2, <1>3, WindowWithin
<1>5. /\ f.id = id /\ f.tenantId = p.tenant
      /\ f.collection = [place |-> c.place, collectionWindow |-> c.collectionWindow]
      /\ f.promisedWindow = c.promisedWindow
      /\ f.carried = [cargo |-> c.cargo, lines |-> WithGenerated(<<"lineId">>, c.lines),
                      parcels |-> WithGenerated(<<"parcelId">>, c.parcels)]
  BY <1>1, NewFulfilment
<1>6. row.promisedWindowStart = w.start /\ row.promisedWindowEnd = w.end
  BY <1>1, <1>5 DEF FulfilmentToRow
<1> QED BY <1>3, <1>4, <1>6 DEF FitsTimestamps

(* POST /shipments goes on to store what a timely job asks for, and its    *)
(* schema refuses another.                                                 *)
LEMMA JobTaken ==
  ASSUME DataTraced, PostShipment
  PROVE  /\ Accepted(post) /\ Sound(post)
         /\ Timely(post) => req'.outcome = "none"
         /\ ~Timely(post) => req'.outcome = "BODY_INVALID"
<1> DEFINE new == [Idle EXCEPT !.kind = "LastMileShipment"]
<1>p. PICK p : p = post /\ p \in Posts /\ \A d \in db : Traced(p, db, d)
  BY DEF DataTraced
<1>1. PICK job \in {d \in db : d.kind = "job"} :
        LET x       == job.payload
            b       == Wire!Validated(Wire!CreateLastMileShipmentBody, Wire!CargoDefaults, x.fields)
            lines   == ValidatedAll(Wire!PromisedLine, x.lines)
            parcels == ValidatedAll(Wire!Parcel, x.parcels)
            c       == BodyToCommand(b, lines, parcels)
            id      == [prefix |-> "shp", number |-> sent["LastMileShipment"] + 1]
            parent  == {r \in Fulfilments : r.id = x.fulfilmentId /\ r.tenantId = post.tenant}
            opened    == [Idle EXCEPT !.kind = "LastMileShipment"]
            refuse(code) == [opened EXCEPT !.pc = "close", !.outcome = code]
        IN  req' =
              IF ~WireAccepts(Wire!CreateLastMileShipmentBody, Wire!PromisedLine, Wire!Parcel,
                              b, lines, parcels) THEN refuse("BODY_INVALID")
              ELSE IF ~Geocoded(c) THEN refuse("LOCATIONS_NOT_GEOCODED")
              ELSE IF ~\E r \in parent : FulfilmentReadable(r) THEN refuse("FULFILMENT_NOT_FOUND")
              ELSE [opened EXCEPT !.pc = "persist",
                               !.aggregate = ShipmentCreate(id, b[<<"tenantId">>], x.fulfilmentId, c)]
  BY DEF PostShipment
<1>2. PICK j, id, f : j = job.payload /\ id = j.fulfilmentId /\ f = FulfilmentOf(p, id)
  OBVIOUS
<1>3. /\ Sound(p) /\ RowOf(p, id) \in db /\ j = CreateShipmentPayload(f)
      /\ Geocoded([place |-> f.collection.place, cargo |-> f.carried.cargo])
  <2>1. job \in db /\ job.kind = "job" /\ Traced(p, db, job)
    BY <1>p, <1>1
  <2> QED BY <1>2, <2>1, Zenon DEF Traced
<1>4. IsPoint(f.collection) /\ IsWindow(f.promisedWindow)
  BY <1>2, <1>3, SoundPoint
<1>5. PICK d \in db : d = RowOf(p, id)
  BY <1>3
<1>6. /\ Accepted(p) /\ p.tenant <= 100 /\ FitsColumns(FulfilmentToRow(f))
      /\ d.kind = "LastMileFulfilment" /\ d.row = FulfilmentToRow(f)
      /\ d.row.id = id /\ d.row.tenantId = p.tenant
  BY <1>p, <1>2, <1>5, StoredRow
<1> DEFINE nextId == [prefix |-> "shp", number |-> sent["LastMileShipment"] + 1]
           s == ShipmentCreate(nextId, ShipmentBodyOf(j)[<<"tenantId">>], j.fulfilmentId,
                               ShipmentCommandOf(j))
           accepts == WireAccepts(Wire!CreateLastMileShipmentBody, Wire!PromisedLine,
                                 Wire!Parcel, ShipmentBodyOf(j), ShipmentLinesOf(j),
                                 ShipmentParcelsOf(j))
           geocoded == Geocoded(ShipmentCommandOf(j))
           found == \E r \in {x \in Fulfilments : x.id = j.fulfilmentId
                                                /\ x.tenantId = post.tenant} :
                     FulfilmentReadable(r)
<1>7. req' = IF ~accepts THEN [new EXCEPT !.pc = "close", !.outcome = "BODY_INVALID"]
             ELSE IF ~geocoded
               THEN [new EXCEPT !.pc = "close", !.outcome = "LOCATIONS_NOT_GEOCODED"]
             ELSE IF ~found
               THEN [new EXCEPT !.pc = "close", !.outcome = "FULFILMENT_NOT_FOUND"]
             ELSE [new EXCEPT !.pc = "persist", !.aggregate = s]
  BY <1>1, <1>2, Zenon DEF ShipmentBodyOf, ShipmentCommandOf, ShipmentLinesOf, ShipmentParcelsOf
<1>t. Timely(p) <=> \/ f.collection.collectionWindow = None
                    \/ InYears(f.collection.collectionWindow)
  <2>1. PICK c : c = CommandOf(p)
    OBVIOUS
  <2>2. /\ f.id = id /\ f.tenantId = p.tenant
        /\ f.collection = [place |-> c.place, collectionWindow |-> c.collectionWindow]
        /\ f.promisedWindow = c.promisedWindow
        /\ f.carried = [cargo |-> c.cargo, lines |-> WithGenerated(<<"lineId">>, c.lines),
                        parcels |-> WithGenerated(<<"parcelId">>, c.parcels)]
    BY <1>2, <2>1, NewFulfilment
  <2> QED BY <2>1, <2>2 DEF Timely
<1>8. Timely(p) => accepts /\ geocoded
  <2>1. InYears(f.promisedWindow)
    BY <1>6, StoredWindow
  <2> QED BY <1>p, <1>2, <1>3, <1>4, <1>6, <1>t, <2>1, JobWelcome
<1>11. accepts => Timely(p)
  <2>1. accepts => Wire!Fits(Wire!CreateLastMileShipmentBody, ShipmentBodyOf(j))
    BY DEF WireAccepts
  <2> HIDE DEF accepts
  <2> QED BY <1>2, <1>3, <1>4, <1>t, <2>1, AcceptedInYears
<1>9. found
  <2>1. PICK row : row = FulfilmentToRow(f)
    OBVIOUS
  <2>2. row \in Fulfilments
    BY <1>6, <2>1 DEF Fulfilments, Rows
  <2>3. /\ Sendable(row) /\ FulfilmentReadable(row)
        /\ ReviveCollectionPointDates(row.collection) = f.collection
        /\ [start |-> row.promisedWindowStart, end |-> row.promisedWindowEnd] = f.promisedWindow
    BY <1>2, <1>3, <2>1, SoundIsKept
  <2> QED BY <1>p, <1>2, <1>6, <2>1, <2>2, <2>3
<1> HIDE DEF accepts, geocoded, found, s
<1>10. /\ Timely(p) => req' = [new EXCEPT !.pc = "persist", !.aggregate = s]
       /\ ~Timely(p) => req' = [new EXCEPT !.pc = "close", !.outcome = "BODY_INVALID"]
  BY <1>7, <1>8, <1>9, <1>11, Zenon
<1> QED BY <1>p, <1>3, <1>6, <1>10 DEF Idle

(* A shipment under way is stored and read back, if the database answers.  *)
LEMMA ShipmentsPersist ==
  ASSUME DataTraced, req.pc = "persist", req.kind = "LastMileShipment"
  PROVE  RegistryPersist(req.kind, req.aggregate) = "saved"
<1>p. PICK p : p = post /\ p \in Posts /\ \A d \in db : Traced(p, db, d)
  BY DEF DataTraced
<1>1. PICK a, f : a = req.aggregate /\ f = FulfilmentOf(p, a.fulfilmentId)
  OBVIOUS
<1>2. /\ a.id.prefix = "shp" /\ Sound(p) /\ RowOf(p, a.fulfilmentId) \in db
      /\ a = SnapshotOf(a.id, f)
  BY <1>p, <1>1 DEF DataTraced, ShipmentUnderway
<1>3. PICK d, id : d \in db /\ d = RowOf(p, id) /\ id = a.fulfilmentId
  BY <1>2
<1>4. /\ Accepted(p) /\ p.tenant <= 100 /\ FitsColumns(FulfilmentToRow(f))
      /\ d.kind = "LastMileFulfilment" /\ d.row = FulfilmentToRow(f)
      /\ d.row.id = id /\ d.row.tenantId = p.tenant
  BY <1>p, <1>1, <1>3, StoredRow
<1>5. RegistryPersist("LastMileShipment", a) = "saved"
  BY <1>p, <1>1, <1>2, <1>4, ShipmentSaved
<1> QED BY <1>1, <1>5

FaultsCounted == faults \in Nat

(* A shipment that is being stored is asked for by a timely job.           *)
LEMMA ShipmentIsTimely ==
  ASSUME DataTraced, req.kind = "LastMileShipment", req.pc \in {"persist", "audit", "event"}
  PROVE  Within(post.fields, Collecting, FirstInstant, LastInstant)
<1>p. PICK p : p = post /\ p \in Posts /\ \A d \in db : Traced(p, db, d)
  BY DEF DataTraced
<1>1. PICK id, d : d \in db /\ d = RowOf(p, id) /\ Sound(p) /\ Timely(p)
  BY <1>p DEF DataTraced, ShipmentUnderway
<1>2. PICK f : f = FulfilmentOf(p, id)
  OBVIOUS
<1>3. /\ Accepted(p) /\ p.tenant <= 100 /\ FitsColumns(FulfilmentToRow(f))
      /\ d.kind = "LastMileFulfilment" /\ d.row = FulfilmentToRow(f)
      /\ d.row.id = id /\ d.row.tenantId = p.tenant
  BY <1>p, <1>1, <1>2, StoredRow
<1> QED BY <1>p, <1>1, <1>3, TimelyWithin

(* The outcome of a creation of a shipment, as long as no statement fails. *)
LEMMA NextJobs ==
  RowsOpen /\ AllAnnounced /\ DataTraced /\ FaultsCounted /\ JobAccepted /\ [Next]_vars
  => FaultsCounted' /\ JobAccepted'
<1> SUFFICES ASSUME RowsOpen, AllAnnounced, DataTraced, faults \in Nat, JobAccepted, [Next]_vars
             PROVE  faults' \in Nat /\ JobAccepted'
  BY DEF FaultsCounted
<1>0. RequestShape
  BY DEF RowsOpen, RequestShape
<1>p. PICK p : p = post /\ p \in Posts /\ \A d \in db : Traced(p, db, d)
  BY DEF DataTraced
<1>w. /\ JobAccepted <=>
           (req.kind = "LastMileShipment" /\ faults = 0 =>
              IF Within(post.fields, Collecting, FirstInstant, LastInstant)
              THEN req.outcome \in {"none", "ok"} ELSE req.outcome = "BODY_INVALID")
      /\ JobAccepted' <=>
           (req'.kind = "LastMileShipment" /\ faults' = 0 =>
              IF Within(post'.fields, Collecting, FirstInstant, LastInstant)
              THEN req'.outcome \in {"none", "ok"} ELSE req'.outcome = "BODY_INVALID")
  BY DEF JobAccepted, Collecting
<1>1. CASE PostFulfilment
  <2> DEFINE b == Wire!Validated(Wire!CreateLastMileFulfilmentBody, Wire!Defaults, post.fields)
             lines == ValidatedAll(Wire!PromisedLineDraft, post.lines)
             parcels == ValidatedAll(Wire!ParcelDraft, post.parcels)
             new == [Idle EXCEPT !.kind = "LastMileFulfilment"]
             accepted == WireAccepts(Wire!CreateLastMileFulfilmentBody, Wire!PromisedLineDraft,
                                     Wire!ParcelDraft, b, lines, parcels)
             command == BodyToCommand(b, lines, parcels)
  <2>1. /\ UNCHANGED faults
        /\ req' = IF accepted THEN [new EXCEPT !.pc = "rules", !.command = command]
                              ELSE [new EXCEPT !.pc = "close", !.outcome = "BODY_INVALID"]
    BY <1>1, Zenon DEF PostFulfilment, Arrives
  <2> HIDE DEF accepted, command
  <2>2. req'.kind = "LastMileFulfilment"
    BY <2>1 DEF Idle
  <2> QED BY <1>w, <2>1, <2>2
<1>2. CASE CheckRules
  <2>1. req.kind # "LastMileShipment"
    BY <1>2 DEF CheckRules, DataTraced, ShipmentUnderway
  <2>2. req'.kind = req.kind /\ UNCHANGED faults
    BY <1>0, <1>2 DEF CheckRules, To, Refuse, RequestShape
  <2> QED BY <1>w, <2>1, <2>2
<1>3. CASE CheckSourceNote
  <2>1. req.kind # "LastMileShipment"
    BY <1>3 DEF CheckSourceNote, DataTraced, ShipmentUnderway
  <2>2. PICK f, q : f = FulfilmentCreate([prefix |-> "lmf", number |-> sent["LastMileFulfilment"]],
                                         post.tenant, req.command) /\ q = req'
    OBVIOUS
  <2>3. /\ UNCHANGED faults
        /\ \/ q = [req EXCEPT !.pc = "persist", !.aggregate = f]
           \/ \E code : q = [req EXCEPT !.pc = "close", !.outcome = code]
    BY <1>3, <2>2 DEF CheckSourceNote, Refuse
  <2>4. q.kind = req.kind
    BY <1>0, <2>3 DEF RequestShape
  <2> QED BY <1>w, <2>1, <2>2, <2>3, <2>4
<1>4. CASE Persist
  <2>1. PICK result, row, a, kind :
          /\ a = req.aggregate /\ kind = req.kind
          /\ result = RegistryPersist(kind, a) /\ row = ToRow(kind, a)
    OBVIOUS
  <2>2. PICK pc, outcome, aborted, staged :
          /\ outcome = (IF result = "saved" THEN "none" ELSE "COMMIT_FAILED")
          /\ req' = [req EXCEPT !.pc = pc, !.outcome = outcome, !.aborted = aborted,
                                !.staged = staged]
          /\ req.pc = "persist" /\ UNCHANGED <<post, db, faults>>
    BY <1>4, <2>1, Zenon DEF Persist
  <2>3. req'.kind = kind /\ req'.outcome = outcome
    BY <1>0, <2>1, <2>2 DEF RequestShape
  <2>4. ASSUME kind = "LastMileShipment" PROVE result = "saved"
    BY <2>1, <2>2, <2>4, ShipmentsPersist
  <2>5. ASSUME kind = "LastMileShipment"
        PROVE  Within(post'.fields, Collecting, FirstInstant, LastInstant)
    BY <2>1, <2>2, <2>5, ShipmentIsTimely
  <2> QED BY <1>w, <2>2, <2>3, <2>4, <2>5
<1>5. CASE WriteLocalAuditLog
  <2>1. /\ UNCHANGED <<post, faults>>
        /\ \/ /\ req.kind = "LastMileFulfilment"
              /\ req' = [req EXCEPT !.pc = "close", !.outcome = "COMMIT_FAILED", !.aborted = TRUE]
           \/ req' = [req EXCEPT !.pc = "event", !.staged = @ \cup {Audited(req.aggregate.id)}]
    BY <1>5 DEF WriteLocalAuditLog
  <2>2. req'.kind = req.kind /\ (req.kind # "LastMileFulfilment" => req'.outcome = req.outcome)
    BY <1>0, <2>1 DEF RequestShape
  <2> QED BY <1>w, <2>1, <2>2
<1>6. CASE WriteEvent
  <2>1. /\ req'.outcome = "ok" /\ UNCHANGED <<post, faults>> /\ req.pc = "event"
        /\ req'.kind = req.kind
    BY <1>0, <1>6 DEF WriteEvent, RequestShape
  <2>2. ASSUME req.kind = "LastMileShipment"
        PROVE  Within(post'.fields, Collecting, FirstInstant, LastInstant)
    BY <2>1, <2>2, ShipmentIsTimely
  <2> QED BY <1>w, <2>1, <2>2
<1>7. CASE StatementFails
  <2>1. faults' = faults + 1
    BY <1>7 DEF StatementFails
  <2> QED BY <1>w, <2>1
<1>8. CASE Close
  <2>1. req'.kind = None /\ UNCHANGED faults
    BY <1>8 DEF Close, Idle
  <2> QED BY <1>w, <2>1, IntakeAssumption
<1>9. CASE HandleLastMileFulfilmentCreated
  BY <1>9 DEF HandleLastMileFulfilmentCreated, JobAccepted
<1>10. CASE PostShipment
  <2>1. /\ Accepted(post) /\ Sound(post)
        /\ Timely(post) => req'.outcome = "none"
        /\ ~Timely(post) => req'.outcome = "BODY_INVALID"
    BY <1>10, JobTaken
  <2>2. UNCHANGED <<post, faults>>
    BY <1>10 DEF PostShipment, Arrives
  <2>3. Timely(post) <=> Within(post'.fields, Collecting, FirstInstant, LastInstant)
    BY <1>p, <2>1, <2>2, TimelyWithin
  <2> QED BY <1>w, <2>1, <2>2, <2>3
<1>11. CASE UNCHANGED vars
  BY <1>11 DEF vars, JobAccepted
<1> QED
  BY <1>1, <1>2, <1>3, <1>4, <1>5, <1>6, <1>7, <1>8, <1>9, <1>10, <1>11 DEF Next

(* Which jobs are sent in vain: as long as the database answers, the       *)
(* request that a job of a stored, geocoded fulfilment makes is accepted   *)
(* by the schemas and the guards of POST /shipments, and its shipment is   *)
(* stored and read back, if the collection window its client wrote ends    *)
(* and starts in years of four digits; else its shape is refused.          *)
THEOREM JobsAreAccepted == Spec => []JobAccepted
<1>1. Init => FaultsCounted /\ JobAccepted
  BY IntakeAssumption DEF Init, Idle, FaultsCounted, JobAccepted
<1> QED
  BY <1>1, InitTraced, NextRowsOpen, NextAnnounced, NextTraced, NextJobs, PTL DEF Spec

(* A body without leap seconds has valid dates.                            *)
LEMMA NoLeapIsSound ==
  ASSUME NEW p, Accepted(p), ~Leaps(p.fields)
  PROVE  Sound(p)
<1>1. PICK b, c : b = BodyOf(p) /\ c = CommandOf(p)
  OBVIOUS
<1>2. Wire!Fits(Wire!CreateLastMileFulfilmentBody, b)
  BY <1>1 DEF Accepted, WireAccepts
<1>3. c.promisedWindow = WindowAt(b, Promised) /\ c.collectionWindow = WindowAt(b, Collecting)
  <2>1. c = BodyToCommand(b, LinesOf(p), ParcelsOf(p))
    BY <1>1, Zenon DEF CommandOf
  <2> QED BY <2>1, CommandTimes
<1>4. \A q \in DOMAIN b : b[q] # Leap
  <2>1. Leap # 0 /\ Leap # 1
    BY OddsAreNoNumbers
  <2>2. \A q \in DOMAIN b :
          \/ /\ q \in DOMAIN p.fields \cap DOMAIN Wire!CreateLastMileFulfilmentBody
             /\ b[q] = p.fields[q]
          \/ q \in {<<"metadata">>, <<"sourceNote", "revision">>} /\ b[q] \in {0, 1}
    BY <1>1, BodyFields
  <2> QED BY <2>1, <2>2 DEF Leaps
<1>5. ASSUME NEW q \in {Collecting, Promised}, q \in DOMAIN b
      PROVE  IsWindow(WindowAt(b, q))
  <2>1. PICK s, e : s = q \o <<"start">> /\ e = q \o <<"end">>
    OBVIOUS
  <2>2. /\ q \o <<"start">> \in DOMAIN b /\ b[q \o <<"start">>] \in {Leap} \cup Int
        /\ q \o <<"end">> \in DOMAIN b /\ b[q \o <<"end">>] \in {Leap} \cup Int
    BY <1>2, <1>5, DatesThere
  <2>3. b[s] \in Int /\ b[e] \in Int
    BY <1>4, <2>1, <2>2
  <2>4. ToDate(b[s]) = b[s] /\ ToDate(b[e]) = b[e]
    BY <1>4, <2>1, <2>2 DEF ToDate
  <2>5. WindowAt(b, q) = [start |-> b[s], end |-> b[e]]
    BY <1>5, <2>1, <2>4 DEF WindowAt
  <2> QED BY <2>3, <2>5 DEF IsWindow
<1>6. Promised \in DOMAIN b
  <2>1. c.promisedWindow \in Window /\ c.collectionWindow \in Window \cup {None}
    BY <1>1, CommandWindows
  <2>2. Promised \notin DOMAIN b => c.promisedWindow = None
    BY <1>3 DEF WindowAt
  <2> QED BY <2>1, <2>2, RowsAssumption
<1>7. Collecting \notin DOMAIN b => c.collectionWindow = None
  BY <1>3 DEF WindowAt
<1> QED BY <1>1, <1>3, <1>5, <1>6, <1>7 DEF Sound

Named    == Wire!Required(1..100)
NotePath(k)  == <<"sourceNote", k>>
OrderPath(k) == <<"orderRef", k>>

(* The note and the order in the schema of the body of a fulfilment.       *)
LEMMA NoteAt ==
  ASSUME NEW S, S = Wire!CreateLastMileFulfilmentBody
  PROVE  /\ <<"sourceNote">> \in DOMAIN S /\ S[<<"sourceNote">>].required
         /\ {NotePath("system"), NotePath("number"), NotePath("revision")} \subseteq DOMAIN S
         /\ S[NotePath("system")] = Named /\ S[NotePath("number")] = Named
         /\ S[NotePath("revision")] = Wire!Optional(Wire!AtLeast(0))
         /\ {<<"orderRef">>, OrderPath("system"), OrderPath("number")} \subseteq DOMAIN S
         /\ S[OrderPath("system")] = Named /\ S[OrderPath("number")] = Named
         /\ \A q \in DOMAIN S : q[1] = "orderRef" =>
              q \in {<<"orderRef">>, OrderPath("system"), OrderPath("number")}
<1> DEFINE node == Wire!Required(Wire!Node)
           onode == Wire!Optional(Wire!Node)
           revised == Wire!Optional(Wire!AtLeast(0))
           SN == Wire!Under("sourceNote", node, Wire!SourceNoteRef)
           OR == Wire!Under("orderRef", onode, Wire!OrderRef)
<1>1. node.required
  BY DEF Wire!Required
<1>2. /\ {<<"system">>, <<"number">>, <<"revision">>} \subseteq DOMAIN Wire!SourceNoteRef
      /\ Wire!SourceNoteRef[<<"system">>] = Named /\ Wire!SourceNoteRef[<<"number">>] = Named
      /\ Wire!SourceNoteRef[<<"revision">>] = revised
  <2> DEFINE R == [system |-> Wire!Required(1..100),
                   type |-> Wire!Required(Wire!Enum(Wire!SourceNoteType)),
                   number |-> Wire!Required(1..100), revision |-> revised]
  <2>1. Wire!SourceNoteRef = Wire!Leaves(R)
    BY Zenon DEF Wire!SourceNoteRef
  <2>2. /\ {"system", "number", "revision"} \subseteq DOMAIN R
        /\ R["system"] = Named /\ R["number"] = Named /\ R["revision"] = revised
    BY DEF Named
  <2> HIDE DEF R
  <2> QED BY <2>1, <2>2, LeavesAt
<1>3. /\ DOMAIN Wire!OrderRef = {<<"system">>, <<"number">>}
      /\ Wire!OrderRef[<<"system">>] = Named /\ Wire!OrderRef[<<"number">>] = Named
  <2> DEFINE R == [system |-> Wire!Required(1..100), number |-> Wire!Required(1..100)]
  <2>1. Wire!OrderRef = Wire!Leaves(R)
    BY Zenon DEF Wire!OrderRef
  <2>2. /\ DOMAIN R = {"system", "number"} /\ R["system"] = Named /\ R["number"] = Named
    BY DEF Named
  <2> HIDE DEF R
  <2> QED BY <2>1, <2>2, LeavesAt
<1> HIDE DEF node, onode, revised
<1>4. /\ \A q \in DOMAIN SN : q[1] = "sourceNote"
      /\ SN[<<"sourceNote">>] = node
      /\ \A q \in DOMAIN Wire!SourceNoteRef : SN[<<"sourceNote">> \o q] = Wire!SourceNoteRef[q]
  BY UnderAt, ShallowSchemas
<1>5. /\ \A q \in DOMAIN OR : q[1] = "orderRef"
      /\ OR[<<"orderRef">>] = onode
      /\ \A q \in DOMAIN Wire!OrderRef : OR[<<"orderRef">> \o q] = Wire!OrderRef[q]
  BY UnderAt, ShallowSchemas
<1>6. /\ DOMAIN SN = {<<"sourceNote">>} \cup {<<"sourceNote">> \o q : q \in DOMAIN Wire!SourceNoteRef}
      /\ DOMAIN OR = {<<"orderRef">>} \cup {<<"orderRef">> \o q : q \in DOMAIN Wire!OrderRef}
  BY UnderPaths
<1>7. /\ <<"sourceNote">> \o <<"system">> = NotePath("system")
      /\ <<"sourceNote">> \o <<"number">> = NotePath("number")
      /\ <<"sourceNote">> \o <<"revision">> = NotePath("revision")
      /\ <<"orderRef">> \o <<"system">> = OrderPath("system")
      /\ <<"orderRef">> \o <<"number">> = OrderPath("number")
  BY Pair, Zenon DEF NotePath, OrderPath
<1>8. PICK SNS, ORS, T : SNS = SN /\ ORS = OR /\ T = Wire!Snapshot
  OBVIOUS
<1> HIDE DEF SN, OR
<1>9. /\ {<<"sourceNote">>, NotePath("system"), NotePath("number"), NotePath("revision")}
            \subseteq DOMAIN SNS
      /\ SNS[NotePath("system")] = Named /\ SNS[NotePath("number")] = Named
      /\ SNS[NotePath("revision")] = revised
  BY <1>2, <1>4, <1>6, <1>7, <1>8, Zenon
<1>10. /\ DOMAIN ORS = {<<"orderRef">>, OrderPath("system"), OrderPath("number")}
       /\ ORS[OrderPath("system")] = Named /\ ORS[OrderPath("number")] = Named
  <2>1. PICK s, n : s = <<"system">> /\ n = <<"number">>
    OBVIOUS
  <2>2. {<<"orderRef">> \o q : q \in DOMAIN Wire!OrderRef} = {<<"orderRef">> \o s, <<"orderRef">> \o n}
    BY <1>3, <2>1
  <2>3. DOMAIN ORS = {<<"orderRef">>} \cup {<<"orderRef">> \o s, <<"orderRef">> \o n}
    BY <1>6, <1>8, <2>2, Zenon
  <2>4. DOMAIN ORS = {<<"orderRef">>} \cup {OrderPath("system"), OrderPath("number")}
    BY <1>7, <2>1, <2>3, Zenon
  <2>5. ORS[OrderPath("system")] = Named /\ ORS[OrderPath("number")] = Named
    BY <1>3, <1>5, <1>7, <1>8, Zenon
  <2> QED BY <2>4, <2>5
<1>11. \A q \in DOMAIN T : q[1] # "sourceNote" /\ q[1] # "orderRef"
  <2>1. \A q \in DOMAIN T : q[1] \in Cargo \cup {"collection", "promisedWindow"}
    BY <1>8, SnapshotAt
  <2> QED BY <2>1 DEF Cargo
<1>12. S = Wire!@@(Wire!@@(T, SNS), ORS)
  BY <1>8, Zenon DEF Wire!CreateLastMileFulfilmentBody, SN, OR, node, onode
<1>13. /\ DOMAIN S = DOMAIN T \cup DOMAIN SNS \cup DOMAIN ORS
       /\ \A q \in DOMAIN SNS : q \notin DOMAIN T => S[q] = SNS[q]
       /\ \A q \in DOMAIN ORS : q \notin DOMAIN T /\ q \notin DOMAIN SNS => S[q] = ORS[q]
  BY <1>12 DEF Wire!@@
<1>14. \A q \in DOMAIN SNS : q[1] = "sourceNote" /\ S[q] = SNS[q]
  BY <1>4, <1>8, <1>11, <1>13
<1>15. \A q \in DOMAIN ORS : q[1] = "orderRef" /\ S[q] = ORS[q]
  BY <1>4, <1>5, <1>8, <1>11, <1>13
<1>16. S[<<"sourceNote">>] = node
  BY <1>4, <1>8, <1>9, <1>14
<1>17. /\ {NotePath("system"), NotePath("number"), NotePath("revision")} \subseteq DOMAIN S
       /\ S[NotePath("system")] = Named /\ S[NotePath("number")] = Named
       /\ S[NotePath("revision")] = revised /\ <<"sourceNote">> \in DOMAIN S
  BY <1>9, <1>13, <1>14
<1>18. /\ {<<"orderRef">>, OrderPath("system"), OrderPath("number")} \subseteq DOMAIN S
       /\ S[OrderPath("system")] = Named /\ S[OrderPath("number")] = Named
  BY <1>10, <1>13, <1>15
<1>19. ASSUME NEW q \in DOMAIN S, q[1] = "orderRef"
       PROVE  q \in {<<"orderRef">>, OrderPath("system"), OrderPath("number")}
  BY <1>10, <1>11, <1>13, <1>14, <1>19
<1> QED BY <1>1, <1>16, <1>17, <1>18, <1>19, Zenon DEF revised

(* What no schema states of a body that the columns or dates refuse.       *)
BeyondSchema(p) ==
  \/ Leaps(p.fields)
  \/ ~Within(p.fields, Promised, FirstStored, LastInstant)
  \/ /\ <<"sourceNote", "revision">> \in DOMAIN p.fields
     /\ p.fields[<<"sourceNote", "revision">>] > MaxInteger
  \/ p.nul # "none"
  \/ p.tenant > 100

(* The note of a validated body fits its columns, but for the revision.    *)
LEMMA NoteFits ==
  ASSUME NEW p \in Posts, Accepted(p), ~BeyondSchema(p), NEW b, b = BodyOf(p)
  PROVE  /\ {NotePath("system"), NotePath("number"), NotePath("revision")} \subseteq DOMAIN b
         /\ b[NotePath("system")] <= 100 /\ b[NotePath("number")] <= 100
         /\ b[NotePath("revision")] <= MaxInteger
<1>1. PICK S : S = Wire!CreateLastMileFulfilmentBody
  OBVIOUS
<1>2. /\ <<"sourceNote">> \in DOMAIN S /\ S[<<"sourceNote">>].required
      /\ {NotePath("system"), NotePath("number"), NotePath("revision")} \subseteq DOMAIN S
      /\ S[NotePath("system")] = Named /\ S[NotePath("number")] = Named
      /\ S[NotePath("revision")] = Wire!Optional(Wire!AtLeast(0))
  BY <1>1, NoteAt
<1>3. /\ \A s \in DOMAIN S : /\ S[s].required
                             /\ Len(s) = 1 \/ Parent(s) \in DOMAIN b
                             => s \in DOMAIN b
      /\ \A s \in DOMAIN b \cap DOMAIN S : b[s] \in S[s].allowed
  BY <1>1 DEF Accepted, WireAccepts, Wire!Fits, Parent
<1>4. Named.required /\ Named.allowed = 1..100
  BY DEF Named, Wire!Required
<1>5. Wire!Optional(Wire!AtLeast(0)).allowed = {k \in Int : k >= 0}
  BY DEF Wire!Optional, Wire!AtLeast
<1>6. \A k : Parent(NotePath(k)) = <<"sourceNote">>
  BY ParentOf, Zenon DEF NotePath
<1>7. <<"sourceNote">> \in DOMAIN b
  <2>1. Len(<<"sourceNote">>) = 1
    OBVIOUS
  <2> QED BY <1>2, <1>3, <2>1
<1>8. NotePath("system") \in DOMAIN b /\ NotePath("number") \in DOMAIN b
  BY <1>2, <1>3, <1>4, <1>6, <1>7
<1>9. b[NotePath("system")] \in 1..100 /\ b[NotePath("number")] \in 1..100
  BY <1>2, <1>3, <1>4, <1>8
<1>10. NotePath("revision") \in DOMAIN b
  BY BodyFields DEF NotePath
<1>11. b[NotePath("revision")] \in Int
  BY <1>2, <1>3, <1>5, <1>10
<1>12. b[NotePath("revision")] <= MaxInteger
  <2>1. PICK q : q = NotePath("revision")
    OBVIOUS
  <2>2. \/ q \in DOMAIN p.fields /\ b[q] = p.fields[q]
        \/ b[q] \in {0, 1}
    BY <1>10, <2>1, BodyFields
  <2>3. q \in DOMAIN p.fields => ~(p.fields[q] > MaxInteger)
    BY <2>1 DEF BeyondSchema, NotePath
  <2>4. MaxInteger \in Nat \ {0}
    BY IntakeAssumption
  <2> QED BY <1>11, <2>1, <2>2, <2>3, <2>4
<1> QED BY <1>8, <1>9, <1>10, <1>12

(* A validated body has no order, or one that fits its columns.            *)
LEMMA OrderFits ==
  ASSUME NEW p \in Posts, Accepted(p), NEW b, b = BodyOf(p),
         NEW r, r = Below(b, {"orderRef"}), r # <<>>
  PROVE  /\ {OrderPath("system"), OrderPath("number")} \subseteq DOMAIN b
         /\ b[OrderPath("system")] <= 100 /\ b[OrderPath("number")] <= 100
<1>1. PICK S : S = Wire!CreateLastMileFulfilmentBody
  OBVIOUS
<1>2. /\ {<<"orderRef">>, OrderPath("system"), OrderPath("number")} \subseteq DOMAIN S
      /\ S[OrderPath("system")] = Named /\ S[OrderPath("number")] = Named
      /\ \A q \in DOMAIN S : q[1] = "orderRef" =>
           q \in {<<"orderRef">>, OrderPath("system"), OrderPath("number")}
  BY <1>1, NoteAt
<1>3. /\ \A s \in DOMAIN S : /\ S[s].required
                             /\ Len(s) = 1 \/ Parent(s) \in DOMAIN b
                             => s \in DOMAIN b
      /\ \A s \in DOMAIN b \cap DOMAIN S : b[s] \in S[s].allowed
  BY <1>1 DEF Accepted, WireAccepts, Wire!Fits, Parent
<1>4. Named.required /\ Named.allowed = 1..100
  BY DEF Named, Wire!Required
<1>5. \A k : Parent(OrderPath(k)) = <<"orderRef">> /\ Len(OrderPath(k)) = 2
  <2>1. \A k : Len(<<"orderRef", k>>) = 2
    OBVIOUS
  <2> QED BY <2>1, ParentOf, Zenon DEF OrderPath
<1>6. PICK q \in DOMAIN b : q[1] = "orderRef"
  <2>1. r = [x \in {y \in DOMAIN b : y[1] \in {"orderRef"}} |-> b[x]]
    BY DEF Below
  <2>2. ASSUME {y \in DOMAIN b : y[1] \in {"orderRef"}} = {} PROVE FALSE
    <3>1. r = [x \in {} |-> b[x]]
      BY <2>1, <2>2
    <3>2. [x \in {} |-> b[x]] = <<>>
      OBVIOUS
    <3> QED BY <3>1, <3>2
  <2> QED BY <2>2
<1>7. q \in DOMAIN p.fields \cap DOMAIN S
  <2>1. <<"metadata">>[1] # "orderRef" /\ <<"sourceNote", "revision">>[1] # "orderRef"
    OBVIOUS
  <2> QED BY <1>1, <1>6, <2>1, BodyFields
<1>8. <<"orderRef">> \in DOMAIN p.fields
  <2>1. q \in {<<"orderRef">>, OrderPath("system"), OrderPath("number")}
    BY <1>2, <1>6, <1>7
  <2>2. IsObject(p.fields)
    BY IntakeAssumption
  <2>3. Len(q) > 1 => Parent(q) \in DOMAIN p.fields
    BY <1>7, <2>2 DEF IsObject, Parent
  <2>4. q # <<"orderRef">> => Len(q) > 1 /\ Parent(q) = <<"orderRef">>
    BY <1>5, <2>1
  <2> QED BY <1>7, <2>3, <2>4
<1>9. <<"orderRef">> \in DOMAIN b
  BY <1>1, <1>2, <1>8, BodyFields
<1>10. OrderPath("system") \in DOMAIN b /\ OrderPath("number") \in DOMAIN b
  BY <1>2, <1>3, <1>4, <1>5, <1>9
<1>11. b[OrderPath("system")] \in 1..100 /\ b[OrderPath("number")] \in 1..100
  BY <1>2, <1>3, <1>4, <1>10
<1>12. \A n \in 1..100 : n <= 100
  OBVIOUS
<1> QED BY <1>10, <1>11, <1>12, Zenon

(* The note and the order of a new fulfilment.                             *)
LEMMA NewNote ==
  ASSUME NEW p, NEW id, NEW b, b = BodyOf(p), NEW row, row = FulfilmentToRow(FulfilmentOf(p, id)),
         {NotePath("system"), NotePath("number"), NotePath("revision")} \subseteq DOMAIN b
  PROVE  /\ row.tenantId = p.tenant
         /\ row.sourceNoteSystem = b[NotePath("system")]
         /\ row.sourceNoteNumber = b[NotePath("number")]
         /\ row.sourceNoteRevision = b[NotePath("revision")]
         /\ LET r == Below(b, {"orderRef"})
            IN  /\ r = <<>> => row.orderRefSystem = None
                /\ r # <<>> => /\ row.orderRefSystem \in {None, r[OrderPath("system")]}
                               /\ row.orderRefSystem # None =>
                                    row.orderRefNumber = r[OrderPath("number")]
<1>1. PICK lines, parcels, c, f :
        /\ lines = LinesOf(p) /\ parcels = ParcelsOf(p)
        /\ c = BodyToCommand(b, lines, parcels) /\ f = FulfilmentCreate(id, p.tenant, c)
  OBVIOUS
<1>2. f = FulfilmentOf(p, id)
  BY <1>1, Zenon DEF FulfilmentOf, CommandOf
<1>3. PICK n, r : n = Below(b, {"sourceNote"}) /\ r = Below(b, {"orderRef"})
  OBVIOUS
<1>4. c.note = n /\ c.orderRef = r
  BY <1>1, <1>3 DEF BodyToCommand
<1>5. PICK note, order :
        /\ note = [system |-> n[NotePath("system")], type |-> n[NotePath("type")],
                   number |-> n[NotePath("number")], revision |-> n[NotePath("revision")]]
        /\ order = IF r = <<>> THEN None ELSE [system |-> r[OrderPath("system")],
                                               number |-> r[OrderPath("number")]]
        /\ f.sourceNote = note /\ f.orderRef = order /\ f.tenantId = p.tenant
  BY <1>1, <1>4 DEF FulfilmentCreate, NotePath, OrderPath
<1>6. /\ row.tenantId = f.tenantId
      /\ row.sourceNoteSystem = note.system /\ row.sourceNoteNumber = note.number
      /\ row.sourceNoteRevision = note.revision
      /\ row.orderRefSystem = (IF order = None THEN None ELSE order.system)
      /\ row.orderRefNumber = (IF order = None THEN None ELSE order.number)
  BY <1>2, <1>5 DEF FulfilmentToRow
<1>7. \A k : NotePath(k) \in DOMAIN b => n[NotePath(k)] = b[NotePath(k)]
  <2>1. \A k : NotePath(k)[1] = "sourceNote"
    BY DEF NotePath
  <2> QED BY <1>3, <2>1 DEF Below
<1>8. /\ note.system = b[NotePath("system")] /\ note.number = b[NotePath("number")]
      /\ note.revision = b[NotePath("revision")]
  BY <1>5, <1>7
<1>9. /\ r = <<>> => row.orderRefSystem = None
      /\ r # <<>> => /\ row.orderRefSystem \in {None, r[OrderPath("system")]}
                     /\ row.orderRefSystem # None =>
                          row.orderRefNumber = r[OrderPath("number")]
  BY <1>5, <1>6
<1> QED BY <1>3, <1>5, <1>6, <1>8, <1>9

(* So its row fits its columns.                                            *)
LEMMA FulfilmentFits ==
  ASSUME NEW p \in Posts, Accepted(p), ~BeyondSchema(p),
         NEW id, NEW row, row = FulfilmentToRow(FulfilmentOf(p, id))
  PROVE  FitsColumns(row)
<1>1. PICK b : b = BodyOf(p)
  OBVIOUS
<1>2. /\ {NotePath("system"), NotePath("number"), NotePath("revision")} \subseteq DOMAIN b
      /\ b[NotePath("system")] <= 100 /\ b[NotePath("number")] <= 100
      /\ b[NotePath("revision")] <= MaxInteger
  BY <1>1, NoteFits
<1>3. PICK r : r = Below(b, {"orderRef"})
  OBVIOUS
<1>4. /\ row.tenantId = p.tenant
      /\ row.sourceNoteSystem = b[NotePath("system")]
      /\ row.sourceNoteNumber = b[NotePath("number")]
      /\ row.sourceNoteRevision = b[NotePath("revision")]
      /\ r = <<>> => row.orderRefSystem = None
      /\ r # <<>> => /\ row.orderRefSystem \in {None, r[OrderPath("system")]}
                     /\ row.orderRefSystem # None =>
                          row.orderRefNumber = r[OrderPath("number")]
  BY <1>1, <1>2, <1>3, NewNote
<1>5. ASSUME r # <<>>
      PROVE  r[OrderPath("system")] <= 100 /\ r[OrderPath("number")] <= 100
  <2>1. /\ {OrderPath("system"), OrderPath("number")} \subseteq DOMAIN b
        /\ b[OrderPath("system")] <= 100 /\ b[OrderPath("number")] <= 100
    BY <1>1, <1>3, <1>5, OrderFits
  <2>2. \A k : OrderPath(k)[1] = "orderRef"
    BY DEF OrderPath
  <2>3. /\ r[OrderPath("system")] = b[OrderPath("system")]
        /\ r[OrderPath("number")] = b[OrderPath("number")]
    BY <1>3, <2>1, <2>2 DEF Below
  <2> QED BY <2>1, <2>3
<1>6. p.tenant <= 100
  <2>1. p.tenant \in Nat
    BY IntakeAssumption
  <2> QED BY <2>1 DEF BeyondSchema
<1>7. row.orderRefSystem # None => row.orderRefSystem <= 100 /\ row.orderRefNumber <= 100
  BY <1>4, <1>5
<1>8. FitsTimestamps(row)
  <2>1. Sound(p)
    BY NoLeapIsSound DEF BeyondSchema
  <2> QED BY <2>1, PromisedFits DEF BeyondSchema
<1> QED BY <1>2, <1>4, <1>6, <1>7, <1>8 DEF FitsColumns

(* A new fulfilment whose note nobody else holds is stored and read back.  *)
LEMMA FulfilmentSaved ==
  ASSUME NEW p \in Posts, p = post, Accepted(p), ~BeyondSchema(p),
         NEW a, a.id.prefix = "lmf", a = FulfilmentOf(p, a.id),
         \A r \in Fulfilments : ~HoldsSameNote(r, FulfilmentToRow(a))
  PROVE  RegistryPersist("LastMileFulfilment", a) = "saved"
<1>1. TypeNameOf(a) = "LastMileFulfilment"
  BY TypeNames
<1>2. PICK row, id : row = FulfilmentToRow(a) /\ id = a.id /\ a = FulfilmentOf(p, id)
  OBVIOUS
<1>3. Sound(p)
  BY NoLeapIsSound DEF BeyondSchema
<1>4. /\ Sendable(row) /\ FulfilmentReadable(row)
      /\ ReviveCollectionPointDates(row.collection) = a.collection
      /\ [start |-> row.promisedWindowStart, end |-> row.promisedWindowEnd] = a.promisedWindow
  BY <1>2, <1>3, SoundIsKept
<1>5. FitsColumns(row)
  BY <1>2, FulfilmentFits
<1>6. PersistFulfilment(a) = "saved"
  BY <1>2, <1>4, <1>5 DEF PersistFulfilment, BeyondSchema
<1> QED BY <1>1, <1>6 DEF RegistryPersist

(* A rule that is broken reports its code.                                 *)
LEMMA BrokenCode ==
  ASSUME NEW rules, DOMAIN rules = 1..7
  PROVE  FirstBroken(rules) = "ok" \/ \E i \in 1..7 : FirstBroken(rules) = rules[i][2]
<1> DEFINE broken == {i \in DOMAIN rules : rules[i][1]}
           first == CHOOSE i \in broken : \A j \in broken : i <= j
<1> SUFFICES ASSUME broken # {} PROVE \E i \in 1..7 : FirstBroken(rules) = rules[i][2]
  BY DEF FirstBroken
<1>1. \E i \in broken : \A j \in broken : i <= j
  OBVIOUS
<1>2. first \in broken
  BY <1>1
<1>3. FirstBroken(rules) = rules[first][2]
  BY DEF FirstBroken
<1> QED BY <1>2, <1>3

(* No rule has the code of a failed commit.                                *)
LEMMA RuleCodes ==
  ASSUME NEW c
  PROVE  FirstBroken(Rules(c)) # "COMMIT_FAILED"
<1>1. PICK R : R = Rules(c)
  OBVIOUS
<1>2. DOMAIN R = 1..7 /\ \A i \in 1..7 : R[i][2] # "COMMIT_FAILED"
  BY <1>1 DEF Rules
<1> QED BY <1>1, <1>2, BrokenCode

(* What the outcome of a request says after a step, as long as no          *)
(* statement fails.                                                        *)
LEMMA NextCommits ==
  RowsOpen /\ AllAnnounced /\ DataTraced /\ FaultsCounted /\ CommitFailsOnlyBeyondSchema
  /\ [Next]_vars => CommitFailsOnlyBeyondSchema'
<1> SUFFICES ASSUME RowsOpen, AllAnnounced, DataTraced, faults \in Nat,
                    CommitFailsOnlyBeyondSchema, [Next]_vars
             PROVE  CommitFailsOnlyBeyondSchema'
  BY DEF FaultsCounted
<1>0. RequestShape
  BY DEF RowsOpen, RequestShape
<1>p. PICK p : p = post /\ p \in Posts
  BY DEF DataTraced
<1>a. ASSUME req'.outcome # "COMMIT_FAILED" PROVE CommitFailsOnlyBeyondSchema'
  BY <1>a DEF CommitFailsOnlyBeyondSchema
<1>1. CASE PostFulfilment
  <2> DEFINE b == Wire!Validated(Wire!CreateLastMileFulfilmentBody, Wire!Defaults, post.fields)
             lines == ValidatedAll(Wire!PromisedLineDraft, post.lines)
             parcels == ValidatedAll(Wire!ParcelDraft, post.parcels)
             new == [Idle EXCEPT !.kind = "LastMileFulfilment"]
             accepted == WireAccepts(Wire!CreateLastMileFulfilmentBody, Wire!PromisedLineDraft,
                                     Wire!ParcelDraft, b, lines, parcels)
             command == BodyToCommand(b, lines, parcels)
  <2>1. req' = IF accepted THEN [new EXCEPT !.pc = "rules", !.command = command]
                           ELSE [new EXCEPT !.pc = "close", !.outcome = "BODY_INVALID"]
    BY <1>1, Zenon DEF PostFulfilment
  <2> HIDE DEF accepted, command
  <2>2. req'.outcome \in {"none", "BODY_INVALID"}
    BY <2>1 DEF Idle
  <2> QED BY <1>a, <2>2
<1>2. CASE CheckRules
  <2>1. PICK code : code = FirstBroken(Rules(req.command))
    OBVIOUS
  <2>2. code # "COMMIT_FAILED"
    BY <2>1, RuleCodes
  <2>3. UNCHANGED <<post, faults>> /\ req'.outcome \in {req.outcome, code}
    BY <1>0, <1>2, <2>1 DEF CheckRules, To, Refuse, RequestShape
  <2> QED BY <2>2, <2>3 DEF CommitFailsOnlyBeyondSchema
<1>3. CASE CheckSourceNote
  <2>1. PICK f, q : f = FulfilmentCreate([prefix |-> "lmf", number |-> sent["LastMileFulfilment"]],
                                         post.tenant, req.command) /\ q = req'
    OBVIOUS
  <2>2. /\ UNCHANGED <<post, faults>>
        /\ \/ q = [req EXCEPT !.pc = "persist", !.aggregate = f]
           \/ \E code \in {"SOURCE_NOTE_IN_FLIGHT", "REPO_READ_FAILED"} :
                q = [req EXCEPT !.pc = "close", !.outcome = code]
    BY <1>3, <2>1 DEF CheckSourceNote, Refuse
  <2>3. q.outcome \in {req.outcome, "SOURCE_NOTE_IN_FLIGHT", "REPO_READ_FAILED"}
    BY <1>0, <2>2 DEF RequestShape
  <2> QED BY <2>1, <2>2, <2>3 DEF CommitFailsOnlyBeyondSchema
<1>4. CASE Persist
  <2>1. PICK result, row, a, kind :
          /\ a = req.aggregate /\ kind = req.kind
          /\ result = RegistryPersist(kind, a) /\ row = ToRow(kind, a)
    OBVIOUS
  <2>2. PICK pc, outcome, aborted, staged :
          /\ outcome = (IF result = "saved" THEN "none" ELSE "COMMIT_FAILED")
          /\ req' = [req EXCEPT !.pc = pc, !.outcome = outcome, !.aborted = aborted,
                                !.staged = staged]
          /\ req.pc = "persist" /\ UNCHANGED <<post, db, faults>>
    BY <1>4, <2>1, Zenon DEF Persist
  <2>3. req'.outcome = outcome
    BY <1>0, <2>2 DEF RequestShape
  <2>4. kind \in {"LastMileFulfilment", "LastMileShipment"}
    BY <2>1, <2>2 DEF AllAnnounced, Kinds, Handlers
  <2>5. ASSUME kind = "LastMileShipment" PROVE result = "saved"
    BY <2>1, <2>2, <2>5, ShipmentsPersist
  <2>6. ASSUME kind = "LastMileFulfilment", ~BeyondSchema(p) PROVE result = "saved"
    <3>1. /\ Accepted(p) /\ a.id.prefix = "lmf" /\ a = FulfilmentOf(p, a.id)
          /\ \A d \in db : d.kind = "LastMileFulfilment" =>
                             ~HoldsSameNote(d.row, FulfilmentToRow(a))
      BY <1>p, <2>1, <2>2, <2>6 DEF DataTraced, FulfilmentUnderway
    <3>2. \A r \in Fulfilments : ~HoldsSameNote(r, FulfilmentToRow(a))
      BY <3>1 DEF Fulfilments, Rows
    <3>3. RegistryPersist("LastMileFulfilment", a) = "saved"
      BY <1>p, <2>6, <3>1, <3>2, FulfilmentSaved
    <3> QED BY <2>1, <2>6, <3>3
  <2>7. CASE result = "saved"
    BY <1>a, <2>2, <2>3, <2>7
  <2>8. CASE BeyondSchema(p)
    BY <1>p, <2>2, <2>8 DEF BeyondSchema, CommitFailsOnlyBeyondSchema, Promised
  <2> QED BY <2>4, <2>5, <2>6, <2>7, <2>8
<1>5. CASE WriteLocalAuditLog
  <2>1. UNCHANGED <<post, faults>>
    BY <1>5 DEF WriteLocalAuditLog
  <2>2. CASE post.principal > 100
    BY <2>1, <2>2 DEF CommitFailsOnlyBeyondSchema
  <2>3. CASE ~(post.principal > 100)
    <3>1. req' = [req EXCEPT !.pc = "event", !.staged = @ \cup {Audited(req.aggregate.id)}]
      BY <1>5, <2>3 DEF WriteLocalAuditLog
    <3>2. req'.outcome = req.outcome
      BY <1>0, <3>1 DEF RequestShape
    <3> QED BY <2>1, <3>2 DEF CommitFailsOnlyBeyondSchema
  <2> QED BY <2>2, <2>3
<1>6. CASE WriteEvent
  <2>1. req'.outcome = "ok"
    BY <1>0, <1>6 DEF WriteEvent, RequestShape
  <2> QED BY <1>a, <2>1
<1>7. CASE StatementFails
  <2>1. faults' = faults + 1
    BY <1>7 DEF StatementFails
  <2> QED BY <2>1 DEF CommitFailsOnlyBeyondSchema
<1>8. CASE Close
  <2>1. req'.outcome = "none"
    BY <1>8 DEF Close, Idle
  <2> QED BY <1>a, <2>1
<1>9. CASE HandleLastMileFulfilmentCreated
  BY <1>9 DEF HandleLastMileFulfilmentCreated, CommitFailsOnlyBeyondSchema
<1>10. CASE PostShipment
  <2>1. req'.outcome \in {"none", "BODY_INVALID"}
    BY <1>10, JobTaken
  <2> QED BY <1>a, <2>1
<1>11. CASE UNCHANGED vars
  BY <1>11 DEF vars, CommitFailsOnlyBeyondSchema
<1> QED
  BY <1>1, <1>2, <1>3, <1>4, <1>5, <1>6, <1>7, <1>8, <1>9, <1>10, <1>11 DEF Next

(* A creation that the wire and the rules let through fails to commit, as  *)
(* long as the database answers, only for what no schema states: a leap    *)
(* second, a promised window beyond the years of a timestamp, a revision   *)
(* beyond the integer column, a text PostgreSQL refuses, a tenant or a     *)
(* user id longer than its column.  The other limits of the schemas are    *)
(* within those of the columns and of the mappings.                        *)
THEOREM CommitsFailOnlyBeyondSchema == Spec => []CommitFailsOnlyBeyondSchema
<1>1. Init => FaultsCounted /\ JobAccepted /\ CommitFailsOnlyBeyondSchema
  BY IntakeAssumption DEF Init, Idle, FaultsCounted, JobAccepted, CommitFailsOnlyBeyondSchema
<1> QED
  BY <1>1, InitTraced, NextRowsOpen, NextAnnounced, NextTraced, NextJobs, NextCommits, PTL DEF Spec

-----------------------------------------------------------------------------
(* The wire's schemas and the contract's are written in the same terms,    *)
LEMMA SameTerms ==
  /\ \A r : Contract!Leaves(r) = Wire!Leaves(r)
  /\ \A k, node, schema : Contract!Under(k, node, schema) = Wire!Under(k, node, schema)
  /\ \A f, g : Contract!@@(f, g) = Wire!@@(f, g)
  /\ \A S : Contract!Required(S) = Wire!Required(S) /\ Contract!Optional(S) = Wire!Optional(S)
<1>1. ASSUME NEW r PROVE Contract!Leaves(r) = Wire!Leaves(r)
  BY Zenon DEF Contract!Leaves, Wire!Leaves
<1>2. ASSUME NEW k, NEW node, NEW schema
      PROVE  Contract!Under(k, node, schema) = Wire!Under(k, node, schema)
  BY Zenon DEF Contract!Under, Wire!Under, Contract!@@, Wire!@@, Contract!:>, Wire!:>
<1>3. ASSUME NEW f, NEW g PROVE Contract!@@(f, g) = Wire!@@(f, g)
  BY Zenon DEF Contract!@@, Wire!@@
<1>4. ASSUME NEW S
      PROVE  Contract!Required(S) = Wire!Required(S) /\ Contract!Optional(S) = Wire!Optional(S)
  BY Zenon DEF Contract!Required, Wire!Required, Contract!Optional, Wire!Optional
<1> QED BY <1>1, <1>2, <1>3, <1>4, Zenon

(* their catalogs and numbers are the same                                 *)
LEMMA SameValues ==
  /\ Contract!Positive(Int) = Wire!AtLeast(1) /\ Wire!AtLeast(0) = Nat
  /\ Contract!Boolean = Wire!Boolean /\ Contract!Node = Wire!Node
  /\ Contract!IdUpTo(40) = Wire!IdUpTo(40)
  /\ Contract!Enum(Contract!SourceNoteType) = Wire!Enum(Wire!SourceNoteType)
  /\ Contract!Enum(Contract!UnitOfMeasure) = Wire!Enum(Wire!UnitOfMeasure)
  /\ Contract!Enum(Contract!ParcelType) = Wire!Enum(Wire!ParcelType)
  /\ Contract!Enum(Contract!ParcelStatus) = Wire!Enum(Wire!ParcelStatus)
  /\ Contract!Enum(Contract!TemperatureZone) = Wire!Enum(Wire!TemperatureZone)
  /\ Contract!Enum(Contract!HandlingFlag) = Wire!Enum(Wire!HandlingFlag)
<1>1. {k \in Int : k > 0} = {k \in Int : k >= 1} /\ Nat = {k \in Int : k >= 0}
  OBVIOUS
<1>2. Contract!Positive(Int) = Wire!AtLeast(1) /\ Wire!AtLeast(0) = Nat
  BY <1>1 DEF Contract!Positive, Wire!AtLeast
<1>3. /\ Contract!Boolean = Wire!Boolean /\ Contract!Node = Wire!Node
      /\ Contract!IdUpTo(40) = Wire!IdUpTo(40)
  BY Zenon DEF Contract!Boolean, Wire!Boolean, Contract!Node, Wire!Node, Contract!IdUpTo, Wire!IdUpTo
<1>4. /\ Contract!Enum(Contract!SourceNoteType) = Wire!Enum(Wire!SourceNoteType)
      /\ Contract!Enum(Contract!UnitOfMeasure) = Wire!Enum(Wire!UnitOfMeasure)
      /\ Contract!Enum(Contract!ParcelType) = Wire!Enum(Wire!ParcelType)
      /\ Contract!Enum(Contract!ParcelStatus) = Wire!Enum(Wire!ParcelStatus)
      /\ Contract!Enum(Contract!TemperatureZone) = Wire!Enum(Wire!TemperatureZone)
      /\ Contract!Enum(Contract!HandlingFlag) = Wire!Enum(Wire!HandlingFlag)
  BY Zenon DEF Contract!Enum, Wire!Enum, Contract!Cardinality, Wire!Cardinality,
     Contract!SourceNoteType, Wire!SourceNoteType, Contract!UnitOfMeasure, Wire!UnitOfMeasure,
     Contract!ParcelType, Wire!ParcelType, Contract!ParcelStatus, Wire!ParcelStatus,
     Contract!TemperatureZone, Wire!TemperatureZone, Contract!HandlingFlag, Wire!HandlingFlag
<1> QED BY <1>2, <1>3, <1>4, Zenon

(* and so are those parts without nesting that have no odd values.         *)
LEMMA SameLeaves ==
  /\ Contract!Address = Wire!Address /\ Contract!GeoPoint = Wire!GeoPoint
  /\ Contract!AccessConstraints = Wire!AccessConstraints
  /\ Contract!SourceNoteRef = Wire!SourceNoteRef /\ Contract!OrderRef = Wire!OrderRef
<1>1. Contract!Address = Wire!Address
  <2>1. 2..2 = {2}
    OBVIOUS
  <2> QED BY <2>1, SameTerms, Zenon DEF Contract!Address, Wire!Address
<1>2. Contract!GeoPoint = Wire!GeoPoint
  BY SameTerms, Zenon DEF Contract!GeoPoint, Wire!GeoPoint
<1>4. Contract!AccessConstraints = Wire!AccessConstraints
  <2>0. PICK m : m = 2000
    OBVIOUS
  <2>1. PICK S : S = 0..m
    OBVIOUS
  <2>2. Wire!AccessConstraints = Wire!Leaves(
          [maxVehicleLengthMm |-> Wire!Optional(Wire!AtLeast(1)),
           maxVehicleWidthMm |-> Wire!Optional(Wire!AtLeast(1)),
           maxVehicleHeightMm |-> Wire!Optional(Wire!AtLeast(1)),
           maxGrossWeightKg |-> Wire!Optional(Wire!AtLeast(1)),
           requiresTailLift |-> Wire!Optional(Wire!Boolean),
           requiresForklift |-> Wire!Optional(Wire!Boolean),
           requiresCrane |-> Wire!Optional(Wire!Boolean), notes |-> Wire!Optional(S)])
    BY <2>0, <2>1, SMT DEF Wire!AccessConstraints
  <2>3. Contract!AccessConstraints = Contract!Leaves(
          [maxVehicleLengthMm |-> Contract!Optional(Contract!Positive(Int)),
           maxVehicleWidthMm |-> Contract!Optional(Contract!Positive(Int)),
           maxVehicleHeightMm |-> Contract!Optional(Contract!Positive(Int)),
           maxGrossWeightKg |-> Contract!Optional(Contract!Positive(Int)),
           requiresTailLift |-> Contract!Optional(Contract!Boolean),
           requiresForklift |-> Contract!Optional(Contract!Boolean),
           requiresCrane |-> Contract!Optional(Contract!Boolean), notes |-> Contract!Optional(S)])
    BY <2>0, <2>1, SMT DEF Contract!AccessConstraints
  <2> QED BY <2>2, <2>3, SameTerms, SameValues, Zenon
<1>6. Contract!OrderRef = Wire!OrderRef
  BY SameTerms, Zenon DEF Contract!OrderRef, Wire!OrderRef
<1>7. Contract!SourceNoteRef = Wire!SourceNoteRef
  BY SameTerms, SameValues, Zenon DEF Contract!SourceNoteRef, Wire!SourceNoteRef
<1> QED BY <1>1, <1>2, <1>4, <1>6, <1>7

(* They limit metadata alike,                                              *)
LEMMA SameEntries == Contract!Optional(Contract!Entries) = Wire!Optional(0..50)
<1>1. Contract!MetadataLimits.maxEntries = 50
  BY DEF Contract!MetadataLimits
<1>2. Contract!Entries = 0..50
  BY <1>1, SMT DEF Contract!Entries
<1> QED BY <1>2, SameTerms, SMT

(* and agree on the point that holds no odd value.                         *)
LEMMA SameDropOffs == Contract!DropOffPoint = Wire!DropOffPoint
<1>0. PICK m : m = 2000
  OBVIOUS
<1>1. PICK S : S = 0..m
  OBVIOUS
<1>2. Wire!DropOffPoint =
        Wire!@@(Wire!@@(Wire!@@(
          Wire!Leaves([locationId |-> Wire!Optional(0..40), name |-> Wire!Required(1..200),
                       deliveryInstructions |-> Wire!Optional(S),
                       unattendedDeliveryAllowed |-> Wire!Required(Wire!Boolean)]),
          Wire!Under("address", Wire!Required(Wire!Node), Wire!Address)),
          Wire!Under("geo", Wire!Optional(Wire!Node), Wire!GeoPoint)),
          Wire!Under("access", Wire!Optional(Wire!Node), Wire!AccessConstraints))
  BY <1>0, <1>1, SMT DEF Wire!DropOffPoint
<1>3. Contract!DropOffPoint =
        Contract!@@(Contract!@@(Contract!@@(
          Contract!Leaves([locationId |-> Contract!Optional(0..40),
                           name |-> Contract!Required(1..200),
                           deliveryInstructions |-> Contract!Optional(S),
                           unattendedDeliveryAllowed |-> Contract!Required(Contract!Boolean)]),
          Contract!Under("address", Contract!Required(Contract!Node), Contract!Address)),
          Contract!Under("geo", Contract!Optional(Contract!Node), Contract!GeoPoint)),
          Contract!Under("access", Contract!Optional(Contract!Node), Contract!AccessConstraints))
  BY <1>0, <1>1, SMT DEF Contract!DropOffPoint
<1> QED BY <1>2, <1>3, SameTerms, SameValues, SameLeaves, Zenon

(* Two constraints, or schemas, that differ only on odd values.            *)
AlikeField(c, w) ==
  /\ c.required <=> w.required
  /\ \A v : v \notin Wire!OddValues => (v \in c.allowed <=> v \in w.allowed)

Alike(C, W) ==
  DOMAIN C = DOMAIN W /\ \A q \in DOMAIN W : AlikeField(C[q], W[q])

(* Such schemas accept the same bodies without odd values;                 *)
LEMMA AlikeFits ==
  ASSUME NEW C, NEW W, Alike(C, W), NEW x, ~Odd(x)
  PROVE  Wire!Fits(C, x) <=> Wire!Fits(W, x)
<1>1. \A q \in DOMAIN x : x[q] \notin Wire!OddValues
  BY DEF Odd
<1>2. DOMAIN C = DOMAIN W
  BY DEF Alike
<1>3. \A q \in DOMAIN W : C[q].required <=> W[q].required
  BY DEF Alike, AlikeField
<1>4. \A q \in DOMAIN x \cap DOMAIN W : x[q] \in C[q].allowed <=> x[q] \in W[q].allowed
  BY <1>1 DEF Alike, AlikeField
<1>5. (\A q \in DOMAIN C :
         /\ C[q].required
         /\ Len(q) = 1 \/ SubSeq(q, 1, Len(q) - 1) \in DOMAIN x
         => q \in DOMAIN x)
      <=> (\A q \in DOMAIN W :
             /\ W[q].required
             /\ Len(q) = 1 \/ SubSeq(q, 1, Len(q) - 1) \in DOMAIN x
             => q \in DOMAIN x)
  BY <1>2, <1>3, Zenon
<1>6. (\A q \in DOMAIN x \cap DOMAIN C : x[q] \in C[q].allowed)
      <=> (\A q \in DOMAIN x \cap DOMAIN W : x[q] \in W[q].allowed)
  BY <1>2, <1>4, Zenon
<1> QED BY <1>5, <1>6, Zenon DEF Wire!Fits

(* and they stay so side by side                                           *)
LEMMA AlikeOver ==
  ASSUME NEW C, NEW W, Alike(C, W), NEW D, NEW X, Alike(D, X)
  PROVE  Alike(Wire!@@(C, D), Wire!@@(W, X))
BY DEF Alike, Wire!@@

(* (every schema is like itself)                                           *)
LEMMA AlikeItself ==
  ASSUME NEW C
  PROVE  Alike(C, C)
BY DEF Alike, AlikeField

(* and nested.                                                             *)
LEMMA AlikeUnder ==
  ASSUME NEW k, NEW node, NEW C, NEW W, Alike(C, W), Shallow(C), Shallow(W)
  PROVE  Alike(Wire!Under(k, node, C), Wire!Under(k, node, W))
<1>1. PICK U, V : U = Wire!Under(k, node, C) /\ V = Wire!Under(k, node, W)
  OBVIOUS
<1>2. U[<<k>>] = node /\ \A q \in DOMAIN C : U[<<k>> \o q] = C[q]
  BY <1>1, UnderAt
<1>3. V[<<k>>] = node /\ \A q \in DOMAIN W : V[<<k>> \o q] = W[q]
  BY <1>1, UnderAt
<1>4. /\ DOMAIN U = {<<k>>} \cup {<<k>> \o q : q \in DOMAIN C}
      /\ DOMAIN V = {<<k>>} \cup {<<k>> \o q : q \in DOMAIN W}
  BY <1>1, UnderPaths
<1>5. DOMAIN C = DOMAIN W
  BY DEF Alike
<1>6. DOMAIN U = DOMAIN V
  BY <1>4, <1>5
<1>7. ASSUME NEW q \in DOMAIN V
      PROVE  AlikeField(U[q], V[q])
  <2>1. CASE q = <<k>>
    BY <1>2, <1>3, <2>1 DEF AlikeField
  <2>2. ASSUME NEW s \in DOMAIN W, q = <<k>> \o s
        PROVE  AlikeField(U[q], V[q])
    <3>1. U[q] = C[s] /\ V[q] = W[s]
      BY <1>2, <1>3, <1>5, <2>2
    <3> QED BY <3>1 DEF Alike
  <2> QED BY <1>4, <2>1, <2>2
<1> QED BY <1>1, <1>6, <1>7 DEF Alike

(* Objects without nesting are alike if each of their fields is.           *)
LEMMA AlikeLeaves ==
  ASSUME NEW r, NEW s, DOMAIN r = DOMAIN s, \A k \in DOMAIN s : AlikeField(r[k], s[k])
  PROVE  Alike(Wire!Leaves(r), Wire!Leaves(s))
<1>1. PICK C, W : C = Wire!Leaves(r) /\ W = Wire!Leaves(s)
  OBVIOUS
<1>2. DOMAIN C = DOMAIN W
  BY <1>1, Zenon DEF Wire!Leaves
<1>3. ASSUME NEW q \in DOMAIN W PROVE AlikeField(C[q], W[q])
  <2>1. q = <<q[1]>> /\ q[1] \in DOMAIN s
    BY <1>1, <1>3, LeavesAt
  <2>2. C[<<q[1]>>] = r[q[1]] /\ W[<<q[1]>>] = s[q[1]]
    BY <1>1, <2>1, LeavesAt
  <2> QED BY <2>1, <2>2
<1> QED BY <1>1, <1>2, <1>3 DEF Alike

(* Which addresses are e-mail addresses,                                   *)
LEMMA EmailsAlike ==
  AlikeField(Wire!Optional((6..320) \cup {ZodAddress}), Wire!Optional((6..320) \cup {AjvAddress}))
BY DEF AlikeField, Wire!Optional, Wire!OddValues

(* the contact of a collection point,                                      *)
LEMMA ContactsAlike ==
  Alike(Contract!ContactRef, Wire!ContactRef) /\ Shallow(Contract!ContactRef)
<1> DEFINE named == Wire!Required(1..200)
           phoned == Wire!Required(1..40)
           zod == Wire!Optional((6..320) \cup {ZodAddress})
           ajv == Wire!Optional((6..320) \cup {AjvAddress})
<1>1. Contract!ContactRef = Wire!Leaves([name |-> named, phone |-> phoned, email |-> zod])
  BY SameTerms, Zenon DEF Contract!ContactRef
<1>2. Wire!ContactRef = Wire!Leaves([name |-> named, phone |-> phoned, email |-> ajv])
  BY Zenon DEF Wire!ContactRef
<1>3. AlikeField(zod, ajv)
  BY EmailsAlike
<1> HIDE DEF named, phoned, zod, ajv
<1>4. PICK r, s : /\ r = [name |-> named, phone |-> phoned, email |-> zod]
                  /\ s = [name |-> named, phone |-> phoned, email |-> ajv]
  OBVIOUS
<1>5. DOMAIN r = DOMAIN s /\ \A k \in DOMAIN s : AlikeField(r[k], s[k])
  BY <1>3, <1>4 DEF AlikeField
<1>6. Contract!ContactRef = Wire!Leaves(r) /\ Wire!ContactRef = Wire!Leaves(s)
  BY <1>1, <1>2, <1>4, Zenon
<1> QED BY <1>5, <1>6, AlikeLeaves, ShallowLeaves

(* and the consignee.                                                      *)
LEMMA ConsigneesAlike ==
  Alike(Contract!Consignee, Wire!Consignee) /\ Shallow(Contract!Consignee)
<1>1. PICK r : r = [name |-> Wire!Required(1..200), phone |-> Wire!Required(1..40)]
  OBVIOUS
<1>2. PICK U : U = Wire!Under("alternateContact", Wire!Optional(Wire!Node), Wire!Leaves(r))
  OBVIOUS
<1>3. Wire!Consignee = Wire!@@(Wire!ContactRef, U)
  BY <1>1, <1>2, Zenon DEF Wire!Consignee
<1>4. Contract!Consignee = Wire!@@(Contract!ContactRef, U)
  BY <1>1, <1>2, SameTerms, SameValues, Zenon DEF Contract!Consignee, Contract!ContactRef
<1>5. Alike(Wire!@@(Contract!ContactRef, U), Wire!@@(Wire!ContactRef, U))
  BY ContactsAlike, AlikeItself, AlikeOver
<1>6. Shallow(U)
  BY <1>2, ShallowUnder
<1>7. Shallow(Wire!@@(Contract!ContactRef, U))
  BY <1>6, ContactsAlike, ShallowOver
<1> QED BY <1>3, <1>4, <1>5, <1>7

(* Metadata by itself                                                      *)
LEMMA MetadataAlike ==
  Alike(Contract!Metadata, Wire!Metadata) /\ Shallow(Contract!Metadata)
<1>1. PICK m, S, plain : /\ m = Contract!MetadataLimits.maxValueLength /\ S = 0..m
                         /\ plain = Wire!Optional(S)
  OBVIOUS
<1>2. m = 2048
  BY <1>1 DEF Contract!MetadataLimits
<1>3. Contract!Metadata = Contract!Leaves([value |-> Contract!Optional(S)])
  BY <1>1, Zenon DEF Contract!Metadata
<1>4. Contract!Optional(S) = plain
  BY <1>1, SameTerms, Zenon
<1>5. Contract!Metadata = Wire!Leaves([value |-> plain])
  BY <1>3, <1>4, SameTerms, Zenon
<1>6. Wire!Metadata = Wire!Leaves([value |-> Entry])
  BY Zenon DEF Wire!Metadata, Entry
<1>7. AlikeField(plain, Entry)
  BY <1>1, <1>2 DEF AlikeField, Entry, Wire!Optional, Wire!OddValues
<1>8. PICK r, s : r = [value |-> plain] /\ s = [value |-> Entry]
  OBVIOUS
<1>9. DOMAIN r = DOMAIN s /\ \A k \in DOMAIN s : AlikeField(r[k], s[k])
  BY <1>7, <1>8
<1>10. Contract!Metadata = Wire!Leaves(r) /\ Wire!Metadata = Wire!Leaves(s)
  BY <1>5, <1>6, <1>8, Zenon
<1> QED BY <1>9, <1>10, AlikeLeaves, ShallowLeaves

(* and where it is nested.                                                 *)
LEMMA MetadataAlikeUnder ==
  ASSUME NEW entries
  PROVE  /\ Alike(Wire!Under("metadata", entries, Contract!Metadata),
                  Wire!Under("metadata", entries, Wire!Metadata))
         /\ \A q \in DOMAIN Wire!Under("metadata", entries, Contract!Metadata) : q[1] = "metadata"
BY MetadataAlike, ShallowSchemas, AlikeUnder, UnderStarts

(* The drafts of a line                                                    *)
LEMMA LinesAlike == Alike(Contract!PromisedLineDraft, Wire!PromisedLineDraft)
<1>0. PICK m : m = 2000
  OBVIOUS
<1>1. PICK S : S = 1..m
  OBVIOUS
<1>2. Wire!PromisedLineDraft =
        Wire!@@(Wire!Leaves(
          [lineId |-> Wire!Optional(Wire!IdUpTo(40)), sku |-> Wire!Required(1..200),
           description |-> Wire!Required(S), quantity |-> Wire!Required(Wire!AtLeast(1)),
           uom |-> Wire!Required(Wire!Enum(Wire!UnitOfMeasure)),
           sourceLineRef |-> Wire!Optional(0..200)]),
          Wire!Under("metadata", Wire!Optional(0..50), Wire!Metadata))
  BY <1>0, <1>1, SMT DEF Wire!PromisedLineDraft
<1>3. Contract!PromisedLineDraft =
        Contract!@@(Contract!Leaves(
          [lineId |-> Contract!Optional(Contract!IdUpTo(40)), sku |-> Contract!Required(1..200),
           description |-> Contract!Required(S),
           quantity |-> Contract!Required(Contract!Positive(Int)),
           uom |-> Contract!Required(Contract!Enum(Contract!UnitOfMeasure)),
           sourceLineRef |-> Contract!Optional(0..200)]),
          Contract!Under("metadata", Contract!Optional(Contract!Entries), Contract!Metadata))
  BY <1>0, <1>1, SMT DEF Contract!PromisedLineDraft
<1>4. PICK L, E : /\ L = Wire!Leaves(
                       [lineId |-> Wire!Optional(Wire!IdUpTo(40)), sku |-> Wire!Required(1..200),
                        description |-> Wire!Required(S),
                        quantity |-> Wire!Required(Wire!AtLeast(1)),
                        uom |-> Wire!Required(Wire!Enum(Wire!UnitOfMeasure)),
                        sourceLineRef |-> Wire!Optional(0..200)])
                  /\ E = Wire!Optional(0..50)
  OBVIOUS
<1>5. Contract!PromisedLineDraft = Wire!@@(L, Wire!Under("metadata", E, Contract!Metadata))
  BY <1>3, <1>4, SameEntries, SameTerms, SameValues, Zenon
<1>6. Wire!PromisedLineDraft = Wire!@@(L, Wire!Under("metadata", E, Wire!Metadata))
  BY <1>2, <1>4, Zenon
<1> QED BY <1>5, <1>6, MetadataAlikeUnder, AlikeItself, AlikeOver

(* and of a parcel.                                                        *)
LEMMA ParcelsAlike == Alike(Contract!ParcelDraft, Wire!ParcelDraft)
<1>1. PICK L, E : /\ L = Wire!Leaves(
                       [parcelId |-> Wire!Optional(Wire!IdUpTo(40)),
                        type |-> Wire!Required(Wire!Enum(Wire!ParcelType)),
                        label |-> Wire!Optional(0..200),
                        weightGrams |-> Wire!Required(Wire!AtLeast(1)),
                        lengthMm |-> Wire!Optional(Wire!AtLeast(1)),
                        widthMm |-> Wire!Optional(Wire!AtLeast(1)),
                        heightMm |-> Wire!Optional(Wire!AtLeast(1)),
                        volumeCm3 |-> Wire!Optional(Wire!AtLeast(1)),
                        lineRefs |-> Wire!Optional(SUBSET Wire!IdUpTo(40)),
                        status |-> Wire!Optional(Wire!Enum(Wire!ParcelStatus))])
                  /\ E = Wire!Optional(0..50)
  OBVIOUS
<1>2. Contract!ParcelDraft = Wire!@@(L, Wire!Under("metadata", E, Contract!Metadata))
  BY <1>1, SameEntries, SameTerms, SameValues, Zenon DEF Contract!ParcelDraft
<1>3. Wire!ParcelDraft = Wire!@@(L, Wire!Under("metadata", E, Wire!Metadata))
  BY <1>1, Zenon DEF Wire!ParcelDraft
<1> QED BY <1>2, <1>3, MetadataAlikeUnder, AlikeItself, AlikeOver

(* Schemas of different fields can be laid over one another in any order.  *)
LEMMA OverSwap ==
  ASSUME NEW X, NEW G, NEW S, DOMAIN G \cap DOMAIN S = {}
  PROVE  Wire!@@(Wire!@@(X, G), S) = Wire!@@(Wire!@@(X, S), G)
BY DEF Wire!@@

(* One of six can be the first or the last.                                *)
LEMMA OverMoved ==
  ASSUME NEW X, NEW A, NEW B, NEW C, NEW D, NEW E, NEW S,
         DOMAIN S \cap (DOMAIN A \cup DOMAIN B \cup DOMAIN C \cup DOMAIN D \cup DOMAIN E) = {}
  PROVE  Wire!@@(Wire!@@(Wire!@@(Wire!@@(Wire!@@(Wire!@@(X, S), A), B), C), D), E)
         = Wire!@@(Wire!@@(Wire!@@(Wire!@@(Wire!@@(Wire!@@(X, A), B), C), D), E), S)
<1>1. PICK XA : XA = Wire!@@(X, A)
  OBVIOUS
<1>2. PICK XB : XB = Wire!@@(XA, B)
  OBVIOUS
<1>3. PICK XC : XC = Wire!@@(XB, C)
  OBVIOUS
<1>4. PICK XD : XD = Wire!@@(XC, D)
  OBVIOUS
<1>5. Wire!@@(Wire!@@(X, S), A) = Wire!@@(XA, S)
  BY <1>1, OverSwap
<1>6. Wire!@@(Wire!@@(XA, S), B) = Wire!@@(XB, S)
  BY <1>2, OverSwap
<1>7. Wire!@@(Wire!@@(XB, S), C) = Wire!@@(XC, S)
  BY <1>3, OverSwap
<1>8. Wire!@@(Wire!@@(XC, S), D) = Wire!@@(XD, S)
  BY <1>4, OverSwap
<1>9. Wire!@@(Wire!@@(XD, S), E) = Wire!@@(Wire!@@(XD, E), S)
  BY OverSwap
<1> QED BY <1>1, <1>2, <1>3, <1>4, <1>5, <1>6, <1>7, <1>8, <1>9, Zenon

(* The windows, whose odd dates are not the same.                          *)
LEMMA WindowsAlike ==
  Alike(Contract!TimeWindow, Wire!TimeWindow) /\ Shallow(Contract!TimeWindow)
<1> DEFINE coerced == Wire!Required(Int \cup {Coerced})
<1>1. Contract!TimeWindow = Wire!Leaves([start |-> coerced, end |-> coerced])
  BY SameTerms, Zenon DEF Contract!TimeWindow, Contract!Instant
<1>2. Wire!TimeWindow = Wire!Leaves([start |-> Dated, end |-> Dated])
  BY Zenon DEF Wire!TimeWindow, Wire!Instant, Dated
<1>3. AlikeField(coerced, Dated)
  BY DEF AlikeField, Dated, Wire!Required, Wire!OddValues
<1> HIDE DEF coerced
<1>4. PICK r, s : r = [start |-> coerced, end |-> coerced] /\ s = [start |-> Dated, end |-> Dated]
  OBVIOUS
<1>5. DOMAIN r = DOMAIN s /\ \A k \in DOMAIN s : AlikeField(r[k], s[k])
  BY <1>3, <1>4
<1>6. Contract!TimeWindow = Wire!Leaves(r) /\ Wire!TimeWindow = Wire!Leaves(s)
  BY <1>1, <1>2, <1>4, Zenon
<1> QED BY <1>5, <1>6, AlikeLeaves, ShallowLeaves

(* A collection point has a contact and a window,                          *)
LEMMA CollectionsAlike ==
  Alike(Contract!CollectionPoint, Wire!CollectionPoint) /\ Shallow(Contract!CollectionPoint)
<1>0. PICK m : m = 2000
  OBVIOUS
<1>1. PICK S : S = 0..m
  OBVIOUS
<1>2. PICK L : L = Wire!Leaves([locationId |-> Wire!Optional(0..40), name |-> Wire!Required(1..200),
                                dockRef |-> Wire!Optional(0..100), accessNotes |-> Wire!Optional(S)])
  OBVIOUS
<1>3. Contract!Leaves([locationId |-> Contract!Optional(0..40), name |-> Contract!Required(1..200),
                       dockRef |-> Contract!Optional(0..100),
                       accessNotes |-> Contract!Optional(S)]) = L
  BY <1>2, SameTerms, Zenon
<1>4. Wire!CollectionPoint = Wire!@@(Wire!@@(Wire!@@(Wire!@@(
        Wire!Leaves([locationId |-> Wire!Optional(0..40), name |-> Wire!Required(1..200),
                     dockRef |-> Wire!Optional(0..100), accessNotes |-> Wire!Optional(S)]),
        Wire!Under("address", Wire!Required(Wire!Node), Wire!Address)),
        Wire!Under("geo", Wire!Optional(Wire!Node), Wire!GeoPoint)),
        Wire!Under("contact", Wire!Optional(Wire!Node), Wire!ContactRef)),
        Wire!Under("collectionWindow", Wire!Optional(Wire!Node), Wire!TimeWindow))
  BY <1>0, <1>1, SMT DEF Wire!CollectionPoint
<1>5. Contract!CollectionPoint = Contract!@@(Contract!@@(Contract!@@(Contract!@@(
        Contract!Leaves([locationId |-> Contract!Optional(0..40),
                         name |-> Contract!Required(1..200),
                         dockRef |-> Contract!Optional(0..100),
                         accessNotes |-> Contract!Optional(S)]),
        Contract!Under("address", Contract!Required(Contract!Node), Contract!Address)),
        Contract!Under("geo", Contract!Optional(Contract!Node), Contract!GeoPoint)),
        Contract!Under("contact", Contract!Optional(Contract!Node), Contract!ContactRef)),
        Contract!Under("collectionWindow", Contract!Optional(Contract!Node), Contract!TimeWindow))
  BY <1>0, <1>1, SMT DEF Contract!CollectionPoint
<1>6. PICK A, G, N : /\ A = Wire!Under("address", Wire!Required(Wire!Node), Wire!Address)
                     /\ G = Wire!Under("geo", Wire!Optional(Wire!Node), Wire!GeoPoint)
                     /\ N = Wire!Optional(Wire!Node)
  OBVIOUS
<1>7. PICK T, CT, V, CV : /\ T = Wire!Under("contact", N, Wire!ContactRef)
                          /\ CT = Wire!Under("contact", N, Contract!ContactRef)
                          /\ V = Wire!Under("collectionWindow", N, Wire!TimeWindow)
                          /\ CV = Wire!Under("collectionWindow", N, Contract!TimeWindow)
  OBVIOUS
<1>8. Wire!CollectionPoint = Wire!@@(Wire!@@(Wire!@@(Wire!@@(L, A), G), T), V)
  BY <1>2, <1>4, <1>6, <1>7, Zenon
<1>9. Contract!CollectionPoint = Wire!@@(Wire!@@(Wire!@@(Wire!@@(L, A), G), CT), CV)
  BY <1>3, <1>5, <1>6, <1>7, SameTerms, SameValues, SameLeaves, Zenon
<1>10. Alike(CT, T) /\ Alike(CV, V)
  BY <1>7, ContactsAlike, LeafSchemas, WindowsAlike, ShallowSchemas, AlikeUnder
<1>11. PICK X : X = Wire!@@(Wire!@@(L, A), G)
  OBVIOUS
<1>12. PICK Y, CY : Y = Wire!@@(X, T) /\ CY = Wire!@@(X, CT)
  OBVIOUS
<1>13. Alike(CY, Y)
  BY <1>10, <1>12, AlikeItself, AlikeOver
<1>14. Alike(Wire!@@(CY, CV), Wire!@@(Y, V))
  BY <1>10, <1>13, AlikeOver
<1>15. Shallow(L) /\ Shallow(A) /\ Shallow(G)
  BY <1>2, <1>6, ShallowLeaves, ShallowUnder DEF Wire!Address, Wire!GeoPoint
<1>16. Shallow(CT)
  <2>1. PICK r : Contract!ContactRef = Wire!Leaves(r)
    BY SameTerms, Zenon DEF Contract!ContactRef
  <2> QED BY <1>7, <2>1, ShallowUnder
<1>17. Shallow(CV)
  <2>1. PICK r : Contract!TimeWindow = Wire!Leaves(r)
    BY SameTerms, Zenon DEF Contract!TimeWindow
  <2> QED BY <1>7, <2>1, ShallowUnder
<1>18. Shallow(Wire!@@(CY, CV))
  BY <1>11, <1>12, <1>15, <1>16, <1>17, ShallowOver
<1> QED BY <1>8, <1>9, <1>11, <1>12, <1>14, <1>18, Zenon

(* and so has the body, whose fields the contract lists in another order.  *)
LEMMA BodiesAlike ==
  Alike(Contract!CreateLastMileFulfilmentCommand, Wire!CreateLastMileFulfilmentBody)
<1>1. PICK node, onode : node = Wire!Required(Wire!Node) /\ onode = Wire!Optional(Wire!Node)
  OBVIOUS
<1>2. PICK L : L = Wire!Leaves(
        [temperatureZone |-> Wire!Optional(Wire!Enum(Wire!TemperatureZone)),
         handling |-> Wire!Optional(Wire!Enum(Wire!HandlingFlag))])
  OBVIOUS
<1>3. PICK SN, OR : /\ SN = Wire!Under("sourceNote", node, Wire!SourceNoteRef)
                    /\ OR = Wire!Under("orderRef", onode, Wire!OrderRef)
  OBVIOUS
<1>4. PICK DR, CN, ZN : /\ DR = Wire!Under("dropOff", node, Wire!DropOffPoint)
                        /\ CN = Wire!Under("consignee", node, Wire!Consignee)
                        /\ ZN = Wire!Under("consignee", node, Contract!Consignee)
  OBVIOUS
<1>5. PICK CO, CC : /\ CO = Wire!Under("collection", node, Wire!CollectionPoint)
                    /\ CC = Wire!Under("collection", node, Contract!CollectionPoint)
  OBVIOUS
<1>6. PICK PW, CW : /\ PW = Wire!Under("promisedWindow", node, Wire!TimeWindow)
                    /\ CW = Wire!Under("promisedWindow", node, Contract!TimeWindow)
  OBVIOUS
<1>7. PICK MD, ZD : /\ MD = Wire!Under("metadata", Wire!Optional(0..50), Wire!Metadata)
                    /\ ZD = Wire!Under("metadata", Wire!Optional(0..50), Contract!Metadata)
  OBVIOUS
<1>8. Wire!CreateLastMileFulfilmentBody =
        Wire!@@(Wire!@@(Wire!@@(Wire!@@(Wire!@@(Wire!@@(Wire!@@(L, CO), DR), CN), PW), MD), SN), OR)
  BY <1>1, <1>2, <1>3, <1>4, <1>5, <1>6, <1>7, Zenon
  DEF Wire!CreateLastMileFulfilmentBody, Wire!Snapshot
<1>9. Contract!CreateLastMileFulfilmentCommand =
        Wire!@@(Wire!@@(Wire!@@(Wire!@@(Wire!@@(Wire!@@(Wire!@@(L, SN), OR), CC), DR), ZN), CW), ZD)
  <2>1. Contract!Leaves(
          [temperatureZone |-> Contract!Optional(Contract!Enum(Contract!TemperatureZone)),
           handling |-> Contract!Optional(Contract!Enum(Contract!HandlingFlag))]) = L
    BY <1>2, SameTerms, SameValues, Zenon
  <2>2. /\ Contract!Under("sourceNote", Contract!Required(Contract!Node), Contract!SourceNoteRef) = SN
        /\ Contract!Under("orderRef", Contract!Optional(Contract!Node), Contract!OrderRef) = OR
    BY <1>1, <1>3, SameTerms, SameValues, SameLeaves, Zenon
  <2>3. /\ Contract!Under("dropOff", Contract!Required(Contract!Node), Contract!DropOffPoint) = DR
        /\ Contract!Under("consignee", Contract!Required(Contract!Node), Contract!Consignee) = ZN
    BY <1>1, <1>4, SameTerms, SameValues, SameDropOffs, Zenon
  <2>4. /\ Contract!Under("collection", Contract!Required(Contract!Node),
                          Contract!CollectionPoint) = CC
        /\ Contract!Under("promisedWindow", Contract!Required(Contract!Node),
                          Contract!TimeWindow) = CW
    BY <1>1, <1>5, <1>6, SameTerms, SameValues, Zenon
  <2>5. Contract!Under("metadata", Contract!Optional(Contract!Entries), Contract!Metadata) = ZD
    BY <1>7, SameTerms, SameEntries, Zenon
  <2> QED BY <2>1, <2>2, <2>3, <2>4, <2>5, SameTerms, Zenon
          DEF Contract!CreateLastMileFulfilmentCommand
<1>10. /\ \A q \in DOMAIN L : q[1] \in {"temperatureZone", "handling"}
       /\ \A q \in DOMAIN SN : q[1] = "sourceNote"
       /\ \A q \in DOMAIN OR : q[1] = "orderRef"
  <2>1. \A q \in DOMAIN L : q[1] \in {"temperatureZone", "handling"}
    BY <1>2, LeavesAt
  <2>2. \A q \in DOMAIN SN : q[1] = "sourceNote"
    BY <1>3, UnderStarts, ShallowSchemas
  <2>3. \A q \in DOMAIN OR : q[1] = "orderRef"
    BY <1>3, UnderStarts, ShallowSchemas
  <2> QED BY <2>1, <2>2, <2>3
<1>11. /\ \A q \in DOMAIN CC : q[1] = "collection"
       /\ \A q \in DOMAIN DR : q[1] = "dropOff"
       /\ \A q \in DOMAIN ZN : q[1] = "consignee"
       /\ \A q \in DOMAIN CW : q[1] = "promisedWindow"
       /\ \A q \in DOMAIN ZD : q[1] = "metadata"
  <2>1. \A q \in DOMAIN CC : q[1] = "collection"
    BY <1>5, UnderStarts, CollectionsAlike
  <2>2. \A q \in DOMAIN DR : q[1] = "dropOff"
    BY <1>4, UnderStarts, ShallowSchemas
  <2>3. \A q \in DOMAIN ZN : q[1] = "consignee"
    BY <1>4, UnderStarts, ConsigneesAlike
  <2>4. \A q \in DOMAIN CW : q[1] = "promisedWindow"
    BY <1>6, UnderStarts, WindowsAlike
  <2>5. \A q \in DOMAIN ZD : q[1] = "metadata"
    BY <1>7, MetadataAlikeUnder
  <2> QED BY <2>1, <2>2, <2>3, <2>4, <2>5
<1>12. PICK LS : LS = Wire!@@(L, SN)
  OBVIOUS
<1>13. PICK Snapped : Snapped = Wire!@@(Wire!@@(Wire!@@(Wire!@@(Wire!@@(L, CC), DR), ZN), CW), ZD)
  OBVIOUS
<1>14. Wire!@@(Wire!@@(Wire!@@(Wire!@@(Wire!@@(Wire!@@(LS, OR), CC), DR), ZN), CW), ZD)
       = Wire!@@(Wire!@@(Wire!@@(Wire!@@(Wire!@@(Wire!@@(LS, CC), DR), ZN), CW), ZD), OR)
  <2>1. DOMAIN OR \cap (DOMAIN CC \cup DOMAIN DR \cup DOMAIN ZN \cup DOMAIN CW \cup DOMAIN ZD) = {}
    BY <1>10, <1>11
  <2> QED BY <2>1, OverMoved
<1>15. Wire!@@(Wire!@@(Wire!@@(Wire!@@(Wire!@@(Wire!@@(L, SN), CC), DR), ZN), CW), ZD)
       = Wire!@@(Wire!@@(Wire!@@(Wire!@@(Wire!@@(Wire!@@(L, CC), DR), ZN), CW), ZD), SN)
  <2>1. DOMAIN SN \cap (DOMAIN CC \cup DOMAIN DR \cup DOMAIN ZN \cup DOMAIN CW \cup DOMAIN ZD) = {}
    BY <1>10, <1>11
  <2> QED BY <2>1, OverMoved
<1>16. Contract!CreateLastMileFulfilmentCommand = Wire!@@(Wire!@@(Snapped, SN), OR)
  BY <1>9, <1>12, <1>13, <1>14, <1>15, Zenon
<1>17. Alike(CC, CO)
  BY <1>5, CollectionsAlike, ShallowSchemas, AlikeUnder
<1>18. Alike(CW, PW) /\ Alike(ZN, CN) /\ Alike(ZD, MD)
  BY <1>4, <1>6, <1>7, WindowsAlike, ConsigneesAlike, MetadataAlikeUnder, ShallowSchemas, AlikeUnder
<1>19. PICK Shot : Shot = Wire!@@(Wire!@@(Wire!@@(Wire!@@(Wire!@@(L, CO), DR), CN), PW), MD)
  OBVIOUS
<1>20. Alike(Snapped, Shot)
  <2>1. Alike(Wire!@@(L, CC), Wire!@@(L, CO))
    BY <1>17, AlikeItself, AlikeOver
  <2>2. PICK C1, W1 : C1 = Wire!@@(L, CC) /\ W1 = Wire!@@(L, CO)
    OBVIOUS
  <2>3. Alike(Wire!@@(C1, DR), Wire!@@(W1, DR))
    BY <2>1, <2>2, AlikeItself, AlikeOver
  <2>4. PICK C2, W2 : C2 = Wire!@@(C1, DR) /\ W2 = Wire!@@(W1, DR)
    OBVIOUS
  <2>5. Alike(Wire!@@(C2, ZN), Wire!@@(W2, CN))
    BY <1>18, <2>3, <2>4, AlikeOver
  <2>6. PICK C3, W3 : C3 = Wire!@@(C2, ZN) /\ W3 = Wire!@@(W2, CN)
    OBVIOUS
  <2>7. Alike(Wire!@@(C3, CW), Wire!@@(W3, PW))
    BY <1>18, <2>5, <2>6, AlikeOver
  <2>8. PICK C4, W4 : C4 = Wire!@@(C3, CW) /\ W4 = Wire!@@(W3, PW)
    OBVIOUS
  <2>9. Alike(Wire!@@(C4, ZD), Wire!@@(W4, MD))
    BY <1>18, <2>7, <2>8, AlikeOver
  <2> QED BY <1>13, <1>19, <2>2, <2>4, <2>6, <2>8, <2>9, Zenon
<1>21. Alike(Wire!@@(Snapped, SN), Wire!@@(Shot, SN))
  BY <1>20, AlikeItself, AlikeOver
<1>22. PICK C5, W5 : C5 = Wire!@@(Snapped, SN) /\ W5 = Wire!@@(Shot, SN)
  OBVIOUS
<1>23. Alike(Wire!@@(C5, OR), Wire!@@(W5, OR))
  BY <1>21, <1>22, AlikeItself, AlikeOver
<1> QED BY <1>8, <1>16, <1>19, <1>22, <1>23, Zenon

(* Filling in optional fields that oblige to nothing changes no verdict,   *)
LEMMA FilledFits ==
  ASSUME NEW W, NEW D, NEW x, DOMAIN x \subseteq DOMAIN W,
         \A q \in DOMAIN D : q \in DOMAIN W /\ ~W[q].required /\ D[q] \in W[q].allowed,
         \A q \in DOMAIN W : W[q].required => Len(q) = 1 \/ Parent(q) \notin DOMAIN D
  PROVE  Wire!Fits(W, Wire!Validated(W, D, x)) <=> Wire!Fits(W, x)
<1>1. PICK b : b = Wire!Validated(W, D, x)
  OBVIOUS
<1>2. /\ DOMAIN b = DOMAIN x \cup DOMAIN D
      /\ \A q \in DOMAIN b : b[q] = IF q \in DOMAIN x THEN x[q] ELSE D[q]
  BY <1>1 DEF Wire!Validated, Wire!Known, Wire!@@
<1>3. (\A q \in DOMAIN W : W[q].required /\ (Len(q) = 1 \/ Parent(q) \in DOMAIN b) => q \in DOMAIN b)
      <=> (\A q \in DOMAIN W : W[q].required /\ (Len(q) = 1 \/ Parent(q) \in DOMAIN x)
                               => q \in DOMAIN x)
  <2>1. ASSUME NEW q \in DOMAIN W, W[q].required
        PROVE  /\ q \in DOMAIN b <=> q \in DOMAIN x
               /\ (Len(q) = 1 \/ Parent(q) \in DOMAIN b) <=> (Len(q) = 1 \/ Parent(q) \in DOMAIN x)
    BY <1>2, <2>1
  <2> QED BY <2>1
<1>4. (\A q \in DOMAIN b \cap DOMAIN W : b[q] \in W[q].allowed)
      <=> (\A q \in DOMAIN x \cap DOMAIN W : x[q] \in W[q].allowed)
  BY <1>2
<1>5. Wire!Fits(W, b) <=> Wire!Fits(W, x)
  BY <1>3, <1>4 DEF Wire!Fits, Parent
<1> QED BY <1>1, <1>5

(* as the metadata of a line or parcel                                     *)
LEMMA DraftFits ==
  ASSUME NEW r, "metadata" \notin DOMAIN r,
         NEW W, W = Wire!@@(Wire!Leaves(r),
                            Wire!Under("metadata", Wire!Optional(0..50), Wire!Metadata)),
         NEW x, DOMAIN x \subseteq DOMAIN W
  PROVE  Wire!Fits(W, Wire!Validated(W, Wire!CargoDefaults, x)) <=> Wire!Fits(W, x)
<1>1. PICK L, U, entries : /\ L = Wire!Leaves(r) /\ entries = Wire!Optional(0..50)
                           /\ U = Wire!Under("metadata", entries, Wire!Metadata)
  OBVIOUS
<1>2. \A q \in DOMAIN L : q = <<q[1]>> /\ q[1] \in DOMAIN r
  BY <1>1, LeavesAt
<1>3. /\ DOMAIN U = {<<"metadata">>, <<"metadata", "value">>}
      /\ U[<<"metadata">>] = entries /\ U[<<"metadata", "value">>] = Entry
  BY <1>1, MetadataAt
<1>4. W = Wire!@@(L, U)
  BY <1>1, Zenon
<1>5. /\ DOMAIN W = DOMAIN L \cup DOMAIN U
      /\ \A q \in DOMAIN W : W[q] = IF q \in DOMAIN L THEN L[q] ELSE U[q]
  BY <1>4 DEF Wire!@@
<1>6. /\ ~entries.required /\ ~Entry.required /\ 0 \in entries.allowed
  BY <1>1 DEF Entry, Wire!Optional
<1>7. /\ DOMAIN Wire!CargoDefaults = {<<"metadata">>} /\ Wire!CargoDefaults[<<"metadata">>] = 0
  BY DEF Wire!CargoDefaults, Wire!:>
<1>8. <<"metadata">> \notin DOMAIN L
  <2>1. <<"metadata">>[1] = "metadata"
    OBVIOUS
  <2> QED BY <1>2, <2>1
<1>9. W[<<"metadata">>] = entries
  BY <1>3, <1>5, <1>8
<1>10. ASSUME NEW q \in DOMAIN W, W[q].required PROVE Len(q) = 1
  <2>1. CASE q \in DOMAIN L
    <3>1. PICK k : q = <<k>>
      BY <1>2, <2>1
    <3> QED BY <3>1
  <2>2. CASE q \notin DOMAIN L
    BY <1>3, <1>5, <1>6, <1>10, <2>2
  <2> QED BY <2>1, <2>2
<1>11. PICK D : D = Wire!CargoDefaults
  OBVIOUS
<1>12. \A q \in DOMAIN D : q \in DOMAIN W /\ ~W[q].required /\ D[q] \in W[q].allowed
  BY <1>3, <1>5, <1>6, <1>7, <1>9, <1>11
<1>13. \A q \in DOMAIN W : W[q].required => Len(q) = 1 \/ Parent(q) \notin DOMAIN D
  BY <1>10
<1>14. Wire!Fits(W, Wire!Validated(W, D, x)) <=> Wire!Fits(W, x)
  BY <1>12, <1>13, FilledFits
<1> QED BY <1>11, <1>14

(* The paths of the body below its defaults.                               *)
LEMMA DefaultsAt ==
  ASSUME NEW S, S = Wire!CreateLastMileFulfilmentBody
  PROVE  /\ <<"metadata">> \in DOMAIN S /\ S[<<"metadata">>] = Wire!Optional(0..50)
         /\ \A q \in DOMAIN S : S[q].required =>
              Len(q) = 1 \/ Parent(q) \notin {<<"metadata">>, NotePath("revision")}
<1>1. PICK node, entries : node = Wire!Required(Wire!Node) /\ entries = Wire!Optional(0..50)
  OBVIOUS
<1>2. PICK L : L = Wire!Leaves(
        [temperatureZone |-> Wire!Optional(Wire!Enum(Wire!TemperatureZone)),
         handling |-> Wire!Optional(Wire!Enum(Wire!HandlingFlag))])
  OBVIOUS
<1>3. PICK CO, DR, CN, PW, MD :
        /\ CO = Wire!Under("collection", node, Wire!CollectionPoint)
        /\ DR = Wire!Under("dropOff", node, Wire!DropOffPoint)
        /\ CN = Wire!Under("consignee", node, Wire!Consignee)
        /\ PW = Wire!Under("promisedWindow", node, Wire!TimeWindow)
        /\ MD = Wire!Under("metadata", entries, Wire!Metadata)
  OBVIOUS
<1>4. PICK SN, OR, T : /\ SN = Wire!Under("sourceNote", node, Wire!SourceNoteRef)
                       /\ OR = Wire!Under("orderRef", Wire!Optional(Wire!Node), Wire!OrderRef)
                       /\ T = Wire!Snapshot
  OBVIOUS
<1>5. PICK T0 : T0 = Wire!@@(Wire!@@(Wire!@@(Wire!@@(L, CO), DR), CN), PW)
  OBVIOUS
<1>6. T = Wire!@@(T0, MD)
  BY <1>1, <1>2, <1>3, <1>4, <1>5, Zenon DEF Wire!Snapshot
<1>7. S = Wire!@@(Wire!@@(T, SN), OR)
  BY <1>1, <1>4, Zenon DEF Wire!CreateLastMileFulfilmentBody
<1>8. \A q \in DOMAIN L : q[1] \in {"temperatureZone", "handling"}
  BY <1>2, LeavesAt
<1>9. \A q \in DOMAIN CO : q[1] = "collection"
  BY <1>3, UnderStarts, ShallowSchemas
<1>10. \A q \in DOMAIN DR : q[1] = "dropOff"
  BY <1>3, UnderStarts, ShallowSchemas
<1>11. \A q \in DOMAIN CN : q[1] = "consignee"
  BY <1>3, UnderStarts, ShallowSchemas
<1>12. \A q \in DOMAIN PW : q[1] = "promisedWindow"
  BY <1>3, UnderStarts, ShallowSchemas
<1>13. \A q \in DOMAIN SN : q[1] = "sourceNote" /\ Regular(q)
  BY <1>4, UnderStarts, UnderRegular, ShallowSchemas
<1>14. \A q \in DOMAIN OR : q[1] = "orderRef" /\ Regular(q)
  BY <1>4, UnderStarts, UnderRegular, ShallowSchemas
<1>15. \A q \in DOMAIN T : Regular(q) /\ q[1] \in Cargo \cup {"collection", "promisedWindow"}
  BY <1>4, SnapshotAt
<1>16. DOMAIN T0 = DOMAIN L \cup DOMAIN CO \cup DOMAIN DR \cup DOMAIN CN \cup DOMAIN PW
  BY <1>5 DEF Wire!@@
<1>17. \A q \in DOMAIN T0 : q[1] # "metadata"
  BY <1>8, <1>9, <1>10, <1>11, <1>12, <1>16
<1>18. /\ DOMAIN MD = {<<"metadata">>, <<"metadata", "value">>}
       /\ MD[<<"metadata">>] = entries /\ MD[<<"metadata", "value">>] = Entry
  BY <1>3, MetadataAt
<1>19. /\ DOMAIN S = DOMAIN T \cup DOMAIN SN \cup DOMAIN OR
       /\ \A q \in DOMAIN T : S[q] = T[q]
  BY <1>7 DEF Wire!@@
<1>20. /\ DOMAIN T = DOMAIN T0 \cup DOMAIN MD
       /\ \A q \in DOMAIN MD : q \notin DOMAIN T0 => T[q] = MD[q]
  BY <1>6 DEF Wire!@@
<1>21. <<"metadata">>[1] = "metadata" /\ <<"metadata", "value">>[1] = "metadata"
  OBVIOUS
<1>22. <<"metadata">> \in DOMAIN S /\ S[<<"metadata">>] = entries
  BY <1>17, <1>18, <1>19, <1>20, <1>21
<1>23. ASSUME NEW q \in DOMAIN S, q[1] = "metadata" PROVE ~S[q].required
  <2>1. q \in DOMAIN MD
    BY <1>13, <1>14, <1>17, <1>19, <1>20, <1>23
  <2>2. S[q] = MD[q]
    BY <1>17, <1>19, <1>20, <1>23, <2>1
  <2>3. ~entries.required /\ ~Entry.required
    BY <1>1 DEF Entry, Wire!Optional
  <2> QED BY <1>18, <2>1, <2>2, <2>3
<1>24. ASSUME NEW q \in DOMAIN S, q[1] = "sourceNote", Len(q) # 1 PROVE Len(q) = 2
  <2>1. Cargo = {"dropOff", "consignee", "temperatureZone", "handling", "metadata"}
    BY DEF Cargo
  <2>2. q \in DOMAIN SN
    BY <1>14, <1>15, <1>19, <1>24, <2>1
  <2>3. DOMAIN SN = {<<"sourceNote">>} \cup {<<"sourceNote">> \o s : s \in DOMAIN Wire!SourceNoteRef}
    BY <1>4, UnderPaths
  <2>4. Len(<<"sourceNote">>) = 1
    OBVIOUS
  <2>5. PICK s \in DOMAIN Wire!SourceNoteRef : q = <<"sourceNote">> \o s
    BY <1>24, <2>2, <2>3, <2>4
  <2>6. PICK k : s = <<k>>
    BY LeavesAt DEF Wire!SourceNoteRef
  <2>7. q = <<"sourceNote", k>>
    BY <2>5, <2>6, Pair, Zenon
  <2>8. Len(<<"sourceNote", k>>) = 2
    OBVIOUS
  <2> QED BY <2>7, <2>8, Zenon
<1>25. \A q \in DOMAIN S : Regular(q)
  BY <1>13, <1>14, <1>15, <1>19
<1>26. ASSUME NEW q \in DOMAIN S, S[q].required, Len(q) # 1
       PROVE  Parent(q) # <<"metadata">> /\ Parent(q) # NotePath("revision")
  <2>1. Parent(q)[1] = q[1] /\ (Len(q) = 2 => Parent(q) = <<q[1]>>)
    BY <1>25, <1>26 DEF Regular
  <2>2. Parent(q) # <<"metadata">>
    BY <1>21, <1>23, <1>26, <2>1
  <2>3. NotePath("revision")[1] = "sourceNote" /\ Len(NotePath("revision")) = 2 /\ Len(<<q[1]>>) = 1
    BY DEF NotePath
  <2>4. Parent(q) # NotePath("revision")
    <3>1. SUFFICES ASSUME Parent(q) = NotePath("revision") PROVE FALSE
      OBVIOUS
    <3>2. q[1] = "sourceNote"
      BY <2>1, <2>3, <3>1
    <3>3. Parent(q) = <<q[1]>>
      BY <1>24, <1>26, <2>1, <3>2
    <3> QED BY <2>3, <3>1, <3>3
  <2> QED BY <2>2, <2>4
<1> QED BY <1>1, <1>22, <1>26

(* The contract and the wire say the same of a body                        *)
LEMMA BodyVerdict ==
  ASSUME NEW p, ~Odd(p.fields),
         DOMAIN p.fields \subseteq DOMAIN Contract!CreateLastMileFulfilmentCommand
  PROVE  Wire!Fits(Wire!CreateLastMileFulfilmentBody, BodyOf(p))
         <=> Wire!Fits(Contract!CreateLastMileFulfilmentCommand, p.fields)
<1>1. PICK C, W, D, x : /\ C = Contract!CreateLastMileFulfilmentCommand
                        /\ W = Wire!CreateLastMileFulfilmentBody
                        /\ D = Wire!Defaults /\ x = p.fields
  OBVIOUS
<1>2. Alike(C, W)
  BY <1>1, BodiesAlike
<1>3. Wire!Fits(C, x) <=> Wire!Fits(W, x)
  BY <1>1, <1>2, AlikeFits
<1>4. DOMAIN x \subseteq DOMAIN W
  BY <1>1, <1>2 DEF Alike
<1>5. PICK M, R : M = <<"metadata">> /\ R = NotePath("revision")
  OBVIOUS
<1>6. DOMAIN D = {M, R} /\ D[M] = 0 /\ D[R] = 1
  <2>1. M # R /\ R = <<"sourceNote", "revision">>
    BY <1>5 DEF NotePath
  <2> QED BY <1>1, <1>5, <2>1 DEF Wire!Defaults, Wire!CargoDefaults, Wire!@@, Wire!:>
<1>7. /\ M \in DOMAIN W /\ W[M] = Wire!Optional(0..50)
      /\ \A q \in DOMAIN W : W[q].required => Len(q) = 1 \/ Parent(q) \notin {M, R}
  BY <1>1, <1>5, DefaultsAt
<1>8. R \in DOMAIN W /\ W[R] = Wire!Optional(Wire!AtLeast(0))
  BY <1>1, <1>5, NoteAt
<1>9. /\ ~W[M].required /\ 0 \in W[M].allowed
      /\ ~W[R].required /\ 1 \in W[R].allowed
  BY <1>7, <1>8 DEF Wire!Optional, Wire!AtLeast
<1>10. \A q \in DOMAIN D : q \in DOMAIN W /\ ~W[q].required /\ D[q] \in W[q].allowed
  BY <1>6, <1>7, <1>8, <1>9
<1>11. \A q \in DOMAIN W : W[q].required => Len(q) = 1 \/ Parent(q) \notin DOMAIN D
  BY <1>6, <1>7
<1>12. Wire!Fits(W, Wire!Validated(W, D, x)) <=> Wire!Fits(W, x)
  BY <1>4, <1>10, <1>11, FilledFits
<1>13. BodyOf(p) = Wire!Validated(W, D, x)
  BY <1>1, Zenon DEF BodyOf
<1> QED BY <1>1, <1>3, <1>12, <1>13

(* and of its lines                                                        *)
LEMMA LineVerdict ==
  ASSUME NEW x, ~Odd(x), DOMAIN x \subseteq DOMAIN Contract!PromisedLineDraft
  PROVE  Wire!Fits(Wire!PromisedLineDraft,
                   Wire!Validated(Wire!PromisedLineDraft, Wire!CargoDefaults, x))
         <=> Wire!Fits(Contract!PromisedLineDraft, x)
<1> DEFINE d == [lineId |-> Wire!Optional(Wire!IdUpTo(40)), sku |-> Wire!Required(1..200),
                 description |-> Wire!Required(1..2000), quantity |-> Wire!Required(Wire!AtLeast(1)),
                 uom |-> Wire!Required(Wire!Enum(Wire!UnitOfMeasure)),
                 sourceLineRef |-> Wire!Optional(0..200)]
<1>1. PICK W : W = Wire!PromisedLineDraft
  OBVIOUS
<1>2. W = Wire!@@(Wire!Leaves(d), Wire!Under("metadata", Wire!Optional(0..50), Wire!Metadata))
  BY <1>1 DEF Wire!PromisedLineDraft
<1>3. "metadata" \notin DOMAIN d
  OBVIOUS
<1> HIDE DEF d
<1>4. PICK C : C = Contract!PromisedLineDraft
  OBVIOUS
<1>5. Alike(C, W)
  BY <1>1, <1>4, LinesAlike
<1>6. DOMAIN x \subseteq DOMAIN W
  BY <1>4, <1>5 DEF Alike
<1>7. Wire!Fits(W, Wire!Validated(W, Wire!CargoDefaults, x)) <=> Wire!Fits(W, x)
  BY <1>2, <1>3, <1>6, DraftFits
<1>8. Wire!Fits(C, x) <=> Wire!Fits(W, x)
  BY <1>5, AlikeFits
<1> QED BY <1>1, <1>4, <1>7, <1>8

(* and parcels;                                                            *)
LEMMA ParcelVerdict ==
  ASSUME NEW x, ~Odd(x), DOMAIN x \subseteq DOMAIN Contract!ParcelDraft
  PROVE  Wire!Fits(Wire!ParcelDraft, Wire!Validated(Wire!ParcelDraft, Wire!CargoDefaults, x))
         <=> Wire!Fits(Contract!ParcelDraft, x)
<1> DEFINE d == [parcelId |-> Wire!Optional(Wire!IdUpTo(40)),
                 type |-> Wire!Required(Wire!Enum(Wire!ParcelType)),
                 label |-> Wire!Optional(0..200), weightGrams |-> Wire!Required(Wire!AtLeast(1)),
                 lengthMm |-> Wire!Optional(Wire!AtLeast(1)),
                 widthMm |-> Wire!Optional(Wire!AtLeast(1)),
                 heightMm |-> Wire!Optional(Wire!AtLeast(1)),
                 volumeCm3 |-> Wire!Optional(Wire!AtLeast(1)),
                 lineRefs |-> Wire!Optional(SUBSET Wire!IdUpTo(40)),
                 status |-> Wire!Optional(Wire!Enum(Wire!ParcelStatus))]
<1>1. PICK W : W = Wire!ParcelDraft
  OBVIOUS
<1>2. W = Wire!@@(Wire!Leaves(d), Wire!Under("metadata", Wire!Optional(0..50), Wire!Metadata))
  BY <1>1 DEF Wire!ParcelDraft
<1>3. "metadata" \notin DOMAIN d
  OBVIOUS
<1> HIDE DEF d
<1>4. PICK C : C = Contract!ParcelDraft
  OBVIOUS
<1>5. Alike(C, W)
  BY <1>1, <1>4, ParcelsAlike
<1>6. DOMAIN x \subseteq DOMAIN W
  BY <1>4, <1>5 DEF Alike
<1>7. Wire!Fits(W, Wire!Validated(W, Wire!CargoDefaults, x)) <=> Wire!Fits(W, x)
  BY <1>2, <1>3, <1>6, DraftFits
<1>8. Wire!Fits(C, x) <=> Wire!Fits(W, x)
  BY <1>5, AlikeFits
<1> QED BY <1>1, <1>4, <1>7, <1>8

(* so the wire accepts what the contract would but for the order of dates  *)
InOrder(p) == /\ Contract!EndAfterStart(p.fields, Promised)
              /\ Contract!EndAfterStart(p.fields, Collecting)

(* in its windows.                                                         *)
LEMMA ContractVerdict ==
  ASSUME NEW p, NothingOdd(p), Declared(p)
  PROVE  Contract!Parses(p.fields, p.lines, p.parcels) <=> Accepted(p) /\ InOrder(p)
<1>1. ASSUME NEW schema, NEW b PROVE Contract!Fits(schema, b) <=> Wire!Fits(schema, b)
  BY Zenon DEF Contract!Fits, Wire!Fits
<1>2. Contract!Strict(Contract!CreateLastMileFulfilmentCommand, p.fields)
      <=> Wire!Fits(Wire!CreateLastMileFulfilmentBody, BodyOf(p))
  <2>1. DOMAIN p.fields \subseteq DOMAIN Contract!CreateLastMileFulfilmentCommand
    BY DEF Declared
  <2>2. Wire!Fits(Wire!CreateLastMileFulfilmentBody, BodyOf(p))
         <=> Wire!Fits(Contract!CreateLastMileFulfilmentCommand, p.fields)
    BY <2>1, BodyVerdict DEF NothingOdd
  <2> QED BY <1>1, <2>1, <2>2 DEF Contract!Strict
<1>3. /\ DOMAIN LinesOf(p) = DOMAIN p.lines
      /\ \A i \in DOMAIN p.lines :
           LinesOf(p)[i] = Wire!Validated(Wire!PromisedLineDraft, Wire!CargoDefaults, p.lines[i])
  BY DEF LinesOf, ValidatedAll
<1>4. /\ DOMAIN ParcelsOf(p) = DOMAIN p.parcels
      /\ \A i \in DOMAIN p.parcels :
           ParcelsOf(p)[i] = Wire!Validated(Wire!ParcelDraft, Wire!CargoDefaults, p.parcels[i])
  BY DEF ParcelsOf, ValidatedAll
<1>5. ASSUME NEW i \in DOMAIN p.lines
      PROVE  Contract!Strict(Contract!PromisedLineDraft, p.lines[i])
             <=> Wire!Fits(Wire!PromisedLineDraft, LinesOf(p)[i])
  <2>1. PICK x : x = p.lines[i]
    OBVIOUS
  <2>2. ~Odd(x) /\ DOMAIN x \subseteq DOMAIN Contract!PromisedLineDraft
    BY <2>1 DEF Declared, NothingOdd
  <2>3. Wire!Fits(Wire!PromisedLineDraft,
                  Wire!Validated(Wire!PromisedLineDraft, Wire!CargoDefaults, x))
        <=> Wire!Fits(Contract!PromisedLineDraft, x)
    BY <2>2, LineVerdict
  <2> QED BY <1>1, <1>3, <2>1, <2>2, <2>3 DEF Contract!Strict
<1>6. ASSUME NEW i \in DOMAIN p.parcels
      PROVE  Contract!Strict(Contract!ParcelDraft, p.parcels[i])
             <=> Wire!Fits(Wire!ParcelDraft, ParcelsOf(p)[i])
  <2>1. PICK x : x = p.parcels[i]
    OBVIOUS
  <2>2. ~Odd(x) /\ DOMAIN x \subseteq DOMAIN Contract!ParcelDraft
    BY <2>1 DEF Declared, NothingOdd
  <2>3. Wire!Fits(Wire!ParcelDraft, Wire!Validated(Wire!ParcelDraft, Wire!CargoDefaults, x))
        <=> Wire!Fits(Contract!ParcelDraft, x)
    BY <2>2, ParcelVerdict
  <2> QED BY <1>1, <1>4, <2>1, <2>2, <2>3 DEF Contract!Strict
<1>7. Accepted(p) <=>
        /\ Wire!Fits(Wire!CreateLastMileFulfilmentBody, BodyOf(p))
        /\ \A i \in DOMAIN p.lines : Wire!Fits(Wire!PromisedLineDraft, LinesOf(p)[i])
        /\ \A i \in DOMAIN p.parcels : Wire!Fits(Wire!ParcelDraft, ParcelsOf(p)[i])
  BY <1>3, <1>4, Zenon DEF Accepted, WireAccepts
<1>8. InOrder(p) <=>
        /\ Contract!EndAfterStart(p.fields, <<"promisedWindow">>)
        /\ Contract!EndAfterStart(p.fields, <<"collection", "collectionWindow">>)
  BY Zenon DEF InOrder, Promised, Collecting
<1> QED BY <1>2, <1>5, <1>6, <1>7, <1>8, Zenon DEF Contract!Parses

(* The two rules about the order of a window are the contract's.           *)
LEMMA RulesOfOrder ==
  ASSUME NEW p, Accepted(p), ~Odd(p.fields), NEW R, R = Rules(CommandOf(p))
  PROVE  InOrder(p) <=> ~R[1][1] /\ ~R[2][1]
<1>1. PICK b, c : b = BodyOf(p) /\ c = CommandOf(p)
  OBVIOUS
<1>2. Wire!Fits(Wire!CreateLastMileFulfilmentBody, b)
  BY <1>1 DEF Accepted, WireAccepts
<1>3. c.promisedWindow = WindowAt(b, Promised) /\ c.collectionWindow = WindowAt(b, Collecting)
  <2>1. c = BodyToCommand(b, LinesOf(p), ParcelsOf(p))
    BY <1>1, Zenon DEF CommandOf
  <2> QED BY <2>1, CommandTimes
<1>4. PICK x : x = p.fields
  OBVIOUS
<1>5. /\ \A q \in DOMAIN b :
           \/ q \in DOMAIN x /\ b[q] = x[q]
           \/ q \in {<<"metadata">>, <<"sourceNote", "revision">>} /\ b[q] \in {0, 1}
      /\ DOMAIN x \cap DOMAIN Wire!CreateLastMileFulfilmentBody \subseteq DOMAIN b
  BY <1>1, <1>4, BodyFields
<1>6. /\ Promised = <<"promisedWindow">> /\ Collecting = <<"collection", "collectionWindow">>
  BY DEF Promised, Collecting
<1>7. \A q \in {Promised, Collecting} : q[1] \in {"promisedWindow", "collection"}
  BY <1>6
<1>8. ASSUME NEW q, q[1] \in {"promisedWindow", "collection"}
      PROVE  q # <<"metadata">> /\ q # <<"sourceNote", "revision">>
  <2>1. <<"metadata">>[1] = "metadata" /\ <<"sourceNote", "revision">>[1] = "sourceNote"
    OBVIOUS
  <2> QED BY <1>8, <2>1
<1>9. ASSUME NEW q \in {Promised, Collecting} PROVE q \in DOMAIN b <=> q \in DOMAIN x
  <2>1. q \in DOMAIN Wire!CreateLastMileFulfilmentBody
    <3>1. PICK S : S = Wire!Snapshot
      OBVIOUS
    <3>2. Periods(Collecting) \cup Periods(Promised) \subseteq DOMAIN S
      BY <3>1, SnapshotAt
    <3>3. q \in DOMAIN S
      BY <3>2 DEF Periods
    <3> QED BY <3>1, <3>3, BodiesAt
  <2> QED BY <1>5, <1>7, <1>8, <2>1
<1>10. ASSUME NEW q \in {Promised, Collecting}, q \in DOMAIN b
       PROVE  /\ WindowAt(b, q) # None
              /\ x[q \o <<"start">>] \in Int /\ x[q \o <<"end">>] \in Int
              /\ NotAfter(WindowAt(b, q).end, WindowAt(b, q).start)
                 <=> ~(x[q \o <<"end">>] > x[q \o <<"start">>])
  <2>1. PICK s, e : s = q \o <<"start">> /\ e = q \o <<"end">>
    OBVIOUS
  <2>2. /\ q \o <<"start">> \in DOMAIN b /\ b[q \o <<"start">>] \in {Leap} \cup Int
        /\ q \o <<"end">> \in DOMAIN b /\ b[q \o <<"end">>] \in {Leap} \cup Int
    BY <1>2, <1>10, DatesThere
  <2>3. s[1] = q[1] /\ e[1] = q[1]
    <3>1. /\ Promised \o <<"start">> = <<"promisedWindow", "start">>
          /\ Promised \o <<"end">> = <<"promisedWindow", "end">>
          /\ Collecting \o <<"start">> = <<"collection", "collectionWindow", "start">>
          /\ Collecting \o <<"end">> = <<"collection", "collectionWindow", "end">>
      BY <1>6, WindowPaths, Zenon
    <3> QED BY <1>6, <2>1, <3>1
  <2>4. b[s] = x[s] /\ b[e] = x[e] /\ s \in DOMAIN x /\ e \in DOMAIN x
    <3>1. /\ s # <<"metadata">> /\ s # <<"sourceNote", "revision">>
          /\ e # <<"metadata">> /\ e # <<"sourceNote", "revision">>
      BY <1>7, <1>8, <2>3
    <3>2. s \in DOMAIN b /\ e \in DOMAIN b
      BY <2>1, <2>2
    <3> QED BY <1>5, <3>1, <3>2
  <2>5. x[s] \in Int /\ x[e] \in Int /\ x[s] # Leap /\ x[e] # Leap
    BY <1>4, <2>1, <2>2, <2>4 DEF Odd, Wire!OddValues
  <2>6. WindowAt(b, q) = [start |-> x[s], end |-> x[e]]
    BY <1>10, <2>1, <2>4, <2>5 DEF WindowAt, ToDate
  <2>7. WindowAt(b, q) \in Window
    BY <2>5, <2>6 DEF Window, Date
  <2>8. NotAfter(x[e], x[s]) <=> ~(x[e] > x[s])
    BY <2>5, RowsAssumption DEF NotAfter
  <2> QED BY <2>1, <2>5, <2>6, <2>7, <2>8, RowsAssumption
<1>11. Promised \in DOMAIN b
  <2>1. c.promisedWindow \in Window /\ c.collectionWindow \in Window \cup {None}
    BY <1>1, CommandWindows
  <2>2. Promised \notin DOMAIN b => c.promisedWindow = None
    BY <1>3 DEF WindowAt
  <2> QED BY <2>1, <2>2, RowsAssumption
<1>12. Collecting \notin DOMAIN b => c.collectionWindow = None
  BY <1>3 DEF WindowAt
<1>13. /\ R[1][1] = NotAfter(c.promisedWindow.end, c.promisedWindow.start)
       /\ R[2][1] = (c.collectionWindow # None
                      /\ NotAfter(c.collectionWindow.end, c.collectionWindow.start))
  BY <1>1 DEF Rules
<1>14. Contract!EndAfterStart(x, Promised) <=> ~R[1][1]
  BY <1>3, <1>9, <1>10, <1>11, <1>13 DEF Contract!EndAfterStart, Contract!Instant
<1>15. Contract!EndAfterStart(x, Collecting) <=> ~R[2][1]
  BY <1>3, <1>9, <1>10, <1>12, <1>13 DEF Contract!EndAfterStart, Contract!Instant
<1> QED BY <1>4, <1>14, <1>15 DEF InOrder

OrderCodes == {"PROMISED_WINDOW_INVALID", "COLLECTION_WINDOW_INVALID"}

(* They are the first to be reported.                                      *)
LEMMA FirstCodes ==
  ASSUME NEW c, NEW R, R = Rules(c)
  PROVE  /\ FirstBroken(R) \in OrderCodes <=> R[1][1] \/ R[2][1]
         /\ FirstBroken(R) # "BODY_INVALID"
<1> DEFINE broken == {i \in DOMAIN R : R[i][1]}
           first == CHOOSE i \in broken : \A j \in broken : i <= j
<1>1. /\ DOMAIN R = 1..7
      /\ R[1][2] = "PROMISED_WINDOW_INVALID" /\ R[2][2] = "COLLECTION_WINDOW_INVALID"
      /\ \A i \in 3..7 : R[i][2] \notin OrderCodes
      /\ \A i \in 1..7 : R[i][2] # "BODY_INVALID"
  BY DEF Rules, OrderCodes
<1>2. CASE broken = {}
  <2>1. FirstBroken(R) = "ok"
    BY <1>2 DEF FirstBroken
  <2> QED BY <1>1, <1>2, <2>1 DEF OrderCodes
<1>3. CASE broken # {}
  <2>1. \E i \in broken : \A j \in broken : i <= j
    BY <1>1, <1>3
  <2>2. first \in broken /\ \A j \in broken : first <= j
    BY <2>1
  <2>3. FirstBroken(R) = R[first][2]
    BY <1>3 DEF FirstBroken
  <2>4. PICK f : f = first
    OBVIOUS
  <2>5. f \in 1..7 /\ R[f][1] /\ \A j \in 1..7 : R[j][1] => f <= j
    BY <1>1, <2>2, <2>4
  <2>6. FirstBroken(R) = R[f][2]
    BY <2>3, <2>4
  <2> HIDE DEF broken, first
  <2>7. ASSUME R[1][1] \/ R[2][1] PROVE FirstBroken(R) \in OrderCodes
    <3>1. f \in {1, 2}
      BY <2>5, <2>7
    <3> QED BY <1>1, <2>6, <3>1 DEF OrderCodes
  <2>8. ASSUME ~(R[1][1] \/ R[2][1]) PROVE FirstBroken(R) \notin OrderCodes
    <3>1. f \in 3..7
      <4>1. f # 1 /\ f # 2
        BY <2>5, <2>8
      <4> QED BY <2>5, <4>1
    <3> QED BY <1>1, <2>6, <3>1
  <2>9. FirstBroken(R) # "BODY_INVALID"
    BY <1>1, <2>5, <2>6
  <2> QED BY <2>7, <2>8, <2>9
<1> QED BY <1>2, <1>3

(* POST /shipments opens a request of its own kind.                        *)
LEMMA ShipmentOpened ==
  ASSUME PostShipment
  PROVE  /\ req'.kind = "LastMileShipment"
         /\ req'.pc = "persist" => req'.outcome = "none"
         /\ req'.pc \in {"persist", "close"}
<1> DEFINE new == [Idle EXCEPT !.kind = "LastMileShipment"]
<1>1. PICK j \in {d \in db : d.kind = "job"} :
        LET x       == j.payload
            b       == Wire!Validated(Wire!CreateLastMileShipmentBody, Wire!CargoDefaults, x.fields)
            lines   == ValidatedAll(Wire!PromisedLine, x.lines)
            parcels == ValidatedAll(Wire!Parcel, x.parcels)
            c       == BodyToCommand(b, lines, parcels)
            id      == [prefix |-> "shp", number |-> sent["LastMileShipment"] + 1]
            parent  == {r \in Fulfilments : r.id = x.fulfilmentId /\ r.tenantId = post.tenant}
            opened  == [Idle EXCEPT !.kind = "LastMileShipment"]
            refuse(code) == [opened EXCEPT !.pc = "close", !.outcome = code]
        IN  req' =
              IF ~WireAccepts(Wire!CreateLastMileShipmentBody, Wire!PromisedLine, Wire!Parcel,
                              b, lines, parcels) THEN refuse("BODY_INVALID")
              ELSE IF ~Geocoded(c) THEN refuse("LOCATIONS_NOT_GEOCODED")
              ELSE IF ~\E r \in parent : FulfilmentReadable(r) THEN refuse("FULFILMENT_NOT_FOUND")
              ELSE [opened EXCEPT !.pc = "persist",
                               !.aggregate = ShipmentCreate(id, b[<<"tenantId">>], x.fulfilmentId, c)]
  BY DEF PostShipment
<1>2. \/ \E code : req' = [new EXCEPT !.pc = "close", !.outcome = code]
      \/ \E a : req' = [new EXCEPT !.pc = "persist", !.aggregate = a]
  BY <1>1, Zenon
<1> QED BY <1>2 DEF Idle

(* Until it ends a request has no outcome.                                 *)
Undecided ==
  req.pc \in {"rules", "note", "persist", "audit", "event"} => req.outcome = "none"

(* The verdict of the server after a step.                                 *)
LEMMA NextMatches ==
  RowsOpen /\ AllAnnounced /\ DataTraced /\ Undecided /\ WireMatchesContract /\ [Next]_vars
  => Undecided' /\ WireMatchesContract'
<1> SUFFICES ASSUME RowsOpen, AllAnnounced, DataTraced, Undecided, WireMatchesContract, [Next]_vars
             PROVE  Undecided' /\ WireMatchesContract'
  OBVIOUS
<1>0. RequestShape
  BY DEF RowsOpen, RequestShape
<1> DEFINE Comparable(p) == NothingOdd(p) /\ Declared(p)
           Refused(p)    == ~Contract!Parses(p.fields, p.lines, p.parcels)
<1>p. PICK p : p = post
  OBVIOUS
<1>w. /\ WireMatchesContract <=>
           (req.kind = "LastMileFulfilment" /\ req.pc # "rules" /\ Comparable(post)
            => (req.outcome \in ShapeCodes <=> Refused(post)))
      /\ WireMatchesContract' <=>
           (req'.kind = "LastMileFulfilment" /\ req'.pc # "rules" /\ Comparable(post')
            => (req'.outcome \in ShapeCodes <=> Refused(post')))
  BY Zenon DEF WireMatchesContract
<1>v. Comparable(p) => (Refused(p) <=> ~(Accepted(p) /\ InOrder(p)))
  BY ContractVerdict
<1> HIDE DEF Comparable, Refused
<1>c. "none" \notin ShapeCodes
  BY DEF ShapeCodes
<1>a. ASSUME req.pc \in {"note", "persist", "audit", "event"}, UNCHANGED post, req'.kind = req.kind,
             req'.outcome \notin ShapeCodes,
             req'.pc \in {"rules", "note", "persist", "audit", "event"} => req'.outcome = "none"
      PROVE  Undecided' /\ WireMatchesContract'
  BY <1>a, <1>c, <1>w DEF Undecided
<1>1. CASE PostFulfilment
  <2> DEFINE b == Wire!Validated(Wire!CreateLastMileFulfilmentBody, Wire!Defaults, post.fields)
             lines == ValidatedAll(Wire!PromisedLineDraft, post.lines)
             parcels == ValidatedAll(Wire!ParcelDraft, post.parcels)
             new == [Idle EXCEPT !.kind = "LastMileFulfilment"]
             accepted == WireAccepts(Wire!CreateLastMileFulfilmentBody, Wire!PromisedLineDraft,
                                     Wire!ParcelDraft, b, lines, parcels)
             command == BodyToCommand(b, lines, parcels)
  <2>1. /\ UNCHANGED post
        /\ req' = IF accepted THEN [new EXCEPT !.pc = "rules", !.command = command]
                              ELSE [new EXCEPT !.pc = "close", !.outcome = "BODY_INVALID"]
    BY <1>1, Zenon DEF PostFulfilment, Arrives
  <2>2. accepted <=> Accepted(p)
    BY <1>p, Zenon DEF Accepted, BodyOf, LinesOf, ParcelsOf
  <2> HIDE DEF accepted, command
  <2>3. \/ req'.pc = "rules" /\ req'.outcome = "none"
        \/ req'.pc = "close" /\ req'.outcome = "BODY_INVALID" /\ ~Accepted(p)
    BY <2>1, <2>2 DEF Idle
  <2>4. "BODY_INVALID" \in ShapeCodes
    BY DEF ShapeCodes
  <2> QED BY <1>p, <1>v, <1>w, <2>1, <2>3, <2>4 DEF Undecided
<1>2. CASE CheckRules
  <2>1. PICK code, R : R = Rules(CommandOf(p)) /\ code = FirstBroken(R)
    OBVIOUS
  <2>2. /\ req.kind = "LastMileFulfilment" /\ Accepted(p) /\ req.command = CommandOf(p)
        /\ req.pc = "rules" /\ req.outcome = "none"
    BY <1>2, <1>p DEF CheckRules, DataTraced, AllAnnounced, Kinds, Handlers, FulfilmentUnderway,
                      ShipmentUnderway, Undecided
  <2>3. /\ UNCHANGED post
        /\ \/ req'.pc = "note" /\ code = "ok" /\ req'.outcome = "none"
           \/ req'.pc = "close" /\ code # "ok" /\ req'.outcome = code
    BY <1>0, <1>2, <2>1, <2>2 DEF CheckRules, To, Refuse, RequestShape
  <2>4. code \in ShapeCodes <=> R[1][1] \/ R[2][1]
    BY <2>1, FirstCodes DEF ShapeCodes, OrderCodes
  <2>5. ASSUME Comparable(p) PROVE InOrder(p) <=> ~R[1][1] /\ ~R[2][1]
    BY <2>1, <2>2, <2>5, RulesOfOrder DEF Comparable, NothingOdd
  <2>6. req'.outcome \in ShapeCodes <=> code \in ShapeCodes
    BY <2>3 DEF ShapeCodes
  <2> QED BY <1>p, <1>v, <1>w, <2>2, <2>3, <2>4, <2>5, <2>6 DEF Undecided
<1>3. CASE CheckSourceNote
  <2>1. PICK f, q : f = FulfilmentCreate([prefix |-> "lmf", number |-> sent["LastMileFulfilment"]],
                                         post.tenant, req.command) /\ q = req'
    OBVIOUS
  <2>2. /\ req.pc = "note" /\ UNCHANGED post
        /\ \/ q = [req EXCEPT !.pc = "persist", !.aggregate = f]
           \/ \E code \in {"SOURCE_NOTE_IN_FLIGHT", "REPO_READ_FAILED"} :
                q = [req EXCEPT !.pc = "close", !.outcome = code]
    BY <1>3, <2>1 DEF CheckSourceNote, Refuse
  <2>3. /\ q.kind = req.kind
        /\ \/ q.pc = "persist" /\ q.outcome = req.outcome
           \/ q.pc = "close" /\ q.outcome \in {"SOURCE_NOTE_IN_FLIGHT", "REPO_READ_FAILED"}
    BY <1>0, <2>2 DEF RequestShape
  <2>4. req.outcome = "none"
    BY <2>2 DEF Undecided
  <2>5. q.outcome \notin ShapeCodes
    BY <2>3, <2>4 DEF ShapeCodes
  <2> QED BY <1>a, <2>1, <2>2, <2>3, <2>4, <2>5
<1>4. CASE Persist
  <2>1. PICK result, row :
          result = RegistryPersist(req.kind, req.aggregate) /\ row = ToRow(req.kind, req.aggregate)
    OBVIOUS
  <2>2. PICK pc, outcome, aborted, staged :
          /\ pc = (IF result = "saved" THEN "audit" ELSE "close")
          /\ outcome = (IF result = "saved" THEN "none" ELSE "COMMIT_FAILED")
          /\ req' = [req EXCEPT !.pc = pc, !.outcome = outcome, !.aborted = aborted,
                                !.staged = staged]
          /\ req.pc = "persist" /\ UNCHANGED post
    BY <1>4, <2>1, Zenon DEF Persist
  <2>3. req'.kind = req.kind /\ req'.pc = pc /\ req'.outcome = outcome
    BY <1>0, <2>2 DEF RequestShape
  <2>4. outcome \notin ShapeCodes /\ (pc # "close" => outcome = "none")
    BY <2>2 DEF ShapeCodes
  <2> QED BY <1>a, <2>2, <2>3, <2>4
<1>5. CASE WriteLocalAuditLog
  <2>1. /\ req.pc = "audit" /\ UNCHANGED post /\ req'.kind = req.kind
        /\ \/ req'.pc = "event" /\ req'.outcome = req.outcome
           \/ req'.pc = "close" /\ req'.outcome = "COMMIT_FAILED"
    BY <1>0, <1>5 DEF WriteLocalAuditLog, RequestShape
  <2>2. req.outcome = "none"
    BY <2>1 DEF Undecided
  <2>3. req'.outcome \notin ShapeCodes
    BY <1>c, <2>1, <2>2 DEF ShapeCodes
  <2> QED BY <1>a, <2>1, <2>2, <2>3
<1>6. CASE WriteEvent
  <2>1. /\ req.pc = "event" /\ UNCHANGED post /\ req'.pc = "close"
        /\ req'.kind = req.kind /\ req'.outcome = "ok"
    BY <1>0, <1>6 DEF WriteEvent, RequestShape
  <2>2. "ok" \notin ShapeCodes
    BY DEF ShapeCodes
  <2> QED BY <1>a, <2>1, <2>2
<1>7. CASE StatementFails
  <2>1. /\ req.pc \in {"persist", "audit", "event"} /\ UNCHANGED post /\ req'.pc = "close"
        /\ req'.kind = req.kind /\ req'.outcome = "COMMIT_FAILED"
    BY <1>0, <1>7 DEF StatementFails, RequestShape
  <2>2. "COMMIT_FAILED" \notin ShapeCodes
    BY DEF ShapeCodes
  <2> QED BY <1>a, <2>1, <2>2
<1>8. CASE Close
  <2>1. req'.kind # "LastMileFulfilment" /\ req'.pc = "idle"
    BY <1>8, IntakeAssumption DEF Close, Idle
  <2> QED BY <1>w, <2>1 DEF Undecided
<1>9. CASE HandleLastMileFulfilmentCreated
  <2>1. UNCHANGED <<post, req>>
    BY <1>9 DEF HandleLastMileFulfilmentCreated
  <2> QED BY <1>w, <2>1 DEF Undecided
<1>10. CASE PostShipment
  <2>1. /\ req'.kind # "LastMileFulfilment" /\ req'.pc \in {"persist", "close"}
        /\ req'.pc = "persist" => req'.outcome = "none"
    BY <1>10, ShipmentOpened
  <2> QED BY <1>w, <2>1 DEF Undecided
<1>11. CASE UNCHANGED vars
  <2>1. UNCHANGED <<post, req>>
    BY <1>11 DEF vars
  <2> QED BY <1>w, <2>1 DEF Undecided
<1> QED
  BY <1>1, <1>2, <1>3, <1>4, <1>5, <1>6, <1>7, <1>8, <1>9, <1>10, <1>11 DEF Next

(* The two copies of the schemas agree on everything but the odd values    *)
(* the model names, on whose text Ajv's formats and Zod's differ: whatever *)
(* body of declared keys and without those a client sends, the server      *)
(* refuses it for its shape or the order of a window exactly if the        *)
(* contract does.                                                          *)
THEOREM WireAndContractAgree == Spec => []WireMatchesContract
<1>1. Init => Undecided /\ WireMatchesContract
  BY IntakeAssumption DEF Init, Idle, Undecided, WireMatchesContract
<1> QED
  BY <1>1, InitTraced, NextRowsOpen, NextAnnounced, NextTraced, NextMatches, PTL DEF Spec
=============================================================================
