----------------------- MODULE LastMileContract_proofs -----------------------
(***************************************************************************)
(* LastMileProcess implements LastMileContract, for every value of its     *)
(* constants: what the interleaved, failing requests commit is what the    *)
(* use cases, each run alone in one atomic step, would have.  What         *)
(* redelivery costs is counted last: ShipmentsBoundedByLostAnswers.        *)
(***************************************************************************)
EXTENDS LastMileProcess_proofs

-----------------------------------------------------------------------------
(* The inductive invariant.  A request that was let in carries a message   *)
(* of the outbox, as far as it believes its body; a request that writes    *)
(* plans one of the four batches the contract knows, of rows it had found  *)
(* committed, or is doomed; one that strands leaves a fulfilment; and the  *)
(* job a request may emit is new.                                          *)

IsMessage(m, type) == m.table = "outbox_messages" /\ m.type = type

Creation(row, event) == {row, AuditLog(event), event, AuditMessage(event)}
Decision(job, type)  == {job, DecisionEvent(type, job)}

(* A fulfilment row as POST /fulfilments writes it.                        *)
NewFulfilment(f) == /\ f \in FulfilmentRow /\ f.tenantId \in Openers
                    /\ f.linkedShipments = {} /\ ~f.awaiting

OpensFulfilment(q, B) ==
  /\ q.input.type = PostFulfilment
  /\ \E f \in FulfilmentRow :
       /\ f.id = q.id /\ NewFulfilment(f)
       /\ B = Creation(f, FulfilmentEvent(FulfilmentCreated, f))

AsksForShipment(q, B, rows) ==
  /\ q.input.type = FulfilmentCreated /\ q.id \in JobIds
  /\ \E f \in rows :
       /\ f.table = "last_mile_fulfilments" /\ f.missing = {} /\ Readable(f)
       /\ f.id = q.input.fulfilmentId /\ f.tenantId = q.tenant
       /\ B = Decision(CreateShipmentJob(q.id, f), ShipmentRequested)

BringsShipment(q, B, rows) ==
  /\ q.input \in rows /\ IsMessage(q.input, CreateJob)
  /\ q.id \in ShipmentIds /\ q.tenant \in Openers
  /\ LET s == ShipmentCreate(q.id, q.input.tenantId, q.input)
     IN  B = Creation(s, ShipmentEvent(ShipmentCreated, s))

AsksForLink(q, B, rows) ==
  /\ q.input \in rows /\ IsMessage(q.input, ShipmentCreated) /\ q.id \in JobIds
  /\ B = Decision(LinkShipmentJob(q.id, q.input), LinkDispatched)

Entitled(q, B, rows) ==
  \/ OpensFulfilment(q, B)
  \/ AsksForShipment(q, B, rows)
  \/ BringsShipment(q, B, rows)
  \/ AsksForLink(q, B, rows)

Sent(q, rows) ==
  /\ q.input.type = PostFulfilment => q.tenant \in Openers
  /\ q.input.type = CreateJob =>
       (q.input \in rows /\ q.tenant = q.input.tenantId) \/ q.tenant \notin Openers
  /\ q.input.type = ShipmentCreated => q.input \in rows

Founded(q, rows) ==
  /\ q.pc = "run" => Sent(q, rows)
  /\ q.pc \in {"write", "close"} /\ q.outcome = "ok" =>
       Doomed(q, rows) \/ Entitled(q, Batch(q), rows)
  /\ q.pc = "close" /\ q.outcome = "COMMIT_FAILED" =>
       \E f \in q.staged : NewFulfilment(f) /\ ~Readable(f) /\ q.staged = {f}

Authentic(rows) ==
  /\ \A f \in rows : f.table = "last_mile_fulfilments" => f.tenantId \in Openers
  /\ \A m \in rows : IsMessage(m, ShipmentCreated) =>
       \E s \in rows : s.table = "last_mile_shipments" /\ m = ShipmentEvent(ShipmentCreated, s)
  /\ \A m \in rows : IsMessage(m, CreateJob) => ~m.leap

(* No message bears the identifier yet; no other request holds it.         *)
Unused(id) == \A m \in db : m.table = "outbox_messages" => m.job # id
Owned(id, r) == \A o \in Requests \ {r} : req[o].id # id

AllFounded ==
  /\ Authentic(db)
  /\ \A r \in Requests : Founded(req[r], db)
  /\ \A r \in Requests : req[r].id \in JobIds =>
       Owned(req[r].id, r) /\ (req[r].pc # "answer" => Unused(req[r].id))

(* What a request may rely on stays while rows are only added.             *)
LEMMA EntitledGrows ==
  ASSUME NEW q, NEW B, NEW rows, NEW more, rows \subseteq more, Entitled(q, B, rows)
  PROVE  Entitled(q, B, more)
BY DEF Entitled, AsksForShipment, BringsShipment, AsksForLink

(* The progress of a request changes nothing it was entitled by.           *)
LEMMA EntitledKept ==
  ASSUME NEW p, NEW q, NEW B, NEW rows, Entitled(p, B, rows),
         q.input = p.input, q.id = p.id, q.tenant = p.tenant
  PROVE  Entitled(q, B, rows)
BY DEF Entitled, OpensFulfilment, AsksForShipment, BringsShipment, AsksForLink

LEMMA FoundedGrows ==
  ASSUME NEW q, NEW rows, NEW more, rows \subseteq more, Founded(q, rows)
  PROVE  Founded(q, more)
<1>1. Doomed(q, rows) => Doomed(q, more)
  BY DEF Doomed
<1>2. Entitled(q, Batch(q), rows) => Entitled(q, Batch(q), more)
  BY EntitledGrows
<1>3. Sent(q, rows) => Sent(q, more)
  BY DEF Sent
<1> QED BY <1>1, <1>2, <1>3 DEF Founded

(* A step of one request that commits nothing; its identifier is kept, or  *)
(* new.                                                                    *)
LEMMA SlotFounded ==
  ASSUME AllFounded, req \in [Requests -> Slot], db' = db,
         NEW r \in Requests, NEW q, Founded(q, db), req' = [req EXCEPT ![r] = q],
         q.id \in JobIds => Owned(q.id, r) /\ (q.pc # "answer" => Unused(q.id))
  PROVE  AllFounded'
<1>1. req'[r] = q /\ \A o \in Requests \ {r} : req'[o] = req[o]
  OBVIOUS
<1>2. Authentic(db')
  BY DEF AllFounded
<1>3. \A o \in Requests : Founded(req'[o], db')
  BY <1>1 DEF AllFounded
<1>4. ASSUME NEW o \in Requests, req'[o].id \in JobIds
      PROVE  Owned(req[o].id, o)' /\ (req'[o].pc # "answer" => Unused(req[o].id)')
  <2>1. CASE o = r
    BY <1>1, <1>4, <2>1 DEF Unused, Owned
  <2>2. CASE o # r
    <3>1. /\ req'[o] = req[o] /\ Owned(req[o].id, o)
          /\ req[o].pc # "answer" => Unused(req[o].id)
      BY <1>1, <1>4, <2>2 DEF AllFounded
    <3>2. \A p \in Requests \ {o} : req'[p].id # req[o].id
      <4>1. q.id # req[o].id
        BY <1>4, <2>2, <3>1 DEF Owned
      <4> QED BY <1>1, <3>1, <4>1 DEF Owned
    <3> QED BY <3>1, <3>2 DEF Unused, Owned
  <2> QED BY <2>1, <2>2
<1> QED BY <1>2, <1>3, <1>4 DEF AllFounded

(* The same where the identifier is kept.                                  *)
LEMMA SlotKeepsId ==
  ASSUME AllFounded, req \in [Requests -> Slot], db' = db,
         NEW r \in Requests, NEW q, Founded(q, db), req' = [req EXCEPT ![r] = q],
         q.id = req[r].id, req[r].pc = "answer" => q.pc = "answer"
  PROVE  AllFounded'
<1>1. q.id \in JobIds => Owned(q.id, r) /\ (q.pc # "answer" => Unused(q.id))
  BY DEF AllFounded
<1> QED BY <1>1, SlotFounded

(* A use case that plans an entitled batch, or one the database refuses.   *)
LEMMA WriteFounded ==
  ASSUME TypeOK, Control, AllFounded, NEW r \in Requests, req[r].pc \in {"run", "link"},
         NEW statements, Write(r, statements),
         \/ Entitled(req[r], Statements(statements), db)
         \/ \E x \in Statements(statements), d \in db : Conflicts(d, x)
  PROVE  AllFounded'
<1> DEFINE q == [req[r] EXCEPT !.pc = "write", !.todo = statements]
<1>1. /\ q.pc = "write" /\ q.todo = statements /\ q.staged = {} /\ q.id = req[r].id
      /\ q.input = req[r].input /\ q.tenant = req[r].tenant
  BY DEF TypeOK, Slot, Control, Progressing
<1>2. req' = [req EXCEPT ![r] = q] /\ db' = db
  BY DEF Write, TypeOK
<1> HIDE DEF q
<1>3. Batch(q) = Statements(statements)
  BY <1>1 DEF Batch
<1>4. Founded(q, db)
  BY <1>1, <1>3, EntitledKept DEF Founded, Doomed
<1> QED BY <1>1, <1>2, <1>4, SlotKeepsId DEF TypeOK

(* A request that is refused, or fails, has nothing left to be entitled to. *)
LEMMA ClosedFounded ==
  ASSUME TypeOK, AllFounded, NEW r \in Requests, NEW code, code \notin {"ok", "COMMIT_FAILED"},
         req[r].pc # "answer",
         req' = [req EXCEPT ![r].pc = "close", ![r].outcome = code], db' = db
  PROVE  AllFounded'
<1> DEFINE q == [req[r] EXCEPT !.pc = "close", !.outcome = code]
<1>1. q.pc = "close" /\ q.outcome = code /\ q.id = req[r].id
  BY DEF TypeOK, Slot
<1>2. req' = [req EXCEPT ![r] = q]
  BY DEF TypeOK
<1> HIDE DEF q
<1>3. Founded(q, db)
  BY <1>1 DEF Founded
<1> QED BY <1>1, <1>2, <1>3, SlotKeepsId DEF TypeOK

LEMMA FailFounded ==
  ASSUME TypeOK, AllFounded, NEW r \in Requests, req[r].pc \in {"run", "link"},
         NEW code, code \notin {"ok", "COMMIT_FAILED"}, Fail(r, code)
  PROVE  AllFounded'
BY ClosedFounded DEF Fail

(* A changed row is an INSERT that the committed row refuses.              *)
LEMMA RewriteFounded ==
  ASSUME TypeOK, Control, AllFounded, NEW r \in Requests, req[r].pc \in {"run", "link"},
         NEW old \in db, NEW row, NEW event, Conflicts(old, row),
         Write(r, CommitAggregate(row, event))
  PROVE  AllFounded'
<1>1. row \in Statements(CommitAggregate(row, event))
  BY DecidedIsStated
<1> QED BY <1>1, WriteFounded

(* POST /fulfilments plans a fulfilment of the tenant its caller names.    *)
LEMMA CreateLastMileFulfilmentFounded ==
  ASSUME TypeOK, Control, AllFounded, NEW r \in Requests, CreateLastMileFulfilment(r)
  PROVE  AllFounded'
<1> DEFINE q == req[r]
           f == FulfilmentCreate(q.id, q.tenant, q.input)
           e == FulfilmentEvent(FulfilmentCreated, f)
<1>1. q.pc = "run" /\ q.input.type = PostFulfilment /\ RequestOK(q)
  BY BusySlot DEF CreateLastMileFulfilment, Running
<1>2. q.input \in FulfilmentCommand /\ q.id \in FulfilmentIds /\ q.tenant \in Tenants
  BY <1>1, InputByType DEF RequestOK, IdKind, PostFulfilment, CreateJob,
     FulfilmentCreated, ShipmentCreated
<1>3. q.tenant \in Openers
  BY <1>1 DEF AllFounded, Founded, Sent
<1>4. NewFulfilment(f) /\ f \in FulfilmentRow /\ f.id = q.id
  BY <1>2, <1>3 DEF FulfilmentCreate, FulfilmentRow, FulfilmentCommand, NewFulfilment
<1>5. CASE Fail(r, "SOURCE_NOTE_IN_FLIGHT") \/ Fail(r, "REPO_READ_FAILED")
  BY <1>1, <1>5, FailFounded
<1>6. CASE Write(r, CommitAggregate(f, e))
  <2> HIDE DEF f
  <2>1. Statements(CommitAggregate(f, e)) = Creation(f, e)
    BY StatementsOfUse DEF Creation
  <2>2. Entitled(req[r], Statements(CommitAggregate(f, e)), db)
    BY <1>1, <1>4, <2>1 DEF Entitled, OpensFulfilment
  <2> HIDE DEF e
  <2> QED BY <1>1, <1>6, <2>2, WriteFounded
<1> QED BY <1>5, <1>6 DEF CreateLastMileFulfilment

(* The reaction to fulfilment:created asks for a shipment of a geocoded    *)
(* fulfilment it has read, or writes a row that exists.                    *)
LEMMA HandleFulfilmentCreatedFounded ==
  ASSUME TypeOK, Control, AllFounded, NEW r \in Requests, HandleFulfilmentCreated(r)
  PROVE  AllFounded'
<1>1. req[r].pc = "run" /\ req[r].input.type = FulfilmentCreated /\ RequestOK(req[r])
  BY BusySlot DEF HandleFulfilmentCreated, Running
<1>2. req[r].id \in JobIds
  BY <1>1 DEF RequestOK, IdKind, PostFulfilment, CreateJob, FulfilmentCreated
<1>3. CASE Fail(r, "FULFILMENT_NOT_FOUND") \/ Fail(r, "REPO_READ_FAILED")
  BY <1>1, <1>3, FailFounded
<1>4. ASSUME NEW f \in FulfilmentById(req[r].tenant, req[r].input.fulfilmentId), Readable(f),
             LET job == CreateShipmentJob(req[r].id, f)
             IN  IF MissingLegs(f, req[r].input) # {}
                 THEN Write(r, CommitAggregate(ScheduleReaction(f),
                                               FulfilmentEvent(AwaitingGeocoding, f)))
                 ELSE Write(r, EmitJob(job, DecisionEvent(ShipmentRequested, job)))
      PROVE  AllFounded'
  <2> DEFINE job == CreateShipmentJob(req[r].id, f)
             event == DecisionEvent(ShipmentRequested, job)
             parked == ScheduleReaction(f)
             awaiting == FulfilmentEvent(AwaitingGeocoding, f)
  <2>1. /\ f \in FulfilmentRow /\ f \in db /\ f.table = "last_mile_fulfilments"
        /\ f.id = req[r].input.fulfilmentId /\ f.tenantId = req[r].tenant
    BY ReadTypes DEF FulfilmentById
  <2>2. Conflicts(f, parked)
    BY <2>1 DEF Conflicts, ScheduleReaction, FulfilmentRow
  <2> HIDE DEF parked, awaiting
  <2>3. CASE Write(r, CommitAggregate(parked, awaiting))
    BY <1>1, <2>1, <2>2, <2>3, RewriteFounded
  <2>4. CASE f.missing = {} /\ Write(r, EmitJob(job, event))
    <3> HIDE DEF job
    <3>1. Statements(EmitJob(job, event)) = Decision(job, ShipmentRequested)
      BY StatementsOfUse DEF Decision
    <3>2. Entitled(req[r], Statements(EmitJob(job, event)), db)
      BY <1>1, <1>2, <1>4, <2>1, <2>4, <3>1 DEF Entitled, AsksForShipment, job
    <3> HIDE DEF event
    <3> QED BY <1>1, <2>4, <3>2, WriteFounded
  <2> QED BY <1>4, <2>3, <2>4 DEF parked, awaiting, MissingLegs
<1> QED BY <1>3, <1>4 DEF HandleFulfilmentCreated

(* A shipment is planned for a fulfilment found in the tenant, and so only *)
(* on a job of the outbox.                                                 *)
LEMMA CreateLastMileShipmentFounded ==
  ASSUME TypeOK, Control, AllFounded, NEW r \in Requests, CreateLastMileShipment(r)
  PROVE  AllFounded'
<1> DEFINE q == req[r]
           s == ShipmentCreate(q.id, q.tenant, q.input)
           e == ShipmentEvent(ShipmentCreated, s)
<1>1. q.pc = "run" /\ q.input.type = CreateJob /\ RequestOK(q)
  BY BusySlot DEF CreateLastMileShipment, Running
<1>2. q.input \in Message /\ q.id \in ShipmentIds
  BY <1>1, InputByType DEF RequestOK, IdKind, DeliveredTypes, JobTypes,
     PostFulfilment, CreateJob, FulfilmentCreated, ShipmentCreated
<1>3. CASE Fail(r, "FULFILMENT_NOT_FOUND") \/ Fail(r, "REPO_READ_FAILED")
  BY <1>1, <1>3, FailFounded
<1>4. CASE /\ FulfilmentById(q.tenant, q.input.fulfilmentId) # {}
           /\ Write(r, CommitAggregate(s, e))
  <2>1. PICK f \in db : f.table = "last_mile_fulfilments" /\ f.tenantId = q.tenant
    BY <1>4 DEF FulfilmentById
  <2>2. q.tenant \in Openers
    BY <2>1 DEF AllFounded, Authentic
  <2>3. q.input \in db /\ q.tenant = q.input.tenantId
    BY <1>1, <2>2 DEF AllFounded, Founded, Sent
  <2>4. IsMessage(q.input, CreateJob)
    BY <1>1, <1>2 DEF IsMessage, Message
  <2>5. s = ShipmentCreate(q.id, q.input.tenantId, q.input)
    BY <2>3
  <2> HIDE DEF s
  <2>6. Statements(CommitAggregate(s, e)) = Creation(s, e)
    BY StatementsOfUse DEF Creation
  <2>7. Entitled(req[r], Statements(CommitAggregate(s, e)), db)
    BY <1>2, <2>2, <2>3, <2>4, <2>5, <2>6 DEF Entitled, BringsShipment
  <2> HIDE DEF e
  <2> QED BY <1>1, <1>4, <2>7, WriteFounded
<1> QED BY <1>3, <1>4 DEF CreateLastMileShipment

(* A link is asked for on a shipment:created message of the outbox.        *)
LEMMA HandleShipmentCreatedFounded ==
  ASSUME TypeOK, Control, AllFounded, NEW r \in Requests, HandleShipmentCreated(r)
  PROVE  AllFounded'
<1> DEFINE job == LinkShipmentJob(req[r].id, req[r].input)
           event == DecisionEvent(LinkDispatched, job)
<1>1. req[r].pc = "run" /\ req[r].input.type = ShipmentCreated /\ RequestOK(req[r])
  BY BusySlot DEF HandleShipmentCreated, Running
<1>2. req[r].input \in Message /\ req[r].id \in JobIds
  BY <1>1, InputByType DEF RequestOK, IdKind, DeliveredTypes, PostFulfilment,
     CreateJob, FulfilmentCreated, ShipmentCreated
<1>3. req[r].input \in db /\ IsMessage(req[r].input, ShipmentCreated)
  BY <1>1, <1>2 DEF AllFounded, Founded, Sent, PostFulfilment, CreateJob, ShipmentCreated,
                    IsMessage, Message
<1>4. Write(r, EmitJob(job, event))
  BY DEF HandleShipmentCreated
<1> HIDE DEF job
<1>5. Statements(EmitJob(job, event)) = Decision(job, LinkDispatched)
  BY StatementsOfUse DEF Decision
<1>6. Entitled(req[r], Statements(EmitJob(job, event)), db)
  BY <1>2, <1>3, <1>5 DEF Entitled, AsksForLink, job
<1> HIDE DEF event
<1> QED BY <1>1, <1>4, <1>6, WriteFounded

(* Between its two reads a link request has planned nothing.               *)
LEMMA LoadShipmentToLinkFounded ==
  ASSUME TypeOK, AllFounded, NEW r \in Requests, LoadShipmentToLink(r)
  PROVE  AllFounded'
<1> req[r].pc = "run"
  BY DEF LoadShipmentToLink, Running
<1>1. ASSUME NEW code, code \notin {"ok", "COMMIT_FAILED"}, Fail(r, code)
      PROVE  AllFounded'
  BY <1>1, FailFounded
<1>3. ASSUME NEW s, req' = [req EXCEPT ![r].pc = "link", ![r].shipment = s], db' = db
      PROVE  AllFounded'
  <2> DEFINE q == [req[r] EXCEPT !.pc = "link", !.shipment = s]
  <2>1. q.pc = "link" /\ q.id = req[r].id /\ req' = [req EXCEPT ![r] = q]
    BY <1>3 DEF TypeOK, Slot
  <2> HIDE DEF q
  <2>2. Founded(q, db)
    BY <2>1 DEF Founded
  <2> QED BY <1>3, <2>1, <2>2, SlotKeepsId DEF TypeOK
<1> QED BY <1>1, <1>3 DEF LoadShipmentToLink

(* Linking writes a fulfilment that exists.                                *)
LEMMA LinkShipmentToFulfilmentFounded ==
  ASSUME TypeOK, Control, AllFounded, NEW r \in Requests, LinkShipmentToFulfilment(r)
  PROVE  AllFounded'
<1> req[r].pc = "link"
  BY DEF LinkShipmentToFulfilment
<1>1. ASSUME NEW code, code \notin {"ok", "COMMIT_FAILED"}, Fail(r, code)
      PROVE  AllFounded'
  BY <1>1, FailFounded
<1>3. ASSUME NEW f \in FulfilmentById(req[r].tenant, req[r].input.fulfilmentId), NEW event,
             Write(r, CommitAggregate(LinkShipment(f, req[r].shipment.id), event))
      PROVE  AllFounded'
  <2> DEFINE linked == LinkShipment(f, req[r].shipment.id)
  <2>1. f \in FulfilmentRow /\ f \in db
    BY ReadTypes DEF FulfilmentById
  <2>2. Conflicts(f, linked)
    BY <2>1 DEF Conflicts, LinkShipment, FulfilmentRow
  <2>3. Write(r, CommitAggregate(linked, event))
    BY <1>3
  <2> HIDE DEF linked
  <2> QED BY <2>1, <2>2, <2>3, RewriteFounded DEF LinkShipmentToFulfilment
<1> QED BY <1>1, <1>3 DEF LinkShipmentToFulfilment

(* Marking a shipment ready writes a shipment that exists.                 *)
LEMMA MarkShipmentReadyFounded ==
  ASSUME TypeOK, Control, AllFounded, NEW r \in Requests, MarkShipmentReady(r)
  PROVE  AllFounded'
<1> req[r].pc = "run"
  BY DEF MarkShipmentReady, Running
<1>1. ASSUME NEW code, code \notin {"ok", "COMMIT_FAILED"}, Fail(r, code)
      PROVE  AllFounded'
  BY <1>1, FailFounded
<1>3. ASSUME NEW s \in ShipmentById(req[r].tenant, req[r].input.shipmentId), NEW event,
             Write(r, CommitAggregate(MarkReady(s), event))
      PROVE  AllFounded'
  <2> DEFINE ready == MarkReady(s)
  <2>1. s \in ShipmentRow /\ s \in db
    BY ReadTypes DEF ShipmentById
  <2>2. Conflicts(s, ready)
    BY <2>1 DEF Conflicts, AggregateTables, MarkReady, ShipmentRow
  <2>3. Write(r, CommitAggregate(ready, event))
    BY <1>3
  <2> HIDE DEF ready
  <2> QED BY <2>1, <2>2, <2>3, RewriteFounded DEF MarkShipmentReady, Running
<1> QED BY <1>1, <1>3 DEF MarkShipmentReady

LEMMA UseCaseFounded ==
  ASSUME TypeOK, Control, AllFounded, NEW r \in Requests, UseCase(r)
  PROVE  AllFounded'
BY CreateLastMileFulfilmentFounded, HandleFulfilmentCreatedFounded,
   CreateLastMileShipmentFounded, HandleShipmentCreatedFounded, LoadShipmentToLinkFounded,
   LinkShipmentToFulfilmentFounded, MarkShipmentReadyFounded DEF UseCase

(* A request that passes its guards carries what Sent says, and draws an   *)
(* identifier that nobody has used.                                        *)
LEMMA ReceiveFounded ==
  ASSUME TypeOK, AllFounded, NEW r \in Requests, NEW in, NEW header, NEW waiting,
         Receive(r, in, header, waiting), db' = db,
         LET tenant == ResolveScope(header, BodyTenant(in))
         IN  Precheck(in, tenant) = "ok" =>
               /\ in.type = PostFulfilment => tenant \in Openers
               /\ in.type = CreateJob =>
                    (in \in db /\ tenant = in.tenantId) \/ tenant \notin Openers
               /\ in.type = ShipmentCreated => in \in db
  PROVE  AllFounded'
<1> DEFINE tenant == ResolveScope(header, BodyTenant(in))
           code == Precheck(in, tenant)
           id   == CHOOSE x \in FreshIds(in) : TRUE
           q == [Idle EXCEPT !.pc = IF code = "ok" THEN "run" ELSE "close",
                             !.input = in, !.tenant = tenant, !.waiting = waiting,
                             !.id = id, !.outcome = code]
<1>1. req' = [req EXCEPT ![r] = q]
  BY DEF Receive
<1>2. id \in FreshIds(in)
  BY DEF Receive
<1>3. id \in JobIds => id \notin UsedIds
  BY <1>2, DomainAssumption DEF FreshIds
<1>4. id \notin UsedIds => Unused(id) /\ Owned(id, r)
  BY DEF UsedIds, Unused, Owned
<1> HIDE DEF code, id, tenant
<1>5. /\ q.pc = (IF code = "ok" THEN "run" ELSE "close") /\ q.outcome = code
      /\ q.input = in /\ q.tenant = tenant /\ q.id = id
  BY DEF Idle
<1>6. code = "ok" => Sent(q, db)
  BY <1>5 DEF Sent, code, tenant
<1> HIDE DEF q
<1>7. code # "COMMIT_FAILED"
  BY DEF code, Precheck
<1>8. Founded(q, db)
  BY <1>5, <1>6, <1>7 DEF Founded
<1> QED BY <1>1, <1>3, <1>4, <1>5, <1>8, SlotFounded DEF TypeOK

(* Calls of others: a client names its tenant in the header, and what is   *)
(* not genuine is refused or names a tenant without fulfilments.           *)
LEMMA CallApiFounded ==
  ASSUME Genuine, TypeOK, AllFounded, NEW r \in Requests, CallApi(r)
  PROVE  AllFounded'
<1>1. PICK a \in ApiRequests : Receive(r, a.input, a.header, FALSE)
  BY DEF CallApi
<1>2. a.input.type = PostFulfilment => TenantOf(a) = a.header /\ a.header \in Openers
  BY DEF TenantOf, ResolveScope, BodyTenant, ClientTypes, Openers
<1>3. Precheck(a.input, TenantOf(a)) = "ok" =>
        /\ a.input.type # ShipmentCreated
        /\ a.input.type = CreateJob => TenantOf(a) \notin Openers
  BY DEF Genuine, GenuineShipments, GuardRefuses
<1>4. db' = db
  BY DEF CallApi
<1> QED BY <1>1, <1>2, <1>3, <1>4, ReceiveFounded DEF TenantOf

(* Deliveries: a message of the outbox, in the tenant it names.            *)
LEMMA DeliverFounded ==
  ASSUME TypeOK, AllFounded, NEW r \in Requests, Deliver(r)
  PROVE  AllFounded'
<1>1. PICK m \in db : m.type \in DeliveredTypes /\ Receive(r, m, None, TRUE)
  BY DEF Deliver
<1>2. m.type # PostFulfilment /\ ResolveScope(None, BodyTenant(m)) = m.tenantId
  BY <1>1 DEF ResolveScope, BodyTenant, ClientTypes, DeliveredTypes, JobTypes,
              PostFulfilment, PostReady, FulfilmentCreated, ShipmentCreated, CreateJob, LinkJob
<1>3. db' = db
  BY DEF Deliver
<1> QED BY <1>1, <1>2, <1>3, ReceiveFounded

(* The only row a batch may strand on is a new fulfilment.                 *)
LEMMA StrandedIsNew ==
  ASSUME NEW q, NEW B, NEW rows, Entitled(q, B, rows), Authentic(rows),
         NEW x \in B, ~Readable(x)
  PROVE  NewFulfilment(x)
<1>1. x.table \in AggregateTables /\ x.leap
  BY DEF Readable
<1>2. \A m : AuditLog(m).table \notin AggregateTables
  BY DEF AuditLog, AggregateTables
<1>3. \A type, y : /\ FulfilmentEvent(type, y).table \notin AggregateTables
                   /\ AuditMessage(FulfilmentEvent(type, y)).table \notin AggregateTables
                   /\ ShipmentEvent(type, y).table \notin AggregateTables
                   /\ AuditMessage(ShipmentEvent(type, y)).table \notin AggregateTables
  BY EventFields DEF AggregateTables
<1>4. CASE OpensFulfilment(q, B)
  BY <1>1, <1>2, <1>3, <1>4 DEF OpensFulfilment, Creation
<1>5. CASE AsksForShipment(q, B, rows)
  BY <1>1, <1>5 DEF AsksForShipment, Decision, CreateShipmentJob, DecisionEvent, OutboxMessage,
                    AggregateTables
<1>6. CASE BringsShipment(q, B, rows)
  <2> DEFINE s == ShipmentCreate(q.id, q.input.tenantId, q.input)
  <2>1. s.leap = q.input.leap /\ ~q.input.leap
    BY <1>6 DEF BringsShipment, Authentic, ShipmentCreate
  <2>2. B = Creation(s, ShipmentEvent(ShipmentCreated, s))
    BY <1>6 DEF BringsShipment
  <2> HIDE DEF s
  <2>3. x = s
    BY <1>1, <1>2, <1>3, <2>2 DEF Creation
  <2> QED BY <1>1, <2>1, <2>3
<1>7. CASE AsksForLink(q, B, rows)
  BY <1>1, <1>7 DEF AsksForLink, Decision, LinkShipmentJob, DecisionEvent, OutboxMessage,
                    AggregateTables
<1> QED BY <1>4, <1>5, <1>6, <1>7 DEF Entitled

(* A statement moves within the batch, or strands on its first row.        *)
LEMMA ExecuteFounded ==
  ASSUME TypeOK, Control, AllFounded, NEW r \in Requests, Execute(r)
  PROVE  AllFounded'
<1> DEFINE q == req[r]
<1>1. /\ q.pc = "write" /\ q \in Slot /\ q.todo \in Seq(Row) /\ q.todo # <<>> /\ db' = db
      /\ \/ req' = [req EXCEPT ![r] = Refused(q)]
         \/ /\ ~\E d \in db \cup q.staged : Conflicts(d, Head(q.todo))
            /\ ~Readable(Head(q.todo))
            /\ req' = [req EXCEPT ![r] = Stranded(q)]
         \/ req' = [req EXCEPT ![r] = Executed(q)]
  BY ExecuteCases
<1>2. /\ q.outcome = "ok" /\ Later(q.todo) /\ (q.staged # {} => Readable(Head(q.todo)))
      /\ Authentic(db) /\ Founded(q, db)
  BY <1>1 DEF Control, Progressing, AllFounded
<1> HIDE DEF q
<1>3. Statements(q.todo) = {Head(q.todo)} \cup Statements(Tail(q.todo))
  BY <1>1, StatementsOfTail
<1>4. Founded(Refused(q), db) /\ Refused(q).id = q.id
  <2>1. /\ Refused(q).pc = "close" /\ Refused(q).outcome = "TX_ABORTED"
        /\ Refused(q).id = q.id
    BY <1>1 DEF Slot, Refused
  <2> QED BY <2>1 DEF Founded
<1>5. ASSUME ~\E d \in db \cup q.staged : Conflicts(d, Head(q.todo)), ~Readable(Head(q.todo))
      PROVE  Founded(Stranded(q), db) /\ Stranded(q).id = q.id
  <2>1. /\ Stranded(q).pc = "close" /\ Stranded(q).outcome = "COMMIT_FAILED"
        /\ Stranded(q).staged = {Head(q.todo)} /\ Stranded(q).id = q.id /\ q.staged = {}
    BY <1>1, <1>2, <1>5 DEF Slot, Stranded
  <2>2. Batch(q) = Statements(q.todo) /\ Head(q.todo) \in Batch(q)
    BY <1>3, <2>1 DEF Batch
  <2>3. ~Doomed(q, db)
    <3>1. ASSUME NEW i \in 1..Len(q.todo), NEW d \in db
          PROVE  ~Conflicts(d, q.todo[i])
      <4>1. CASE i = 1
        BY <1>1, <1>5, <4>1
      <4>2. CASE i # 1
        <5>1. i \in 2..Len(q.todo)
          BY <1>1, <4>2
        <5> QED BY <1>2, <5>1 DEF Later, Conflicts, AggregateTables
      <4> QED BY <4>1, <4>2
    <3> QED BY <2>2, <3>1 DEF Doomed, Statements
  <2>4. Entitled(q, Batch(q), db)
    BY <1>1, <1>2, <2>3 DEF Founded
  <2>5. NewFulfilment(Head(q.todo))
    BY <1>2, <1>5, <2>2, <2>4, StrandedIsNew
  <2> QED BY <1>5, <2>1, <2>5 DEF Founded
<1>6. Founded(Executed(q), db) /\ Executed(q).id = q.id
  <2>1. /\ Executed(q).staged = q.staged \cup {Head(q.todo)} /\ Executed(q).todo = Tail(q.todo)
        /\ Executed(q).outcome = "ok" /\ Executed(q).input = q.input
        /\ Executed(q).pc \in {"write", "close"} /\ Executed(q).id = q.id
        /\ Executed(q).tenant = q.tenant
    BY <1>1, <1>2 DEF Slot, Executed
  <2>2. Batch(Executed(q)) = Batch(q)
    BY <1>3, <2>1 DEF Batch
  <2>3. Doomed(q, db) \/ Entitled(q, Batch(q), db)
    BY <1>1, <1>2 DEF Founded
  <2> QED BY <2>1, <2>2, <2>3, EntitledKept DEF Founded, Doomed
<1> QED BY <1>1, <1>4, <1>5, <1>6, SlotKeepsId DEF TypeOK, q

-----------------------------------------------------------------------------
(* The commit.  What ends well was not doomed, so it commits one of the    *)
(* contract's batches; what strands, its row; everything else nothing.     *)

Entry(q, B, rows) == /\ Entitled(q, B, rows)
                      /\ \A x \in B : Readable(x) /\ \A d \in rows : ~Conflicts(d, x)

Leftover(f, rows) == /\ NewFulfilment(f) /\ ~Readable(f)
                     /\ \A d \in rows : ~Conflicts(d, f)

LEMMA CommitIsEntry ==
  ASSUME TypeOK, RowsCompatible, Control, AllBundled, AllFounded, NEW r \in Requests, Commit(r)
  PROVE  \/ db' = db
         \/ /\ req[r].outcome = "ok"
            /\ db' = db \cup req[r].staged /\ Entry(req[r], req[r].staged, db)
         \/ /\ req[r].outcome = "COMMIT_FAILED"
            /\ \E f \in FulfilmentRow : db' = db \cup {f} /\ Leftover(f, db)
<1>1. req[r].pc = "close" /\ db' = db \cup Committed(req[r])
  BY DEF Commit
<1>2. \A x \in req[r].staged, d \in db : ~Conflicts(d, x)
  BY ConflictsSymmetric DEF RowsCompatible
<1>3. CASE req[r].outcome = "ok"
  <2>1. req[r].todo = <<>>
    BY <1>1, <1>3 DEF AllBundled, Bundled
  <2>2. Batch(req[r]) = req[r].staged /\ Committed(req[r]) = req[r].staged
    BY <1>3, <2>1 DEF Batch, Statements, Committed
  <2>3. ~Doomed(req[r], db)
    BY <1>2, <2>2 DEF Doomed
  <2>4. \A x \in req[r].staged : Readable(x)
    BY <1>3 DEF Control, Progressing
  <2> QED BY <1>1, <1>2, <1>3, <2>2, <2>3, <2>4 DEF AllFounded, Founded, Entry
<1>4. CASE req[r].outcome = "COMMIT_FAILED"
  <2>1. PICK f \in req[r].staged : NewFulfilment(f) /\ ~Readable(f) /\ req[r].staged = {f}
    BY <1>1, <1>4 DEF AllFounded, Founded
  <2>2. db' = db \cup {f}
    BY <1>1, <1>4, <2>1 DEF Committed
  <2> QED BY <1>2, <1>4, <2>1, <2>2 DEF Leftover, NewFulfilment
<1>5. CASE req[r].outcome \notin {"ok", "COMMIT_FAILED"}
  BY <1>1, <1>5 DEF Committed, Control, Progressing
<1> QED BY <1>3, <1>4, <1>5

(* The shape of what a commit adds, table by table.                        *)
LEMMA EventShapes ==
  ASSUME NEW f, NEW s, NEW m, NEW id, NEW type, NEW e
  PROVE  /\ FulfilmentEvent(type, f).table = "outbox_messages"
         /\ AuditMessage(FulfilmentEvent(type, f)).table = "outbox_messages"
         /\ FulfilmentEvent(type, f).type = type /\ FulfilmentEvent(type, f).job = None
         /\ AuditMessage(FulfilmentEvent(type, f)).type = OutboxAudit
         /\ AuditMessage(FulfilmentEvent(type, f)).job = None
         /\ ShipmentEvent(type, s).table = "outbox_messages"
         /\ AuditMessage(ShipmentEvent(type, s)).table = "outbox_messages"
         /\ ShipmentEvent(type, s).type = type /\ ShipmentEvent(type, s).job = None
         /\ AuditMessage(ShipmentEvent(type, s)).type = OutboxAudit
         /\ AuditMessage(ShipmentEvent(type, s)).job = None
         /\ CreateShipmentJob(id, f).table = "outbox_messages"
         /\ CreateShipmentJob(id, f).type = CreateJob /\ CreateShipmentJob(id, f).job = id
         /\ LinkShipmentJob(id, e).table = "outbox_messages"
         /\ LinkShipmentJob(id, e).type = LinkJob /\ LinkShipmentJob(id, e).job = id
         /\ AuditLog(m).table = "audit_logs"
BY DEF FulfilmentEvent, ShipmentEvent, CreateShipmentJob, LinkShipmentJob, OutboxMessage,
       AuditLog, AuditMessage

LEMMA DecisionShape ==
  ASSUME NEW m, NEW type, NEW id, NEW f, NEW e,
         m = CreateShipmentJob(id, f) \/ m = LinkShipmentJob(id, e)
  PROVE  /\ DecisionEvent(type, m).table = "outbox_messages"
         /\ DecisionEvent(type, m).type = type /\ DecisionEvent(type, m).job = id
BY DEF DecisionEvent, CreateShipmentJob, LinkShipmentJob, OutboxMessage

(* A batch brings a message under its own job identifier or under none.    *)
LEMMA EntitledJobs ==
  ASSUME NEW q, NEW B, NEW rows, Entitled(q, B, rows), NEW m \in B,
         m.table = "outbox_messages"
  PROVE  m.job \in {None, q.id}
<1>1. CASE OpensFulfilment(q, B)
  BY <1>1, EventShapes DEF OpensFulfilment, Creation, FulfilmentRow
<1>2. CASE AsksForShipment(q, B, rows)
  BY <1>2, EventShapes, DecisionShape DEF AsksForShipment, Decision
<1>3. CASE BringsShipment(q, B, rows)
  <2> DEFINE s == ShipmentCreate(q.id, q.input.tenantId, q.input)
  <2>1. s.table = "last_mile_shipments" /\ B = Creation(s, ShipmentEvent(ShipmentCreated, s))
    BY <1>3 DEF BringsShipment, ShipmentCreate
  <2> HIDE DEF s
  <2> QED BY <2>1, EventShapes DEF Creation
<1>4. CASE AsksForLink(q, B, rows)
  BY <1>4, EventShapes, DecisionShape DEF AsksForLink, Decision
<1> QED BY <1>1, <1>2, <1>3, <1>4 DEF Entitled

(* A batch leaves the tables authentic.                                    *)
LEMMA EntitledAuthentic ==
  ASSUME NEW q, NEW B, NEW rows, Entitled(q, B, rows), Authentic(rows)
  PROVE  Authentic(rows \cup B)
<1>1. CASE OpensFulfilment(q, B)
  <2>1. PICK f \in FulfilmentRow :
          f.tenantId \in Openers /\ B = Creation(f, FulfilmentEvent(FulfilmentCreated, f))
    BY <1>1 DEF OpensFulfilment, NewFulfilment
  <2> QED BY <2>1, EventShapes
         DEF Authentic, Creation, FulfilmentRow, IsMessage, FulfilmentCreated, ShipmentCreated,
             CreateJob, OutboxAudit
<1>2. CASE AsksForShipment(q, B, rows)
  <2>1. PICK f \in rows : /\ f.table = "last_mile_fulfilments" /\ Readable(f)
                          /\ B = Decision(CreateShipmentJob(q.id, f), ShipmentRequested)
    BY <1>2 DEF AsksForShipment
  <2>2. ~CreateShipmentJob(q.id, f).leap
    BY <2>1 DEF CreateShipmentJob, OutboxMessage, Readable, AggregateTables
  <2> QED BY <2>1, <2>2, EventShapes, DecisionShape
         DEF Decision, Authentic, IsMessage, CreateJob, ShipmentRequested, ShipmentCreated
<1>3. CASE BringsShipment(q, B, rows)
  <2> DEFINE s == ShipmentCreate(q.id, q.input.tenantId, q.input)
  <2>2. s.table = "last_mile_shipments"
    BY DEF ShipmentCreate
  <2>3. B = Creation(s, ShipmentEvent(ShipmentCreated, s))
    BY <1>3 DEF BringsShipment
  <2> HIDE DEF s
  <2> QED BY <2>2, <2>3, EventShapes
         DEF Authentic, Creation, IsMessage, ShipmentCreated, CreateJob, OutboxAudit
<1>4. CASE AsksForLink(q, B, rows)
  BY <1>4, EventShapes, DecisionShape
     DEF AsksForLink, Decision, Authentic, IsMessage, LinkJob, LinkDispatched, ShipmentCreated,
         CreateJob
<1> QED BY <1>1, <1>2, <1>3, <1>4 DEF Entitled

(* The commit keeps the invariant: what it brings was entitled, or is a     *)
(* lone fulfilment, and its job identifier is no other request's.          *)
LEMMA CommitFounded ==
  ASSUME TypeOK, RowsCompatible, Control, AllBundled, AllFounded, NEW r \in Requests, Commit(r)
  PROVE  AllFounded'
<1> DEFINE q == Ended(req[r])
<1>1. req' = [req EXCEPT ![r] = q] /\ db \subseteq db' /\ q.pc = "answer" /\ q.id = req[r].id
  BY DEF Commit, Ended, TypeOK, Slot
<1> HIDE DEF q
<1>2. req'[r] = q /\ \A o \in Requests \ {r} : req'[o] = req[o]
  BY <1>1 DEF TypeOK
<1>3. /\ Authentic(db')
      /\ \A m \in db' \ db : m.table = "outbox_messages" => m.job \in {None, req[r].id}
  <2>1. CASE db' = db
    BY <2>1 DEF AllFounded
  <2>2. CASE db' = db \cup req[r].staged /\ Entry(req[r], req[r].staged, db)
    BY <2>2, EntitledAuthentic, EntitledJobs DEF AllFounded, Entry
  <2>3. ASSUME NEW f \in FulfilmentRow, db' = db \cup {f}, Leftover(f, db)
        PROVE  /\ Authentic(db')
               /\ \A m \in db' \ db : m.table = "outbox_messages" => m.job \in {None, req[r].id}
    BY <2>3 DEF AllFounded, Authentic, IsMessage, Leftover, NewFulfilment, FulfilmentRow
  <2> QED BY <2>1, <2>2, <2>3, CommitIsEntry
<1>4. ASSUME NEW o \in Requests
      PROVE  Founded(req'[o], db')
  <2>1. CASE o = r
    BY <1>1, <1>2, <2>1 DEF Founded
  <2>2. CASE o # r
    <3>1. Founded(req[o], db')
      BY <1>1, FoundedGrows DEF AllFounded
    <3> QED BY <1>2, <2>2, <3>1
  <2> QED BY <2>1, <2>2
<1>5. ASSUME NEW o \in Requests, req'[o].id \in JobIds
      PROVE  Owned(req[o].id, o)' /\ (req'[o].pc # "answer" => Unused(req[o].id)')
  <2>1. \A p \in Requests : req'[p].id = req[p].id
    BY <1>1, <1>2
  <2>2. Owned(req[o].id, o)'
    BY <1>5, <2>1 DEF AllFounded, Owned
  <2>3. ASSUME req'[o].pc # "answer"
        PROVE  Unused(req[o].id)'
    <3>1. o # r /\ req'[o] = req[o]
      BY <1>1, <1>2, <2>3
    <3>2. req[r].id # req[o].id /\ Unused(req[o].id) /\ req[o].id # None
      BY <1>5, <2>3, <3>1, DomainAssumption DEF AllFounded, Owned
    <3> QED BY <1>3, <3>1, <3>2 DEF Unused
  <2> QED BY <2>2, <2>3
<1> QED BY <1>3, <1>4, <1>5 DEF AllFounded

(* The answer frees the slot and its identifier.                           *)
LEMMA AnswerFounded ==
  ASSUME TypeOK, AllFounded, NEW r \in Requests, Answer(r)
  PROVE  AllFounded'
<1>1. Founded(Idle, db) /\ Idle.id \notin JobIds
  BY DomainAssumption DEF Founded, Idle
<1>2. req' = [req EXCEPT ![r] = Idle] /\ db' = db
  BY DEF Answer
<1> QED BY <1>1, <1>2, SlotFounded DEF TypeOK

(* A fault plans nothing.                                                  *)
LEMMA FaultFounded ==
  ASSUME TypeOK, AllFounded, Fault
  PROVE  AllFounded'
<1>1. CASE Crash
  <2>1. Founded(Idle, db) /\ Idle.id \notin JobIds
    BY DomainAssumption DEF Founded, Idle
  <2> QED BY <1>1, <2>1 DEF Crash, AllFounded
<1>2. ASSUME NEW r \in Requests, ReadFails(r) \/ StatementFails(r)
      PROVE  AllFounded'
  BY <1>2, ClosedFounded DEF ReadFails, StatementFails
<1>3. ASSUME NEW r \in Requests, Timeout(r)
      PROVE  AllFounded'
  <2> DEFINE q == [req[r] EXCEPT !.waiting = FALSE]
  <2>1. /\ q.staged = req[r].staged /\ q.todo = req[r].todo /\ q.pc = req[r].pc
        /\ q.outcome = req[r].outcome /\ q.input = req[r].input
        /\ q.tenant = req[r].tenant /\ q.id = req[r].id
    BY DEF TypeOK, Slot
  <2>2. req' = [req EXCEPT ![r] = q] /\ db' = db
    BY <1>3 DEF Timeout, TypeOK
  <2> HIDE DEF q
  <2>3. Batch(q) = Batch(req[r]) /\ Founded(req[r], db)
    BY <2>1 DEF Batch, AllFounded
  <2>4. Founded(q, db)
    BY <2>1, <2>3, EntitledKept DEF Founded, Sent, Doomed
  <2> QED BY <2>1, <2>2, <2>4, SlotKeepsId DEF TypeOK
<1> QED BY <1>1, <1>2, <1>3 DEF Fault

(* Every request that writes is entitled to, for any slots, tenants, notes, *)
(* faults and attempts.                                                    *)
THEOREM RequestsAreFounded == ASSUME Genuine PROVE Spec => []AllFounded
<1>1. Init => AllFounded
  BY DomainAssumption DEF Init, AllFounded, Authentic, Founded, Idle
<1>2. TypeOK /\ RowsCompatible /\ Control /\ AllBundled /\ AllFounded /\ [Next]_vars
        => AllFounded'
  <2> SUFFICES ASSUME TypeOK, RowsCompatible, Control, AllBundled, AllFounded, [Next]_vars
               PROVE  AllFounded'
    OBVIOUS
  <2>1. ASSUME NEW r \in Requests, CallApi(r) \/ Deliver(r)
        PROVE  AllFounded'
    BY <2>1, CallApiFounded, DeliverFounded
  <2>2. ASSUME NEW r \in Requests, Step(r)
        PROVE  AllFounded'
    BY <2>2, UseCaseFounded, ExecuteFounded, CommitFounded, AnswerFounded DEF Step
  <2>3. CASE Fault
    BY <2>3, FaultFounded
  <2>4. CASE UNCHANGED vars
    BY <2>4 DEF vars, AllFounded, Unused, Owned
  <2> QED BY <2>1, <2>2, <2>3, <2>4 DEF Next
<1> QED BY <1>1, <1>2, TypeCorrect, RowsStayCompatible, ControlInvariant, BatchesStayWhole,
           PTL DEF Spec

-----------------------------------------------------------------------------
(* The refinement.  The contract's operators about rows are the process's. *)
LEMMA SameOperators ==
  ASSUME NEW a, NEW b, NEW c
  PROVE  /\ Contract!FulfilmentRow = FulfilmentRow
         /\ Contract!Readable(a) = Readable(a)
         /\ Contract!AuditLog(a) = AuditLog(a)
         /\ Contract!AuditMessage(a) = AuditMessage(a)
         /\ Contract!FulfilmentEvent(a, b) = FulfilmentEvent(a, b)
         /\ Contract!ShipmentEvent(a, b) = ShipmentEvent(a, b)
         /\ Contract!ShipmentCreate(a, b, c) = ShipmentCreate(a, b, c)
         /\ Contract!CreateShipmentJob(a, b) = CreateShipmentJob(a, b)
         /\ Contract!LinkShipmentJob(a, b) = LinkShipmentJob(a, b)
         /\ Contract!DecisionEvent(a, b) = DecisionEvent(a, b)
         /\ Contract!Conflicts(a, b) = Conflicts(a, b)
<1>1. Contract!FulfilmentRow = FulfilmentRow
  BY DEF Contract!FulfilmentRow, FulfilmentRow, Contract!Legs, Legs
<1>2. /\ Contract!AuditLog(a) = AuditLog(a)
      /\ Contract!AuditMessage(a) = AuditMessage(a)
      /\ Contract!Readable(a) = Readable(a)
  BY DEF Contract!AuditLog, AuditLog, Contract!ShipmentCreated, ShipmentCreated,
         Contract!ShipmentReady, ShipmentReady, Contract!AuditMessage, AuditMessage,
         Contract!OutboxAudit, OutboxAudit, Contract!Readable, Readable,
         Contract!AggregateTables, AggregateTables
<1>3. /\ Contract!FulfilmentEvent(a, b) = FulfilmentEvent(a, b)
      /\ Contract!ShipmentEvent(a, b) = ShipmentEvent(a, b)
      /\ Contract!ShipmentCreate(a, b, c) = ShipmentCreate(a, b, c)
  BY DEF Contract!FulfilmentEvent, FulfilmentEvent, Contract!ShipmentEvent, ShipmentEvent,
         Contract!ShipmentCreate, ShipmentCreate, Contract!OutboxMessage, OutboxMessage
<1>4. /\ Contract!CreateShipmentJob(a, b) = CreateShipmentJob(a, b)
      /\ Contract!LinkShipmentJob(a, b) = LinkShipmentJob(a, b)
      /\ Contract!DecisionEvent(a, b) = DecisionEvent(a, b)
  BY DEF Contract!CreateShipmentJob, CreateShipmentJob, Contract!LinkShipmentJob,
         LinkShipmentJob, Contract!DecisionEvent, DecisionEvent,
         Contract!OutboxMessage, OutboxMessage, Contract!CreateJob, CreateJob,
         Contract!LinkJob, LinkJob
<1>5. Contract!Conflicts(a, b) = Conflicts(a, b)
  BY DEF Contract!Conflicts, Conflicts, Contract!AggregateTables, AggregateTables
<1> QED BY <1>1, <1>2, <1>3, <1>4, <1>5

(* And so are its types of events and jobs.                                *)
LEMMA SameTypes ==
  /\ Contract!FulfilmentCreated = FulfilmentCreated
  /\ Contract!ShipmentCreated = ShipmentCreated
  /\ Contract!ShipmentRequested = ShipmentRequested
  /\ Contract!LinkDispatched = LinkDispatched
  /\ Contract!CreateJob = CreateJob
BY DEF Contract!FulfilmentCreated, FulfilmentCreated, Contract!ShipmentCreated, ShipmentCreated,
       Contract!ShipmentRequested, ShipmentRequested, Contract!LinkDispatched, LinkDispatched,
       Contract!CreateJob, CreateJob

(* What a batch adds to each table.                                        *)
LEMMA TablesGrow ==
  ASSUME NEW B, db' = db \cup B
  PROVE  \A name : Table(name)' = Table(name) \cup {x \in B : x.table = name}
BY DEF Table

(* An entry that creates an aggregate.                                     *)
LEMMA CreationGrows ==
  ASSUME NEW row, NEW event, event.table = "outbox_messages",
         AuditMessage(event).table = "outbox_messages", row.table \in AggregateTables,
         db' = db \cup Creation(row, event)
  PROVE  /\ Fulfilments' = IF row.table = "last_mile_fulfilments"
                           THEN Fulfilments \cup {row} ELSE Fulfilments
         /\ Shipments' = IF row.table = "last_mile_shipments"
                         THEN Shipments \cup {row} ELSE Shipments
         /\ Outbox' = Outbox \cup {event, AuditMessage(event)}
         /\ Table("audit_logs")' = Table("audit_logs") \cup {AuditLog(event)}
<1>1. AuditLog(event).table = "audit_logs"
  BY DEF AuditLog
<1>2. \A name : Table(name)' = Table(name) \cup {x \in Creation(row, event) : x.table = name}
  BY TablesGrow
<1>3. Table("audit_logs")' = Table("audit_logs") \cup {AuditLog(event)}
  BY <1>1, <1>2 DEF Creation, AggregateTables
<1>4. Outbox' = Outbox \cup {event, AuditMessage(event)}
  BY <1>1, <1>2 DEF Creation, Outbox, AggregateTables
<1>5. Fulfilments' = IF row.table = "last_mile_fulfilments"
                     THEN Fulfilments \cup {row} ELSE Fulfilments
  BY <1>1, <1>2 DEF Creation, Fulfilments, AggregateTables
<1>6. Shipments' = IF row.table = "last_mile_shipments"
                   THEN Shipments \cup {row} ELSE Shipments
  BY <1>1, <1>2 DEF Creation, Shipments, AggregateTables
<1> QED BY <1>3, <1>4, <1>5, <1>6

(* An entry that emits a job.                                              *)
LEMMA DecisionGrows ==
  ASSUME NEW job, NEW type, job.table = "outbox_messages",
         DecisionEvent(type, job).table = "outbox_messages",
         db' = db \cup Decision(job, type)
  PROVE  /\ Outbox' = Outbox \cup {job, DecisionEvent(type, job)}
         /\ UNCHANGED <<Fulfilments, Shipments, Table("audit_logs")>>
<1>1. \A name : Table(name)' = Table(name) \cup {x \in Decision(job, type) : x.table = name}
  BY TablesGrow
<1>2. Outbox' = Outbox \cup {job, DecisionEvent(type, job)}
  BY <1>1 DEF Decision, Outbox
<1>3. Fulfilments' = Fulfilments
  BY <1>1 DEF Decision, Fulfilments
<1>4. Shipments' = Shipments
  BY <1>1 DEF Decision, Shipments
<1>5. Table("audit_logs")' = Table("audit_logs")
  BY <1>1 DEF Decision
<1> QED BY <1>2, <1>3, <1>4, <1>5

(* A commit is a step of the contract.                                     *)
LEMMA EntryImplements ==
  ASSUME TypeOK, Authentic(db), NEW q, NEW B, Entry(q, B, db), db' = db \cup B,
         q.id \in JobIds => \A m \in Outbox : m.job # q.id
  PROVE  Contract!Next
<1>1. CASE OpensFulfilment(q, B)
  <2>1. PICK f \in FulfilmentRow :
          /\ f.linkedShipments = {} /\ ~f.awaiting
          /\ B = Creation(f, FulfilmentEvent(FulfilmentCreated, f))
    BY <1>1 DEF OpensFulfilment, NewFulfilment
  <2> DEFINE e == FulfilmentEvent(FulfilmentCreated, f)
  <2>2. f.table = "last_mile_fulfilments" /\ e.table = "outbox_messages"
    BY EventShapes DEF FulfilmentRow
  <2>3. Readable(f) /\ \A g \in Fulfilments : ~Conflicts(g, f)
    BY <2>1 DEF Entry, Creation, Fulfilments, Table
  <2>4. /\ Fulfilments' = Fulfilments \cup {f} /\ Shipments' = Shipments
        /\ Outbox' = Outbox \cup {e, AuditMessage(e)}
        /\ Table("audit_logs")' = Table("audit_logs") \cup {AuditLog(e)}
    BY <2>1, <2>2, EventShapes, CreationGrows DEF AggregateTables
  <2>5. Contract!CreateFulfilment(f)
    BY <2>1, <2>3, <2>4, SameOperators, SameTypes
       DEF Contract!CreateFulfilment, Contract!OpenFulfilment, Contract!Record
  <2> QED BY <2>5, SameOperators DEF Contract!Next
<1>2. CASE AsksForShipment(q, B, db)
  <2>1. PICK f \in db : /\ f.table = "last_mile_fulfilments" /\ f.missing = {} /\ Readable(f)
                        /\ B = Decision(CreateShipmentJob(q.id, f), ShipmentRequested)
    BY <1>2 DEF AsksForShipment
  <2> DEFINE job == CreateShipmentJob(q.id, f)
             e == DecisionEvent(ShipmentRequested, job)
  <2>2. job.table = "outbox_messages" /\ e.table = "outbox_messages" /\ job.job = q.id
    BY EventShapes, DecisionShape
  <2>3. f \in Fulfilments /\ q.id \in JobIds /\ \A m \in Outbox : m.job # job.job
    BY <1>2, <2>1, <2>2 DEF AsksForShipment, Fulfilments, Table
  <2>4. Outbox' = Outbox \cup {job, e} /\ UNCHANGED <<Fulfilments, Shipments, Table("audit_logs")>>
    <3> HIDE DEF job
    <3> QED BY <2>1, <2>2, DecisionGrows DEF job
  <2>5. Contract!RequestShipment(f, q.id)
    BY <2>1, <2>3, <2>4, SameOperators, SameTypes DEF Contract!RequestShipment, Contract!Emit
  <2> QED BY <2>3, <2>5 DEF Contract!Next
<1>3. CASE BringsShipment(q, B, db)
  <2> DEFINE j == q.input
             s == ShipmentCreate(q.id, j.tenantId, j)
             e == ShipmentEvent(ShipmentCreated, s)
  <2>2. /\ s.table = "last_mile_shipments" /\ s.id = q.id /\ e.table = "outbox_messages"
        /\ AuditMessage(e).table = "outbox_messages"
        /\ B = Creation(s, e) /\ q.id \in ShipmentIds
    BY <1>3, EventShapes DEF ShipmentCreate, BringsShipment
  <2>3. j \in Outbox /\ j.type = CreateJob
    BY <1>3 DEF BringsShipment, IsMessage, Outbox, Table
  <2>4. \A t \in Shipments : t.id # q.id
    <3> HIDE DEF s
    <3> QED BY <2>2 DEF Entry, Creation, Shipments, Table, Conflicts, AggregateTables
  <2>5. /\ Fulfilments' = Fulfilments /\ Shipments' = Shipments \cup {s}
        /\ Outbox' = Outbox \cup {e, AuditMessage(e)}
        /\ Table("audit_logs")' = Table("audit_logs") \cup {AuditLog(e)}
    <3> HIDE DEF s, e
    <3> QED BY <2>2, CreationGrows DEF AggregateTables
  <2>6. Contract!CreateShipment(j, q.id)
    BY <2>3, <2>4, <2>5, SameOperators, SameTypes DEF Contract!CreateShipment, Contract!Record
  <2> QED BY <2>2, <2>3, <2>6 DEF Contract!Next
<1>4. CASE AsksForLink(q, B, db)
  <2> DEFINE m == q.input
  <2>1. /\ m \in db /\ IsMessage(m, ShipmentCreated)
        /\ B = Decision(LinkShipmentJob(q.id, m), LinkDispatched)
    BY <1>4 DEF AsksForLink
  <2>2. PICK s \in db : s.table = "last_mile_shipments" /\ m = ShipmentEvent(ShipmentCreated, s)
    BY <2>1 DEF Authentic
  <2> DEFINE job == LinkShipmentJob(q.id, m)
             e == DecisionEvent(LinkDispatched, job)
  <2>3. job.table = "outbox_messages" /\ e.table = "outbox_messages" /\ job.job = q.id
    BY EventShapes, DecisionShape
  <2>4. s \in Shipments /\ q.id \in JobIds /\ \A x \in Outbox : x.job # job.job
    BY <1>4, <2>2, <2>3 DEF AsksForLink, Shipments, Table
  <2>5. Outbox' = Outbox \cup {job, e} /\ UNCHANGED <<Fulfilments, Shipments, Table("audit_logs")>>
    <3> HIDE DEF job
    <3> QED BY <2>1, <2>3, DecisionGrows DEF job
  <2>6. Contract!RequestLink(s, q.id)
    BY <2>2, <2>4, <2>5, SameOperators, SameTypes DEF Contract!RequestLink, Contract!Emit
  <2> QED BY <2>4, <2>6 DEF Contract!Next
<1> QED BY <1>1, <1>2, <1>3, <1>4 DEF Entry, Entitled

LEMMA LeftoverImplements ==
  ASSUME NEW f \in FulfilmentRow, Leftover(f, db), db' = db \cup {f}
  PROVE  Contract!Next
<1>1. \A name : Table(name)' = Table(name) \cup {x \in {f} : x.table = name}
  BY TablesGrow
<1>2. f.table = "last_mile_fulfilments"
  BY DEF FulfilmentRow
<1>3. /\ Fulfilments' = Fulfilments \cup {f} /\ Shipments' = Shipments /\ Outbox' = Outbox
      /\ Table("audit_logs")' = Table("audit_logs")
  BY <1>1, <1>2 DEF Fulfilments, Shipments, Outbox
<1>4. \A g \in Fulfilments : ~Conflicts(g, f)
  BY DEF Leftover, Fulfilments, Table
<1>5. Contract!StrandFulfilment(f)
  BY <1>3, <1>4, SameOperators
     DEF Leftover, NewFulfilment, Contract!StrandFulfilment, Contract!OpenFulfilment
<1> QED BY <1>5, SameOperators DEF Contract!Next

(* A commit is a step of the contract or none, every other step none.      *)
LEMMA StepImplements ==
  ASSUME TypeOK, RowsCompatible, Control, AllBundled, AllFounded, [Next]_vars
  PROVE  Contract!Next \/ db' = db
<1>1. ASSUME NEW r \in Requests, Commit(r)
      PROVE  Contract!Next \/ db' = db
  <2>1. req[r].id \in JobIds => \A m \in Outbox : m.job # req[r].id
    BY <1>1 DEF Commit, AllFounded, Unused, Outbox, Table
  <2>2. CASE db' = db \cup req[r].staged /\ Entry(req[r], req[r].staged, db)
    BY <2>1, <2>2, EntryImplements DEF AllFounded
  <2> QED BY <1>1, <2>2, CommitIsEntry, LeftoverImplements
<1>2. ASSUME NEW r \in Requests, Step(r)
      PROVE  Contract!Next \/ db' = db
  BY <1>1, <1>2, UseCaseStagesNothing DEF Step, Execute, Answer
<1>3. ASSUME NEW r \in Requests, CallApi(r) \/ Deliver(r)
      PROVE  db' = db
  BY <1>3 DEF CallApi, Deliver
<1>4. CASE Fault
  BY <1>4 DEF Fault, ReadFails, StatementFails, Timeout, Crash
<1>5. CASE UNCHANGED vars
  BY <1>5 DEF vars
<1> QED BY <1>2, <1>3, <1>4, <1>5 DEF Next

(* The interleaved, failing process commits nothing that the use cases of  *)
(* the contract, each run alone in one atomic step, would not have: stale  *)
(* reads, races, repeated deliveries, faults, stray calls and rows that    *)
(* cannot be read back are stutters of it or reach the tables as one of    *)
(* its five steps.                                                         *)
THEOREM ContractImplemented == ASSUME Genuine PROVE Spec => ImplementsContract
<1>1. Init => Contract!Init
  BY DEF Init, Contract!Init, Fulfilments, Shipments, Outbox, Table
<1>2. TypeOK /\ RowsCompatible /\ Control /\ AllBundled /\ AllFounded /\ [Next]_vars
        => [Contract!Next]_(Contract!vars)
  <2>1. db' = db => UNCHANGED Contract!vars
    BY DEF Contract!vars, Fulfilments, Shipments, Outbox, Table
  <2> QED BY <2>1, StepImplements
<1> QED BY <1>1, <1>2, TypeCorrect, RowsStayCompatible, ControlInvariant, BatchesStayWhole,
           RequestsAreFounded, PTL DEF Spec, ImplementsContract, Contract!Spec

-----------------------------------------------------------------------------
(* Redelivery.  What may still become a shipment of one fulfilment is a    *)
(* token: a shipment, an unsettled message on the way to one whose answer  *)
(* is not on its way yet, or a request that works for such a message and   *)
(* is no longer waited for.  A commit exchanges a token for the next; only *)
(* a creation makes the first, and only a lost answer another: a timeout   *)
(* leaves the message and the request both, a crash the message whose      *)
(* commit it leaves unacknowledged.                                        *)

Asks == {FulfilmentCreated, CreateJob}

Loose(q, id) ==
  /\ q.pc \notin {"idle", "answer"} /\ ~q.waiting /\ q.outcome = "ok"
  /\ q.input.type \in Asks /\ q.input.fulfilmentId = id /\ q.tenant \in Openers

Ticket(r) == [table |-> "request", slot |-> r]

(* The work for message m is committed, its answer still awaited.          *)
Answers(q, m) == q.waiting /\ q.pc = "answer" /\ q.outcome = "ok" /\ q.input = m

Owed(m) == m \notin settled /\ ~\E r \in Requests : Answers(req[r], m)

Tokens(id) == {s \in Shipments : s.fulfilmentId = id}
              \cup {m \in Outbox : m.type \in Asks /\ m.fulfilmentId = id /\ Owed(m)}
              \cup {Ticket(r) : r \in {o \in Requests : Loose(req[o], id)}}

Known(id) == IF \E f \in Fulfilments : f.id = id THEN 1 ELSE 0

WithinBudget(id) ==
  IsFiniteSet(Tokens(id)) /\ Cardinality(Tokens(id)) <= Known(id) + lost

(* A delivery that is waited for is the only one of its message, which is  *)
(* not settled yet.                                                        *)
Awaited(r) ==
  /\ req[r].input \in Outbox /\ req[r].input \notin settled
  /\ \A o \in Requests \ {r} : req[o].waiting => req[o].input # req[r].input

AllPaced == /\ \A r \in Requests : req[r].waiting => Awaited(r)
            /\ \A id \in FulfilmentIds : WithinBudget(id)

(* Counting tokens: fewer of them, one exchanged for another, one more.    *)
LEMMA SubsetBound ==
  ASSUME NEW S, NEW T, NEW n \in Nat, IsFiniteSet(S), Cardinality(S) <= n, T \subseteq S
  PROVE  IsFiniteSet(T) /\ Cardinality(T) <= n
<1>1. IsFiniteSet(T) /\ Cardinality(T) <= Cardinality(S)
  BY FS_Subset
<1>2. Cardinality(S) \in Nat /\ Cardinality(T) \in Nat
  BY <1>1, FS_CardinalityType
<1> QED BY <1>1, <1>2

LEMMA GrowthBound ==
  ASSUME NEW S, NEW T, NEW x, NEW n \in Nat, IsFiniteSet(S), Cardinality(S) <= n,
         T \subseteq S \cup {x}
  PROVE  IsFiniteSet(T) /\ Cardinality(T) <= n + 1
<1>1. Cardinality(S) \in Nat
  BY FS_CardinalityType
<1>2. /\ IsFiniteSet(S \cup {x})
      /\ Cardinality(S \cup {x}) = IF x \in S THEN Cardinality(S) ELSE Cardinality(S) + 1
  BY FS_AddElement
<1>3. Cardinality(S \cup {x}) <= n + 1 /\ n + 1 \in Nat
  BY <1>1, <1>2
<1> QED BY <1>2, <1>3, SubsetBound

LEMMA ExchangeBound ==
  ASSUME NEW S, NEW T, NEW x \in S, NEW y, NEW n \in Nat, IsFiniteSet(S), Cardinality(S) <= n,
         T \subseteq (S \ {x}) \cup {y}
  PROVE  IsFiniteSet(T) /\ Cardinality(T) <= n
<1>1. Cardinality(S) \in Nat /\ Cardinality(S) # 0
  BY FS_CardinalityType, FS_EmptySet
<1>2. IsFiniteSet(S \ {x}) /\ Cardinality(S \ {x}) = Cardinality(S) - 1
  BY FS_RemoveElement
<1>3. PICK k \in Nat : k + 1 = n /\ Cardinality(S \ {x}) <= k
  <2>1. n - 1 \in Nat /\ (n - 1) + 1 = n /\ Cardinality(S \ {x}) <= n - 1
    BY <1>1, <1>2
  <2> QED BY <2>1
<1>4. IsFiniteSet(T) /\ Cardinality(T) <= k + 1
  BY <1>2, <1>3, GrowthBound
<1> QED BY <1>3, <1>4

LEMMA UnionBound ==
  ASSUME NEW S, NEW T, NEW X, NEW n \in Nat, IsFiniteSet(S), Cardinality(S) <= n,
         IsFiniteSet(X), T \subseteq S \cup X
  PROVE  IsFiniteSet(T) /\ Cardinality(T) <= n + Cardinality(X)
<1>1. /\ IsFiniteSet(S \cup X)
      /\ Cardinality(S \cup X) = Cardinality(S) + Cardinality(X) - Cardinality(S \cap X)
  BY FS_Union
<1>2. IsFiniteSet(S \cap X)
  BY FS_Subset
<1>3. Cardinality(S) \in Nat /\ Cardinality(X) \in Nat /\ Cardinality(S \cap X) \in Nat
  BY <1>2, FS_CardinalityType
<1>4. Cardinality(S \cup X) <= n + Cardinality(X) /\ n + Cardinality(X) \in Nat
  BY <1>1, <1>3
<1> QED BY <1>1, <1>4, SubsetBound

LEMMA KnownGrows ==
  ASSUME TypeOK, NEW id, db \subseteq db', lost' = lost
  PROVE  /\ Known(id) + lost \in Nat /\ Known(id)' + lost' \in Nat
         /\ Known(id) + lost <= Known(id)' + lost'
<1>1. lost \in Nat
  BY DEF TypeOK
<1>2. Known(id) \in {0, 1} /\ Known(id)' \in {0, 1}
  BY DEF Known
<1>3. Known(id) = 1 => Known(id)' = 1
  BY DEF Known, Fulfilments, Table
<1> QED BY <1>1, <1>2, <1>3

(* A step that brings no token.                                            *)
LEMMA NoNewToken ==
  ASSUME TypeOK, NEW id, WithinBudget(id), Tokens(id)' \subseteq Tokens(id),
         db \subseteq db', lost' = lost
  PROVE  WithinBudget(id)'
<1>1. IsFiniteSet(Tokens(id)') /\ Cardinality(Tokens(id)') <= Known(id) + lost
  BY KnownGrows, SubsetBound DEF WithinBudget
<1>2. Cardinality(Tokens(id)') \in Nat
  BY <1>1, FS_CardinalityType
<1> QED BY <1>1, <1>2, KnownGrows DEF WithinBudget

(* The progress of one request that commits nothing, and asks for nothing  *)
(* it did not ask for before.                                              *)
LEMMA SlotTokens ==
  ASSUME TypeOK, AllPaced, NEW r \in Requests, req[r].pc # "answer",
         NEW q, req' = [req EXCEPT ![r] = q], db' = db, settled' = settled, lost' = lost,
         \A id \in FulfilmentIds : Loose(q, id) => Loose(req[r], id)
  PROVE  \A id \in FulfilmentIds : WithinBudget(id)'
<1> SUFFICES ASSUME NEW id \in FulfilmentIds PROVE WithinBudget(id)'
  OBVIOUS
<1>1. \A o \in Requests : Loose(req'[o], id) => Loose(req[o], id)
  BY DEF TypeOK
<1>2. \A m : Owed(m)' => Owed(m)
  BY DEF Owed, Answers, TypeOK
<1>3. Tokens(id)' \subseteq Tokens(id)
  BY <1>1, <1>2 DEF Tokens, Shipments, Outbox, Table
<1> QED BY <1>3, NoNewToken DEF AllPaced

LEMMA SlotPaced ==
  ASSUME TypeOK, AllPaced, NEW r \in Requests, req[r].pc # "answer",
         NEW q, req' = [req EXCEPT ![r] = q], db' = db, settled' = settled, lost' = lost,
         \A id \in FulfilmentIds : Loose(q, id) => Loose(req[r], id),
         q.waiting => req[r].waiting /\ q.input = req[r].input
  PROVE  AllPaced'
<1>1. \A o \in Requests : req'[o].waiting => req[o].waiting /\ req'[o].input = req[o].input
  BY DEF TypeOK
<1>2. \A o \in Requests : req'[o].waiting => Awaited(o)'
  BY <1>1 DEF AllPaced, Awaited, Outbox, Table
<1> QED BY <1>2, SlotTokens DEF AllPaced

(* A request that goes on keeps its input, its tenant and who waits for    *)
(* it; it may fail.                                                        *)
LEMMA ProgressPaced ==
  ASSUME TypeOK, AllPaced, NEW r \in Requests, req[r].pc \notin {"idle", "answer"},
         NEW q, req' = [req EXCEPT ![r] = q],
         db' = db, settled' = settled, lost' = lost,
         q.waiting = req[r].waiting, q.input = req[r].input, q.tenant = req[r].tenant,
         q.outcome = req[r].outcome \/ q.outcome # "ok"
  PROVE  AllPaced'
<1>1. \A id \in FulfilmentIds : Loose(q, id) => Loose(req[r], id)
  BY DEF Loose
<1> QED BY <1>1, SlotPaced

LEMMA ClosedPaced ==
  ASSUME TypeOK, AllPaced, NEW r \in Requests, req[r].pc \notin {"idle", "answer"},
         NEW code, code # "ok",
         req' = [req EXCEPT ![r].pc = "close", ![r].outcome = code],
         db' = db, settled' = settled, lost' = lost
  PROVE  AllPaced'
<1> DEFINE q == [req[r] EXCEPT !.pc = "close", !.outcome = code]
<1>1. /\ q.waiting = req[r].waiting /\ q.input = req[r].input /\ q.tenant = req[r].tenant
      /\ q.outcome = code
  BY DEF TypeOK, Slot
<1>2. req' = [req EXCEPT ![r] = q]
  BY DEF TypeOK
<1> HIDE DEF q
<1> QED BY <1>1, <1>2, ProgressPaced

LEMMA UseCasePaced ==
  ASSUME TypeOK, AllPaced, NEW r \in Requests, UseCase(r)
  PROVE  AllPaced'
<1>1. req[r].pc \notin {"idle", "answer"}
  BY DEF UseCase, CreateLastMileFulfilment, HandleFulfilmentCreated, CreateLastMileShipment,
         HandleShipmentCreated, LoadShipmentToLink, LinkShipmentToFulfilment,
         MarkShipmentReady, Running
<1>2. ASSUME NEW statements, Write(r, statements)
      PROVE  AllPaced'
  <2> DEFINE q == [req[r] EXCEPT !.pc = "write", !.todo = statements]
  <2>1. /\ q.waiting = req[r].waiting /\ q.input = req[r].input /\ q.tenant = req[r].tenant
        /\ q.outcome = req[r].outcome
    BY DEF TypeOK, Slot
  <2>2. req' = [req EXCEPT ![r] = q]
    BY <1>2 DEF Write, TypeOK
  <2> HIDE DEF q
  <2> QED BY <1>1, <1>2, <2>1, <2>2, ProgressPaced DEF Write
<1>3. ASSUME NEW code, code # "ok", Fail(r, code)
      PROVE  AllPaced'
  BY <1>1, <1>3, ClosedPaced DEF Fail
<1>4. ASSUME NEW s, req' = [req EXCEPT ![r].pc = "link", ![r].shipment = s],
             UNCHANGED <<db, settled, lost>>
      PROVE  AllPaced'
  <2> DEFINE q == [req[r] EXCEPT !.pc = "link", !.shipment = s]
  <2>1. /\ q.waiting = req[r].waiting /\ q.input = req[r].input /\ q.tenant = req[r].tenant
        /\ q.outcome = req[r].outcome
    BY DEF TypeOK, Slot
  <2>2. req' = [req EXCEPT ![r] = q]
    BY <1>4 DEF TypeOK
  <2> HIDE DEF q
  <2> QED BY <1>1, <1>4, <2>1, <2>2, ProgressPaced
<1>5. CASE CreateLastMileFulfilment(r)
  BY <1>2, <1>3, <1>5 DEF CreateLastMileFulfilment
<1>6. CASE HandleFulfilmentCreated(r)
  BY <1>2, <1>3, <1>6 DEF HandleFulfilmentCreated
<1>7. CASE CreateLastMileShipment(r)
  BY <1>2, <1>3, <1>7 DEF CreateLastMileShipment
<1>8. CASE HandleShipmentCreated(r)
  BY <1>2, <1>8 DEF HandleShipmentCreated
<1>9. CASE LoadShipmentToLink(r)
  BY <1>3, <1>4, <1>9 DEF LoadShipmentToLink
<1>10. CASE LinkShipmentToFulfilment(r)
  BY <1>2, <1>3, <1>10 DEF LinkShipmentToFulfilment
<1>11. CASE MarkShipmentReady(r)
  BY <1>2, <1>3, <1>11 DEF MarkShipmentReady
<1> QED BY <1>5, <1>6, <1>7, <1>8, <1>9, <1>10, <1>11 DEF UseCase

LEMMA ExecutePaced ==
  ASSUME TypeOK, AllPaced, NEW r \in Requests, Execute(r)
  PROVE  AllPaced'
<1>1. PICK q \in {Refused(req[r]), Stranded(req[r]), Executed(req[r])} :
        req' = [req EXCEPT ![r] = q]
  BY ExecuteCases
<1>2. req[r].pc = "write" /\ req[r] \in Slot /\ UNCHANGED <<db, settled, lost>>
  BY ExecuteCases
<1>3. /\ q.waiting = req[r].waiting /\ q.input = req[r].input /\ q.tenant = req[r].tenant
      /\ q.outcome = req[r].outcome \/ q.outcome # "ok"
  BY <1>1, <1>2 DEF Slot, Refused, Stranded, Executed
<1> QED BY <1>1, <1>2, <1>3, ProgressPaced

(* Calls of others are not waited for by FlowCatalyst, and ask for no      *)
(* shipment of a tenant that opens fulfilments.                            *)
LEMMA CallApiPaced ==
  ASSUME Genuine, GenuineCreations, TypeOK, AllPaced, NEW r \in Requests, CallApi(r)
  PROVE  AllPaced'
<1>1. PICK a \in ApiRequests : Receive(r, a.input, a.header, FALSE)
  BY DEF CallApi
<1> DEFINE code == Precheck(a.input, TenantOf(a))
           id == CHOOSE x \in FreshIds(a.input) : TRUE
           q == [Idle EXCEPT !.pc = IF code = "ok" THEN "run" ELSE "close",
                             !.input = a.input, !.tenant = TenantOf(a), !.waiting = FALSE,
                             !.id = id, !.outcome = code]
<1>2. req' = [req EXCEPT ![r] = q]
  BY <1>1 DEF Receive, TenantOf
<1> req[r].pc = "idle"
  BY <1>1 DEF Receive
<1>3. code = "ok" /\ a.input.type \in Asks => TenantOf(a) \notin Openers
  BY DEF Genuine, GenuineShipments, GenuineCreations, GuardRefuses, Asks
<1> HIDE DEF code, id
<1>4. ~q.waiting /\ q.outcome = code /\ q.input = a.input /\ q.tenant = TenantOf(a)
  BY DEF Idle
<1> HIDE DEF q
<1>5. UNCHANGED <<db, settled, lost>>
  BY DEF CallApi
<1>6. \A f : ~Loose(q, f)
  BY <1>3, <1>4 DEF Loose
<1> QED BY <1>2, <1>4, <1>5, <1>6, SlotPaced

(* A delivery is made of an unsettled message nobody else waits for.       *)
LEMMA DeliverPaced ==
  ASSUME TypeOK, AllPaced, NEW r \in Requests, Deliver(r)
  PROVE  AllPaced'
<1>1. PICK m \in db : /\ m.table = "outbox_messages" /\ Undelivered(m)
                      /\ Receive(r, m, None, TRUE)
  BY DEF Deliver
<1>2. UNCHANGED <<db, settled, lost>>
  BY DEF Deliver
<1> DEFINE tenant == ResolveScope(None, BodyTenant(m))
           code == Precheck(m, tenant)
           id == CHOOSE x \in FreshIds(m) : TRUE
           q == [Idle EXCEPT !.pc = IF code = "ok" THEN "run" ELSE "close",
                             !.input = m, !.tenant = tenant, !.waiting = TRUE,
                             !.id = id, !.outcome = code]
<1>3. req' = [req EXCEPT ![r] = q] /\ req[r].pc = "idle"
  BY <1>1 DEF Receive
<1> HIDE DEF code, id, tenant
<1>4. q.waiting /\ q.input = m
  BY DEF Idle
<1> HIDE DEF q
<1>5. req'[r] = q /\ \A o \in Requests \ {r} : req'[o] = req[o]
  BY <1>3 DEF TypeOK
<1>6. m \in Outbox /\ m \notin settled /\ \A o \in Requests : req[o].waiting => req[o].input # m
  BY <1>1 DEF Undelivered, Outbox, Table
<1>7. ASSUME NEW o \in Requests, req'[o].waiting
      PROVE  Awaited(o)'
  <2>1. CASE o = r
    BY <1>2, <1>4, <1>5, <1>6, <2>1 DEF Awaited, Outbox, Table
  <2>2. CASE o # r
    <3>1. req'[o] = req[o] /\ Awaited(o) /\ req[o].input # m
      BY <1>5, <1>6, <1>7, <2>2 DEF AllPaced
    <3> QED BY <1>2, <1>4, <1>5, <3>1 DEF Awaited, Outbox, Table
  <2> QED BY <2>1, <2>2
<1> QED BY <1>2, <1>3, <1>4, <1>7, SlotTokens DEF AllPaced, Loose

(* A timeout makes a second token of one message: the request that goes on *)
(* and the message that will be delivered again, or the message again      *)
(* beside what its request has committed.                                  *)
LEMMA TimeoutPaced ==
  ASSUME TypeOK, AllPaced, NEW r \in Requests, Timeout(r)
  PROVE  AllPaced'
<1> DEFINE q == [req[r] EXCEPT !.waiting = FALSE]
           again == IF req[r].pc = "answer" THEN req[r].input ELSE Ticket(r)
<1>1. ~q.waiting /\ q.pc = req[r].pc /\ req' = [req EXCEPT ![r] = q]
  BY DEF Timeout, TypeOK, Slot
<1> HIDE DEF q
<1>2. /\ ~req'[r].waiting /\ req'[r].pc = req[r].pc
      /\ \A o \in Requests \ {r} : req'[o] = req[o]
  BY <1>1 DEF TypeOK
<1>3. UNCHANGED <<db, settled>> /\ lost' = lost + 1
  BY DEF Timeout
<1>4. \A o \in Requests : req'[o].waiting => Awaited(o)'
  BY <1>2, <1>3 DEF AllPaced, Awaited, Outbox, Table
<1>5. ASSUME NEW id \in FulfilmentIds
      PROVE  WithinBudget(id)'
  <2>1. \A m : Owed(m)' => Owed(m) \/ m = again
    BY <1>2, <1>3 DEF Owed, Answers
  <2>2. \A o \in Requests : Loose(req'[o], id) => Loose(req[o], id) \/ Ticket(o) = again
    BY <1>2 DEF Loose
  <2> HIDE DEF again
  <2>3. Tokens(id)' \subseteq Tokens(id) \cup {again}
    BY <1>3, <2>1, <2>2 DEF Tokens, Shipments, Outbox, Table
  <2>4. Known(id)' = Known(id) /\ Known(id) \in {0, 1} /\ lost \in Nat
    BY <1>3 DEF Known, Fulfilments, Table, TypeOK
  <2>5. Known(id) + lost \in Nat /\ Known(id)' + lost' = (Known(id) + lost) + 1
    BY <1>3, <2>4
  <2>6. /\ IsFiniteSet(Tokens(id)')
        /\ Cardinality(Tokens(id)') <= (Known(id) + lost) + 1
    BY <2>3, <2>5, GrowthBound DEF AllPaced, WithinBudget
  <2> QED BY <2>5, <2>6 DEF WithinBudget
<1> QED BY <1>4, <1>5 DEF AllPaced

(* A crash makes one of every message whose answer it loses.               *)
LEMMA CrashPaced ==
  ASSUME TypeOK, AllPaced, Crash
  PROVE  AllPaced'
<1> DEFINE again == {req[r].input : r \in Unheard}
<1>1. /\ \A r \in Requests : req'[r] = Idle
      /\ UNCHANGED <<db, settled>> /\ lost' = lost + Cardinality(Unheard)
  BY DEF Crash
<1>2. ~Idle.waiting /\ (\A id : ~Loose(Idle, id)) /\ (\A m : ~Answers(Idle, m))
  BY DEF Idle, Loose, Answers
<1>3. IsFiniteSet(Unheard) /\ Cardinality(Unheard) \in Nat
  BY ProcessAssumption, FS_Subset, FS_CardinalityType DEF Unheard
<1>4. IsFiniteSet(again) /\ Cardinality(again) \in Nat /\ Cardinality(again) <= Cardinality(Unheard)
  <2> DEFINE inputs == [r \in Unheard |-> req[r].input]
  <2>1. inputs \in Surjection(Unheard, again)
    BY DEF Surjection
  <2> HIDE DEF again, inputs
  <2>2. IsFiniteSet(again) /\ Cardinality(again) <= Cardinality(Unheard)
    BY <1>3, <2>1, FS_Surjection
  <2> QED BY <2>2, FS_CardinalityType
<1>5. ASSUME NEW id \in FulfilmentIds
      PROVE  WithinBudget(id)'
  <2>1. \A m : Owed(m)' => Owed(m) \/ m \in again
    BY <1>1 DEF Owed, Answers, Unheard
  <2> HIDE DEF again
  <2>2. Tokens(id)' \subseteq Tokens(id) \cup again
    BY <1>1, <1>2, <2>1 DEF Tokens, Shipments, Outbox, Table
  <2>3. Known(id)' = Known(id) /\ Known(id) \in {0, 1} /\ lost \in Nat
    BY <1>1 DEF Known, Fulfilments, Table, TypeOK
  <2> Known(id) + lost \in Nat
    BY <2>3
  <2>4. /\ IsFiniteSet(Tokens(id)')
        /\ Cardinality(Tokens(id)') <= (Known(id) + lost) + Cardinality(again)
    BY <1>4, <2>2, UnionBound DEF AllPaced, WithinBudget
  <2>5. Cardinality(Tokens(id)') \in Nat
    BY <2>4, FS_CardinalityType
  <2>6. Cardinality(Tokens(id)') <= Known(id)' + lost'
    BY <1>1, <1>3, <1>4, <2>3, <2>4, <2>5
  <2> QED BY <2>4, <2>6 DEF WithinBudget
<1> QED BY <1>1, <1>2, <1>5 DEF AllPaced

LEMMA FaultPaced ==
  ASSUME TypeOK, AllPaced, Fault
  PROVE  AllPaced'
<1>1. ASSUME NEW r \in Requests, ReadFails(r) \/ StatementFails(r)
      PROVE  AllPaced'
  BY <1>1, ClosedPaced DEF ReadFails, StatementFails
<1> QED BY <1>1, TimeoutPaced, CrashPaced DEF Fault

(* A commit leaves every delivery awaited that was.                        *)
LEMMA CommitAwaited ==
  ASSUME TypeOK, AllPaced, NEW r \in Requests, Commit(r)
  PROVE  \A o \in Requests : req'[o].waiting => Awaited(o)'
<1>1. \A o \in Requests : req'[o].waiting = req[o].waiting /\ req'[o].input = req[o].input
  BY DEF Commit, TypeOK, Slot
<1>2. Outbox \subseteq Outbox' /\ settled' = settled
  BY DEF Commit, Outbox, Table
<1> QED BY <1>1, <1>2 DEF AllPaced, Awaited

(* The answer frees the slot and settles what was waited for; it brings no *)
(* token, since the commit has spent the one it acknowledges.              *)
LEMMA AnswerPaced ==
  ASSUME TypeOK, AllPaced, NEW r \in Requests, Answer(r)
  PROVE  AllPaced'
<1>1. req'[r] = Idle /\ (\A o \in Requests \ {r} : req'[o] = req[o]) /\ req[r].pc = "answer"
  BY DEF Answer, TypeOK
<1>2. ~Idle.waiting /\ \A id : ~Loose(Idle, id)
  BY DEF Idle, Loose
<1>3. ASSUME NEW o \in Requests, req'[o].waiting
      PROVE  Awaited(o)'
  <2>1. o # r /\ req'[o] = req[o] /\ Awaited(o)
    BY <1>1, <1>2, <1>3 DEF AllPaced
  <2>2. req[o].input \in Outbox'
    BY <2>1 DEF Awaited, Answer, Outbox, Table
  <2>3. req[o].input \notin settled'
    BY <2>1 DEF Awaited, Answer
  <2>4. \A p \in Requests \ {o} : req'[p].waiting => req'[p].input # req[o].input
    BY <1>1, <1>2, <2>1 DEF Awaited
  <2> QED BY <2>1, <2>2, <2>3, <2>4 DEF Awaited
<1>4. \A m : Owed(m)' => Owed(m)
  <2>1. settled \subseteq settled' /\ \A m : Answers(req[r], m) => m \in settled'
    BY DEF Answer, Answers, Accepted
  <2>2. \A m : \A o \in Requests \ {r} : Answers(req'[o], m) <=> Answers(req[o], m)
    BY <1>1
  <2> QED BY <2>1, <2>2 DEF Owed
<1>5. ASSUME NEW id \in FulfilmentIds
      PROVE  WithinBudget(id)'
  <2>1. db' = db /\ lost' = lost
    BY DEF Answer
  <2>2. Tokens(id)' \subseteq Tokens(id)
    BY <1>1, <1>2, <1>4, <2>1 DEF Tokens, Shipments, Outbox, Table
  <2> QED BY <2>1, <2>2, NoNewToken DEF AllPaced
<1> QED BY <1>3, <1>5 DEF AllPaced

(* What a commit does to the tokens: it adds those it writes, and spends   *)
(* the one the request worked for.                                         *)
IsAsking(x) == \/ x.table = "last_mile_shipments"
               \/ x.table = "outbox_messages" /\ x.type \in Asks

Spent(r) == IF req[r].waiting THEN req[r].input ELSE Ticket(r)

LEMMA CommitSlots ==
  ASSUME TypeOK, NEW r \in Requests, Commit(r)
  PROVE  /\ req[r].pc = "close" /\ req'[r].pc = "answer" /\ req'[r].waiting = req[r].waiting
         /\ req'[r].outcome = req[r].outcome /\ req'[r].input = req[r].input
         /\ \A o \in Requests \ {r} : req'[o] = req[o]
         /\ settled' = settled /\ lost' = lost /\ db \subseteq db'
BY DEF Commit, TypeOK, Slot

LEMMA CommitTokens ==
  ASSUME TypeOK, NEW r \in Requests, Commit(r), NEW B, db' = db \cup B, NEW id
  PROVE  Tokens(id)' \subseteq Tokens(id) \cup {x \in B : IsAsking(x) /\ x.fulfilmentId = id}
<1>1. \A o \in Requests : Loose(req'[o], id) => Loose(req[o], id)
  BY CommitSlots DEF Loose
<1>2. \A m : Owed(m)' => Owed(m)
  BY CommitSlots DEF Owed, Answers
<1> QED BY <1>1, <1>2 DEF Tokens, IsAsking, Shipments, Outbox, Table

LEMMA CommitSpends ==
  ASSUME TypeOK, AllPaced, NEW r \in Requests, Commit(r), req[r].outcome = "ok",
         req[r].input.type \in Asks, req[r].tenant \in Openers,
         NEW id, req[r].input.fulfilmentId = id, NEW spent, spent = Spent(r)
  PROVE  spent \in Tokens(id) /\ spent \notin Tokens(id)'
<1>1. \A o : Ticket(o).table = "request" /\ Ticket(o).slot = o
  BY DEF Ticket
<1>2. CASE req[r].waiting
  <2>1. spent = req[r].input /\ spent \in Outbox /\ Owed(spent)
    BY <1>2, CommitSlots DEF Spent, AllPaced, Awaited, Owed, Answers
  <2>2. ~Owed(spent)' /\ spent.table = "outbox_messages"
    <3>1. Answers(req'[r], spent)
      BY <1>2, <2>1, CommitSlots DEF Answers
    <3> QED BY <2>1, <3>1 DEF Owed, Outbox, Table
  <2> QED BY <1>1, <2>1, <2>2 DEF Tokens, Shipments, Table
<1>3. CASE ~req[r].waiting
  <2>1. Loose(req[r], id) /\ Spent(r) = Ticket(r)
    BY <1>3, CommitSlots DEF Loose, Spent
  <2>2. Ticket(r) \in Tokens(id)
    BY <2>1 DEF Tokens
  <2>3. \A o \in Requests : Loose(req'[o], id) => Ticket(o) # Ticket(r)
    BY <1>1, CommitSlots DEF Loose
  <2>4. Ticket(r) \notin Tokens(id)'
    BY <1>1, <2>3 DEF Tokens, Shipments, Outbox, Table
  <2> QED BY <2>1, <2>2, <2>4
<1> QED BY <1>2, <1>3

(* A commit that answers one of the two asks spends its token for at most  *)
(* one other.                                                              *)
LEMMA ExchangePaced ==
  ASSUME TypeOK, AllPaced, NEW r \in Requests, Commit(r), req[r].outcome = "ok",
         req[r].input.type \in Asks, req[r].tenant \in Openers,
         NEW B, db' = db \cup B,
         \A x, y \in B : IsAsking(x) /\ IsAsking(y) => x = y,
         \A x \in B : IsAsking(x) => x.fulfilmentId = req[r].input.fulfilmentId,
         NEW id \in FulfilmentIds
  PROVE  WithinBudget(id)'
<1>1. db \subseteq db' /\ lost' = lost
  BY CommitSlots
<1>2. WithinBudget(id)
  BY DEF AllPaced
<1>3. CASE id # req[r].input.fulfilmentId
  <2>1. Tokens(id)' \subseteq Tokens(id)
    BY <1>3, CommitTokens
  <2> QED BY <1>1, <1>2, <2>1, NoNewToken
<1>4. CASE id = req[r].input.fulfilmentId
  <2>1. PICK spent \in Tokens(id) : spent \notin Tokens(id)'
    BY <1>4, CommitSpends
  <2>2. PICK y : Tokens(id)' \subseteq (Tokens(id) \ {spent}) \cup {y}
    <3>1. PICK y : \A x \in B : IsAsking(x) => x = y
      OBVIOUS
    <3> QED BY <2>1, <3>1, CommitTokens
  <2>3. IsFiniteSet(Tokens(id)') /\ Cardinality(Tokens(id)') <= Known(id) + lost
    BY <1>1, <1>2, <2>2, KnownGrows, ExchangeBound DEF WithinBudget
  <2>4. Cardinality(Tokens(id)') \in Nat
    BY <2>3, FS_CardinalityType
  <2> QED BY <1>1, <2>3, <2>4, KnownGrows DEF WithinBudget
<1> QED BY <1>3, <1>4

(* A creation makes the first token of its fulfilment.                     *)
LEMMA CreationPaced ==
  ASSUME TypeOK, AllPaced, NEW r \in Requests, Commit(r),
         NEW f \in FulfilmentRow, NEW e, db' = db \cup Creation(f, e),
         e = FulfilmentEvent(FulfilmentCreated, f), \A d \in db : ~Conflicts(d, f),
         NEW id \in FulfilmentIds
  PROVE  WithinBudget(id)'
<1>1. db \subseteq db' /\ lost' = lost
  BY CommitSlots
<1>2. WithinBudget(id)
  BY DEF AllPaced
<1>3. \A x \in Creation(f, e) : IsAsking(x) => x = e
  BY EventShapes DEF Creation, IsAsking, FulfilmentRow, Asks, OutboxAudit, FulfilmentCreated,
                     CreateJob
<1>4. e.fulfilmentId = f.id
  BY DEF FulfilmentEvent, OutboxMessage
<1>5. CASE id # f.id
  <2>1. Tokens(id)' \subseteq Tokens(id)
    BY <1>3, <1>4, <1>5, CommitTokens
  <2> QED BY <1>1, <1>2, <2>1, NoNewToken
<1>6. CASE id = f.id
  <2>1. Tokens(id)' \subseteq Tokens(id) \cup {e}
    BY <1>3, CommitTokens
  <2>2. /\ IsFiniteSet(Tokens(id)')
        /\ Cardinality(Tokens(id)') <= (Known(id) + lost) + 1
    BY <1>1, <1>2, <2>1, KnownGrows, GrowthBound DEF WithinBudget
  <2>3. Known(id) = 0
    BY <1>6 DEF Known, Fulfilments, Table, Conflicts, AggregateTables, FulfilmentRow
  <2>4. Known(id)' = 1
    BY <1>6 DEF Known, Fulfilments, Table, Creation, FulfilmentRow
  <2>5. Known(id)' + lost' = (Known(id) + lost) + 1
    BY <1>1, <2>3, <2>4 DEF TypeOK
  <2> QED BY <2>2, <2>5 DEF WithinBudget
<1> QED BY <1>5, <1>6

LEMMA CommitPaced ==
  ASSUME TypeOK, RowsCompatible, Control, AllBundled, AllFounded, AllPaced,
         NEW r \in Requests, Commit(r)
  PROVE  AllPaced'
<1> DEFINE q == req[r]
           B == req[r].staged
<1> SUFFICES ASSUME NEW id \in FulfilmentIds PROVE WithinBudget(id)'
  BY CommitAwaited DEF AllPaced
<1>1. lost' = lost /\ db \subseteq db' /\ WithinBudget(id)
  BY CommitSlots DEF AllPaced
<1>2. CASE db' = db
  <2>1. db' = db \cup {}
    BY <1>2
  <2>2. Tokens(id)' \subseteq Tokens(id) \cup {x \in {} : IsAsking(x) /\ x.fulfilmentId = id}
    BY <2>1, CommitTokens
  <2>3. Tokens(id)' \subseteq Tokens(id)
    BY <2>2
  <2> QED BY <1>1, <2>3, NoNewToken
<1>3. CASE q.outcome = "ok" /\ db' = db \cup B /\ OpensFulfilment(q, B) /\ Entry(q, B, db)
  <2>1. PICK f \in FulfilmentRow : B = Creation(f, FulfilmentEvent(FulfilmentCreated, f))
    BY <1>3 DEF OpensFulfilment
  <2>2. \A d \in db : ~Conflicts(d, f)
    BY <1>3, <2>1 DEF Entry, Creation
  <2> QED BY <1>3, <2>1, <2>2, CreationPaced
<1>4. CASE q.outcome = "ok" /\ db' = db \cup B /\ AsksForShipment(q, B, db)
  <2>1. PICK f \in db :
          /\ f.table = "last_mile_fulfilments"
          /\ f.id = q.input.fulfilmentId /\ f.tenantId = q.tenant
          /\ B = Decision(CreateShipmentJob(q.id, f), ShipmentRequested)
    BY <1>4 DEF AsksForShipment
  <2> DEFINE job == CreateShipmentJob(q.id, f)
             event == DecisionEvent(ShipmentRequested, job)
  <2>2. job.fulfilmentId = q.input.fulfilmentId
    BY <2>1 DEF CreateShipmentJob, OutboxMessage
  <2>3. ~IsAsking(event)
    BY DecisionShape DEF IsAsking, Asks, ShipmentRequested, FulfilmentCreated, CreateJob
  <2>4. B = {job, event}
    BY <2>1 DEF Decision
  <2> HIDE DEF job, event
  <2>5. /\ \A x, y \in B : IsAsking(x) /\ IsAsking(y) => x = y
        /\ \A x \in B : IsAsking(x) => x.fulfilmentId = q.input.fulfilmentId
    BY <2>2, <2>3, <2>4
  <2>6. q.input.type \in Asks /\ q.tenant \in Openers
    BY <1>4, <2>1 DEF AsksForShipment, Asks, AllFounded, Authentic
  <2> QED BY <1>4, <2>5, <2>6, ExchangePaced
<1>5. CASE q.outcome = "ok" /\ db' = db \cup B /\ BringsShipment(q, B, db)
  <2> DEFINE s == ShipmentCreate(q.id, q.input.tenantId, q.input)
             event == ShipmentEvent(ShipmentCreated, s)
  <2>1. B = {s, AuditLog(event), event, AuditMessage(event)}
    BY <1>5 DEF BringsShipment, Creation
  <2>2. s.fulfilmentId = q.input.fulfilmentId
    BY DEF ShipmentCreate
  <2>3. ~IsAsking(event) /\ ~IsAsking(AuditLog(event)) /\ ~IsAsking(AuditMessage(event))
    BY EventShapes DEF IsAsking, Asks, ShipmentCreated, FulfilmentCreated, CreateJob, OutboxAudit
  <2> HIDE DEF s, event
  <2>4. /\ \A x, y \in B : IsAsking(x) /\ IsAsking(y) => x = y
        /\ \A x \in B : IsAsking(x) => x.fulfilmentId = q.input.fulfilmentId
    BY <2>1, <2>2, <2>3
  <2>5. q.input.type \in Asks /\ q.tenant \in Openers
    BY <1>5 DEF BringsShipment, IsMessage, Asks
  <2> QED BY <1>5, <2>4, <2>5, ExchangePaced
<1>6. CASE db' = db \cup B /\ AsksForLink(q, B, db)
  <2>1. \A x \in B : ~IsAsking(x)
    BY <1>6, EventShapes, DecisionShape
       DEF AsksForLink, Decision, IsAsking, Asks, LinkJob, LinkDispatched, FulfilmentCreated,
           CreateJob
  <2>2. Tokens(id)' \subseteq Tokens(id)
    BY <1>6, <2>1, CommitTokens
  <2> QED BY <1>1, <2>2, NoNewToken
<1>7. ASSUME NEW f \in FulfilmentRow, db' = db \cup {f}
      PROVE  WithinBudget(id)'
  <2>1. ~IsAsking(f)
    BY DEF IsAsking, FulfilmentRow
  <2>2. Tokens(id)' \subseteq Tokens(id) \cup {x \in {f} : IsAsking(x) /\ x.fulfilmentId = id}
    BY <1>7, CommitTokens
  <2>3. Tokens(id)' \subseteq Tokens(id)
    BY <2>1, <2>2
  <2> QED BY <1>1, <2>3, NoNewToken
<1>8. CASE q.outcome = "ok" /\ db' = db \cup B /\ Entry(q, B, db)
  BY <1>3, <1>4, <1>5, <1>6, <1>8 DEF Entry, Entitled
<1> QED BY <1>2, <1>7, <1>8, CommitIsEntry

(* FlowCatalyst waits for one delivery of a message at a time and sends no *)
(* settled one again: so each of a fulfilment's shipments, and each call   *)
(* that may still make one, is the creation's or that of a lost answer.    *)
THEOREM RedeliveryIsPaced ==
  ASSUME Genuine, GenuineCreations PROVE Spec => []AllPaced
<1>1. Init => AllPaced
  <2> SUFFICES ASSUME Init PROVE AllPaced
    OBVIOUS
  <2>1. \A r \in Requests : ~req[r].waiting /\ \A id : ~Loose(req[r], id)
    BY DEF Init, Idle, Loose
  <2>2. ASSUME NEW id \in FulfilmentIds
        PROVE  WithinBudget(id)
    <3>1. Tokens(id) = {}
      BY <2>1 DEF Init, Tokens, Shipments, Outbox, Table
    <3>2. Known(id) = 0 /\ lost = 0
      BY DEF Init, Known, Fulfilments, Table
    <3> QED BY <3>1, <3>2, FS_EmptySet DEF WithinBudget
  <2> QED BY <2>1, <2>2 DEF AllPaced
<1>2. TypeOK /\ RowsCompatible /\ Control /\ AllBundled /\ AllFounded /\ AllPaced /\ [Next]_vars
        => AllPaced'
  <2> SUFFICES ASSUME TypeOK, RowsCompatible, Control, AllBundled, AllFounded, AllPaced,
                      [Next]_vars
               PROVE  AllPaced'
    OBVIOUS
  <2>1. ASSUME NEW r \in Requests, CallApi(r) \/ Deliver(r)
        PROVE  AllPaced'
    BY <2>1, CallApiPaced, DeliverPaced
  <2>2. ASSUME NEW r \in Requests, Step(r)
        PROVE  AllPaced'
    BY <2>2, UseCasePaced, ExecutePaced, CommitPaced, AnswerPaced DEF Step
  <2>3. CASE Fault
    BY <2>3, FaultPaced
  <2>4. CASE UNCHANGED vars
    BY <2>4 DEF vars, AllPaced, Awaited, WithinBudget, Tokens, Owed, Known, Fulfilments,
                Shipments, Outbox, Table
  <2> QED BY <2>1, <2>2, <2>3, <2>4 DEF Next
<1> QED BY <1>1, <1>2, TypeCorrect, RowsStayCompatible, ControlInvariant, BatchesStayWhole,
           RequestsAreFounded, PTL DEF Spec

(* No handler looks for an earlier run of its message, so redelivery makes *)
(* duplicates; but only redelivery does, and it needs a lost answer for    *)
(* each: a fulfilment has at most one shipment more than answers were      *)
(* lost, for any number of requests, attempts and calls.                   *)
THEOREM DuplicatesNeedLostAnswers ==
  ASSUME Genuine, GenuineCreations PROVE Spec => []ShipmentsBoundedByLostAnswers
<1>1. TypeOK /\ AllPaced => ShipmentsBoundedByLostAnswers
  <2> SUFFICES ASSUME TypeOK, AllPaced, NEW f \in Fulfilments
               PROVE  Cardinality({s \in Shipments : s.fulfilmentId = f.id}) <= 1 + lost
    BY DEF ShipmentsBoundedByLostAnswers
  <2> DEFINE T == {s \in Shipments : s.fulfilmentId = f.id}
  <2>1. f.id \in FulfilmentIds
    BY RowsByTable DEF TypeOK, Fulfilments, Table, FulfilmentRow
  <2>2. T \subseteq Tokens(f.id) /\ WithinBudget(f.id) /\ Known(f.id) = 1
    BY <2>1 DEF AllPaced, Tokens, Known
  <2>3. 1 + lost \in Nat
    BY DEF TypeOK
  <2> HIDE DEF T
  <2>4. Cardinality(T) <= 1 + lost
    BY <2>2, <2>3, SubsetBound DEF WithinBudget
  <2> QED BY <2>4 DEF T
<1> QED BY <1>1, TypeCorrect, RedeliveryIsPaced, PTL
=============================================================================
