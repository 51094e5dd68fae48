----------------------- MODULE LastMileProcess_proofs -----------------------
(***************************************************************************)
(* Proofs about LastMileProcess, for every value of its constants.         *)
(***************************************************************************)
EXTENDS LastMileProcess, FiniteSetTheorems, TLAPS

(* A table's rows are of that table's type.                                *)
LEMMA RowsByTable ==
  ASSUME NEW x \in Row
  PROVE  /\ x.table = "last_mile_fulfilments" => x \in FulfilmentRow
         /\ x.table = "last_mile_shipments" => x \in ShipmentRow
         /\ x.table = "audit_logs" => x \in AuditRow
         /\ x.table = "outbox_messages" => x \in Message
BY DEF Row, FulfilmentRow, ShipmentRow, AuditRow, Message

(* The kinds of input by type.                                             *)
LEMMA InputByType ==
  ASSUME NEW in \in Input
  PROVE  /\ in.type = PostFulfilment => in \in FulfilmentCommand
         /\ in.type = PostReady => in \in ReadyCommand
         /\ in.type \in DeliveredTypes => in \in Message
BY DEF Input, FulfilmentCommand, ReadyCommand, Message, DeliveredTypes, JobTypes,
       EventTypes, PostFulfilment, PostReady, FulfilmentCreated, ShipmentRequested,
       AwaitingGeocoding, LinkDispatched, ShipmentLinked, ShipmentCreated, ShipmentReady,
       CreateJob, LinkJob, OutboxAudit

(* What an aggregate's commit writes are rows of the tables.               *)
LEMMA CommitAggregateRows ==
  ASSUME NEW row \in Row, NEW event \in Message, event.type \in EventTypes,
         event.type \in {ShipmentCreated, ShipmentReady} => event.shipmentId \in ShipmentIds
  PROVE  CommitAggregate(row, event) \in Seq(Row) /\ CommitAggregate(row, event) # <<>>
<1>1. AuditLog(event) \in AuditRow
  BY DEF AuditLog, AuditRow, Message
<1>2. AuditMessage(event) \in Message
  BY DEF AuditMessage, Message
<1> QED BY <1>1, <1>2 DEF CommitAggregate, Row

(* What an emitted job's commit writes are outbox rows.                    *)
LEMMA EmitJobRows ==
  ASSUME NEW job \in Message, NEW event \in Message
  PROVE  EmitJob(job, event) \in Seq(Row) /\ EmitJob(job, event) # <<>>
BY DEF EmitJob, Row
-----------------------------------------------------------------------------
(* Type correctness.                                                       *)

SlotOK(q) == q \in Slot /\ (q = Idle \/ (q.pc # "idle" /\ RequestOK(q)))

(* A free slot has the type of a slot.                                     *)
LEMMA IdleOK == SlotOK(Idle)
<1>1. <<>> \in Seq(Row)
  OBVIOUS
<1>2. Idle \in Slot
  BY <1>1 DEF Slot, Idle, Outcomes
<1> QED BY <1>2 DEF SlotOK

(* A step that rewrites one slot and leaves the other variables alone.     *)
LEMMA SlotStep ==
  ASSUME TypeOK, NEW r \in Requests, NEW q, SlotOK(q),
         req' = [req EXCEPT ![r] = q]
  PROVE  /\ req' \in [Requests -> Slot]
         /\ \A o \in Requests : req'[o] = Idle \/ (req'[o].pc # "idle" /\ RequestOK(req'[o]))
BY DEF TypeOK, SlotOK

(* A slot that is not free runs a well-formed request.                     *)
LEMMA BusySlot ==
  ASSUME TypeOK, NEW r \in Requests, req[r].pc # "idle"
  PROVE  req[r] \in Slot /\ RequestOK(req[r])
BY DEF TypeOK, Idle

(* A use case that decides on rows of the tables stays typed.              *)
LEMMA WriteType ==
  ASSUME TypeOK, NEW r \in Requests, req[r].pc \in {"run", "link"},
         NEW statements \in Seq(Row), statements # <<>>, Write(r, statements)
  PROVE  TypeOK'
<1> DEFINE q == [req[r] EXCEPT !.pc = "write", !.todo = statements]
<1>1. req[r] \in Slot /\ RequestOK(req[r])
  BY BusySlot
<1>2. q \in Slot /\ q.pc = "write"
  BY <1>1 DEF Slot
<1>3. RequestOK(q)
  BY <1>1 DEF RequestOK, Slot
<1>4. req' = [req EXCEPT ![r] = q]
  BY DEF Write, TypeOK
<1>5. SlotOK(q)
  BY <1>2, <1>3 DEF SlotOK
<1> HIDE DEF q
<1> QED BY <1>4, <1>5, SlotStep DEF TypeOK, Write

(* A use case that returns a failure stays typed.                          *)
LEMMA FailType ==
  ASSUME TypeOK, NEW r \in Requests, req[r].pc # "idle",
         NEW code \in Outcomes, Fail(r, code)
  PROVE  TypeOK'
<1> DEFINE q == [req[r] EXCEPT !.pc = "close", !.outcome = code]
<1>1. req[r] \in Slot /\ RequestOK(req[r])
  BY BusySlot
<1>2. q \in Slot /\ q.pc = "close"
  BY <1>1 DEF Slot
<1>3. RequestOK(q)
  BY <1>1 DEF RequestOK, Slot
<1>4. req' = [req EXCEPT ![r] = q]
  BY DEF Fail, TypeOK
<1>5. SlotOK(q)
  BY <1>2, <1>3 DEF SlotOK
<1> HIDE DEF q
<1> QED BY <1>4, <1>5, SlotStep DEF TypeOK, Fail

(* What a use case finds in the tables is a row of them.                   *)
LEMMA ReadTypes ==
  ASSUME TypeOK, NEW tenant, NEW id
  PROVE  FulfilmentById(tenant, id) \subseteq FulfilmentRow
         /\ ShipmentById(tenant, id) \subseteq ShipmentRow
BY RowsByTable DEF TypeOK, FulfilmentById, ShipmentById

(* POST /fulfilments stages a typed fulfilment under its fresh identifier. *)
LEMMA CreateLastMileFulfilmentType ==
  ASSUME TypeOK, NEW r \in Requests, CreateLastMileFulfilment(r)
  PROVE  TypeOK'
<1> DEFINE q == req[r]
           f == FulfilmentCreate(q.id, q.tenant, q.input)
           e == FulfilmentEvent(FulfilmentCreated, f)
<1>1. q.pc = "run" /\ q.input.type = PostFulfilment /\ RequestOK(q)
  BY BusySlot DEF CreateLastMileFulfilment, Running
<1>2. q.input \in FulfilmentCommand /\ q.id \in FulfilmentIds /\ q.tenant \in Tenants
  BY <1>1, InputByType DEF RequestOK, IdKind, PostFulfilment, CreateJob,
     FulfilmentCreated, ShipmentCreated
<1>3. f \in FulfilmentRow
  BY <1>2 DEF FulfilmentCreate, FulfilmentRow, FulfilmentCommand
<1>4. e \in Message /\ e.type = FulfilmentCreated
  BY <1>3 DEF FulfilmentEvent, OutboxMessage, Message, FulfilmentRow, EventTypes
<1>5. CommitAggregate(f, e) \in Seq(Row) /\ CommitAggregate(f, e) # <<>>
  BY <1>3, <1>4, CommitAggregateRows
     DEF Row, EventTypes, FulfilmentCreated, ShipmentCreated, ShipmentReady
<1>6. ASSUME NEW code \in Outcomes, Fail(r, code)
      PROVE  TypeOK'
  BY <1>1, <1>6, FailType
<1>7. CASE Write(r, CommitAggregate(f, e))
  <2> HIDE DEF f, e
  <2> QED BY <1>1, <1>5, <1>7, WriteType
<1> QED BY <1>6, <1>7 DEF CreateLastMileFulfilment, Outcomes

(* Both reactions to fulfilment:created, the job and the parking, are typed.*)
LEMMA HandleFulfilmentCreatedType ==
  ASSUME TypeOK, NEW r \in Requests, HandleFulfilmentCreated(r)
  PROVE  TypeOK'
<1>1. req[r].pc = "run" /\ req[r].input.type = FulfilmentCreated /\ RequestOK(req[r])
  BY BusySlot DEF HandleFulfilmentCreated, Running
<1>2. req[r].id \in JobIds
  BY <1>1 DEF RequestOK, IdKind, PostFulfilment, CreateJob, FulfilmentCreated
<1>3. ASSUME NEW code \in Outcomes, Fail(r, code)
      PROVE  TypeOK'
  BY <1>1, <1>3, FailType
<1>4. ASSUME NEW f \in FulfilmentById(req[r].tenant, req[r].input.fulfilmentId),
             LET job == CreateShipmentJob(req[r].id, f)
             IN  IF MissingLegs(f, req[r].input) # {}
                 THEN Write(r, CommitAggregate(ScheduleReaction(f),
                                               FulfilmentEvent(AwaitingGeocoding, f)))
                 ELSE Write(r, EmitJob(job, DecisionEvent(ShipmentRequested, job)))
      PROVE  TypeOK'
  <2> DEFINE job == CreateShipmentJob(req[r].id, f)
             event == DecisionEvent(ShipmentRequested, job)
             parked == ScheduleReaction(f)
             awaiting == FulfilmentEvent(AwaitingGeocoding, f)
  <2>1. f \in FulfilmentRow
    BY ReadTypes
  <2>2. job \in Message /\ event \in Message
    BY <2>1, <1>2 DEF CreateShipmentJob, DecisionEvent, OutboxMessage, Message,
                      FulfilmentRow, EventTypes, JobTypes
  <2>3. parked \in Row /\ awaiting \in Message /\ awaiting.type = AwaitingGeocoding
    BY <2>1 DEF ScheduleReaction, FulfilmentEvent, OutboxMessage, Message,
                FulfilmentRow, EventTypes, Row
  <2> HIDE DEF job, event, parked, awaiting
  <2>4. CASE Write(r, CommitAggregate(parked, awaiting))
    <3>1. /\ CommitAggregate(parked, awaiting) \in Seq(Row)
          /\ CommitAggregate(parked, awaiting) # <<>>
      BY <2>3, CommitAggregateRows
         DEF EventTypes, AwaitingGeocoding, ShipmentCreated, ShipmentReady
    <3> QED BY <3>1, <2>4, <1>1, WriteType
  <2>5. CASE Write(r, EmitJob(job, event))
    <3>1. EmitJob(job, event) \in Seq(Row) /\ EmitJob(job, event) # <<>>
      BY <2>2, EmitJobRows
    <3> QED BY <3>1, <2>5, <1>1, WriteType
  <2> QED BY <1>4, <2>4, <2>5 DEF job, event, parked, awaiting
<1> QED BY <1>3, <1>4 DEF HandleFulfilmentCreated, Outcomes

(* POST /shipments stages a typed shipment under its fresh identifier.     *)
LEMMA CreateLastMileShipmentType ==
  ASSUME TypeOK, NEW r \in Requests, CreateLastMileShipment(r)
  PROVE  TypeOK'
<1> DEFINE q == req[r]
           s == ShipmentCreate(q.id, q.tenant, q.input)
           e == ShipmentEvent(ShipmentCreated, s)
<1>1. q.pc = "run" /\ q.input.type = CreateJob /\ RequestOK(q)
  BY BusySlot DEF CreateLastMileShipment, Running
<1>2. q.input \in Message /\ q.id \in ShipmentIds /\ q.tenant \in Tenants
  BY <1>1, InputByType DEF RequestOK, IdKind, DeliveredTypes, JobTypes,
     PostFulfilment, CreateJob, FulfilmentCreated, ShipmentCreated
<1>3. s \in ShipmentRow /\ s.id \in ShipmentIds
  BY <1>2 DEF ShipmentCreate, ShipmentRow, Message
<1>4. e \in Message /\ e.type = ShipmentCreated /\ e.shipmentId \in ShipmentIds
  BY <1>3 DEF ShipmentEvent, OutboxMessage, Message, ShipmentRow, EventTypes
<1>5. CommitAggregate(s, e) \in Seq(Row) /\ CommitAggregate(s, e) # <<>>
  BY <1>3, <1>4, CommitAggregateRows DEF Row, EventTypes
<1>6. ASSUME NEW code \in Outcomes, Fail(r, code)
      PROVE  TypeOK'
  BY <1>1, <1>6, FailType
<1>7. CASE Write(r, CommitAggregate(s, e))
  <2> HIDE DEF s, e
  <2> QED BY <1>1, <1>5, <1>7, WriteType
<1> QED BY <1>6, <1>7 DEF CreateLastMileShipment, Outcomes

(* The link job made of a shipment:created event is a typed message.       *)
LEMMA HandleShipmentCreatedType ==
  ASSUME TypeOK, NEW r \in Requests, HandleShipmentCreated(r)
  PROVE  TypeOK'
<1> DEFINE job == LinkShipmentJob(req[r].id, req[r].input)
           event == DecisionEvent(LinkDispatched, job)
<1>1. req[r].pc = "run" /\ req[r].input.type = ShipmentCreated /\ RequestOK(req[r])
  BY BusySlot DEF HandleShipmentCreated, Running
<1>2. req[r].input \in Message /\ req[r].id \in JobIds
  BY <1>1, InputByType DEF RequestOK, IdKind, DeliveredTypes, PostFulfilment,
     CreateJob, FulfilmentCreated, ShipmentCreated
<1>3. job \in Message /\ event \in Message
  BY <1>2 DEF LinkShipmentJob, DecisionEvent, OutboxMessage, Message, EventTypes, JobTypes
<1>4. Write(r, EmitJob(job, event))
  BY DEF HandleShipmentCreated
<1> HIDE DEF job, event
<1>5. EmitJob(job, event) \in Seq(Row) /\ EmitJob(job, event) # <<>>
  BY <1>3, EmitJobRows
<1> QED BY <1>1, <1>4, <1>5, WriteType

(* The shipment a link request has loaded is a row of its table.           *)
LEMMA LoadShipmentToLinkType ==
  ASSUME TypeOK, NEW r \in Requests, LoadShipmentToLink(r)
  PROVE  TypeOK'
<1>1. req[r].pc = "run" /\ req[r].input.type = LinkJob
  BY DEF LoadShipmentToLink, Running
<1>2. req[r] \in Slot /\ RequestOK(req[r])
  BY <1>1, BusySlot
<1>3. ASSUME NEW code \in Outcomes, Fail(r, code)
      PROVE  TypeOK'
  BY <1>1, <1>3, FailType
<1>5. ASSUME NEW s \in ShipmentById(req[r].tenant, req[r].input.shipmentId),
             req' = [req EXCEPT ![r].pc = "link", ![r].shipment = s],
             UNCHANGED <<db, tries, settled, faults, lost>>
      PROVE  TypeOK'
  <2> DEFINE q == [req[r] EXCEPT !.pc = "link", !.shipment = s]
  <2>1. s \in ShipmentRow
    BY ReadTypes
  <2>2. q \in Slot /\ q.pc = "link"
    BY <1>2, <2>1 DEF Slot
  <2>3. RequestOK(q)
    BY <1>1, <1>2, <2>1 DEF RequestOK, Slot
  <2>4. req' = [req EXCEPT ![r] = q]
    BY <1>5 DEF TypeOK
  <2>5. SlotOK(q)
    BY <2>2, <2>3 DEF SlotOK
  <2> HIDE DEF q
  <2> QED BY <1>5, <2>4, <2>5, SlotStep DEF TypeOK
<1> QED BY <1>3, <1>5 DEF LoadShipmentToLink, Outcomes

(* A fulfilment with one more linked shipment is a typed row.              *)
LEMMA LinkShipmentToFulfilmentType ==
  ASSUME TypeOK, NEW r \in Requests, LinkShipmentToFulfilment(r)
  PROVE  TypeOK'
<1>1. req[r].pc = "link" /\ RequestOK(req[r])
  BY BusySlot DEF LinkShipmentToFulfilment
<1>2. req[r].shipment.id \in ShipmentIds
  BY <1>1 DEF RequestOK, ShipmentRow
<1>3. ASSUME NEW code \in Outcomes, Fail(r, code)
      PROVE  TypeOK'
  BY <1>1, <1>3, FailType
<1>5. ASSUME NEW f \in FulfilmentById(req[r].tenant, req[r].input.fulfilmentId),
             Write(r, CommitAggregate(LinkShipment(f, req[r].shipment.id),
                                      LinkedEvent(f, req[r].shipment.id)))
      PROVE  TypeOK'
  <2> DEFINE linked == LinkShipment(f, req[r].shipment.id)
             event == LinkedEvent(f, req[r].shipment.id)
  <2>1. f \in FulfilmentRow
    BY ReadTypes
  <2>2. linked \in Row
    BY <1>2, <2>1 DEF LinkShipment, FulfilmentRow, Row
  <2>3. event \in Message /\ event.type = ShipmentLinked
    BY <1>2, <2>1 DEF LinkedEvent, OutboxMessage, Message, FulfilmentRow, EventTypes
  <2>4. Write(r, CommitAggregate(linked, event))
    BY <1>5
  <2> HIDE DEF linked, event
  <2>5. CommitAggregate(linked, event) \in Seq(Row) /\ CommitAggregate(linked, event) # <<>>
    BY <2>2, <2>3, CommitAggregateRows
       DEF EventTypes, ShipmentLinked, ShipmentCreated, ShipmentReady
  <2> QED BY <1>1, <2>4, <2>5, WriteType
<1> QED BY <1>3, <1>5 DEF LinkShipmentToFulfilment, Outcomes

(* A shipment marked ready is a typed row.                                 *)
LEMMA MarkShipmentReadyType ==
  ASSUME TypeOK, NEW r \in Requests, MarkShipmentReady(r)
  PROVE  TypeOK'
<1>1. req[r].pc = "run"
  BY DEF MarkShipmentReady, Running
<1>2. ASSUME NEW code \in Outcomes, Fail(r, code)
      PROVE  TypeOK'
  BY <1>1, <1>2, FailType
<1>4. ASSUME NEW s \in ShipmentById(req[r].tenant, req[r].input.shipmentId),
             Write(r, CommitAggregate(MarkReady(s), ShipmentEvent(ShipmentReady, s)))
      PROVE  TypeOK'
  <2> DEFINE ready == MarkReady(s)
             event == ShipmentEvent(ShipmentReady, s)
  <2>1. s \in ShipmentRow
    BY ReadTypes
  <2>2. ready \in Row
    BY <2>1 DEF MarkReady, ShipmentRow, Row
  <2>3. event \in Message /\ event.type = ShipmentReady /\ event.shipmentId \in ShipmentIds
    BY <2>1 DEF ShipmentEvent, OutboxMessage, Message, ShipmentRow, EventTypes
  <2>4. Write(r, CommitAggregate(ready, event))
    BY <1>4
  <2> HIDE DEF ready, event
  <2>5. CommitAggregate(ready, event) \in Seq(Row) /\ CommitAggregate(ready, event) # <<>>
    BY <2>2, <2>3, CommitAggregateRows DEF EventTypes
  <2> QED BY <1>1, <2>4, <2>5, WriteType
<1> QED BY <1>2, <1>4 DEF MarkShipmentReady, Outcomes

(* The three ways a statement can end, as rewritings of the request.       *)
Refused(q)  == [q EXCEPT !.pc = "close", !.outcome = "TX_ABORTED"]
Stranded(q) == [q EXCEPT !.staged = @ \cup {Head(q.todo)}, !.todo = <<>>,
                         !.pc = "close", !.outcome = "COMMIT_FAILED"]
Executed(q) == [q EXCEPT !.staged = @ \cup {Head(q.todo)}, !.todo = Tail(q.todo),
                         !.pc = IF Tail(q.todo) = <<>> THEN "close" ELSE "write"]
Ended(q)    == [q EXCEPT !.pc = "answer", !.staged = {}, !.todo = <<>>]

(* A statement is refused, or its row is staged, unreadable or not.        *)
LEMMA ExecuteCases ==
  ASSUME TypeOK, NEW r \in Requests, Execute(r)
  PROVE  /\ req[r].pc = "write" /\ req[r] \in Slot /\ RequestOK(req[r])
         /\ req[r].todo \in Seq(Row) /\ req[r].todo # <<>> /\ Head(req[r].todo) \in Row
         /\ UNCHANGED <<db, tries, settled, faults, lost>>
         /\ \/ /\ \E d \in db \cup req[r].staged : Conflicts(d, Head(req[r].todo))
               /\ req' = [req EXCEPT ![r] = Refused(req[r])]
            \/ /\ ~\E d \in db \cup req[r].staged : Conflicts(d, Head(req[r].todo))
               /\ ~Readable(Head(req[r].todo))
               /\ req' = [req EXCEPT ![r] = Stranded(req[r])]
            \/ /\ ~\E d \in db \cup req[r].staged : Conflicts(d, Head(req[r].todo))
               /\ Readable(Head(req[r].todo))
               /\ req' = [req EXCEPT ![r] = Executed(req[r])]
<1>1. req[r].pc = "write" /\ req[r] \in Slot /\ RequestOK(req[r])
  BY BusySlot DEF Execute
<1>2. req[r].todo \in Seq(Row) /\ req[r].todo # <<>>
  BY <1>1 DEF Slot, RequestOK
<1>3. Head(req[r].todo) \in Row
  BY <1>2
<1> QED BY <1>1, <1>2, <1>3 DEF Execute, Refused, Stranded, Executed, TypeOK, Slot

(* A statement moves one typed row from todo to staged.                    *)
LEMMA ExecuteType ==
  ASSUME TypeOK, NEW r \in Requests, Execute(r)
  PROVE  TypeOK'
<1> DEFINE q == req[r]
<1>1. /\ q.pc = "write" /\ q \in Slot /\ RequestOK(q)
      /\ q.todo \in Seq(Row) /\ q.todo # <<>> /\ Head(q.todo) \in Row
  BY ExecuteCases
<1>2. Tail(q.todo) \in Seq(Row)
  BY <1>1
<1> HIDE DEF q
<1>3. SlotOK(Refused(q))
  <2>1. Refused(q) \in Slot /\ Refused(q).pc = "close"
    BY <1>1 DEF Slot, Outcomes, Refused
  <2>2. RequestOK(Refused(q))
    BY <1>1 DEF Slot, RequestOK, Refused
  <2> QED BY <2>1, <2>2 DEF SlotOK
<1>4. SlotOK(Stranded(q))
  <2>1. <<>> \in Seq(Row)
    OBVIOUS
  <2>2. Stranded(q) \in Slot /\ Stranded(q).pc = "close"
    BY <1>1, <2>1 DEF Slot, Outcomes, Stranded
  <2>3. RequestOK(Stranded(q))
    BY <1>1 DEF Slot, RequestOK, Stranded
  <2> QED BY <2>2, <2>3 DEF SlotOK
<1>5. SlotOK(Executed(q))
  <2>1. Executed(q) \in Slot /\ Executed(q).pc \in {"close", "write"}
    BY <1>1, <1>2 DEF Slot, Executed
  <2>2. RequestOK(Executed(q))
    BY <1>1, <1>2 DEF Slot, RequestOK, Executed
  <2> QED BY <2>1, <2>2 DEF SlotOK
<1>6. /\ UNCHANGED <<db, tries, settled, faults, lost>>
      /\ \E n \in {Refused(q), Stranded(q), Executed(q)} : req' = [req EXCEPT ![r] = n]
  BY ExecuteCases DEF q
<1> QED BY <1>3, <1>4, <1>5, <1>6, SlotStep DEF TypeOK

(* What a transaction commits is typed.                                    *)
LEMMA CommitType ==
  ASSUME TypeOK, NEW r \in Requests, Commit(r)
  PROVE  TypeOK'
<1>1. req[r].pc = "close" /\ req[r] \in Slot /\ RequestOK(req[r])
  BY BusySlot DEF Commit
<1>2. Committed(req[r]) \in SUBSET Row
  BY <1>1 DEF Committed, Slot
<1>3. db' \in SUBSET Row
  BY <1>2 DEF Commit, TypeOK
<1>4. SlotOK(Ended(req[r]))
  <2>1. <<>> \in Seq(Row)
    OBVIOUS
  <2>2. Ended(req[r]) \in Slot /\ Ended(req[r]).pc = "answer"
    BY <1>1, <2>1 DEF Slot, Ended
  <2>3. RequestOK(Ended(req[r]))
    BY <1>1 DEF Slot, RequestOK, Ended
  <2> QED BY <2>2, <2>3 DEF SlotOK
<1>5. req' = [req EXCEPT ![r] = Ended(req[r])]
  BY <1>1 DEF Commit, Ended, TypeOK, Slot
<1> QED BY <1>3, <1>4, <1>5, SlotStep DEF Commit, TypeOK

(* What is acknowledged is typed.                                          *)
LEMMA AnswerType ==
  ASSUME TypeOK, NEW r \in Requests, Answer(r)
  PROVE  TypeOK'
<1>1. RequestOK(req[r])
  BY BusySlot DEF Answer
<1>2. settled' \in SUBSET Message
  BY <1>1 DEF Answer, TypeOK, RequestOK
<1> QED BY <1>2, IdleOK, SlotStep DEF Answer, TypeOK

(* A request that arrives is well-formed, whatever it carries.             *)
LEMMA ReceiveType ==
  ASSUME TypeOK, NEW r \in Requests,
         NEW in \in Input, in.type \in ClientTypes \cup DeliveredTypes,
         NEW header \in Tenants \cup {None},
         NEW waiting \in BOOLEAN, waiting => in \in Message,
         Receive(r, in, header, waiting)
  PROVE  /\ req' \in [Requests -> Slot]
         /\ \A o \in Requests : req'[o] = Idle \/ (req'[o].pc # "idle" /\ RequestOK(req'[o]))
<1> DEFINE tenant == ResolveScope(header, BodyTenant(in))
           code   == Precheck(in, tenant)
           id     == CHOOSE x \in FreshIds(in) : TRUE
           q == [Idle EXCEPT !.pc = IF code = "ok" THEN "run" ELSE "close",
                             !.input = in, !.tenant = tenant, !.waiting = waiting,
                             !.id = id, !.outcome = code]
<1>1. id \in FreshIds(in)
  BY DEF Receive
<1>2. FreshIds(in) \subseteq IdKind(in)
  BY DEF FreshIds, IdKind, PostFulfilment, CreateJob, FulfilmentCreated, ShipmentCreated
<1>3. IdKind(in) \subseteq FulfilmentIds \cup ShipmentIds \cup JobIds \cup {None}
  BY DEF IdKind, PostFulfilment, CreateJob, FulfilmentCreated, ShipmentCreated
<1>4. tenant \in Tenants \cup {None}
  BY InputByType DEF ResolveScope, BodyTenant, Message
<1>5. code \in Outcomes /\ (code = "ok" => tenant # None)
  BY DEF Precheck, Outcomes
<1>6. Idle \in Slot
  BY IdleOK DEF SlotOK
<1> HIDE DEF tenant, code, id
<1>7. q \in Slot /\ q.pc \in {"run", "close"}
  <2>1. PICK pc \in {"run", "close"} : pc = IF code = "ok" THEN "run" ELSE "close"
    OBVIOUS
  <2>2. q = [Idle EXCEPT !.pc = pc, !.input = in, !.tenant = tenant, !.waiting = waiting,
                         !.id = id, !.outcome = code]
    BY <2>1
  <2>3. id \in FulfilmentIds \cup ShipmentIds \cup JobIds \cup {None}
    BY <1>1, <1>2, <1>3
  <2> HIDE DEF q
  <2> QED BY <1>4, <1>5, <1>6, <2>2, <2>3 DEF Slot
<1>8. RequestOK(q)
  BY <1>1, <1>2, <1>4, <1>5, <1>6 DEF Slot, RequestOK
<1>9. req' = [req EXCEPT ![r] = q]
  BY DEF Receive, tenant, code, id
<1>10. SlotOK(q)
  BY <1>7, <1>8 DEF SlotOK
<1> HIDE DEF q
<1> QED BY <1>9, <1>10, SlotStep

(* A call of an API client starts a typed request.                         *)
LEMMA CallApiType ==
  ASSUME TypeOK, NEW r \in Requests, CallApi(r)
  PROVE  TypeOK'
<1>1. PICK a \in ApiRequests : Receive(r, a.input, a.header, FALSE)
  BY DEF CallApi
<1>2. /\ a.header \in Tenants \cup {None}
      /\ a.input \in Input
      /\ a.input.type \in ClientTypes \cup DeliveredTypes
  BY ApiAssumption
<1>3. /\ req' \in [Requests -> Slot]
      /\ \A o \in Requests : req'[o] = Idle \/ (req'[o].pc # "idle" /\ RequestOK(req'[o]))
  BY <1>1, <1>2, ReceiveType
<1> QED BY <1>3 DEF CallApi, TypeOK

(* A delivery starts a typed request and counts one of its attempts.       *)
LEMMA DeliverType ==
  ASSUME TypeOK, NEW r \in Requests, Deliver(r)
  PROVE  TypeOK'
<1>1. PICK m \in {x \in db : x.table = "outbox_messages" /\ x.type \in DeliveredTypes} :
        /\ \E n \in 1..MaxAttempts : tries' = tries \cup {<<m, n>>}
        /\ Receive(r, m, None, TRUE)
  BY DEF Deliver
<1>2. m \in Message /\ m \in Input /\ m.type \in ClientTypes \cup DeliveredTypes
  BY <1>1, RowsByTable DEF TypeOK, Input
<1>3. /\ req' \in [Requests -> Slot]
      /\ \A o \in Requests : req'[o] = Idle \/ (req'[o].pc # "idle" /\ RequestOK(req'[o]))
  BY <1>1, <1>2, ReceiveType
<1>4. tries' \in SUBSET (Message \X (1..MaxAttempts))
  BY <1>1, <1>2 DEF TypeOK
<1> QED BY <1>3, <1>4 DEF Deliver, TypeOK

(* A failed read or statement closes the request.                          *)
LEMMA FailingType ==
  ASSUME TypeOK, NEW r \in Requests, ReadFails(r) \/ StatementFails(r)
  PROVE  TypeOK'
<1>1. PICK code \in {"REPO_READ_FAILED", "TX_ABORTED"} :
        req' = [req EXCEPT ![r].pc = "close", ![r].outcome = code]
  BY DEF ReadFails, StatementFails
<1> DEFINE q == [req[r] EXCEPT !.pc = "close", !.outcome = code]
<1>2. req[r].pc # "idle"
  BY DEF ReadFails, StatementFails
<1>3. req[r] \in Slot /\ RequestOK(req[r])
  BY <1>2, BusySlot
<1>4. SlotOK(q)
  <2>1. /\ q.pc = "close" /\ q.input = req[r].input /\ q.id = req[r].id
        /\ q.waiting = req[r].waiting
    BY <1>3 DEF Slot
  <2>2. q \in Slot
    BY <1>3 DEF Slot, Outcomes
  <2> HIDE DEF q
  <2>3. RequestOK(q)
    BY <1>3, <2>1 DEF RequestOK
  <2> QED BY <2>1, <2>2, <2>3 DEF SlotOK
<1>5. req' = [req EXCEPT ![r] = q]
  BY <1>1 DEF TypeOK
<1>6. faults' \in 0..MaxFaults
  BY ProcessAssumption DEF TypeOK, ReadFails, StatementFails
<1>7. UNCHANGED <<db, tries, settled, lost>>
  BY DEF ReadFails, StatementFails
<1> HIDE DEF q
<1> QED BY <1>4, <1>5, <1>6, <1>7, SlotStep DEF TypeOK

(* A delivery that is given up leaves a typed request behind.              *)
LEMMA TimeoutType ==
  ASSUME TypeOK, NEW r \in Requests, Timeout(r)
  PROVE  TypeOK'
<1> DEFINE q == [req[r] EXCEPT !.waiting = FALSE]
<1>1. req[r].pc # "idle"
  BY DEF Timeout, TypeOK, Idle
<1>2. req[r] \in Slot /\ RequestOK(req[r])
  BY <1>1, BusySlot
<1>3. SlotOK(q)
  <2>1. /\ q.pc = req[r].pc /\ q.input = req[r].input /\ q.id = req[r].id
        /\ q.tenant = req[r].tenant /\ q.shipment = req[r].shipment
        /\ q.todo = req[r].todo /\ q.waiting = FALSE
    BY <1>2 DEF Slot
  <2>2. q \in Slot
    BY <1>2 DEF Slot
  <2> HIDE DEF q
  <2>3. RequestOK(q)
    BY <1>2, <2>1 DEF RequestOK
  <2> QED BY <1>1, <2>1, <2>2, <2>3 DEF SlotOK
<1>4. req' = [req EXCEPT ![r] = q]
  BY DEF Timeout, TypeOK
<1>5. faults' \in 0..MaxFaults
  BY ProcessAssumption DEF TypeOK, Timeout
<1>6. lost' \in Nat
  BY DEF TypeOK, Timeout
<1>7. UNCHANGED <<db, tries, settled>>
  BY DEF Timeout
<1> HIDE DEF q
<1> QED BY <1>3, <1>4, <1>5, <1>6, <1>7, SlotStep DEF TypeOK

(* After a crash every slot is free and the tables are as they were.       *)
LEMMA CrashType ==
  ASSUME TypeOK, Crash
  PROVE  TypeOK'
<1>1. faults' \in 0..MaxFaults
  BY ProcessAssumption DEF TypeOK, Crash
<1>2. lost' \in Nat
  <2>1. IsFiniteSet(Unheard)
    BY ProcessAssumption, FS_Subset DEF Unheard
  <2>2. Cardinality(Unheard) \in Nat
    BY <2>1, FS_CardinalityType
  <2> QED BY <2>2 DEF TypeOK, Crash
<1> QED BY <1>1, <1>2, IdleOK DEF TypeOK, Crash, SlotOK

(* Every committed row, request, delivery and acknowledgement has its type *)
(* in every reachable state: no use case stages a row with a null tenant,  *)
(* an identifier of another kind or a field its table does not have.       *)
THEOREM TypeCorrect == Spec => []TypeOK
<1>1. Init => TypeOK
  BY IdleOK, ProcessAssumption DEF Init, TypeOK, SlotOK
<1>2. TypeOK /\ [Next]_vars => TypeOK'
  <2> SUFFICES ASSUME TypeOK, [Next]_vars
               PROVE  TypeOK'
    OBVIOUS
  <2>1. ASSUME NEW r \in Requests, UseCase(r)
        PROVE  TypeOK'
    BY <2>1, CreateLastMileFulfilmentType, HandleFulfilmentCreatedType,
       CreateLastMileShipmentType, HandleShipmentCreatedType, LoadShipmentToLinkType,
       LinkShipmentToFulfilmentType, MarkShipmentReadyType DEF UseCase
  <2>2. ASSUME NEW r \in Requests, Step(r)
        PROVE  TypeOK'
    BY <2>1, <2>2, ExecuteType, CommitType, AnswerType DEF Step
  <2>3. ASSUME NEW r \in Requests, CallApi(r) \/ Deliver(r)
        PROVE  TypeOK'
    BY <2>3, CallApiType, DeliverType
  <2>4. CASE Fault
    BY <2>4, FailingType, TimeoutType, CrashType DEF Fault
  <2>5. CASE UNCHANGED vars
    BY <2>5 DEF TypeOK, vars, RequestOK, IdKind
  <2> QED BY <2>2, <2>3, <2>4, <2>5 DEF Next
<1> QED BY <1>1, <1>2, PTL DEF Spec

-----------------------------------------------------------------------------
(* Uniqueness.  RowsCompatible is inductive on top of TypeOK; uniqueness   *)
(* of open source notes alone is not, since it says nothing of the rows    *)
(* that racing transactions hold and are about to commit.                  *)

(* It does not matter which of two conflicting rows came first.            *)
LEMMA ConflictsSymmetric ==
  ASSUME NEW a, NEW b, Conflicts(a, b)
  PROVE  Conflicts(b, a)
BY DEF Conflicts

(* Steps that stage nothing and commit nothing.                            *)
LEMMA NothingStaged ==
  ASSUME RowsCompatible, db' = db,
         \A r \in Requests : req'[r].staged \subseteq req[r].staged
  PROVE  RowsCompatible'
BY DEF RowsCompatible, LockedBy

(* A request that arrives has executed no statement.                       *)
LEMMA ReceiveStagesNothing ==
  ASSUME TypeOK, NEW r \in Requests, NEW in, NEW header, NEW waiting,
         Receive(r, in, header, waiting)
  PROVE  \A o \in Requests : req'[o].staged \subseteq req[o].staged
BY DEF Receive, TypeOK, Slot, Idle

(* Use cases read and decide; only statements stage rows.                  *)
LEMMA UseCaseStagesNothing ==
  ASSUME TypeOK, NEW r \in Requests, UseCase(r)
  PROVE  db' = db /\ \A o \in Requests : req'[o].staged \subseteq req[o].staged
<1>1. ASSUME NEW statements, Write(r, statements)
      PROVE  db' = db /\ \A o \in Requests : req'[o].staged \subseteq req[o].staged
  BY <1>1 DEF Write, TypeOK, Slot
<1>2. ASSUME NEW code, Fail(r, code)
      PROVE  db' = db /\ \A o \in Requests : req'[o].staged \subseteq req[o].staged
  BY <1>2 DEF Fail, TypeOK, Slot
<1>3. CASE CreateLastMileFulfilment(r)
  BY <1>1, <1>2, <1>3 DEF CreateLastMileFulfilment
<1>4. CASE HandleFulfilmentCreated(r)
  BY <1>1, <1>2, <1>4 DEF HandleFulfilmentCreated
<1>5. CASE CreateLastMileShipment(r)
  BY <1>1, <1>2, <1>5 DEF CreateLastMileShipment
<1>6. CASE HandleShipmentCreated(r)
  BY <1>1, <1>6 DEF HandleShipmentCreated
<1>7. CASE LoadShipmentToLink(r)
  <2>1. ASSUME NEW s, req' = [req EXCEPT ![r].pc = "link", ![r].shipment = s],
               UNCHANGED <<db, tries, settled, faults, lost>>
        PROVE  db' = db /\ \A o \in Requests : req'[o].staged \subseteq req[o].staged
    BY <2>1 DEF TypeOK, Slot
  <2> QED BY <1>2, <1>7, <2>1 DEF LoadShipmentToLink
<1>8. CASE LinkShipmentToFulfilment(r)
  BY <1>1, <1>2, <1>8 DEF LinkShipmentToFulfilment
<1>9. CASE MarkShipmentReady(r)
  BY <1>1, <1>2, <1>9 DEF MarkShipmentReady
<1> QED BY <1>3, <1>4, <1>5, <1>6, <1>7, <1>8, <1>9 DEF UseCase

(* An INSERT that neither waits nor fails conflicts with nothing.          *)
LEMMA ExecuteCompatible ==
  ASSUME TypeOK, RowsCompatible, NEW r \in Requests, Execute(r)
  PROVE  RowsCompatible'
<1> DEFINE row == Head(req[r].todo)
<1>1. CASE \E d \in db \cup req[r].staged : Conflicts(d, row)
  <2>1. req' = [req EXCEPT ![r] = Refused(req[r])] /\ db' = db
    BY <1>1, ExecuteCases
  <2>2. \A o \in Requests : req'[o].staged \subseteq req[o].staged
    BY <2>1 DEF TypeOK, Slot, Refused
  <2> QED BY <2>1, <2>2, NothingStaged
<1>2. CASE ~\E d \in db \cup req[r].staged : Conflicts(d, row)
  <2>1. PICK q \in {Stranded(req[r]), Executed(req[r])} : req' = [req EXCEPT ![r] = q]
    BY <1>2, ExecuteCases
  <2>2. /\ req'[r].staged = req[r].staged \cup {row}
        /\ \A o \in Requests \ {r} : req'[o].staged = req[o].staged
    <3>1. req \in [Requests -> Slot] /\ req[r] \in Slot
      BY DEF TypeOK
    <3>2. /\ Stranded(req[r]).staged = req[r].staged \cup {row}
          /\ Executed(req[r]).staged = req[r].staged \cup {row}
      BY <3>1 DEF Slot, Stranded, Executed
    <3>3. req'[r] = q /\ \A o \in Requests \ {r} : req'[o] = req[o]
      BY <2>1, <3>1
    <3> QED BY <3>2, <3>3
  <2>3. \A o \in Requests \ {r} : \A held \in req[o].staged : ~Conflicts(held, row)
    BY DEF Execute, LockedBy
  <2>4. db' = db
    BY DEF Execute
  <2> HIDE DEF row
  <2>5. ASSUME NEW o \in Requests, o = r
        PROVE  \A a \in req'[o].staged :
                  /\ \A b \in db' : ~Conflicts(a, b)
                  /\ \A b \in req'[o].staged : Conflicts(a, b) => a = b
                  /\ \A p \in Requests \ {o} : \A h \in req'[p].staged : ~Conflicts(h, a)
    BY <1>2, <2>2, <2>3, <2>4, <2>5, ConflictsSymmetric DEF RowsCompatible, LockedBy
  <2>6. ASSUME NEW o \in Requests \ {r}
        PROVE  \A a \in req'[o].staged :
                  /\ \A b \in db' : ~Conflicts(a, b)
                  /\ \A b \in req'[o].staged : Conflicts(a, b) => a = b
                  /\ \A p \in Requests \ {o} : \A h \in req'[p].staged : ~Conflicts(h, a)
    BY <2>2, <2>3, <2>4, ConflictsSymmetric DEF RowsCompatible, LockedBy
  <2>7. \A a, b \in db' : Conflicts(a, b) => a = b
    BY <2>4 DEF RowsCompatible
  <2>8. ASSUME NEW o \in Requests
        PROVE  \A a \in req'[o].staged :
                  /\ \A b \in db' : ~Conflicts(a, b)
                  /\ \A b \in req'[o].staged : Conflicts(a, b) => a = b
                  /\ \A p \in Requests \ {o} : \A h \in req'[p].staged : ~Conflicts(h, a)
    <3>1. CASE o = r
      BY <2>5, <3>1
    <3>2. CASE o # r
      BY <2>6, <3>2
    <3> QED BY <3>1, <3>2
  <2> QED BY <2>7, <2>8 DEF RowsCompatible, LockedBy
<1> QED BY <1>1, <1>2

(* The rows a transaction commits were compatible with all others.         *)
LEMMA CommitCompatible ==
  ASSUME TypeOK, RowsCompatible, NEW r \in Requests, Commit(r)
  PROVE  RowsCompatible'
<1>1. req'[r].staged = {} /\ \A o \in Requests \ {r} : req'[o].staged = req[o].staged
  BY DEF Commit, TypeOK, Slot
<1>2. PICK C \in SUBSET req[r].staged : db' = db \cup C
  BY DEF Commit, Committed
<1>3. \A a, b \in db' : Conflicts(a, b) => a = b
  BY <1>2, ConflictsSymmetric DEF RowsCompatible
<1>4. ASSUME NEW o \in Requests \ {r}, NEW a \in req[o].staged
      PROVE  /\ \A b \in db' : ~Conflicts(a, b)
             /\ \A b \in req[o].staged : Conflicts(a, b) => a = b
             /\ \A p \in Requests \ {o} : \A h \in req'[p].staged : ~Conflicts(h, a)
  BY <1>1, <1>2, ConflictsSymmetric DEF RowsCompatible, LockedBy
<1> QED BY <1>1, <1>3, <1>4 DEF RowsCompatible, LockedBy

(* However requests race past the uniqueness read, crash or are repeated,  *)
(* no two conflicting rows are ever committed or about to be.              *)
THEOREM RowsStayCompatible == Spec => []RowsCompatible
<1>1. Init => RowsCompatible
  BY DEF Init, RowsCompatible, Idle
<1>2. TypeOK /\ RowsCompatible /\ [Next]_vars => RowsCompatible'
  <2> SUFFICES ASSUME TypeOK, RowsCompatible, [Next]_vars
               PROVE  RowsCompatible'
    OBVIOUS
  <2>1. ASSUME NEW r \in Requests, CallApi(r) \/ Deliver(r)
        PROVE  RowsCompatible'
    BY <2>1, ReceiveStagesNothing, NothingStaged DEF CallApi, Deliver
  <2>2. ASSUME NEW r \in Requests, Step(r)
        PROVE  RowsCompatible'
    <3>1. CASE Answer(r)
      <4>1. db' = db /\ \A o \in Requests : req'[o].staged \subseteq req[o].staged
        BY <3>1 DEF Answer, TypeOK, Idle
      <4> QED BY <4>1, NothingStaged
    <3> QED BY <2>2, <3>1, UseCaseStagesNothing, NothingStaged, ExecuteCompatible,
               CommitCompatible DEF Step
  <2>3. CASE Fault
    <3>1. db' = db
      BY <2>3 DEF Fault, ReadFails, StatementFails, Timeout, Crash
    <3>2. \A o \in Requests : req'[o].staged \subseteq req[o].staged
      <4>1. CASE Crash
        BY <4>1 DEF Crash, Idle
      <4>2. ASSUME NEW r \in Requests, ReadFails(r) \/ StatementFails(r)
            PROVE  \A o \in Requests : req'[o].staged \subseteq req[o].staged
        <5>1. PICK code : req' = [req EXCEPT ![r].pc = "close", ![r].outcome = code]
          BY <4>2 DEF ReadFails, StatementFails
        <5> QED BY <5>1 DEF TypeOK, Slot
      <4>3. ASSUME NEW r \in Requests, Timeout(r)
            PROVE  \A o \in Requests : req'[o].staged \subseteq req[o].staged
        BY <4>3 DEF Timeout, TypeOK, Slot
      <4> QED BY <2>3, <4>1, <4>2, <4>3 DEF Fault
    <3> QED BY <3>1, <3>2, NothingStaged
  <2>4. CASE UNCHANGED vars
    BY <2>4, NothingStaged DEF vars
  <2> QED BY <2>1, <2>2, <2>3, <2>4 DEF Next
<1> QED BY <1>1, <1>2, TypeCorrect, PTL DEF Spec

(* At most one open fulfilment per tenant and source note, ever.           *)
THEOREM SourceNotesUnique == Spec => []SourceNoteUnique
<1>1. RowsCompatible => SourceNoteUnique
  BY DEF RowsCompatible, SourceNoteUnique, Conflicts, Fulfilments, Table
<1> QED BY <1>1, RowsStayCompatible, PTL

-----------------------------------------------------------------------------
(* Refusals.  A transaction has staged rows only while it writes, and what *)
(* ends it without success either came before its first statement, aborts  *)
(* it, or is that first statement: no other row can fail to be read back.  *)

(* No statement but the first is about an aggregate.                       *)
Later(statements) == \A i \in 2..Len(statements) : statements[i].table \notin AggregateTables

Progressing(q) ==
  /\ q.pc \in {"run", "link", "write"} => q.outcome = "ok"
  /\ q.pc \in {"idle", "run", "link", "answer"} => q.staged = {}
  /\ q.pc = "write" => /\ Later(q.todo)
                       /\ q.staged # {} => Readable(q.todo[1])
  /\ q.outcome = "ok" => \A x \in q.staged : Readable(x)
  /\ q.pc = "close" /\ q.outcome = "COMMIT_FAILED" =>
       \E x \in Row : ~Readable(x) /\ q.staged = {x}
  /\ q.pc = "close" /\ q.outcome \notin {"ok", "TX_ABORTED", "COMMIT_FAILED"} => q.staged = {}

Control == \A r \in Requests : Progressing(req[r])

(* Events and their audit messages are outbox messages.                    *)
LEMMA EventFields ==
  ASSUME NEW type, NEW x, NEW id,
         NEW e \in {FulfilmentEvent(type, x), ShipmentEvent(type, x), LinkedEvent(x, id)}
  PROVE  /\ e.table = "outbox_messages" /\ AuditMessage(e).table = "outbox_messages"
         /\ AuditMessage(e).type = OutboxAudit
         /\ AuditMessage(e).fulfilmentId = e.fulfilmentId
         /\ AuditMessage(e).shipmentId = e.shipmentId
         /\ AuditMessage(e).tenantId = e.tenantId
         /\ e.job = None /\ AuditMessage(e).job = None
BY DEF FulfilmentEvent, ShipmentEvent, LinkedEvent, OutboxMessage, AuditMessage

LEMMA CommitLater ==
  ASSUME NEW row, NEW e, e.table = "outbox_messages",
         AuditMessage(e).table = "outbox_messages"
  PROVE  Later(CommitAggregate(row, e))
<1>1. AuditLog(e).table = "audit_logs"
  BY DEF AuditLog
<1>2. ASSUME NEW a, NEW b, NEW c, {a.table, b.table, c.table} \cap AggregateTables = {}
      PROVE  Later(<<row, a, b, c>>)
  BY <1>2 DEF Later
<1> QED BY <1>1, <1>2 DEF CommitAggregate, AggregateTables

LEMMA EmitLater ==
  ASSUME NEW job, NEW e, e.table = "outbox_messages"
  PROVE  Later(EmitJob(job, e))
<1>1. e.table \notin AggregateTables
  BY DEF AggregateTables
<1> QED BY <1>1 DEF EmitJob, Later

(* A step rewrites one slot at most, unless the process dies.              *)
LEMMA SlotProgress ==
  ASSUME Control, req \in [Requests -> Slot], NEW r \in Requests, NEW q, Progressing(q),
         req' = [req EXCEPT ![r] = q]
  PROVE  Control'
BY DEF Control

(* A request starts with nothing staged, refused or not.                   *)
LEMMA ReceiveProgress ==
  ASSUME TypeOK, Control, NEW r \in Requests, NEW in, NEW header, NEW waiting,
         Receive(r, in, header, waiting)
  PROVE  Control'
<1> DEFINE code == Precheck(in, ResolveScope(header, BodyTenant(in)))
           q == [Idle EXCEPT !.pc = IF code = "ok" THEN "run" ELSE "close",
                             !.input = in, !.tenant = ResolveScope(header, BodyTenant(in)),
                             !.waiting = waiting,
                             !.id = CHOOSE x \in FreshIds(in) : TRUE,
                             !.outcome = code]
<1>1. req' = [req EXCEPT ![r] = q]
  BY DEF Receive
<1>2. code # "COMMIT_FAILED"
  BY DEF Precheck
<1> HIDE DEF code
<1>3. Progressing(q)
  BY <1>2 DEF Progressing, Idle
<1> HIDE DEF q
<1> QED BY <1>1, <1>3, SlotProgress DEF TypeOK

(* A use case decides before its first statement.                          *)
LEMMA UseCaseProgress ==
  ASSUME TypeOK, Control, NEW r \in Requests, UseCase(r)
  PROVE  Control'
<1>1. req[r].pc \in {"run", "link"} /\ req[r] \in Slot /\ Progressing(req[r])
  BY DEF TypeOK, Control, UseCase, CreateLastMileFulfilment, HandleFulfilmentCreated,
         CreateLastMileShipment, HandleShipmentCreated, LoadShipmentToLink,
         LinkShipmentToFulfilment, MarkShipmentReady, Running
<1>2. ASSUME NEW statements, Later(statements), Write(r, statements)
      PROVE  Control'
  <2> DEFINE q == [req[r] EXCEPT !.pc = "write", !.todo = statements]
  <2>1. req' = [req EXCEPT ![r] = q]
    BY <1>2 DEF Write, TypeOK
  <2>2. q.pc = "write" /\ q.todo = statements /\ q.staged = {} /\ q.outcome = "ok"
    BY <1>1 DEF Progressing, Slot
  <2> HIDE DEF q
  <2>3. Progressing(q)
    BY <1>2, <2>2 DEF Progressing
  <2> QED BY <2>1, <2>3, SlotProgress DEF TypeOK
<1>3. ASSUME NEW code, code # "COMMIT_FAILED", Fail(r, code)
      PROVE  Control'
  <2> DEFINE q == [req[r] EXCEPT !.pc = "close", !.outcome = code]
  <2>1. req' = [req EXCEPT ![r] = q]
    BY <1>3 DEF Fail, TypeOK
  <2>2. q.pc = "close" /\ q.staged = {} /\ q.outcome = code
    BY <1>1 DEF Progressing, Slot
  <2> HIDE DEF q
  <2>3. Progressing(q)
    BY <1>3, <2>2 DEF Progressing
  <2> QED BY <2>1, <2>3, SlotProgress DEF TypeOK
<1>4. ASSUME NEW s, req' = [req EXCEPT ![r].pc = "link", ![r].shipment = s]
      PROVE  Control'
  <2> DEFINE q == [req[r] EXCEPT !.pc = "link", !.shipment = s]
  <2>1. req' = [req EXCEPT ![r] = q]
    BY <1>4 DEF TypeOK
  <2>2. q.pc = "link" /\ q.staged = {} /\ q.outcome = "ok"
    BY <1>1 DEF Progressing, Slot
  <2> HIDE DEF q
  <2>3. Progressing(q)
    BY <2>2 DEF Progressing
  <2> QED BY <2>1, <2>3, SlotProgress DEF TypeOK
<1>12. ASSUME NEW row, NEW type, NEW x, NEW id,
              NEW e \in {FulfilmentEvent(type, x), ShipmentEvent(type, x), LinkedEvent(x, id)},
              Write(r, CommitAggregate(row, e))
       PROVE  Control'
  <2>1. Later(CommitAggregate(row, e))
    BY EventFields, CommitLater
  <2> QED BY <1>2, <1>12, <2>1
<1>5. CASE CreateLastMileFulfilment(r)
  BY <1>3, <1>5, <1>12 DEF CreateLastMileFulfilment
<1>6. CASE HandleFulfilmentCreated(r)
  <2>1. ASSUME NEW f, NEW job, job = CreateShipmentJob(req[r].id, f),
               Write(r, EmitJob(job, DecisionEvent(ShipmentRequested, job)))
        PROVE  Control'
    <3>1. DecisionEvent(ShipmentRequested, job).table = "outbox_messages"
      BY <2>1 DEF DecisionEvent, CreateShipmentJob, OutboxMessage
    <3> QED BY <1>2, <2>1, <3>1, EmitLater
  <2> QED BY <1>3, <1>6, <1>12, <2>1 DEF HandleFulfilmentCreated
<1>7. CASE CreateLastMileShipment(r)
  BY <1>3, <1>7, <1>12 DEF CreateLastMileShipment
<1>8. CASE HandleShipmentCreated(r)
  <2> DEFINE job == LinkShipmentJob(req[r].id, req[r].input)
  <2>1. DecisionEvent(LinkDispatched, job).table = "outbox_messages"
    BY DEF DecisionEvent, LinkShipmentJob, OutboxMessage
  <2>2. Write(r, EmitJob(job, DecisionEvent(LinkDispatched, job)))
    BY <1>8 DEF HandleShipmentCreated
  <2> HIDE DEF job
  <2> QED BY <1>2, <2>1, <2>2, EmitLater
<1>9. CASE LoadShipmentToLink(r)
  BY <1>3, <1>4, <1>9 DEF LoadShipmentToLink
<1>10. CASE LinkShipmentToFulfilment(r)
  BY <1>3, <1>10, <1>12 DEF LinkShipmentToFulfilment
<1>11. CASE MarkShipmentReady(r)
  BY <1>3, <1>11, <1>12 DEF MarkShipmentReady
<1> QED BY <1>5, <1>6, <1>7, <1>8, <1>9, <1>10, <1>11 DEF UseCase

(* Statements are executed only by requests that are not refused.          *)
LEMMA ExecuteProgress ==
  ASSUME TypeOK, Control, NEW r \in Requests, Execute(r)
  PROVE  Control'
<1> DEFINE q == req[r]
<1>1. /\ q.pc = "write" /\ q \in Slot /\ q.todo \in Seq(Row) /\ q.todo # <<>>
      /\ Head(q.todo) \in Row
  BY ExecuteCases
<1>2. /\ q.outcome = "ok" /\ Later(q.todo) /\ (q.staged # {} => Readable(Head(q.todo)))
      /\ \A x \in q.staged : Readable(x)
  BY <1>1 DEF Control, Progressing
<1> HIDE DEF q
<1>3. Progressing(Refused(q))
  <2>1. Refused(q).pc = "close" /\ Refused(q).outcome = "TX_ABORTED"
    BY <1>1 DEF Slot, Refused
  <2> QED BY <2>1 DEF Progressing
<1>4. ASSUME ~Readable(Head(q.todo))
      PROVE  Progressing(Stranded(q))
  <2>1. /\ Stranded(q).pc = "close" /\ Stranded(q).outcome = "COMMIT_FAILED"
        /\ Stranded(q).staged = {Head(q.todo)}
    BY <1>1, <1>2, <1>4 DEF Slot, Stranded
  <2> QED BY <1>1, <1>4, <2>1 DEF Progressing
<1>5. ASSUME Readable(Head(q.todo))
      PROVE  Progressing(Executed(q))
  <2>1. /\ Executed(q).pc = (IF Tail(q.todo) = <<>> THEN "close" ELSE "write")
        /\ Executed(q).outcome = "ok" /\ Executed(q).todo = Tail(q.todo)
        /\ Executed(q).staged = q.staged \cup {Head(q.todo)}
    BY <1>1, <1>2 DEF Slot, Executed
  <2>2. ASSUME Tail(q.todo) # <<>>
        PROVE  Later(Tail(q.todo)) /\ Readable(Tail(q.todo)[1])
    <3> DEFINE rest == Tail(q.todo)
    <3>1. /\ Len(q.todo) \in Nat \ {0} /\ Len(rest) = Len(q.todo) - 1
          /\ \A i \in 1..(Len(q.todo) - 1) : rest[i] = q.todo[i + 1]
      BY <1>1
    <3>2. rest \in Seq(Row) /\ rest # <<>>
      BY <1>1, <2>2
    <3> HIDE DEF rest
    <3>3. Len(rest) \in Nat \ {0}
      BY <3>2
    <3>4. ASSUME NEW i \in 1..Len(rest)
          PROVE  rest[i].table \notin AggregateTables
      <4>1. i + 1 \in 2..Len(q.todo) /\ rest[i] = q.todo[i + 1]
        BY <3>1
      <4> QED BY <1>2, <4>1 DEF Later
    <3>5. Later(rest) /\ Readable(rest[1])
      BY <3>3, <3>4 DEF Later, Readable
    <3> QED BY <3>5 DEF rest
  <2> QED BY <1>2, <1>5, <2>1, <2>2 DEF Progressing
<1> QED BY <1>3, <1>4, <1>5, ExecuteCases, SlotProgress DEF TypeOK, q

(* What ends a transaction leaves nothing staged.                          *)
LEMMA CommitProgress ==
  ASSUME TypeOK, Control, NEW r \in Requests, Commit(r)
  PROVE  Control'
<1>1. req[r] \in Slot /\ req' = [req EXCEPT ![r] = Ended(req[r])]
  BY DEF Commit, Ended, TypeOK, Slot
<1>2. Ended(req[r]).pc = "answer" /\ Ended(req[r]).staged = {}
  BY <1>1 DEF Ended, Slot
<1>3. Progressing(Ended(req[r]))
  BY <1>2 DEF Progressing
<1> QED BY <1>1, <1>3, SlotProgress DEF TypeOK

(* A free slot has nothing staged.                                         *)
LEMMA IdleProgress == Progressing(Idle)
BY DEF Progressing, Idle

(* A fault closes a request before it is acknowledged, or aborts it.       *)
LEMMA FaultProgress ==
  ASSUME TypeOK, Control, Fault
  PROVE  Control'
<1>1. CASE Crash
  BY <1>1, IdleProgress DEF Crash, Control
<1>2. ASSUME NEW r \in Requests, NEW code \in {"REPO_READ_FAILED", "TX_ABORTED"},
             \/ code = "REPO_READ_FAILED" /\ req[r].pc \in {"run", "link"}
             \/ code = "TX_ABORTED",
             req' = [req EXCEPT ![r].pc = "close", ![r].outcome = code]
      PROVE  Control'
  <2> DEFINE q == [req[r] EXCEPT !.pc = "close", !.outcome = code]
  <2>1. req' = [req EXCEPT ![r] = q]
    BY <1>2 DEF TypeOK
  <2>2. Progressing(q)
    BY <1>2 DEF Progressing, Slot, TypeOK, Control
  <2> HIDE DEF q
  <2> QED BY <2>1, <2>2, SlotProgress DEF TypeOK
<1>3. ASSUME NEW r \in Requests, Timeout(r)
      PROVE  Control'
  <2> DEFINE q == [req[r] EXCEPT !.waiting = FALSE]
  <2>1. req' = [req EXCEPT ![r] = q]
    BY <1>3 DEF Timeout, TypeOK
  <2>2. /\ q.pc = req[r].pc /\ q.outcome = req[r].outcome /\ q.staged = req[r].staged
        /\ q.todo = req[r].todo
    BY DEF Slot, TypeOK
  <2> HIDE DEF q
  <2>3. Progressing(q)
    BY <2>2 DEF Progressing, Control
  <2> QED BY <2>1, <2>3, SlotProgress DEF TypeOK
<1>4. ASSUME NEW r \in Requests, ReadFails(r)
      PROVE  Control'
  BY <1>2, <1>4 DEF ReadFails
<1>5. ASSUME NEW r \in Requests, StatementFails(r)
      PROVE  Control'
  BY <1>2, <1>5 DEF StatementFails
<1> QED BY <1>1, <1>3, <1>4, <1>5 DEF Fault

THEOREM ControlInvariant == Spec => []Control
<1>1. Init => Control
  BY IdleProgress DEF Init, Control
<1>2. TypeOK /\ Control /\ [Next]_vars => Control'
  <2> SUFFICES ASSUME TypeOK, Control, [Next]_vars
               PROVE  Control'
    OBVIOUS
  <2>1. ASSUME NEW r \in Requests, CallApi(r) \/ Deliver(r)
        PROVE  Control'
    BY <2>1, ReceiveProgress DEF CallApi, Deliver
  <2>2. ASSUME NEW r \in Requests, Answer(r)
        PROVE  Control'
    BY <2>2, IdleProgress, SlotProgress DEF Answer, TypeOK
  <2>3. ASSUME NEW r \in Requests, Step(r)
        PROVE  Control'
    BY <2>2, <2>3, UseCaseProgress, ExecuteProgress, CommitProgress DEF Step
  <2>4. CASE Fault
    BY <2>4, FaultProgress
  <2>5. CASE UNCHANGED vars
    BY <2>5 DEF vars, Control
  <2> QED BY <2>1, <2>3, <2>4, <2>5 DEF Next
<1> QED BY <1>1, <1>2, TypeCorrect, PTL DEF Spec

(* A refused request commits nothing but a row that cannot be read back,   *)
(* although runWrite ends its transaction with COMMIT whenever the use     *)
(* case returned the failure.                                              *)
THEOREM RefusalsLeaveNoTrace == Spec => FailureLeavesNoTrace
<1> DEFINE Bounded == \A r \in Requests :
             req[r].pc = "close" /\ req'[r].pc = "answer" /\ req[r].outcome # "ok" =>
               \/ db' = db
               \/ /\ req[r].outcome = "COMMIT_FAILED"
                  /\ \E d \in db' : ~Readable(d) /\ db' = db \cup {d}
<1>1. TypeOK /\ Control /\ [Next]_vars => [Bounded]_vars
  <2> DEFINE Trace(r) == /\ req[r].outcome = "COMMIT_FAILED"
                         /\ \E d \in db' : ~Readable(d) /\ db' = db \cup {d}
  <2> SUFFICES ASSUME TypeOK, Control, [Next]_vars, NEW r \in Requests,
                      req[r].pc = "close", req[r].outcome # "ok", req'[r].pc = "answer"
               PROVE  db' = db \/ Trace(r)
    OBVIOUS
  <2>1. ASSUME NEW o \in Requests, CallApi(o) \/ Deliver(o)
        PROVE  db' = db
    BY <2>1 DEF CallApi, Deliver
  <2>2. ASSUME NEW o \in Requests, UseCase(o)
        PROVE  db' = db
    BY <2>2, UseCaseStagesNothing
  <2>3. ASSUME NEW o \in Requests, Commit(o)
        PROVE  db' = db \/ Trace(r)
    <3>1. o = r
      BY <2>3 DEF Commit, TypeOK
    <3>2. db' = db \cup Committed(req[r])
      BY <2>3, <3>1 DEF Commit
    <3>3. CASE req[r].outcome = "COMMIT_FAILED"
      <4>1. PICK x \in Row : ~Readable(x) /\ req[r].staged = {x}
        BY <3>3 DEF Control, Progressing
      <4> QED BY <3>2, <3>3, <4>1 DEF Committed
    <3>4. CASE req[r].outcome # "COMMIT_FAILED"
      <4>1. Committed(req[r]) = {}
        BY <3>4 DEF Committed, Control, Progressing
      <4> QED BY <3>2, <4>1
    <3> QED BY <3>3, <3>4
  <2>4. ASSUME NEW o \in Requests, Execute(o) \/ Answer(o)
        PROVE  db' = db
    BY <2>4 DEF Execute, Answer
  <2>5. CASE Fault
    BY <2>5 DEF Fault, ReadFails, StatementFails, Timeout, Crash
  <2>6. CASE UNCHANGED vars
    BY <2>6 DEF vars
  <2> QED BY <2>1, <2>2, <2>3, <2>4, <2>5, <2>6 DEF Next, Step
<1> QED BY <1>1, TypeCorrect, ControlInvariant, PTL DEF Spec, FailureLeavesNoTrace

-----------------------------------------------------------------------------
(* Atomicity.  What a transaction may still commit is what it has staged   *)
(* together with what it has still to execute.  Neither the committed rows *)
(* nor a half-executed transaction taken alone say that nothing goes       *)
(* missing between two statements: the invariant is about their union, a   *)
(* batch that the use case chose as a whole.                               *)

Statements(s) == {s[i] : i \in 1..Len(s)}

Batch(q) == q.staged \cup Statements(q.todo)

(* The readable rows of a table and their created events match in S.       *)
Announced(S, table, created, IdOf(_)) ==
  /\ \A x \in S : x.table = table /\ Readable(x) =>
       \E m \in S : m.table = "outbox_messages" /\ m.type = created /\ IdOf(m) = x.id
  /\ \A m \in S : m.table = "outbox_messages" /\ m.type = created =>
       \E x \in S : x.table = table /\ Readable(x) /\ x.id = IdOf(m)

FulfilmentOf(m) == m.fulfilmentId
ShipmentOf(m)   == m.shipmentId

(* Created events and their audit rows match in S, their audit messages    *)
(* are there.                                                              *)
Audited(S, created) ==
  /\ \A m \in S : m.table = "outbox_messages" /\ m.type = created =>
       AuditLog(m) \in S /\ AuditMessage(m) \in S
  /\ \A a \in S : a.table = "audit_logs" /\ a.operation = created =>
       \E m \in S : m.table = "outbox_messages" /\ m.type = created /\ AuditLog(m) = a

(* Every message of one type in S has one of the other that names its job. *)
Answered(S, type, other) ==
  \A x \in S : x.table = "outbox_messages" /\ x.type = type =>
    \E y \in S : y.table = "outbox_messages" /\ y.type = other /\ y.job = x.job

(* f is what a shipment may be asked for of.                               *)
Geocoded(f, tenantId, id) ==
  /\ f.table = "last_mile_fulfilments" /\ f.tenantId = tenantId /\ f.id = id
  /\ f.missing = {} /\ Readable(f)

(* Every job that asks for a shipment stands on a geocoded fulfilment.     *)
Grounded(S) ==
  \A j \in S : j.table = "outbox_messages" /\ j.type = CreateJob =>
    \E f \in S : Geocoded(f, j.tenantId, j.fulfilmentId)

Whole(S) ==
  /\ Announced(S, "last_mile_fulfilments", FulfilmentCreated, FulfilmentOf)
  /\ Announced(S, "last_mile_shipments", ShipmentCreated, ShipmentOf)
  /\ Audited(S, FulfilmentCreated)
  /\ Audited(S, ShipmentCreated)
  /\ Answered(S, CreateJob, ShipmentRequested)
  /\ Answered(S, ShipmentRequested, CreateJob)
  /\ Answered(S, LinkJob, LinkDispatched)
  /\ Answered(S, LinkDispatched, LinkJob)
  /\ Grounded(S)

(* The first statement of q, still to come, leaves a row that cannot be    *)
(* read back: the rest of the batch will not follow it.                    *)
Strands(q) == q.pc = "write" /\ q.staged = {} /\ ~Readable(Head(q.todo))

(* Nothing is left to execute before the decision and after the end, and   *)
(* unless it aborts or is stranded a transaction will commit a whole batch.*)
Bundled(q, rows) ==
  /\ q.pc # "write" /\ q.outcome # "TX_ABORTED" => q.todo = <<>>
  /\ q.outcome # "TX_ABORTED" /\ ~Strands(q) => Whole(rows \cup Batch(q))

AllBundled == Whole(db) /\ \A r \in Requests : Bundled(req[r], db)

(* Two whole sets of rows are whole together.                              *)
LEMMA WholeUnion ==
  ASSUME NEW S, NEW T, Whole(S), Whole(T)
  PROVE  Whole(S \cup T)
<1>1. ASSUME NEW type, NEW other, Answered(S, type, other), Answered(T, type, other)
      PROVE  Answered(S \cup T, type, other)
  BY <1>1 DEF Answered
<1>2. ASSUME NEW created, Audited(S, created), Audited(T, created)
      PROVE  Audited(S \cup T, created)
  BY <1>2 DEF Audited
<1>3. Announced(S \cup T, "last_mile_fulfilments", FulfilmentCreated, FulfilmentOf)
  BY DEF Whole, Announced
<1>4. Announced(S \cup T, "last_mile_shipments", ShipmentCreated, ShipmentOf)
  BY DEF Whole, Announced
<1>5. Grounded(S \cup T)
  BY DEF Whole, Grounded
<1> QED BY <1>1, <1>2, <1>3, <1>4, <1>5 DEF Whole

(* A row that cannot be read back asks nothing of the others.              *)
LEMMA StrandedWhole ==
  ASSUME NEW S, Whole(S), NEW row, ~Readable(row)
  PROVE  Whole(S \cup {row})
<1>1. row.table # "outbox_messages" /\ row.table # "audit_logs"
  BY DEF Readable, AggregateTables
<1>2. ASSUME NEW type, NEW other, Answered(S, type, other)
      PROVE  Answered(S \cup {row}, type, other)
  BY <1>1, <1>2 DEF Answered
<1>3. ASSUME NEW created, Audited(S, created)
      PROVE  Audited(S \cup {row}, created)
  BY <1>1, <1>3 DEF Audited
<1>4. Announced(S \cup {row}, "last_mile_fulfilments", FulfilmentCreated, FulfilmentOf)
  BY <1>1 DEF Whole, Announced
<1>5. Announced(S \cup {row}, "last_mile_shipments", ShipmentCreated, ShipmentOf)
  BY <1>1 DEF Whole, Announced
<1>6. Grounded(S \cup {row})
  BY <1>1 DEF Whole, Grounded
<1> QED BY <1>2, <1>3, <1>4, <1>5, <1>6 DEF Whole

(* A request that has neither staged nor planned anything is bundled.      *)
LEMMA EmptyBundled ==
  ASSUME NEW q, NEW rows, Whole(rows), q.staged = {}, q.todo = <<>>
  PROVE  Bundled(q, rows)
<1>1. Batch(q) = {}
  BY DEF Batch, Statements
<1> QED BY <1>1 DEF Bundled

(* Executing a statement moves it within the batch.                        *)
LEMMA StatementsOfTail ==
  ASSUME NEW s \in Seq(Row), s # <<>>
  PROVE  Statements(s) = {Head(s)} \cup Statements(Tail(s))
<1>1. /\ Len(s) \in Nat \ {0} /\ Head(s) = s[1] /\ Len(Tail(s)) = Len(s) - 1
      /\ \A i \in 1..(Len(s) - 1) : Tail(s)[i] = s[i + 1]
  OBVIOUS
<1>2. ASSUME NEW x \in Statements(s)
      PROVE  x \in {Head(s)} \cup Statements(Tail(s))
  <2>1. PICK i \in 1..Len(s) : x = s[i]
    BY <1>2 DEF Statements
  <2>2. CASE i = 1
    BY <1>1, <2>1, <2>2
  <2>3. CASE i # 1
    <3>1. i - 1 \in 1..Len(Tail(s)) /\ x = Tail(s)[i - 1]
      BY <1>1, <2>1, <2>3
    <3> QED BY <3>1 DEF Statements
  <2> QED BY <2>2, <2>3
<1>3. ASSUME NEW x \in {Head(s)} \cup Statements(Tail(s))
      PROVE  x \in Statements(s)
  <2>1. CASE x = Head(s)
    BY <1>1, <2>1 DEF Statements
  <2>2. CASE x \in Statements(Tail(s))
    <3>1. PICK i \in 1..Len(Tail(s)) : x = Tail(s)[i]
      BY <2>2 DEF Statements
    <3>2. i + 1 \in 1..Len(s) /\ x = s[i + 1]
      BY <1>1, <3>1
    <3> QED BY <3>2 DEF Statements
  <2> QED BY <1>3, <2>1, <2>2
<1> QED BY <1>2, <1>3

(* What the two ways of committing add to a batch.                         *)
LEMMA StatementsOfUse ==
  ASSUME NEW row, NEW event, NEW job
  PROVE  /\ Statements(CommitAggregate(row, event))
              = {row, AuditLog(event), event, AuditMessage(event)}
         /\ Statements(EmitJob(job, event)) = {job, event}
         /\ Head(CommitAggregate(row, event)) = row
<1>1. ASSUME NEW a, NEW b
      PROVE  Statements(<<a, b>>) = {a, b}
  BY DEF Statements
<1>2. ASSUME NEW a, NEW b, NEW c, NEW d
      PROVE  Statements(<<a, b, c, d>>) = {a, b, c, d} /\ Head(<<a, b, c, d>>) = a
  BY DEF Statements
<1> QED BY <1>1, <1>2 DEF CommitAggregate, EmitJob

(* The row and the job are among the statements.                           *)
LEMMA DecidedIsStated ==
  ASSUME NEW row, NEW event
  PROVE  /\ row \in Statements(CommitAggregate(row, event))
         /\ row \in Statements(EmitJob(row, event))
BY StatementsOfUse

(* A step of one request that commits nothing leaves all batches whole.    *)
LEMMA SlotBundled ==
  ASSUME AllBundled, req \in [Requests -> Slot], db' = db,
         NEW r \in Requests, NEW q, Bundled(q, db), req' = [req EXCEPT ![r] = q]
  PROVE  AllBundled'
BY DEF AllBundled

(* A use case that plans a whole batch.                                    *)
LEMMA WriteBundled ==
  ASSUME TypeOK, Control, AllBundled, NEW r \in Requests, req[r].pc \in {"run", "link"},
         NEW statements,
         Readable(Head(statements)) => Whole(db \cup Statements(statements)),
         Write(r, statements)
  PROVE  AllBundled'
<1> DEFINE q == [req[r] EXCEPT !.pc = "write", !.todo = statements]
<1>1. req[r] \in Slot /\ req[r].staged = {}
  BY DEF TypeOK, Control, Progressing
<1>2. q.pc = "write" /\ q.todo = statements /\ q.staged = {}
  BY <1>1 DEF Slot
<1>3. req' = [req EXCEPT ![r] = q] /\ db' = db
  BY DEF Write, TypeOK
<1> HIDE DEF q
<1>4. Batch(q) = Statements(statements)
  BY <1>2 DEF Batch
<1>5. Bundled(q, db)
  BY <1>2, <1>4 DEF Bundled, Strands
<1> QED BY <1>3, <1>5, SlotBundled DEF TypeOK

(* A request that ends before it plans anything.                           *)
LEMMA CloseBundled ==
  ASSUME TypeOK, Control, AllBundled, NEW r \in Requests, req[r].pc \in {"run", "link"},
         NEW q, q.staged = req[r].staged, q.todo = req[r].todo,
         req' = [req EXCEPT ![r] = q], db' = db
  PROVE  AllBundled'
<1>1. q.staged = {} /\ q.todo = <<>>
  BY DEF Control, Progressing, AllBundled, Bundled
<1> QED BY <1>1, EmptyBundled, SlotBundled DEF AllBundled, TypeOK

(* The reads that fail or refuse.                                          *)
LEMMA FailBundled ==
  ASSUME TypeOK, Control, AllBundled, NEW r \in Requests, req[r].pc \in {"run", "link"},
         NEW code, Fail(r, code)
  PROVE  AllBundled'
<1> DEFINE q == [req[r] EXCEPT !.pc = "close", !.outcome = code]
<1>1. q.staged = req[r].staged /\ q.todo = req[r].todo
  BY DEF TypeOK, Slot
<1>2. req' = [req EXCEPT ![r] = q] /\ db' = db
  BY DEF Fail, TypeOK
<1> HIDE DEF q
<1> QED BY <1>1, <1>2, CloseBundled

(* A row read from the tables stays announced when it is written again.    *)
LEMMA RewriteWhole ==
  ASSUME Whole(db), NEW old \in db, Readable(old), NEW row, NEW event,
         row.table = old.table, row.id = old.id,
         row.table \in AggregateTables,
         event.table = "outbox_messages",
         event.type \in {AwaitingGeocoding, ShipmentLinked, ShipmentReady},
         AuditMessage(event).table = "outbox_messages", AuditMessage(event).type = OutboxAudit
  PROVE  Whole(db \cup Statements(CommitAggregate(row, event)))
<1> DEFINE audit == AuditLog(event)
           message == AuditMessage(event)
           S == db \cup {row, audit, event, message}
<1>1. audit.table = "audit_logs" /\ audit.operation = event.type
  BY DEF AuditLog
<1>2. {event.type, message.type} \cap {FulfilmentCreated, ShipmentCreated, CreateJob,
                                       ShipmentRequested, LinkJob, LinkDispatched} = {}
  BY DEF AwaitingGeocoding, ShipmentLinked, ShipmentReady, CreateJob, ShipmentRequested,
         LinkJob, LinkDispatched, FulfilmentCreated, ShipmentCreated, OutboxAudit
<1>3. Statements(CommitAggregate(row, event)) = {row, audit, event, message}
  BY StatementsOfUse
<1>4. message.table = "outbox_messages"
  OBVIOUS
<1>5. row.table # "outbox_messages" /\ row.table # "audit_logs"
  BY DEF AggregateTables
<1> HIDE DEF audit, message
<1>6. ASSUME NEW type \in {CreateJob, ShipmentRequested, LinkJob, LinkDispatched}, NEW other,
             Answered(db, type, other)
      PROVE  Answered(S, type, other)
  BY <1>1, <1>2, <1>4, <1>5, <1>6 DEF Answered
<1>7. ASSUME NEW type \in {FulfilmentCreated, ShipmentCreated}, Audited(db, type)
      PROVE  Audited(S, type)
  <2>1. \A m \in S : m.table = "outbox_messages" /\ m.type = type => m \in db
    BY <1>1, <1>2, <1>4, <1>5
  <2>2. \A a \in S : a.table = "audit_logs" /\ a.operation = type => a \in db
    BY <1>1, <1>2, <1>4, <1>5
  <2> QED BY <1>7, <2>1, <2>2 DEF Audited
<1>8. ASSUME NEW table, NEW type \in {FulfilmentCreated, ShipmentCreated}, NEW IdOf(_),
             Announced(db, table, type, IdOf), table \in AggregateTables
      PROVE  Announced(S, table, type, IdOf)
  <2>1. \A m \in S : m.table = "outbox_messages" /\ m.type = type => m \in db
    BY <1>1, <1>2, <1>4, <1>5
  <2>2. ASSUME NEW x \in S, x.table = table
        PROVE  \E y \in db : y.table = table /\ y.id = x.id /\ (Readable(x) => Readable(y))
    BY <1>1, <1>4, <1>8, <2>2 DEF AggregateTables
  <2> QED BY <1>8, <2>1, <2>2 DEF Announced
<1>9. Grounded(S)
  BY <1>1, <1>2, <1>4, <1>5 DEF Whole, Grounded
<1> HIDE DEF S
<1>10. Whole(S)
  BY <1>6, <1>7, <1>8, <1>9 DEF Whole, AggregateTables
<1> QED BY <1>3, <1>10 DEF S

(* A new aggregate brings its own created event and audit row.             *)
LEMMA CreationWhole ==
  ASSUME NEW row, Readable(row), NEW event, event.table = "outbox_messages",
         AuditMessage(event).table = "outbox_messages", AuditMessage(event).type = OutboxAudit,
         \/ /\ row.table = "last_mile_fulfilments"
            /\ event.type = FulfilmentCreated /\ event.fulfilmentId = row.id
         \/ /\ row.table = "last_mile_shipments"
            /\ event.type = ShipmentCreated /\ event.shipmentId = row.id
  PROVE  Whole(Statements(CommitAggregate(row, event)))
<1> DEFINE audit == AuditLog(event)
           message == AuditMessage(event)
           S == {row, audit, event, message}
<1>1. audit.table = "audit_logs" /\ audit.operation = event.type
  BY DEF AuditLog
<1>2. /\ event.type \notin {CreateJob, ShipmentRequested, LinkJob, LinkDispatched}
      /\ message.type \notin {CreateJob, ShipmentRequested, LinkJob, LinkDispatched,
                              FulfilmentCreated, ShipmentCreated}
      /\ FulfilmentCreated # ShipmentCreated
  BY DEF FulfilmentCreated, ShipmentCreated, CreateJob, ShipmentRequested,
         LinkJob, LinkDispatched, OutboxAudit
<1>3. Statements(CommitAggregate(row, event)) = {row, audit, event, message}
  BY StatementsOfUse
<1>4. message.table = "outbox_messages" /\ message.type = OutboxAudit
  OBVIOUS
<1>5. \A m \in S : m.table = "outbox_messages" /\ m.type # OutboxAudit =>
        m = event /\ AuditLog(m) = audit /\ AuditMessage(m) = message
  BY <1>1, <1>4
<1> HIDE DEF audit, message
<1>6. ASSUME NEW type \in {CreateJob, ShipmentRequested, LinkJob, LinkDispatched}, NEW other
      PROVE  Answered(S, type, other)
  BY <1>1, <1>2, <1>4, <1>6 DEF Answered
<1>7. ASSUME NEW type \in {FulfilmentCreated, ShipmentCreated}
      PROVE  Audited(S, type)
  <2>1. \A m \in S : m.table = "outbox_messages" /\ m.type = type =>
          m = event /\ AuditLog(m) = audit /\ AuditMessage(m) = message
    BY <1>2, <1>4, <1>5
  <2>2. \A a \in S : a.table = "audit_logs" => a = audit
    BY <1>4
  <2>3. AuditLog(event) = audit
    BY DEF audit
  <2> QED BY <1>1, <2>1, <2>2, <2>3 DEF Audited
<1>8. Announced(S, "last_mile_fulfilments", FulfilmentCreated, FulfilmentOf)
  BY <1>1, <1>2, <1>4 DEF Announced, FulfilmentOf
<1>9. Announced(S, "last_mile_shipments", ShipmentCreated, ShipmentOf)
  BY <1>1, <1>2, <1>4 DEF Announced, ShipmentOf
<1>10. Grounded(S)
  BY <1>1, <1>2, <1>4 DEF Grounded
<1> HIDE DEF S
<1>11. Whole(S)
  BY <1>6, <1>7, <1>8, <1>9, <1>10 DEF Whole
<1> QED BY <1>3, <1>11 DEF S

(* A job and the event that records the decision are whole together, over  *)
(* the fulfilment that was read.                                           *)
LEMMA DecisionWhole ==
  ASSUME Whole(db), NEW job \in Message, NEW type,
         <<job.type, type>> \in {<<CreateJob, ShipmentRequested>>, <<LinkJob, LinkDispatched>>},
         job.type = CreateJob => \E f \in db : Geocoded(f, job.tenantId, job.fulfilmentId)
  PROVE  Whole(db \cup Statements(EmitJob(job, DecisionEvent(type, job))))
<1> DEFINE event == DecisionEvent(type, job)
           S == db \cup {job, event}
<1>1. /\ job.table = "outbox_messages" /\ event.table = "outbox_messages"
      /\ event.type = type /\ event.job = job.job
  BY DEF DecisionEvent, Message
<1>2. db \cup Statements(EmitJob(job, event)) = S
  BY StatementsOfUse
<1>3. {job.type, type} \cap {FulfilmentCreated, ShipmentCreated} = {}
  BY DEF CreateJob, ShipmentRequested, LinkJob, LinkDispatched, FulfilmentCreated,
         ShipmentCreated
<1>4. type # CreateJob
  BY DEF CreateJob, ShipmentRequested, LinkDispatched
<1> HIDE DEF event
<1>5. ASSUME NEW one, NEW other, Answered(db, one, other),
             Answered({job, event}, one, other)
      PROVE  Answered(S, one, other)
  BY <1>5 DEF Answered
<1>6. /\ Answered({job, event}, CreateJob, ShipmentRequested)
      /\ Answered({job, event}, ShipmentRequested, CreateJob)
      /\ Answered({job, event}, LinkJob, LinkDispatched)
      /\ Answered({job, event}, LinkDispatched, LinkJob)
  BY <1>1 DEF Answered, CreateJob, ShipmentRequested, LinkJob, LinkDispatched
<1>7. ASSUME NEW created \in {FulfilmentCreated, ShipmentCreated}, Audited(db, created)
      PROVE  Audited(S, created)
  BY <1>1, <1>3, <1>7 DEF Audited
<1>8. ASSUME NEW table \in AggregateTables, NEW created \in {FulfilmentCreated, ShipmentCreated},
             NEW IdOf(_), Announced(db, table, created, IdOf)
      PROVE  Announced(S, table, created, IdOf)
  <2>1. \A m \in S : m.table = "outbox_messages" /\ m.type = created => m \in db
    BY <1>1, <1>3
  <2>2. \A x \in S : x.table = table => x \in db
    BY <1>1 DEF AggregateTables
  <2>3. db \subseteq S
    OBVIOUS
  <2> HIDE DEF S
  <2> QED BY <1>8, <2>1, <2>2, <2>3 DEF Announced
<1>9. Grounded(S)
  BY <1>1, <1>4 DEF Whole, Grounded
<1>10. /\ Answered(S, CreateJob, ShipmentRequested) /\ Answered(S, ShipmentRequested, CreateJob)
       /\ Answered(S, LinkJob, LinkDispatched) /\ Answered(S, LinkDispatched, LinkJob)
  BY <1>5, <1>6 DEF Whole
<1> HIDE DEF S
<1>11. Whole(S)
  BY <1>7, <1>8, <1>9, <1>10 DEF Whole, AggregateTables
<1> QED BY <1>2, <1>11 DEF event

(* A use case plans a whole batch, whatever it decides on.                 *)
LEMMA UseCaseBundled ==
  ASSUME TypeOK, Control, AllBundled, NEW r \in Requests, UseCase(r)
  PROVE  AllBundled'
<1>1. req[r].pc \in {"run", "link"} /\ Whole(db)
  BY DEF UseCase, CreateLastMileFulfilment, HandleFulfilmentCreated,
         CreateLastMileShipment, HandleShipmentCreated, LoadShipmentToLink,
         LinkShipmentToFulfilment, MarkShipmentReady, Running, AllBundled
<1>2. ASSUME NEW code, Fail(r, code)
      PROVE  AllBundled'
  BY <1>1, <1>2, FailBundled
<1>3. ASSUME NEW statements, Readable(Head(statements)) => Whole(Statements(statements)),
             Write(r, statements)
      PROVE  AllBundled'
  BY <1>1, <1>3, WholeUnion, WriteBundled
<1>4. ASSUME NEW old \in db, Readable(old), NEW row, NEW type, NEW x, NEW id,
             NEW event \in {FulfilmentEvent(type, x), ShipmentEvent(type, x), LinkedEvent(x, id)},
             row.table = old.table, row.id = old.id, row.table \in AggregateTables,
             event.type \in {AwaitingGeocoding, ShipmentLinked, ShipmentReady},
             Write(r, CommitAggregate(row, event))
      PROVE  AllBundled'
  <2>1. /\ event.table = "outbox_messages" /\ AuditMessage(event).table = "outbox_messages"
        /\ AuditMessage(event).type = OutboxAudit
    BY <1>4, EventFields
  <2> QED BY <1>1, <1>4, <2>1, RewriteWhole, WriteBundled
<1>12. ASSUME NEW row, NEW type, NEW x, NEW id,
              NEW event \in {FulfilmentEvent(type, x), ShipmentEvent(type, x), LinkedEvent(x, id)},
              \/ /\ row.table = "last_mile_fulfilments"
                 /\ event.type = FulfilmentCreated /\ event.fulfilmentId = row.id
              \/ /\ row.table = "last_mile_shipments"
                 /\ event.type = ShipmentCreated /\ event.shipmentId = row.id,
              Write(r, CommitAggregate(row, event))
       PROVE  AllBundled'
  <2>1. /\ event.table = "outbox_messages" /\ AuditMessage(event).table = "outbox_messages"
        /\ AuditMessage(event).type = OutboxAudit
    BY <1>12, EventFields
  <2>2. Readable(row) => Whole(Statements(CommitAggregate(row, event)))
    BY <1>12, <2>1, CreationWhole
  <2>3. Head(CommitAggregate(row, event)) = row
    BY StatementsOfUse
  <2> QED BY <1>3, <1>12, <2>2, <2>3
<1>5. CASE CreateLastMileFulfilment(r)
  <2> DEFINE f == FulfilmentCreate(req[r].id, req[r].tenant, req[r].input)
             e == FulfilmentEvent(FulfilmentCreated, f)
  <2>1. /\ f.table = "last_mile_fulfilments" /\ e.type = FulfilmentCreated
        /\ e.fulfilmentId = f.id
    BY DEF FulfilmentCreate, FulfilmentEvent, OutboxMessage
  <2>2. (\E code : Fail(r, code)) \/ Write(r, CommitAggregate(f, e))
    BY <1>5 DEF CreateLastMileFulfilment
  <2> HIDE DEF f
  <2> QED BY <2>1, <2>2, <1>2, <1>12
<1>6. CASE HandleFulfilmentCreated(r)
  <2>1. ASSUME NEW f \in FulfilmentById(req[r].tenant, req[r].input.fulfilmentId), Readable(f),
               LET job == CreateShipmentJob(req[r].id, f)
               IN  IF MissingLegs(f, req[r].input) # {}
                   THEN Write(r, CommitAggregate(ScheduleReaction(f),
                                                 FulfilmentEvent(AwaitingGeocoding, f)))
                   ELSE Write(r, EmitJob(job, DecisionEvent(ShipmentRequested, job)))
        PROVE  AllBundled'
    <3> DEFINE job == CreateShipmentJob(req[r].id, f)
               parked == ScheduleReaction(f)
               awaiting == FulfilmentEvent(AwaitingGeocoding, f)
    <3>1. f \in db /\ f \in FulfilmentRow
      BY ReadTypes DEF FulfilmentById
    <3>2. req[r].id \in JobIds
      BY <1>6, BusySlot DEF HandleFulfilmentCreated, Running, RequestOK, IdKind, PostFulfilment,
                            CreateJob, FulfilmentCreated
    <3>3. /\ job \in Message /\ job.type = CreateJob
          /\ job.tenantId = f.tenantId /\ job.fulfilmentId = f.id
      BY <3>1, <3>2 DEF CreateShipmentJob, OutboxMessage, Message, FulfilmentRow, JobTypes
    <3>4. /\ parked.table = f.table /\ parked.id = f.id /\ f.table = "last_mile_fulfilments"
          /\ parked.table \in AggregateTables /\ awaiting.type = AwaitingGeocoding
      BY <3>1 DEF ScheduleReaction, FulfilmentRow, FulfilmentEvent, OutboxMessage, AggregateTables
    <3>5. \/ Write(r, CommitAggregate(parked, awaiting))
          \/ f.missing = {} /\ Write(r, EmitJob(job, DecisionEvent(ShipmentRequested, job)))
      BY <2>1 DEF MissingLegs
    <3> HIDE DEF job, parked
    <3>6. CASE Write(r, CommitAggregate(parked, awaiting))
      BY <2>1, <3>1, <3>4, <3>6, <1>4
    <3>7. CASE f.missing = {} /\ Write(r, EmitJob(job, DecisionEvent(ShipmentRequested, job)))
      <4>1. Geocoded(f, job.tenantId, job.fulfilmentId)
        BY <2>1, <3>3, <3>4, <3>7 DEF Geocoded
      <4>2. Whole(db \cup Statements(EmitJob(job, DecisionEvent(ShipmentRequested, job))))
        BY <1>1, <3>1, <3>3, <4>1, DecisionWhole
      <4> QED BY <1>1, <3>7, <4>2, WriteBundled
    <3> QED BY <3>5, <3>6, <3>7
  <2> QED BY <1>2, <1>6, <2>1 DEF HandleFulfilmentCreated
<1>7. CASE CreateLastMileShipment(r)
  <2> DEFINE s == ShipmentCreate(req[r].id, req[r].tenant, req[r].input)
             e == ShipmentEvent(ShipmentCreated, s)
  <2>1. /\ s.table = "last_mile_shipments" /\ e.type = ShipmentCreated
        /\ e.shipmentId = s.id
    BY DEF ShipmentCreate, ShipmentEvent, OutboxMessage
  <2>2. (\E code : Fail(r, code)) \/ Write(r, CommitAggregate(s, e))
    BY <1>7 DEF CreateLastMileShipment
  <2> HIDE DEF s
  <2> QED BY <2>1, <2>2, <1>2, <1>12
<1>8. CASE HandleShipmentCreated(r)
  <2> DEFINE job == LinkShipmentJob(req[r].id, req[r].input)
  <2>1. req[r].pc = "run" /\ req[r].input.type = ShipmentCreated /\ RequestOK(req[r])
    BY <1>8, BusySlot DEF HandleShipmentCreated, Running
  <2>2. req[r].input \in Message /\ req[r].id \in JobIds
    BY <2>1, InputByType DEF RequestOK, IdKind, DeliveredTypes, PostFulfilment,
       CreateJob, FulfilmentCreated, ShipmentCreated
  <2>3. job \in Message /\ job.type = LinkJob
    BY <2>2 DEF LinkShipmentJob, OutboxMessage, Message, JobTypes
  <2>4. Write(r, EmitJob(job, DecisionEvent(LinkDispatched, job)))
    BY <1>8 DEF HandleShipmentCreated
  <2>5. LinkJob # CreateJob
    BY DEF LinkJob, CreateJob
  <2> HIDE DEF job
  <2>6. Whole(db \cup Statements(EmitJob(job, DecisionEvent(LinkDispatched, job))))
    BY <1>1, <2>3, <2>5, DecisionWhole
  <2> QED BY <1>1, <2>4, <2>6, WriteBundled
<1>9. CASE LoadShipmentToLink(r)
  <2>1. ASSUME NEW s, req' = [req EXCEPT ![r].pc = "link", ![r].shipment = s], db' = db
        PROVE  AllBundled'
    <3> DEFINE q == [req[r] EXCEPT !.pc = "link", !.shipment = s]
    <3>1. q.staged = req[r].staged /\ q.todo = req[r].todo
      BY DEF TypeOK, Slot
    <3>2. req' = [req EXCEPT ![r] = q]
      BY <2>1 DEF TypeOK
    <3> HIDE DEF q
    <3> QED BY <1>1, <2>1, <3>1, <3>2, CloseBundled
  <2> QED BY <1>2, <1>9, <2>1 DEF LoadShipmentToLink
<1>10. CASE LinkShipmentToFulfilment(r)
  <2>1. ASSUME NEW f \in FulfilmentById(req[r].tenant, req[r].input.fulfilmentId), Readable(f),
               Write(r, CommitAggregate(LinkShipment(f, req[r].shipment.id),
                                        LinkedEvent(f, req[r].shipment.id)))
        PROVE  AllBundled'
    <3> DEFINE linked == LinkShipment(f, req[r].shipment.id)
               event == LinkedEvent(f, req[r].shipment.id)
    <3>1. f \in db /\ f \in FulfilmentRow
      BY ReadTypes DEF FulfilmentById
    <3>2. /\ linked.table = f.table /\ linked.id = f.id /\ linked.table \in AggregateTables
          /\ event.type = ShipmentLinked
      BY <3>1 DEF LinkShipment, FulfilmentRow, OutboxMessage, LinkedEvent, AggregateTables
    <3>3. Write(r, CommitAggregate(linked, event))
      BY <2>1
    <3> HIDE DEF linked
    <3> QED BY <2>1, <3>1, <3>2, <3>3, <1>4
  <2> QED BY <1>2, <1>10, <2>1 DEF LinkShipmentToFulfilment
<1>11. CASE MarkShipmentReady(r)
  <2>1. ASSUME NEW s \in ShipmentById(req[r].tenant, req[r].input.shipmentId), Readable(s),
               Write(r, CommitAggregate(MarkReady(s), ShipmentEvent(ShipmentReady, s)))
        PROVE  AllBundled'
    <3> DEFINE ready == MarkReady(s)
               event == ShipmentEvent(ShipmentReady, s)
    <3>1. s \in db /\ s \in ShipmentRow
      BY ReadTypes DEF ShipmentById
    <3>2. /\ ready.table = s.table /\ ready.id = s.id /\ ready.table \in AggregateTables
          /\ event.type = ShipmentReady
      BY <3>1 DEF MarkReady, ShipmentRow, ShipmentEvent, OutboxMessage, AggregateTables
    <3>3. Write(r, CommitAggregate(ready, event))
      BY <2>1
    <3> HIDE DEF ready
    <3> QED BY <2>1, <3>1, <3>2, <3>3, <1>4
  <2> QED BY <1>2, <1>11, <2>1 DEF MarkShipmentReady
<1> QED BY <1>5, <1>6, <1>7, <1>8, <1>9, <1>10, <1>11 DEF UseCase

(* A request that arrives plans nothing.                                   *)
LEMMA ReceiveBundled ==
  ASSUME TypeOK, AllBundled, NEW r \in Requests, NEW in, NEW header, NEW waiting,
         Receive(r, in, header, waiting), db' = db
  PROVE  AllBundled'
<1> DEFINE code == Precheck(in, ResolveScope(header, BodyTenant(in)))
           q == [Idle EXCEPT !.pc = IF code = "ok" THEN "run" ELSE "close",
                             !.input = in, !.tenant = ResolveScope(header, BodyTenant(in)),
                             !.waiting = waiting,
                             !.id = CHOOSE x \in FreshIds(in) : TRUE,
                             !.outcome = code]
<1>1. req' = [req EXCEPT ![r] = q] /\ q.staged = {} /\ q.todo = <<>>
  BY DEF Receive, Idle
<1> HIDE DEF q
<1>2. Bundled(q, db)
  BY <1>1, EmptyBundled DEF AllBundled
<1> QED BY <1>1, <1>2, SlotBundled DEF TypeOK

(* A statement changes what is staged, not the batch; of a stranded batch  *)
(* the row that cannot be read back is left.                               *)
LEMMA ExecuteBundled ==
  ASSUME TypeOK, Control, AllBundled, NEW r \in Requests, Execute(r)
  PROVE  AllBundled'
<1> DEFINE q == req[r]
<1>1. /\ q.pc = "write" /\ q \in Slot /\ q.todo \in Seq(Row) /\ q.todo # <<>> /\ db' = db
      /\ \/ req' = [req EXCEPT ![r] = Refused(q)]
         \/ ~Readable(Head(q.todo)) /\ req' = [req EXCEPT ![r] = Stranded(q)]
         \/ Readable(Head(q.todo)) /\ req' = [req EXCEPT ![r] = Executed(q)]
  BY ExecuteCases
<1>2. /\ q.outcome = "ok" /\ (q.staged # {} => Readable(Head(q.todo)))
      /\ Bundled(q, db) /\ Whole(db)
  BY <1>1 DEF Control, Progressing, AllBundled
<1> HIDE DEF q
<1>3. Bundled(Refused(q), db)
  <2>1. Refused(q).outcome = "TX_ABORTED"
    BY <1>1 DEF Slot, Refused
  <2> QED BY <2>1 DEF Bundled
<1>4. ASSUME ~Readable(Head(q.todo))
      PROVE  Bundled(Stranded(q), db)
  <2>1. /\ Stranded(q).pc = "close" /\ Stranded(q).staged = {Head(q.todo)}
        /\ Stranded(q).todo = <<>>
    BY <1>1, <1>2, <1>4 DEF Slot, Stranded
  <2>2. Batch(Stranded(q)) = {Head(q.todo)}
    BY <2>1 DEF Batch, Statements
  <2>3. Whole(db \cup Batch(Stranded(q)))
    BY <1>2, <1>4, <2>2, StrandedWhole
  <2> QED BY <2>1, <2>3 DEF Bundled
<1>5. ASSUME Readable(Head(q.todo))
      PROVE  Bundled(Executed(q), db)
  <2>1. /\ Executed(q).staged = q.staged \cup {Head(q.todo)} /\ Executed(q).todo = Tail(q.todo)
        /\ Executed(q).pc # "write" => Tail(q.todo) = <<>>
    BY <1>1 DEF Slot, Executed
  <2>2. Statements(q.todo) = {Head(q.todo)} \cup Statements(Tail(q.todo))
    BY <1>1, StatementsOfTail
  <2>3. Batch(Executed(q)) = Batch(q)
    BY <2>1, <2>2 DEF Batch
  <2>4. Whole(db \cup Batch(q))
    BY <1>2, <1>5 DEF Bundled, Strands
  <2> QED BY <2>1, <2>3, <2>4 DEF Bundled
<1> QED BY <1>1, <1>3, <1>4, <1>5, SlotBundled DEF TypeOK, q

(* What a transaction commits is a whole batch or nothing.                 *)
LEMMA CommitBundled ==
  ASSUME TypeOK, AllBundled, NEW r \in Requests, Commit(r)
  PROVE  AllBundled'
<1>1. /\ req[r].pc = "close" /\ db' = db \cup Committed(req[r])
      /\ req[r] \in Slot /\ req' = [req EXCEPT ![r] = Ended(req[r])]
  BY DEF Commit, Ended, TypeOK, Slot
<1>2. Whole(db')
  <2>1. CASE req[r].outcome = "TX_ABORTED"
    BY <1>1, <2>1 DEF Committed, AllBundled
  <2>2. CASE req[r].outcome # "TX_ABORTED"
    <3>1. req[r].todo = <<>> /\ Whole(db \cup Batch(req[r]))
      BY <1>1, <2>2 DEF AllBundled, Bundled, Strands
    <3>2. Batch(req[r]) = Committed(req[r])
      BY <2>2, <3>1 DEF Batch, Statements, Committed
    <3> QED BY <1>1, <3>1, <3>2
  <2> QED BY <2>1, <2>2
<1>3. Bundled(Ended(req[r]), db')
  <2>1. Ended(req[r]).staged = {} /\ Ended(req[r]).todo = <<>>
    BY <1>1 DEF Ended, Slot
  <2> QED BY <1>2, <2>1, EmptyBundled
<1>4. ASSUME NEW o \in Requests, o # r
      PROVE  Bundled(req[o], db')
  <2>1. Bundled(req[o], db)
    BY DEF AllBundled
  <2>2. db' \cup (db \cup Batch(req[o])) = db' \cup Batch(req[o])
    BY <1>1
  <2>3. Whole(db \cup Batch(req[o])) => Whole(db' \cup Batch(req[o]))
    BY <1>2, <2>2, WholeUnion
  <2> QED BY <2>1, <2>3 DEF Bundled
<1>5. req'[r] = Ended(req[r]) /\ \A o \in Requests : o # r => req'[o] = req[o]
  BY <1>1 DEF TypeOK
<1>6. ASSUME NEW o \in Requests
      PROVE  Bundled(req'[o], db')
  <2>1. CASE o = r
    BY <2>1, <1>3, <1>5
  <2>2. CASE o # r
    BY <2>2, <1>4, <1>5
  <2> QED BY <2>1, <2>2
<1> QED BY <1>2, <1>6 DEF AllBundled

(* A slot that is freed plans nothing.                                     *)
LEMMA AnswerBundled ==
  ASSUME TypeOK, AllBundled, NEW r \in Requests, Answer(r)
  PROVE  AllBundled'
<1>1. Bundled(Idle, db)
  BY EmptyBundled DEF Idle, AllBundled
<1> QED BY <1>1, SlotBundled DEF Answer, TypeOK

(* A fault aborts a batch or comes before it was planned.                  *)
LEMMA FaultBundled ==
  ASSUME TypeOK, Control, AllBundled, Fault
  PROVE  AllBundled'
<1>1. CASE Crash
  <2>1. Bundled(Idle, db)
    BY EmptyBundled DEF Idle, AllBundled
  <2> QED BY <1>1, <2>1 DEF Crash, AllBundled
<1>2. ASSUME NEW r \in Requests, ReadFails(r)
      PROVE  AllBundled'
  <2> DEFINE q == [req[r] EXCEPT !.pc = "close", !.outcome = "REPO_READ_FAILED"]
  <2>1. q.staged = req[r].staged /\ q.todo = req[r].todo
    BY DEF TypeOK, Slot
  <2>2. req' = [req EXCEPT ![r] = q] /\ db' = db /\ req[r].pc \in {"run", "link"}
    BY <1>2 DEF ReadFails, TypeOK
  <2> HIDE DEF q
  <2> QED BY <2>1, <2>2, CloseBundled
<1>3. ASSUME NEW r \in Requests, StatementFails(r)
      PROVE  AllBundled'
  <2> DEFINE q == [req[r] EXCEPT !.pc = "close", !.outcome = "TX_ABORTED"]
  <2>1. q.outcome = "TX_ABORTED"
    BY DEF TypeOK, Slot
  <2>2. req' = [req EXCEPT ![r] = q] /\ db' = db
    BY <1>3 DEF StatementFails, TypeOK
  <2> HIDE DEF q
  <2>3. Bundled(q, db)
    BY <2>1 DEF Bundled
  <2> QED BY <2>2, <2>3, SlotBundled DEF TypeOK
<1>4. ASSUME NEW r \in Requests, Timeout(r)
      PROVE  AllBundled'
  <2> DEFINE q == [req[r] EXCEPT !.waiting = FALSE]
  <2>1. /\ q.staged = req[r].staged /\ q.todo = req[r].todo
        /\ q.pc = req[r].pc /\ q.outcome = req[r].outcome
    BY DEF TypeOK, Slot
  <2>2. req' = [req EXCEPT ![r] = q] /\ db' = db
    BY <1>4 DEF Timeout, TypeOK
  <2> HIDE DEF q
  <2>3. Bundled(q, db)
    BY <2>1 DEF AllBundled, Bundled, Batch, Strands
  <2> QED BY <2>2, <2>3, SlotBundled DEF TypeOK
<1> QED BY <1>1, <1>2, <1>3, <1>4 DEF Fault

(* In every reachable state the committed rows are whole, and so they will *)
(* be after any open transaction, aborted or stranded ones included.       *)
THEOREM BatchesStayWhole == Spec => []AllBundled
<1>1. Init => AllBundled
  <2> SUFFICES ASSUME Init
               PROVE  AllBundled
    OBVIOUS
  <2>1. Whole(db)
    BY DEF Init, Whole, Announced, Audited, Answered, Grounded
  <2>2. Bundled(Idle, db)
    BY <2>1, EmptyBundled DEF Idle
  <2> QED BY <2>1, <2>2 DEF Init, AllBundled
<1>2. TypeOK /\ Control /\ AllBundled /\ [Next]_vars => AllBundled'
  <2> SUFFICES ASSUME TypeOK, Control, AllBundled, [Next]_vars
               PROVE  AllBundled'
    OBVIOUS
  <2>1. ASSUME NEW r \in Requests, CallApi(r) \/ Deliver(r)
        PROVE  AllBundled'
    BY <2>1, ReceiveBundled DEF CallApi, Deliver
  <2>2. ASSUME NEW r \in Requests, Step(r)
        PROVE  AllBundled'
    BY <2>2, UseCaseBundled, ExecuteBundled, CommitBundled, AnswerBundled DEF Step
  <2>3. CASE Fault
    BY <2>3, FaultBundled
  <2>4. CASE UNCHANGED vars
    BY <2>4 DEF vars, AllBundled
  <2> QED BY <2>1, <2>2, <2>3, <2>4 DEF Next
<1> QED BY <1>1, <1>2, TypeCorrect, ControlInvariant, PTL DEF Spec

(* No aggregate row that can be read back is ever committed without its    *)
(* created event, audit row and audit message, and none of these without   *)
(* the row, wherever statements fail, rows turn out to be unreadable,      *)
(* answers come late or the process dies (unit-of-work.ts).                *)
THEOREM OutboxStaysAtomic == Spec => []OutboxAtomicity
<1>1. TypeOK /\ AllBundled => OutboxAtomicity
  <2> SUFFICES ASSUME TypeOK, AllBundled
               PROVE  OutboxAtomicity
    OBVIOUS
  <2>1. Whole(db)
    BY DEF AllBundled
  <2>2. {f.id : f \in {x \in Fulfilments : Readable(x)}}
          = {m.fulfilmentId : m \in OfType(FulfilmentCreated)}
    BY <2>1 DEF Whole, Announced, FulfilmentOf, Fulfilments, OfType, Outbox, Table
  <2>3. {s.id : s \in {x \in Shipments : Readable(x)}}
          = {m.shipmentId : m \in OfType(ShipmentCreated)}
    BY <2>1 DEF Whole, Announced, ShipmentOf, Shipments, OfType, Outbox, Table
  <2>4. ASSUME NEW type \in {FulfilmentCreated, ShipmentCreated}
        PROVE  /\ {AuditLog(m) : m \in OfType(type)}
                     = {a \in Table("audit_logs") : a.operation = type}
               /\ {AuditMessage(m) : m \in OfType(type)} \subseteq Outbox
    <3>1. Audited(db, type)
      BY <2>1, <2>4 DEF Whole
    <3>2. ASSUME NEW m \in OfType(type)
          PROVE  /\ AuditLog(m) \in {a \in Table("audit_logs") : a.operation = type}
                 /\ AuditMessage(m) \in Outbox
      <4>1. m \in db /\ m.table = "outbox_messages" /\ m.type = type
        BY DEF OfType, Outbox, Table
      <4>2. AuditLog(m) \in db /\ AuditMessage(m) \in db
        BY <3>1, <4>1 DEF Audited
      <4>3. m \in Message
        BY <4>1, RowsByTable DEF TypeOK
      <4>4. AuditMessage(m).table = "outbox_messages"
        BY <4>3 DEF AuditMessage, Message
      <4>5. AuditLog(m).table = "audit_logs" /\ AuditLog(m).operation = type
        BY <4>1 DEF AuditLog
      <4> QED BY <4>2, <4>4, <4>5 DEF Outbox, Table
    <3>3. ASSUME NEW a \in Table("audit_logs"), a.operation = type
          PROVE  \E m \in OfType(type) : AuditLog(m) = a
      BY <3>1, <3>3 DEF Audited, OfType, Outbox, Table
    <3> QED BY <3>2, <3>3
  <2> QED BY <2>2, <2>3, <2>4 DEF OutboxAtomicity
<1> QED BY <1>1, TypeCorrect, BatchesStayWhole, PTL

(* The process asks for a shipment of a geocoded fulfilment only, whatever *)
(* the callers of the server claim in an event (handle-last-mile-          *)
(* fulfilment-created use case).                                           *)
THEOREM GeocodedJobsOnly == Spec => []JobsForGeocodedOnly
<1>1. AllBundled => JobsForGeocodedOnly
  BY DEF AllBundled, Whole, Grounded, Geocoded, JobsForGeocodedOnly, Fulfilments, OfType,
         Outbox, Table
<1> QED BY <1>1, BatchesStayWhole, PTL

(* A dispatch job and the event that records why it was sent are committed *)
(* together or not at all.                                                 *)
THEOREM JobsHaveDecisions == Spec => []JobHasDecision
<1>1. AllBundled => JobHasDecision
  <2> SUFFICES ASSUME AllBundled
               PROVE  JobHasDecision
    OBVIOUS
  <2>1. ASSUME NEW type, NEW other, Answered(db, type, other)
        PROVE  {x.job : x \in OfType(type)} \subseteq {y.job : y \in OfType(other)}
    BY <2>1 DEF Answered, OfType, Outbox, Table
  <2>2. {j.job : j \in OfType(CreateJob)} = {e.job : e \in OfType(ShipmentRequested)}
    BY <2>1 DEF AllBundled, Whole
  <2>3. {j.job : j \in OfType(LinkJob)} = {e.job : e \in OfType(LinkDispatched)}
    BY <2>1 DEF AllBundled, Whole
  <2> QED BY <2>2, <2>3 DEF JobHasDecision, JobTypes, CreateJob, LinkJob
<1> QED BY <1>1, BatchesStayWhole, PTL

-----------------------------------------------------------------------------
(* Acknowledgements.  A reply follows the commit, and what a request will  *)
(* commit contains what its message asked for - unless it is doomed: a use *)
(* case that rewrites a row plans an INSERT that the row itself refuses.   *)

(* The rows S show what the message m asks for.                            *)
Effect(m, S) ==
  /\ m.type = FulfilmentCreated =>
       \E j \in S : /\ j.table = "outbox_messages" /\ j.type = CreateJob
                    /\ j.fulfilmentId = m.fulfilmentId
  /\ m.type = CreateJob =>
       \E s \in S : s.table = "last_mile_shipments" /\ s.fulfilmentId = m.fulfilmentId
  /\ m.type = ShipmentCreated =>
       \E j \in S : /\ j.table = "outbox_messages" /\ j.type = LinkJob
                    /\ j.shipmentId = m.shipmentId
  /\ m.type = LinkJob =>
       \E f \in S : f.table = "last_mile_fulfilments" /\ m.shipmentId \in f.linkedShipments

(* One of the statements of q conflicts with a row of the database.        *)
Doomed(q, rows) == \E x \in Batch(q), d \in rows : Conflicts(d, x)

Serves(q, rows) ==
  /\ q.outcome = "ok" /\ q.pc \in {"write", "close"} =>
       Doomed(q, rows) \/ Effect(q.input, rows \cup Batch(q))
  /\ q.outcome = "ok" /\ q.pc = "answer" => Effect(q.input, rows)
  /\ q.outcome = "SHIPMENT_ALREADY_LINKED" => Effect(q.input, rows)
  /\ q.pc = "link" => q.shipment.id = q.input.shipmentId

AllServe == /\ \A m \in settled : Effect(m, db)
            /\ \A r \in Requests : Serves(req[r], db)

(* An effect stays while rows are only added, and so does a conflict.      *)
LEMMA EffectGrows ==
  ASSUME NEW m, NEW S, NEW T, S \subseteq T, Effect(m, S)
  PROVE  Effect(m, T)
BY DEF Effect

LEMMA ServesGrows ==
  ASSUME NEW q, NEW rows, NEW more, rows \subseteq more, Serves(q, rows)
  PROVE  Serves(q, more)
<1>1. Doomed(q, rows) => Doomed(q, more)
  BY DEF Doomed
<1>2. \A m : Effect(m, rows \cup Batch(q)) => Effect(m, more \cup Batch(q))
  BY EffectGrows
<1>3. \A m : Effect(m, rows) => Effect(m, more)
  BY EffectGrows
<1> QED BY <1>1, <1>2, <1>3 DEF Serves

(* A step of one request that commits and acknowledges nothing.            *)
LEMMA SlotServes ==
  ASSUME AllServe, req \in [Requests -> Slot], db' = db, settled' = settled,
         NEW r \in Requests, NEW q, Serves(q, db), req' = [req EXCEPT ![r] = q]
  PROVE  AllServe'
BY DEF AllServe

(* A decision that serves the message, or that the database will refuse.   *)
LEMMA WriteServes ==
  ASSUME TypeOK, AllServe, NEW r \in Requests, NEW statements, Write(r, statements),
         \/ Effect(req[r].input, Statements(statements))
         \/ \E x \in Statements(statements), d \in db : Conflicts(d, x)
  PROVE  AllServe'
<1> DEFINE q == [req[r] EXCEPT !.pc = "write", !.todo = statements]
<1>1. /\ q.todo = statements /\ q.input = req[r].input /\ q.outcome = req[r].outcome
      /\ q.pc = "write"
  BY DEF TypeOK, Slot
<1>2. req' = [req EXCEPT ![r] = q] /\ db' = db /\ settled' = settled
  BY DEF Write, TypeOK
<1> HIDE DEF q
<1>3. Statements(statements) \subseteq Batch(q)
  BY <1>1 DEF Batch
<1>4. Effect(req[r].input, Statements(statements)) => Effect(q.input, db \cup Batch(q))
  BY <1>1, <1>3, EffectGrows
<1>5. Doomed(q, db) \/ Effect(q.input, db \cup Batch(q))
  BY <1>3, <1>4 DEF Doomed
<1>6. Serves(req[r], db)
  BY DEF AllServe
<1>7. Serves(q, db)
  BY <1>1, <1>5, <1>6 DEF Serves
<1> QED BY <1>2, <1>7, SlotServes DEF TypeOK

(* A failure serves nothing, except the duplicate of a link.               *)
LEMMA FailServes ==
  ASSUME TypeOK, AllServe, NEW r \in Requests, NEW code, code # "ok", Fail(r, code),
         code = "SHIPMENT_ALREADY_LINKED" => Effect(req[r].input, db)
  PROVE  AllServe'
<1> DEFINE q == [req[r] EXCEPT !.pc = "close", !.outcome = code]
<1>1. q.input = req[r].input /\ q.outcome = code /\ q.pc = "close"
  BY DEF TypeOK, Slot
<1>2. req' = [req EXCEPT ![r] = q] /\ db' = db /\ settled' = settled
  BY DEF Fail, TypeOK
<1> HIDE DEF q
<1>3. Serves(q, db)
  BY <1>1 DEF Serves
<1> QED BY <1>2, <1>3, SlotServes DEF TypeOK

(* A use case decides on what its message asks for.                        *)
LEMMA UseCaseServes ==
  ASSUME TypeOK, Control, AllServe, NEW r \in Requests, UseCase(r)
  PROVE  AllServe'
<1>1. ASSUME NEW code \in {"SOURCE_NOTE_IN_FLIGHT", "FULFILMENT_NOT_FOUND", "SHIPMENT_NOT_FOUND",
                           "FULFILMENT_MISMATCH", "SHIPMENT_NOT_UNFINALISED",
                           "REPO_READ_FAILED"},
             Fail(r, code)
      PROVE  AllServe'
  BY <1>1, FailServes
<1>2. CASE CreateLastMileFulfilment(r)
  <2>1. \A S : Effect(req[r].input, S)
    BY <1>2 DEF CreateLastMileFulfilment, Running, Effect, PostFulfilment, FulfilmentCreated,
                CreateJob, ShipmentCreated, LinkJob
  <2> QED BY <1>1, <1>2, <2>1, WriteServes DEF CreateLastMileFulfilment
<1>3. CASE HandleFulfilmentCreated(r)
  <2>1. ASSUME NEW f \in FulfilmentById(req[r].tenant, req[r].input.fulfilmentId),
               LET job == CreateShipmentJob(req[r].id, f)
               IN  IF MissingLegs(f, req[r].input) # {}
                   THEN Write(r, CommitAggregate(ScheduleReaction(f),
                                                 FulfilmentEvent(AwaitingGeocoding, f)))
                   ELSE Write(r, EmitJob(job, DecisionEvent(ShipmentRequested, job)))
        PROVE  AllServe'
    <3> DEFINE job == CreateShipmentJob(req[r].id, f)
               event == DecisionEvent(ShipmentRequested, job)
               parked == ScheduleReaction(f)
               awaiting == FulfilmentEvent(AwaitingGeocoding, f)
    <3>1. f \in db /\ f \in FulfilmentRow /\ f.id = req[r].input.fulfilmentId
      BY ReadTypes DEF FulfilmentById
    <3>2. Conflicts(f, parked)
      BY <3>1 DEF ScheduleReaction, FulfilmentRow, Conflicts
    <3>3. /\ job.table = "outbox_messages" /\ job.type = CreateJob
          /\ job.fulfilmentId = req[r].input.fulfilmentId
      BY <3>1 DEF CreateShipmentJob, OutboxMessage
    <3>4. req[r].input.type = FulfilmentCreated
      BY <1>3 DEF HandleFulfilmentCreated, Running
    <3>5. Write(r, CommitAggregate(parked, awaiting)) \/ Write(r, EmitJob(job, event))
      BY <2>1
    <3> HIDE DEF job, event, parked, awaiting
    <3>6. CASE Write(r, CommitAggregate(parked, awaiting))
      <4>1. parked \in Statements(CommitAggregate(parked, awaiting))
        BY DecidedIsStated
      <4> QED BY <3>1, <3>2, <3>6, <4>1, WriteServes
    <3>7. CASE Write(r, EmitJob(job, event))
      <4>1. job \in Statements(EmitJob(job, event))
        BY DecidedIsStated
      <4>2. Effect(req[r].input, Statements(EmitJob(job, event)))
        BY <3>3, <3>4, <4>1 DEF Effect, FulfilmentCreated, CreateJob, ShipmentCreated, LinkJob
      <4> QED BY <3>7, <4>2, WriteServes
    <3> QED BY <3>5, <3>6, <3>7
  <2> QED BY <1>1, <1>3, <2>1 DEF HandleFulfilmentCreated
<1>4. CASE CreateLastMileShipment(r)
  <2> DEFINE s == ShipmentCreate(req[r].id, req[r].tenant, req[r].input)
             e == ShipmentEvent(ShipmentCreated, s)
  <2>1. s.table = "last_mile_shipments" /\ s.fulfilmentId = req[r].input.fulfilmentId
    BY DEF ShipmentCreate
  <2>2. \/ Fail(r, "FULFILMENT_NOT_FOUND") \/ Fail(r, "REPO_READ_FAILED")
        \/ Write(r, CommitAggregate(s, e))
    BY <1>4 DEF CreateLastMileShipment
  <2> HIDE DEF s, e
  <2>3. s \in Statements(CommitAggregate(s, e))
    BY DecidedIsStated
  <2>4. Effect(req[r].input, Statements(CommitAggregate(s, e)))
    BY <1>4, <2>1, <2>3 DEF CreateLastMileShipment, Running, Effect, FulfilmentCreated, CreateJob,
                            ShipmentCreated, LinkJob
  <2> QED BY <1>1, <2>2, <2>4, WriteServes
<1>5. CASE HandleShipmentCreated(r)
  <2> DEFINE job == LinkShipmentJob(req[r].id, req[r].input)
             event == DecisionEvent(LinkDispatched, job)
  <2>1. /\ job.table = "outbox_messages" /\ job.type = LinkJob
        /\ job.shipmentId = req[r].input.shipmentId
    BY DEF LinkShipmentJob, OutboxMessage
  <2>2. Write(r, EmitJob(job, event)) /\ req[r].input.type = ShipmentCreated
    BY <1>5 DEF HandleShipmentCreated, Running
  <2> HIDE DEF job, event
  <2>3. job \in Statements(EmitJob(job, event))
    BY DecidedIsStated
  <2>4. Effect(req[r].input, Statements(EmitJob(job, event)))
    BY <2>1, <2>2, <2>3 DEF Effect, FulfilmentCreated, CreateJob, ShipmentCreated, LinkJob
  <2> QED BY <2>2, <2>4, WriteServes
<1>6. CASE LoadShipmentToLink(r)
  <2>1. ASSUME NEW s \in ShipmentById(req[r].tenant, req[r].input.shipmentId),
               req' = [req EXCEPT ![r].pc = "link", ![r].shipment = s],
               UNCHANGED <<db, tries, settled, faults, lost>>
        PROVE  AllServe'
    <3> DEFINE q == [req[r] EXCEPT !.pc = "link", !.shipment = s]
    <3>1. q.pc = "link" /\ q.outcome = "ok" /\ q.shipment = s /\ q.input = req[r].input
      BY <1>6 DEF LoadShipmentToLink, Running, TypeOK, Slot, Control, Progressing
    <3>2. req' = [req EXCEPT ![r] = q]
      BY <2>1 DEF TypeOK
    <3> HIDE DEF q
    <3>3. s.id = req[r].input.shipmentId
      BY DEF ShipmentById
    <3>4. Serves(q, db)
      BY <3>1, <3>3 DEF Serves
    <3> QED BY <2>1, <3>2, <3>4, SlotServes DEF TypeOK
  <2> QED BY <1>1, <1>6, <2>1 DEF LoadShipmentToLink
<1>7. CASE LinkShipmentToFulfilment(r)
  <2>1. ASSUME NEW f \in FulfilmentById(req[r].tenant, req[r].input.fulfilmentId),
               IF IsShipmentLinked(f, req[r].shipment.id)
               THEN Fail(r, "SHIPMENT_ALREADY_LINKED")
               ELSE Write(r, CommitAggregate(LinkShipment(f, req[r].shipment.id),
                                             LinkedEvent(f, req[r].shipment.id)))
        PROVE  AllServe'
    <3> DEFINE linked == LinkShipment(f, req[r].shipment.id)
               event == LinkedEvent(f, req[r].shipment.id)
    <3>1. f \in db /\ f \in FulfilmentRow
      BY ReadTypes DEF FulfilmentById
    <3>2. Conflicts(f, linked)
      BY <3>1 DEF LinkShipment, FulfilmentRow, Conflicts
    <3>3. req[r].input.type = LinkJob /\ req[r].shipment.id = req[r].input.shipmentId
      BY <1>7, BusySlot DEF LinkShipmentToFulfilment, RequestOK, AllServe, Serves
    <3>4. CASE Fail(r, "SHIPMENT_ALREADY_LINKED") /\ IsShipmentLinked(f, req[r].shipment.id)
      <4>1. Effect(req[r].input, db)
        BY <3>1, <3>3, <3>4 DEF Effect, IsShipmentLinked, FulfilmentRow, FulfilmentCreated,
                                CreateJob, ShipmentCreated, LinkJob
      <4> QED BY <3>4, <4>1, FailServes
    <3>5. CASE Write(r, CommitAggregate(linked, event))
      <4> HIDE DEF linked, event
      <4>1. linked \in Statements(CommitAggregate(linked, event))
        BY DecidedIsStated
      <4> QED BY <3>1, <3>2, <3>5, <4>1, WriteServes
    <3> QED BY <2>1, <3>4, <3>5
  <2> QED BY <1>1, <1>7, <2>1 DEF LinkShipmentToFulfilment
<1>8. CASE MarkShipmentReady(r)
  <2>1. \A S : Effect(req[r].input, S)
    BY <1>8 DEF MarkShipmentReady, Running, Effect, PostReady, FulfilmentCreated,
                CreateJob, ShipmentCreated, LinkJob
  <2> QED BY <1>1, <1>8, <2>1, WriteServes DEF MarkShipmentReady
<1> QED BY <1>2, <1>3, <1>4, <1>5, <1>6, <1>7, <1>8 DEF UseCase

(* A request that arrives has decided nothing.                             *)
LEMMA ReceiveServes ==
  ASSUME TypeOK, AllServe, NEW r \in Requests, NEW in, NEW header, NEW waiting,
         Receive(r, in, header, waiting), UNCHANGED <<db, settled>>
  PROVE  AllServe'
<1> DEFINE code == Precheck(in, ResolveScope(header, BodyTenant(in)))
           q == [Idle EXCEPT !.pc = IF code = "ok" THEN "run" ELSE "close",
                             !.input = in, !.tenant = ResolveScope(header, BodyTenant(in)),
                             !.waiting = waiting,
                             !.id = CHOOSE x \in FreshIds(in) : TRUE,
                             !.outcome = code]
<1>1. /\ req' = [req EXCEPT ![r] = q]
      /\ q.outcome = code /\ q.pc = IF code = "ok" THEN "run" ELSE "close"
  BY DEF Receive, Idle
<1>2. code # "SHIPMENT_ALREADY_LINKED"
  BY DEF Precheck
<1> HIDE DEF q, code
<1>3. Serves(q, db)
  BY <1>1, <1>2 DEF Serves
<1> QED BY <1>1, <1>3, SlotServes DEF TypeOK

(* Executing a statement leaves the batch, and so what it serves, alone.   *)
LEMMA ExecuteServes ==
  ASSUME TypeOK, Control, AllServe, NEW r \in Requests, Execute(r)
  PROVE  AllServe'
<1> DEFINE q == req[r]
<1>1. /\ q.pc = "write" /\ q \in Slot /\ q.todo \in Seq(Row) /\ q.todo # <<>>
      /\ db' = db /\ settled' = settled
      /\ \E n \in {Refused(q), Stranded(q), Executed(q)} : req' = [req EXCEPT ![r] = n]
  BY ExecuteCases
<1>2. q.outcome = "ok" /\ Serves(q, db)
  BY <1>1 DEF Control, Progressing, AllServe
<1> HIDE DEF q
<1>3. Serves(Refused(q), db)
  <2>1. Refused(q).outcome = "TX_ABORTED" /\ Refused(q).pc = "close"
    BY <1>1 DEF Slot, Refused
  <2> QED BY <2>1 DEF Serves
<1>4. Serves(Stranded(q), db)
  <2>1. Stranded(q).outcome = "COMMIT_FAILED" /\ Stranded(q).pc = "close"
    BY <1>1 DEF Slot, Stranded
  <2> QED BY <2>1 DEF Serves
<1>5. Serves(Executed(q), db)
  <2>1. /\ Executed(q).staged = q.staged \cup {Head(q.todo)} /\ Executed(q).todo = Tail(q.todo)
        /\ Executed(q).outcome = "ok" /\ Executed(q).input = q.input
        /\ Executed(q).pc \in {"write", "close"}
    BY <1>1, <1>2 DEF Slot, Executed
  <2>2. Statements(q.todo) = {Head(q.todo)} \cup Statements(Tail(q.todo))
    BY <1>1, StatementsOfTail
  <2>3. Batch(Executed(q)) = Batch(q)
    BY <2>1, <2>2 DEF Batch
  <2>4. Doomed(q, db) \/ Effect(q.input, db \cup Batch(q))
    BY <1>1, <1>2 DEF Serves
  <2> QED BY <2>1, <2>3, <2>4 DEF Serves, Doomed
<1> QED BY <1>1, <1>3, <1>4, <1>5, SlotServes DEF TypeOK, q

(* What a request answers with success after its COMMIT is in the tables.  *)
LEMMA CommitServes ==
  ASSUME TypeOK, RowsCompatible, AllBundled, AllServe, NEW r \in Requests, Commit(r)
  PROVE  AllServe'
<1>1. /\ req[r].pc = "close" /\ db' = db \cup Committed(req[r]) /\ settled' = settled
      /\ req[r] \in Slot /\ req' = [req EXCEPT ![r] = Ended(req[r])]
  BY DEF Commit, Ended, TypeOK, Slot
<1>2. ASSUME req[r].outcome = "ok"
      PROVE  Effect(req[r].input, db')
  <2>1. req[r].todo = <<>>
    BY <1>1, <1>2 DEF AllBundled, Bundled
  <2>2. Batch(req[r]) = req[r].staged /\ Committed(req[r]) = req[r].staged
    BY <1>2, <2>1 DEF Batch, Statements, Committed
  <2>3. ~Doomed(req[r], db)
    BY <2>2, ConflictsSymmetric DEF Doomed, RowsCompatible
  <2> QED BY <1>1, <1>2, <2>2, <2>3 DEF AllServe, Serves
<1>3. db \subseteq db'
  BY <1>1
<1>4. Serves(Ended(req[r]), db')
  <2>1. /\ Ended(req[r]).pc = "answer" /\ Ended(req[r]).outcome = req[r].outcome
        /\ Ended(req[r]).input = req[r].input
    BY <1>1 DEF Ended, Slot
  <2>2. req[r].outcome = "SHIPMENT_ALREADY_LINKED" => Effect(req[r].input, db)
    BY DEF AllServe, Serves
  <2>3. Effect(req[r].input, db) => Effect(req[r].input, db')
    BY <1>3, EffectGrows
  <2> QED BY <1>2, <2>1, <2>2, <2>3 DEF Serves
<1>5. ASSUME NEW o \in Requests
      PROVE  Serves(req'[o], db')
  <2>1. CASE o = r
    BY <1>1, <1>4, <2>1 DEF TypeOK
  <2>2. CASE o # r
    <3>1. req'[o] = req[o] /\ Serves(req[o], db)
      BY <1>1, <2>2 DEF TypeOK, AllServe
    <3> QED BY <1>3, <3>1, ServesGrows
  <2> QED BY <2>1, <2>2
<1>6. \A m \in settled' : Effect(m, db')
  BY <1>1, <1>3, EffectGrows DEF AllServe
<1> QED BY <1>5, <1>6 DEF AllServe

(* What is acknowledged has just been committed or, for a duplicate link,  *)
(* was before.                                                             *)
LEMMA AnswerServes ==
  ASSUME TypeOK, AllServe, NEW r \in Requests, Answer(r)
  PROVE  AllServe'
<1>1. /\ req[r].pc = "answer" /\ db' = db /\ req' = [req EXCEPT ![r] = Idle]
      /\ settled' \subseteq settled \cup {m \in {req[r].input} : Accepted(req[r])}
  BY DEF Answer
<1>2. Accepted(req[r]) => Effect(req[r].input, db)
  BY <1>1 DEF Accepted, AllServe, Serves
<1>3. \A m \in settled' : Effect(m, db')
  BY <1>1, <1>2 DEF AllServe
<1>4. Serves(Idle, db')
  BY DEF Serves, Idle
<1>5. \A o \in Requests : Serves(req'[o], db')
  BY <1>1, <1>4 DEF AllServe, TypeOK
<1> QED BY <1>3, <1>5 DEF AllServe

(* A fault acknowledges nothing and takes no committed row away.           *)
LEMMA FaultServes ==
  ASSUME TypeOK, AllServe, Fault
  PROVE  AllServe'
<1>1. CASE Crash
  <2>1. Serves(Idle, db)
    BY DEF Serves, Idle
  <2> QED BY <1>1, <2>1 DEF Crash, AllServe
<1>2. ASSUME NEW r \in Requests, NEW code \in {"REPO_READ_FAILED", "TX_ABORTED"},
             req' = [req EXCEPT ![r].pc = "close", ![r].outcome = code],
             UNCHANGED <<db, settled>>
      PROVE  AllServe'
  <2> DEFINE q == [req[r] EXCEPT !.pc = "close", !.outcome = code]
  <2>1. q.outcome = code /\ q.pc = "close"
    BY DEF TypeOK, Slot
  <2>2. req' = [req EXCEPT ![r] = q]
    BY <1>2 DEF TypeOK
  <2> HIDE DEF q
  <2>3. Serves(q, db)
    BY <2>1 DEF Serves
  <2> QED BY <1>2, <2>2, <2>3, SlotServes DEF TypeOK
<1>3. ASSUME NEW r \in Requests, Timeout(r)
      PROVE  AllServe'
  <2> DEFINE q == [req[r] EXCEPT !.waiting = FALSE]
  <2>1. /\ q.staged = req[r].staged /\ q.todo = req[r].todo
        /\ q.pc = req[r].pc /\ q.outcome = req[r].outcome
        /\ q.input = req[r].input /\ q.shipment = req[r].shipment
    BY DEF TypeOK, Slot
  <2>2. req' = [req EXCEPT ![r] = q] /\ db' = db /\ settled' = settled
    BY <1>3 DEF Timeout, TypeOK
  <2> HIDE DEF q
  <2>3. Batch(q) = Batch(req[r])
    BY <2>1 DEF Batch
  <2>4. Serves(req[r], db)
    BY DEF AllServe
  <2>5. Serves(q, db)
    BY <2>1, <2>3, <2>4 DEF Serves, Doomed
  <2> QED BY <2>2, <2>5, SlotServes DEF TypeOK
<1>4. ASSUME NEW r \in Requests, ReadFails(r) \/ StatementFails(r)
      PROVE  AllServe'
  BY <1>2, <1>4 DEF ReadFails, StatementFails
<1> QED BY <1>1, <1>3, <1>4 DEF Fault

(* Every open request serves its message or is doomed, every settled       *)
(* message has been served.                                                *)
THEOREM RequestsServe == Spec => []AllServe
<1>1. Init => AllServe
  BY DEF Init, AllServe, Serves, Idle
<1>2. TypeOK /\ RowsCompatible /\ Control /\ AllBundled /\ AllServe /\ [Next]_vars => AllServe'
  <2> SUFFICES ASSUME TypeOK, RowsCompatible, Control, AllBundled, AllServe, [Next]_vars
               PROVE  AllServe'
    OBVIOUS
  <2>1. ASSUME NEW r \in Requests, CallApi(r) \/ Deliver(r)
        PROVE  AllServe'
    BY <2>1, ReceiveServes DEF CallApi, Deliver
  <2>2. ASSUME NEW r \in Requests, Step(r)
        PROVE  AllServe'
    BY <2>2, UseCaseServes, ExecuteServes, CommitServes, AnswerServes DEF Step
  <2>3. CASE Fault
    BY <2>3, FaultServes
  <2>4. CASE UNCHANGED vars
    BY <2>4 DEF vars, AllServe
  <2> QED BY <2>1, <2>2, <2>3, <2>4 DEF Next
<1> QED BY <1>1, <1>2, TypeCorrect, RowsStayCompatible, ControlInvariant, BatchesStayWhole,
           PTL DEF Spec

(* What a 2xx reply told FlowCatalyst is done stands in the tables from    *)
(* then on, for every number of timeouts, crashes and repeated deliveries. *)
THEOREM AnswersKept == Spec => []AckImpliesEffect
<1>1. AllServe => AckImpliesEffect
  BY DEF AllServe, Effect, AckImpliesEffect, Fulfilments, Shipments, OfType, Outbox, Table
<1> QED BY <1>1, RequestsServe, PTL

-----------------------------------------------------------------------------
(* References.  A row or message that a request will commit is about a     *)
(* fulfilment, and a shipment, that stands in the tables or comes with it; *)
(* an aggregate is about one that stands there already, as its row may be  *)
(* all that is committed.  Doomed batches need not: they change a row.     *)

Refers(x, S) ==
  /\ x.table \in {"last_mile_shipments", "outbox_messages"} =>
       \E f \in S : /\ f.table = "last_mile_fulfilments"
                    /\ f.id = x.fulfilmentId /\ f.tenantId = x.tenantId
  /\ x.table = "outbox_messages" /\ x.shipmentId # None =>
       \E s \in S : /\ s.table = "last_mile_shipments"
                    /\ s.id = x.shipmentId /\ s.fulfilmentId = x.fulfilmentId

Situated(B, rows) ==
  \A x \in B : /\ Refers(x, rows \cup B)
               /\ x.table \in AggregateTables => Refers(x, rows)

Knows(q, rows) ==
  /\ q.pc = "run" /\ q.input.type = ShipmentCreated => Refers(q.input, rows)
  /\ q.pc \in {"write", "close"} /\ q.outcome \in {"ok", "COMMIT_FAILED"} =>
       Doomed(q, rows) \/ Situated(Batch(q), rows)

AllSituated == /\ \A x \in db : Refers(x, db)
               /\ \A r \in Requests : Knows(req[r], db)

LEMMA RefersGrows ==
  ASSUME NEW x, NEW S, NEW T, S \subseteq T, Refers(x, S)
  PROVE  Refers(x, T)
BY DEF Refers

LEMMA SituatedGrows ==
  ASSUME NEW B, NEW rows, NEW more, rows \subseteq more, Situated(B, rows)
  PROVE  Situated(B, more)
<1>1. rows \cup B \subseteq more \cup B
  OBVIOUS
<1> QED BY <1>1, RefersGrows DEF Situated

LEMMA KnowsGrows ==
  ASSUME NEW q, NEW rows, NEW more, rows \subseteq more, Knows(q, rows)
  PROVE  Knows(q, more)
<1>1. Doomed(q, rows) => Doomed(q, more)
  BY DEF Doomed
<1>2. Situated(Batch(q), rows) => Situated(Batch(q), more)
  BY SituatedGrows
<1>3. Refers(q.input, rows) => Refers(q.input, more)
  BY RefersGrows
<1> QED BY <1>1, <1>2, <1>3 DEF Knows

(* A step of one request that commits nothing.                             *)
LEMMA SlotKnows ==
  ASSUME AllSituated, req \in [Requests -> Slot], db' = db,
         NEW r \in Requests, NEW q, Knows(q, db), req' = [req EXCEPT ![r] = q]
  PROVE  AllSituated'
BY DEF AllSituated

(* A decision about what stands, or one that the database will refuse.     *)
LEMMA WriteSituated ==
  ASSUME TypeOK, Control, AllSituated, NEW r \in Requests, req[r].pc \in {"run", "link"},
         NEW statements, Write(r, statements),
         \/ Situated(Statements(statements), db)
         \/ \E x \in Statements(statements), d \in db : Conflicts(d, x)
  PROVE  AllSituated'
<1> DEFINE q == [req[r] EXCEPT !.pc = "write", !.todo = statements]
<1>1. q.pc = "write" /\ q.todo = statements /\ q.staged = {}
  BY DEF TypeOK, Slot, Control, Progressing
<1>2. req' = [req EXCEPT ![r] = q] /\ db' = db
  BY DEF Write, TypeOK
<1> HIDE DEF q
<1>3. Batch(q) = Statements(statements)
  BY <1>1 DEF Batch
<1>4. Knows(q, db)
  BY <1>1, <1>3 DEF Knows, Doomed
<1> QED BY <1>2, <1>4, SlotKnows DEF TypeOK

(* A changed row is an INSERT that the committed row refuses.              *)
LEMMA RewriteSituated ==
  ASSUME TypeOK, Control, AllSituated, NEW r \in Requests, req[r].pc \in {"run", "link"},
         NEW old \in db, NEW row, NEW event, Conflicts(old, row),
         Write(r, CommitAggregate(row, event))
  PROVE  AllSituated'
<1>1. row \in Statements(CommitAggregate(row, event))
  BY DecidedIsStated
<1> QED BY <1>1, WriteSituated

(* A request that is refused or fails commits nothing.                     *)
LEMMA ClosedSituated ==
  ASSUME TypeOK, AllSituated, NEW r \in Requests, NEW code, code \notin {"ok", "COMMIT_FAILED"},
         req' = [req EXCEPT ![r].pc = "close", ![r].outcome = code], db' = db
  PROVE  AllSituated'
<1> DEFINE q == [req[r] EXCEPT !.pc = "close", !.outcome = code]
<1>1. q.pc = "close" /\ q.outcome = code
  BY DEF TypeOK, Slot
<1>2. req' = [req EXCEPT ![r] = q]
  BY DEF TypeOK
<1> HIDE DEF q
<1>3. Knows(q, db)
  BY <1>1 DEF Knows
<1> QED BY <1>2, <1>3, SlotKnows DEF TypeOK

LEMMA FailSituated ==
  ASSUME TypeOK, AllSituated, NEW r \in Requests, NEW code, code \notin {"ok", "COMMIT_FAILED"},
         Fail(r, code)
  PROVE  AllSituated'
BY ClosedSituated DEF Fail

(* An aggregate with its event: the aggregate is about what stands.        *)
LEMMA CreationSituated ==
  ASSUME NEW row, NEW event, row.table \in AggregateTables, Refers(row, db),
         event.table = "outbox_messages", AuditMessage(event).table = "outbox_messages",
         AuditMessage(event).fulfilmentId = event.fulfilmentId,
         AuditMessage(event).shipmentId = event.shipmentId,
         AuditMessage(event).tenantId = event.tenantId,
         Refers(event, db \cup {row})
  PROVE  Situated(Statements(CommitAggregate(row, event)), db)
<1> DEFINE B == {row, AuditLog(event), event, AuditMessage(event)}
<1>1. Statements(CommitAggregate(row, event)) = B
  BY StatementsOfUse
<1>2. AuditLog(event).table = "audit_logs"
  BY DEF AuditLog
<1>3. Refers(AuditLog(event), db) /\ Refers(AuditMessage(event), db \cup {row})
  BY <1>2 DEF Refers
<1>4. db \subseteq db \cup B /\ db \cup {row} \subseteq db \cup B
  OBVIOUS
<1>5. \A x \in B : Refers(x, db \cup B)
  BY <1>3, <1>4, RefersGrows
<1>6. \A x \in B : x.table \in AggregateTables => Refers(x, db)
  BY <1>2 DEF AggregateTables
<1> QED BY <1>1, <1>5, <1>6 DEF Situated

(* A job with its decision: both are about what stands.                    *)
LEMMA DecisionSituated ==
  ASSUME NEW job, NEW event, job.table = "outbox_messages", event.table = "outbox_messages",
         Refers(job, db), Refers(event, db)
  PROVE  Situated(Statements(EmitJob(job, event)), db)
<1>1. Statements(EmitJob(job, event)) = {job, event}
  BY StatementsOfUse
<1>2. \A x \in {job, event} : Refers(x, db \cup {job, event}) /\ x.table \notin AggregateTables
  BY RefersGrows DEF AggregateTables
<1> QED BY <1>1, <1>2 DEF Situated

(* Every use case decides about rows it has read, or about the message it  *)
(* was sent.                                                               *)
LEMMA UseCaseSituated ==
  ASSUME TypeOK, Control, AllSituated, NEW r \in Requests, UseCase(r)
  PROVE  AllSituated'
<1> req[r].pc \in {"run", "link"}
  BY DEF UseCase, CreateLastMileFulfilment, HandleFulfilmentCreated, CreateLastMileShipment,
         HandleShipmentCreated, LoadShipmentToLink, LinkShipmentToFulfilment,
         MarkShipmentReady, Running
<1>1. ASSUME NEW code \in {"SOURCE_NOTE_IN_FLIGHT", "FULFILMENT_NOT_FOUND", "SHIPMENT_NOT_FOUND",
                           "FULFILMENT_MISMATCH", "SHIPMENT_NOT_UNFINALISED",
                           "SHIPMENT_ALREADY_LINKED", "REPO_READ_FAILED"},
             Fail(r, code)
      PROVE  AllSituated'
  BY <1>1, FailSituated
<1>2. CASE CreateLastMileFulfilment(r)
  <2> DEFINE f == FulfilmentCreate(req[r].id, req[r].tenant, req[r].input)
             e == FulfilmentEvent(FulfilmentCreated, f)
  <2>1. f.table = "last_mile_fulfilments"
    BY DEF FulfilmentCreate
  <2>2. \/ Fail(r, "SOURCE_NOTE_IN_FLIGHT") \/ Fail(r, "REPO_READ_FAILED")
        \/ Write(r, CommitAggregate(f, e))
    BY <1>2 DEF CreateLastMileFulfilment
  <2> HIDE DEF f
  <2>3. e.fulfilmentId = f.id /\ e.tenantId = f.tenantId /\ e.shipmentId = None
    BY DEF FulfilmentEvent, OutboxMessage
  <2>4. Refers(f, db) /\ Refers(e, db \cup {f})
    BY <2>1, <2>3 DEF Refers
  <2>5. /\ e.table = "outbox_messages" /\ AuditMessage(e).table = "outbox_messages"
        /\ AuditMessage(e).fulfilmentId = e.fulfilmentId
        /\ AuditMessage(e).shipmentId = e.shipmentId /\ AuditMessage(e).tenantId = e.tenantId
    BY EventFields
  <2> HIDE DEF e
  <2>6. Situated(Statements(CommitAggregate(f, e)), db)
    BY <2>1, <2>4, <2>5, CreationSituated DEF AggregateTables
  <2> QED BY <1>1, <2>2, <2>6, WriteSituated
<1>3. CASE HandleFulfilmentCreated(r)
  <2>1. ASSUME NEW f \in FulfilmentById(req[r].tenant, req[r].input.fulfilmentId),
               LET job == CreateShipmentJob(req[r].id, f)
               IN  IF MissingLegs(f, req[r].input) # {}
                   THEN Write(r, CommitAggregate(ScheduleReaction(f),
                                                 FulfilmentEvent(AwaitingGeocoding, f)))
                   ELSE Write(r, EmitJob(job, DecisionEvent(ShipmentRequested, job)))
        PROVE  AllSituated'
    <3> DEFINE job == CreateShipmentJob(req[r].id, f)
               event == DecisionEvent(ShipmentRequested, job)
               parked == ScheduleReaction(f)
               awaiting == FulfilmentEvent(AwaitingGeocoding, f)
    <3>1. f \in db /\ f \in FulfilmentRow /\ f.table = "last_mile_fulfilments"
      BY ReadTypes DEF FulfilmentById
    <3>2. Conflicts(f, parked)
      BY <3>1 DEF ScheduleReaction, FulfilmentRow, Conflicts
    <3>3. /\ job.table = "outbox_messages" /\ event.table = "outbox_messages"
          /\ job.fulfilmentId = f.id /\ event.fulfilmentId = f.id
          /\ job.tenantId = f.tenantId /\ event.tenantId = f.tenantId
          /\ job.shipmentId = None /\ event.shipmentId = None
      BY DEF CreateShipmentJob, DecisionEvent, OutboxMessage
    <3>4. Write(r, CommitAggregate(parked, awaiting)) \/ Write(r, EmitJob(job, event))
      BY <2>1
    <3> HIDE DEF job, event, parked, awaiting
    <3>5. Refers(job, db) /\ Refers(event, db)
      BY <3>1, <3>3 DEF Refers
    <3>6. Situated(Statements(EmitJob(job, event)), db)
      BY <3>3, <3>5, DecisionSituated
    <3> QED BY <3>1, <3>2, <3>4, <3>6, RewriteSituated, WriteSituated
  <2> QED BY <1>1, <1>3, <2>1 DEF HandleFulfilmentCreated
<1>4. CASE CreateLastMileShipment(r)
  <2> DEFINE q == req[r]
             s == ShipmentCreate(q.id, q.tenant, q.input)
             e == ShipmentEvent(ShipmentCreated, s)
  <2>1. /\ s.table = "last_mile_shipments" /\ s.tenantId = q.tenant
        /\ s.fulfilmentId = q.input.fulfilmentId
    BY DEF ShipmentCreate
  <2>2. \/ Fail(r, "FULFILMENT_NOT_FOUND") \/ Fail(r, "REPO_READ_FAILED")
        \/ /\ FulfilmentById(q.tenant, q.input.fulfilmentId) # {}
           /\ Write(r, CommitAggregate(s, e))
    BY <1>4 DEF CreateLastMileShipment
  <2> HIDE DEF s
  <2>3. ASSUME FulfilmentById(q.tenant, q.input.fulfilmentId) # {},
               Write(r, CommitAggregate(s, e))
        PROVE  AllSituated'
    <3>1. PICK f \in db : /\ f.table = "last_mile_fulfilments"
                          /\ f.tenantId = s.tenantId /\ f.id = s.fulfilmentId
      BY <2>1, <2>3 DEF FulfilmentById
    <3>2. e.fulfilmentId = s.fulfilmentId /\ e.tenantId = s.tenantId /\ e.shipmentId = s.id
      BY DEF ShipmentEvent, OutboxMessage
    <3>3. Refers(s, db) /\ Refers(e, db \cup {s})
      BY <2>1, <3>1, <3>2 DEF Refers
    <3>4. /\ e.table = "outbox_messages" /\ AuditMessage(e).table = "outbox_messages"
          /\ AuditMessage(e).fulfilmentId = e.fulfilmentId
          /\ AuditMessage(e).shipmentId = e.shipmentId /\ AuditMessage(e).tenantId = e.tenantId
      BY EventFields
    <3> HIDE DEF e
    <3>5. Situated(Statements(CommitAggregate(s, e)), db)
      BY <2>1, <3>3, <3>4, CreationSituated DEF AggregateTables
    <3> QED BY <2>3, <3>5, WriteSituated
  <2> QED BY <1>1, <2>2, <2>3
<1>5. CASE HandleShipmentCreated(r)
  <2> DEFINE in == req[r].input
             job == LinkShipmentJob(req[r].id, in)
             event == DecisionEvent(LinkDispatched, job)
  <2>1. req[r].pc = "run" /\ in.type = ShipmentCreated /\ RequestOK(req[r])
    BY <1>5, BusySlot DEF HandleShipmentCreated, Running
  <2>2. in.table = "outbox_messages"
    BY <2>1, InputByType DEF RequestOK, DeliveredTypes, Message
  <2>3. Refers(in, db)
    BY <2>1 DEF AllSituated, Knows
  <2>4. /\ job.table = "outbox_messages" /\ event.table = "outbox_messages"
        /\ job.fulfilmentId = in.fulfilmentId /\ event.fulfilmentId = in.fulfilmentId
        /\ job.tenantId = in.tenantId /\ event.tenantId = in.tenantId
        /\ job.shipmentId = in.shipmentId /\ event.shipmentId = in.shipmentId
    BY DEF LinkShipmentJob, DecisionEvent, OutboxMessage
  <2>5. Write(r, EmitJob(job, event))
    BY <1>5 DEF HandleShipmentCreated
  <2> HIDE DEF in, job, event
  <2>6. Refers(job, db) /\ Refers(event, db)
    BY <2>2, <2>3, <2>4 DEF Refers
  <2>7. Situated(Statements(EmitJob(job, event)), db)
    BY <2>4, <2>6, DecisionSituated
  <2> QED BY <2>5, <2>7, WriteSituated
<1>6. CASE LoadShipmentToLink(r)
  <2>1. ASSUME NEW s, req' = [req EXCEPT ![r].pc = "link", ![r].shipment = s], db' = db
        PROVE  AllSituated'
    <3> DEFINE q == [req[r] EXCEPT !.pc = "link", !.shipment = s]
    <3>1. q.pc = "link" /\ req' = [req EXCEPT ![r] = q]
      BY <2>1 DEF TypeOK, Slot
    <3> HIDE DEF q
    <3>2. Knows(q, db)
      BY <3>1 DEF Knows
    <3> QED BY <2>1, <3>1, <3>2, SlotKnows DEF TypeOK
  <2> QED BY <1>1, <1>6, <2>1 DEF LoadShipmentToLink
<1>7. CASE LinkShipmentToFulfilment(r)
  <2>1. ASSUME NEW f \in FulfilmentById(req[r].tenant, req[r].input.fulfilmentId), NEW event,
               Write(r, CommitAggregate(LinkShipment(f, req[r].shipment.id), event))
        PROVE  AllSituated'
    <3> DEFINE linked == LinkShipment(f, req[r].shipment.id)
    <3>1. f \in FulfilmentRow /\ f \in db
      BY ReadTypes DEF FulfilmentById
    <3>2. Conflicts(f, linked)
      BY <3>1 DEF Conflicts, LinkShipment, FulfilmentRow
    <3>3. Write(r, CommitAggregate(linked, event))
      BY <2>1
    <3> HIDE DEF linked
    <3> QED BY <3>1, <3>2, <3>3, RewriteSituated
  <2> QED BY <1>1, <1>7, <2>1 DEF LinkShipmentToFulfilment
<1>8. CASE MarkShipmentReady(r)
  <2>1. ASSUME NEW s \in ShipmentById(req[r].tenant, req[r].input.shipmentId), NEW event,
               Write(r, CommitAggregate(MarkReady(s), event))
        PROVE  AllSituated'
    <3> DEFINE ready == MarkReady(s)
    <3>1. s \in ShipmentRow /\ s \in db
      BY ReadTypes DEF ShipmentById
    <3>2. Conflicts(s, ready)
      BY <3>1 DEF Conflicts, AggregateTables, MarkReady, ShipmentRow
    <3>3. Write(r, CommitAggregate(ready, event))
      BY <2>1
    <3> HIDE DEF ready
    <3> QED BY <3>1, <3>2, <3>3, RewriteSituated
  <2> QED BY <1>1, <1>8, <2>1 DEF MarkShipmentReady
<1> QED BY <1>2, <1>3, <1>4, <1>5, <1>6, <1>7, <1>8 DEF UseCase

(* A request that arrives knows of what is in the tables if it is let in   *)
(* with a shipment:created.                                                *)
LEMMA ReceiveSituated ==
  ASSUME TypeOK, AllSituated, NEW r \in Requests, NEW in, NEW header, NEW waiting,
         Receive(r, in, header, waiting), db' = db,
         in.type = ShipmentCreated /\ Precheck(in, ResolveScope(header, BodyTenant(in))) = "ok"
           => Refers(in, db)
  PROVE  AllSituated'
<1> DEFINE code == Precheck(in, ResolveScope(header, BodyTenant(in)))
           q == [Idle EXCEPT !.pc = IF code = "ok" THEN "run" ELSE "close",
                             !.input = in, !.tenant = ResolveScope(header, BodyTenant(in)),
                             !.waiting = waiting,
                             !.id = CHOOSE x \in FreshIds(in) : TRUE,
                             !.outcome = code]
<1>1. /\ req' = [req EXCEPT ![r] = q] /\ q.input = in
      /\ q.outcome = code /\ q.pc = IF code = "ok" THEN "run" ELSE "close"
  BY DEF Receive, Idle
<1>2. code # "COMMIT_FAILED"
  BY DEF Precheck
<1>3. in.type = ShipmentCreated /\ code = "ok" => Refers(in, db)
  OBVIOUS
<1> HIDE DEF q, code
<1>4. Knows(q, db)
  BY <1>1, <1>2, <1>3 DEF Knows
<1> QED BY <1>1, <1>4, SlotKnows DEF TypeOK

LEMMA ArrivalSituated ==
  ASSUME GenuineShipments, TypeOK, AllSituated, NEW r \in Requests, CallApi(r) \/ Deliver(r)
  PROVE  AllSituated'
<1>1. CASE CallApi(r)
  <2>1. PICK a \in ApiRequests : Receive(r, a.input, a.header, FALSE)
    BY <1>1 DEF CallApi
  <2>2. ~(a.input.type = ShipmentCreated
          /\ Precheck(a.input, ResolveScope(a.header, BodyTenant(a.input))) = "ok")
    BY DEF GenuineShipments, GuardRefuses, TenantOf
  <2> QED BY <1>1, <2>1, <2>2, ReceiveSituated DEF CallApi
<1>2. CASE Deliver(r)
  <2>1. PICK m \in db : Receive(r, m, None, TRUE)
    BY <1>2 DEF Deliver
  <2> QED BY <1>2, <2>1, ReceiveSituated DEF Deliver, AllSituated
<1> QED BY <1>1, <1>2

(* A statement moves within the batch, or strands on an aggregate's row.   *)
LEMMA ExecuteSituated ==
  ASSUME TypeOK, Control, AllSituated, NEW r \in Requests, Execute(r)
  PROVE  AllSituated'
<1> DEFINE q == req[r]
<1>1. /\ q.pc = "write" /\ q \in Slot /\ q.todo \in Seq(Row) /\ q.todo # <<>> /\ db' = db
      /\ \/ req' = [req EXCEPT ![r] = Refused(q)]
         \/ /\ ~\E d \in db \cup q.staged : Conflicts(d, Head(q.todo))
            /\ ~Readable(Head(q.todo))
            /\ req' = [req EXCEPT ![r] = Stranded(q)]
         \/ req' = [req EXCEPT ![r] = Executed(q)]
  BY ExecuteCases
<1>2. /\ q.outcome = "ok" /\ Later(q.todo) /\ (q.staged # {} => Readable(Head(q.todo)))
      /\ Knows(q, db)
  BY <1>1 DEF Control, Progressing, AllSituated
<1> HIDE DEF q
<1>3. Statements(q.todo) = {Head(q.todo)} \cup Statements(Tail(q.todo))
  BY <1>1, StatementsOfTail
<1>4. Knows(Refused(q), db)
  <2>1. Refused(q).pc = "close" /\ Refused(q).outcome = "TX_ABORTED"
    BY <1>1 DEF Slot, Refused
  <2> QED BY <2>1 DEF Knows
<1>5. ASSUME ~\E d \in db \cup q.staged : Conflicts(d, Head(q.todo)), ~Readable(Head(q.todo))
      PROVE  Knows(Stranded(q), db)
  <2>1. /\ Stranded(q).pc = "close" /\ Stranded(q).todo = <<>>
        /\ Stranded(q).staged = {Head(q.todo)} /\ q.staged = {}
    BY <1>1, <1>2, <1>5 DEF Slot, Stranded
  <2>2. /\ Batch(q) = Statements(q.todo) /\ Head(q.todo) \in Batch(q)
        /\ Batch(Stranded(q)) = {Head(q.todo)}
    <3>1. Statements(<<>>) = {}
      BY DEF Statements
    <3>2. Batch(Stranded(q)) = {Head(q.todo)}
      BY <2>1, <3>1 DEF Batch
    <3>3. Batch(q) = Statements(q.todo)
      BY <2>1 DEF Batch
    <3> QED BY <1>3, <3>2, <3>3
  <2>3. ~Doomed(q, db)
    <3>1. ASSUME NEW i \in 1..Len(q.todo), NEW d \in db
          PROVE  ~Conflicts(d, q.todo[i])
      <4>1. CASE i = 1
        BY <1>1, <1>5, <4>1
      <4>2. CASE i # 1
        <5>1. i \in 2..Len(q.todo)
          BY <1>1, <4>2
        <5> QED BY <1>2, <5>1 DEF Later, Conflicts, AggregateTables
      <4> QED BY <4>1, <4>2
    <3> QED BY <2>2, <3>1 DEF Doomed, Statements
  <2>4. Situated(Batch(q), db)
    BY <1>1, <1>2, <2>3 DEF Knows
  <2>5. Refers(Head(q.todo), db)
    BY <1>5, <2>2, <2>4 DEF Situated, Readable
  <2>6. Situated({Head(q.todo)}, db)
    BY <2>5, RefersGrows DEF Situated
  <2> QED BY <2>1, <2>2, <2>6 DEF Knows
<1>6. Knows(Executed(q), db)
  <2>1. /\ Executed(q).staged = q.staged \cup {Head(q.todo)} /\ Executed(q).todo = Tail(q.todo)
        /\ Executed(q).outcome = "ok" /\ Executed(q).pc \in {"write", "close"}
    BY <1>1, <1>2 DEF Slot, Executed
  <2>2. Batch(Executed(q)) = Batch(q)
    BY <1>3, <2>1 DEF Batch
  <2>3. Doomed(q, db) \/ Situated(Batch(q), db)
    BY <1>1, <1>2 DEF Knows
  <2> QED BY <2>1, <2>2, <2>3 DEF Knows, Doomed
<1> QED BY <1>1, <1>4, <1>5, <1>6, SlotKnows DEF TypeOK, q

(* What commits was not doomed, so what it is about is there.              *)
LEMMA CommitSituated ==
  ASSUME TypeOK, RowsCompatible, Control, AllBundled, AllSituated, NEW r \in Requests, Commit(r)
  PROVE  AllSituated'
<1>1. /\ req[r].pc = "close" /\ db' = db \cup Committed(req[r]) /\ db \subseteq db'
      /\ req[r] \in Slot /\ req' = [req EXCEPT ![r] = Ended(req[r])]
  BY DEF Commit, Ended, TypeOK, Slot
<1>2. \A x \in Committed(req[r]) : Refers(x, db')
  <2>1. CASE req[r].outcome \in {"ok", "COMMIT_FAILED"}
    <3>1. req[r].todo = <<>>
      BY <1>1, <2>1 DEF AllBundled, Bundled
    <3>2. Batch(req[r]) = req[r].staged /\ Committed(req[r]) = req[r].staged
      BY <2>1, <3>1 DEF Batch, Statements, Committed
    <3>3. ~Doomed(req[r], db)
      BY <3>2, ConflictsSymmetric DEF Doomed, RowsCompatible
    <3>4. Situated(req[r].staged, db)
      BY <1>1, <2>1, <3>2, <3>3 DEF AllSituated, Knows
    <3> QED BY <1>1, <3>2, <3>4 DEF Situated
  <2>2. CASE req[r].outcome \notin {"ok", "COMMIT_FAILED"}
    BY <1>1, <2>2 DEF Committed, Control, Progressing
  <2> QED BY <2>1, <2>2
<1>3. \A x \in db' : Refers(x, db')
  BY <1>1, <1>2, RefersGrows DEF AllSituated
<1>4. Knows(Ended(req[r]), db')
  <2>1. Ended(req[r]).pc = "answer"
    BY <1>1 DEF Ended, Slot
  <2> QED BY <2>1 DEF Knows
<1>5. ASSUME NEW o \in Requests
      PROVE  Knows(req'[o], db')
  <2>1. CASE o = r
    BY <1>1, <1>4, <2>1 DEF TypeOK
  <2>2. CASE o # r
    <3>1. req'[o] = req[o] /\ Knows(req[o], db)
      BY <1>1, <2>2 DEF TypeOK, AllSituated
    <3> QED BY <1>1, <3>1, KnowsGrows
  <2> QED BY <2>1, <2>2
<1> QED BY <1>3, <1>5 DEF AllSituated

LEMMA FaultSituated ==
  ASSUME TypeOK, AllSituated, Fault
  PROVE  AllSituated'
<1>1. CASE Crash
  <2>1. Knows(Idle, db)
    BY DEF Knows, Idle
  <2> QED BY <1>1, <2>1 DEF Crash, AllSituated
<1>2. ASSUME NEW r \in Requests, ReadFails(r) \/ StatementFails(r)
      PROVE  AllSituated'
  BY <1>2, ClosedSituated DEF ReadFails, StatementFails
<1>3. ASSUME NEW r \in Requests, Timeout(r)
      PROVE  AllSituated'
  <2> DEFINE q == [req[r] EXCEPT !.waiting = FALSE]
  <2>1. /\ q.staged = req[r].staged /\ q.todo = req[r].todo /\ q.pc = req[r].pc
        /\ q.outcome = req[r].outcome /\ q.input = req[r].input
    BY DEF TypeOK, Slot
  <2>2. req' = [req EXCEPT ![r] = q] /\ db' = db
    BY <1>3 DEF Timeout, TypeOK
  <2> HIDE DEF q
  <2>3. Batch(q) = Batch(req[r]) /\ Knows(req[r], db)
    BY <2>1 DEF Batch, AllSituated
  <2>4. Knows(q, db)
    BY <2>1, <2>3 DEF Knows, Doomed
  <2> QED BY <2>2, <2>4, SlotKnows DEF TypeOK
<1> QED BY <1>1, <1>2, <1>3 DEF Fault

(* Nothing committed points at something that is not, whoever calls POST   *)
(* /shipments, the link route or, without a signature, fulfilment:created: *)
(* of the callers it needs only that nobody makes up a shipment:created.   *)
THEOREM ReferencesStay == ASSUME GenuineShipments PROVE Spec => []ReferencesHold
<1>1. Init => AllSituated
  BY DEF Init, AllSituated, Knows, Idle
<1>2. TypeOK /\ RowsCompatible /\ Control /\ AllBundled /\ AllSituated /\ [Next]_vars
        => AllSituated'
  <2> SUFFICES ASSUME TypeOK, RowsCompatible, Control, AllBundled, AllSituated, [Next]_vars
               PROVE  AllSituated'
    OBVIOUS
  <2>1. ASSUME NEW r \in Requests, CallApi(r) \/ Deliver(r)
        PROVE  AllSituated'
    BY <2>1, ArrivalSituated
  <2>2. ASSUME NEW r \in Requests, Answer(r)
        PROVE  AllSituated'
    <3>1. Knows(Idle, db) /\ req' = [req EXCEPT ![r] = Idle] /\ db' = db
      BY <2>2 DEF Answer, Knows, Idle
    <3> QED BY <3>1, SlotKnows DEF TypeOK
  <2>3. ASSUME NEW r \in Requests, Step(r)
        PROVE  AllSituated'
    BY <2>2, <2>3, UseCaseSituated, ExecuteSituated, CommitSituated DEF Step
  <2>4. CASE Fault
    BY <2>4, FaultSituated
  <2>5. CASE UNCHANGED vars
    BY <2>5 DEF vars, AllSituated
  <2> QED BY <2>1, <2>3, <2>4, <2>5 DEF Next
<1>3. AllSituated => ReferencesHold
  BY DEF AllSituated, Refers, ReferencesHold, Fulfilments, Shipments, Outbox, Table
<1> QED BY <1>1, <1>2, <1>3, TypeCorrect, RowsStayCompatible, ControlInvariant,
           BatchesStayWhole, PTL DEF Spec
=============================================================================
