--------------------------- MODULE LastMileIntake ---------------------------
(***************************************************************************)
(* What becomes of the data of one POST /fulfilments: the body is          *)
(* validated on the wire, turned into a command, checked by the rules of   *)
(* CreateLastMileFulfilment, made an aggregate, mapped to a row, inserted  *)
(* and read back; later the row is read again, made the payload of a       *)
(* dispatch job, and validated once more by POST /shipments, which maps    *)
(* its own aggregate to a row.                                             *)
(*                                                                         *)
(* LastMileProcess has the interleavings of many such requests; here one   *)
(* request follows another, and what is explored is the data: five hand-   *)
(* written descriptions of the same fields (wire, contract, rules, rows,   *)
(* columns) that have to agree.                                            *)
(***************************************************************************)
EXTENDS LastMileRows, PartialFunctions, Integers, FiniteSets

CONSTANTS Leap, Coerced, AjvAddress, ZodAddress, LooseKey,   \* see SchemaTerms
          Posts,       \* bodies clients send, and what they meet:
                       \* [fields, lines, parcels, nul, tenant, principal, attempts, faults]
          Lives,       \* what a stored fulfilment may become:
                       \* [state, reaction, linkedShipments]
          Trips,       \* and a stored shipment: [trip, status]
          Now,         \* the clock
          MaxInteger,  \* largest value of a PostgreSQL integer
          Expanded,    \* the JSON of a date beyond the years of four digits,
                       \* such as "+010000-01-01T04:59:59.000Z"
          FirstInstant, LastInstant,   \* first and last of those years, in UTC
          FirstStored                  \* first of the year 1, PostgreSQL has no year 0

Wire     == INSTANCE WireSchema
Contract == INSTANCE ContractSchema

(* A body is an object, whose fields have their parents; a tenant has a    *)
(* name; an instant is a number, an odd text none of them; null is no      *)
(* type; nobody makes up the TSID that the server is going to generate.    *)
(* An offset moves an instant whose text has four digits for its year past *)
(* the first or the last of those years in UTC.                            *)
(* nul is where the body has text that PostgreSQL refuses, such as the     *)
(* character NUL: nowhere, in the source note, or elsewhere.  principal is *)
(* the length of the client's user id.                                     *)
IsObject(b) == \A q \in DOMAIN b : Len(q) > 1 => SubSeq(q, 1, Len(q) - 1) \in DOMAIN b

ASSUME IntakeAssumption ==
  /\ {FirstInstant, FirstStored, Now, LastInstant} \subseteq Int
  /\ FirstInstant <= FirstStored /\ FirstStored <= Now /\ Now <= LastInstant
  /\ Wire!OddValues \cap Int = {} /\ Expanded \notin Int \cup {Leap}
  /\ None \notin {"LastMileFulfilment", "LastMileShipment"}
  /\ MaxInteger \in Nat \ {0}
  /\ \A p \in Posts :
       /\ IsObject(p.fields) /\ p.tenant \in Nat \ {0} /\ p.principal \in Nat
       /\ p.nul \in {"none", "note", "rest"}
       /\ DOMAIN p.lines \subseteq Nat /\ DOMAIN p.parcels \subseteq Nat
       /\ \A i, j \in DOMAIN p.lines :
            <<"lineId">> \in DOMAIN p.lines[i] => p.lines[i][<<"lineId">>] # Wire!Id(17, j)

VARIABLES post,    \* the body the client sends, the number of requests of each kind
                   \* (attempts) and of failing statements (faults) that may follow
          req,     \* the request being handled
          sent,    \* requests so far, by kind
          db,      \* committed records
          faults

vars == <<post, req, sent, db, faults>>

-----------------------------------------------------------------------------
(* The wire body as a command (bodyToCommand of both routes).              *)

Cargo     == {"dropOff", "consignee", "temperatureZone", "handling", "metadata"}
Below(b, keys) == [p \in {q \in DOMAIN b : q[1] \in keys} |-> b[p]]

ToDate(text) == IF text = Leap THEN Invalid ELSE text   \* new Date(text)

WindowAt(b, path) ==
  IF path \notin DOMAIN b THEN None
  ELSE [start |-> ToDate(b[path \o <<"start">>]), end |-> ToDate(b[path \o <<"end">>])]

Place(b) == LET c == Below(b, {"collection"})
            IN  [p \in {q \in DOMAIN c : Len(q) = 1 \/ q[2] # "collectionWindow"} |-> c[p]]

ParcelDefaults == (<<"lineRefs">> :> {}) @@ (<<"status">> :> Wire!Packed)

CommandDefaults == (<<"dropOff", "access">> :> 0) @@ (<<"temperatureZone">> :> Wire!Ambient)

(* Mutant of BodyToCommand: a parcel has the status the client gave it.     *)
BodyToCommandBareParcels(b, lines, parcels) ==
  [note |-> Below(b, {"sourceNote"}), orderRef |-> Below(b, {"orderRef"}),
   place |-> Place(b), collectionWindow |-> WindowAt(b, <<"collection", "collectionWindow">>),
   promisedWindow |-> WindowAt(b, <<"promisedWindow">>), lines |-> lines,
   parcels |-> [i \in DOMAIN parcels |-> parcels[i] @@ (<<"lineRefs">> :> {})],
   cargo |-> Below(b, Cargo) @@ CommandDefaults]

BodyToCommand(b, lines, parcels) ==
  [note |-> Below(b, {"sourceNote"}), orderRef |-> Below(b, {"orderRef"}),
   place |-> Place(b), collectionWindow |-> WindowAt(b, <<"collection", "collectionWindow">>),
   promisedWindow |-> WindowAt(b, <<"promisedWindow">>), lines |-> lines,
   parcels |-> [i \in DOMAIN parcels |-> parcels[i] @@ ParcelDefaults],
   cargo |-> Below(b, Cargo) @@ CommandDefaults]

(* Ajv's verdict on a body, its lines and its parcels.                     *)
WireAccepts(schema, lineSchema, parcelSchema, b, lines, parcels) ==
  /\ Wire!Fits(schema, b)
  /\ \A i \in DOMAIN lines : Wire!Fits(lineSchema, lines[i])
  /\ \A i \in DOMAIN parcels : Wire!Fits(parcelSchema, parcels[i])

ValidatedAll(schema, items) ==
  [i \in DOMAIN items |-> Wire!Validated(schema, Wire!CargoDefaults, items[i])]

-----------------------------------------------------------------------------
(* The rules of CreateLastMileFulfilment that need no read, in their       *)
(* order.  Dates compare like JavaScript's: false if one is invalid.       *)

Before(d, e)   == d # Invalid /\ e # Invalid /\ d < e
NotAfter(d, e) == d # Invalid /\ e # Invalid /\ d <= e

DeclaredLines(lines) == {lines[i][<<"lineId">>] : i \in
                           {j \in DOMAIN lines : <<"lineId">> \in DOMAIN lines[j]}}

(* Mutant of Rules: the references of a parcel are not looked up.           *)
RulesWithoutReferences(c) ==
  << <<NotAfter(c.promisedWindow.end, c.promisedWindow.start), "PROMISED_WINDOW_INVALID">>,
     <<c.collectionWindow # None /\ NotAfter(c.collectionWindow.end, c.collectionWindow.start),
       "COLLECTION_WINDOW_INVALID">>,
     <<Before(c.promisedWindow.end, Now), "PROMISED_WINDOW_IN_PAST">> >>

Rules(c) ==
  << <<NotAfter(c.promisedWindow.end, c.promisedWindow.start), "PROMISED_WINDOW_INVALID">>,
     <<c.collectionWindow # None /\ NotAfter(c.collectionWindow.end, c.collectionWindow.start),
       "COLLECTION_WINDOW_INVALID">>,
     <<Before(c.promisedWindow.end, Now), "PROMISED_WINDOW_IN_PAST">>,
     <<\E i \in DOMAIN c.lines : c.lines[i][<<"quantity">>] <= 0, "LINE_QUANTITY_NON_POSITIVE">>,
     <<\E i, j \in DOMAIN c.lines :
         /\ i # j /\ <<"lineId">> \in DOMAIN c.lines[i] \cap DOMAIN c.lines[j]
         /\ c.lines[i][<<"lineId">>] = c.lines[j][<<"lineId">>], "DUPLICATE_LINE_ID">>,
     <<\E i \in DOMAIN c.parcels : c.parcels[i][<<"weightGrams">>] <= 0,
       "PARCEL_WEIGHT_NON_POSITIVE">>,
     <<\E i \in DOMAIN c.parcels : ~(c.parcels[i][<<"lineRefs">>] \subseteq DeclaredLines(c.lines)),
       "PARCEL_LINE_REF_UNKNOWN">> >>

FirstBroken(rules) ==
  LET broken == {i \in DOMAIN rules : rules[i][1]}
  IN  IF broken = {} THEN "ok" ELSE rules[CHOOSE i \in broken : \A j \in broken : i <= j][2]

-----------------------------------------------------------------------------
(* Aggregates, and the repository a plain object is dispatched to.         *)

(* withGeneratedLineId, withGeneratedParcelId: fresh TSIDs, 17 characters.  *)
WithGenerated(key, items) ==
  [i \in DOMAIN items |-> items[i] @@ (key :> Wire!Id(17, i))]

FulfilmentCreate(id, tenant, c) ==
  [id |-> id, tenantId |-> tenant,
   sourceNote |-> [system |-> c.note[<<"sourceNote", "system">>],
                   type |-> c.note[<<"sourceNote", "type">>],
                   number |-> c.note[<<"sourceNote", "number">>],
                   revision |-> c.note[<<"sourceNote", "revision">>]],
   orderRef |-> IF c.orderRef = <<>> THEN None
                ELSE [system |-> c.orderRef[<<"orderRef", "system">>],
                      number |-> c.orderRef[<<"orderRef", "number">>]],
   collection |-> [place |-> c.place, collectionWindow |-> c.collectionWindow],
   promisedWindow |-> c.promisedWindow,
   linkedShipments |-> <<>>,
   state |-> [stage |-> "awaiting_planning", at |-> None, rest |-> None],
   reaction |-> [awaitingEventType |-> None, awaitingDeadline |-> None,
                 lastHandledEventId |-> None, lastReactionAt |-> None],
   carried |-> [cargo |-> c.cargo, lines |-> WithGenerated(<<"lineId">>, c.lines),
                parcels |-> WithGenerated(<<"parcelId">>, c.parcels)],
   version |-> 1, createdAt |-> Now, updatedAt |-> Now]

ShipmentCreate(id, tenant, fulfilmentId, c) ==
  [id |-> id, tenantId |-> tenant, fulfilmentId |-> fulfilmentId,
   collection |-> [place |-> c.place, collectionWindow |-> c.collectionWindow],
   promisedWindow |-> c.promisedWindow, trip |-> None, status |-> "unfinalised",
   carried |-> [cargo |-> c.cargo, lines |-> c.lines, parcels |-> c.parcels],
   version |-> 1, createdAt |-> Now, updatedAt |-> Now]

Handlers  == {"LastMileFulfilment", "LastMileShipment"}
PrefixMap == [lmf |-> "LastMileFulfilment", shp |-> "LastMileShipment"]

(* A tagged aggregate says its type, an instance has a class; a plain      *)
(* object is recognised by the prefix of its id, if that type is           *)
(* registered.  The aggregates of this server are plain and untagged.      *)
ExtractTypeName(tag, class, prefix) ==
  IF tag # None THEN tag
  ELSE IF class \notin {None, "Object"} THEN class
  ELSE IF prefix \in DOMAIN PrefixMap /\ PrefixMap[prefix] \in Handlers
       THEN PrefixMap[prefix] ELSE None

TypeNameOf(a) == ExtractTypeName(None, "Object", a.id.prefix)

-----------------------------------------------------------------------------
(* The database.                                                           *)

Rows(type)  == {r.row : r \in {d \in db : d.kind = type}}
Fulfilments == Rows("LastMileFulfilment")
Shipments   == Rows("LastMileShipment")
Audited(id) == [kind |-> "audit", entityId |-> id]
Created(a)  == [kind |-> "created", id |-> a.id, tenantId |-> a.tenantId]

(* A timestamp is sent as ISO text, of which PostgreSQL takes no sign and  *)
(* no year 0.                                                              *)
FitsTimestamps(row) ==
  {row.promisedWindowStart, row.promisedWindowEnd} \subseteq FirstStored..LastInstant

FitsColumns(row) ==
  /\ row.tenantId <= 100 /\ row.sourceNoteSystem <= 100 /\ row.sourceNoteNumber <= 100
  /\ row.sourceNoteRevision <= MaxInteger
  /\ row.orderRefSystem # None => row.orderRefSystem <= 100 /\ row.orderRefNumber <= 100
  /\ FitsTimestamps(row)

(* What repository.persist(aggregate) comes to:                            *)
(*   "unsent"   toRow or a column mapping throws, no SQL is sent           *)
(*   "aborted"  PostgreSQL refuses the row, for a length, a number, a date, *)
(*              a text or the index, and aborts the transaction            *)
(*   "unread"   the row is inserted, toAggregate(saved) throws             *)
(*   "saved"                                                               *)
PersistFulfilment(a) ==
  LET row == FulfilmentToRow(a)
  IN  CASE ~Sendable(row) -> "unsent"
        [] Sendable(row) /\ (\/ ~FitsColumns(row) \/ post.nul # "none"
                             \/ \E r \in Fulfilments : HoldsSameNote(r, row)) -> "aborted"
        [] OTHER -> IF FulfilmentReadable(row) THEN "saved" ELSE "unread"

PersistShipment(a) ==
  LET row == ShipmentToRow(a)
  IN  CASE ~Sendable(row) -> "unsent"
        [] Sendable(row) /\ ~(row.tenantId <= 100 /\ FitsTimestamps(row)) -> "aborted"
        [] OTHER -> IF ShipmentReadable(row) THEN "saved" ELSE "unread"

(* registry.persist: the handler of the aggregate's type.  A repository    *)
(* that is handed the other aggregate finds fields missing.                *)
RegistryPersist(kind, a) ==
  CASE TypeNameOf(a) # kind -> "unsent"
    [] TypeNameOf(a) = kind /\ kind = "LastMileFulfilment" -> PersistFulfilment(a)
    [] OTHER -> PersistShipment(a)

ToRow(kind, a) == [kind |-> kind, row |-> IF kind = "LastMileFulfilment" THEN FulfilmentToRow(a)
                                                                         ELSE ShipmentToRow(a)]

-----------------------------------------------------------------------------
(* Requests.  kind is the type of the aggregate a request creates; staged  *)
(* is what its open transaction has written, aborted that PostgreSQL has   *)
(* failed the transaction.                                                 *)

Idle == [pc |-> "idle", kind |-> None, command |-> None, aggregate |-> None,
         staged |-> {}, aborted |-> FALSE, outcome |-> "none"]

Kinds == Handlers

Init == /\ post \in Posts
        /\ req = Idle
        /\ sent = [k \in Kinds |-> 0]
        /\ db = {}
        /\ faults = 0

Arrives(kind) == /\ req.pc = "idle"
                 /\ sent[kind] < post.attempts
                 /\ sent' = [sent EXCEPT ![kind] = @ + 1]
                 /\ UNCHANGED <<post, db, faults>>

To(pc)        == /\ req' = [req EXCEPT !.pc = pc]
                 /\ UNCHANGED <<post, sent, db, faults>>
Refuse(code)  == /\ req' = [req EXCEPT !.pc = "close", !.outcome = code]
                 /\ UNCHANGED <<post, sent, db, faults>>

(* POST /fulfilments arrives: Ajv validates, bodyToCommand converts.       *)
PostFulfilment ==
  /\ Arrives("LastMileFulfilment")
  /\ LET b       == Wire!Validated(Wire!CreateLastMileFulfilmentBody, Wire!Defaults, post.fields)
         lines   == ValidatedAll(Wire!PromisedLineDraft, post.lines)
         parcels == ValidatedAll(Wire!ParcelDraft, post.parcels)
         new     == [Idle EXCEPT !.kind = "LastMileFulfilment"]
     IN  req' = IF WireAccepts(Wire!CreateLastMileFulfilmentBody, Wire!PromisedLineDraft,
                               Wire!ParcelDraft, b, lines, parcels)
                THEN [new EXCEPT !.pc = "rules", !.command = BodyToCommand(b, lines, parcels)]
                ELSE [new EXCEPT !.pc = "close", !.outcome = "BODY_INVALID"]

CheckRules ==
  /\ req.pc = "rules"
  /\ LET code == FirstBroken(Rules(req.command))
     IN  IF code = "ok" THEN To("note") ELSE Refuse(code)

(* findActiveBySourceNote, a query with the texts of the note, which maps  *)
(* the row it finds to an aggregate.                                       *)
CheckSourceNote ==
  /\ req.pc = "note"
  /\ LET id    == [prefix |-> "lmf", number |-> sent["LastMileFulfilment"]]
         f     == FulfilmentCreate(id, post.tenant, req.command)
         found == {r \in Fulfilments : HoldsSameNote(r, FulfilmentToRow(f))}
     IN  IF post.nul = "note" THEN Refuse("REPO_READ_FAILED")
         ELSE IF found = {}
         THEN /\ req' = [req EXCEPT !.pc = "persist", !.aggregate = f]
              /\ UNCHANGED <<post, sent, db, faults>>
         ELSE Refuse(IF \A r \in found : FulfilmentReadable(r)
                     THEN "SOURCE_NOTE_IN_FLIGHT" ELSE "REPO_READ_FAILED")

(* commitAggregate: the persist callback writes the row, then the audit    *)
(* row; then the SDK writes the event.  A callback that throws ends the    *)
(* commit as a typed failure.                                              *)
Persist ==
  /\ req.pc = "persist"
  /\ LET result == RegistryPersist(req.kind, req.aggregate)
         row    == ToRow(req.kind, req.aggregate)
     IN  req' = [req EXCEPT
           !.pc      = IF result = "saved" THEN "audit" ELSE "close",
           !.outcome = IF result = "saved" THEN "none" ELSE "COMMIT_FAILED",
           !.aborted = result = "aborted",
           !.staged  = IF result \in {"saved", "unread"} THEN {row} ELSE {}]
  /\ UNCHANGED <<post, sent, db, faults>>

(* The audit row names the principal of the request: the client's user id, *)
(* or the name of the reactor when FlowCatalyst delivers.                  *)
WriteLocalAuditLog ==
  /\ req.pc = "audit"
  /\ req' = IF req.kind = "LastMileFulfilment" /\ post.principal > 100
            THEN [req EXCEPT !.pc = "close", !.outcome = "COMMIT_FAILED", !.aborted = TRUE]
            ELSE [req EXCEPT !.pc = "event", !.staged = @ \cup {Audited(req.aggregate.id)}]
  /\ UNCHANGED <<post, sent, db, faults>>

WriteEvent ==
  /\ req.pc = "event"
  /\ req' = [req EXCEPT !.pc = "close", !.outcome = "ok",
                        !.staged = @ \cup {Created(req.aggregate)}]
  /\ UNCHANGED <<post, sent, db, faults>>

(* A statement of the commit fails on the connection.                      *)
StatementFails ==
  /\ faults < post.faults
  /\ req.pc \in {"persist", "audit", "event"}
  /\ req' = [req EXCEPT !.pc = "close", !.outcome = "COMMIT_FAILED", !.aborted = TRUE]
  /\ faults' = faults + 1
  /\ UNCHANGED <<post, sent, db>>

(* Mutant of Committed: what an aborted transaction wrote stays.            *)
CommittedRegardless(q) == q.staged

(* runWrite lets the transaction commit whatever the use case returned;    *)
(* only PostgreSQL itself rolls back.                                      *)
Committed(q) == IF q.aborted THEN {} ELSE q.staged

Close ==
  /\ req.pc = "close"
  /\ db' = db \cup Committed(req)
  /\ req' = Idle
  /\ UNCHANGED <<post, sent, faults>>

-----------------------------------------------------------------------------
(* The dispatch job and the shipment it asks for.                          *)

Geocoded(c) == <<"collection", "geo">> \in DOMAIN c.place /\ <<"dropOff", "geo">> \in DOMAIN c.cargo

(* HandleLastMileFulfilmentCreated: the payload is JSON, dates are strings *)
(* again, with a sign and six digits for the year where four are too few.  *)
(* (LastMileProcess has the other branch, a leg without geo.)              *)
JsonDate(d) == IF d \in FirstInstant..LastInstant THEN d ELSE Expanded

WindowFields(path, w) ==
  IF w = None THEN <<>>
  ELSE (path :> 0) @@ (path \o <<"start">> :> JsonDate(w.start))
                   @@ (path \o <<"end">> :> JsonDate(w.end))

(* Mutant of CreateShipmentPayload: the collection window is forgotten.     *)
CreateShipmentPayloadAnyTime(f) ==
  [fields |-> f.collection.place @@ f.carried.cargo
              @@ WindowFields(<<"promisedWindow">>, f.promisedWindow)
              @@ (<<"tenantId">> :> f.tenantId) @@ (<<"fulfilmentId">> :> 17),
   lines |-> f.carried.lines, parcels |-> f.carried.parcels, fulfilmentId |-> f.id]

CreateShipmentPayload(f) ==
  [fields |-> f.collection.place @@ f.carried.cargo
              @@ WindowFields(<<"collection", "collectionWindow">>, f.collection.collectionWindow)
              @@ WindowFields(<<"promisedWindow">>, f.promisedWindow)
              @@ (<<"tenantId">> :> f.tenantId) @@ (<<"fulfilmentId">> :> 17),
   lines |-> f.carried.lines, parcels |-> f.carried.parcels, fulfilmentId |-> f.id]

HandleLastMileFulfilmentCreated ==
  /\ req.pc = "idle"
  /\ ~\E j \in db : j.kind = "job"
  /\ \E e \in db : \E row \in Fulfilments :
       /\ e.kind = "created" /\ e.id = row.id /\ e.tenantId = row.tenantId
       /\ LET f == FulfilmentToAggregate(row)
          IN  /\ Geocoded([place |-> f.collection.place, cargo |-> f.carried.cargo])
              /\ db' = db \cup {[kind |-> "job", payload |-> CreateShipmentPayload(f)]}
  /\ UNCHANGED <<post, req, sent, faults>>

(* POST /shipments arrives; the geo recheck; the parent is read.           *)
PostShipment ==
  /\ Arrives("LastMileShipment")
  /\ \E j \in {d \in db : d.kind = "job"} :
       LET p       == j.payload
           b       == Wire!Validated(Wire!CreateLastMileShipmentBody, Wire!CargoDefaults, p.fields)
           lines   == ValidatedAll(Wire!PromisedLine, p.lines)
           parcels == ValidatedAll(Wire!Parcel, p.parcels)
           c       == BodyToCommand(b, lines, parcels)
           id      == [prefix |-> "shp", number |-> sent["LastMileShipment"] + 1]
           parent  == {r \in Fulfilments : r.id = p.fulfilmentId /\ r.tenantId = post.tenant}
           new     == [Idle EXCEPT !.kind = "LastMileShipment"]
           refuse(code) == [new EXCEPT !.pc = "close", !.outcome = code]
       IN  req' =
             IF ~WireAccepts(Wire!CreateLastMileShipmentBody, Wire!PromisedLine, Wire!Parcel,
                             b, lines, parcels) THEN refuse("BODY_INVALID")
             ELSE IF ~Geocoded(c) THEN refuse("LOCATIONS_NOT_GEOCODED")
             ELSE IF ~\E r \in parent : FulfilmentReadable(r) THEN refuse("FULFILMENT_NOT_FOUND")
             ELSE [new EXCEPT !.pc = "persist",
                              !.aggregate = ShipmentCreate(id, b[<<"tenantId">>], p.fulfilmentId, c)]

-----------------------------------------------------------------------------
Next == \/ PostFulfilment \/ CheckRules \/ CheckSourceNote
        \/ Persist \/ WriteLocalAuditLog \/ WriteEvent \/ StatementFails \/ Close
        \/ HandleLastMileFulfilmentCreated \/ PostShipment

Spec == Init /\ [][Next]_vars

-----------------------------------------------------------------------------
(* Properties.                                                             *)

(* A fulfilment or shipment row that can be read has its audit row and its *)
(* created event, whichever statement or mapping failed on the way.        *)
ReadableRowHasEvent ==
  /\ \A r \in Fulfilments : FulfilmentReadable(r) =>
       Audited(r.id) \in db /\ [kind |-> "created", id |-> r.id, tenantId |-> r.tenantId] \in db
  /\ \A r \in Shipments : ShipmentReadable(r) =>
       Audited(r.id) \in db /\ [kind |-> "created", id |-> r.id, tenantId |-> r.tenantId] \in db

(* The two hand-written copies of the limits agree, but for the odd values *)
(* on whose text Ajv's formats and Zod's differ: a body without those and  *)
(* without undeclared keys, its lines and parcels included, is refused by  *)
(* the server for its shape or the order of a window exactly if the        *)
(* contract refuses it.                                                    *)
Odd(b) == \E p \in DOMAIN b : b[p] \in Wire!OddValues

NothingOdd(p) ==
  /\ ~Odd(p.fields)
  /\ \A i \in DOMAIN p.lines : ~Odd(p.lines[i])
  /\ \A i \in DOMAIN p.parcels : ~Odd(p.parcels[i])

ShapeCodes == {"BODY_INVALID", "PROMISED_WINDOW_INVALID", "COLLECTION_WINDOW_INVALID"}

Declared(p) ==
  /\ DOMAIN p.fields \subseteq DOMAIN Contract!CreateLastMileFulfilmentCommand
  /\ \A i \in DOMAIN p.lines : DOMAIN p.lines[i] \subseteq DOMAIN Contract!PromisedLineDraft
  /\ \A i \in DOMAIN p.parcels : DOMAIN p.parcels[i] \subseteq DOMAIN Contract!ParcelDraft

WireMatchesContract ==
  /\ req.kind = "LastMileFulfilment" /\ req.pc # "rules"
  /\ NothingOdd(post) /\ Declared(post)
  => (req.outcome \in ShapeCodes <=> ~Contract!Parses(post.fields, post.lines, post.parcels))

(* A creation the wire and the rules let through is refused by the         *)
(* repositories and columns only for what no schema states: a leap second, *)
(* a promised window outside the years a timestamp takes, a revision       *)
(* beyond the integer column, a text PostgreSQL refuses, a tenant or a     *)
(* user id longer than its column.                                         *)
Leaps(b) == \E p \in DOMAIN b : b[p] = Leap

Within(b, window, from, to) ==
  \A k \in {"start", "end"} :
    window \o <<k>> \in DOMAIN b => b[window \o <<k>>] \in from..to

CommitFailsOnlyBeyondSchema ==
  req.outcome = "COMMIT_FAILED" /\ faults = 0 =>
    \/ Leaps(post.fields)
    \/ ~Within(post.fields, <<"promisedWindow">>, FirstStored, LastInstant)
    \/ /\ <<"sourceNote", "revision">> \in DOMAIN post.fields
       /\ post.fields[<<"sourceNote", "revision">>] > MaxInteger
    \/ post.nul # "none"
    \/ post.tenant > 100
    \/ post.principal > 100

(* The job built from a stored, geocoded fulfilment is accepted by POST    *)
(* /shipments: drafts, defaults, JSONB and JSON lose nothing its schema    *)
(* and guards ask for, with one exception.  A collection window whose UTC  *)
(* year has more or fewer than four digits is stored, becomes a JSON date  *)
(* the schema does not take, and has its job refused at every delivery.    *)
JobAccepted ==
  req.kind = "LastMileShipment" /\ faults = 0 =>
    IF Within(post.fields, <<"collection", "collectionWindow">>, FirstInstant, LastInstant)
    THEN req.outcome \in {"none", "ok"}
    ELSE req.outcome = "BODY_INVALID"

(* The shipment is a snapshot: read back, it has the locations, windows    *)
(* and cargo of the fulfilment read back.                                  *)
ShipmentCarriesPromise ==
  \A s \in Shipments : \E f \in Fulfilments :
    LET shipment   == ShipmentToAggregate(s)
        fulfilment == FulfilmentToAggregate(f)
    IN  /\ f.id = s.fulfilmentId /\ f.tenantId = s.tenantId
        /\ shipment.collection = fulfilment.collection
        /\ shipment.promisedWindow = fulfilment.promisedWindow
        /\ shipment.carried = fulfilment.carried

(* In every stored row, each line has an id of its own and a parcel refers *)
(* only to lines of its own row, generated ids included.                   *)
CargoIsCoherent ==
  \A r \in Fulfilments \cup Shipments :
    LET lines   == r.carried.lines
        parcels == r.carried.parcels
    IN  /\ \A i, j \in DOMAIN lines :
             lines[i][<<"lineId">>] = lines[j][<<"lineId">>] => i = j
        /\ \A i \in DOMAIN parcels : parcels[i][<<"lineRefs">>] \subseteq DeclaredLines(lines)

(* What the stored rows can become: every stage and status, with every     *)
(* bookkeeping, that the domain's types allow.                             *)
LaterFulfilments ==
  {[FulfilmentToAggregate(r) EXCEPT !.state = l.state, !.reaction = l.reaction,
                                    !.linkedShipments = l.linkedShipments] :
     r \in {f \in Fulfilments : FulfilmentReadable(f)}, l \in Lives}

LaterShipments ==
  {[ShipmentToAggregate(r) EXCEPT !.trip = l.trip, !.status = l.status] :
     r \in {s \in Shipments : ShipmentReadable(s)}, l \in Trips}

(* Whatever stage or status a stored aggregate reaches, if its dates are   *)
(* valid it comes back from its row and its JSONB columns as it went in.   *)
RoundTrip ==
  /\ \A a \in LaterFulfilments : IsFulfilment(a) => FulfilmentSurvives(a)
  /\ \A a \in LaterShipments : IsShipment(a) => ShipmentSurvives(a)

(* A fulfilment that reaches a terminal stage, and only then, lets its     *)
(* note be fulfilled again ("post-cancel reissue"): the index keeps it     *)
(* apart from the stored ones exactly while it is open.                    *)
TerminalStagesFreeTheNote ==
  \A a \in LaterFulfilments : \A r \in Fulfilments : IsFulfilment(a) =>
    (HoldsSameNote(FulfilmentToRow(a), r) <=> a.state.stage \in OpenStages /\ SameNote(a, r))

-----------------------------------------------------------------------------
(* What the documentation says and the code does not do.                   *)

(* "Commit an aggregate change + emit the domain event atomically": every  *)
(* committed fulfilment row has its created event.                         *)
RowHasItsEvent ==
  \A r \in Fulfilments : [kind |-> "created", id |-> r.id, tenantId |-> r.tenantId] \in db
=============================================================================
