---------------------------- MODULE ContractSchema ----------------------------
(***************************************************************************)
(* The Zod contract of POST /fulfilments in packages/shared, which clients *)
(* of the API validate with before they send: a second, independent copy   *)
(* of the limits in WireSchema.  Strict objects refuse undeclared keys.    *)
(***************************************************************************)
EXTENDS SchemaTerms

MetadataLimits == [maxEntries |-> 50, maxValueLength |-> 2048]

Positive(S) == {k \in S : k > 0}

Address == Leaves(
  [line1 |-> Required(1..500), line2 |-> Optional(0..500), city |-> Required(1..200),
   region |-> Optional(0..200), postalCode |-> Optional(0..40),
   countryCode |-> Required({2})])

GeoPoint == Leaves([lat |-> Required(-90..90), lng |-> Required(-180..180)])

(* email() asks for a top-level domain of two letters.                     *)
ContactRef == Leaves(
  [name |-> Required(1..200), phone |-> Required(1..40),
   email |-> Optional((6..320) \cup {ZodAddress})])

Consignee == Leaves(
  [name |-> Required(1..200), phone |-> Required(1..40),
   email |-> Optional((6..320) \cup {ZodAddress})])
  @@ Under("alternateContact", Optional(Node),
           Leaves([name |-> Required(1..200), phone |-> Required(1..40)]))

(* z.coerce.date hands its input to new Date, and refuses an Invalid Date. *)
TimeWindow == Leaves([start |-> Required(Instant \cup {Coerced}),
                      end   |-> Required(Instant \cup {Coerced})])

(* end must be after start.  (Which date Coerced is stays open.)           *)
EndAfterStart(b, window) ==
  /\ window \in DOMAIN b
  /\ b[window \o <<"start">>] \in Instant /\ b[window \o <<"end">>] \in Instant
  => b[window \o <<"end">>] > b[window \o <<"start">>]

AccessConstraints == Leaves(
  [maxVehicleLengthMm |-> Optional(Positive(Int)), maxVehicleWidthMm |-> Optional(Positive(Int)),
   maxVehicleHeightMm |-> Optional(Positive(Int)), maxGrossWeightKg |-> Optional(Positive(Int)),
   requiresTailLift |-> Optional(Boolean), requiresForklift |-> Optional(Boolean),
   requiresCrane |-> Optional(Boolean), notes |-> Optional(0..2000)])

(* Keys match keyPattern and have at most 64 characters: no LooseKey.      *)
Metadata == Leaves([value |-> Optional(0..MetadataLimits.maxValueLength)])
Entries  == 0..MetadataLimits.maxEntries

CollectionPoint ==
  Leaves([locationId |-> Optional(0..40), name |-> Required(1..200),
          dockRef |-> Optional(0..100), accessNotes |-> Optional(0..2000)])
  @@ Under("address", Required(Node), Address) @@ Under("geo", Optional(Node), GeoPoint)
  @@ Under("contact", Optional(Node), ContactRef)
  @@ Under("collectionWindow", Optional(Node), TimeWindow)

DropOffPoint ==
  Leaves([locationId |-> Optional(0..40), name |-> Required(1..200),
          deliveryInstructions |-> Optional(0..2000),
          unattendedDeliveryAllowed |-> Required(Boolean)])
  @@ Under("address", Required(Node), Address) @@ Under("geo", Optional(Node), GeoPoint)
  @@ Under("access", Optional(Node), AccessConstraints)

SourceNoteRef == Leaves(
  [system |-> Required(1..100), type |-> Required(Enum(SourceNoteType)),
   number |-> Required(1..100), revision |-> Optional(Nat)])

OrderRef == Leaves([system |-> Required(1..100), number |-> Required(1..100)])

PromisedLineDraft ==
  Leaves([lineId |-> Optional(IdUpTo(40)), sku |-> Required(1..200),
          description |-> Required(1..2000), quantity |-> Required(Positive(Int)),
          uom |-> Required(Enum(UnitOfMeasure)), sourceLineRef |-> Optional(0..200)])
  @@ Under("metadata", Optional(Entries), Metadata)

ParcelDraft ==
  Leaves([parcelId |-> Optional(IdUpTo(40)), type |-> Required(Enum(ParcelType)),
          label |-> Optional(0..200), weightGrams |-> Required(Positive(Int)),
          lengthMm |-> Optional(Positive(Int)), widthMm |-> Optional(Positive(Int)),
          heightMm |-> Optional(Positive(Int)), volumeCm3 |-> Optional(Positive(Int)),
          lineRefs |-> Optional(SUBSET IdUpTo(40)), status |-> Optional(Enum(ParcelStatus))])
  @@ Under("metadata", Optional(Entries), Metadata)

CreateLastMileFulfilmentCommand ==
  Leaves([temperatureZone |-> Optional(Enum(TemperatureZone)),
          handling |-> Optional(Enum(HandlingFlag))])
  @@ Under("sourceNote", Required(Node), SourceNoteRef)
  @@ Under("orderRef", Optional(Node), OrderRef)
  @@ Under("collection", Required(Node), CollectionPoint)
  @@ Under("dropOff", Required(Node), DropOffPoint)
  @@ Under("consignee", Required(Node), Consignee)
  @@ Under("promisedWindow", Required(Node), TimeWindow)
  @@ Under("metadata", Optional(Entries), Metadata)

Strict(schema, b) == DOMAIN b \subseteq DOMAIN schema /\ Fits(schema, b)

(* CreateLastMileFulfilmentCommandSchema.safeParse succeeds.               *)
Parses(body, lines, parcels) ==
  /\ Strict(CreateLastMileFulfilmentCommand, body)
  /\ EndAfterStart(body, <<"promisedWindow">>)
  /\ EndAfterStart(body, <<"collection", "collectionWindow">>)
  /\ \A i \in DOMAIN lines : Strict(PromisedLineDraft, lines[i])
  /\ \A i \in DOMAIN parcels : Strict(ParcelDraft, parcels[i])
=============================================================================
