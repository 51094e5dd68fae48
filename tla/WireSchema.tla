----------------------------- MODULE WireSchema -----------------------------
(***************************************************************************)
(* The TypeBox schemas of packages/server/src/api/schemas/lastmile, by     *)
(* which Fastify's Ajv validates the bodies of POST /fulfilments and       *)
(* POST /shipments.                                                        *)
(***************************************************************************)
EXTENDS SchemaTerms

Address == Leaves(
  [line1 |-> Required(1..500), line2 |-> Optional(0..500), city |-> Required(1..200),
   region |-> Optional(0..200), postalCode |-> Optional(0..40),
   countryCode |-> Required(2..2)])

GeoPoint == Leaves([lat |-> Required(-90..90), lng |-> Required(-180..180)])

(* The format "email": an address of six characters or more may be one     *)
(* Zod accepts too, the others are AjvAddress.                             *)
ContactRef == Leaves(
  [name |-> Required(1..200), phone |-> Required(1..40),
   email |-> Optional((6..320) \cup {AjvAddress})])

Consignee ==
  ContactRef @@ Under("alternateContact", Optional(Node),
                      Leaves([name |-> Required(1..200), phone |-> Required(1..40)]))

(* The format "date-time" accepts a leap second.                           *)
TimeWindow == Leaves([start |-> Required({Leap} \cup Instant),
                      end   |-> Required({Leap} \cup Instant)])

AccessConstraints == Leaves(
  [maxVehicleLengthMm |-> Optional(AtLeast(1)), maxVehicleWidthMm |-> Optional(AtLeast(1)),
   maxVehicleHeightMm |-> Optional(AtLeast(1)), maxGrossWeightKg |-> Optional(AtLeast(1)),
   requiresTailLift |-> Optional(Boolean), requiresForklift |-> Optional(Boolean),
   requiresCrane |-> Optional(Boolean), notes |-> Optional(0..2000)])

(* The longest value; a key outside the Record's pattern is not looked at.  *)
Metadata == Leaves([value |-> Optional((0..2048) \cup {LooseKey})])

CollectionPoint ==
  Leaves([locationId |-> Optional(0..40), name |-> Required(1..200),
          dockRef |-> Optional(0..100), accessNotes |-> Optional(0..2000)])
  @@ Under("address", Required(Node), Address)
  @@ Under("geo", Optional(Node), GeoPoint)
  @@ Under("contact", Optional(Node), ContactRef)
  @@ Under("collectionWindow", Optional(Node), TimeWindow)

(* Mutant of DropOffPoint: the address of the drop-off is optional.         *)
DropOffPointNowhere ==
  Leaves([name |-> Required(1..200), unattendedDeliveryAllowed |-> Required(Boolean)])
  @@ Under("address", Optional(Node), Address)

DropOffPoint ==
  Leaves([locationId |-> Optional(0..40), name |-> Required(1..200),
          deliveryInstructions |-> Optional(0..2000),
          unattendedDeliveryAllowed |-> Required(Boolean)])
  @@ Under("address", Required(Node), Address)
  @@ Under("geo", Optional(Node), GeoPoint)
  @@ Under("access", Optional(Node), AccessConstraints)

(* Mutant of SourceNoteRef: a longer number than its column holds.          *)
SourceNoteRefLong == Leaves(
  [system |-> Required(1..100), type |-> Required(Enum(SourceNoteType)),
   number |-> Required(1..200), revision |-> Optional(AtLeast(0))])

SourceNoteRef == Leaves(
  [system |-> Required(1..100), type |-> Required(Enum(SourceNoteType)),
   number |-> Required(1..100), revision |-> Optional(AtLeast(0))])

OrderRef == Leaves([system |-> Required(1..100), number |-> Required(1..100)])

-----------------------------------------------------------------------------
(* Cargo, as drafted by a client and as stored.  A quantity is counted in  *)
(* the smallest unit above 0.                                              *)

PromisedLineDraft ==
  Leaves([lineId |-> Optional(IdUpTo(40)), sku |-> Required(1..200),
          description |-> Required(1..2000), quantity |-> Required(AtLeast(1)),
          uom |-> Required(Enum(UnitOfMeasure)), sourceLineRef |-> Optional(0..200)])
  @@ Under("metadata", Optional(0..50), Metadata)

ParcelDraft ==
  Leaves([parcelId |-> Optional(IdUpTo(40)), type |-> Required(Enum(ParcelType)),
          label |-> Optional(0..200), weightGrams |-> Required(AtLeast(1)),
          lengthMm |-> Optional(AtLeast(1)), widthMm |-> Optional(AtLeast(1)),
          heightMm |-> Optional(AtLeast(1)), volumeCm3 |-> Optional(AtLeast(1)),
          lineRefs |-> Optional(SUBSET IdUpTo(40)), status |-> Optional(Enum(ParcelStatus))])
  @@ Under("metadata", Optional(0..50), Metadata)

PromisedLine ==
  Leaves([lineId |-> Required(IdUpTo(40)), sku |-> Required(1..200),
          description |-> Required(1..2000), quantity |-> Required(AtLeast(1)),
          uom |-> Required(Enum(UnitOfMeasure)), sourceLineRef |-> Optional(0..200)])
  @@ Under("metadata", Required(0..50), Metadata)

Parcel ==
  Leaves([parcelId |-> Required(IdUpTo(40)), type |-> Required(Enum(ParcelType)),
          label |-> Optional(0..200), weightGrams |-> Required(AtLeast(1)),
          lengthMm |-> Optional(AtLeast(1)), widthMm |-> Optional(AtLeast(1)),
          heightMm |-> Optional(AtLeast(1)), volumeCm3 |-> Optional(AtLeast(1)),
          lineRefs |-> Required(SUBSET IdUpTo(40)), status |-> Required(Enum(ParcelStatus))])
  @@ Under("metadata", Required(0..50), Metadata)

-----------------------------------------------------------------------------
(* Bodies.                                                                 *)

Snapshot ==   \* what both bodies have
  Leaves([temperatureZone |-> Optional(Enum(TemperatureZone)),
          handling |-> Optional(Enum(HandlingFlag))])
  @@ Under("collection", Required(Node), CollectionPoint)
  @@ Under("dropOff", Required(Node), DropOffPoint)
  @@ Under("consignee", Required(Node), Consignee)
  @@ Under("promisedWindow", Required(Node), TimeWindow)
  @@ Under("metadata", Optional(0..50), Metadata)

CreateLastMileFulfilmentBody ==
  Snapshot @@ Under("sourceNote", Required(Node), SourceNoteRef)
           @@ Under("orderRef", Optional(Node), OrderRef)

CreateLastMileShipmentBody ==
  Snapshot @@ Leaves([tenantId |-> Required(1..100), fulfilmentId |-> Required(1..40)])

(* Ajv as Fastify configures it: undeclared keys are removed, declared     *)
(* defaults are filled in before the check.                                *)
Validated(schema, defaults, b) == Known(schema, b) @@ defaults

CargoDefaults == <<"metadata">> :> 0
Defaults      == CargoDefaults @@ (<<"sourceNote", "revision">> :> 1)
=============================================================================
