-------------------------- MODULE MCLastMileIntake --------------------------
(***************************************************************************)
(* Bodies for LastMileIntake: one that is valid, with every optional field *)
(* present, and all that differ from it in one field, one window, or in    *)
(* their lines and parcels; and what the stored rows may become.           *)
(***************************************************************************)
EXTENDS LastMileIntake

MCNow        == 5
MCMaxInteger == 3000   \* above every limit of the schemas
MCFirstInstant == 1
MCFirstStored  == 2
MCLastInstant  == 40

-----------------------------------------------------------------------------
(* Fields.                                                                 *)

W == INSTANCE WireSchema

Schema == W!CreateLastMileFulfilmentBody

Nodes     == {SubSeq(q, 1, Len(q) - 1) : q \in {r \in DOMAIN Schema : Len(r) > 1}}
Instants  == {<<"promisedWindow", "start">>, <<"promisedWindow", "end">>,
              <<"collection", "collectionWindow", "start">>,
              <<"collection", "collectionWindow", "end">>}
Numbers   == {"lat", "lng", "revision", "quantity", "weightGrams", "lengthMm", "widthMm",
              "heightMm", "volumeCm3", "maxVehicleLengthMm", "maxVehicleWidthMm",
              "maxVehicleHeightMm", "maxGrossWeightKg"}

(* Both sides of every limit.                                              *)
Lengths   == {0, 1, 2, 3, 5, 6, 9, 10, 11, 40, 41, 50, 51, 100, 101, 200, 201, 320, 321,
              500, 501, 2000, 2001, 2048, 2049}
Negatives == {-181, -180, -91, -90, -1}
Values    == {90, 91, 180, 181, MCMaxInteger, MCMaxInteger + 1}

ProbesOf(p) == Lengths \cup (IF p[Len(p)] \in Numbers THEN Negatives \cup Values ELSE {})
                       \cup (IF p[Len(p)] = "email" THEN {AjvAddress, ZodAddress} ELSE {})
                       \cup (IF p[Len(p)] = "value" THEN {LooseKey} ELSE {})

(* Every field present; a text of two characters, which is a country code, *)
(* six where it is an e-mail address; the second member of each catalog.   *)
Flags == {"requiresTailLift", "requiresForklift", "requiresCrane", "unattendedDeliveryAllowed"}

Valid == (<<"promisedWindow", "start">> :> 10) @@ (<<"promisedWindow", "end">> :> 20)
         @@ (<<"collection", "collectionWindow", "start">> :> 10)
         @@ (<<"collection", "collectionWindow", "end">> :> 20)
         @@ [p \in Nodes |-> 0]
         @@ [p \in {q \in DOMAIN Schema : q[Len(q)] \in Flags} |-> 1]
         @@ [p \in {q \in DOMAIN Schema : q[Len(q)] = "email"} |-> 6]
         @@ [p \in DOMAIN Schema |-> 2]

Without(b, p) == [q \in {r \in DOMAIN b : Len(r) < Len(p) \/ SubSeq(r, 1, Len(p)) # p} |-> b[q]]

FieldBodies ==
  {Valid} \cup {Without(Valid, p) : p \in DOMAIN Schema}
  \cup UNION {{[Valid EXCEPT ![p] = k] : k \in ProbesOf(p)} :
              p \in DOMAIN Schema \ (Nodes \cup Instants)}
  \cup {Valid @@ (<<"undeclared">> :> 1)}

(* Windows: in order, equal, reversed, past, ending now, leap seconds, at  *)
(* and beyond the first and last years.                                    *)
Ends == {0, 1, 2, 3, MCNow, 10, MCLastInstant, MCLastInstant + 1, Leap, Coerced}
WindowBodies ==
  {[Valid EXCEPT ![<<"promisedWindow", "start">>] = s, ![<<"promisedWindow", "end">>] = e] :
     s, e \in Ends}
  \cup {[Valid EXCEPT ![<<"collection", "collectionWindow", "start">>] = s,
                      ![<<"collection", "collectionWindow", "end">>] = e] : s, e \in Ends}

-----------------------------------------------------------------------------
(* Lines and parcels.                                                      *)

Line(id)     == [p \in DOMAIN W!PromisedLineDraft |->
                   IF p = <<"lineId">> THEN W!Id(6, id) ELSE 2]
ParcelOf(refs) == [p \in DOMAIN W!ParcelDraft |->
                     CASE p = <<"parcelId">> -> W!Id(7, 1)
                       [] p = <<"lineRefs">> -> {W!Id(6, r) : r \in refs}
                       [] OTHER -> 2]
Anonymous    == Without(Line(1), <<"lineId">>)

LineLists    == {<<>>, <<Line(1)>>, <<Anonymous>>, <<Line(1), Line(2)>>, <<Line(1), Line(1)>>,
                 <<Line(1), Anonymous>>, <<Anonymous, Anonymous>>}
ParcelLists  == {<<>>, <<ParcelOf({})>>, <<ParcelOf({1})>>, <<ParcelOf({2})>>,
                 <<ParcelOf({1}), ParcelOf({1, 2})>>,
                 <<Without(Without(ParcelOf({}), <<"lineRefs">>), <<"status">>)>>}

ProbedItems(item) ==
  {<<Without(item, p)>> : p \in DOMAIN item}
  \cup UNION {{<<[item EXCEPT ![p] = k]>> : k \in ProbesOf(p)} :
              p \in DOMAIN item \ {<<"lineRefs">>}}

-----------------------------------------------------------------------------
(* Each body is sent once over a sound connection; some, and all orders of *)
(* windows, twice with a failing statement.                                *)
Post(b, lines, parcels, tenant, n, f) ==
  [fields |-> b, lines |-> lines, parcels |-> parcels, nul |-> "none", tenant |-> tenant,
   principal |-> 6, attempts |-> n, faults |-> f]

MCPosts ==
  {Post(b, <<Line(1)>>, <<ParcelOf({1})>>, 1, 1, 0) : b \in FieldBodies}
  \cup {Post(b, <<Line(1)>>, <<ParcelOf({1})>>, 1, 2, 1) : b \in WindowBodies}
  \cup {Post(Valid, lines, parcels, 1, 2, 0) : lines \in LineLists, parcels \in ParcelLists}
  \cup {Post(Valid, lines, <<>>, 1, 1, 0) : lines \in ProbedItems(Line(1))}
  \cup {Post(Valid, <<Line(1)>>, parcels, 1, 1, 0) : parcels \in ProbedItems(ParcelOf({1}))}
  \cup {Post(Valid, <<>>, <<>>, t, 1, 0) : t \in {100, 101}}
  \cup {[Post(Valid, <<>>, <<>>, 1, 2, 0) EXCEPT !.principal = n, !.nul = where] :
          n \in {0, 100, 101}, where \in {"none", "note", "rest"}}

-----------------------------------------------------------------------------
(* Every stage, bare and with all that is optional; every status.          *)

States == {[stage |-> s, at |-> IF s = "awaiting_planning" THEN None ELSE 11, rest |-> 1] :
             s \in LastMileStage}
Bare   == [linkedShipments |-> <<>>,
           reaction |-> [awaitingEventType |-> None, awaitingDeadline |-> None,
                         lastHandledEventId |-> None, lastReactionAt |-> None]]
Full   == [linkedShipments |-> <<[shipment |-> 1, linkedAt |-> 11], [shipment |-> 2, linkedAt |-> 12]>>,
           reaction |-> [awaitingEventType |-> 1, awaitingDeadline |-> 30,
                         lastHandledEventId |-> 2, lastReactionAt |-> 12]]

MCLives == {[state |-> st, reaction |-> x.reaction, linkedShipments |-> x.linkedShipments] :
              st \in States, x \in {Bare, Full}}
MCTrips == [trip: {None, [tripId |-> 1]}, status: ShipmentStatus]
=============================================================================
