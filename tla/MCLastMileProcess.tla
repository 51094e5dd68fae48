------------------------- MODULE MCLastMileProcess -------------------------
(* Instances of LastMileProcess for TLC.  The identifiers, tenants and     *)
(* notes are model values given by the cfg files.                          *)
EXTENDS LastMileProcess, TLC

CONSTANTS t1, t2, n1, f1, f2, s1, j1

Post(header, note, missing, leap) ==
  [header |-> header,
   input  |-> [type |-> PostFulfilment, sourceNote |-> note, missing |-> missing,
               leap |-> leap]]

Ready(header, id) ==
  [header |-> header, input |-> [type |-> PostReady, shipmentId |-> id]]

(* Calls FlowCatalyst did not make: POST /shipments is open to any caller, *)
(* and without FLOWCATALYST_SIGNING_SECRET (development) so are the webhook *)
(* routes.  f1 and s1 may belong to the tenant named, to the other one, or *)
(* not exist yet.                                                          *)
Stray(header, type, tenant, id, shipment, missing, leap) ==
  [header |-> header,
   input  |-> OutboxMessage(type, tenant, id, shipment, j1, missing, leap)]

StrayRequests ==
  {Stray(None, FulfilmentCreated, t1, f1, None, {}, FALSE),  \* claims every leg is there
   Stray(None, CreateJob, t1, f1, None, {}, FALSE),          \* brings legs of its own
   Stray(None, CreateJob, t2, f1, None, {}, TRUE),           \* and a leap second
   Stray(None, CreateJob, t2, f1, None, {"dropOff"}, FALSE), \* a leg is missing
   Stray(t1, CreateJob, t2, f1, None, {}, FALSE),            \* header contradicts body
   Stray(None, LinkJob, t1, f1, s1, {}, FALSE),
   Stray(None, LinkJob, t1, f2, s1, {}, FALSE)}              \* another parent

OneFulfilment == {Post(t1, n1, {}, FALSE)}

(* A creation, or one whose row cannot be read back.                       *)
ChainRequests == OneFulfilment \cup {Post(t1, n1, {}, TRUE)}

(* Two clients of tenant t1 race for the same source note, one of them     *)
(* with a leg that is not geocoded; t2 uses the same note number; one      *)
(* caller forgets its tenant.                                              *)
RaceRequests == OneFulfilment \cup {Post(t1, n1, {"dropOff"}, FALSE),
                                    Post(t2, n1, {"dropOff"}, FALSE),
                                    Post(None, n1, {}, FALSE)}

ReadyRequests == OneFulfilment \cup {Ready(t1, s1)}

MixedRequests == RaceRequests \cup ReadyRequests \cup StrayRequests

(* Request slots are interchangeable.                                      *)
Slots == Permutations(Requests)
=============================================================================
