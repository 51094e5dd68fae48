----------------------------- MODULE SchemaTerms -----------------------------
(***************************************************************************)
(* What the wire schemas and the shared contracts are written in: JSON     *)
(* objects as partial functions from paths to numbers, schemas as partial  *)
(* functions from paths to constraints, and the domain catalogs.           *)
(*                                                                         *)
(* A text is its length, a number itself, an enumeration value its         *)
(* position in the catalog, a nested object 0, an array of flags one of    *)
(* its members (absent when empty), metadata its number of entries.        *)
(* Leaves have the JSON types the schemas name (Ajv would convert others,  *)
(* Zod refuse them), and texts no character that counts one for Ajv and    *)
(* two for Zod.  A value on whose text the two disagree is odd.            *)
(***************************************************************************)
EXTENDS PartialFunctions, Integers, Sequences, FiniteSets

CONSTANTS Leap,         \* a date-time whose seconds are 60, as RFC 3339 allows:
                        \* Ajv accepts it, JavaScript makes it an Invalid Date
          Coerced,      \* what JavaScript makes a date of and Ajv refuses: a day
                        \* without a time, a time without an offset, a number, null
          AjvAddress,   \* an e-mail address Ajv accepts and Zod does not: a@b.c
          ZodAddress,   \* and the reverse: a@b-.co
          LooseKey      \* metadata with a key that Zod's pattern or length refuses

OddValues == {Leap, Coerced, AjvAddress, ZodAddress, LooseKey}

SourceNoteType  == {"delivery_note", "invoice", "pro_forma_invoice", "pick_list",
                    "sales_order", "dispatch_advice"}
TemperatureZone == {"ambient", "chilled", "frozen", "deep_frozen"}
HandlingFlag    == {"fragile", "hazardous", "high_value", "oversize", "liquid_upright",
                    "age_verify", "signature_required", "contactless", "id_verify",
                    "keep_dry"}
ParcelType      == {"box", "bag", "envelope", "tube", "pallet", "crate", "cooler",
                    "dangerous_goods", "other"}
ParcelStatus    == {"packed", "picked_up", "delivered", "failed", "returned"}
UnitOfMeasure   == {"each", "kg", "g", "l", "ml", "m", "case", "pallet"}

Ambient == 1   \* positions in their catalogs
Packed  == 1

(* An identifier is its length plus a multiple of 1000 that tells          *)
(* identifiers of one length apart.                                        *)
Id(length, number) == 1000 * number + length

-----------------------------------------------------------------------------
(* Constraints.                                                            *)

Required(S) == [required |-> TRUE, allowed |-> S]
Optional(S) == [required |-> FALSE, allowed |-> S]

AtLeast(n)     == {k \in Int : k >= n}
Enum(catalog)  == 1 .. Cardinality(catalog)
Boolean        == 0..1
Node           == {0}
Instant        == Int
IdUpTo(max)    == {k \in Nat : k % 1000 <= max}

(* The schema of an object, from the record of its leaves; a node k with   *)
(* the schema of what is below it.                                         *)
Leaves(r) == [p \in {<<k>> : k \in DOMAIN r} |-> r[p[1]]]

Under(k, node, schema) ==
  (<<k>> :> node) @@ [p \in {<<k>> \o q : q \in DOMAIN schema} |-> schema[Tail(p)]]

(* b has every field whose parent it has, and allowed values.              *)
Fits(schema, b) ==
  /\ \A p \in DOMAIN schema :
       /\ schema[p].required
       /\ Len(p) = 1 \/ SubSeq(p, 1, Len(p) - 1) \in DOMAIN b
       => p \in DOMAIN b
  /\ \A p \in DOMAIN b \cap DOMAIN schema : b[p] \in schema[p].allowed

Known(schema, b) == [p \in DOMAIN b \cap DOMAIN schema |-> b[p]]
=============================================================================
