------------------------------ MODULE AssetLine ------------------------------
(***************************************************************************)
(* The vocabulary of serialized assets: the custody that the row of an     *)
(* asset records, the lines that change it, and how.                       *)
(***************************************************************************)
EXTENDS Naturals, FiniteSets, FiniteSetsExt

CONSTANTS
  OperationId, NoOperation,
  Asset,               \* internal asset codes
  Material, Location, Condition,
  None                 \* NULL

\* An asset is nowhere before its receipt and while it is issued.
Unregistered == [material |-> None, condition |-> None, state |-> "UNREGISTERED",
                 location |-> None]
Custody == {Unregistered} \union
  [material : Material, condition : Condition, state : {"IN_STOCK"},
   location : Location] \union
  [material : Material, condition : Condition, state : {"ISSUED"},
   location : {None}]

Line ==
  [type : {"RECEIPT", "ISSUE", "RETURN", "TRANSFER"}, asset : Asset,
   material : Material \union {None}, condition : Condition \union {None},
   source : Location \union {None}, target : Location \union {None},
   original : OperationId \union {NoOperation}]

NoLine == [type |-> "NONE", asset |-> None, material |-> None,
           condition |-> None, source |-> None, target |-> None,
           original |-> NoOperation]

Receipt(a, m, c, l) ==
  [NoLine EXCEPT !.type = "RECEIPT", !.asset = a, !.material = m,
                 !.condition = c, !.target = l]
Issue(a, c, l) ==
  [NoLine EXCEPT !.type = "ISSUE", !.asset = a, !.condition = c, !.source = l]
Return(o, a, l) ==
  [NoLine EXCEPT !.type = "RETURN", !.asset = a, !.original = o, !.target = l]
Transfer(a, c, l, k) ==
  [NoLine EXCEPT !.type = "TRANSFER", !.asset = a, !.condition = c,
                 !.source = l, !.target = k]

\* What the services require of the asset's row as it is, and what they leave.
Fits(r, at) ==
  CASE r.type = "RECEIPT" -> at = Unregistered
    [] r.type = "RETURN"  -> at.state = "ISSUED"
    [] OTHER -> /\ at.state = "IN_STOCK"
                /\ at.location = r.source
                /\ at.condition = r.condition

MovedKeepingPlace(r, at) ==   \* mutant: an issue leaves current_location set
  CASE r.type = "RECEIPT" -> [material |-> r.material, condition |-> r.condition,
                              state |-> "IN_STOCK", location |-> r.target]
    [] r.type = "ISSUE"   -> [at EXCEPT !.state = "ISSUED"]
    [] OTHER -> [at EXCEPT !.state = "IN_STOCK", !.location = r.target]

Moved(r, at) ==
  CASE r.type = "RECEIPT" -> [material |-> r.material, condition |-> r.condition,
                              state |-> "IN_STOCK", location |-> r.target]
    [] r.type = "ISSUE"   -> [at EXCEPT !.state = "ISSUED", !.location = None]
    [] OTHER -> [at EXCEPT !.state = "IN_STOCK", !.location = r.target]
=============================================================================
