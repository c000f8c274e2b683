--------------------------- MODULE SerializedAssets ---------------------------
(***************************************************************************)
(* receive_serialized, issue_serialized, return_serialized and             *)
(* transfer_serialized of inventory/services as concurrent transactions at *)
(* READ COMMITTED, beside the switching of masters.                        *)
(*                                                                         *)
(* A service inserts its header (whose unique operation_id it then holds), *)
(* reads without a lock which material the asset is of, and locks one row  *)
(* after another in an order of its own: `todo' is what it has still to    *)
(* lock.  It judges each row by what it reads at that moment (`refused')   *)
(* and writes at the end from what it read of the asset (`seen',           *)
(* `drawn').  The checks that PostgreSQL's triggers and                    *)
(* assert_serialized_projection_for_asset repeat at the end are no guards  *)
(* here: that they can never fail is what HistoryReplays and, in           *)
(* AssetGuards, AssetTriggersAccept say.                                   *)
(***************************************************************************)
EXTENDS AssetLine, Sequences

CONSTANTS
  Workload,   \* as in AssetCustody
  Worker

VARIABLES
  ledger, number, custody,   \* as in AssetCustody
  active,    \* the materials and locations in use: a set of rows
  request,   \* [Worker -> Workload or NoJob]
  held,      \* [Worker -> set of rows]
  todo,      \* [Worker -> Seq(rows)]
  refused,   \* [Worker -> BOOLEAN]
  seen,      \* [Worker -> what it read of its asset when it locked it]
  drawn      \* [Worker -> the number it drew for its line]

\* The committed tables, without what transactions hold and have read.
C == INSTANCE AssetCustody
       WITH ledger <- ledger, number <- number, custody <- custody

\* Requests are well formed: the services refuse others before they read
\* anything (a transfer to where it starts, a missing field).
ASSUME AssetConstants ==
  /\ Location \subseteq Nat
  /\ NoOperation \notin OperationId
  /\ None \notin Asset \union Material \union Location \union Condition
  /\ Workload \subseteq OperationId \X Line
  /\ \A job \in Workload :
       LET r == job[2] IN
       /\ r.type \in {"RECEIPT", "ISSUE", "TRANSFER"} => r.condition # None
       /\ r.type = "RECEIPT" => r.material # None
       /\ r.type \in {"ISSUE", "TRANSFER"} => r.source # None
       /\ r.type \in {"RECEIPT", "RETURN", "TRANSFER"} => r.target # None
       /\ r.type \in {"RECEIPT", "RETURN"} => r.source = None
       /\ r.type = "ISSUE" => r.target = None
       /\ r.type = "RETURN" <=> r.original # NoOperation
       /\ r.type = "TRANSFER" => r.source # r.target

data == <<ledger, number, custody>>
vars == <<data, active, request, held, todo, refused, seen, drawn>>

NoJob == <<NoOperation, NoLine>>
OperationOf(w) == request[w][1]
LineOf(w) == request[w][2]

-----------------------------------------------------------------------------
TransactionRow(o) == <<"transaction", o>>
LineRow(o)        == <<"line", o>>
MaterialRow(m)    == <<"material", m>>
LocationRow(l)    == <<"location", l>>
ConditionRow(c)   == <<"condition", c>>
CodeRow(a)        == <<"code", a>>       \* the unique index of asset codes
AssetRow(a)       == <<"asset", a>>

MasterRow == {MaterialRow(m) : m \in Material}
               \union {LocationRow(l) : l \in Location}
Row == MasterRow \union {ConditionRow(c) : c \in Condition}
         \union {CodeRow(a) : a \in Asset} \union {AssetRow(a) : a \in Asset}
         \union {TransactionRow(o) : o \in OperationId}
         \union {LineRow(o) : o \in OperationId}

LocationRowsAsGiven(r) ==   \* mutant: source first, not sorted
  <<LocationRow(r.source), LocationRow(r.target)>>

\* Both locations of a transfer, in the order of their identifiers.
LocationRows(r) ==
  IF r.source < r.target
  THEN <<LocationRow(r.source), LocationRow(r.target)>>
  ELSE <<LocationRow(r.target), LocationRow(r.source)>>

\* at is the unlocked preview of the asset (for its material, which no
\* service changes); a return takes material and condition from its line,
\* that is, from the asset as it was issued.
RowsInOrder(r, at) ==
  CASE r.type = "RECEIPT" ->
         <<MaterialRow(r.material), LocationRow(r.target),
           ConditionRow(r.condition), CodeRow(r.asset)>>
    [] r.type = "ISSUE" ->
         <<MaterialRow(at.material), LocationRow(r.source),
           ConditionRow(r.condition), AssetRow(r.asset)>>
    [] r.type = "TRANSFER" ->
         <<MaterialRow(at.material)>> \o LocationRows(r)
           \o <<ConditionRow(r.condition), AssetRow(r.asset)>>
    [] r.type = "RETURN" ->
         <<LineRow(r.original), MaterialRow(at.material), LocationRow(r.target),
           ConditionRow(at.condition), AssetRow(r.asset)>>

AcceptablePerMaterial(r, x) ==   \* mutant: codes are unique within a material
  CASE x \in MasterRow            -> x \in active
    [] x = LineRow(r.original)    -> C!OriginalFits(r)
    [] x = AssetRow(r.asset)      -> Fits(r, custody[r.asset])
    [] x = CodeRow(r.asset)       -> r.material # custody[r.asset].material
    [] OTHER                      -> TRUE

\* Whether row x, as it is when it is locked, lets request r go on.
Acceptable(r, x) ==
  CASE x \in MasterRow            -> x \in active
    [] x = LineRow(r.original)    -> C!OriginalFits(r)
    [] x \in {CodeRow(r.asset), AssetRow(r.asset)} -> Fits(r, custody[r.asset])
    [] OTHER                      -> TRUE

\* No other transaction holds x.
FreeUnlessLine(w, x) ==   \* mutant: the issue line is read without FOR UPDATE
  x[1] # "line" => \A v \in Worker \ {w} : x \notin held[v]

Free(w, x) == \A v \in Worker \ {w} : x \notin held[v]

-----------------------------------------------------------------------------
TypeOK ==
  /\ ledger \in [OperationId -> Line \union {NoLine}]
  /\ number \in [OperationId -> Nat]
  /\ custody \in [Asset -> Custody]
  /\ active \subseteq MasterRow
  /\ request \in [Worker -> Workload \union {NoJob}]
  /\ held \in [Worker -> SUBSET Row]
  /\ todo \in [Worker -> Seq(Row)]
  /\ refused \in [Worker -> BOOLEAN]
  /\ seen \in [Worker -> Custody]
  /\ drawn \in [Worker -> Nat]

Init ==
  /\ C!Init
  /\ active = MasterRow
  /\ request = [w \in Worker |-> NoJob]
  /\ held = [w \in Worker |-> {}]
  /\ todo = [w \in Worker |-> <<>>]
  /\ refused = [w \in Worker |-> FALSE]
  /\ seen = [w \in Worker |-> Unregistered]
  /\ drawn = [w \in Worker |-> 0]

Finish(w) ==
  /\ request' = [request EXCEPT ![w] = NoJob]
  /\ held' = [held EXCEPT ![w] = {}]
  /\ todo' = [todo EXCEPT ![w] = <<>>]
  /\ refused' = [refused EXCEPT ![w] = FALSE]
  /\ seen' = [seen EXCEPT ![w] = Unregistered]
  /\ drawn' = [drawn EXCEPT ![w] = 0]

\* A request comes in whose operation identifier the first look does not find;
\* one that it finds is replayed or refused and changes nothing.
Submit(w, job) ==
  /\ request[w] = NoJob
  /\ ledger[job[1]] = NoLine
  /\ request' = [request EXCEPT ![w] = job]
  /\ UNCHANGED <<data, active, held, todo, refused, seen, drawn>>

Reserved(w) == TransactionRow(OperationOf(w)) \in held[w]

\* The header is inserted and the asset looked at; a movement of an unknown
\* asset, or a return against no line, fails at once.
Reserve(w) ==
  LET r == LineOf(w) IN
  /\ request[w] # NoJob /\ ~Reserved(w)
  /\ Free(w, TransactionRow(OperationOf(w)))
  /\ ledger[OperationOf(w)] = NoLine
  /\ IF CASE r.type = "RECEIPT" -> TRUE
          [] r.type = "RETURN"  -> ledger[r.original] # NoLine
          [] OTHER              -> custody[r.asset] # Unregistered
     THEN /\ held' = [held EXCEPT ![w] = {TransactionRow(OperationOf(w))}]
          /\ todo' = [todo EXCEPT ![w] = RowsInOrder(r, custody[r.asset])]
          /\ UNCHANGED <<request, refused, seen, drawn>>
     ELSE Finish(w)
  /\ UNCHANGED <<data, active>>

\* A concurrent insert of the identifier came first and was committed.
Duplicate(w) ==
  /\ request[w] # NoJob /\ ~Reserved(w)
  /\ ledger[OperationOf(w)] # NoLine
  /\ Finish(w)
  /\ UNCHANGED <<data, active>>

\* Where the services raise: a return judges its line before it locks more, a
\* receipt its masters before it inserts the code, and all at the end.
Judges(w) ==
  \/ todo[w] = <<>>
  \/ todo[w] = <<CodeRow(LineOf(w).asset)>>
  \/ LineRow(LineOf(w).original) \in held[w] /\ Len(todo[w]) = 4

\* SELECT ... FOR UPDATE of the next row, or the insert of a new asset code.
\* The asset, locked last, is read for good and its next number drawn.
Lock(w) ==
  /\ Reserved(w) /\ todo[w] # <<>>
  /\ ~(refused[w] /\ Judges(w))
  /\ LET x == Head(todo[w])  r == LineOf(w) IN
       /\ Free(w, x)
       /\ held' = [held EXCEPT ![w] = @ \union {x}]
       /\ todo' = [todo EXCEPT ![w] = Tail(@)]
       /\ refused' = [refused EXCEPT ![w] = @ \/ ~Acceptable(r, x)]
       /\ IF Len(todo[w]) = 1
          THEN /\ seen' = [seen EXCEPT ![w] = custody[r.asset]]
               /\ drawn' = [drawn EXCEPT ![w] = C!NextNumber(r.asset)]
          ELSE UNCHANGED <<seen, drawn>>
  /\ UNCHANGED <<data, active, request>>

\* A validation error, or the violation of a unique index.
Reject(w) ==
  /\ Reserved(w) /\ refused[w] /\ Judges(w)
  /\ Finish(w)
  /\ UNCHANGED <<data, active>>

Commit(w) ==
  LET r == LineOf(w) IN
  /\ Reserved(w) /\ todo[w] = <<>> /\ ~refused[w]
  /\ ledger' = [ledger EXCEPT ![OperationOf(w)] = r]
  /\ number' = [number EXCEPT ![OperationOf(w)] = drawn[w]]
  /\ custody' = [custody EXCEPT ![r.asset] = Moved(r, seen[w])]
  /\ Finish(w)
  /\ UNCHANGED active

\* The process or its connection dies.
Crash(w) ==
  /\ request[w] # NoJob
  /\ Finish(w)
  /\ UNCHANGED <<data, active>>

SetActiveUnlocked(x) ==   \* mutant: the guard reads assets without the row
  /\ IF x \in active
     THEN /\ \A a \in Asset : x # LocationRow(custody[a].location)
          /\ active' = active \ {x}
     ELSE active' = active \union {x}
  /\ UNCHANGED <<data, request, held, todo, refused, seen, drawn>>

\* set_material_active and set_location_active lock and save one row; the
\* trigger inventory_location_positive_stock keeps a location with assets.
SetActive(x) ==
  /\ \A w \in Worker : x \notin held[w]
  /\ IF x \in active
     THEN /\ \A a \in Asset : x # LocationRow(custody[a].location)
          /\ active' = active \ {x}
     ELSE active' = active \union {x}
  /\ UNCHANGED <<data, request, held, todo, refused, seen, drawn>>

Next ==
  \/ \E w \in Worker : \E job \in Workload : Submit(w, job)
  \/ \E w \in Worker : \/ Reserve(w) \/ Duplicate(w) \/ Lock(w)
                       \/ Reject(w) \/ Commit(w) \/ Crash(w)
  \/ \E x \in MasterRow : SetActive(x)

Spec == Init /\ [][Next]_vars

-----------------------------------------------------------------------------
(***************************************************************************)
(* Properties                                                              *)
(***************************************************************************)

\* Every commit is one line that follows from the asset's custody at that
\* moment, although it was written from values read earlier.
ImplementsCustody == C!Spec

\* The numbered history of every asset leads to the custody that is recorded,
\* so the verifier, which the services call at the end too, never objects.
HistoryReplays == C!HistoryReplays

\* An asset in stock is at a location in use, whatever races with switching
\* the location off.
AssetsAtUsableLocations ==
  \A a \in Asset :
    custody[a].state = "IN_STOCK" => LocationRow(custody[a].location) \in active

\* No set of transactions waits in a cycle for each other's rows.
WaitsFor(w, v) ==
  /\ v # w
  /\ request[w] # NoJob
  /\ IF Reserved(w) THEN /\ todo[w] # <<>>
                         /\ ~(refused[w] /\ Judges(w))
                         /\ Head(todo[w]) \in held[v]
     ELSE TransactionRow(OperationOf(w)) \in held[v]

NoWaitCycle ==
  \A S \in (SUBSET Worker) \ {{}} : \E w \in S : \A v \in S : ~WaitsFor(w, v)
=============================================================================
