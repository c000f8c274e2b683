----------------------------- MODULE Procurement -----------------------------
(***************************************************************************)
(* Lines of purchase requests (procurement/services.py): they are added,   *)
(* edited, linked to a material, and fulfilled by deliveries, each of      *)
(* which posts a receipt and a link from it to the line in one transaction.*)
(* How much of a line has come is nowhere stored but summed over its links.*)
(*                                                                         *)
(* A request locks its line and reads it, the links and the material's     *)
(* unit; validates; and writes at the end from what it read.  The posting  *)
(* inside is one atomic step of the ledger, which is what                  *)
(* InventoryMutation implements.                                           *)
(***************************************************************************)
EXTENDS QuantityPosting

CONSTANTS
  Workload,     \* postings that others make: <<operation id, posting>>
  Worker,
  Line,         \* identifiers of request lines
  Unit,
  NoMaterial,   \* NULL: the line names no material of the catalogue
  NoOrder,      \* no such line
  Idle,
  Draft,        \* lines as users first write them: <<line, row>>
  Errand        \* what users then ask for

VARIABLES
  ledger, stock,   \* as in StockLedger
  order,           \* [Line -> the row of the line, or NoOrder]
  stockUnit,       \* [Material -> Unit]
  links,           \* the rows of PurchaseRequestReceipt
  task,            \* [Worker -> what it is doing, or Idle]
  told             \* the deliveries whose success a client was told

L == INSTANCE StockLedger

own  == <<order, stockUnit, links, told>>
vars == <<ledger, stock, own, task>>

Row == [material : Material \union {NoMaterial}, unit : Unit]

Link == [line : Line, operation : OperationId, quantity : Quantity, unit : Unit]

\* What users ask for.  A place is a location and a condition; the material of
\* a delivery is the one that its page showed and its user confirmed.
Job ==
  [kind : {"deliver"}, line : Line, operation : OperationId, material : Material,
   place : Location \X Condition, quantity : Quantity]
    \union [kind : {"link"}, line : Line, material : Material]
    \union [kind : {"edit"}, line : Line, material : Material \union {NoMaterial},
            unit : Unit]

\* At work on a job; row is what it read of the line once that was locked.
Task == [job : Job, row : Row \union {NoOrder}]

ASSUME ProcurementConstants ==
  /\ Workload \subseteq OperationId \X Posting
  /\ \A job \in Workload : WellFormed(job[2])
  /\ NoMaterial \notin Material
  /\ Idle \notin Task /\ NoOrder \notin Row
  /\ Draft \subseteq Line \X Row
  /\ Errand \subseteq Job

-----------------------------------------------------------------------------
TypeOK ==
  /\ L!TypeOK
  /\ order \in [Line -> Row \union {NoOrder}]
  /\ stockUnit \in [Material -> Unit]
  /\ links \subseteq Link
  /\ task \in [Worker -> Task \union {Idle}]
  /\ told \subseteq {j \in Job : j.kind = "deliver"}

Init ==
  /\ L!Init
  /\ order = [l \in Line |-> NoOrder]
  /\ stockUnit \in [Material -> Unit]
  /\ links = {}
  /\ task = [w \in Worker |-> Idle]
  /\ told = {}

Works(w) == task[w] # Idle

\* Only a job that has locked its line holds anything that others wait for.
LocksNothing(w, l) == FALSE   \* mutant: lines are read without FOR UPDATE

Locks(w, l) == Works(w) /\ task[w].job.line = l /\ task[w].row # NoOrder

Fulfilled(l) == \E k \in links : k.line = l

UnitFits(m, u) == m # NoMaterial => stockUnit[m] = u

\* add_purchase_request_line: one insert beside a lock of the request.
AddLine(l, row) ==
  /\ order[l] = NoOrder
  /\ UnitFits(row.material, row.unit)
  /\ order' = [order EXCEPT ![l] = row]
  /\ UNCHANGED <<ledger, stock, stockUnit, links, task, told>>

\* update_material gives a material another unit; nothing in procurement or
\* in the ledger prevents it.
ChangeUnit(m, u) ==
  /\ u # stockUnit[m]
  /\ stockUnit' = [stockUnit EXCEPT ![m] = u]
  /\ UNCHANGED <<ledger, stock, order, links, task, told>>

\* The view looks the line up and compares a delivery's material with it.
Submit(w, j) ==
  /\ task[w] = Idle
  /\ order[j.line] # NoOrder
  /\ j.kind = "deliver" => order[j.line].material = j.material
  /\ task' = [task EXCEPT ![w] = [job |-> j, row |-> NoOrder]]
  /\ UNCHANGED <<ledger, stock, own>>

\* What is required of the line once it is locked.  Everything but the line
\* itself and its links is read without a lock.
AdmitsDelivery(row) ==
  row.material # NoMaterial /\ UnitFits(row.material, row.unit)

AdmitsLink(j, row) ==
  \/ j.material = row.material
  \/ ~Fulfilled(j.line) /\ UnitFits(j.material, row.unit)

AdmitsEdit(j, row) ==
  \/ Fulfilled(j.line) /\ j.material = row.material /\ j.unit = row.unit
  \/ ~Fulfilled(j.line) /\ UnitFits(j.material, j.unit)

LockLine(w) ==
  LET j == task[w].job
      row == order[j.line] IN
  /\ Works(w) /\ task[w].row = NoOrder
  /\ \A v \in Worker : ~Locks(v, j.line)
  /\ \/ j.kind = "deliver" /\ AdmitsDelivery(row)
     \/ j.kind = "link" /\ AdmitsLink(j, row)
     \/ j.kind = "edit" /\ AdmitsEdit(j, row)
  /\ task' = [task EXCEPT ![w].row = row]
  /\ UNCHANGED <<ledger, stock, own>>

\* The end of link_line_material and update_purchase_request_line.
Save(w) ==
  LET j == task[w].job IN
  /\ Works(w) /\ task[w].row # NoOrder /\ j.kind \in {"link", "edit"}
  /\ order' = [order EXCEPT ![j.line] =
                 [material |-> j.material,
                  unit |-> IF j.kind = "edit" THEN j.unit ELSE task[w].row.unit]]
  /\ task' = [task EXCEPT ![w] = Idle]
  /\ UNCHANGED <<ledger, stock, stockUnit, links, told>>

Delivers(w) == Works(w) /\ task[w].row # NoOrder /\ task[w].job.kind = "deliver"

PostingOf(w) ==
  LET j == task[w].job IN
  Receipt(<<task[w].row.material, j.place[1], j.place[2]>>, j.quantity)

Answer(w) ==
  /\ told' = told \union {task[w].job}
  /\ task' = [task EXCEPT ![w] = Idle]

\* The receipt is posted, under a lock of the material and its unit of now,
\* and linked.
ReceiveRunningTotal(w) ==   \* mutant: a link holds the running total
  LET j == task[w].job IN
  /\ Delivers(w)
  /\ stockUnit[task[w].row.material] = task[w].row.unit
  /\ L!Post(j.operation, PostingOf(w))
  /\ links' = links \union
       {[line |-> j.line, operation |-> j.operation, unit |-> task[w].row.unit,
         quantity |-> j.quantity + Total({<<k.operation, k.quantity>> :
                                            k \in {n \in links : n.line = j.line}})]}
  /\ Answer(w)
  /\ UNCHANGED <<order, stockUnit>>

Receive(w) ==
  LET j == task[w].job IN
  /\ Delivers(w)
  /\ stockUnit[task[w].row.material] = task[w].row.unit
  /\ L!Post(j.operation, PostingOf(w))
  /\ links' = links \union
       {[line |-> j.line, operation |-> j.operation, quantity |-> j.quantity,
         unit |-> task[w].row.unit]}
  /\ Answer(w)
  /\ UNCHANGED <<order, stockUnit>>

SameLinkAnyLine(k, j) ==   \* mutant: any link of the receipt is an answer
  k.operation = j.operation

SameLink(k, j) ==
  k.operation = j.operation /\ k.line = j.line /\ k.quantity = j.quantity

\* The identifier has posted just this before and is linked to just this
\* line: the client is answered as at first.
Replay(w) ==
  /\ Delivers(w)
  /\ ledger[task[w].job.operation] = PostingOf(w)
  /\ \E k \in links : SameLink(k, task[w].job) /\ k.unit = task[w].row.unit
  /\ Answer(w)
  /\ UNCHANGED <<ledger, stock, order, stockUnit, links>>

\* The request is refused (a validation error; an identifier that was used
\* otherwise, or by a receipt without a link; an inactive master), or its
\* process dies: nothing is written.
Fail(w) ==
  /\ Works(w)
  /\ task' = [task EXCEPT ![w] = Idle]
  /\ UNCHANGED <<ledger, stock, own>>

\* Postings of others, among them receipts that belong to no line.
Elsewhere ==
  /\ L!Next
  /\ UNCHANGED <<own, task>>

Step(w) == LockLine(w) \/ Save(w) \/ Receive(w) \/ Replay(w) \/ Fail(w)

Next ==
  \/ \E w \in Worker : Step(w) \/ \E j \in Errand : Submit(w, j)
  \/ \E d \in Draft : AddLine(d[1], d[2])
  \/ \E m \in Material, u \in Unit : ChangeUnit(m, u)
  \/ Elsewhere

Spec == Init /\ [][Next]_vars

-----------------------------------------------------------------------------
(***************************************************************************)
(* Properties                                                              *)
(***************************************************************************)

\* What is summed up as having come for a line are receipts of the material
\* the line names, in the unit of the line, each for the whole of its quantity
\* and each for one line only, whatever was edited, relinked or given another
\* unit meanwhile.
LinksMatchLedger ==
  \A k \in links :
    /\ order[k.line] = [material |-> MaterialOf(ledger[k.operation].target),
                        unit     |-> k.unit]
    /\ ledger[k.operation].type = "RECEIPT"
    /\ ledger[k.operation].quantity = k.quantity
    /\ \A n \in links \ {k} : n.operation # k.operation

\* A delivery that was reported as received, at first or in a retry, counts
\* for the line it was reported for, once.
DeliveriesCounted ==
  \A j \in told :
    /\ Cardinality({k \in links : k.operation = j.operation}) = 1
    /\ \E k \in links : /\ k.operation = j.operation /\ k.line = j.line
                      /\ k.quantity = j.quantity

\* What is received for a line is the material its user saw and confirmed
\* (PurchaseRequestLineReceiveView: "Stok girişi bu talep kaleminin malzemesi
\* olmalıdır", the receipt must be of the material of this line).  It fails: the
\* view compares before the line is locked, and hands the material on to nobody.
PostedAsConfirmed ==
  \A j \in told : MaterialOf(ledger[j.operation].target) = j.material
=============================================================================
