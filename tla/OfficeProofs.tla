----------------------------- MODULE OfficeProofs -----------------------------
(***************************************************************************)
(* What is proved of the five components of the office: purchase requests, *)
(* access management, the posting pages, the employees and the catalog,    *)
(* and, from it, of the office itself.                                     *)
(***************************************************************************)
EXTENDS MCOffice, PostingLemmas, SequenceTheorems

-----------------------------------------------------------------------------
(***************************************************************************)
(* What holds of Procurement for every set of workers, lines, materials    *)
(* and units, whatever users ask for and others post.                      *)
(*                                                                         *)
(* The argument: a line is locked by one worker at a time (LocksExclusive),*)
(* so the row it read stays the row of the line, and so does what it       *)
(* required of it (LockedIsCurrent): a delivery is for the material that   *)
(* the line names, and a fulfilled line is saved as it is.                 *)
(***************************************************************************)
LocksExclusive ==
  \A v, w \in Worker : \A l \in Line : Locks(v, l) /\ Locks(w, l) => v = w

\* What link_line_material and update_purchase_request_line save.
Saved(w) ==
  [material |-> task[w].job.material,
   unit |-> IF task[w].job.kind = "edit" THEN task[w].job.unit
                                         ELSE task[w].row.unit]

LockedIsCurrent ==
  \A w \in Worker : Works(w) /\ task[w].row # NoOrder =>
    /\ task[w].row = order[task[w].job.line]
    /\ task[w].job.kind = "deliver" => task[w].row.material # NoMaterial
    /\ task[w].job.kind \in {"link", "edit"} /\ Fulfilled(task[w].job.line) =>
         Saved(w) = task[w].row

\* Lines are never deleted under those who work at them or have delivered.
LinesExist ==
  /\ \A w \in Worker : Works(w) => order[task[w].job.line] # NoOrder
  /\ \A k \in links : order[k.line] # NoOrder

PurchaseInv ==
  /\ TypeOK
  /\ LocksExclusive
  /\ LockedIsCurrent
  /\ LinesExist
  /\ LinksMatchLedger

-----------------------------------------------------------------------------
(***************************************************************************)
(* Lemmas about the ledger                                                 *)
(***************************************************************************)

\* A posting of the ledger fills an empty place in it and keeps the types.
LEMMA LedgerPost ==
  ASSUME L!TypeOK, NEW o \in OperationId, NEW r \in Posting, WellFormed(r),
         L!Post(o, r)
  PROVE  /\ L!TypeOK'
         /\ ledger[o] = NoPosting
         /\ ledger' = [ledger EXCEPT ![o] = r]
  <1>1. /\ L!NoPosting = NoPosting
        /\ L!Touched(r) = Touched(r)
        /\ L!Bucket = Bucket
        /\ L!Posting = Posting
    BY DEF NoPosting, L!NoPosting, Shape, L!Shape, Touched, L!Touched,
           Bucket, L!Bucket, Posting, L!Posting
  <1>2. ASSUME NEW b, NEW v
        PROVE  /\ L!BucketAllows(r, b, v) <=> BucketAllows(r, b, v)
               /\ L!NewQuantity(r, b, v) = NewQuantity(r, b, v)
    BY DEF BucketAllows, L!BucketAllows, NewQuantity, L!NewQuantity, Effect,
           L!Effect
  <1>3. /\ ledger[o] = NoPosting
        /\ \A b \in Touched(r) : BucketAllows(r, b, stock[b])
        /\ ledger' = [ledger EXCEPT ![o] = r]
        /\ stock' = [b \in Bucket |->
                       IF b \in Touched(r) THEN NewQuantity(r, b, stock[b])
                                           ELSE stock[b]]
    BY <1>1, <1>2 DEF L!Post, L!Admissible
  <1>4. /\ ledger \in [OperationId -> Posting \union {NoPosting}]
        /\ stock \in [Bucket -> Nat]
    BY <1>1 DEF L!TypeOK
  <1>5. \A b \in Touched(r) : NewQuantity(r, b, stock[b]) \in Nat
    BY <1>3, <1>4, NewQuantityNat, TouchedBuckets
  <1>6. stock' \in [Bucket -> Nat]
    BY <1>3, <1>4, <1>5
  <1>7. ledger' \in [OperationId -> Posting \union {NoPosting}]
    BY <1>3, <1>4
  <1> QED
    BY <1>1, <1>3, <1>6, <1>7 DEF L!TypeOK

\* What others post leaves every posting as it is.
LEMMA LedgerNext ==
  ASSUME L!TypeOK, L!Next
  PROVE  /\ L!TypeOK'
         /\ \A p \in OperationId : ledger[p] # NoPosting => ledger'[p] = ledger[p]
  <1>1. PICK entry \in Workload : L!Post(entry[1], entry[2])
    BY DEF L!Next
  <1>2. entry[1] \in OperationId /\ entry[2] \in Posting /\ WellFormed(entry[2])
    BY ProcurementConstants DEF ProcurementConstants
  <1>3. /\ L!TypeOK' /\ ledger[entry[1]] = NoPosting
        /\ ledger' = [ledger EXCEPT ![entry[1]] = entry[2]]
    BY <1>1, <1>2, LedgerPost
  <1> QED
    BY <1>2, <1>3 DEF L!TypeOK

-----------------------------------------------------------------------------
(***************************************************************************)
(* The inductive invariant                                                 *)
(***************************************************************************)

LEMMA InitPurchaseInv == Init => PurchaseInv
  <1> SUFFICES ASSUME Init PROVE PurchaseInv
    OBVIOUS
  <1>1. L!TypeOK
    BY DEF Init, L!Init, L!TypeOK
  <1>2. TypeOK
    BY <1>1 DEF Init, TypeOK
  <1>3. \A w \in Worker : ~Works(w) /\ \A l \in Line : ~Locks(w, l)
    BY DEF Init, Works, Locks
  <1> QED
    BY <1>2, <1>3 DEF Init, PurchaseInv, LocksExclusive, LockedIsCurrent, LinesExist,
                      LinksMatchLedger

\* A worker at work has a task with one of the three kinds of jobs.
LEMMA TaskFacts ==
  ASSUME TypeOK, NEW w \in Worker, Works(w)
  PROVE  /\ task[w] = [job |-> task[w].job, row |-> task[w].row]
         /\ task[w].job \in Job /\ task[w].job.line \in Line
         /\ task[w].row \in Row \union {NoOrder}
         /\ task[w].job.kind \in {"deliver", "link", "edit"}
         /\ task[w].job.kind = "deliver" =>
              /\ task[w].job.operation \in OperationId
              /\ task[w].job.quantity \in Quantity
              /\ task[w].job.place \in Location \X Condition
         /\ task[w].job.kind \in {"link", "edit"} =>
              task[w].job.material \in Material \union {NoMaterial}
         /\ task[w].job.kind = "edit" => task[w].job.unit \in Unit
  <1>1. task[w] \in Task
    BY DEF TypeOK, Works
  <1>2. task[w].job \in Job
    BY <1>1 DEF Task
  <1> QED
    BY <1>1, <1>2 DEF Task, Job

\* A worker who gives up, or begins, disturbs nobody.
LEMMA LeavePurchaseInv ==
  ASSUME PurchaseInv, NEW w \in Worker,
         task' = [task EXCEPT ![w] = Idle],
         UNCHANGED <<ledger, stock, order, stockUnit, links>>,
         told' \subseteq {j \in Job : j.kind = "deliver"}
  PROVE  PurchaseInv'
  <1> USE DEF PurchaseInv
  <1>1. L!TypeOK'
    BY DEF TypeOK, L!TypeOK
  <1>2. TypeOK'
    BY <1>1 DEF TypeOK
  <1>3. ~Works(w)' /\ \A v \in Worker \ {w} : task'[v] = task[v]
    BY DEF Works, TypeOK
  <1>4. \A v \in Worker : Works(v)' => Works(v) /\ task'[v] = task[v] /\ v # w
    BY <1>3 DEF Works
  <1>5. LocksExclusive'
    BY <1>4 DEF LocksExclusive, Locks, Works
  <1>6. LockedIsCurrent'
    BY <1>4 DEF LockedIsCurrent, Saved, Fulfilled
  <1>7. LinesExist' /\ LinksMatchLedger'
    BY <1>4 DEF LinesExist, LinksMatchLedger
  <1> QED
    BY <1>2, <1>5, <1>6, <1>7

LEMMA SubmitPurchaseInv ==
  ASSUME PurchaseInv, NEW w \in Worker, NEW j \in Errand, Submit(w, j)
  PROVE  PurchaseInv'
  <1> USE DEF PurchaseInv
  <1>1. j \in Job /\ NoOrder \notin Row /\ Idle \notin Task
    BY ProcurementConstants DEF ProcurementConstants
  <1>2. /\ task' = [task EXCEPT ![w] = [job |-> j, row |-> NoOrder]]
        /\ order[j.line] # NoOrder
        /\ UNCHANGED <<ledger, stock, order, stockUnit, links, told>>
    BY DEF Submit, own
  <1>3. [job |-> j, row |-> NoOrder] \in Task
    BY <1>1 DEF Task
  <1>4. L!TypeOK'
    BY <1>2 DEF TypeOK, L!TypeOK
  <1>5. TypeOK'
    BY <1>2, <1>3, <1>4 DEF TypeOK
  <1>6. /\ task'[w] = [job |-> j, row |-> NoOrder]
        /\ \A v \in Worker \ {w} : task'[v] = task[v]
    BY <1>2 DEF TypeOK
  <1>7. LocksExclusive'
    BY <1>6 DEF LocksExclusive, Locks, Works
  <1>8. LockedIsCurrent'
    BY <1>2, <1>6 DEF LockedIsCurrent, Works, Saved, Fulfilled
  <1>9. LinesExist' /\ LinksMatchLedger'
    BY <1>2, <1>6 DEF LinesExist, LinksMatchLedger, Works
  <1> QED
    BY <1>5, <1>7, <1>8, <1>9

\* A line is added where none was, hence to no task and no link.
LEMMA AddLinePurchaseInv ==
  ASSUME PurchaseInv, NEW d \in Draft, AddLine(d[1], d[2])
  PROVE  PurchaseInv'
  <1> USE DEF PurchaseInv
  <1>1. d[1] \in Line /\ d[2] \in Row /\ NoOrder \notin Row
    BY ProcurementConstants DEF ProcurementConstants
  <1>2. /\ order[d[1]] = NoOrder
        /\ order' = [order EXCEPT ![d[1]] = d[2]]
        /\ UNCHANGED <<ledger, stock, stockUnit, links, task, told>>
    BY DEF AddLine
  <1>3. L!TypeOK' /\ order' \in [Line -> Row \union {NoOrder}]
    BY <1>1, <1>2 DEF TypeOK, L!TypeOK
  <1>4. TypeOK'
    BY <1>2, <1>3 DEF TypeOK
  <1>5. \A l \in Line : order[l] # NoOrder => order'[l] = order[l]
    BY <1>2 DEF TypeOK
  <1>6. \A k \in links : k.line \in Line
    BY DEF TypeOK, Link
  <1>7. LocksExclusive'
    BY <1>2 DEF LocksExclusive, Locks, Works
  <1>8. LockedIsCurrent'
    BY <1>2, <1>5, TaskFacts DEF LockedIsCurrent, LinesExist, Works, Saved, Fulfilled
  <1>9. LinesExist'
    BY <1>2, <1>5, <1>6, TaskFacts DEF LinesExist, Works
  <1>10. LinksMatchLedger'
    BY <1>2, <1>5, <1>6 DEF LinksMatchLedger, LinesExist
  <1> QED
    BY <1>4, <1>7, <1>8, <1>9, <1>10

LEMMA ChangeUnitPurchaseInv ==
  ASSUME PurchaseInv, NEW m \in Material, NEW u \in Unit, ChangeUnit(m, u)
  PROVE  PurchaseInv'
  <1> USE DEF PurchaseInv
  <1>1. UNCHANGED <<ledger, stock, order, links, task, told>>
        /\ stockUnit' = [stockUnit EXCEPT ![m] = u]
    BY DEF ChangeUnit
  <1>2. TypeOK'
    BY <1>1 DEF TypeOK, L!TypeOK
  <1> QED
    BY <1>1, <1>2 DEF LocksExclusive, Locks, Works, LockedIsCurrent, LinesExist,
                      Saved, Fulfilled, LinksMatchLedger

\* A line is locked when nobody has it, read as it is, and asked what the job
\* requires of it.
LEMMA LockLinePurchaseInv ==
  ASSUME PurchaseInv, NEW w \in Worker, LockLine(w)
  PROVE  PurchaseInv'
  <1> USE DEF PurchaseInv
  <1> DEFINE j == task[w].job
             row == order[j.line]
  <1>1. /\ Works(w)
        /\ \/ j.kind = "deliver" /\ AdmitsDelivery(row)
           \/ j.kind = "link" /\ AdmitsLink(j, row)
           \/ j.kind = "edit" /\ AdmitsEdit(j, row)
        /\ \A v \in Worker : ~Locks(v, j.line)
        /\ task' = [task EXCEPT ![w].row = row]
        /\ UNCHANGED <<ledger, stock, order, stockUnit, links, told>>
    BY DEF LockLine, own
  <1>2. /\ task[w] = [job |-> j, row |-> task[w].row]
        /\ j \in Job /\ j.line \in Line
        /\ j.kind \in {"deliver", "link", "edit"}
    BY <1>1, TaskFacts
  <1>3. row \in Row /\ row # NoOrder
    BY <1>1, <1>2 DEF TypeOK, LinesExist
  <1>4. /\ task'[w] = [job |-> j, row |-> row]
        /\ \A v \in Worker \ {w} : task'[v] = task[v]
    BY <1>1, <1>2 DEF TypeOK
  <1>5. [job |-> j, row |-> row] \in Task
    BY <1>2, <1>3 DEF Task
  <1>6. TypeOK'
    BY <1>1, <1>4, <1>5 DEF TypeOK, L!TypeOK
  <1>7. LocksExclusive'
    BY <1>1, <1>4 DEF LocksExclusive, Locks, Works
  <1>8. j.kind = "deliver" => row.material # NoMaterial
    BY <1>1 DEF AdmitsDelivery
  <1>9. ASSUME j.kind \in {"link", "edit"}, Fulfilled(j.line)
        PROVE  [material |-> j.material,
                unit |-> IF j.kind = "edit" THEN j.unit ELSE row.unit] = row
    <2>1. CASE j.kind = "link"
      BY <1>1, <1>3, <1>9, <2>1 DEF AdmitsLink, Row
    <2>2. CASE j.kind = "edit"
      BY <1>1, <1>3, <1>9, <2>2 DEF AdmitsEdit, Row
    <2> QED
      BY <1>9, <2>1, <2>2
  <1>10. LockedIsCurrent'
    <2> SUFFICES ASSUME NEW v \in Worker, Works(v)', task'[v].row # NoOrder
                 PROVE  /\ task'[v].row = order'[task'[v].job.line]
                        /\ task'[v].job.kind = "deliver" =>
                             task'[v].row.material # NoMaterial
                        /\ (task'[v].job.kind \in {"link", "edit"}
                              /\ Fulfilled(task[v].job.line)') =>
                             Saved(v)' = task'[v].row
      BY DEF LockedIsCurrent, Fulfilled
    <2>1. CASE v = w
      BY <1>1, <1>4, <1>8, <1>9, <2>1 DEF Saved, Fulfilled
    <2>2. CASE v # w
      BY <1>1, <1>4, <2>2 DEF LockedIsCurrent, Works, Saved, Fulfilled
    <2> QED
      BY <2>1, <2>2
  <1>11. LinesExist' /\ LinksMatchLedger'
    BY <1>1, <1>2, <1>4 DEF LinesExist, LinksMatchLedger, Works
  <1> QED
    BY <1>6, <1>7, <1>10, <1>11

\* A saved row: nobody else has the line, and a fulfilled one stays as it is.
LEMMA SavePurchaseInv ==
  ASSUME PurchaseInv, NEW w \in Worker, Save(w)
  PROVE  PurchaseInv'
  <1> USE DEF PurchaseInv
  <1> DEFINE l == task[w].job.line
  <1>1. /\ Works(w) /\ task[w].row # NoOrder
        /\ task[w].job.kind \in {"link", "edit"}
        /\ order' = [order EXCEPT ![l] = Saved(w)]
        /\ task' = [task EXCEPT ![w] = Idle]
        /\ UNCHANGED <<ledger, stock, stockUnit, links, told>>
    BY DEF Save, Saved
  <1>2. l \in Line /\ task[w].row \in Row
    BY <1>1, TaskFacts
  <1>3. Saved(w) \in Row
    BY <1>1, <1>2, TaskFacts DEF Saved, Row
  <1>4. NoOrder \notin Row
    BY ProcurementConstants DEF ProcurementConstants
  <1>5. TypeOK'
    BY <1>1, <1>2, <1>3 DEF TypeOK, L!TypeOK
  <1>6. /\ order'[l] = Saved(w)
        /\ \A i \in Line \ {l} : order'[i] = order[i]
    BY <1>1, <1>2 DEF TypeOK
  <1>7. \A v \in Worker : Works(v)' => Works(v) /\ task'[v] = task[v] /\ v # w
    BY <1>1 DEF TypeOK, Works
  <1>8. LocksExclusive'
    BY <1>7 DEF LocksExclusive, Locks, Works
  <1>9. LockedIsCurrent'
    <2> SUFFICES ASSUME NEW v \in Worker, Works(v)', task'[v].row # NoOrder
                 PROVE  task'[v].job.line \in Line \ {l}
      BY <1>1, <1>6, <1>7 DEF LockedIsCurrent, Saved, Fulfilled
    <2>1. Works(v) /\ task'[v] = task[v] /\ v # w
      BY <1>7
    <2>2. task[v].job.line \in Line
      BY <2>1, TaskFacts
    <2>3. Locks(v, task[v].job.line) /\ Locks(w, l)
      BY <1>1, <2>1 DEF Locks
    <2> QED
      BY <1>2, <2>1, <2>2, <2>3 DEF LocksExclusive
  <1>10. Fulfilled(l) => order'[l] = order[l]
    BY <1>1, <1>6 DEF LockedIsCurrent
  <1>11. \A k \in links : k.line \in Line /\ order'[k.line] = order[k.line]
    BY <1>6, <1>10 DEF Fulfilled, TypeOK, Link
  <1>12. LinesExist'
    <2>1. \A k \in links' : order'[k.line] # NoOrder
      BY <1>1, <1>11 DEF LinesExist
    <2>2. \A v \in Worker : Works(v)' => order'[task'[v].job.line] # NoOrder
      BY <1>3, <1>4, <1>6, <1>7, TaskFacts DEF LinesExist
    <2> QED
      BY <2>1, <2>2 DEF LinesExist
  <1>13. LinksMatchLedger'
    BY <1>1, <1>11 DEF LinksMatchLedger
  <1> QED
    BY <1>5, <1>8, <1>9, <1>12, <1>13

\* What a delivery posts, and the link it adds.
LEMMA ReceiveFacts ==
  ASSUME PurchaseInv, NEW w \in Worker, Receive(w)
  PROVE  LET j == task[w].job
             k == [line |-> j.line, operation |-> j.operation,
                   quantity |-> j.quantity, unit |-> task[w].row.unit]
         IN  /\ k \in Link
             /\ links' = links \union {k}
             /\ L!TypeOK'
             /\ ledger[j.operation] = NoPosting
             /\ ledger' = [ledger EXCEPT ![j.operation] = PostingOf(w)]
             /\ PostingOf(w).type = "RECEIPT"
             /\ PostingOf(w).quantity = j.quantity
             /\ MaterialOf(PostingOf(w).target) = task[w].row.material
             /\ order[j.line] = [material |-> task[w].row.material,
                                 unit |-> task[w].row.unit]
             /\ j.operation \in OperationId
  <1> USE DEF PurchaseInv
  <1> DEFINE j == task[w].job
             row == task[w].row
             b == <<row.material, j.place[1], j.place[2]>>
             k == [line |-> j.line, operation |-> j.operation,
                   quantity |-> j.quantity, unit |-> row.unit]
  <1>1. /\ Works(w) /\ row # NoOrder /\ j.kind = "deliver"
        /\ L!Post(j.operation, PostingOf(w))
        /\ links' = links \union {k}
    BY DEF Receive, Delivers
  <1>2. /\ j.line \in Line /\ j.operation \in OperationId
        /\ j.quantity \in Quantity /\ j.place \in Location \X Condition
        /\ row \in Row
    BY <1>1, TaskFacts
  <1>3. row = order[j.line] /\ row.material # NoMaterial
    BY <1>1 DEF LockedIsCurrent
  <1>4. row = [material |-> row.material, unit |-> row.unit]
    BY <1>2 DEF Row
  <1>5. b \in Bucket /\ NoBucket \notin Bucket
    BY <1>2, <1>3, PostingConstants DEF Row, Bucket, PostingConstants
  <1>6. PostingOf(w) = Receipt(b, j.quantity)
    BY DEF PostingOf
  <1> HIDE DEF b
  <1>7. /\ PostingOf(w) \in Posting /\ WellFormed(PostingOf(w))
        /\ PostingOf(w).type = "RECEIPT" /\ PostingOf(w).target = b
        /\ PostingOf(w).quantity = j.quantity
    <2>1. NoOperation \notin OperationId
      BY PostingConstants DEF PostingConstants
    <2> QED
      BY <1>2, <1>5, <1>6, <2>1 DEF Receipt, Shape, Posting, WellFormed
  <1>8. MaterialOf(b) = row.material
    BY DEF b, MaterialOf
  <1>9. k \in Link
    BY <1>2 DEF Link, Row
  <1>10. /\ L!TypeOK' /\ ledger[j.operation] = NoPosting
         /\ ledger' = [ledger EXCEPT ![j.operation] = PostingOf(w)]
    BY <1>1, <1>2, <1>7, LedgerPost DEF TypeOK
  <1> QED
    BY <1>1, <1>2, <1>3, <1>4, <1>7, <1>8, <1>9, <1>10

\* A delivery adds one link, of a posting that was in no link.
LEMMA ReceivePurchaseInv ==
  ASSUME PurchaseInv, NEW w \in Worker, Receive(w)
  PROVE  PurchaseInv'
  <1> USE DEF PurchaseInv
  <1> DEFINE j == task[w].job
             k == [line |-> j.line, operation |-> j.operation,
                   quantity |-> j.quantity, unit |-> task[w].row.unit]
  <1>1. /\ Works(w) /\ task[w].row # NoOrder /\ j.kind = "deliver"
        /\ task' = [task EXCEPT ![w] = Idle]
        /\ told' = told \union {j}
        /\ UNCHANGED <<order, stockUnit>>
    BY DEF Receive, Delivers, Answer
  <1>2. /\ k \in Link
        /\ links' = links \union {k}
        /\ L!TypeOK'
        /\ ledger[j.operation] = NoPosting
        /\ ledger' = [ledger EXCEPT ![j.operation] = PostingOf(w)]
        /\ PostingOf(w).type = "RECEIPT"
        /\ PostingOf(w).quantity = j.quantity
        /\ MaterialOf(PostingOf(w).target) = task[w].row.material
        /\ order[j.line] = [material |-> task[w].row.material,
                            unit |-> task[w].row.unit]
        /\ j.operation \in OperationId
    BY ReceiveFacts
  <1>3. j \in Job /\ j.line \in Line
    BY <1>1, TaskFacts
  <1>4. TypeOK'
    BY <1>1, <1>2, <1>3 DEF TypeOK
  <1>5. \A v \in Worker : Works(v)' => Works(v) /\ task'[v] = task[v] /\ v # w
    BY <1>1 DEF TypeOK, Works
  <1>6. LocksExclusive'
    BY <1>5 DEF LocksExclusive, Locks, Works
  <1>7. LockedIsCurrent'
    <2> SUFFICES ASSUME NEW v \in Worker, Works(v)', task'[v].row # NoOrder
                 PROVE  /\ v # w /\ Works(v) /\ task'[v] = task[v]
                        /\ Fulfilled(task[v].job.line)' <=>
                             Fulfilled(task[v].job.line)
      BY <1>1 DEF LockedIsCurrent, Saved, Fulfilled
    <2>1. Works(v) /\ task'[v] = task[v] /\ v # w
      BY <1>5
    <2>2. Locks(v, task[v].job.line) /\ Locks(w, j.line)
      BY <1>1, <2>1 DEF Locks
    <2>3. task[v].job.line # j.line
      BY <1>3, <2>1, <2>2, TaskFacts DEF LocksExclusive
    <2> QED
      BY <1>2, <2>1, <2>3 DEF Fulfilled
  <1>8. LinesExist'
    BY <1>1, <1>2, <1>5 DEF LinesExist
  <1>9. \A n \in links : /\ n.operation # j.operation
                         /\ ledger'[n.operation] = ledger[n.operation]
    <2> SUFFICES ASSUME NEW n \in links
                 PROVE  /\ n.operation # j.operation
                        /\ ledger'[n.operation] = ledger[n.operation]
      OBVIOUS
    <2>1. n.operation \in OperationId
      BY DEF TypeOK, Link
    <2>2. ledger[n.operation].type = "RECEIPT"
      BY DEF LinksMatchLedger
    <2>3. NoPosting.type # "RECEIPT"
      BY DEF NoPosting, Shape
    <2>4. n.operation # j.operation
      BY <1>2, <2>2, <2>3
    <2> QED
      BY <1>2, <2>1, <2>4 DEF TypeOK, L!TypeOK
  <1>10. ledger'[j.operation] = PostingOf(w)
    BY <1>2 DEF TypeOK, L!TypeOK
  <1>11. LinksMatchLedger'
    <2>1. ASSUME NEW n \in links'
          PROVE  /\ order'[n.line] =
                      [material |-> MaterialOf(ledger'[n.operation].target),
                       unit |-> n.unit]
                 /\ ledger'[n.operation].type = "RECEIPT"
                 /\ ledger'[n.operation].quantity = n.quantity
      <3>1. CASE n \in links
        BY <1>1, <1>9, <3>1 DEF LinksMatchLedger
      <3>2. CASE n = k
        BY <1>1, <1>2, <1>10, <3>2
      <3> QED
        BY <1>2, <2>1, <3>1, <3>2
    <2>2. ASSUME NEW n \in links', NEW i \in links' \ {n}
          PROVE  i.operation # n.operation
      <3>1. CASE n \in links /\ i \in links
        BY <3>1, <2>2 DEF LinksMatchLedger
      <3>2. CASE n = k \/ i = k
        BY <1>2, <1>9, <2>2, <3>2
      <3> QED
        BY <1>2, <3>1, <3>2
    <2> QED
      BY <2>1, <2>2 DEF LinksMatchLedger
  <1> QED
    BY <1>4, <1>6, <1>7, <1>8, <1>11

\* What others post is no receipt of a link.
LEMMA ElsewherePurchaseInv ==
  ASSUME PurchaseInv, Elsewhere
  PROVE  PurchaseInv'
  <1> USE DEF PurchaseInv
  <1>1. L!Next /\ UNCHANGED <<order, stockUnit, links, told, task>>
    BY DEF Elsewhere, own
  <1>2. /\ L!TypeOK'
        /\ \A p \in OperationId : ledger[p] # NoPosting => ledger'[p] = ledger[p]
    BY <1>1, LedgerNext DEF TypeOK
  <1>3. TypeOK'
    BY <1>1, <1>2 DEF TypeOK
  <1>4. ASSUME NEW k \in links PROVE ledger'[k.operation] = ledger[k.operation]
    <2>1. k.operation \in OperationId
      BY DEF TypeOK, Link
    <2>2. ledger[k.operation].type = "RECEIPT"
      BY DEF LinksMatchLedger
    <2>3. NoPosting.type # "RECEIPT"
      BY DEF NoPosting, Shape
    <2> QED
      BY <1>2, <2>1, <2>2, <2>3
  <1>5. LinksMatchLedger'
    BY <1>1, <1>4 DEF LinksMatchLedger
  <1> QED
    BY <1>1, <1>3, <1>5 DEF LocksExclusive, Locks, Works, LockedIsCurrent,
                            LinesExist, Saved, Fulfilled

LEMMA NextPurchaseInv == PurchaseInv /\ [Next]_vars => PurchaseInv'
  <1> SUFFICES ASSUME PurchaseInv, [Next]_vars PROVE PurchaseInv'
    OBVIOUS
  <1>1. ASSUME NEW w \in Worker, LockLine(w) PROVE PurchaseInv'
    BY <1>1, LockLinePurchaseInv
  <1>2. ASSUME NEW w \in Worker, Save(w) PROVE PurchaseInv'
    BY <1>2, SavePurchaseInv
  <1>3. ASSUME NEW w \in Worker, Receive(w) PROVE PurchaseInv'
    BY <1>3, ReceivePurchaseInv
  <1>4. ASSUME NEW w \in Worker, Replay(w) PROVE PurchaseInv'
    <2>1. task[w].job \in Job /\ task[w].job.kind = "deliver"
      BY <1>4, TaskFacts DEF PurchaseInv, Replay, Delivers
    <2> QED
      BY <1>4, <2>1, LeavePurchaseInv DEF Replay, Answer, PurchaseInv, TypeOK
  <1>5. ASSUME NEW w \in Worker, Fail(w) PROVE PurchaseInv'
    BY <1>5, LeavePurchaseInv DEF Fail, own, PurchaseInv, TypeOK
  <1>6. ASSUME NEW w \in Worker, NEW j \in Errand, Submit(w, j) PROVE PurchaseInv'
    BY <1>6, SubmitPurchaseInv
  <1>7. ASSUME NEW d \in Draft, AddLine(d[1], d[2]) PROVE PurchaseInv'
    BY <1>7, AddLinePurchaseInv
  <1>8. ASSUME NEW m \in Material, NEW u \in Unit, ChangeUnit(m, u) PROVE PurchaseInv'
    BY <1>8, ChangeUnitPurchaseInv
  <1>9. CASE Elsewhere
    BY <1>9, ElsewherePurchaseInv
  <1>10. CASE UNCHANGED vars
    BY <1>10 DEF vars, own, PurchaseInv, TypeOK, L!TypeOK, LocksExclusive, Locks, Works,
                 LockedIsCurrent, LinesExist, Saved, Fulfilled, LinksMatchLedger
  <1> QED
    BY <1>1, <1>2, <1>3, <1>4, <1>5, <1>6, <1>7, <1>8, <1>9, <1>10 DEF Next, Step

LEMMA PurchaseInvariance == Spec => []PurchaseInv
  BY InitPurchaseInv, NextPurchaseInv, PTL DEF Spec

-----------------------------------------------------------------------------
(***************************************************************************)
(* Theorems                                                                *)
(***************************************************************************)

\* Every variable keeps its type, the stock of the ledger included.
THEOREM TypeCorrect == Spec => []TypeOK
  <1>1. PurchaseInv => TypeOK
    BY DEF PurchaseInv
  <1> QED
    BY <1>1, PurchaseInvariance, PTL

\* What is summed up as received for a line are receipts of its material and
\* unit, each for one line only, whatever races with the deliveries.
THEOREM LinksAlwaysMatchLedger == Spec => []LinksMatchLedger
  <1>1. PurchaseInv => LinksMatchLedger
    BY DEF PurchaseInv
  <1> QED
    BY <1>1, PurchaseInvariance, PTL

\* Whatever was reported as received is linked.
ToldIsLinked ==
  \A j \in told : \E k \in links :
    k.operation = j.operation /\ k.line = j.line /\ k.quantity = j.quantity

LEMMA ToldStep ==
  ASSUME PurchaseInv, ToldIsLinked, [Next]_vars
  PROVE  ToldIsLinked'
  <1>1. ASSUME NEW w \in Worker, Receive(w) PROVE ToldIsLinked'
    <2> DEFINE j == task[w].job
               k == [line |-> j.line, operation |-> j.operation,
                     quantity |-> j.quantity, unit |-> task[w].row.unit]
    <2>1. links' = links \union {k} /\ told' = told \union {j}
      BY <1>1 DEF Receive, Answer
    <2>2. k.operation = j.operation /\ k.line = j.line /\ k.quantity = j.quantity
      OBVIOUS
    <2> HIDE DEF k
    <2> QED
      BY <2>1, <2>2 DEF ToldIsLinked
  <1>2. ASSUME NEW w \in Worker, Replay(w) PROVE ToldIsLinked'
    <2>1. links' = links /\ told' = told \union {task[w].job}
      BY <1>2 DEF Replay, Answer
    <2>2. \E k \in links : SameLink(k, task[w].job)
      BY <1>2 DEF Replay
    <2> QED
      BY <2>1, <2>2 DEF ToldIsLinked, SameLink
  <1>3. CASE links' = links /\ told' = told
    BY <1>3 DEF ToldIsLinked
  <1> QED
    BY <1>1, <1>2, <1>3 DEF Next, Step, LockLine, Save, Fail, Submit, AddLine,
                            ChangeUnit, Elsewhere, own, vars

\* A delivery that was reported as received counts once, for the line it was
\* reported for, however often it is retried and whoever draws its identifier.
THEOREM DeliveriesAreCounted == Spec => []DeliveriesCounted
  <1>1. Init => ToldIsLinked
    BY DEF Init, ToldIsLinked
  <1>2. PurchaseInv /\ ToldIsLinked => DeliveriesCounted
    <2> SUFFICES ASSUME PurchaseInv, ToldIsLinked, NEW j \in told
                 PROVE  /\ Cardinality({k \in links : k.operation = j.operation}) = 1
                        /\ \E k \in links : /\ k.operation = j.operation
                                            /\ k.line = j.line
                                            /\ k.quantity = j.quantity
      BY DEF DeliveriesCounted
    <2>1. PICK k \in links :
            k.operation = j.operation /\ k.line = j.line /\ k.quantity = j.quantity
      BY DEF ToldIsLinked
    <2>2. \A n \in links \ {k} : n.operation # k.operation
      BY DEF PurchaseInv, LinksMatchLedger
    <2>3. {n \in links : n.operation = j.operation} = {k}
      BY <2>1, <2>2
    <2>4. Cardinality({k}) = 1
      BY FS_Singleton
    <2> QED
      BY <2>1, <2>3, <2>4
  <1> QED
    BY <1>1, <1>2, ToldStep, PurchaseInvariance, PTL DEF Spec

-----------------------------------------------------------------------------
(***************************************************************************)
(* What holds of AccessManagement for every set of users, roles and        *)
(* permissions.                                                            *)
(*                                                                         *)
(* The argument: the row of a user and the rows of roles are locked by one *)
(* call at a time, so what a delegate's call has checked of the roles she  *)
(* assigns holds when it commits (ChecksHold), though her own permissions  *)
(* and other roles may have changed meanwhile.                             *)
(***************************************************************************)
RoleCalls ==
  [kind : {"create", "rename", "permissions"}, phase : Phase,
   of : Role, labels : SUBSET Supported, safe : SUBSET Safe]

UserCalls ==
  [kind : {"user"}, phase : Phase, of : User, roles : SUBSET Role,
   safe : SUBSET Safe]

Calls == {NoCall} \union RoleCalls \union UserCalls

RolesExist ==
  \A a \in User : call[a].kind = "user" => call[a].roles \subseteq exists

UserLocksExclusive ==
  \A a, b \in User : \A u \in User :
    LockedUser(a, u) /\ LockedUser(b, u) => a = b

RoleLocksExclusive ==
  \A a, b \in User : LockedRoles(a) \intersect LockedRoles(b) # {} => a = b

\* What a call may hand on.
Gift(a) ==
  CASE call[a].kind = "permissions" -> call[a].labels
    [] call[a].kind = "user" ->
         UNION {grants[r] : r \in call[a].roles \ groups[call[a].of]}
    [] OTHER -> {}

ChecksHold ==
  \A a \in User \ Superuser :
    call[a].phase = "checked" => Gift(a) \subseteq call[a].safe

AccessInv ==
  /\ AccessTypeOK
  /\ RolesExist
  /\ UserLocksExclusive
  /\ RoleLocksExclusive
  /\ ChecksHold

-----------------------------------------------------------------------------
(***************************************************************************)
(* Lemmas                                                                  *)
(***************************************************************************)
LEMMA CallTypes ==
  AccessTypeOK <=>
    /\ exists \subseteq Role
    /\ grants \in [Role -> SUBSET Permission]
    /\ groups \in [User -> SUBSET exists]
    /\ call \in [User -> Calls]
  BY DEF AccessTypeOK, Calls, RoleCalls, UserCalls

LEMMA CallKinds ==
  ASSUME AccessTypeOK, NEW a \in User
  PROVE  /\ call[a] = NoCall => call[a].kind = "none" /\ call[a].phase = "none"
         /\ call[a].kind = "user" => call[a] \in UserCalls
         /\ call[a].kind \in {"create", "rename", "permissions"}
              => call[a] \in RoleCalls
         /\ call[a].phase # "none" => call[a] \in UserCalls \union RoleCalls
  <1>1. call[a] \in Calls
    BY CallTypes
  <1> QED
    BY <1>1 DEF Calls, NoCall, UserCalls, RoleCalls

\* A call that has not come to its check, and one that is none, lock no role
\* and hand on nothing.
LEMMA ChangeOfOneCall ==
  ASSUME AccessInv, NEW a \in User, NEW c \in Calls,
         call' = [call EXCEPT ![a] = c],
         exists' = exists, grants' = grants, groups' = groups,
         c.kind = "user" => c.roles \subseteq exists,
         LockedRoles(a)' # {} =>
           \A b \in User \ {a} : LockedRoles(a)' \intersect LockedRoles(b) = {},
         \A u \in User : LockedUser(a, u)' =>
           \A b \in User \ {a} : ~LockedUser(b, u),
         c.phase = "checked" /\ a \notin Superuser => Gift(a)' \subseteq c.safe
  PROVE  AccessInv'
  <1>1. AccessTypeOK /\ call \in [User -> Calls]
    BY CallTypes DEF AccessInv
  <1>2. call'[a] = c /\ \A b \in User \ {a} : call'[b] = call[b]
    BY <1>1
  <1>3. AccessTypeOK'
    <2>1. call' \in [User -> Calls]
      BY <1>1
    <2> QED
      BY <1>1, <2>1 DEF AccessTypeOK, Calls, RoleCalls, UserCalls
  <1>4. RolesExist'
    BY <1>2 DEF AccessInv, RolesExist
  <1>5. \A b \in User \ {a} : /\ LockedRoles(b)' = LockedRoles(b)
                              /\ Gift(b)' = Gift(b)
                              /\ \A u \in User : LockedUser(b, u)' = LockedUser(b, u)
    BY <1>2 DEF LockedRoles, Gift, LockedUser
  <1>6. UserLocksExclusive'
    <2> SUFFICES ASSUME NEW b \in User, NEW d \in User, NEW u \in User,
                        LockedUser(b, u)', LockedUser(d, u)', b # d
                 PROVE  FALSE
      BY DEF UserLocksExclusive
    <2>1. CASE b # a /\ d # a
      BY <1>5, <2>1 DEF AccessInv, UserLocksExclusive
    <2>2. CASE b = a
      BY <1>5, <2>2
    <2>3. CASE d = a
      BY <1>5, <2>3
    <2> QED
      BY <2>1, <2>2, <2>3
  <1>7. RoleLocksExclusive'
    <2> SUFFICES ASSUME NEW b \in User, NEW d \in User, b # d,
                        LockedRoles(b)' \intersect LockedRoles(d)' # {}
                 PROVE  FALSE
      BY DEF RoleLocksExclusive
    <2>1. CASE b # a /\ d # a
      BY <1>5, <2>1 DEF AccessInv, RoleLocksExclusive
    <2>2. CASE b = a
      BY <1>5, <2>2
    <2>3. CASE d = a
      BY <1>5, <2>3
    <2> QED
      BY <2>1, <2>2, <2>3
  <1>8. ChecksHold'
    <2> SUFFICES ASSUME NEW b \in User \ Superuser, call'[b].phase = "checked"
                 PROVE  Gift(b)' \subseteq call'[b].safe
      BY DEF ChecksHold
    <2>1. CASE b = a
      BY <1>2, <2>1
    <2>2. CASE b # a
      BY <1>2, <1>5, <2>2 DEF AccessInv, ChecksHold
    <2> QED
      BY <2>1, <2>2
  <1> QED
    BY <1>3, <1>4, <1>6, <1>7, <1>8 DEF AccessInv

LEMMA DropCall ==
  ASSUME AccessInv, NEW a \in User, call' = [call EXCEPT ![a] = NoCall],
         exists' = exists, grants' = grants, groups' = groups
  PROVE  AccessInv'
  <1>1. NoCall \in Calls /\ NoCall.kind # "user" /\ NoCall.phase # "checked"
    BY DEF Calls, NoCall
  <1>2. call'[a] = NoCall
    BY CallTypes DEF AccessInv
  <1>3. LockedRoles(a)' = {} /\ \A u \in User : ~LockedUser(a, u)'
    BY <1>1, <1>2 DEF LockedRoles, LockedUser
  <1> QED
    BY <1>1, <1>3, ChangeOfOneCall

LEMMA AuthorizeKeeps ==
  ASSUME AccessInv, NEW a \in User, Authorize(a)
  PROVE  AccessInv'
  <1>1. PICK c \in CallRequest : call' = [call EXCEPT ![a] = c]
    BY DEF Authorize
  <1>2. /\ c \in Calls
        /\ c.phase = "authorized"
        /\ c.kind = "user" => c.roles \subseteq exists
    <2>0. exists \subseteq Role /\ Selection \subseteq SUBSET Supported
      BY AccessConstants DEF AccessInv, AccessTypeOK, AccessConstants
    <2>1. CASE \E r \in Role \ exists : c = RoleCall("create", r, {})
      BY <2>1 DEF RoleCall, Calls, RoleCalls, Phase
    <2>2. CASE \E r \in exists : c = RoleCall("rename", r, {})
      BY <2>0, <2>2 DEF RoleCall, Calls, RoleCalls, Phase
    <2>3. CASE \E r \in exists : \E labels \in Selection :
                 c = RoleCall("permissions", r, labels)
      BY <2>0, <2>3 DEF RoleCall, Calls, RoleCalls, Phase
    <2>4. CASE \E u \in User : \E roles \in SUBSET exists : c = UserCall(u, roles)
      BY <2>0, <2>4 DEF UserCall, Calls, UserCalls, Phase
    <2> QED
      BY <2>1, <2>2, <2>3, <2>4 DEF CallRequest
  <1>3. call'[a] = c
    BY <1>1, CallTypes DEF AccessInv
  <1>4. LockedRoles(a)' = {} /\ \A u \in User : ~LockedUser(a, u)'
    BY <1>2, <1>3 DEF LockedRoles, LockedUser
  <1>5. exists' = exists /\ grants' = grants /\ groups' = groups
    BY DEF Authorize
  <1> QED
    BY <1>1, <1>2, <1>4, <1>5, ChangeOfOneCall

LEMMA LockUserRowKeeps ==
  ASSUME AccessInv, NEW a \in User, LockUserRow(a)
  PROVE  AccessInv'
  <1>1. /\ call[a].kind = "user" /\ call[a].phase = "authorized"
        /\ call' = [call EXCEPT ![a] = [call[a] EXCEPT !.phase = "row locked"]]
        /\ exists' = exists /\ grants' = grants /\ groups' = groups
    BY CallTypes DEF LockUserRow, AccessInv
  <1> DEFINE c == [call[a] EXCEPT !.phase = "row locked"]
  <1>2. call[a] \in UserCalls
    BY <1>1, CallKinds DEF AccessInv
  <1>3. /\ c \in Calls /\ c.phase = "row locked" /\ c.kind = "user"
        /\ c.roles = call[a].roles /\ c.of = call[a].of
    BY <1>2 DEF Calls, UserCalls, Phase
  <1>4. call'[a] = c
    BY <1>1, CallTypes DEF AccessInv
  <1>5. c.roles \subseteq exists
    BY <1>1, <1>3 DEF AccessInv, RolesExist
  <1>6. LockedRoles(a)' = {}
    BY <1>3, <1>4 DEF LockedRoles
  <1>7. ASSUME NEW u \in User, LockedUser(a, u)', NEW b \in User \ {a}
        PROVE  ~LockedUser(b, u)
    <2>1. NeedsUser(a, u)
      BY <1>1, <1>3, <1>4, <1>7 DEF LockedUser, NeedsUser
    <2> QED
      BY <2>1 DEF LockUserRow, MayGoOn, CallWaitsFor
  <1> HIDE DEF c
  <1> QED
    BY <1>1, <1>3, <1>4, <1>5, <1>6, <1>7, ChangeOfOneCall DEF c

LEMMA LockAndCheckKeeps ==
  ASSUME AccessInv, NEW a \in User, LockAndCheck(a)
  PROVE  AccessInv'
  <1>0. /\ call[a].phase = IF call[a].kind = "user" THEN "row locked" ELSE "authorized"
        /\ MayGoOn(a)
        /\ exists' = exists /\ grants' = grants /\ groups' = groups
    BY DEF LockAndCheck
  <1>1. CASE call' = [call EXCEPT ![a] = NoCall]
    BY <1>0, <1>1, DropCall
  <1> DEFINE c == [call[a] EXCEPT !.phase = "checked",
                                  !.safe = Safe \intersect Effective(a)]
  <1>2. CASE Passes(a, call[a]) /\ call' = [call EXCEPT ![a] = c]
    <2>1. call[a] \in UserCalls \union RoleCalls
      BY <1>0, CallKinds DEF AccessInv
    <2>2. /\ c \in Calls /\ c.phase = "checked" /\ c.kind = call[a].kind
          /\ c.of = call[a].of /\ c.safe = Safe \intersect Effective(a)
          /\ c.kind = "user" => c.roles = call[a].roles
          /\ c.kind # "user" => c.labels = call[a].labels
      BY <2>1 DEF Calls, UserCalls, RoleCalls, Phase
    <2>3. call'[a] = c
      BY <1>2, CallTypes DEF AccessInv
    <2> HIDE DEF c
    <2>4. c.kind = "user" => c.roles \subseteq exists
      BY <2>2 DEF AccessInv, RolesExist
    <2>5. ASSUME NEW b \in User \ {a}, NEW r \in LockedRoles(a)',
                 r \in LockedRoles(b)
          PROVE  FALSE
      <3>1. NeedsRole(a, r)
        <4>1. CASE c.kind = "user"
          BY <1>0, <2>2, <2>3, <2>5, <4>1 DEF LockedRoles, NeedsRole
        <4>2. CASE c.kind # "user"
          <5>1. c.kind # "create" /\ r = c.of
            BY <2>2, <2>3, <2>5, <4>2 DEF LockedRoles
          <5>2. c.kind \in {"rename", "permissions"}
            BY <2>1, <2>2, <4>2, <5>1 DEF UserCalls, RoleCalls
          <5> QED
            BY <1>0, <2>2, <4>2, <5>1, <5>2 DEF NeedsRole
        <4> QED
          BY <4>1, <4>2
      <3> QED
        BY <1>0, <2>5, <3>1 DEF MayGoOn, CallWaitsFor
    <2>6. ASSUME NEW u \in User, LockedUser(a, u)', NEW b \in User \ {a}
          PROVE  ~LockedUser(b, u)
      <3>1. LockedUser(a, u)
        BY <1>0, <2>2, <2>3, <2>6 DEF LockedUser
      <3> QED
        BY <3>1 DEF AccessInv, UserLocksExclusive
    <2>7. ASSUME a \notin Superuser
          PROVE  Gift(a)' \subseteq c.safe
      <3>1. CASE c.kind = "permissions"
        <4>1. MayGrant(a, c.labels)
          BY <1>2, <2>2, <3>1 DEF Passes
        <4> QED
          BY <2>2, <2>3, <2>7, <3>1, <4>1 DEF MayGrant, Gift
      <3>2. CASE c.kind = "user"
        <4>1. /\ \A r \in groups[c.of] \union c.roles : SupportedRole(r)
              /\ UserMutationAllowed(a, c.of, c.roles)
          BY <1>2, <2>2, <3>2 DEF Passes
        <4>2. /\ \A r \in Changed(c.of, c.roles) : Manage \notin grants[r]
              /\ \A r \in c.roles : Within(grants[r], a)
          BY <2>7, <4>1 DEF UserMutationAllowed
        <4>3. \A r \in c.roles \ groups[c.of] : grants[r] \subseteq c.safe
          BY <2>2, <4>1, <4>2 DEF SupportedRole, Supported, Changed, Within
        <4>4. Gift(a)' = UNION {grants[r] : r \in c.roles \ groups[c.of]}
          BY <1>0, <2>3, <3>2 DEF Gift
        <4> QED
          BY <4>3, <4>4
      <3>3. CASE c.kind \notin {"permissions", "user"}
        BY <2>3, <3>3 DEF Gift
      <3> QED
        BY <3>1, <3>2, <3>3
    <2> QED
      BY <1>0, <1>2, <2>2, <2>4, <2>5, <2>6, <2>7, ChangeOfOneCall
  <1> QED
    BY <1>1, <1>2 DEF LockAndCheck

-----------------------------------------------------------------------------
(***************************************************************************)
(* The commit                                                              *)
(***************************************************************************)

\* What a commit adds to anybody's permissions is what the call hands on.
LEMMA CommitGives ==
  ASSUME AccessInv, NEW a \in User, CommitCall(a), NEW u \in User
  PROVE  Assigned(u)' \ Assigned(u) \subseteq Gift(a)
  <1>1. AccessTypeOK /\ call[a].phase = "checked"
    BY DEF AccessInv, CommitCall
  <1>2. call[a] \in UserCalls \union RoleCalls
    BY <1>1, CallKinds
  <1> SUFFICES ASSUME NEW p, p \in Assigned(u)', p \notin Assigned(u)
               PROVE  p \in Gift(a)
    OBVIOUS
  <1>3. PICK r \in groups'[u] : p \in grants'[r]
    BY DEF Assigned
  <1>4. r \notin groups[u] \/ p \notin grants[r]
    BY DEF Assigned
  <1>5. CASE call[a].kind = "permissions"
    <2>1. groups' = groups /\ grants' = [grants EXCEPT ![call[a].of] = call[a].labels]
      BY <1>5 DEF CommitCall
    <2>2. r \in Role
      BY <1>1, <1>3, <2>1 DEF AccessTypeOK
    <2>3. r = call[a].of /\ p \in call[a].labels
      BY <1>1, <1>3, <1>4, <2>1, <2>2 DEF AccessTypeOK
    <2> QED
      BY <1>5, <2>3 DEF Gift
  <1>6. CASE call[a].kind = "user"
    <2>1. grants' = grants /\ groups' = [groups EXCEPT ![call[a].of] = call[a].roles]
      BY <1>6 DEF CommitCall
    <2>2. u = call[a].of /\ r \in call[a].roles /\ r \notin groups[u]
      BY <1>1, <1>3, <1>4, <2>1 DEF AccessTypeOK
    <2> QED
      BY <1>3, <1>6, <2>1, <2>2 DEF Gift
  <1>7. CASE call[a].kind \notin {"permissions", "user"}
    BY <1>3, <1>4, <1>7 DEF CommitCall
  <1> QED
    BY <1>5, <1>6, <1>7

LEMMA CommitKeeps ==
  ASSUME AccessInv, NEW a \in User, CommitCall(a)
  PROVE  AccessInv'
  <1>1. /\ AccessTypeOK
        /\ call[a].phase = "checked"
        /\ call' = [call EXCEPT ![a] = NoCall]
        /\ call'[a] = NoCall
        /\ \A b \in User \ {a} : call'[b] = call[b]
    BY CallTypes DEF AccessInv, CommitCall
  <1>2. call[a] \in UserCalls \union RoleCalls
    BY <1>1, CallKinds
  <1>3. AccessTypeOK'
    <2>1. exists \subseteq exists' /\ exists' \subseteq Role
      BY <1>1, <1>2 DEF CommitCall, AccessTypeOK, RoleCalls, UserCalls
    <2>2. grants' \in [Role -> SUBSET Permission]
      <3>1. CASE call[a].kind = "permissions"
        <4>1. call[a].of \in Role /\ call[a].labels \subseteq Permission
          BY <1>2, <3>1 DEF UserCalls, RoleCalls, Permission
        <4> QED
          BY <1>1, <3>1, <4>1 DEF CommitCall, AccessTypeOK
      <3>2. CASE call[a].kind # "permissions"
        BY <1>1, <3>2 DEF CommitCall, AccessTypeOK
      <3> QED
        BY <3>1, <3>2
    <2>3. groups' \in [User -> SUBSET exists']
      <3>1. CASE call[a].kind = "user"
        <4>1. call[a].of \in User /\ call[a].roles \subseteq exists
          BY <1>2, <3>1 DEF UserCalls, RoleCalls, AccessInv, RolesExist
        <4> QED
          BY <1>1, <2>1, <3>1, <4>1 DEF CommitCall, AccessTypeOK
      <3>2. CASE call[a].kind # "user"
        BY <1>1, <2>1, <3>2 DEF CommitCall, AccessTypeOK
      <3> QED
        BY <3>1, <3>2
    <2>4. call' \in [User -> Calls]
      BY <1>1, CallTypes DEF Calls
    <2> QED
      BY <2>1, <2>2, <2>3, <2>4 DEF AccessTypeOK, Calls, RoleCalls, UserCalls
  <1>4. exists \subseteq exists'
    BY DEF CommitCall
  <1>5. RolesExist'
    BY <1>1, <1>4 DEF AccessInv, RolesExist, NoCall
  <1>6. LockedRoles(a)' = {} /\ \A u \in User : ~LockedUser(a, u)'
    BY <1>1 DEF LockedRoles, LockedUser, NoCall
  \* Nobody else's user is the one whose roles are set.
  <1>7. ASSUME NEW b \in User \ {a}, call[b].kind = "user",
               call[b].phase = "checked"
        PROVE  groups'[call[b].of] = groups[call[b].of]
    <2>1. call[b].of \in User /\ LockedUser(b, call[b].of)
      BY <1>1, <1>7, CallKinds DEF UserCalls, LockedUser
    <2>2. CASE call[a].kind = "user"
      <3>1. LockedUser(a, call[a].of) /\ call[a].of \in User
        BY <1>1, <1>2, <2>2 DEF LockedUser, UserCalls, RoleCalls
      <3>2. call[a].of # call[b].of
        BY <2>1, <3>1 DEF AccessInv, UserLocksExclusive
      <3> QED
        BY <1>1, <2>1, <2>2, <3>2 DEF CommitCall, AccessTypeOK
    <2>3. CASE call[a].kind # "user"
      BY <2>3 DEF CommitCall
    <2> QED
      BY <2>2, <2>3
  <1>8. ASSUME NEW b \in User \ {a}
        PROVE  /\ LockedRoles(b)' = LockedRoles(b)
               /\ \A u \in User : LockedUser(b, u)' = LockedUser(b, u)
    <2>1. CASE call[b].kind = "user" /\ call[b].phase = "checked"
      BY <1>1, <1>7, <2>1 DEF LockedRoles, LockedUser
    <2>2. CASE ~(call[b].kind = "user" /\ call[b].phase = "checked")
      BY <1>1, <2>2 DEF LockedRoles, LockedUser
    <2> QED
      BY <2>1, <2>2
  <1>9. UserLocksExclusive'
    BY <1>6, <1>8 DEF AccessInv, UserLocksExclusive
  <1>10. RoleLocksExclusive'
    <2> SUFFICES ASSUME NEW b \in User, NEW d \in User, b # d,
                        LockedRoles(b)' \intersect LockedRoles(d)' # {}
                 PROVE  FALSE
      BY DEF RoleLocksExclusive
    <2>1. b # a /\ d # a
      BY <1>6
    <2> QED
      BY <1>8, <2>1 DEF AccessInv, RoleLocksExclusive
  <1>11. ChecksHold'
    <2> SUFFICES ASSUME NEW b \in User \ Superuser, call'[b].phase = "checked"
                 PROVE  Gift(b)' \subseteq call'[b].safe
      BY DEF ChecksHold
    <2>1. b # a /\ call'[b] = call[b] /\ call[b].phase = "checked"
      BY <1>1 DEF NoCall
    <2>2. Gift(b) \subseteq call[b].safe
      BY <2>1 DEF AccessInv, ChecksHold
    <2>3. CASE call[b].kind = "user"
      <3>1. groups'[call[b].of] = groups[call[b].of] /\ call[b] \in UserCalls
        BY <1>1, <1>7, <2>1, <2>3, CallKinds
      <3>2. ASSUME NEW r \in call[b].roles PROVE grants'[r] = grants[r]
        <4>1. CASE call[a].kind = "permissions"
          <5>1. call[a].of \in LockedRoles(a)
            BY <1>1, <4>1 DEF LockedRoles
          <5>2. r \in LockedRoles(b)
            BY <2>1, <2>3, <3>2 DEF LockedRoles
          <5>3. r # call[a].of
            BY <2>1, <5>1, <5>2 DEF AccessInv, RoleLocksExclusive
          <5>4. r \in Role
            BY <3>1, <3>2 DEF UserCalls
          <5> QED
            BY <1>1, <4>1, <5>3, <5>4 DEF CommitCall, AccessTypeOK
        <4>2. CASE call[a].kind # "permissions"
          BY <4>2 DEF CommitCall
        <4> QED
          BY <4>1, <4>2
      <3>3. Gift(b) = UNION {grants[r] : r \in call[b].roles \ groups[call[b].of]}
        BY <2>3 DEF Gift
      <3>4. Gift(b)' =
              UNION {grants'[r] : r \in call[b].roles \ groups[call[b].of]}
        BY <2>1, <2>3, <3>1 DEF Gift
      <3> QED
        BY <2>1, <2>2, <3>2, <3>3, <3>4
    <2>4. CASE call[b].kind # "user"
      BY <2>1, <2>2, <2>4 DEF Gift
    <2> QED
      BY <2>3, <2>4
  <1> QED
    BY <1>3, <1>5, <1>9, <1>10, <1>11 DEF AccessInv

-----------------------------------------------------------------------------
(***************************************************************************)
(* Theorems                                                                *)
(***************************************************************************)
LEMMA AccessInitInv == AccessInit => AccessInv
  <1> SUFFICES ASSUME AccessInit PROVE AccessInv
    OBVIOUS
  <1>1. \A a \in User : call[a] = NoCall
    BY DEF AccessInit
  <1>2. AccessTypeOK
    <2>1. call \in [User -> Calls]
      BY DEF AccessInit, Calls
    <2>2. exists \subseteq Role /\ groups \in [User -> SUBSET exists]
      BY AccessConstants DEF AccessInit, AccessConstants
    <2>3. grants \in [Role -> SUBSET Permission]
      BY AccessConstants DEF AccessInit, AccessConstants
    <2> QED
      BY <2>1, <2>2, <2>3, CallTypes
  <1>3. \A a \in User : LockedRoles(a) = {} /\ \A u \in User : ~LockedUser(a, u)
    BY <1>1 DEF LockedRoles, LockedUser, NoCall
  <1>4. RolesExist /\ ChecksHold
    BY <1>1 DEF RolesExist, ChecksHold, NoCall
  <1> QED
    BY <1>2, <1>3, <1>4 DEF AccessInv, UserLocksExclusive, RoleLocksExclusive

LEMMA AccessStep == AccessInv /\ [AccessNext]_accessVars => AccessInv'
  <1> SUFFICES ASSUME AccessInv, [AccessNext]_accessVars PROVE AccessInv'
    OBVIOUS
  <1>1. ASSUME NEW a \in User, EndWait(a) PROVE AccessInv'
    BY <1>1, DropCall DEF EndWait
  <1>2. CASE UNCHANGED accessVars
    BY <1>2
    DEF accessVars, AccessInv, AccessTypeOK, RolesExist, UserLocksExclusive,
        RoleLocksExclusive, ChecksHold, LockedUser, LockedRoles, Gift
  <1> QED
    BY <1>1, <1>2, AuthorizeKeeps, LockUserRowKeeps, LockAndCheckKeeps, CommitKeeps
    DEF AccessNext

\* Whoever comes by permissions does so by a commit.
LEMMA OnlyCommitsGive ==
  ASSUME AccessInv, [AccessNext]_accessVars, NEW u \in User,
         Assigned(u)' \ Assigned(u) # {}
  PROVE  \E a \in User : CommitCall(a)
  <1>1. grants' # grants \/ groups' # groups
    BY DEF Assigned
  <1> QED
    BY <1>1 DEF AccessNext, accessVars, Authorize, LockUserRow, LockAndCheck, EndWait

\* Only superusers make managers, whatever delegates do at the same time.
THEOREM OnlySuperusersMakeManagers == AccessSpec => SuperusersMakeManagers
  <1>1. ASSUME AccessInv, [AccessNext]_accessVars, NEW u \in User,
               Manage \in Assigned(u)' \ Assigned(u)
        PROVE  \E a \in Superuser : call[a].phase = "checked" /\ call'[a] = NoCall
    <2>1. PICK a \in User : CommitCall(a)
      BY <1>1, OnlyCommitsGive
    <2>2. call[a].phase = "checked" /\ call'[a] = NoCall
      BY <1>1, <2>1, CallTypes DEF CommitCall, AccessInv
    <2>3. Manage \in Gift(a)
      BY <1>1, <2>1, CommitGives
    <2>4. Manage \notin call[a].safe
      BY <1>1, <2>2, CallKinds, AccessConstants
      DEF AccessInv, AccessConstants, UserCalls, RoleCalls
    <2>5. a \in Superuser
      BY <1>1, <2>2, <2>3, <2>4 DEF AccessInv, ChecksHold
    <2> QED
      BY <2>2, <2>5
  <1>2. AccessInv /\ [AccessNext]_accessVars =>
          [\A u \in User :
             Manage \in Assigned(u)' \ Assigned(u) =>
               \E a \in Superuser :
                 call[a].phase = "checked" /\ call'[a] = NoCall]_accessVars
    BY <1>1
  <1> QED
    BY <1>2, AccessInitInv, AccessStep, PTL DEF AccessSpec, SuperusersMakeManagers

\* A delegate hands on no more than she held when her call was checked.
THEOREM DelegatesOnlyGiveWhatTheyHold == AccessSpec => DelegatesGiveWhatTheyHold
  <1>1. ASSUME AccessInv, [AccessNext]_accessVars, NEW a \in User \ Superuser,
               call[a].phase = "checked", call'[a] = NoCall, NEW u \in User
        PROVE  Assigned(u)' \ Assigned(u) \subseteq call[a].safe
    <2>1. CASE Assigned(u)' \ Assigned(u) = {}
      BY <2>1
    <2>2. CASE Assigned(u)' \ Assigned(u) # {}
      <3>1. PICK b \in User : CommitCall(b)
        BY <1>1, <2>2, OnlyCommitsGive
      <3>2. b = a
        BY <1>1, <3>1, CallTypes DEF CommitCall, AccessInv, NoCall
      <3> QED
        BY <1>1, <3>1, <3>2, CommitGives DEF AccessInv, ChecksHold
    <2> QED
      BY <2>1, <2>2
  <1>2. AccessInv /\ [AccessNext]_accessVars =>
          [\A a \in User \ Superuser :
             call[a].phase = "checked" /\ call'[a] = NoCall =>
               \A u \in User :
                 Assigned(u)' \ Assigned(u) \subseteq call[a].safe]_accessVars
    BY <1>1
  <1> QED
    BY <1>2, AccessInitInv, AccessStep, PTL DEF AccessSpec, DelegatesGiveWhatTheyHold

-----------------------------------------------------------------------------
(***************************************************************************)
(* What users of the posting pages are told, for any number of pages,      *)
(* requests, contents and units.                                           *)
(*                                                                         *)
(* The argument: what is posted under an identifier is never replaced, so  *)
(* what was acknowledged stays true; and an error can only come from a     *)
(* check that the page makes before the service looks the identifier up.   *)
(***************************************************************************)
\* A request that is being served belongs to a page that was opened.
PagesOpened ==
  \A r \in Client : client[r] # NoClient => form[client[r].page] \in Kind

PagesInv == PagesTypeOK /\ PagesOpened /\ AcknowledgedAsSent

-----------------------------------------------------------------------------
(***************************************************************************)
(* Lemmas                                                                  *)
(***************************************************************************)

\* A request in progress has the fields of one.
LEMMA ServedShape ==
  ASSUME PagesTypeOK, NEW r \in Client, client[r].phase # "none"
  PROVE  /\ client[r] # NoClient
         /\ client[r] \in
              [phase : {"sent", "cleaned", "answered"}, page : Page,
               content : Content, confirm : BOOLEAN,
               unit : PageUnit \union {Nothing}, told : Told \union {Nothing}]
  BY DEF PagesTypeOK, NoClient

\* What is asked is a posting, and not the lack of one.
LEMMA AskedIsPosting ==
  ASSUME PagesTypeOK, NEW r \in Client, client[r].phase # "none"
  PROVE  Asked(r) \in PagePosting /\ Asked(r) # Nothing
  <1>1. client[r].content \in Content /\ client[r].unit \in PageUnit \union {Nothing}
    BY ServedShape
  <1>2. Asked(r) \in PagePosting
    BY <1>1 DEF Asked, PagePosting
  <1> QED
    BY <1>2, PageConstants DEF PageConstants

\* A request that is not answered tells nothing.
LEMMA NothingTold ==
  ASSUME AcknowledgedAsSent, NEW r \in Client, client'[r].phase # "answered",
         posted' = posted, \A s \in Client \ {r} : client'[s] = client[s]
  PROVE  AcknowledgedAsSent'
  <1> SUFFICES ASSUME NEW s \in Client, client'[s].phase = "answered",
                      client'[s].told \in {"saved", "already saved"}
               PROVE  posted'[client'[s].page] = Asked(s)'
    BY DEF AcknowledgedAsSent
  <1>1. client'[s] = client[s]
    OBVIOUS
  <1>2. posted[client[s].page] = Asked(s)
    BY <1>1 DEF AcknowledgedAsSent
  <1>3. Asked(s)' = Asked(s)
    BY <1>1 DEF Asked
  <1> QED
    BY <1>1, <1>2, <1>3

\* An answer changes the request it answers and no posting; it keeps the
\* invariant if what it says is true.
LEMMA TellKeeps ==
  ASSUME PagesInv, NEW r \in Client, client[r].phase \in {"sent", "cleaned"},
         NEW answer \in Told, Tell(r, answer),
         form' = form, usable' = usable, unitNow' = unitNow,
         previewed' \in [Page -> SUBSET Content],
         posted' \in [Page -> PagePosting \union {Nothing}],
         \A p \in Page : posted[p] # Nothing => posted'[p] = posted[p],
         answer \in {"saved", "already saved"} =>
           posted'[client[r].page] = Asked(r)
  PROVE  PagesInv'
  <1>1. client' = [client EXCEPT ![r] =
                     [client[r] EXCEPT !.phase = "answered", !.told = answer]]
    BY DEF Tell, PagesInv, PagesTypeOK
  <1>2. client[r].phase # "none" /\ client[r] # NoClient
    BY ServedShape DEF PagesInv
  <1>3. client[r] \in
          [phase : {"sent", "cleaned", "answered"}, page : Page,
           content : Content, confirm : BOOLEAN,
           unit : PageUnit \union {Nothing}, told : Told \union {Nothing}]
    BY <1>2, ServedShape DEF PagesInv
  <1>4. /\ client'[r].phase = "answered" /\ client'[r].told = answer
        /\ client'[r].page = client[r].page /\ client'[r].page \in Page
        /\ Asked(r)' = Asked(r)
        /\ \A s \in Client \ {r} : client'[s] = client[s]
    BY <1>1, <1>3 DEF PagesInv, PagesTypeOK, Asked
  <1>5. PagesTypeOK'
    <2>1. client'[r] \in
            [phase : {"sent", "cleaned", "answered"}, page : Page,
             content : Content, confirm : BOOLEAN,
             unit : PageUnit \union {Nothing}, told : Told \union {Nothing}]
      BY <1>1, <1>3 DEF PagesInv, PagesTypeOK
    <2> QED
      BY <1>1, <2>1 DEF PagesInv, PagesTypeOK
  <1>6. PagesOpened'
    BY <1>2, <1>4 DEF PagesInv, PagesOpened
  <1>7. ASSUME NEW s \in Client, client'[s].phase = "answered",
               client'[s].told \in {"saved", "already saved"}
        PROVE  posted'[client'[s].page] = Asked(s)'
    <2>1. CASE s = r
      BY <1>4, <1>7, <2>1
    <2>2. CASE s # r
      <3>1. client'[s] = client[s] /\ Asked(s)' = Asked(s)
        BY <1>4, <2>2 DEF Asked
      <3>2. posted[client[s].page] = Asked(s) /\ client[s].phase # "none"
        BY <1>7, <3>1 DEF PagesInv, AcknowledgedAsSent
      <3>3. Asked(s) # Nothing /\ client[s].page \in Page
        BY <3>2, AskedIsPosting, ServedShape DEF PagesInv
      <3> QED
        BY <3>1, <3>2, <3>3
    <2> QED
      BY <2>1, <2>2
  <1> QED
    BY <1>5, <1>6, <1>7 DEF PagesInv, AcknowledgedAsSent

LEMMA HandleKeeps ==
  ASSUME PagesInv, NEW r \in Client, Handle(r)
  PROVE  PagesInv'
  <1>t. PagesTypeOK
    BY DEF PagesInv
  <1>u. ASSUME UNCHANGED <<form, previewed, posted, usable, unitNow>>,
               NEW answer \in Told, Tell(r, answer),
               client[r].phase \in {"sent", "cleaned"},
               answer \in {"saved", "already saved"} =>
                 posted[client[r].page] = Asked(r)
        PROVE  PagesInv'
    BY <1>t, <1>u, TellKeeps DEF PagesTypeOK
  <1>1. CASE RejectForm(r)
    BY <1>1, <1>u DEF RejectForm, Told, Error
  <1>2. CASE AcceptForm(r)
    <2>1. client[r].phase = "sent" /\ client[r] # NoClient
      BY <1>2, <1>t, ServedShape DEF AcceptForm
    <2>2. PICK v \in PageUnit \union {Nothing} :
            client' = [client EXCEPT ![r] =
                         [client[r] EXCEPT !.phase = "cleaned", !.unit = v]]
      BY <1>2, <1>t DEF AcceptForm, PagesTypeOK
    <2>3. client[r] \in
            [phase : {"sent", "cleaned", "answered"}, page : Page,
             content : Content, confirm : BOOLEAN,
             unit : PageUnit \union {Nothing}, told : Told \union {Nothing}]
      BY <1>t, <2>1, ServedShape
    <2>4. /\ client'[r] \in
              [phase : {"sent", "cleaned", "answered"}, page : Page,
               content : Content, confirm : BOOLEAN,
               unit : PageUnit \union {Nothing}, told : Told \union {Nothing}]
          /\ client'[r].phase = "cleaned" /\ client'[r].page = client[r].page
          /\ \A s \in Client \ {r} : client'[s] = client[s]
      BY <1>t, <2>2, <2>3 DEF PagesTypeOK
    <2>5. UNCHANGED <<form, previewed, posted, usable, unitNow>>
      BY <1>2 DEF AcceptForm
    <2>6. PagesTypeOK'
      BY <1>t, <2>2, <2>4, <2>5 DEF PagesTypeOK
    <2>7. PagesOpened'
      BY <2>1, <2>4, <2>5 DEF PagesInv, PagesOpened
    <2>8. AcknowledgedAsSent'
      BY <2>4, <2>5, NothingTold DEF PagesInv
    <2> QED
      BY <2>6, <2>7, <2>8 DEF PagesInv
  <1>3. CASE Repeat(r)
    BY <1>3, <1>u DEF Repeat, SameAsPosted, Told, Error
  <1>4. CASE Post(r)
    <2>1. client[r].phase = "cleaned" /\ posted[client[r].page] = Nothing
      BY <1>4 DEF Post, NotPosted
    <2>2. client[r].page \in Page /\ Asked(r) \in PagePosting
      BY <1>t, <2>1, ServedShape, AskedIsPosting
    <2>3. posted' = [posted EXCEPT ![client[r].page] = Asked(r)]
      BY <1>4 DEF Post
    <2>4. /\ posted' \in [Page -> PagePosting \union {Nothing}]
          /\ posted'[client[r].page] = Asked(r)
          /\ \A p \in Page : posted[p] # Nothing => posted'[p] = posted[p]
      BY <1>t, <2>1, <2>2, <2>3 DEF PagesTypeOK
    <2>5. /\ Tell(r, "saved") /\ "saved" \in Told
          /\ form' = form /\ usable' = usable /\ unitNow' = unitNow
          /\ previewed' \in [Page -> SUBSET Content]
      BY <1>4, <1>t DEF Post, Told, PagesTypeOK
    <2> QED
      BY <2>1, <2>4, <2>5, TellKeeps
  <1>5. CASE Refuse(r)
    BY <1>5, <1>u DEF Refuse, Told, Error
  <1>6. CASE Deny(r)
    BY <1>6, <1>u DEF Deny, Told, Error
  <1> QED
    BY <1>1, <1>2, <1>3, <1>4, <1>5, <1>6 DEF Handle

LEMMA PreviewKeeps ==
  ASSUME PagesInv, NEW r \in Client, ToPreview(r), Preview(r)
  PROVE  PagesInv'
  <1>1. client[r].phase = "sent" /\ PagesTypeOK
    BY DEF ToPreview, PagesInv
  <1>2. client[r].page \in Page /\ client[r].content \in Content
    BY <1>1, ServedShape
  <1>3. /\ previewed' \in [Page -> SUBSET Content]
        /\ Tell(r, "preview") /\ "preview" \in Told
        /\ form' = form /\ posted' = posted /\ usable' = usable /\ unitNow' = unitNow
        /\ posted' \in [Page -> PagePosting \union {Nothing}]
    BY <1>1, <1>2 DEF Preview, PagesTypeOK, Told
  <1> QED
    BY <1>1, <1>3, TellKeeps

\* A view handles a request, or shows the preview.
LEMMA ViewsHandle ==
  ASSUME NEW r \in Client,
         \/ ReceiptCreateView(r) \/ IssueCreateView(r) \/ ReturnCreateView(r)
         \/ TransferCreateView(r) \/ SerializedReceiptCreateView(r)
         \/ SerializedIssueCreateView(r) \/ SerializedReturnCreateView(r)
         \/ SerializedTransferCreateView(r)
  PROVE  Handle(r) \/ (ToPreview(r) /\ Preview(r))
  <1>1. CASE ReceiptCreateView(r)
    <2>1. \/ ToPreview(r) /\ (RejectForm(r) \/ Preview(r) \/ Deny(r))
          \/ Handle(r)
      BY <1>1 DEF ReceiptCreateView
    <2> QED
      BY <2>1 DEF Handle
  <1>2. CASE ~ReceiptCreateView(r)
    BY <1>2 DEF IssueCreateView, ReturnCreateView, TransferCreateView,
                SerializedReceiptCreateView, SerializedIssueCreateView,
                SerializedReturnCreateView, SerializedTransferCreateView
  <1> QED
    BY <1>1, <1>2

-----------------------------------------------------------------------------
(***************************************************************************)
(* Theorems                                                                *)
(***************************************************************************)
LEMMA PagesInitInv == PagesInit => PagesInv
  <1> SUFFICES ASSUME PagesInit PROVE PagesInv
    OBVIOUS
  <1>1. unitNow \in PageUnit
    BY PageConstants DEF PagesInit, PageConstants
  <1>2. PagesTypeOK
    BY <1>1 DEF PagesInit, PagesTypeOK
  <1>3. \A r \in Client : client[r] = NoClient
    BY DEF PagesInit
  <1>4. \A r \in Client : client[r].phase # "answered"
    BY <1>3 DEF NoClient
  <1> QED
    BY <1>2, <1>3, <1>4 DEF PagesInv, PagesOpened, AcknowledgedAsSent

LEMMA PagesStep == PagesInv /\ [PagesNext]_pageVars => PagesInv'
  <1> SUFFICES ASSUME PagesInv, [PagesNext]_pageVars PROVE PagesInv'
    OBVIOUS
  <1>t. PagesTypeOK
    BY DEF PagesInv
  <1>1. ASSUME NEW p \in Page, NEW k \in Kind, Open(p, k) PROVE PagesInv'
    <2>1. /\ form' = [form EXCEPT ![p] = k] /\ form[p] = Nothing
          /\ UNCHANGED <<previewed, posted, client, usable, unitNow>>
      BY <1>1 DEF Open
    <2>2. PagesTypeOK'
      BY <1>t, <2>1 DEF PagesTypeOK
    <2>3. PagesOpened'
      <3>1. \A q \in Page : form'[q] = form[q] \/ form'[q] \in Kind
        BY <1>t, <2>1 DEF PagesTypeOK
      <3>2. \A r \in Client : client[r] # NoClient => client[r].page \in Page
        BY <1>t DEF PagesTypeOK
      <3> QED
        BY <2>1, <3>1, <3>2 DEF PagesInv, PagesOpened
    <2>4. AcknowledgedAsSent'
      BY <2>1 DEF PagesInv, AcknowledgedAsSent, Asked
    <2> QED
      BY <2>2, <2>3, <2>4 DEF PagesInv
  <1>2. ASSUME NEW r \in Client, NEW p \in Page, NEW c \in Content,
               NEW confirm \in BOOLEAN, Send(r, p, c, confirm)
        PROVE  PagesInv'
    <2>1. /\ client' = [client EXCEPT ![r] = Sent(p, c, confirm)]
          /\ form[p] # Nothing
          /\ UNCHANGED <<form, previewed, posted, usable, unitNow>>
      BY <1>2 DEF Send
    <2>2. /\ client'[r] = Sent(p, c, confirm)
          /\ \A s \in Client \ {r} : client'[s] = client[s]
      BY <1>t, <2>1 DEF PagesTypeOK
    <2>3. PagesTypeOK'
      BY <1>t, <2>1 DEF PagesTypeOK, Sent
    <2>4. form[p] \in Kind
      BY <1>t, <2>1 DEF PagesTypeOK
    <2>5. PagesOpened'
      BY <2>1, <2>2, <2>4 DEF PagesInv, PagesOpened, Sent
    <2>6. AcknowledgedAsSent'
      <3>1. client'[r].phase # "answered"
        BY <2>2 DEF Sent
      <3> QED
        BY <2>1, <2>2, <3>1, NothingTold DEF PagesInv
    <2> QED
      BY <2>3, <2>5, <2>6 DEF PagesInv
  <1>3. ASSUME NEW r \in Client, Leave(r) PROVE PagesInv'
    <2>1. /\ client' = [client EXCEPT ![r] = NoClient]
          /\ UNCHANGED <<form, previewed, posted, usable, unitNow>>
      BY <1>3 DEF Leave
    <2>2. /\ client'[r] = NoClient
          /\ \A s \in Client \ {r} : client'[s] = client[s]
      BY <1>t, <2>1 DEF PagesTypeOK
    <2>3. PagesTypeOK'
      BY <1>t, <2>1 DEF PagesTypeOK
    <2>4. PagesOpened'
      BY <2>1, <2>2 DEF PagesInv, PagesOpened
    <2>5. AcknowledgedAsSent'
      <3>1. client'[r].phase # "answered"
        BY <2>2 DEF NoClient
      <3> QED
        BY <2>1, <2>2, <3>1, NothingTold DEF PagesInv
    <2> QED
      BY <2>3, <2>4, <2>5 DEF PagesInv
  <1>4. ASSUME NEW r \in Client, Handle(r) \/ (ToPreview(r) /\ Preview(r))
        PROVE  PagesInv'
    BY <1>4, HandleKeeps, PreviewKeeps
  <1>5. ASSUME UNCHANGED <<form, previewed, posted, client>>,
               usable' \subseteq ChosenRow, unitNow' \in PageUnit
        PROVE  PagesInv'
    BY <1>5 DEF PagesInv, PagesTypeOK, PagesOpened, AcknowledgedAsSent, Asked
  <1>6. ASSUME NEW row \in ChosenRow, SetRowActive(row) PROVE PagesInv'
    BY <1>t, <1>5, <1>6 DEF SetRowActive, PagesTypeOK
  <1>7. ASSUME NEW u \in PageUnit, ChangeMaterialUnit(u) PROVE PagesInv'
    BY <1>t, <1>5, <1>7 DEF ChangeMaterialUnit, PagesTypeOK
  <1>8. CASE UNCHANGED pageVars
    BY <1>t, <1>5, <1>8 DEF pageVars, PagesTypeOK
  <1> QED
    BY <1>1, <1>2, <1>3, <1>4, <1>6, <1>7, <1>8, ViewsHandle DEF PagesNext

\* Whatever is sent twice, late or with other contents from one page: who reads
\* that something is saved reads of what she has sent.
THEOREM AcknowledgementsAreTrue == PagesSpec => []AcknowledgedAsSent
  <1>1. PagesInv => AcknowledgedAsSent
    BY DEF PagesInv
  <1> QED
    BY <1>1, PagesInitInv, PagesStep, PTL DEF PagesSpec

\* Who sends again what has been posted reads no error, but for the forms and
\* units that the property names.
THEOREM RetriesStayAcknowledged == PagesSpec => RetriesAreAcknowledged
  <1> DEFINE Excused(r) ==
        LET p == client[r].page
        IN  \/ NotPosted(r)
            \/ posted[p].content # client[r].content
            \/ ~(Forms[form[p]].strict \subseteq usable)
            \/ client[r].phase = "cleaned" /\ posted[p].unit # client[r].unit
            \/ form[p] = "assetReceipt"
  <1>1. ASSUME PagesInv, [PagesNext]_pageVars, NEW r \in Client, Answered(r),
               client'[r].told \in Error
        PROVE  Excused(r)
    <2>t. /\ PagesTypeOK
          /\ client[r].phase \in {"sent", "cleaned"}
          /\ client'[r].phase = "answered"
      BY <1>1 DEF PagesInv, Answered
    <2>1. ASSUME NEW s \in Client, NEW answer, Tell(s, answer)
          PROVE  s = r /\ client'[r].told = answer
      <3>1. client' = [client EXCEPT ![s] =
                         [client[s] EXCEPT !.phase = "answered", !.told = answer]]
        BY <2>1, <2>t DEF Tell, PagesTypeOK
      <3>2. s # r => client'[r] = client[r]
        BY <2>t, <3>1 DEF PagesTypeOK
      <3>3. s = r
        BY <2>t, <3>2
      <3>4. client[r] \in
              [phase : {"sent", "cleaned", "answered"}, page : Page,
               content : Content, confirm : BOOLEAN,
               unit : PageUnit \union {Nothing}, told : Told \union {Nothing}]
        BY <2>t, ServedShape
      <3> QED
        BY <2>t, <3>1, <3>3, <3>4 DEF PagesTypeOK
    <2>2. ASSUME NEW s \in Client, RejectForm(s) PROVE Excused(r)
      <3>1. s = r /\ ~Valid(r)
        BY <2>1, <2>2 DEF RejectForm
      <3> QED
        BY <3>1 DEF Valid
    <2>3. ASSUME NEW s \in Client, Repeat(s) PROVE Excused(r)
      <3>1. /\ s = r
            /\ client[r].phase = "cleaned"
            /\ posted[client[r].page] # Nothing
            /\ ~SameAsPosted(r)
        <4>1. Tell(s, IF SameAsPosted(s) THEN "already saved" ELSE "conflict")
          BY <2>3 DEF Repeat
        <4>2. /\ s = r
              /\ client'[r].told = IF SameAsPosted(s) THEN "already saved"
                                                     ELSE "conflict"
          BY <2>1, <4>1
        <4>3. ~SameAsPosted(s)
          BY <1>1, <4>2 DEF Error
        <4> QED
          BY <2>3, <4>2, <4>3 DEF Repeat, NotPosted
      <3>2. /\ client[r].page \in Page
            /\ posted[client[r].page] \in PagePosting
            /\ posted[client[r].page] # Asked(r)
        BY <2>t, <3>1, ServedShape DEF PagesTypeOK, SameAsPosted
      <3>3. \/ posted[client[r].page].content # client[r].content
            \/ posted[client[r].page].unit # client[r].unit
        BY <3>2 DEF PagePosting, Asked
      <3> QED
        BY <3>1, <3>3
    <2>4. ASSUME NEW s \in Client, Refuse(s) PROVE Excused(r)
      BY <2>1, <2>4 DEF Refuse, MayRefuse
    <2>5. ASSUME NEW s \in Client, Post(s) \/ Deny(s) \/ Preview(s) PROVE FALSE
      BY <1>1, <2>1, <2>5 DEF Post, Deny, Preview, Error
    <2>6. ASSUME NEW s \in Client, AcceptForm(s) PROVE FALSE
      <3>1. PICK v : client' = [client EXCEPT ![s] =
                         [client[s] EXCEPT !.phase = "cleaned", !.unit = v]]
        BY <2>6, <2>t DEF AcceptForm, PagesTypeOK
      <3>2. client[s] # NoClient /\ client[s].phase = "sent"
        BY <2>6, <2>t, ServedShape DEF AcceptForm
      <3>3. client'[r] = client[r] \/ client'[r].phase = "cleaned"
        BY <2>t, <3>1, <3>2, ServedShape DEF PagesTypeOK
      <3> QED
        BY <2>t, <3>3
    <2>7. ASSUME NEW s \in Client, Handle(s) \/ (ToPreview(s) /\ Preview(s))
          PROVE  Excused(r)
      BY <2>2, <2>3, <2>4, <2>5, <2>6, <2>7 DEF Handle
    <2>8. ASSUME NEW s \in Client, NEW p \in Page, NEW c \in Content,
                 NEW confirm \in BOOLEAN, Send(s, p, c, confirm) \/ Leave(s)
          PROVE  FALSE
      BY <2>t, <2>8 DEF Send, Leave, Sent, NoClient, PagesTypeOK
    <2>9. client' # client
      BY <2>t
    <2>10. ASSUME NEW s \in Client, Leave(s) PROVE FALSE
      BY <2>t, <2>10 DEF Leave, NoClient, PagesTypeOK
    <2> QED
      BY <1>1, <2>7, <2>8, <2>9, <2>10, ViewsHandle
      DEF PagesNext, pageVars, Open, SetRowActive, ChangeMaterialUnit
  <1>2. PagesInv /\ [PagesNext]_pageVars =>
          [\A r \in Client :
             Answered(r) /\ client'[r].told \in Error => Excused(r)]_pageVars
    BY <1>1
  <1> QED
    BY <1>2, PagesInitInv, PagesStep, PTL DEF PagesSpec, RetriesAreAcknowledged

-----------------------------------------------------------------------------
(***************************************************************************)
(* What the trails of employees tell, for any number of clerks, employees, *)
(* numbers and handovers.                                                  *)
(*                                                                         *)
(* The argument: a row is locked by one call at a time, so what a call has *)
(* read of it is what it finds when it writes (DutiesCurrent): the event   *)
(* that it appends starts where the trail ended.                           *)
(***************************************************************************)
EditDuty == [kind : {"edit"}, of : EmployeeRow, seen : Person \union {NoRow}, after : Person]
IssueDuty == [kind : {"issue"}, of : EmployeeRow, seen : Person, as : Handover]

\* A row that a call has locked is as the call has read it, and it has it to itself.
DutiesCurrent ==
  /\ \A c \in Clerk : duty[c] # NoDuty => duty[c].seen = employee[duty[c].of]
  /\ \A c \in Clerk : duty[c].kind = "edit" =>
       /\ duty[c].after # duty[c].seen
       /\ duty[c].seen # NoRow => duty[c].after.active = duty[c].seen.active
       /\ Len(trail[duty[c].of]) < MaxEvents
  /\ \A c \in Clerk : duty[c].kind = "issue" => duty[c].seen.active
  /\ \A c, d \in Clerk :
       duty[c] # NoDuty /\ duty[d] # NoDuty /\ duty[c].of = duty[d].of => c = d

EmployeeTyping ==
  /\ EmployeeTypeOK
  /\ trail \in [EmployeeRow -> Seq(Event)]

EmployeesInv == EmployeeTyping /\ DutiesCurrent /\ TrailReplays

\* The trail t tells how the row came to be what it is.
Tells(t, row) ==
  /\ Len(t) = 0 => row = NoRow
  /\ Len(t) > 0 => t[Len(t)].after = row
  /\ \A i \in 1 .. Len(t) :
       /\ t[i].before = IF i = 1 THEN NoRow ELSE t[i - 1].after
       /\ t[i].after # t[i].before

AllTrailsTell == \A e \in EmployeeRow : Tells(trail[e], employee[e])

\* TrailReplays says so of each trail, without a recursion over it.
LEMMA TrailsTell == EmployeeTyping => (TrailReplays <=> AllTrailsTell)
  <1> SUFFICES ASSUME EmployeeTyping, NEW e \in EmployeeRow
               PROVE  LET t == trail[e]
                          at == [i \in 0 .. Len(t) |-> IF i = 0 THEN NoRow ELSE t[i].after]
                      IN  (/\ \A i \in DOMAIN t : t[i].before = at[i - 1] /\ t[i].after # t[i].before
                           /\ at[Len(t)] = employee[e])
                          <=> Tells(t, employee[e])
    BY DEF TrailReplays, AllTrailsTell
  <1> DEFINE t == trail[e]
             at == [i \in 0 .. Len(t) |-> IF i = 0 THEN NoRow ELSE t[i].after]
  <1>1. Len(t) \in Nat /\ DOMAIN t = 1 .. Len(t)
    BY DEF EmployeeTyping
  <1>2. at[Len(t)] = IF Len(t) = 0 THEN NoRow ELSE t[Len(t)].after
    BY <1>1
  <1>3. \A i \in 1 .. Len(t) : at[i - 1] = IF i = 1 THEN NoRow ELSE t[i - 1].after
    BY <1>1
  <1> HIDE DEF t, at
  <1>4. (\A i \in DOMAIN t : t[i].before = at[i - 1] /\ t[i].after # t[i].before)
        <=> \A i \in 1 .. Len(t) :
              /\ t[i].before = IF i = 1 THEN NoRow ELSE t[i - 1].after
              /\ t[i].after # t[i].before
    BY <1>1, <1>3
  <1>5. at[Len(t)] = employee[e] <=> /\ Len(t) = 0 => employee[e] = NoRow
                                     /\ Len(t) > 0 => t[Len(t)].after = employee[e]
    BY <1>1, <1>2
  <1>6. (/\ \A i \in DOMAIN t : t[i].before = at[i - 1] /\ t[i].after # t[i].before
         /\ at[Len(t)] = employee[e])
        <=> Tells(t, employee[e])
    BY <1>4, <1>5 DEF Tells
  <1> QED
    BY <1>6 DEF t, at

\* A trail goes on where it ended.
LEMMA TrailGoesOn ==
  ASSUME NEW t \in Seq(Event), NEW row, Tells(t, row),
         NEW after \in Person, row \in Person \union {NoRow}, after # row
  PROVE  Tells(Append(t, [before |-> row, after |-> after]), after)
  <1> DEFINE ev == [before |-> row, after |-> after]
             u == Append(t, ev)
  <1>1. ev \in Event /\ ev.before = row /\ ev.after = after
    BY DEF Event
  <1> HIDE DEF ev
  <1>2. /\ Len(t) \in Nat /\ Len(u) = Len(t) + 1
        /\ \A i \in 1 .. Len(t) : u[i] = t[i]
        /\ u[Len(t) + 1] = ev
    BY <1>1, AppendProperties
  <1> HIDE DEF u
  <1>3. ASSUME NEW i \in 1 .. Len(u)
        PROVE  /\ u[i].before = IF i = 1 THEN NoRow ELSE u[i - 1].after
               /\ u[i].after # u[i].before
    <2>1. CASE i \in 1 .. Len(t)
      <3>1. i # 1 => i - 1 \in 1 .. Len(t)
        BY <2>1, <1>2
      <3> QED
        BY <2>1, <3>1, <1>2 DEF Tells
    <2>2. CASE i = Len(t) + 1
      <3>1. i # 1 => i - 1 = Len(t) /\ Len(t) \in 1 .. Len(t)
        BY <2>2, <1>2
      <3>2. i = 1 => Len(t) = 0
        BY <2>2, <1>2
      <3> QED
        BY <2>2, <3>1, <3>2, <1>1, <1>2 DEF Tells
    <2> QED
      BY <2>1, <2>2, <1>2
  <1> QED
    BY <1>1, <1>2, <1>3 DEF Tells, u, ev

\* One row is written and its event recorded; the calls at other rows go on.
LEMMA WriteKeepsTrails ==
  ASSUME EmployeesInv, NEW e \in EmployeeRow, NEW after \in Person,
         after # employee[e], employee' = [employee EXCEPT ![e] = after],
         Recorded(e, employee[e], after), EmployeeTyping'
  PROVE  TrailReplays'
  <1>1. \A o \in EmployeeRow : Tells(trail[o], employee[o])
    BY TrailsTell DEF EmployeesInv, AllTrailsTell
  <1>2. /\ trail[e] \in Seq(Event) /\ employee[e] \in Person \union {NoRow}
        /\ employee'[e] = after
        /\ trail'[e] = Append(trail[e], [before |-> employee[e], after |-> after])
        /\ \A o \in EmployeeRow \ {e} : trail'[o] = trail[o] /\ employee'[o] = employee[o]
    BY DEF EmployeesInv, EmployeeTyping, EmployeeTypeOK, Recorded
  <1>3. Tells(trail'[e], employee'[e])
    BY <1>1, <1>2, TrailGoesOn
  <1>4. \A o \in EmployeeRow : Tells(trail'[o], employee'[o])
    BY <1>1, <1>2, <1>3
  <1>5. (EmployeeTyping => (TrailReplays <=> AllTrailsTell))'
    BY TrailsTell, PTL
  <1> QED
    BY <1>4, <1>5 DEF AllTrailsTell

\* What a call in progress may be.
LEMMA DutyKinds ==
  ASSUME EmployeeTyping, NEW c \in Clerk
  PROVE  /\ duty[c].kind = "edit" => duty[c] \in EditDuty
         /\ duty[c].kind = "issue" => duty[c] \in IssueDuty
         /\ duty[c] # NoDuty => duty[c].kind \in {"edit", "issue"} /\ duty[c].of \in EmployeeRow
         /\ NoDuty.kind = "none"
  BY DEF EmployeeTyping, EmployeeTypeOK, EditDuty, IssueDuty, NoDuty

\* A call that ends, having written row e or nothing, disturbs no other call.
LEMMA EndingKeepsDuties ==
  ASSUME EmployeesInv, NEW e \in EmployeeRow,
         \A d \in Clerk : duty'[d] # NoDuty => duty'[d] = duty[d] /\ duty[d].of # e,
         \A o \in EmployeeRow \ {e} : employee'[o] = employee[o] /\ trail'[o] = trail[o]
  PROVE  DutiesCurrent'
  <1>1. \A d \in Clerk : duty'[d] # NoDuty =>
          /\ duty'[d] = duty[d] /\ duty[d].of \in EmployeeRow \ {e}
          /\ employee'[duty[d].of] = employee[duty[d].of]
          /\ trail'[duty[d].of] = trail[duty[d].of]
    BY DutyKinds DEF EmployeesInv
  <1>2. NoDuty.kind = "none"
    BY DEF NoDuty
  <1>3. \A d \in Clerk : duty'[d].kind \in {"edit", "issue"} => duty'[d] # NoDuty
    BY <1>2
  <1> QED
    BY <1>1, <1>3 DEF EmployeesInv, DutiesCurrent

\* A call that begins at a row nobody has locked disturbs no other call.
LEMMA BeginningKeepsDuties ==
  ASSUME EmployeesInv, NEW c \in Clerk, NEW e \in EmployeeRow, NEW new,
         RowUnlocked(e), duty' = [duty EXCEPT ![c] = new],
         UNCHANGED <<employee, trail>>,
         new.of = e, new.seen = employee[e],
         new.kind = "edit" => /\ new.after # new.seen
                              /\ new.seen # NoRow => new.after.active = new.seen.active
                              /\ Len(trail[e]) < MaxEvents,
         new.kind = "issue" => new.seen.active
  PROVE  DutiesCurrent'
  <1>1. /\ duty'[c] = new
        /\ \A d \in Clerk \ {c} : duty'[d] = duty[d] /\ duty[d].of # e
    BY DEF EmployeesInv, EmployeeTyping, EmployeeTypeOK, RowUnlocked
  <1> QED
    BY <1>1 DEF EmployeesInv, DutiesCurrent

\* Writing a row and recording it keeps the types.
LEMMA WriteKeepsTyping ==
  ASSUME EmployeesInv, NEW e \in EmployeeRow, NEW after \in Person,
         Len(trail[e]) < MaxEvents, employee' = [employee EXCEPT ![e] = after],
         Recorded(e, employee[e], after), UNCHANGED handed,
         \A d \in Clerk : duty'[d] = duty[d] \/ duty'[d] = NoDuty,
         duty' = [d \in Clerk |-> duty'[d]]
  PROVE  EmployeeTyping'
  <1> DEFINE ev == [before |-> employee[e], after |-> after]
  <1>1. /\ employee[e] \in Person \union {NoRow} /\ trail[e] \in Seq(Event)
        /\ trail \in [EmployeeRow -> Seq(Event)] /\ MaxEvents \in Nat
    BY EmployeeConstants DEF EmployeesInv, EmployeeTyping, EmployeeTypeOK, EmployeeConstants
  <1>2. ev \in Event
    BY <1>1 DEF Event
  <1> HIDE DEF ev
  <1>3. Append(trail[e], ev) \in Seq(Event) /\ Len(Append(trail[e], ev)) <= MaxEvents
    BY <1>1, <1>2, AppendProperties
  <1>4. /\ trail' \in [EmployeeRow -> Seq(Event)]
        /\ trail'[e] = Append(trail[e], ev)
        /\ \A o \in EmployeeRow \ {e} : trail'[o] = trail[o]
    BY <1>1, <1>3 DEF Recorded, ev
  <1>5. \A o \in EmployeeRow : Len(trail'[o]) <= MaxEvents
    BY <1>3, <1>4 DEF EmployeesInv, EmployeeTyping, EmployeeTypeOK
  <1>6. \A o \in EmployeeRow : \A i \in DOMAIN trail'[o] : trail'[o][i] \in Event
    BY <1>4
  <1>7. employee' \in [EmployeeRow -> Person \union {NoRow}]
    BY DEF EmployeesInv, EmployeeTyping, EmployeeTypeOK
  <1>8. duty' \in [Clerk -> {NoDuty} \union EditDuty \union IssueDuty]
    BY DEF EmployeesInv, EmployeeTyping, EmployeeTypeOK, EditDuty, IssueDuty
  <1> QED
    BY <1>4, <1>5, <1>6, <1>7, <1>8
    DEF EmployeesInv, EmployeeTyping, EmployeeTypeOK, EditDuty, IssueDuty

\* A step that only begins or ends calls and issues keeps types and trails.
LEMMA QuietKeeps ==
  ASSUME EmployeesInv, UNCHANGED <<employee, trail>>, DutiesCurrent',
         handed' \in [Handover -> [to : EmployeeRow, number : PersonNumber] \union {NoRow}],
         duty' \in [Clerk -> {NoDuty} \union EditDuty \union IssueDuty]
  PROVE  EmployeesInv'
  <1>1. EmployeeTyping'
    BY DEF EmployeesInv, EmployeeTyping, EmployeeTypeOK, EditDuty, IssueDuty
  <1>2. TrailReplays'
    <2>1. employee' = employee /\ trail' = trail
      OBVIOUS
    <2>2. AllTrailsTell
      BY TrailsTell DEF EmployeesInv
    <2>3. AllTrailsTell'
      BY <2>1, <2>2 DEF AllTrailsTell
    <2>4. (EmployeeTyping => (TrailReplays <=> AllTrailsTell))'
      BY TrailsTell, PTL
    <2> QED
      BY <1>1, <2>3, <2>4
  <1> QED
    BY <1>1, <1>2 DEF EmployeesInv

\* A call that locks a free row and reads it keeps the invariant.
LEMMA BeginningKeeps ==
  ASSUME EmployeesInv, NEW c \in Clerk, NEW e \in EmployeeRow, NEW new \in EditDuty \union IssueDuty,
         RowUnlocked(e), duty' = [duty EXCEPT ![c] = new],
         UNCHANGED <<employee, trail, handed>>,
         new.of = e, new.seen = employee[e],
         new.kind = "edit" => /\ new.after # new.seen
                              /\ new.seen # NoRow => new.after.active = new.seen.active
                              /\ Len(trail[e]) < MaxEvents,
         new.kind = "issue" => new.seen.active
  PROVE  EmployeesInv'
  <1>1. DutiesCurrent'
    BY BeginningKeepsDuties
  <1>2. duty' \in [Clerk -> {NoDuty} \union EditDuty \union IssueDuty]
    BY DEF EmployeesInv, EmployeeTyping, EmployeeTypeOK, EditDuty, IssueDuty
  <1>3. handed' \in [Handover -> [to : EmployeeRow, number : PersonNumber] \union {NoRow}]
    BY DEF EmployeesInv, EmployeeTyping, EmployeeTypeOK
  <1> QED
    BY <1>1, <1>2, <1>3, QuietKeeps

\* Every step keeps the invariant.
LEMMA EmployeeStepKeeps ==
  ASSUME EmployeesInv, [EmployeesNext]_employeeVars
  PROVE  EmployeesInv'
  <1> USE DEF EmployeesInv
  <1>1. ASSUME NEW c \in Clerk, NEW e \in EmployeeRow, CheckCreateEmployee(c, e)
        PROVE  EmployeesInv'
    <2>1. PICK person \in [number : PersonNumber, user : Login \union {NoRow}, active : {TRUE}] :
            duty' = [duty EXCEPT ![c] = EditOf(e, person)]
      BY <1>1 DEF CheckCreateEmployee
    <2>2. person \in Person /\ person # NoRow
      BY NoRowIsNobody DEF NoRowIsNobody, Person
    <2>3. /\ employee[e] = NoRow /\ RowUnlocked(e) /\ MaxEvents > 0
          /\ UNCHANGED <<employee, trail, handed>>
      BY <1>1 DEF CheckCreateEmployee
    <2> DEFINE new == EditOf(e, person)
    <2>4. /\ new \in EditDuty /\ new.kind = "edit" /\ new.of = e /\ new.seen = NoRow
          /\ new.after = person
      BY <2>2, <2>3 DEF EditOf, EditDuty
    <2>5. Len(trail[e]) < MaxEvents
      <3>1. Tells(trail[e], NoRow)
        BY <2>3, TrailsTell DEF AllTrailsTell
      <3>2. trail[e] \in Seq(Event)
        BY DEF EmployeeTyping
      <3>3. Len(trail[e]) > 0 => trail[e][Len(trail[e])] \in Event
        BY <3>2
      <3>4. Len(trail[e]) = 0
        BY <3>1, <3>2, <3>3, NoRowIsNobody DEF NoRowIsNobody, Event, Tells
      <3> QED
        BY <2>3, <3>4
    <2> HIDE DEF new
    <2>6. duty' = [duty EXCEPT ![c] = new]
      BY <2>1 DEF new
    <2> QED
      BY <2>2, <2>3, <2>4, <2>5, <2>6, BeginningKeeps
  <1>2. ASSUME NEW c \in Clerk, NEW e \in EmployeeRow, CheckUpdateEmployee(c, e)
        PROVE  EmployeesInv'
    <2>1. PICK n \in PersonNumber, u \in Login \union {NoRow} :
            LET after == [employee[e] EXCEPT !.number = n, !.user = u]
            IN  /\ after # employee[e]
                /\ duty' = [duty EXCEPT ![c] = EditOf(e, after)]
      BY <1>2 DEF CheckUpdateEmployee
    <2>2. /\ employee[e] \in Person /\ RowUnlocked(e) /\ Len(trail[e]) < MaxEvents
          /\ UNCHANGED <<employee, trail, handed>>
      BY <1>2 DEF CheckUpdateEmployee, EmployeeTyping, EmployeeTypeOK
    <2> DEFINE after == [employee[e] EXCEPT !.number = n, !.user = u]
               new == EditOf(e, after)
    <2>3. after \in Person /\ after.active = employee[e].active
      BY <2>2 DEF Person
    <2>4. after # employee[e] /\ duty' = [duty EXCEPT ![c] = new]
      BY <2>1
    <2> HIDE DEF after
    <2>5. /\ new \in EditDuty /\ new.kind = "edit" /\ new.of = e /\ new.seen = employee[e]
          /\ new.after = after
      BY <2>2, <2>3 DEF EditOf, EditDuty
    <2> HIDE DEF new
    <2> QED
      BY <2>2, <2>3, <2>4, <2>5, BeginningKeeps
  <1>3. ASSUME NEW c \in Clerk, NEW e \in EmployeeRow, NEW h \in Handover,
               LockReceiver(c, e, h)
        PROVE  EmployeesInv'
    <2> DEFINE new == IssueTo(e, h)
    <2>1. /\ RowUnlocked(e) /\ employee[e] \in Person /\ employee[e].active
          /\ UNCHANGED <<employee, trail, handed>>
      BY <1>3 DEF LockReceiver, EmployeeTyping, EmployeeTypeOK
    <2>2. duty' = [duty EXCEPT ![c] = new]
      BY <1>3 DEF LockReceiver
    <2>3. /\ new \in IssueDuty /\ new.kind = "issue" /\ new.of = e /\ new.seen = employee[e]
      BY <2>1 DEF IssueTo, IssueDuty
    <2> HIDE DEF new
    <2> QED
      BY <2>1, <2>2, <2>3, BeginningKeeps
  <1>4. ASSUME NEW c \in Clerk, duty' = [duty EXCEPT ![c] = NoDuty],
               UNCHANGED <<employee, trail>>,
               handed' \in [Handover -> [to : EmployeeRow, number : PersonNumber] \union {NoRow}]
        PROVE  EmployeesInv'
    <2>1. /\ duty'[c] = NoDuty /\ \A d \in Clerk \ {c} : duty'[d] = duty[d]
          /\ duty' \in [Clerk -> {NoDuty} \union EditDuty \union IssueDuty]
      BY <1>4 DEF EmployeeTyping, EmployeeTypeOK, EditDuty, IssueDuty
    <2>2. NoDuty.kind = "none"
      BY DEF NoDuty
    <2>3. DutiesCurrent'
      BY <1>4, <2>1, <2>2 DEF DutiesCurrent
    <2> QED
      BY <1>4, <2>1, <2>3, QuietKeeps
  <1>5. ASSUME NEW c \in Clerk, CommitIssueTo(c) PROVE EmployeesInv'
    <2>1. duty[c] \in IssueDuty
      BY <1>5, DutyKinds DEF CommitIssueTo
    <2>2. handed' \in [Handover -> [to : EmployeeRow, number : PersonNumber] \union {NoRow}]
      BY <1>5, <2>1 DEF CommitIssueTo, IssueDuty, Person, EmployeeTyping, EmployeeTypeOK
    <2> QED
      BY <1>4, <1>5, <2>2 DEF CommitIssueTo
  <1>6. ASSUME NEW c \in Clerk, GiveUp(c) PROVE EmployeesInv'
    BY <1>4, <1>6 DEF GiveUp, EmployeeTyping, EmployeeTypeOK
  <1>7. ASSUME NEW c \in Clerk, SaveEmployee(c) PROVE EmployeesInv'
    <2> DEFINE e == duty[c].of
               after == duty[c].after
    <2>1. /\ duty[c] \in EditDuty /\ duty[c] # NoDuty /\ e \in EmployeeRow /\ after \in Person
          /\ duty[c].seen = employee[e]
          /\ after # employee[e] /\ Len(trail[e]) < MaxEvents
          /\ employee[e] # NoRow => after.active = employee[e].active
      <3>1. duty[c] \in EditDuty /\ duty[c] # NoDuty
        BY <1>7, DutyKinds DEF SaveEmployee
      <3> QED
        BY <1>7, <3>1 DEF SaveEmployee, EditDuty, DutiesCurrent
    <2>2. duty' = [duty EXCEPT ![c] = NoDuty] /\ UNCHANGED handed
      BY <1>7 DEF SaveEmployee
    <2>3. CASE NobodyElseHas(e, after)
      <3>1. /\ employee' = [employee EXCEPT ![e] =
                 IF duty[c].seen = NoRow THEN after
                 ELSE [@ EXCEPT !.number = after.number, !.user = after.user]]
            /\ Recorded(e, employee[e], after)
        BY <1>7, <2>1, <2>3 DEF SaveEmployee
      <3>2. employee[e] # NoRow =>
              [employee[e] EXCEPT !.number = after.number, !.user = after.user] = after
        <4> SUFFICES ASSUME employee[e] # NoRow
                     PROVE  [employee[e] EXCEPT !.number = after.number, !.user = after.user]
                              = after
          OBVIOUS
        <4>1. employee[e] \in Person
          BY <2>1 DEF EmployeeTyping, EmployeeTypeOK
        <4>2. after.active = employee[e].active
          BY <2>1
        <4> HIDE DEF after
        <4>3. after \in Person
          BY <2>1
        <4> QED
          BY <4>1, <4>2, <4>3 DEF Person
      <3>3. employee' = [employee EXCEPT ![e] = after]
        BY <2>1, <3>1, <3>2
      <3>4. /\ \A d \in Clerk : duty'[d] = duty[d] \/ duty'[d] = NoDuty
            /\ duty' = [d \in Clerk |-> duty'[d]]
            /\ \A d \in Clerk \ {c} : duty'[d] = duty[d]
            /\ duty'[c] = NoDuty
        BY <2>2 DEF EmployeeTyping, EmployeeTypeOK
      <3>5. \A d \in Clerk : duty'[d] # NoDuty => duty'[d] = duty[d] /\ duty[d].of # e
        BY <2>1, <3>4 DEF DutiesCurrent
      <3>6. \A o \in EmployeeRow \ {e} : employee'[o] = employee[o] /\ trail'[o] = trail[o]
        BY <3>1, <3>3 DEF Recorded, EmployeeTyping, EmployeeTypeOK
      <3> HIDE DEF e, after
      <3>7. EmployeeTyping'
        BY <2>1, <2>2, <3>1, <3>3, <3>4, WriteKeepsTyping
      <3>8. DutiesCurrent'
        BY <2>1, <3>5, <3>6, EndingKeepsDuties
      <3>9. TrailReplays'
        BY <2>1, <3>1, <3>3, <3>7, WriteKeepsTrails
      <3> QED
        BY <3>7, <3>8, <3>9
    <2>4. CASE ~NobodyElseHas(e, after)
      BY <1>4, <1>7, <2>2, <2>4 DEF SaveEmployee, EmployeeTyping, EmployeeTypeOK
    <2> QED
      BY <2>3, <2>4
  <1>8. ASSUME NEW e \in EmployeeRow, SetEmployeeActive(e) PROVE EmployeesInv'
    <2> DEFINE after == employee'[e]
    <2>1. /\ employee[e] \in Person /\ Len(trail[e]) < MaxEvents /\ RowUnlocked(e)
          /\ employee' = [employee EXCEPT ![e].active = ~@]
          /\ Recorded(e, employee[e], after) /\ UNCHANGED <<handed, duty>>
      BY <1>8 DEF SetEmployeeActive, EmployeeTyping, EmployeeTypeOK
    <2>2. after = [employee[e] EXCEPT !.active = ~@]
      BY <2>1 DEF EmployeeTyping, EmployeeTypeOK
    <2>3. after \in Person /\ after # employee[e]
      BY <2>1, <2>2 DEF Person
    <2>4. employee' = [employee EXCEPT ![e] = after]
      BY <2>1, <2>2
    <2>5. /\ \A d \in Clerk : duty'[d] = duty[d] /\ duty[d].of # e
          /\ duty' = [d \in Clerk |-> duty'[d]]
      BY <2>1 DEF RowUnlocked, EmployeeTyping, EmployeeTypeOK
    <2>6. \A o \in EmployeeRow \ {e} : employee'[o] = employee[o] /\ trail'[o] = trail[o]
      BY <2>1, <2>4 DEF Recorded, EmployeeTyping, EmployeeTypeOK
    <2> HIDE DEF after
    <2>7. EmployeeTyping'
      BY <2>1, <2>3, <2>4, <2>5, WriteKeepsTyping
    <2>8. DutiesCurrent'
      BY <2>5, <2>6, EndingKeepsDuties
    <2>9. TrailReplays'
      BY <2>1, <2>3, <2>4, <2>7, WriteKeepsTrails
    <2> QED
      BY <2>7, <2>8, <2>9
  <1>9. CASE UNCHANGED employeeVars
    <2>1. EmployeeTyping'
      BY <1>9 DEF employeeVars, EmployeeTyping, EmployeeTypeOK
    <2>2. DutiesCurrent'
      BY <1>9 DEF employeeVars, DutiesCurrent
    <2>3. TrailReplays'
      BY <1>9 DEF employeeVars, TrailReplays
    <2> QED
      BY <2>1, <2>2, <2>3
  <1> QED
    BY <1>1, <1>2, <1>3, <1>5, <1>6, <1>7, <1>8, <1>9 DEF EmployeesNext

\* The invariant holds of every behaviour.
LEMMA EmployeesInvariance == EmployeesSpec => []EmployeesInv
  <1>1. EmployeesInit => EmployeesInv
    <2> SUFFICES ASSUME EmployeesInit PROVE EmployeesInv
      OBVIOUS
    <2>1. EmployeeTyping
      <3>1. <<>> \in Seq(Event) /\ Len(<<>>) = 0 /\ DOMAIN <<>> = {}
        BY EmptySeq
      <3>2. MaxEvents >= 0 /\ MaxEvents \in Nat
        BY EmployeeConstants DEF EmployeeConstants
      <3> QED
        BY <3>1, <3>2 DEF EmployeesInit, EmployeeTyping, EmployeeTypeOK
    <2>2. DutiesCurrent
      <3>1. NoDuty.kind = "none"
        BY DEF NoDuty
      <3> QED
        BY <3>1 DEF EmployeesInit, DutiesCurrent
    <2>3. \A e \in EmployeeRow : Tells(<<>>, NoRow)
      BY EmptySeq DEF Tells
    <2>4. TrailReplays
      BY <2>1, <2>3, TrailsTell DEF EmployeesInit, AllTrailsTell
    <2> QED
      BY <2>1, <2>2, <2>4 DEF EmployeesInv
  <1>2. EmployeesInv /\ [EmployeesNext]_employeeVars => EmployeesInv'
    BY EmployeeStepKeeps
  <1> QED
    BY <1>1, <1>2, PTL DEF EmployeesSpec

\* The trail of every employee tells the whole history of the row.
THEOREM TrailsAlwaysReplay == EmployeesSpec => []TrailReplays
  <1>1. EmployeesInv => TrailReplays
    BY DEF EmployeesInv
  <1> QED
    BY <1>1, EmployeesInvariance, PTL

\* An issue names an active receiver with the number he has when it commits.
THEOREM IssuesNameTrueReceivers == EmployeesSpec => ReceiversAreTrue
  <1>1. EmployeesInv /\ [EmployeesNext]_employeeVars =>
          [\A h \in Handover :
             handed'[h] # handed[h] =>
               LET e == handed'[h].to
               IN  /\ employee[e] # NoRow
                   /\ employee[e].active
                   /\ employee[e].number = handed'[h].number]_employeeVars
    <2> SUFFICES ASSUME EmployeesInv, EmployeesNext, NEW h \in Handover,
                        handed'[h] # handed[h]
                 PROVE  LET e == handed'[h].to
                        IN  /\ employee[e] # NoRow
                            /\ employee[e].active
                            /\ employee[e].number = handed'[h].number
      OBVIOUS
    <2>1. PICK c \in Clerk : CommitIssueTo(c)
      BY DEF EmployeesNext, SaveEmployee, GiveUp, CheckCreateEmployee, CheckUpdateEmployee,
         LockReceiver, SetEmployeeActive
    <2>2. /\ duty[c] \in IssueDuty /\ duty[c] # NoDuty /\ duty[c].kind = "issue"
      BY <2>1, DutyKinds DEF CommitIssueTo, EmployeesInv
    <2>3. handed'[h] = [to |-> duty[c].of, number |-> duty[c].seen.number]
      BY <2>1 DEF CommitIssueTo, EmployeesInv, EmployeeTyping, EmployeeTypeOK
    <2>4. /\ employee[duty[c].of] = duty[c].seen /\ duty[c].seen.active
          /\ duty[c].seen \in Person
      BY <2>2 DEF EmployeesInv, DutiesCurrent, IssueDuty
    <2> QED
      BY <2>3, <2>4, NoRowIsNobody DEF NoRowIsNobody
  <1> QED
    BY <1>1, EmployeesInvariance, PTL DEF EmployeesSpec, ReceiversAreTrue

-----------------------------------------------------------------------------
(***************************************************************************)
(* What holds of the catalog for every set of categories, materials,       *)
(* numbers and editors, and for every number of attempts.                  *)
(*                                                                         *)
(* Two arguments.  A category that is being moved is locked, and a move is *)
(* saved only while nobody moves its new parent: the parent of the new     *)
(* parent is still not the moved category (MovesStand).  A drawn number is *)
(* of no other call, so an attempt that fails has met a number that a user *)
(* gave, and another one every time (CodesAccounted).                      *)
(***************************************************************************)
(***************************************************************************)
(* Catalog: no two categories hang below each other.                       *)
(***************************************************************************)
Climbs(f, last, c) ==
  f = [n \in 0 .. last |->
         IF n = 0 THEN {c} \ {Nil}
         ELSE f[n - 1] \union ({category[d].parent : d \in f[n - 1]} \ {Nil})]

\* The walk upwards sees the category that it starts from and the one above it.
LEMMA AncestryReaches ==
  ASSUME CatalogTypeOK, NEW p \in CategoryRow
  PROVE  /\ p \in Ancestry(p)
         /\ category[p].parent # Nil => category[p].parent \in Ancestry(p)
  <1> DEFINE last == Cardinality(CategoryRow)
             D == SUBSET CategoryRow
             step == [A \in D |-> A \union ({category[d].parent : d \in A} \ {Nil})]
             above == CHOOSE f : Climbs(f, last, p)
  <1>1. Ancestry(p) = above[last]
    BY Zenon DEF Ancestry, Climbs
  <1>2. last \in Nat /\ last # 0
    <2>1. CategoryRow # {}
      OBVIOUS
    <2> QED
      BY <2>1, FiniteCategories, FS_CardinalityType, FS_EmptySet DEF FiniteCategories
  <1>3. step \in [D -> D]
    <2> SUFFICES ASSUME NEW A \in D, NEW d \in A, category[d].parent # Nil
                 PROVE  category[d].parent \in CategoryRow
      BY Zenon
    <2> QED
      BY DEF CatalogTypeOK
  <1>4. {p} \in D /\ {p} = {p} \ {Nil}
    BY CatalogConstants DEF CatalogConstants
  <1>5. \A A \in D : step[A] = A \union ({category[d].parent : d \in A} \ {Nil})
    OBVIOUS
  <1> HIDE DEF last, D, step
  <1>6. PICK f \in [0 .. last -> D] : Iterates(f, step, {p}, last)
    BY <1>2, <1>3, <1>4, IterationExists
  <1>7. Climbs(f, last, p)
    <2>1. \A n \in 0 .. last : n # 0 => n - 1 \in 0 .. last
      BY <1>2
    <2>2. \A n \in 0 .. last : f[n] =
            IF n = 0 THEN {p} \ {Nil}
            ELSE f[n - 1] \union ({category[d].parent : d \in f[n - 1]} \ {Nil})
      BY <1>4, <1>5, <1>6, <2>1 DEF Iterates
    <2>3. f = [n \in 0 .. last |-> f[n]]
      OBVIOUS
    <2> QED
      BY <2>2, <2>3, Zenon DEF Climbs
  <1>8. Climbs(above, last, p)
    BY <1>7, Zenon
  <1> HIDE DEF above
  <1>9. \A n \in 0 .. last : above[n] =
          IF n = 0 THEN {p} \ {Nil}
          ELSE above[n - 1] \union ({category[d].parent : d \in above[n - 1]} \ {Nil})
    BY <1>8 DEF Climbs
  <1>10. \A n \in 1 .. last : above[n - 1] \subseteq above[n]
    <2>1. \A n \in 1 .. last : n \in 0 .. last /\ n # 0
      BY <1>2
    <2> QED
      BY <1>9, <2>1
  <1>11. 0 \in 0 .. last /\ 1 \in 0 .. last /\ last \in 0 .. last /\ 0 <= last /\ 1 <= last
    BY <1>2
  <1>12. above[0] \subseteq above[last] /\ above[1] \subseteq above[last]
    BY <1>2, <1>10, <1>11, GrowthAccumulates
  <1>13. p \in above[0]
    BY <1>4, <1>9, <1>11
  <1>14. category[p].parent # Nil => category[p].parent \in above[1]
    <2>1. above[1] = above[0] \union ({category[d].parent : d \in above[0]} \ {Nil})
      <3>1. 1 # 0 /\ 1 - 1 = 0
        OBVIOUS
      <3>2. above[1] = above[1 - 1] \union ({category[d].parent : d \in above[1 - 1]} \ {Nil})
        BY <1>9, <1>11, <3>1, Zenon
      <3> QED
        BY <3>1, <3>2, Zenon
    <2> QED
      BY <1>13, <2>1
  <1> QED
    BY <1>1, <1>12, <1>13, <1>14

MaterialFields == [status : {"ACTIVE", "INACTIVE"}, of : {d \in SentForm : d.code # Nil}]
WriteCall == [kind : {"write"}, of : MaterialRow, draft : SentForm, tries : Attempts,
              draws : Attempts, clean : BOOLEAN]
Call ==
  {NoJob}
    \union {Refused(why) : why \in Number \union {UsedUp}}
    \union {Move(c, p) : c \in CategoryRow, p \in CategoryRow \union {Nil}}
    \union WriteCall

\* What the kind of a call says of its fields.
LEMMA JobKinds ==
  ASSUME CatalogTypeOK, NEW e \in Editor
  PROVE  /\ job[e] \in Call
         /\ job[e].kind = "write" => job[e] \in WriteCall
         /\ job[e].kind = "move" =>
              /\ job[e].of \in CategoryRow
              /\ job[e].to \in CategoryRow \union {Nil}
              /\ job[e] = Move(job[e].of, job[e].to)
         /\ job[e].kind = "refused" => job[e].why \in Number \union {UsedUp}
         /\ NoJob.kind = "idle"
  <1>1. job[e] \in Call
    BY DEF CatalogTypeOK, Call, WriteCall
  <1> QED
    BY <1>1 DEF Call, WriteCall, NoJob, Refused, Move

\* A step that only changes the call of e to another call keeps the types.
LEMMA CallKeepsTyping ==
  ASSUME CatalogTypeOK, NEW e \in Editor, NEW new \in Call,
         job' = [job EXCEPT ![e] = new], UNCHANGED <<category, unit, material, given>>,
         lastNumber' \in 0 .. MaxNumber
  PROVE  CatalogTypeOK'
  BY DEF CatalogTypeOK, Call, WriteCall

\* A draft that is sent is a draft.
LEMMA FormsAreSent == MaterialForm \subseteq SentForm
  BY DraftConstants DEF DraftConstants, SentForm

\* The call of e is replaced.
LEMMA ReplacedCall ==
  ASSUME CatalogTypeOK, NEW e \in Editor, NEW new, job' = [job EXCEPT ![e] = new]
  PROVE  job'[e] = new /\ job' = [job EXCEPT ![e] = job'[e]]
  BY DEF CatalogTypeOK

\* What a draw makes of a call.
LEMMA DrawCall ==
  ASSUME CatalogTypeOK, NEW e \in Editor, Draw(e)
  PROVE  /\ job[e] \in WriteCall /\ lastNumber' = lastNumber + 1 /\ lastNumber' \in Number
         /\ UNCHANGED <<category, unit, material, given>>
         /\ job' = [job EXCEPT ![e] = job'[e]]
         /\ job'[e] \in Call
         /\ ~Taken(job[e].of, NextNumber) =>
              /\ job'[e] = [job[e] EXCEPT !.draft.code = NextNumber]
              /\ job'[e] \in WriteCall /\ job'[e].draft.code = NextNumber
              /\ job'[e].tries = job[e].tries /\ job'[e].draws = job[e].draws
         /\ Taken(job[e].of, NextNumber) /\ job[e].draws > 1 =>
              /\ job'[e] \in WriteCall /\ job'[e].draft = job[e].draft
              /\ job'[e].tries = job[e].tries /\ job'[e].draws = job[e].draws - 1
         /\ Taken(job[e].of, NextNumber) /\ ~(job[e].draws > 1) => job'[e] = Refused(UsedUp)
  <1>1. job[e] \in WriteCall
    BY JobKinds DEF Draw
  <1>2. /\ lastNumber' = lastNumber + 1 /\ lastNumber' \in Number
        /\ UNCHANGED <<category, unit, material, given>>
    BY DEF Draw, NextNumber
  <1>3. ASSUME ~Taken(job[e].of, NextNumber)
        PROVE  /\ job' = [job EXCEPT ![e] = job'[e]]
               /\ job'[e] = [job[e] EXCEPT !.draft.code = NextNumber]
               /\ job'[e] \in WriteCall /\ job'[e].draft.code = NextNumber
               /\ job'[e].tries = job[e].tries /\ job'[e].draws = job[e].draws
    <2> DEFINE new == [job[e] EXCEPT !.draft.code = NextNumber]
    <2>1. NextNumber \in Code
      BY <1>2 DEF Draw, Code
    <2>2. /\ new \in WriteCall /\ new.draft.code = NextNumber
          /\ new.tries = job[e].tries /\ new.draws = job[e].draws
      BY <1>1, <2>1 DEF WriteCall, SentForm
    <2>3. job' = [job EXCEPT ![e] = new]
      BY <1>3 DEF Draw
    <2>4. job'[e] = new /\ job' = [job EXCEPT ![e] = job'[e]]
      BY <2>3, ReplacedCall
    <2> QED
      BY <2>2, <2>4
  <1>4. ASSUME Taken(job[e].of, NextNumber), job[e].draws > 1
        PROVE  /\ job' = [job EXCEPT ![e] = job'[e]]
               /\ job'[e] \in WriteCall /\ job'[e].draft = job[e].draft
               /\ job'[e].tries = job[e].tries /\ job'[e].draws = job[e].draws - 1
    <2> DEFINE new == [job[e] EXCEPT !.draws = job[e].draws - 1]
    <2>1. job[e].draws - 1 \in Attempts
      BY <1>1, <1>4, CatalogConstants DEF CatalogConstants, WriteCall, Attempts
    <2>2. /\ new \in WriteCall /\ new.draft = job[e].draft
          /\ new.tries = job[e].tries /\ new.draws = job[e].draws - 1
      BY <1>1, <2>1 DEF WriteCall
    <2>3. job' = [job EXCEPT ![e] = new]
      BY <1>4 DEF Draw
    <2>4. job'[e] = new /\ job' = [job EXCEPT ![e] = job'[e]]
      BY <2>3, ReplacedCall
    <2> QED
      BY <2>2, <2>4
  <1>5. ASSUME Taken(job[e].of, NextNumber), ~(job[e].draws > 1)
        PROVE  job'[e] = Refused(UsedUp) /\ job' = [job EXCEPT ![e] = job'[e]]
    <2>1. job' = [job EXCEPT ![e] = Refused(UsedUp)]
      BY <1>5, Zenon DEF Draw
    <2> QED
      BY <2>1, ReplacedCall
  <1>6. Refused(UsedUp) \in Call /\ WriteCall \subseteq Call
    BY DEF Call
  <1>7. job'[e] \in Call
    BY <1>3, <1>4, <1>5, <1>6, Zenon
  <1>8. job' = [job EXCEPT ![e] = job'[e]]
    BY <1>3, <1>4, <1>5, Zenon
  <1> QED
    BY <1>1, <1>2, <1>3, <1>4, <1>5, <1>7, <1>8, Zenon

\* What a collision makes of a call.
LEMMA CollideCall ==
  ASSUME CatalogTypeOK, NEW e \in Editor, Collide(e)
  PROVE  /\ job[e] \in WriteCall /\ UNCHANGED <<category, unit, material, lastNumber, given>>
         /\ job' = [job EXCEPT ![e] = job'[e]]
         /\ job'[e] \in Call
         /\ job[e].tries = 0 => job'[e] = NoJob
         /\ job[e].tries # 0 /\ job[e].tries > 1 =>
              /\ job'[e] \in WriteCall /\ job'[e].draft.code = Nil
              /\ job'[e].tries = job[e].tries - 1 /\ job'[e].draws = MaxAttempts
         /\ job[e].tries # 0 /\ ~(job[e].tries > 1) => job'[e] = Refused(UsedUp)
  <1>1. job[e] \in WriteCall /\ UNCHANGED <<category, unit, material, lastNumber, given>>
    BY JobKinds DEF Collide, Ready, Coded
  <1>2. ASSUME job[e].tries # 0, job[e].tries > 1
        PROVE  /\ job' = [job EXCEPT ![e] = job'[e]]
               /\ job'[e] \in WriteCall /\ job'[e].draft.code = Nil
               /\ job'[e].tries = job[e].tries - 1 /\ job'[e].draws = MaxAttempts
    <2> DEFINE new == [job[e] EXCEPT !.tries = job[e].tries - 1, !.draws = MaxAttempts,
                                     !.draft.code = Nil, !.clean = FALSE]
               draft == [job[e].draft EXCEPT !.code = Nil]
               plain == [job[e] EXCEPT !.tries = job[e].tries - 1, !.draws = MaxAttempts,
                                       !.draft = draft, !.clean = FALSE]
    <2>1. MaxAttempts \in Attempts /\ job[e].tries - 1 \in Attempts
      BY <1>1, <1>2, CatalogConstants DEF CatalogConstants, WriteCall, Attempts
    <2>2. draft \in SentForm /\ draft.code = Nil
      BY <1>1 DEF WriteCall, SentForm
    <2>3. new = plain
      BY <1>1 DEF WriteCall
    <2>4. job' = [job EXCEPT ![e] = new]
      BY <1>2 DEF Collide
    <2> HIDE DEF new, draft
    <2>5. /\ plain \in WriteCall /\ plain.draft.code = Nil
          /\ plain.tries = job[e].tries - 1 /\ plain.draws = MaxAttempts
      BY <1>1, <2>1, <2>2 DEF WriteCall
    <2>6. job'[e] = new /\ job' = [job EXCEPT ![e] = job'[e]]
      BY <2>4, ReplacedCall
    <2> HIDE DEF plain
    <2> QED
      BY <2>3, <2>5, <2>6
  <1>3. ASSUME job[e].tries = 0
        PROVE  job'[e] = NoJob /\ job' = [job EXCEPT ![e] = job'[e]]
    <2>1. job' = [job EXCEPT ![e] = NoJob]
      BY <1>3, Zenon DEF Collide
    <2> QED
      BY <2>1, ReplacedCall
  <1>4. ASSUME job[e].tries # 0, ~(job[e].tries > 1)
        PROVE  job'[e] = Refused(UsedUp) /\ job' = [job EXCEPT ![e] = job'[e]]
    <2>1. job' = [job EXCEPT ![e] = Refused(UsedUp)]
      BY <1>4, Zenon DEF Collide
    <2> QED
      BY <2>1, ReplacedCall
  <1>5. Refused(UsedUp) \in Call /\ NoJob \in Call /\ WriteCall \subseteq Call
    BY DEF Call
  <1>6. job'[e] \in Call
    BY <1>2, <1>3, <1>4, <1>5, Zenon
  <1>7. job' = [job EXCEPT ![e] = job'[e]]
    BY <1>2, <1>3, <1>4, Zenon
  <1> QED
    BY <1>1, <1>2, <1>3, <1>4, <1>6, <1>7, Zenon

\* What a commit of a material writes.
LEMMA WhatIsCommitted ==
  ASSUME CatalogTypeOK, NEW e \in Editor, CommitMaterial(e)
  PROVE  /\ job[e] \in WriteCall /\ job[e].draft.code \in Code
         /\ UNCHANGED <<category, unit, lastNumber>>
         /\ job' = [job EXCEPT ![e] = NoJob]
         /\ \E row \in MaterialFields :
              row.of = job[e].draft /\ material' = [material EXCEPT ![job[e].of] = row]
         /\ job[e].tries # 0 => given' = given
         /\ job[e].tries = 0 => given' = given \union ({job[e].draft.code} \ {Plain})
  <1> DEFINE m == job[e].of
             row == MaterialShape(IF material[m] = NoMaterialRow THEN "ACTIVE"
                                  ELSE material[m].status, job[e].draft)
  <1>1. job[e] \in WriteCall /\ job[e].draft.code # Nil
    BY JobKinds DEF CommitMaterial, Ready, Coded
  <1>2. m \in MaterialRow /\ job[e].draft \in SentForm /\ job[e].draft.code \in Code
    BY <1>1 DEF WriteCall, SentForm
  <1>3. material[m] # NoMaterialRow => material[m].status \in {"ACTIVE", "INACTIVE"}
    BY <1>2 DEF CatalogTypeOK
  <1>4. row \in MaterialFields /\ row.of = job[e].draft
    BY <1>1, <1>2, <1>3 DEF MaterialShape, MaterialFields
  <1>5. material' = [material EXCEPT ![m] = row]
    BY DEF CommitMaterial
  <1> HIDE DEF row
  <1> QED
    BY <1>1, <1>2, <1>4, <1>5 DEF CommitMaterial

\* Every step keeps the types.
LEMMA CatalogStepTyped ==
  ASSUME CatalogTypeOK, [CatalogNext]_catalogVars
  PROVE  CatalogTypeOK'
  <1>0. NoJob \in Call /\ WriteCall \subseteq Call /\ lastNumber \in 0 .. MaxNumber
    BY DEF Call, CatalogTypeOK
  <1>1. ASSUME NEW e \in Editor, NEW c \in CategoryRow, NEW p \in CategoryRow \union {Nil},
               CreateCategory(e, c, p)
        PROVE  CatalogTypeOK'
    BY <1>1 DEF CreateCategory, CategoryShape, Status, CatalogTypeOK
  <1>2. ASSUME NEW e \in Editor, NEW c \in CategoryRow, NEW p \in CategoryRow \union {Nil},
               CheckMove(e, c, p)
        PROVE  CatalogTypeOK'
    <2>1. Move(c, p) \in Call
      BY DEF Call
    <2> QED
      BY <1>0, <1>2, <2>1, CallKeepsTyping DEF CheckMove
  <1>3. ASSUME NEW e \in Editor, CommitMove(e) PROVE CatalogTypeOK'
    <2>1. job[e].of \in CategoryRow /\ job[e].to \in CategoryRow \union {Nil}
      BY <1>3, JobKinds DEF CommitMove
    <2> QED
      BY <1>3, <2>1 DEF CommitMove, CatalogTypeOK
  <1>4. ASSUME NEW e \in Editor, EndDeadlock(e) PROVE CatalogTypeOK'
    BY <1>0, <1>4, CallKeepsTyping DEF EndDeadlock
  <1>5. ASSUME NEW e \in Editor, NEW m \in MaterialRow, NEW d \in MaterialForm,
               CheckCreate(e, m, d) \/ CheckUpdate(e, m, d)
        PROVE  CatalogTypeOK'
    <2>1. /\ Write(m, d, 0, 0) \in WriteCall
          /\ Write(m, d, MaxAttempts, MaxAttempts) \in WriteCall
      BY FormsAreSent, CatalogConstants DEF CatalogConstants, Write, WriteCall, Attempts
    <2>2. PICK new \in WriteCall : job' = [job EXCEPT ![e] = new]
      <3>1. CASE CheckCreate(e, m, d)
        BY <2>1, <3>1 DEF CheckCreate
      <3>2. CASE CheckUpdate(e, m, d)
        BY <2>1, <3>2 DEF CheckUpdate
      <3> QED
        BY <1>5, <3>1, <3>2
    <2>3. UNCHANGED <<category, unit, material, lastNumber, given>>
      BY <1>5 DEF CheckCreate, CheckUpdate
    <2> QED
      BY <1>0, <2>2, <2>3, CallKeepsTyping
  <1>6. ASSUME NEW e \in Editor, Draw(e) PROVE CatalogTypeOK'
    <2>1. lastNumber' \in 0 .. MaxNumber
      <3>1. lastNumber' \in Number
        BY <1>6, DrawCall
      <3> QED
        BY <3>1, CatalogConstants DEF CatalogConstants, Number
    <2> QED
      BY <1>6, <2>1, DrawCall, CallKeepsTyping
  <1>7. ASSUME NEW e \in Editor, CleanGenerated(e) PROVE CatalogTypeOK'
    <2>1. /\ job[e] \in WriteCall /\ UNCHANGED <<category, unit, material, lastNumber, given>>
          /\ job[e].draft.code # Nil
      BY <1>7, JobKinds DEF CleanGenerated, Coded
    <2>2. Taken(job[e].of, job[e].draft.code) => job[e].draft.code \in Number
      BY <2>1 DEF WriteCall, SentForm, Code, Taken
    <2>3. \E new \in Call : job' = [job EXCEPT ![e] = new]
      <3>1. CASE Taken(job[e].of, job[e].draft.code)
        <4>1. Refused(job[e].draft.code) \in Call
          BY <2>2, <3>1 DEF Call
        <4> QED
          BY <1>7, <3>1, <4>1 DEF CleanGenerated
      <3>2. CASE ~Taken(job[e].of, job[e].draft.code)
        <4>1. [job[e] EXCEPT !.clean = TRUE] \in WriteCall
          BY <2>1 DEF WriteCall
        <4> QED
          BY <1>0, <1>7, <3>2, <4>1 DEF CleanGenerated
      <3> QED
        BY <3>1, <3>2
    <2> QED
      BY <1>0, <2>1, <2>3, CallKeepsTyping
  <1>8. ASSUME NEW e \in Editor, Collide(e) PROVE CatalogTypeOK'
    BY <1>0, <1>8, CollideCall, CallKeepsTyping
  <1>9. ASSUME NEW e \in Editor, CommitMaterial(e) PROVE CatalogTypeOK'
    <2>1. PICK row \in MaterialFields : material' = [material EXCEPT ![job[e].of] = row]
      BY <1>9, WhatIsCommitted
    <2>2. /\ job[e] \in WriteCall /\ job[e].draft.code \in Code
          /\ UNCHANGED <<category, unit, lastNumber>>
          /\ job' = [job EXCEPT ![e] = NoJob]
          /\ given' \subseteq given \union ({job[e].draft.code} \ {Plain})
      BY <1>9, WhatIsCommitted
    <2>3. given' \subseteq Number
      BY <2>2 DEF Code, CatalogTypeOK
    <2>4. material' \in [MaterialRow -> {NoMaterialRow} \union MaterialFields]
      BY <2>1, <2>2 DEF CatalogTypeOK, MaterialFields, WriteCall
    <2>5. job' \in [Editor -> Call]
      BY <1>0, <2>2 DEF CatalogTypeOK, Call, WriteCall
    <2> QED
      BY <2>2, <2>3, <2>4, <2>5 DEF CatalogTypeOK, MaterialFields, Call, WriteCall
  <1>10. ASSUME NEW e \in Editor, ReadAnswer(e) PROVE CatalogTypeOK'
    BY <1>0, <1>10, CallKeepsTyping DEF ReadAnswer
  <1>11. ASSUME NEW c \in CategoryRow, SetCategoryActive(c) PROVE CatalogTypeOK'
    BY <1>11 DEF SetCategoryActive, Flipped, Status, CatalogTypeOK
  <1>12. ASSUME NEW u \in UnitRow, WriteUnit(u) PROVE CatalogTypeOK'
    BY <1>12 DEF WriteUnit, Flipped, Status, CatalogTypeOK
  <1>13. ASSUME NEW m \in MaterialRow, SetMaterialActive(m) PROVE CatalogTypeOK'
    <2>1. material[m] \in MaterialFields
      BY <1>13 DEF SetMaterialActive, CatalogTypeOK, MaterialFields
    <2>2. [material[m] EXCEPT !.status = Flipped(@)] \in MaterialFields
      BY <2>1 DEF MaterialFields, Flipped
    <2> QED
      BY <1>13, <2>2 DEF SetMaterialActive, CatalogTypeOK, MaterialFields
  <1>14. CASE UNCHANGED catalogVars
    BY <1>14 DEF catalogVars, CatalogTypeOK
  <1> QED
    BY <1>1, <1>2, <1>3, <1>4, <1>5, <1>6, <1>7, <1>8, <1>9, <1>10, <1>11, <1>12, <1>13, <1>14
    DEF CatalogNext, EditCategory, EditMaterial

\* The catalog is well typed when it begins, empty.
LEMMA CatalogStartsTyped == CatalogInit => CatalogTypeOK
  BY CatalogConstants DEF CatalogConstants, CatalogInit, CatalogTypeOK, NoCategoryRow,
     CategoryShape, Status

\* Every row and every call is of its type at all times.
THEOREM CatalogTyped == CatalogSpec => []CatalogTypeOK
  BY CatalogStartsTyped, CatalogStepTyped, PTL DEF CatalogSpec

\* Parents are rows, and a category that is being moved, its new parent and the
\* one above that are three: the lock on the moved row keeps it so.
MovesStand ==
  /\ \A c \in CategoryRow : category[c].parent # Nil =>
       category[category[c].parent].status # "NONE"
  /\ \A c \in CategoryRow : category[c].status = "NONE" => category[c] = NoCategoryRow
  /\ \A e \in Editor : job[e].kind = "move" =>
       /\ category[job[e].of].status # "NONE"
       /\ job[e].to # Nil =>
            /\ job[e].to # job[e].of
            /\ category[job[e].to].status # "NONE"
            /\ category[job[e].to].parent # job[e].of

TreeInv == CatalogTypeOK /\ MovesStand /\ NoMutualParents

\* What a check of a new parent has made sure of.
LEMMA MayHangMeans ==
  ASSUME CatalogTypeOK, NEW c \in CategoryRow, NEW p \in CategoryRow \union {Nil},
         MayHangBelow(c, p)
  PROVE  p # Nil => /\ p \in CategoryRow /\ p # c
                    /\ category[p].status # "NONE" /\ category[p].parent # c
  BY AncestryReaches, CatalogConstants DEF CatalogConstants, MayHangBelow

\* A step that leaves the categories alone and begins no move keeps the tree.
LEMMA OtherStepsKeepTree ==
  ASSUME TreeInv, CatalogTypeOK', UNCHANGED category,
         \A e \in Editor : job'[e].kind = "move" => job'[e] = job[e]
  PROVE  TreeInv'
  <1>1. MovesStand'
    BY DEF TreeInv, MovesStand
  <1>2. NoMutualParents'
    BY DEF TreeInv, NoMutualParents
  <1> QED
    BY <1>1, <1>2 DEF TreeInv

\* Every step keeps what is known of the tree of categories: a call that moves one
\* works from parents that have not changed since it looked at them.
LEMMA TreeStepKeeps ==
  ASSUME TreeInv, CatalogTypeOK', [CatalogNext]_catalogVars
  PROVE  TreeInv'
  <1> USE DEF TreeInv
  <1>1. ASSUME NEW e \in Editor, NEW c \in CategoryRow, NEW p \in CategoryRow \union {Nil},
               CreateCategory(e, c, p)
        PROVE  TreeInv'
    <2>1. /\ category[c].status = "NONE" /\ UNCHANGED job
          /\ category' = [category EXCEPT ![c] = CategoryShape("ACTIVE", p)]
          /\ p # Nil => /\ p \in CategoryRow /\ p # c
                        /\ category[p].status # "NONE" /\ category[p].parent # c
      BY <1>1, MayHangMeans DEF CreateCategory, NoCategoryRow, CategoryShape
    <2>2. /\ category'[c].status = "ACTIVE" /\ category'[c].parent = p
          /\ \A d \in CategoryRow \ {c} : category'[d] = category[d]
      BY <2>1 DEF CatalogTypeOK, CategoryShape
    <2>3. \A d \in CategoryRow : category[d].parent # c
      BY <2>1, CatalogConstants DEF CatalogConstants, MovesStand
    <2>4. NoMutualParents'
      BY <2>1, <2>2, <2>3, CatalogConstants DEF NoMutualParents, CatalogConstants
    <2>5. \A d \in CategoryRow : category'[d].parent # Nil =>
            /\ category'[d].parent \in CategoryRow
            /\ category'[category'[d].parent].status # "NONE"
      <3>1. \A d \in CategoryRow : category'[d].parent \in CategoryRow \union {Nil}
        BY DEF CatalogTypeOK
      <3>2. \A d \in CategoryRow \ {c} : category[d].parent # Nil =>
              category[category[d].parent].status # "NONE"
        BY DEF MovesStand
      <3> QED
        BY <2>1, <2>2, <3>1, <3>2
    <2>6. \A f \in Editor : job[f].kind = "move" =>
            /\ job[f].of \in CategoryRow \ {c}
            /\ job[f].to # Nil => job[f].to \in CategoryRow \ {c}
      BY <2>1, JobKinds DEF MovesStand
    <2>7. MovesStand'
      BY <2>1, <2>2, <2>5, <2>6 DEF MovesStand
    <2> QED
      BY <2>4, <2>7
  <1>2. ASSUME NEW e \in Editor, NEW c \in CategoryRow, NEW p \in CategoryRow \union {Nil},
               CheckMove(e, c, p)
        PROVE  TreeInv'
    <2>1. /\ category[c].status # "NONE" /\ UNCHANGED category
          /\ job' = [job EXCEPT ![e] = Move(c, p)]
          /\ p # Nil => /\ p \in CategoryRow /\ p # c
                        /\ category[p].status # "NONE" /\ category[p].parent # c
      BY <1>2, MayHangMeans DEF CheckMove
    <2>2. /\ job'[e].of = c /\ job'[e].to = p
          /\ \A d \in Editor \ {e} : job'[d] = job[d]
      BY <2>1 DEF CatalogTypeOK, Move
    <2>3. MovesStand'
      BY <2>1, <2>2 DEF MovesStand
    <2>4. NoMutualParents'
      BY <2>1 DEF NoMutualParents
    <2> QED
      BY <2>3, <2>4
  <1>3. ASSUME NEW e \in Editor, CommitMove(e) PROVE TreeInv'
    <2> DEFINE c == job[e].of
               p == job[e].to
    <2>1. /\ c \in CategoryRow /\ p \in CategoryRow \union {Nil}
          /\ job[e].kind = "move" /\ MayShare(e, p)
          /\ category' = [category EXCEPT ![c].parent = p]
          /\ job' = [job EXCEPT ![e] = NoJob]
      BY <1>3, JobKinds DEF CommitMove
    <2>2. /\ category[c].status # "NONE"
          /\ p # Nil => p # c /\ category[p].status # "NONE" /\ category[p].parent # c
      BY <2>1 DEF MovesStand
    <2>3. /\ category'[c].parent = p /\ category'[c].status = category[c].status
          /\ \A d \in CategoryRow \ {c} : category'[d] = category[d]
          /\ NoJob.kind # "move"
          /\ job'[e] = NoJob /\ \A f \in Editor \ {e} : job'[f] = job[f]
      BY <2>1 DEF CatalogTypeOK, NoJob
    \* Nobody else moves the new parent, for e could not share its row.
    <2>4. \A f \in Editor \ {e} : job[f].of = p => p = Nil
      BY <2>1 DEF MayShare, LockedByOther
    <2> HIDE DEF c, p
    <2>5. NoMutualParents'
      BY <2>1, <2>2, <2>3, CatalogConstants DEF NoMutualParents, CatalogConstants
    <2>6. \A d \in CategoryRow : category'[d].status = category[d].status
      BY <2>3
    <2>7. \A d \in CategoryRow : category'[d].parent # Nil =>
            category'[category'[d].parent].status # "NONE"
      <3>1. \A d \in CategoryRow : category'[d].parent \in CategoryRow \union {Nil}
        BY DEF CatalogTypeOK
      <3>2. \A d \in CategoryRow \ {c} : category[d].parent # Nil =>
              category[category[d].parent].status # "NONE"
        BY DEF MovesStand
      <3> QED
        BY <2>1, <2>2, <2>3, <2>6, <3>1, <3>2
    <2>8. \A d \in CategoryRow : category'[d].status = "NONE" => category'[d] = NoCategoryRow
      BY <2>2, <2>3 DEF MovesStand
    <2>9. \A f \in Editor : job'[f].kind = "move" =>
            /\ category'[job'[f].of].status # "NONE"
            /\ job'[f].to # Nil =>
                 /\ job'[f].to # job'[f].of
                 /\ category'[job'[f].to].status # "NONE"
                 /\ category'[job'[f].to].parent # job'[f].of
      <3> SUFFICES ASSUME NEW f \in Editor \ {e}, job[f].kind = "move"
                   PROVE  /\ category'[job[f].of].status # "NONE"
                          /\ job[f].to # Nil =>
                               /\ job[f].to # job[f].of
                               /\ category'[job[f].to].status # "NONE"
                               /\ category'[job[f].to].parent # job[f].of
        BY <2>3
      <3>1. job[f].of \in CategoryRow /\ job[f].to \in CategoryRow \union {Nil}
        BY JobKinds
      <3>2. job[f].of # p
        BY <2>4, <3>1, CatalogConstants DEF CatalogConstants
      <3>3. /\ category[job[f].of].status # "NONE"
            /\ job[f].to # Nil =>
                 /\ job[f].to # job[f].of
                 /\ category[job[f].to].status # "NONE"
                 /\ category[job[f].to].parent # job[f].of
        BY DEF MovesStand
      <3> QED
        BY <2>3, <2>6, <3>1, <3>2, <3>3
    <2>10. MovesStand'
      BY <2>7, <2>8, <2>9 DEF MovesStand
    <2> QED
      BY <2>5, <2>10
  <1>4. ASSUME NEW e \in Editor, NEW new, new.kind # "move", UNCHANGED category,
               job' = [job EXCEPT ![e] = new]
        PROVE  TreeInv'
    <2>1. \A f \in Editor : job'[f].kind = "move" => job'[f] = job[f]
      BY <1>4 DEF CatalogTypeOK
    <2> QED
      BY <1>4, <2>1, OtherStepsKeepTree
  <1>5. \A m, d, t, n : Write(m, d, t, n).kind # "move"
    BY DEF Write
  <1>6. NoJob.kind # "move" /\ \A why : Refused(why).kind # "move"
    BY DEF NoJob, Refused
  <1>7. ASSUME NEW e \in Editor, EndDeadlock(e) \/ CommitMaterial(e) \/ ReadAnswer(e)
        PROVE  TreeInv'
    BY <1>4, <1>6, <1>7 DEF EndDeadlock, CommitMaterial, ReadAnswer
  <1>8. ASSUME NEW e \in Editor, NEW m \in MaterialRow, NEW d \in MaterialForm,
               CheckCreate(e, m, d) \/ CheckUpdate(e, m, d)
        PROVE  TreeInv'
    <2>1. CASE CheckCreate(e, m, d)
      <3>1. CASE d.code = Nil
        <4>1. job' = [job EXCEPT ![e] = Write(m, d, MaxAttempts, MaxAttempts)]
          BY <2>1, <3>1 DEF CheckCreate
        <4> QED
          BY <1>4, <1>5, <2>1, <4>1 DEF CheckCreate
      <3>2. CASE d.code # Nil
        <4>1. job' = [job EXCEPT ![e] = Write(m, d, 0, 0)]
          BY <2>1, <3>2 DEF CheckCreate
        <4>2. Write(m, d, 0, 0).kind # "move" /\ UNCHANGED category
          BY <1>5, <2>1 DEF CheckCreate
        <4> QED
          BY <1>4, <4>1, <4>2, Zenon
      <3> QED
        BY <3>1, <3>2
    <2>2. CASE CheckUpdate(e, m, d)
      BY <1>4, <1>5, <2>2 DEF CheckUpdate
    <2> QED
      BY <1>8, <2>1, <2>2
  <1>9. ASSUME NEW e \in Editor, Draw(e) PROVE TreeInv'
    <2>1. job' = [job EXCEPT ![e] = job'[e]] /\ UNCHANGED category
      BY <1>9, DrawCall
    <2>2. job'[e].kind # "move"
      <3>1. job'[e] \in WriteCall \/ job'[e] = Refused(UsedUp)
        BY <1>9, DrawCall, Zenon
      <3> QED
        BY <1>6, <3>1 DEF WriteCall
    <2> QED
      BY <1>4, <2>1, <2>2
  <1>10. ASSUME NEW e \in Editor, Collide(e) PROVE TreeInv'
    <2>1. job' = [job EXCEPT ![e] = job'[e]] /\ UNCHANGED category
      BY <1>10, CollideCall
    <2>2. job'[e].kind # "move"
      BY <1>6, <1>10, CollideCall DEF WriteCall
    <2> QED
      BY <1>4, <2>1, <2>2
  <1>11. ASSUME NEW e \in Editor, CleanGenerated(e) PROVE TreeInv'
    <2>1. job[e] \in WriteCall /\ UNCHANGED category
      BY <1>11, JobKinds DEF CleanGenerated, Coded
    <2>2. [job[e] EXCEPT !.clean = TRUE].kind # "move"
      BY <2>1 DEF WriteCall
    <2> QED
      BY <1>4, <1>6, <1>11, <2>1, <2>2 DEF CleanGenerated
  <1>12. ASSUME NEW c \in CategoryRow, SetCategoryActive(c) PROVE TreeInv'
    <2>1. /\ UNCHANGED job /\ \A d \in CategoryRow :
               /\ category'[d].parent = category[d].parent
               /\ category'[d].status = "NONE" <=> category[d].status = "NONE"
               /\ category[d].status = "NONE" => category'[d] = category[d]
      BY <1>12 DEF SetCategoryActive, Flipped, Status, CatalogTypeOK
    <2>2. \A d \in CategoryRow : category[d].parent \in CategoryRow \union {Nil}
      BY DEF CatalogTypeOK
    <2>3. NoMutualParents'
      BY <2>1 DEF NoMutualParents
    <2>4. \A f \in Editor : job[f].kind = "move" =>
            job[f].of \in CategoryRow /\ job[f].to \in CategoryRow \union {Nil}
      BY JobKinds
    <2>5. MovesStand'
      BY <2>1, <2>2, <2>4 DEF MovesStand
    <2> QED
      BY <2>3, <2>5
  <1>13. CASE UNCHANGED <<category, job>>
    BY <1>13, OtherStepsKeepTree
  <1>14. ASSUME NEW u \in UnitRow, WriteUnit(u) PROVE UNCHANGED <<category, job>>
    BY <1>14 DEF WriteUnit
  <1>15. ASSUME NEW m \in MaterialRow, SetMaterialActive(m) PROVE UNCHANGED <<category, job>>
    BY <1>15 DEF SetMaterialActive
  <1>16. CASE UNCHANGED catalogVars
    BY <1>13, <1>16 DEF catalogVars
  <1> QED
    BY <1>1, <1>2, <1>3, <1>7, <1>8, <1>9, <1>10, <1>11, <1>12, <1>13, <1>14, <1>15, <1>16
    DEF CatalogNext, EditCategory, EditMaterial

\* Whatever creations and moves of categories interleave, no two of them come to
\* hang below each other: the row that a move reads as the parent of its new
\* parent can only be changed by a call that the foreign key waits for.
THEOREM ParentsNeverMutual == CatalogSpec => []NoMutualParents
  <1>1. CatalogInit => TreeInv
    BY CatalogStartsTyped, CatalogConstants
    DEF CatalogConstants, CatalogInit, NoCategoryRow, CategoryShape, NoJob, TreeInv,
        MovesStand, NoMutualParents
  <1>2. CatalogTypeOK' /\ TreeInv /\ [CatalogNext]_catalogVars => TreeInv'
    BY TreeStepKeeps
  <1>3. TreeInv => NoMutualParents
    BY DEF TreeInv
  <1> QED
    BY <1>1, <1>2, <1>3, CatalogTyped, PTL DEF CatalogSpec

(***************************************************************************)
(* Catalog: generated codes collide with given ones only.                  *)
(***************************************************************************)

\* How many of the first k numbers are in set g, and how many beside n.
SeenTo(g, k) == Cardinality(g \intersect 1 .. k)
SeenBeside(g, k, n) == Cardinality((g \intersect 1 .. k) \ {n})

\* Both are numbers.
LEMMA SeenIsNumber ==
  ASSUME NEW g, NEW k \in Nat, NEW n
  PROVE  SeenTo(g, k) \in Nat /\ SeenBeside(g, k, n) \in Nat
  <1>1. IsFiniteSet(1 .. k)
    BY FS_Interval
  <1>2. IsFiniteSet(g \intersect 1 .. k) /\ IsFiniteSet((g \intersect 1 .. k) \ {n})
    <2>1. /\ g \intersect 1 .. k \in SUBSET (1 .. k)
          /\ (g \intersect 1 .. k) \ {n} \in SUBSET (1 .. k)
      OBVIOUS
    <2> QED
      BY <1>1, <2>1, FS_Subset
  <1> QED
    BY <1>2, FS_CardinalityType DEF SeenTo, SeenBeside

\* More given numbers, and more numbers drawn, never make fewer that are both.
LEMMA SeenGrows ==
  ASSUME NEW g, NEW h, g \subseteq h, NEW k \in Nat, NEW j \in Nat, k <= j, NEW n
  PROVE  SeenTo(g, k) <= SeenTo(h, j) /\ SeenBeside(g, k, n) <= SeenBeside(h, j, n)
  <1> DEFINE A == g \intersect 1 .. k
             B == h \intersect 1 .. j
  <1>1. IsFiniteSet(B) /\ IsFiniteSet(B \ {n})
    <2>1. B \in SUBSET (1 .. j) /\ B \ {n} \in SUBSET (1 .. j)
      OBVIOUS
    <2>2. IsFiniteSet(1 .. j)
      BY FS_Interval
    <2> QED
      BY <2>1, <2>2, FS_Subset
  <1>2. A \in SUBSET B /\ A \ {n} \in SUBSET (B \ {n})
    OBVIOUS
  <1> HIDE DEF A, B
  <1>3. Cardinality(A) <= Cardinality(B) /\ Cardinality(A \ {n}) <= Cardinality(B \ {n})
    BY <1>1, <1>2, FS_Subset
  <1> QED
    BY <1>3 DEF A, B, SeenTo, SeenBeside

\* The next number is one more, if it is given; it is not among those before.
LEMMA NextSeen ==
  ASSUME NEW g, NEW k \in Nat
  PROVE  /\ k + 1 \in g => SeenTo(g, k + 1) = SeenTo(g, k) + 1
         /\ SeenBeside(g, k + 1, k + 1) = SeenTo(g, k)
  <1>1. IsFiniteSet(g \intersect 1 .. k)
    <2>1. g \intersect 1 .. k \in SUBSET (1 .. k) /\ IsFiniteSet(1 .. k)
      BY FS_Interval
    <2> QED
      BY <2>1, FS_Subset
  <1>2. k + 1 \notin g \intersect 1 .. k
    OBVIOUS
  <1>3. (g \intersect 1 .. k + 1) \ {k + 1} = g \intersect 1 .. k
    OBVIOUS
  <1>4. k + 1 \in g => g \intersect 1 .. k + 1 = (g \intersect 1 .. k) \union {k + 1}
    OBVIOUS
  <1>5. Cardinality((g \intersect 1 .. k) \union {k + 1})
          = Cardinality(g \intersect 1 .. k) + 1
    BY <1>1, <1>2, FS_AddElement
  <1> QED
    BY <1>3, <1>4, <1>5 DEF SeenTo, SeenBeside

\* A given number that was drawn is one more than those beside it.
LEMMA OneMoreSeen ==
  ASSUME NEW g, NEW k \in Nat, NEW n \in g, n \in 1 .. k
  PROVE  SeenTo(g, k) = SeenBeside(g, k, n) + 1
  <1> DEFINE A == g \intersect 1 .. k
  <1>1. IsFiniteSet(A)
    <2>1. A \in SUBSET (1 .. k) /\ IsFiniteSet(1 .. k)
      BY FS_Interval
    <2> QED
      BY <2>1, FS_Subset
  <1>2. n \in A
    OBVIOUS
  <1> HIDE DEF A
  <1>3. Cardinality(A \ {n}) = Cardinality(A) - 1 /\ Cardinality(A) \in Nat
    BY <1>1, <1>2, FS_RemoveElement, FS_CardinalityType
  <1> QED
    BY <1>3 DEF A, SeenTo, SeenBeside

\* Whoever has seen so many given numbers knows that so many are given.
LEMMA SeenAreGiven ==
  ASSUME NEW g \in SUBSET Number, NEW k \in Nat
  PROVE  Cardinality(g) \in Nat /\ SeenTo(g, k) <= Cardinality(g)
  <1>1. g \in SUBSET (1 .. MaxNumber) /\ IsFiniteSet(1 .. MaxNumber)
    BY FS_Interval, CatalogConstants DEF CatalogConstants, Number
  <1>2. IsFiniteSet(g)
    BY <1>1, FS_Subset
  <1>3. g \intersect 1 .. k \in SUBSET g
    OBVIOUS
  <1> QED
    BY <1>2, <1>3, FS_Subset, FS_CardinalityType DEF SeenTo

Generating(c) == c.kind = "write" /\ c.tries # 0

\* What call c may rely on, when the numbers g are given and the first k drawn: each
\* attempt that it has used up met a given number of its own, and the number it
\* holds is beside those.
Accounted(c, g, k) ==
  /\ c.kind = "write" /\ c.tries = 0 => c.clean /\ c.draft.code # Nil
  /\ Generating(c) =>
       /\ c.draws # 0
       /\ c.draft.code = Nil =>
            SeenTo(g, k) >= MaxAttempts - c.tries /\ SeenTo(g, k) >= MaxAttempts - c.draws
       /\ c.draft.code # Nil =>
            /\ c.draft.code \in 1 .. k
            /\ SeenBeside(g, k, c.draft.code) >= MaxAttempts - c.tries
  /\ c.kind = "refused" =>
       IF c.why = UsedUp THEN Cardinality(g) >= MaxAttempts ELSE c.why \in g

Holding(e, n) == Generating(job[e]) /\ job[e].draft.code = n

\* Codes of materials are given or were drawn before; the number that a call holds
\* belongs to it alone, and a material has it only if a user has given it.
CodesAccounted ==
  /\ \A e \in Editor : Accounted(job[e], given, lastNumber)
  /\ \A m \in MaterialRow, n \in Number : Has(m, n) => n \in given \/ n <= lastNumber
  /\ \A e \in Editor, n \in Number : Holding(e, n) =>
       /\ \A d \in Editor \ {e} : ~Holding(d, n)
       /\ \A m \in MaterialRow : Has(m, n) => n \in given

\* Accounts stay right while more is given and drawn.
LEMMA AccountsLast ==
  ASSUME NEW c \in Call, NEW g \in SUBSET Number, NEW h \in SUBSET Number, g \subseteq h,
         NEW k \in Nat, NEW j \in Nat, k <= j, Accounted(c, g, k)
  PROVE  Accounted(c, h, j)
  <1>1. Cardinality(g) \in Nat /\ Cardinality(h) \in Nat /\ Cardinality(g) <= Cardinality(h)
    <2>1. h \in SUBSET (1 .. MaxNumber) /\ IsFiniteSet(1 .. MaxNumber)
      BY FS_Interval, CatalogConstants DEF CatalogConstants, Number
    <2>2. IsFiniteSet(h) /\ g \in SUBSET h
      BY <2>1, FS_Subset
    <2> QED
      BY <2>2, SeenAreGiven, FS_Subset
  <1>2. /\ SeenTo(g, k) \in Nat /\ SeenTo(h, j) \in Nat
        /\ SeenTo(g, k) <= SeenTo(h, j)
    BY SeenGrows, SeenIsNumber
  <1>3. /\ SeenBeside(g, k, c.draft.code) \in Nat /\ SeenBeside(h, j, c.draft.code) \in Nat
        /\ SeenBeside(g, k, c.draft.code) <= SeenBeside(h, j, c.draft.code)
    BY SeenGrows, SeenIsNumber
  <1>4. c.kind = "write" => c \in WriteCall
    BY DEF Call, NoJob, Refused, Move
  <1>5. Generating(c) => c.tries \in Nat /\ c.draws \in Nat /\ MaxAttempts \in Nat
    BY <1>4, CatalogConstants DEF CatalogConstants, Generating, WriteCall, Attempts
  <1>6. c.draft.code \in 1 .. k => c.draft.code \in 1 .. j
    OBVIOUS
  <1>7. MaxAttempts \in Nat
    BY CatalogConstants DEF CatalogConstants
  <1>8. Generating(c) =>
       /\ c.draws # 0
       /\ c.draft.code = Nil =>
            SeenTo(h, j) >= MaxAttempts - c.tries /\ SeenTo(h, j) >= MaxAttempts - c.draws
       /\ c.draft.code # Nil =>
            /\ c.draft.code \in 1 .. j
            /\ SeenBeside(h, j, c.draft.code) >= MaxAttempts - c.tries
    BY <1>2, <1>3, <1>5, <1>6 DEF Accounted
  <1>9. c.kind = "refused" =>
       IF c.why = UsedUp THEN Cardinality(h) >= MaxAttempts ELSE c.why \in h
    BY <1>1, <1>7 DEF Accounted
  <1> QED
    BY <1>8, <1>9 DEF Accounted

CodesInv == CatalogTypeOK /\ CodesAccounted

\* A step that replaces the call of e, and writes no material: the new call is
\* accounted for, and what it holds it held before, or it was just drawn.
LEMMA CallKeepsCodes ==
  ASSUME CodesInv, CatalogTypeOK', NEW e \in Editor, NEW new,
         job' = [job EXCEPT ![e] = new], UNCHANGED <<material, given>>,
         lastNumber <= lastNumber', Accounted(new, given, lastNumber'),
         \A n \in Number : Generating(new) /\ new.draft.code = n =>
           Holding(e, n) \/ n > lastNumber
  PROVE  CodesInv'
  <1> USE DEF CodesInv
  <1>1. /\ job'[e] = new /\ \A d \in Editor \ {e} : job'[d] = job[d]
        /\ given \in SUBSET Number
        /\ lastNumber \in Nat /\ lastNumber' \in Nat
        /\ \A d \in Editor : job[d] \in Call
    <2>1. job'[e] = new /\ \A d \in Editor \ {e} : job'[d] = job[d]
      BY DEF CatalogTypeOK
    <2>2. given \in SUBSET Number /\ lastNumber \in 0 .. MaxNumber /\ lastNumber' \in 0 .. MaxNumber
      BY DEF CatalogTypeOK
    <2>3. \A d \in Editor : job[d] \in Call
      BY JobKinds
    <2> QED
      BY <2>1, <2>2, <2>3, CatalogConstants DEF CatalogConstants
  <1>2. \A d \in Editor : Accounted(job'[d], given, lastNumber')
    <2>1. ASSUME NEW d \in Editor \ {e} PROVE Accounted(job[d], given, lastNumber')
      <3>1. Accounted(job[d], given, lastNumber)
        BY DEF CodesAccounted
      <3> QED
        BY <1>1, <3>1, AccountsLast
    <2> QED
      BY <1>1, <2>1
  <1>3. \A m \in MaterialRow, n \in Number : Has(m, n)' <=> Has(m, n)
    BY DEF Has
  <1>4. \A m \in MaterialRow, n \in Number : Has(m, n)' => n \in given \/ n <= lastNumber'
    <2>1. \A m \in MaterialRow, n \in Number : Has(m, n) => n \in given \/ n <= lastNumber
      BY DEF CodesAccounted
    <2>2. \A n \in Number : n <= lastNumber => n <= lastNumber'
      BY <1>1, CatalogConstants DEF CatalogConstants, Number
    <2> QED
      BY <1>3, <2>1, <2>2
  <1>5. \A d \in Editor, n \in Number : Holding(d, n) => ~(n > lastNumber)
    <2> SUFFICES ASSUME NEW d \in Editor, NEW n \in Number, Holding(d, n)
                 PROVE  ~(n > lastNumber)
      OBVIOUS
    <2>1. Accounted(job[d], given, lastNumber)
      BY DEF CodesAccounted
    <2>2. n # Nil
      BY CatalogConstants DEF CatalogConstants, Number
    <2>3. n \in 1 .. lastNumber
      BY <2>1, <2>2 DEF Accounted, Holding
    <2> QED
      BY <1>1, <2>3
  <1>6. /\ \A n \in Number : Holding(e, n)' => Holding(e, n) \/ n > lastNumber
        /\ \A d \in Editor \ {e}, n \in Number : Holding(d, n)' <=> Holding(d, n)
    BY <1>1 DEF Holding
  <1>7. ASSUME NEW d \in Editor, NEW n \in Number, Holding(d, n)'
        PROVE  /\ \A f \in Editor \ {d} : ~Holding(f, n)'
               /\ \A m \in MaterialRow : Has(m, n)' => n \in given
    <2>1. CASE Holding(d, n)
      <3>1. \A f \in Editor \ {d} : ~Holding(f, n)
        BY <2>1 DEF CodesAccounted
      <3>2. \A f \in Editor \ {d} : ~Holding(f, n)'
        BY <1>5, <1>6, <2>1, <3>1
      <3>3. \A m \in MaterialRow : Has(m, n) => n \in given
        BY <2>1 DEF CodesAccounted
      <3> QED
        BY <1>3, <3>2, <3>3
    <2>2. CASE ~Holding(d, n)
      <3>1. d = e /\ n > lastNumber
        BY <1>6, <1>7, <2>2
      <3>2. \A f \in Editor \ {e} : ~Holding(f, n)'
        BY <1>5, <1>6, <3>1
      <3>3. ~(n <= lastNumber)
        BY <1>1, <3>1, CatalogConstants DEF CatalogConstants, Number
      <3>4. \A m \in MaterialRow : Has(m, n) => n \in given
        BY <3>3 DEF CodesAccounted
      <3> QED
        BY <1>3, <3>1, <3>2, <3>4
    <2> QED
      BY <2>1, <2>2
  <1>8. given' = given
    OBVIOUS
  <1> QED
    BY <1>2, <1>4, <1>7, <1>8 DEF CodesAccounted

\* A step that leaves the codes, the numbers and the calls alone.
LEMMA QuietKeepsCodes ==
  ASSUME CodesInv, CatalogTypeOK', UNCHANGED <<given, lastNumber, job>>,
         \A m \in MaterialRow, n \in Number : Has(m, n)' <=> Has(m, n)
  PROVE  CodesInv'
  <1>1. \A e \in Editor, n \in Number : Holding(e, n)' <=> Holding(e, n)
    BY DEF Holding
  <1> QED
    BY <1>1 DEF CodesInv, CodesAccounted

\* Every step keeps the account of the codes: of numbers drawn, given and met.
LEMMA CodesStepKeeps ==
  ASSUME CodesInv, CatalogTypeOK', [CatalogNext]_catalogVars
  PROVE  CodesInv'
  <1> USE DEF CodesInv
  <1>0. /\ lastNumber \in Nat /\ MaxAttempts \in Nat /\ MaxAttempts # 0
        /\ given \in SUBSET Number
        /\ \A n \in Number : n # Nil /\ n # 0 /\ n \in Nat
    BY CatalogConstants DEF CatalogConstants, CatalogTypeOK, Number
  <1>1. ASSUME NEW e \in Editor, NEW new, job' = [job EXCEPT ![e] = new],
               new.kind \notin {"write", "refused"}, UNCHANGED <<material, given, lastNumber>>
        PROVE  CodesInv'
    <2>1. Accounted(new, given, lastNumber') /\ ~Generating(new) /\ lastNumber <= lastNumber'
      BY <1>0, <1>1 DEF Accounted, Generating
    <2> QED
      BY <1>1, <2>1, CallKeepsCodes
  <1>2. NoJob.kind = "idle" /\ \A c, p : Move(c, p).kind = "move"
    BY DEF NoJob, Move
  <1>3. ASSUME NEW e \in Editor, NEW c \in CategoryRow, NEW p \in CategoryRow \union {Nil},
               CheckMove(e, c, p)
        PROVE  CodesInv'
    BY <1>1, <1>2, <1>3 DEF CheckMove
  <1>4. ASSUME NEW e \in Editor, CommitMove(e) \/ EndDeadlock(e) \/ ReadAnswer(e)
        PROVE  CodesInv'
    BY <1>1, <1>2, <1>4 DEF CommitMove, EndDeadlock, ReadAnswer
  <1>5. ASSUME NEW e \in Editor, NEW m \in MaterialRow, NEW d \in MaterialForm,
               CheckCreate(e, m, d) \/ CheckUpdate(e, m, d)
        PROVE  CodesInv'
    <2>1. UNCHANGED <<material, given, lastNumber>>
      BY <1>5 DEF CheckCreate, CheckUpdate
    <2>2. CASE d.code = Nil
      <3> DEFINE new == Write(m, d, MaxAttempts, MaxAttempts)
      <3>1. job' = [job EXCEPT ![e] = new]
        BY <1>5, <2>2 DEF CheckCreate, CheckUpdate
      <3>2. /\ new.kind = "write" /\ new.tries = MaxAttempts /\ new.draws = MaxAttempts
            /\ new.draft.code = Nil
        BY <2>2 DEF Write
      <3> HIDE DEF new
      <3>3. SeenTo(given, lastNumber) \in Nat
        BY <1>0, SeenIsNumber
      <3>4. SeenTo(given, lastNumber) >= MaxAttempts - MaxAttempts
        BY <1>0, <3>3
      <3>5. Accounted(new, given, lastNumber)
        BY <1>0, <3>2, <3>4 DEF Accounted
      <3>6. \A n \in Number : new.draft.code # n
        BY <1>0, <3>2
      <3>7. lastNumber' = lastNumber /\ lastNumber <= lastNumber'
        BY <1>0, <2>1
      <3>8. Accounted(new, given, lastNumber')
        BY <3>5, <3>7
      <3> QED
        BY <2>1, <3>1, <3>6, <3>7, <3>8, CallKeepsCodes
    <2>3. CASE d.code # Nil
      <3> DEFINE new == Write(m, d, 0, 0)
      <3>1. job' = [job EXCEPT ![e] = new]
        BY <1>5, <2>3 DEF CheckCreate, CheckUpdate
      <3>2. /\ new.kind = "write" /\ new.tries = 0 /\ new.clean /\ new.draft.code # Nil
        BY <2>3 DEF Write
      <3> HIDE DEF new
      <3>3. Accounted(new, given, lastNumber) /\ ~Generating(new)
        BY <3>2 DEF Accounted, Generating
      <3>4. lastNumber' = lastNumber /\ lastNumber <= lastNumber'
        BY <1>0, <2>1
      <3>5. Accounted(new, given, lastNumber')
        BY <3>3, <3>4
      <3> QED
        BY <2>1, <3>1, <3>3, <3>4, <3>5, CallKeepsCodes
    <2> QED
      BY <2>2, <2>3
  <1>6. ASSUME NEW e \in Editor, Draw(e) PROVE CodesInv'
    <2> DEFINE n == lastNumber + 1
    <2>1. /\ job[e] \in WriteCall /\ job[e].draft.code = Nil /\ lastNumber' = n /\ n \in Number
          /\ UNCHANGED <<material, given>> /\ job' = [job EXCEPT ![e] = job'[e]]
      BY <1>6, DrawCall DEF Draw
    <2>2. Accounted(job[e], given, lastNumber)
      BY DEF CodesAccounted
    <2>3. /\ Generating(job[e])
          /\ job[e].draws \in 1 .. MaxAttempts /\ job[e].tries \in 1 .. MaxAttempts
          /\ SeenTo(given, lastNumber) >= MaxAttempts - job[e].tries
          /\ SeenTo(given, lastNumber) >= MaxAttempts - job[e].draws
      <3>1. /\ job[e].kind = "write" /\ job[e].draws \in 0 .. MaxAttempts
            /\ job[e].tries \in 0 .. MaxAttempts
        BY <2>1 DEF WriteCall, Attempts
      <3>2. Generating(job[e])
        BY <2>1, <2>2, <3>1 DEF Accounted, Generating
      <3>3. job[e].draws # 0 /\ job[e].tries # 0
        BY <2>2, <3>2 DEF Accounted, Generating
      <3>4. /\ SeenTo(given, lastNumber) >= MaxAttempts - job[e].tries
            /\ SeenTo(given, lastNumber) >= MaxAttempts - job[e].draws
        BY <2>1, <2>2, <3>2 DEF Accounted
      <3> QED
        BY <1>0, <3>1, <3>2, <3>3, <3>4
    <2>4. /\ n \in given => SeenTo(given, n) = SeenTo(given, lastNumber) + 1
          /\ SeenBeside(given, n, n) = SeenTo(given, lastNumber)
          /\ SeenTo(given, lastNumber) \in Nat
      BY <1>0, NextSeen, SeenIsNumber
    <2>5. lastNumber <= n /\ n \in 1 .. n /\ n > lastNumber /\ n \in Nat
      BY <1>0
    <2>6. \A m \in MaterialRow : Has(m, n) => n \in given
      BY <1>0, <2>1, <2>5 DEF CodesAccounted
    <2>7. Taken(job[e].of, n) => n \in given
      BY <2>6 DEF Taken
    <2>8. CASE ~Taken(job[e].of, n)
      <3>1. /\ job'[e] \in WriteCall /\ job'[e].draft.code = n
            /\ job'[e].tries = job[e].tries /\ job'[e].draws = job[e].draws
        BY <1>6, <2>8, DrawCall DEF NextNumber
      <3>2. job'[e].kind = "write"
        BY <3>1 DEF WriteCall
      <3>3. n # Nil
        BY <1>0, <2>1
      <3> HIDE DEF n
      <3>4. Accounted(job'[e], given, n)
        BY <2>3, <2>4, <2>5, <3>1, <3>2, <3>3 DEF Accounted
      <3>5. \A k \in Number : job'[e].draft.code = k => k > lastNumber
        BY <2>5, <3>1
      <3> QED
        BY <2>1, <2>5, <3>4, <3>5, CallKeepsCodes
    <2>9. CASE Taken(job[e].of, n) /\ job[e].draws > 1
      <3>1. /\ job'[e] \in WriteCall /\ job'[e].draft = job[e].draft
            /\ job'[e].tries = job[e].tries /\ job'[e].draws = job[e].draws - 1
        BY <1>6, <2>9, DrawCall DEF NextNumber
      <3>2. job'[e].kind = "write" /\ job'[e].draft.code = Nil
        BY <2>1, <3>1 DEF WriteCall
      <3>3. SeenTo(given, n) = SeenTo(given, lastNumber) + 1
        BY <2>4, <2>7, <2>9
      <3> HIDE DEF n
      <3>4. /\ SeenTo(given, n) >= MaxAttempts - job[e].tries
            /\ SeenTo(given, n) >= MaxAttempts - (job[e].draws - 1)
            /\ job[e].draws - 1 # 0 /\ job[e].tries # 0
        BY <1>0, <2>3, <2>4, <2>9, <3>3
      <3>5. Accounted(job'[e], given, n)
        BY <3>1, <3>2, <3>4 DEF Accounted, Generating
      <3>6. \A k \in Number : job'[e].draft.code # k
        BY <1>0, <3>2
      <3> QED
        BY <2>1, <2>5, <3>5, <3>6, CallKeepsCodes
    <2>10. CASE Taken(job[e].of, n) /\ ~(job[e].draws > 1)
      <3>1. job'[e] = Refused(UsedUp)
        BY <1>6, <2>10, DrawCall DEF NextNumber
      <3>2. SeenTo(given, n) = SeenTo(given, lastNumber) + 1
        BY <2>4, <2>7, <2>10
      <3>3. SeenTo(given, n) <= Cardinality(given) /\ Cardinality(given) \in Nat
        BY <1>0, <2>5, SeenAreGiven
      <3> HIDE DEF n
      <3>4. Cardinality(given) >= MaxAttempts
        BY <1>0, <2>3, <2>4, <2>10, <3>2, <3>3
      <3>5. job'[e].kind = "refused" /\ job'[e].why = UsedUp
        BY <3>1 DEF Refused
      <3>6. Accounted(job'[e], given, n) /\ ~Generating(job'[e])
        BY <3>4, <3>5 DEF Accounted, Generating
      <3> QED
        BY <2>1, <2>5, <3>6, CallKeepsCodes
    <2> QED
      BY <2>8, <2>9, <2>10
  <1>7. ASSUME NEW e \in Editor, Coded(e), job[e].tries # 0
        PROVE  LET code == job[e].draft.code IN
               /\ job[e] \in WriteCall /\ Generating(job[e])
               /\ job[e].tries \in 1 .. MaxAttempts
               /\ code \in Number /\ code \in 1 .. lastNumber /\ Holding(e, code)
               /\ SeenBeside(given, lastNumber, code) >= MaxAttempts - job[e].tries
               /\ \A m : Taken(m, code) => code \in given
    <2>1. job[e] \in WriteCall /\ Generating(job[e]) /\ job[e].draft.code # Nil
      BY <1>7, JobKinds DEF Coded, Generating
    <2>2. Accounted(job[e], given, lastNumber)
      BY DEF CodesAccounted
    <2>3. /\ job[e].draft.code \in 1 .. lastNumber
          /\ SeenBeside(given, lastNumber, job[e].draft.code) >= MaxAttempts - job[e].tries
      BY <2>1, <2>2 DEF Accounted
    <2>4. job[e].draft.code \in Number
      BY <2>3, CatalogConstants DEF CatalogConstants, Number, CatalogTypeOK
    <2>5. job[e].tries \in 1 .. MaxAttempts
      BY <1>0, <1>7, <2>1 DEF WriteCall, Attempts
    <2>6. Holding(e, job[e].draft.code)
      BY <2>1 DEF Holding
    <2>7. \A m \in MaterialRow : Has(m, job[e].draft.code) => job[e].draft.code \in given
      BY <2>4, <2>6 DEF CodesAccounted
    <2> QED
      BY <2>1, <2>3, <2>4, <2>5, <2>6, <2>7 DEF Taken
  <1>8. ASSUME NEW e \in Editor, CleanGenerated(e) PROVE CodesInv'
    <2> DEFINE code == job[e].draft.code
    <2>1. /\ Coded(e) /\ ~job[e].clean /\ UNCHANGED <<material, given, lastNumber>>
      BY <1>8 DEF CleanGenerated
    <2>2. Accounted(job[e], given, lastNumber)
      BY DEF CodesAccounted
    <2>3. job[e].tries # 0
      BY <2>1, <2>2 DEF Accounted, Coded
    <2>4. /\ job[e] \in WriteCall /\ Generating(job[e]) /\ code \in Number
          /\ \A m : Taken(m, code) => code \in given
      BY <1>7, <2>1, <2>3
    <2>5. CASE Taken(job[e].of, code)
      <3>1. job' = [job EXCEPT ![e] = Refused(code)]
        BY <1>8, <2>5 DEF CleanGenerated
      <3>2. Refused(code).kind = "refused" /\ Refused(code).why = code
        BY DEF Refused
      <3>3. code # UsedUp /\ code \in given
        BY <1>0, <2>4, <2>5 DEF UsedUp
      <3> HIDE DEF code
      <3>4. Accounted(Refused(code), given, lastNumber) /\ ~Generating(Refused(code))
        BY <3>2, <3>3 DEF Accounted, Generating
      <3>5. lastNumber' = lastNumber /\ lastNumber <= lastNumber'
        BY <1>0, <2>1
      <3> DEFINE new == Refused(code)
      <3>6. Accounted(new, given, lastNumber') /\ ~Generating(new)
        BY <3>4, <3>5
      <3> HIDE DEF new
      <3>7. job' = [job EXCEPT ![e] = new]
        BY <3>1 DEF new
      <3> QED
        BY <2>1, <3>5, <3>6, <3>7, CallKeepsCodes
    <2>6. CASE ~Taken(job[e].of, code)
      <3> DEFINE new == [job[e] EXCEPT !.clean = TRUE]
      <3>1. job' = [job EXCEPT ![e] = new]
        BY <1>8, <2>6 DEF CleanGenerated
      <3>2. /\ new.kind = "write" /\ new.tries = job[e].tries /\ new.draws = job[e].draws
            /\ new.draft = job[e].draft
        BY <2>4 DEF WriteCall
      <3> HIDE DEF new
      <3>3. Generating(new) /\ Accounted(new, given, lastNumber)
        BY <2>2, <2>3, <2>4, <3>2 DEF Accounted, Generating
      <3>4. \A n \in Number : new.draft.code = n => Holding(e, n)
        BY <2>4, <3>2 DEF Holding
      <3>5. lastNumber' = lastNumber /\ lastNumber <= lastNumber'
        BY <1>0, <2>1
      <3>6. Accounted(new, given, lastNumber')
        BY <3>3, <3>5
      <3> QED
        BY <2>1, <3>1, <3>4, <3>5, <3>6, CallKeepsCodes
    <2> QED
      BY <2>5, <2>6
  <1>9. ASSUME NEW e \in Editor, Collide(e) PROVE CodesInv'
    <2> DEFINE code == job[e].draft.code
    <2>1. /\ Coded(e) /\ Taken(job[e].of, code)
          /\ UNCHANGED <<material, given, lastNumber>>
          /\ job' = [job EXCEPT ![e] = job'[e]]
      BY <1>9, CollideCall DEF Collide, Ready
    <2>2. CASE job[e].tries = 0
      <3>1. job'[e] = NoJob
        BY <1>9, <2>2, CollideCall
      <3> QED
        BY <1>1, <1>2, <2>1, <3>1
    <2>3. CASE job[e].tries # 0
      <3>1. /\ job[e].tries \in 1 .. MaxAttempts
            /\ code \in 1 .. lastNumber /\ code \in given
            /\ SeenBeside(given, lastNumber, code) >= MaxAttempts - job[e].tries
        BY <1>7, <2>1, <2>3
      <3> HIDE DEF code
      <3>2. /\ SeenTo(given, lastNumber) = SeenBeside(given, lastNumber, code) + 1
            /\ SeenTo(given, lastNumber) \in Nat
            /\ SeenBeside(given, lastNumber, code) \in Nat
        BY <1>0, <3>1, OneMoreSeen, SeenIsNumber
      <3>3. CASE job[e].tries > 1
        <4>1. /\ job'[e] \in WriteCall /\ job'[e].draft.code = Nil
              /\ job'[e].tries = job[e].tries - 1 /\ job'[e].draws = MaxAttempts
          BY <1>9, <2>3, <3>3, CollideCall
        <4>2. /\ SeenTo(given, lastNumber) >= MaxAttempts - (job[e].tries - 1)
              /\ SeenTo(given, lastNumber) >= MaxAttempts - MaxAttempts
              /\ job[e].tries - 1 # 0
          BY <1>0, <3>1, <3>2, <3>3
        <4>3. job'[e].kind = "write"
          BY <4>1 DEF WriteCall
        <4>4. Accounted(job'[e], given, lastNumber)
          BY <1>0, <4>1, <4>2, <4>3 DEF Accounted, Generating
        <4>5. \A n \in Number : job'[e].draft.code # n
          BY <1>0, <4>1
        <4> QED
          BY <1>0, <2>1, <4>4, <4>5, CallKeepsCodes
      <3>4. CASE ~(job[e].tries > 1)
        <4>1. job'[e] = Refused(UsedUp)
          BY <1>9, <2>3, <3>4, CollideCall
        <4>2. SeenTo(given, lastNumber) <= Cardinality(given) /\ Cardinality(given) \in Nat
          BY <1>0, SeenAreGiven
        <4>3. Cardinality(given) >= MaxAttempts
          BY <1>0, <3>1, <3>2, <3>4, <4>2
        <4>4. job'[e].kind = "refused" /\ job'[e].why = UsedUp
          BY <4>1 DEF Refused
        <4>5. Accounted(job'[e], given, lastNumber) /\ ~Generating(job'[e])
          BY <4>3, <4>4 DEF Accounted, Generating
        <4> QED
          BY <1>0, <2>1, <4>5, CallKeepsCodes
      <3> QED
        BY <3>3, <3>4
    <2> QED
      BY <2>2, <2>3
  <1>10. ASSUME NEW e \in Editor, CommitMaterial(e) PROVE CodesInv'
    <2> DEFINE code == job[e].draft.code
    <2>1. PICK row \in MaterialFields :
            row.of = job[e].draft /\ material' = [material EXCEPT ![job[e].of] = row]
      BY <1>10, WhatIsCommitted
    <2>2. /\ Coded(e) /\ UNCHANGED lastNumber
          /\ job' = [job EXCEPT ![e] = NoJob]
          /\ given \subseteq given'
          /\ job[e].tries = 0 => given' = given \union ({code} \ {Plain})
      BY <1>10, WhatIsCommitted DEF CommitMaterial, Ready
    <2>3. /\ job'[e] = NoJob /\ \A d \in Editor \ {e} : job'[d] = job[d]
      BY <2>2 DEF CatalogTypeOK
    <2>4. \A m \in MaterialRow, n \in Number : Has(m, n)' => Has(m, n) \/ n = code
      BY <2>1 DEF Has, CatalogTypeOK
    <2>5. code \in Number =>
            code \in given' \/ (code <= lastNumber /\ Holding(e, code))
      <3>1. CASE job[e].tries = 0
        BY <1>0, <2>2, <3>1 DEF Plain
      <3>2. CASE job[e].tries # 0
        <4>1. code \in 1 .. lastNumber /\ Holding(e, code)
          BY <1>7, <2>2, <3>2
        <4> QED
          BY <1>0, <4>1
      <3> QED
        BY <3>1, <3>2
    <2> HIDE DEF code
    <2>6. \A d \in Editor, n \in Number : Holding(d, n)' => d # e /\ Holding(d, n)
      BY <1>2, <2>3 DEF Holding, Generating
    <2>7. \A m \in MaterialRow, n \in Number : Has(m, n)' => n \in given' \/ n <= lastNumber'
      <3>1. \A m \in MaterialRow, n \in Number : Has(m, n) => n \in given \/ n <= lastNumber
        BY DEF CodesAccounted
      <3> QED
        BY <2>2, <2>4, <2>5, <3>1
    <2>8. ASSUME NEW d \in Editor, NEW n \in Number, Holding(d, n)'
          PROVE  /\ \A f \in Editor \ {d} : ~Holding(f, n)'
                 /\ \A m \in MaterialRow : Has(m, n)' => n \in given'
      <3>1. d # e /\ Holding(d, n)
        BY <2>6, <2>8
      <3>2. /\ \A f \in Editor \ {d} : ~Holding(f, n)
            /\ \A m \in MaterialRow : Has(m, n) => n \in given
        BY <3>1 DEF CodesAccounted
      <3>3. \A m \in MaterialRow : Has(m, n)' => n \in given'
        BY <2>2, <2>4, <2>5, <3>1, <3>2
      <3> QED
        BY <2>6, <3>2, <3>3
    <2>9. \A d \in Editor : Accounted(job'[d], given', lastNumber')
      <3>1. Accounted(NoJob, given', lastNumber)
        BY <1>2 DEF Accounted, Generating
      <3>2. given' \in SUBSET Number
        BY DEF CatalogTypeOK
      <3>3. ASSUME NEW d \in Editor \ {e} PROVE Accounted(job[d], given', lastNumber)
        <4>1. Accounted(job[d], given, lastNumber) /\ job[d] \in Call
          BY JobKinds DEF CodesAccounted
        <4> QED
          BY <1>0, <2>2, <3>2, <4>1, AccountsLast
      <3> QED
        BY <2>2, <2>3, <3>1, <3>3
    <2> QED
      BY <2>7, <2>8, <2>9 DEF CodesAccounted
  <1>11. ASSUME NEW m \in MaterialRow, SetMaterialActive(m) PROVE CodesInv'
    <2>1. \A k \in MaterialRow, n \in Number : Has(k, n)' <=> Has(k, n)
      <3>1. material[m] \in MaterialFields
        BY <1>11 DEF SetMaterialActive, CatalogTypeOK, MaterialFields
      <3>2. /\ material'[m].of = material[m].of
            /\ material'[m].status \in {"ACTIVE", "INACTIVE"}
            /\ \A k \in MaterialRow \ {m} : material'[k] = material[k]
        BY <1>11, <3>1 DEF SetMaterialActive, CatalogTypeOK, Flipped, MaterialFields
      <3>3. material[m] # NoMaterialRow /\ material'[m] # NoMaterialRow
        BY <1>11, <3>2 DEF SetMaterialActive, NoMaterialRow, MaterialShape
      <3> QED
        BY <3>2, <3>3 DEF Has
    <2> QED
      BY <1>11, <2>1, QuietKeepsCodes DEF SetMaterialActive
  <1>12. CASE UNCHANGED <<material, given, lastNumber, job>>
    <2>1. \A k \in MaterialRow, n \in Number : Has(k, n)' <=> Has(k, n)
      BY <1>12 DEF Has
    <2> QED
      BY <1>12, <2>1, QuietKeepsCodes
  <1>13. ASSUME NEW c \in CategoryRow, SetCategoryActive(c)
         PROVE  UNCHANGED <<material, given, lastNumber, job>>
    BY <1>13 DEF SetCategoryActive
  <1>14. ASSUME NEW u \in UnitRow, WriteUnit(u)
         PROVE  UNCHANGED <<material, given, lastNumber, job>>
    BY <1>14 DEF WriteUnit
  <1>15. ASSUME NEW e \in Editor, NEW c \in CategoryRow, NEW p \in CategoryRow \union {Nil},
                CreateCategory(e, c, p)
         PROVE  UNCHANGED <<material, given, lastNumber, job>>
    BY <1>15 DEF CreateCategory
  <1>16. CASE UNCHANGED catalogVars
    BY <1>12, <1>16 DEF catalogVars
  <1> QED
    BY <1>3, <1>4, <1>5, <1>6, <1>8, <1>9, <1>10, <1>11, <1>12, <1>13, <1>14, <1>15, <1>16
    DEF CatalogNext, EditCategory, EditMaterial

\* However many create materials at once, a call is refused only because of numbers
\* that users have given themselves: every attempt of it that fails meets another
\* one of these, since no two calls ever hold the same drawn number.
THEOREM RefusalsAreEarned == CatalogSpec => []RefusedOnlyIfGiven
  <1>1. CatalogInit => CodesInv
    <2>1. CatalogInit => CatalogTypeOK
      BY CatalogStartsTyped
    <2>2. CatalogInit => CodesAccounted
      <3> SUFFICES ASSUME CatalogInit PROVE CodesAccounted
        OBVIOUS
      <3>1. \A e \in Editor : job[e] = NoJob /\ NoJob.kind = "idle"
        BY DEF CatalogInit, NoJob
      <3>2. \A e \in Editor : Accounted(job[e], given, lastNumber)
        BY <3>1 DEF Accounted, Generating
      <3>3. \A e \in Editor, n \in Number : ~Holding(e, n)
        BY <3>1 DEF Holding, Generating
      <3>4. \A m \in MaterialRow, n \in Number : ~Has(m, n)
        BY DEF CatalogInit, Has
      <3> QED
        BY <3>2, <3>3, <3>4 DEF CodesAccounted
    <2> QED
      BY <2>1, <2>2 DEF CodesInv
  <1>2. CatalogTypeOK' /\ CodesInv /\ [CatalogNext]_catalogVars => CodesInv'
    BY CodesStepKeeps
  <1>3. CodesInv => RefusedOnlyIfGiven
    BY DEF CodesInv, CodesAccounted, Accounted, RefusedOnlyIfGiven
  <1> QED
    BY <1>1, <1>2, <1>3, CatalogTyped, PTL DEF CatalogSpec

-----------------------------------------------------------------------------
(***************************************************************************)
(* The office: each component behaves in it as it does by itself, whatever *)
(* desk is served.                                                         *)
(***************************************************************************)

\* A behaviour of the office is one of every component.
LEMMA OfficeIsEveryDesk ==
  OfficeSpec => /\ Spec
                /\ CatalogSpec
                /\ AccessSpec
                /\ PagesSpec
                /\ EmployeesSpec
  <1>1. OfficeInit => Init /\ CatalogInit /\ AccessInit /\ PagesInit /\ EmployeesInit
    BY DEF OfficeInit
  <1>2. [OfficeNext]_officeVars => [Next]_vars
    BY DEF OfficeNext, officeVars, notCatalog, notAccess, notPages, notEmployees
  <1>3. [OfficeNext]_officeVars => [CatalogNext]_catalogVars
    BY DEF OfficeNext, officeVars, notProcurement, notAccess, notPages, notEmployees
  <1>4. [OfficeNext]_officeVars => [AccessNext]_accessVars
    BY DEF OfficeNext, officeVars, notProcurement, notCatalog, notPages, notEmployees
  <1>5. [OfficeNext]_officeVars => [PagesNext]_pageVars
    BY DEF OfficeNext, officeVars, notProcurement, notCatalog, notAccess, notEmployees
  <1>6. [OfficeNext]_officeVars => [EmployeesNext]_employeeVars
    BY DEF OfficeNext, officeVars, notProcurement, notCatalog, notAccess, notPages
  <1> QED
    BY <1>1, <1>2, <1>3, <1>4, <1>5, <1>6, PTL
    DEF OfficeSpec, Spec, CatalogSpec, AccessSpec, PagesSpec, EmployeesSpec

\* The rows, locks and calls of every component of the office stay what they are
\* declared to be.
THEOREM OfficeStaysTyped == OfficeSpec => []OfficeTypeOK
  <1>1. AccessSpec => []AccessInv
    BY AccessInitInv, AccessStep, PTL DEF AccessSpec
  <1>2. PagesSpec => []PagesInv
    BY PagesInitInv, PagesStep, PTL DEF PagesSpec
  <1>3. TypeOK /\ CatalogTypeOK /\ AccessInv /\ PagesInv /\ EmployeesInv => OfficeTypeOK
    BY DEF AccessInv, PagesInv, EmployeesInv, EmployeeTyping, OfficeTypeOK
  <1> QED
    BY <1>1, <1>2, <1>3, OfficeIsEveryDesk, TypeCorrect, CatalogTyped, EmployeesInvariance, PTL
=============================================================================
