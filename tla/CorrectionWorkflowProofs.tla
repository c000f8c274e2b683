----------------------- MODULE CorrectionWorkflowProofs -----------------------
(***************************************************************************)
(* What holds of CorrectionWorkflow for every set of users, workers,       *)
(* requests and corrections, whatever others post.                         *)
(*                                                                         *)
(* The argument: a request is locked by one worker at a time, so the       *)
(* status a worker read is the status still (StatusIsCurrent); only a      *)
(* pending request is decided, once; and nobody else posts under an        *)
(* identifier derived from a request.  What is posted, by a decision or by *)
(* others, is admissible, which keeps the ledger sound (SoundPosted).      *)
(***************************************************************************)
EXTENDS CorrectionWorkflow, PostingLemmas

LocksExclusive ==
  \A v, w \in Worker : \A r \in Request : Locks(v, r) /\ Locks(w, r) => v = w

StatusIsCurrent ==
  \A w \in Worker : Decides(w) /\ task[w].status # "unread" =>
    task[w].status = petition[task[w].request].status

RequestsExist ==
  \A w \in Worker : Decides(w) => petition[task[w].request] # Unasked

NobodyDecidesHisOwn ==
  \A r \in Request : petition[r].status = "APPROVED" =>
    petition[r].decider # petition[r].requester

IInv ==
  /\ TypeOK
  /\ Sound(ledger, stock)
  /\ RequestsExist
  /\ LocksExclusive
  /\ StatusIsCurrent
  /\ DecisionsMatchLedger
  /\ ApprovalsAreTrue
  /\ NobodyDecidesHisOwn

-----------------------------------------------------------------------------
(***************************************************************************)
(* Lemmas about the ledger                                                 *)
(***************************************************************************)

\* The vocabulary that StockLedger uses is this module's.
LEMMA SameVocabulary ==
  ASSUME NEW l, NEW o, NEW r, NEW b
  PROVE  /\ L!OriginalAllows(l, r) <=> OriginalAllows(l, r)
         /\ L!LedgerBalance(l, b) = LedgerBalance(l, b)
         /\ L!Returnable(l, o) = Returnable(l, o)
         /\ L!Equivalent(l, o) = Equivalent(l, o)
  <1>1. L!LedgerBalance(l, b) = LedgerBalance(l, b)
    BY DEF LedgerBalance, L!LedgerBalance, Effect, L!Effect, Total, L!Total,
       MapThenSumSet, L!MapThenSumSet, MapThenFoldSet, L!MapThenFoldSet
  <1>2. \A k : L!Returnable(l, k) = Returnable(l, k)
    BY DEF Returnable, L!Returnable, ReturnsOf, L!ReturnsOf, EntriesOf,
       L!EntriesOf, Total, L!Total, MapThenSumSet, L!MapThenSumSet,
       MapThenFoldSet, L!MapThenFoldSet
  <1>3. \A k : L!Equivalent(l, k) = Equivalent(l, k)
    BY DEF Equivalent, L!Equivalent, CorrectionsOf, L!CorrectionsOf, EntriesOf,
       L!EntriesOf, Total, L!Total, MapThenSumSet, L!MapThenSumSet,
       MapThenFoldSet, L!MapThenFoldSet
  <1>4. L!ReturnAllowed(l, r) <=> ReturnAllowed(l, r)
    BY <1>2 DEF ReturnAllowed, L!ReturnAllowed, MaterialOf, ConditionOf,
       L!MaterialOf, L!ConditionOf
  <1>5. L!CorrectionAllowed(l, r) <=> CorrectionAllowed(l, r)
    BY <1>3 DEF CorrectionAllowed, L!CorrectionAllowed, Affected, L!Affected,
       Touched, L!Touched, Proposed, L!Proposed
  <1> QED
    BY <1>1, <1>2, <1>3, <1>4, <1>5 DEF OriginalAllows, L!OriginalAllows

\* A posting of the ledger fills an empty place in it, keeps the types and keeps
\* the ledger sound.
LEMMA LedgerPost ==
  ASSUME L!TypeOK, Sound(ledger, stock),
         NEW o \in OperationId, NEW r \in Posting, WellFormed(r),
         L!Post(o, r)
  PROVE  /\ L!TypeOK'
         /\ Sound(ledger, stock)'
         /\ ledger[o] = NoPosting
         /\ ledger' = [ledger EXCEPT ![o] = r]
  <1>1. /\ L!NoPosting = NoPosting
        /\ L!Touched(r) = Touched(r)
        /\ L!Bucket = Bucket
        /\ L!Posting = Posting
    BY DEF NoPosting, L!NoPosting, Shape, L!Shape, Touched, L!Touched,
           Bucket, L!Bucket, Posting, L!Posting
  <1>2. ASSUME NEW b, NEW v
        PROVE  /\ L!BucketAllows(r, b, v) <=> BucketAllows(r, b, v)
               /\ L!NewQuantity(r, b, v) = NewQuantity(r, b, v)
    BY DEF BucketAllows, L!BucketAllows, NewQuantity, L!NewQuantity, Effect,
           L!Effect
  <1>3. /\ ledger[o] = NoPosting
        /\ OriginalAllows(ledger, r)
        /\ \A b \in Touched(r) : BucketAllows(r, b, stock[b])
        /\ ledger' = [ledger EXCEPT ![o] = r]
        /\ stock' = [b \in Bucket |->
                       IF b \in Touched(r) THEN NewQuantity(r, b, stock[b])
                                           ELSE stock[b]]
    BY <1>1, <1>2, SameVocabulary DEF L!Post, L!Admissible
  <1>4. /\ ledger \in [OperationId -> Posting \union {NoPosting}]
        /\ stock \in [Bucket -> Nat]
    BY <1>1 DEF L!TypeOK
  <1>5. \A b \in Touched(r) : NewQuantity(r, b, stock[b]) \in Nat
    BY <1>3, <1>4, NewQuantityNat, TouchedBuckets
  <1>6. stock' \in [Bucket -> Nat]
    BY <1>3, <1>4, <1>5
  <1>7. ledger' \in [OperationId -> Posting \union {NoPosting}]
    BY <1>3, <1>4
  <1>8. Sound(Posted(ledger, o, r), StockAfter(stock, r))
    BY <1>3, <1>4, SoundPosted
  <1>9. ledger' = Posted(ledger, o, r) /\ stock' = StockAfter(stock, r)
    BY <1>3 DEF Posted, StockAfter
  <1>10. Sound(ledger', stock')
    BY <1>8, <1>9, Zenon
  <1> QED
    BY <1>1, <1>3, <1>6, <1>7, <1>10 DEF L!TypeOK

\* What others post is posted under an identifier of no request.
LEMMA LedgerNext ==
  ASSUME L!TypeOK, Sound(ledger, stock), L!Next
  PROVE  /\ L!TypeOK'
         /\ Sound(ledger, stock)'
         /\ \A r \in Request : ledger'[r] = ledger[r]
  <1>1. PICK job \in Workload : L!Post(job[1], job[2])
    BY DEF L!Next
  <1>2. /\ job[1] \in OperationId /\ job[2] \in Posting /\ WellFormed(job[2])
        /\ job[1] \notin Request /\ Request \subseteq OperationId
    BY CorrectionConstants DEF CorrectionConstants
  <1>3. /\ L!TypeOK' /\ Sound(ledger, stock)' /\ ledger[job[1]] = NoPosting
        /\ ledger' = [ledger EXCEPT ![job[1]] = job[2]]
    BY <1>1, <1>2, LedgerPost
  <1> QED
    BY <1>2, <1>3 DEF L!TypeOK

-----------------------------------------------------------------------------
(***************************************************************************)
(* The inductive invariant                                                 *)
(***************************************************************************)

\* A request that is pending asks for a correction, and has posted nothing.
LEMMA PendingFacts ==
  ASSUME IInv, NEW r \in Request, petition[r].status = "PENDING"
  PROVE  /\ petition[r].posting \in Claim
         /\ petition[r].posting \in Posting /\ WellFormed(petition[r].posting)
         /\ ledger[r] = NoPosting
         /\ r \in OperationId
  <1>1. petition[r] \in Petition /\ petition[r] # Unasked
    BY DEF IInv, TypeOK, Unasked
  <1>2. petition[r].posting \in Claim
    BY <1>1 DEF Petition
  <1>3. ledger[r] = NoPosting
    BY DEF IInv, DecisionsMatchLedger
  <1> QED
    BY <1>2, <1>3, CorrectionConstants DEF CorrectionConstants

LEMMA InitIInv == Init => IInv
  <1> SUFFICES ASSUME Init PROVE IInv
    OBVIOUS
  <1>1. L!TypeOK
    BY DEF Init, L!Init, L!TypeOK
  <1>2. TypeOK
    BY <1>1 DEF Init, TypeOK, Petition
  <1>2a. Sound(ledger, stock)
    <2>1. /\ ledger = [o \in OperationId |-> NoPosting]
          /\ stock = [b \in Bucket |-> 0]
      BY DEF Init, L!Init, NoPosting, L!NoPosting, Shape, L!Shape, Bucket, L!Bucket
    <2> QED
      BY <2>1, SoundEmpty, Zenon
  <1>3. \A w \in Worker : ~Decides(w)
    BY DEF Init, Decides
  <1>4. L!NoPosting = NoPosting /\ Request \subseteq OperationId
    BY CorrectionConstants
    DEF CorrectionConstants, NoPosting, L!NoPosting, Shape, L!Shape
  <1>5. \A r \in Request : /\ ledger[r] = NoPosting
                           /\ petition[r].status = "UNASKED"
    BY <1>4 DEF Init, L!Init, Unasked
  <1>6. DecisionsMatchLedger
    BY <1>5 DEF DecisionsMatchLedger
  <1>7. NobodyDecidesHisOwn
    BY <1>5 DEF NobodyDecidesHisOwn
  <1> QED
    BY <1>2, <1>2a, <1>3, <1>6, <1>7 DEF Init, IInv, RequestsExist, LocksExclusive, Locks,
                                  StatusIsCurrent, ApprovalsAreTrue

\* A worker who gives up, or answers truthfully, disturbs nobody.
LEMMA LeaveIInv ==
  ASSUME IInv, NEW w \in Worker,
         task' = [task EXCEPT ![w] = Idle],
         UNCHANGED <<ledger, stock, petition>>,
         ApprovalsAreTrue', approved' \subseteq User \X Request
  PROVE  IInv'
  <1> USE DEF IInv
  <1>1. TypeOK'
    BY DEF TypeOK, L!TypeOK
  <1>2. \A v \in Worker : Decides(v)' => Decides(v) /\ task'[v] = task[v]
    BY DEF TypeOK, Decides
  <1>3. RequestsExist' /\ LocksExclusive' /\ StatusIsCurrent'
    BY <1>2 DEF RequestsExist, LocksExclusive, Locks, StatusIsCurrent
  <1> QED
    BY <1>1, <1>3 DEF DecisionsMatchLedger, NobodyDecidesHisOwn

LEMMA SubmitIInv ==
  ASSUME IInv, NEW w \in Worker, NEW u \in User, NEW r \in Request,
         NEW v \in {"approve", "reject"}, Submit(w, u, r, v)
  PROVE  IInv'
  <1> USE DEF IInv
  <1> DEFINE d == [user |-> u, request |-> r, verdict |-> v, status |-> "unread"]
  <1>1. /\ task' = [task EXCEPT ![w] = d]
        /\ petition[r] # Unasked
        /\ UNCHANGED <<ledger, stock, petition, approved>>
    BY DEF Submit, own
  <1>2. d \in Decision
    BY DEF Decision
  <1>3. TypeOK'
    BY <1>1, <1>2 DEF TypeOK, L!TypeOK
  <1>4. task'[w] = d /\ \A x \in Worker \ {w} : task'[x] = task[x]
    BY <1>1 DEF TypeOK
  <1>5. RequestsExist' /\ LocksExclusive' /\ StatusIsCurrent'
    BY <1>1, <1>4 DEF RequestsExist, LocksExclusive, Locks, Decides, StatusIsCurrent
  <1> QED
    BY <1>1, <1>3, <1>5
    DEF DecisionsMatchLedger, ApprovalsAreTrue, NobodyDecidesHisOwn

LEMMA LockRequestIInv ==
  ASSUME IInv, NEW w \in Worker, LockRequest(w)
  PROVE  IInv'
  <1> USE DEF IInv
  <1> DEFINE r == task[w].request
  <1>1. /\ Decides(w)
        /\ \A v \in Worker : ~Locks(v, r)
        /\ task' = [task EXCEPT ![w].status = petition[r].status]
        /\ petition[r] # Unasked
        /\ UNCHANGED <<ledger, stock, petition, approved>>
    BY DEF LockRequest, RequestsExist, own
  <1>2. task[w] \in Decision /\ r \in Request
    BY <1>1 DEF TypeOK, Decides, Decision
  <1>3. petition[r].status \in {"PENDING", "APPROVED", "REJECTED"}
    BY <1>1, <1>2 DEF TypeOK, Petition
  <1>4. /\ task'[w] = [task[w] EXCEPT !.status = petition[r].status]
        /\ \A v \in Worker \ {w} : task'[v] = task[v]
    BY <1>1 DEF TypeOK
  <1>5. /\ task'[w] \in Decision
        /\ task'[w].request = r /\ task'[w].status = petition[r].status
    BY <1>2, <1>3, <1>4 DEF Decision
  <1>6. TypeOK'
    BY <1>1, <1>4, <1>5 DEF TypeOK, L!TypeOK
  <1>7. LocksExclusive'
    BY <1>1, <1>4, <1>5 DEF LocksExclusive, Locks, Decides
  <1>8. RequestsExist' /\ StatusIsCurrent'
    BY <1>1, <1>4, <1>5 DEF RequestsExist, StatusIsCurrent, Decides
  <1> QED
    BY <1>1, <1>6, <1>7, <1>8
    DEF DecisionsMatchLedger, ApprovalsAreTrue, NobodyDecidesHisOwn

\* A request is asked for where none was: nobody works at it, and it has
\* posted nothing.
LEMMA AskIInv ==
  ASSUME IInv, NEW r \in Request, NEW u \in User, NEW p \in Claim, Ask(r, u, p)
  PROVE  IInv'
  <1> USE DEF IInv
  <1> DEFINE row == [status |-> "PENDING", posting |-> p, requester |-> u,
                     decider |-> NoUser]
  <1>1. /\ petition[r] = Unasked
        /\ petition' = [petition EXCEPT ![r] = row]
        /\ UNCHANGED <<ledger, stock, task, approved>>
    BY DEF Ask
  <1>2. row \in Petition /\ row # Unasked
    BY DEF Petition, Unasked
  <1>3. TypeOK'
    BY <1>1, <1>2 DEF TypeOK, L!TypeOK
  <1>4. petition'[r] = row /\ \A q \in Request \ {r} : petition'[q] = petition[q]
    BY <1>1 DEF TypeOK
  <1>5. \A w \in Worker : Decides(w) => task[w].request \in Request \ {r}
    BY <1>1 DEF RequestsExist, TypeOK, Decides, Decision
  <1>6. RequestsExist' /\ LocksExclusive' /\ StatusIsCurrent'
    BY <1>1, <1>4, <1>5
    DEF RequestsExist, LocksExclusive, Locks, StatusIsCurrent, Decides
  <1>7. ledger[r] = NoPosting
    BY <1>1 DEF DecisionsMatchLedger, Unasked
  <1>8. DecisionsMatchLedger'
    BY <1>1, <1>4, <1>7 DEF DecisionsMatchLedger
  <1>9. \A a \in approved : a[2] \in Request \ {r}
    BY <1>1 DEF ApprovalsAreTrue, TypeOK, Unasked
  <1>10. ApprovalsAreTrue'
    BY <1>1, <1>4, <1>9 DEF ApprovalsAreTrue
  <1>11. NobodyDecidesHisOwn'
    BY <1>1, <1>4 DEF NobodyDecidesHisOwn
  <1> QED
    BY <1>1, <1>3, <1>6, <1>8, <1>10, <1>11

\* Who may decide finds the request pending still.
LEMMA DecideFacts ==
  ASSUME IInv, NEW w \in Worker, MayDecide(w)
  PROVE  LET r == task[w].request IN
         /\ r \in Request /\ petition[r].status = "PENDING"
         /\ task[w].user \in User /\ petition[r].requester # task[w].user
         /\ Locks(w, r)
  <1>1. task[w] \in Decision /\ task[w].status = "PENDING"
    BY DEF MayDecide, Decides, IInv, TypeOK
  <1> QED
    BY <1>1 DEF MayDecide, IInv, StatusIsCurrent, Decision, Locks

\* The row of a decided request changes for nobody who has locked a request,
\* nor for anyone who was answered.
LEMMA DecideIInv ==
  ASSUME IInv, NEW w \in Worker, NEW status \in {"APPROVED", "REJECTED"},
         MayDecide(w), Decide(w, status), L!TypeOK', Sound(ledger, stock)',
         \A q \in Request : ledger'[q] =
           IF q = task[w].request /\ status = "APPROVED"
             THEN petition[q].posting ELSE ledger[q],
         \/ approved' = approved
         \/ /\ status = "APPROVED"
            /\ approved' = approved \union {<<task[w].user, task[w].request>>}
  PROVE  IInv'
  <1> USE DEF IInv
  <1> DEFINE r == task[w].request
             row == [petition[r] EXCEPT !.status = status, !.decider = task[w].user]
  <1>1. /\ r \in Request /\ petition[r].status = "PENDING"
        /\ task[w].user \in User /\ petition[r].requester # task[w].user
        /\ Locks(w, r)
    BY DecideFacts
  <1>2. petition' = [petition EXCEPT ![r] = row]
    BY DEF Decide, TypeOK
  <1>3. /\ row \in Petition /\ row # Unasked /\ row.status = status
        /\ row.decider = task[w].user /\ row.requester = petition[r].requester
        /\ row.posting = petition[r].posting
    <2>1. petition[r] \in Petition /\ petition[r] # Unasked
      BY <1>1 DEF TypeOK, Unasked
    <2> QED
      BY <1>1, <2>1 DEF Petition, Unasked
  <1> HIDE DEF row
  <1>4. petition'[r] = row /\ \A q \in Request \ {r} : petition'[q] = petition[q]
    BY <1>1, <1>2 DEF TypeOK
  <1>5. task' = [task EXCEPT ![w] = Idle]
    BY DEF Decide
  <1>6. TypeOK'
    BY <1>1, <1>2, <1>3, <1>5 DEF TypeOK
  <1>7. \A v \in Worker : Decides(v)' =>
          v # w /\ Decides(v) /\ task'[v] = task[v] /\ task[v].request \in Request
    BY <1>5 DEF TypeOK, Decides, Decision
  <1>8. RequestsExist' /\ LocksExclusive'
    BY <1>3, <1>4, <1>7 DEF RequestsExist, LocksExclusive, Locks
  <1>9. StatusIsCurrent'
    <2> SUFFICES ASSUME NEW v \in Worker, Decides(v)', task'[v].status # "unread"
                 PROVE  task'[v].status = petition'[task'[v].request].status
      BY DEF StatusIsCurrent
    <2>1. v # w /\ Decides(v) /\ task'[v] = task[v] /\ task[v].request \in Request
      BY <1>7
    <2>2. task[v].request # r
      BY <1>1, <2>1 DEF LocksExclusive, Locks
    <2> QED
      BY <1>4, <2>1, <2>2 DEF StatusIsCurrent
  <1>10. DecisionsMatchLedger'
    <2> SUFFICES ASSUME NEW q \in Request
                 PROVE  ledger'[q] = IF petition'[q].status = "APPROVED"
                                       THEN petition'[q].posting ELSE NoPosting
      BY DEF DecisionsMatchLedger
    <2>1. ledger[q] = IF petition[q].status = "APPROVED"
                        THEN petition[q].posting ELSE NoPosting
      BY DEF DecisionsMatchLedger
    <2> QED
      BY <1>1, <1>3, <1>4, <2>1
  <1>11. \A a \in approved : a[2] \in Request \ {r}
    BY <1>1 DEF ApprovalsAreTrue, TypeOK
  <1>12. ApprovalsAreTrue'
    BY <1>1, <1>3, <1>4, <1>11 DEF ApprovalsAreTrue
  <1>13. NobodyDecidesHisOwn'
    BY <1>1, <1>3, <1>4 DEF NobodyDecidesHisOwn
  <1> QED
    BY <1>6, <1>8, <1>9, <1>10, <1>12, <1>13

LEMMA NextIInv == IInv /\ [Next]_vars => IInv'
  <1> SUFFICES ASSUME IInv, [Next]_vars PROVE IInv'
    OBVIOUS
  <1>1. ASSUME NEW w \in Worker, LockRequest(w) PROVE IInv'
    BY <1>1, LockRequestIInv
  <1>2. ASSUME NEW w \in Worker, Approve(w) PROVE IInv'
    <2> DEFINE r == task[w].request
               p == petition[r].posting
    <2>1. /\ MayDecide(w) /\ Decide(w, "APPROVED") /\ L!Post(r, p)
          /\ approved' = approved \union {<<task[w].user, r>>}
      BY <1>2 DEF Approve
    <2>2. r \in Request /\ petition[r].status = "PENDING"
      BY <2>1, DecideFacts
    <2>3. p \in Posting /\ WellFormed(p) /\ r \in OperationId
      BY <2>2, PendingFacts
    <2>4. /\ L!TypeOK' /\ Sound(ledger, stock)'
          /\ ledger' = [ledger EXCEPT ![r] = p]
      BY <2>1, <2>3, LedgerPost DEF IInv, TypeOK
    <2>5. Request \subseteq OperationId
      BY CorrectionConstants DEF CorrectionConstants
    <2>6. \A q \in Request : ledger'[q] =
            IF q = r /\ "APPROVED" = "APPROVED" THEN petition[q].posting
                                                ELSE ledger[q]
      BY <2>4, <2>5 DEF IInv, TypeOK, L!TypeOK
    <2> QED
      BY <2>1, <2>4, <2>6, DecideIInv
  <1>3. ASSUME NEW w \in Worker, Reject(w) PROVE IInv'
    <2>1. /\ MayDecide(w) /\ Decide(w, "REJECTED")
          /\ UNCHANGED <<ledger, stock, approved>>
      BY <1>3 DEF Reject
    <2>2. L!TypeOK' /\ Sound(ledger, stock)'
      BY <2>1 DEF IInv, TypeOK, L!TypeOK
    <2> QED
      BY <2>1, <2>2, DecideIInv
  <1>4. ASSUME NEW w \in Worker, Replay(w) PROVE IInv'
    <2>1. task[w] \in Decision
      BY <1>4 DEF Replay, Decides, IInv, TypeOK
    <2>2. petition[task[w].request].status = "APPROVED"
      BY <1>4 DEF Replay, Decides, IInv, StatusIsCurrent
    <2>3. task[w].user \in User /\ task[w].request \in Request
      BY <2>1 DEF Decision
    <2>4. petition[task[w].request].decider = task[w].user
      BY <1>4 DEF Replay
    <2>5. petition[task[w].request].requester # task[w].user
      BY <2>2, <2>3, <2>4 DEF IInv, NobodyDecidesHisOwn
    <2>6. /\ approved' = approved \union {<<task[w].user, task[w].request>>}
          /\ task' = [task EXCEPT ![w] = Idle]
          /\ UNCHANGED <<ledger, stock, petition>>
      BY <1>4 DEF Replay
    <2>7. ApprovalsAreTrue'
      BY <2>2, <2>4, <2>5, <2>6 DEF ApprovalsAreTrue, IInv
    <2>8. approved' \subseteq User \X Request
      BY <2>3, <2>6 DEF IInv, TypeOK
    <2> QED
      BY <1>4, <2>6, <2>7, <2>8, LeaveIInv
  <1>5. ASSUME NEW w \in Worker, Fail(w) PROVE IInv'
    BY <1>5, LeaveIInv DEF Fail, own, ApprovalsAreTrue, IInv, TypeOK
  <1>6. ASSUME NEW w \in Worker, NEW u \in User, NEW r \in Request,
               NEW v \in {"approve", "reject"}, Submit(w, u, r, v)
        PROVE  IInv'
    BY <1>6, SubmitIInv
  <1>7. ASSUME NEW r \in Request, NEW u \in User, NEW p \in Claim, Ask(r, u, p)
        PROVE  IInv'
    BY <1>7, AskIInv
  <1>8. CASE Elsewhere
    <2>1. L!Next /\ UNCHANGED <<petition, approved, task>>
      BY <1>8 DEF Elsewhere, own
    <2>2. L!TypeOK' /\ Sound(ledger, stock)' /\ \A r \in Request : ledger'[r] = ledger[r]
      BY <2>1, LedgerNext DEF IInv, TypeOK
    <2> QED
      BY <2>1, <2>2 DEF IInv, TypeOK, RequestsExist, LocksExclusive, Locks, Decides,
                        StatusIsCurrent, DecisionsMatchLedger, ApprovalsAreTrue,
                        NobodyDecidesHisOwn
  <1>9. CASE UNCHANGED vars
    BY <1>9 DEF vars, own, IInv, TypeOK, L!TypeOK, RequestsExist, LocksExclusive,
                Locks, Decides, StatusIsCurrent, DecisionsMatchLedger,
                ApprovalsAreTrue, NobodyDecidesHisOwn
  <1> QED
    BY <1>1, <1>2, <1>3, <1>4, <1>5, <1>6, <1>7, <1>8, <1>9 DEF Next, Step

LEMMA Invariance == Spec => []IInv
  BY InitIInv, NextIInv, PTL DEF Spec

-----------------------------------------------------------------------------
(***************************************************************************)
(* Theorems                                                                *)
(***************************************************************************)

\* Every variable keeps its type, the stock of the ledger included.
THEOREM TypeCorrect == Spec => []TypeOK
  <1>1. IInv => TypeOK
    BY DEF IInv
  <1> QED
    BY <1>1, Invariance, PTL

\* A request has posted exactly if it is approved, and just what it asked for,
\* whoever approves and rejects it at once and how often.
THEOREM DecisionsAlwaysMatchLedger == Spec => []DecisionsMatchLedger
  <1>1. IInv => DecisionsMatchLedger
    BY DEF IInv
  <1> QED
    BY <1>1, Invariance, PTL

\* Whoever was told that he approved a request did, and not his own.
THEOREM ApprovalsStayTrue == Spec => []ApprovalsAreTrue
  <1>1. IInv => ApprovalsAreTrue
    BY DEF IInv
  <1> QED
    BY <1>1, Invariance, PTL

\* The balance of every bucket is what the ledger says, however many corrections
\* and other postings there are, and in any order.
THEOREM BalanceStaysLedger == Spec => []BalanceIsLedger
  <1>1. IInv => BalanceIsLedger
    BY SameVocabulary
    DEF IInv, Sound, Balanced, BalanceIsLedger, L!BalanceIsLedger, Bucket, L!Bucket
  <1> QED
    BY <1>1, Invariance, PTL

\* No issue is returned beyond its quantity.
THEOREM ReturnsStayWithinIssue == Spec => []ReturnsWithinIssue
  <1>1. IInv => ReturnsWithinIssue
    BY SameVocabulary
    DEF IInv, Sound, Capped, ReturnsWithinIssue, L!ReturnsWithinIssue
  <1> QED
    BY <1>1, Invariance, PTL

\* However corrections of one posting accumulate, they leave its equivalent
\* non-negative.
THEOREM CorrectionsKeepFloor == Spec => []CorrectionFloor
  <1>1. IInv => CorrectionFloor
    BY SameVocabulary
    DEF IInv, Sound, Floored, CorrectionFloor, L!CorrectionFloor, NoPosting,
        L!NoPosting, Shape, L!Shape
  <1> QED
    BY <1>1, Invariance, PTL
=============================================================================
