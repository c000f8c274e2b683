-------------------------- MODULE CorrectionWorkflow --------------------------
(***************************************************************************)
(* Requests for controlled corrections and the decisions on them           *)
(* (corrections/services.py).  A decision locks the request, reads its     *)
(* status, and approves it, by posting the correction in the same          *)
(* transaction, or rejects it.  The posting's operation identifier is      *)
(* derived from the request's own identifier (uuid5), so here a request    *)
(* and the identifier are one.                                             *)
(***************************************************************************)
EXTENDS QuantityPosting

CONSTANTS
  Workload,   \* postings that others make: <<operation id, posting>>
  Claim,      \* corrections that users may ask for: a set of postings
  Request,    \* identifiers of requests, and of what they will post
  User,
  NoUser,
  Worker,
  Idle

VARIABLES
  ledger, stock,   \* as in StockLedger
  petition,        \* [Request -> the row of the request, or Unasked]
  task,            \* [Worker -> what it is doing, or Idle]
  approved         \* <<user, request>>: approvals a user was told of

L == INSTANCE StockLedger

own  == <<petition, approved>>
vars == <<ledger, stock, own, task>>

Unasked == [status |-> "UNASKED", posting |-> NoPosting, requester |-> NoUser,
            decider |-> NoUser]

Petition == {Unasked} \union
  [status : {"PENDING", "APPROVED", "REJECTED"}, posting : Claim,
   requester : User, decider : User \union {NoUser}]

\* At work on a decision; status is what it read once the request was locked.
Decision ==
  [user : User, request : Request, verdict : {"approve", "reject"},
   status : {"unread", "PENDING", "APPROVED", "REJECTED"}]

\* Nobody else draws an identifier derived from a request.
ASSUME CorrectionConstants ==
  /\ Request \subseteq OperationId
  /\ NoUser \notin User /\ Idle \notin Decision
  /\ \A p \in Claim : /\ p \in Posting /\ WellFormed(p)
                      /\ p.type = "CONTROLLED_CORRECTION"
  /\ Workload \subseteq OperationId \X Posting
  /\ \A job \in Workload : WellFormed(job[2]) /\ job[1] \notin Request

-----------------------------------------------------------------------------
TypeOK ==
  /\ L!TypeOK
  /\ petition \in [Request -> Petition]
  /\ task \in [Worker -> Decision \union {Idle}]
  /\ approved \subseteq User \X Request

Init ==
  /\ L!Init
  /\ petition = [r \in Request |-> Unasked]
  /\ task = [w \in Worker |-> Idle]
  /\ approved = {}

Decides(w) == task[w] # Idle

LocksNothing(w, r) == FALSE   \* mutant: requests are read without FOR UPDATE

Locks(w, r) == Decides(w) /\ task[w].request = r /\ task[w].status # "unread"

\* create_correction_request: of a posting that is no correction, of one of
\* its buckets, and (the partial unique index correction_one_pending_per_tx)
\* with no other request on it pending.
Ask(r, u, p) ==
  /\ petition[r] = Unasked
  /\ ledger[p.original].type \notin {"NONE", "CONTROLLED_CORRECTION"}
  /\ Affected(p) \in Touched(ledger[p.original])
  /\ \A q \in Request : ~ /\ petition[q].status = "PENDING"
                          /\ petition[q].posting.original = p.original
  /\ petition' = [petition EXCEPT ![r] =
       [status |-> "PENDING", posting |-> p, requester |-> u, decider |-> NoUser]]
  /\ UNCHANGED <<ledger, stock, task, approved>>

Submit(w, u, r, verdict) ==
  /\ task[w] = Idle
  /\ petition[r] # Unasked
  /\ task' = [task EXCEPT ![w] = [user |-> u, request |-> r, verdict |-> verdict,
                                  status |-> "unread"]]
  /\ UNCHANGED <<ledger, stock, own>>

LockRequest(w) ==
  /\ Decides(w) /\ task[w].status = "unread"
  /\ \A v \in Worker : ~Locks(v, task[w].request)
  /\ task' = [task EXCEPT ![w].status = petition[task[w].request].status]
  /\ UNCHANGED <<ledger, stock, own>>

\* w may decide: the request was pending, and its requester is somebody else.
MayDecide(w) ==
  /\ Decides(w) /\ task[w].status = "PENDING"
  /\ petition[task[w].request].requester # task[w].user

Decide(w, status) ==
  /\ petition' = [petition EXCEPT ![task[w].request].status = status,
                                  ![task[w].request].decider = task[w].user]
  /\ task' = [task EXCEPT ![w] = Idle]

Approve(w) ==
  LET r == task[w].request IN
  /\ MayDecide(w) /\ task[w].verdict = "approve"
  /\ L!Post(r, petition[r].posting)
  /\ Decide(w, "APPROVED")
  /\ approved' = approved \union {<<task[w].user, r>>}

Reject(w) ==
  /\ MayDecide(w) /\ task[w].verdict = "reject"
  /\ Decide(w, "REJECTED")
  /\ UNCHANGED <<ledger, stock, approved>>

ReplayForAnyone(w) ==   \* mutant: any manager's approval is answered
  /\ Decides(w) /\ task[w].verdict = "approve" /\ task[w].status = "APPROVED"
  /\ approved' = approved \union {<<task[w].user, task[w].request>>}
  /\ task' = [task EXCEPT ![w] = Idle]
  /\ UNCHANGED <<ledger, stock, petition>>

\* The manager who approved it approves it again: he is answered as at first.
Replay(w) ==
  /\ Decides(w) /\ task[w].verdict = "approve" /\ task[w].status = "APPROVED"
  /\ petition[task[w].request].decider = task[w].user
  /\ approved' = approved \union {<<task[w].user, task[w].request>>}
  /\ task' = [task EXCEPT ![w] = Idle]
  /\ UNCHANGED <<ledger, stock, petition>>

\* The decision is refused (decided before, one's own request, a correction
\* that the ledger does not admit), or its process dies: nothing is written.
Fail(w) ==
  /\ Decides(w)
  /\ task' = [task EXCEPT ![w] = Idle]
  /\ UNCHANGED <<ledger, stock, own>>

Elsewhere ==
  /\ L!Next
  /\ UNCHANGED <<own, task>>

Step(w) == LockRequest(w) \/ Approve(w) \/ Reject(w) \/ Replay(w) \/ Fail(w)

Next ==
  \/ \E w \in Worker : Step(w)
  \/ \E w \in Worker, u \in User, r \in Request, v \in {"approve", "reject"} :
       Submit(w, u, r, v)
  \/ \E r \in Request, u \in User, p \in Claim : Ask(r, u, p)
  \/ Elsewhere

Spec == Init /\ [][Next]_vars

-----------------------------------------------------------------------------
(***************************************************************************)
(* Properties                                                              *)
(***************************************************************************)

\* A request has its correction in the ledger exactly if it is approved, and
\* the correction is the one that was asked for: managers who approve and
\* reject it at once, twice, or again after a lost answer, never leave a
\* rejected or pending request with a posting.
DecisionsMatchLedger ==
  \A r \in Request :
    ledger[r] = IF petition[r].status = "APPROVED" THEN petition[r].posting
                                                   ELSE NoPosting

\* The ledger keeps what it promises although postings are corrected in any
\* order and number.
BalanceIsLedger    == L!BalanceIsLedger
ReturnsWithinIssue == L!ReturnsWithinIssue
CorrectionFloor    == L!CorrectionFloor

\* Whoever was told that he approved a request did, and not his own.
ApprovalsAreTrue ==
  \A a \in approved :
    /\ petition[a[2]].status = "APPROVED"
    /\ petition[a[2]].decider = a[1]
    /\ petition[a[2]].requester # a[1]
=============================================================================
