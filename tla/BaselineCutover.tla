--------------------------- MODULE BaselineCutover ---------------------------
(***************************************************************************)
(* The cutover (imports/services.py, inventory/services/baselines.py): a   *)
(* baseline collects completed counts of disjoint subtrees, and its        *)
(* establishment opens the stock they found where the ledger knows none.   *)
(*                                                                         *)
(* prepare_inventory_baseline holds the rows of its sessions and is one    *)
(* step.  establish_inventory_baseline takes several: it locks its baseline*)
(* with the sessions and their lines and checks these (CheckSessions), then*)
(* reads the location tree without a lock (ReadTree), and only then, maybe *)
(* after a wait, locks materials and the locations it has read, compares   *)
(* the stock in these and posts the openings (BeginEstablish); it verifies *)
(* the projection of the whole system, by three statements that each see   *)
(* what is committed by then, and commits.  The EXCLUSIVE lock of the      *)
(* assets' table keeps a second establishment from its checks until the    *)
(* first has ended.                                                        *)
(***************************************************************************)
EXTENDS PhysicalCount

CONSTANTS
  Baseline,     \* baselines that may be prepared
  Establisher   \* users with imports.establish_baseline

ASSUME CutoverConstants == Establisher \subseteq User

VARIABLES
  baseline,   \* [Baseline -> InventoryBaseline, status "NONE" before it exists]
  fingerprint,\* [Baseline -> the request that established it, or Nothing]
  history,    \* the buckets that some ledger line names
  attempt,    \* [Baseline -> its establishment under way: what it has read]
  cut         \* the establishment that holds its locks, or NoCut

cutoverVars == <<vars, baseline, fingerprint, history, attempt, cut>>

BaselineShape(status, sessions, operation, by, opened) ==
  [status |-> status, sessions |-> sessions, operation |-> operation,
   by |-> by, opened |-> opened]

Sum == -MaxQuantity .. MaxQuantity   \* what issues meanwhile may make of `seen'

NothingOpened == [b \in Bucket |-> 0]
NoBaseline == BaselineShape("NONE", {}, Nothing, Nothing, NothingOpened)

\* `scopes' are the subtrees of its sessions by the tree that it has read.
AttemptShape(phase, scopes) == [phase |-> phase, scopes |-> scopes]
NotRead == [s \in Session |-> {}]
NoAttempt == AttemptShape("NONE", NotRead)

\* `opened' is what it has posted and not committed, `phase' the last statement
\* of the verification that was run, `seen' what the ledger adds up to by the
\* statements so far (the openings left out).
CutShape(bl, u, o, opened, phase, seen) ==
  [baseline |-> bl, by |-> u, operation |-> o, opened |-> opened,
   phase |-> phase, seen |-> seen]

NoCut ==
  CutShape(Nothing, Nothing, Nothing, NothingOpened, "NONE", NothingOpened)

CutoverTypeOK ==
  /\ TypeOK
  /\ baseline \in [Baseline ->
       [status : {"NONE", "PREPARED", "ESTABLISHED"}, sessions : SUBSET Session,
        operation : OperationId \union {Nothing}, by : User \union {Nothing},
        opened : [Bucket -> Count]]]
  /\ history \subseteq Bucket
  /\ attempt \in [Baseline ->
       [phase : {"NONE", "CHECKED", "READ"}, scopes : [Session -> SUBSET Location]]]
  /\ cut \in
       [baseline : Baseline \union {Nothing}, by : User \union {Nothing},
        operation : OperationId \union {Nothing}, opened : [Bucket -> Count],
        phase : {"NONE", "INBOUND", "OUTBOUND"}, seen : [Bucket -> Sum]]

CutoverInit ==
  /\ Init
  /\ baseline = [bl \in Baseline |-> NoBaseline]
  /\ fingerprint = [bl \in Baseline |-> Nothing]
  /\ history = {}
  /\ attempt = [bl \in Baseline |-> NoAttempt]
  /\ cut = NoCut

-----------------------------------------------------------------------------
(***************************************************************************)
(* Preparing.                                                              *)
(***************************************************************************)
ScopesDisjoint(sessions) ==
  \A s, t \in sessions :
    s # t => ~SubtreesOverlap(session[s].scope, session[t].scope)

Candidate(s) == session[s].baseline /\ session[s].status = "COMPLETED"

\* A session belongs to one baseline, for good.
Linked(s) == \E bl \in Baseline : s \in baseline[bl].sessions

Prepare(u, bl, sessions) ==
  /\ u \in Establisher
  /\ baseline[bl].status = "NONE"
  /\ sessions # {}
  /\ \A s \in sessions : Candidate(s) /\ ~Linked(s)
  /\ ScopesDisjoint(sessions)
  /\ baseline' = [baseline EXCEPT
       ![bl] = BaselineShape("PREPARED", sessions, Nothing, Nothing, NothingOpened)]
  /\ UNCHANGED <<vars, fingerprint, history, attempt, cut>>

-----------------------------------------------------------------------------
(***************************************************************************)
(* What an establishment checks.                                           *)
(***************************************************************************)
Scope(s) == Subtree(session[s].scope)

\* The subtrees of a baseline's sessions by the tree as it is now.
ScopesNow(bl) ==
  [s \in Session |-> IF s \in baseline[bl].sessions THEN Scope(s) ELSE {}]

Incomplete(s) == HasLines(s, {"PENDING_COUNT", "NOT_COUNTED"})

LinesDrifted(s, scope) ==   \* mutant: stock without a line is not looked at
  \E b \in Bucket :
    /\ line[s][b].expected > 0
    /\ line[s][b].expected # IF LocationOf(b) \in scope THEN stock[b] ELSE 0

\* Does the subtree, as it was read, hold other stock than the snapshot took?
QuantityDrifted(s, scope) ==
  \E b \in Bucket :
    line[s][b].expected # IF LocationOf(b) \in scope THEN stock[b] ELSE 0

InScope(a, scope) == place[a] \in Place /\ place[a][1] \in scope

SerializedDrifted(s, scope) ==
  \E a \in Asset :
    \/ InScope(a, scope) # (item[s][a].expected # Nothing)
    \/ InScope(a, scope) /\ place[a] # item[s][a].expected

\* Stock of a bucket that no ledger line names is opened; what a ledger line
\* names must have been counted as expected.
QuantityOpenings(s) ==
  {b \in Bucket \ history :
     line[s][b] # NoLine /\ line[s][b].counted \notin {Nothing, 0}}

PriorHistory(s) ==
  \E b \in history : line[s][b] # NoLine /\ line[s][b].counted # line[s][b].expected

SerializedOpenings(s) ==
  {a \in Asset : item[s][a] # NoItem /\ item[s][a].expected = Nothing}

SerializedDiscrepancy(s) ==
  \E a \in Asset :
    \/ /\ item[s][a].expected # Nothing
       /\ item[s][a].resolution # "NO_DISCREPANCY"
    \/ /\ a \in SerializedOpenings(s)
       /\ item[s][a].known \/ item[s][a].observed \notin Place

\* The code of an asset was registered since the candidate was seen.
IdentityTaken(s) == \E a \in SerializedOpenings(s) : place[a] # Unknown

CountedBy(u, s) ==
  \/ \E b \in QuantityOpenings(s) : line[s][b].by = u
  \/ \E a \in SerializedOpenings(s) : item[s][a].by = u

\* establish_initial_balance opens at active locations only.
OpensAtActive(s) ==
  /\ \A b \in QuantityOpenings(s) : stock[b] = 0 /\ LocationOf(b) \in active
  /\ \A a \in SerializedOpenings(s) : item[s][a].observed[1] \in active

\* What the sessions and their lines must be, under the locks of these alone;
\* whether scopes overlap is told by a first reading of the tree.
Presentable(bl) ==
  /\ baseline[bl].status = "PREPARED"
  /\ ScopesDisjoint(baseline[bl].sessions)
  /\ \A s \in baseline[bl].sessions : Candidate(s) /\ ~Incomplete(s)

AcceptsDrifted(u, bl, scopes) ==   \* mutant: the drift of stock is not looked at
  \A s \in baseline[bl].sessions :
    /\ ~SerializedDrifted(s, scopes[s])
    /\ ~PriorHistory(s)
    /\ ~SerializedDiscrepancy(s)
    /\ ~IdentityTaken(s)
    /\ ~CountedBy(u, s)
    /\ OpensAtActive(s)

\* What stock and assets must be, in the subtrees that were read.
Accepts(u, bl, scopes) ==
  LET sessions == baseline[bl].sessions IN
  /\ \A s \in sessions :
       /\ ~QuantityDrifted(s, scopes[s])
       /\ ~SerializedDrifted(s, scopes[s])
       /\ ~PriorHistory(s)
       /\ ~SerializedDiscrepancy(s)
       /\ ~IdentityTaken(s)
       /\ ~CountedBy(u, s)
       /\ OpensAtActive(s)
  \* A second session that opens what the first has opened is refused.
  /\ \A s, t \in sessions :
       s # t => /\ QuantityOpenings(s) \intersect QuantityOpenings(t) = {}
                /\ SerializedOpenings(s) \intersect SerializedOpenings(t) = {}

\* collect_baseline_readiness: what the page of a baseline lists as blockers
\* for the user who looks at it.
Blocked(u, bl) ==
  LET sessions == baseline[bl].sessions IN
  \/ ~ScopesDisjoint(sessions)
  \/ \E s \in sessions :
       \/ ~Candidate(s)
       \/ \E other \in Baseline \ {bl} : s \in baseline[other].sessions
       \/ \E b \in Bucket :
            \/ line[s][b].resolution \in {"PENDING_COUNT", "NOT_COUNTED"}
            \/ /\ line[s][b].counted # Nothing
               /\ b \in history
               /\ line[s][b].counted # line[s][b].expected
            \/ /\ line[s][b].counted \notin {Nothing, 0}
               /\ line[s][b].by = u
               /\ b \notin history
       \/ \E a \in Asset :
            \/ item[s][a].resolution \in {"PENDING_COUNT", "NOT_COUNTED"}
            \/ /\ item[s][a].expected # Nothing
               /\ item[s][a].resolution # "NO_DISCREPANCY"
            \/ /\ item[s][a] # NoItem
               /\ item[s][a].expected = Nothing
               /\ place[a] # Unknown \/ item[s][a].by = u
       \/ QuantityDrifted(s, Scope(s))

-----------------------------------------------------------------------------
(***************************************************************************)
(* Establishing.                                                           *)
(***************************************************************************)
Opened(bl) ==
  [b \in Bucket |->
     LET s == {t \in baseline[bl].sessions : b \in QuantityOpenings(t)}
     IN  IF s = {} THEN 0 ELSE line[CHOOSE t \in s : TRUE][b].counted]

\* The candidates become assets where they were seen.
PlacesWithCandidates(sessions) ==
  [a \in Asset |->
     LET s == {t \in sessions : a \in SerializedOpenings(t)}
     IN  IF s = {} THEN place[a] ELSE item[CHOOSE t \in s : TRUE][a].observed]

\* What the fingerprint of a request says: the sessions' scopes, and what their
\* lines expect, hold and are resolved to.
QuantityEvidence(s) ==
  [b \in Bucket |-> <<line[s][b].expected, line[s][b].counted, line[s][b].resolution>>]

SerializedEvidence(s) ==
  [a \in Asset |-> <<item[s][a].known, item[s][a].expected, item[s][a].observed,
                     item[s][a].resolution>>]

Request(u, bl) ==
  <<u, [s \in baseline[bl].sessions |->
          <<session[s].scope, QuantityEvidence(s), SerializedEvidence(s)>>]>>

\* The same request again is answered with what it did.
Replays(u, bl, o) ==
  /\ baseline[bl].status = "ESTABLISHED"
  /\ baseline[bl].operation = o
  /\ fingerprint[bl] = Request(u, bl)

Replay(u, bl, o) == Replays(u, bl, o) /\ UNCHANGED cutoverVars

\* The baseline, its sessions and their lines are locked and checked.  Who asks,
\* and under which identifier, tells only from BeginEstablish on.
CheckSessions(bl) ==
  /\ attempt[bl] = NoAttempt
  /\ Presentable(bl)
  /\ attempt' = [attempt EXCEPT ![bl] = AttemptShape("CHECKED", NotRead)]
  /\ UNCHANGED <<vars, baseline, fingerprint, history, cut>>

\* The tree is read again, for the subtrees.  It is not locked, nor read later.
ReadTree(bl) ==
  /\ attempt[bl].phase = "CHECKED"
  /\ attempt' = [attempt EXCEPT ![bl] = AttemptShape("READ", ScopesNow(bl))]
  /\ UNCHANGED <<vars, baseline, fingerprint, history, cut>>

\* The rows of what was read are locked, the last of them maybe long after; then
\* come checks, openings and the first statement of the verification: the sums
\* of the inbound ledger lines.
BeginEstablish(u, bl, o) ==
  /\ u \in Establisher
  /\ cut = NoCut
  /\ attempt[bl].phase = "READ"
  /\ Accepts(u, bl, attempt[bl].scopes)
  /\ \A other \in Baseline : baseline[other].operation # o
  /\ cut' = CutShape(bl, u, o, Opened(bl), "INBOUND", stock)
  /\ UNCHANGED <<vars, baseline, fingerprint, history, attempt>>

\* The second statement: the sums of the outbound lines.
ReadOutbound ==
  /\ cut.phase = "INBOUND"
  /\ cut' = [cut EXCEPT !.phase = "OUTBOUND"]
  /\ UNCHANGED <<vars, baseline, fingerprint, history, attempt>>

\* The third statement, the balances, and the commit.
CommitEstablish ==
  LET bl == cut.baseline
      opened == cut.opened
      sessions == baseline[bl].sessions
  IN  /\ cut.phase = "OUTBOUND"
      /\ cut.seen = stock
      /\ baseline' = [baseline EXCEPT
           ![bl] = BaselineShape("ESTABLISHED", sessions, cut.operation, cut.by, opened)]
      /\ fingerprint' = [fingerprint EXCEPT ![bl] = Request(cut.by, bl)]
      /\ stock' = [b \in Bucket |-> stock[b] + opened[b]]
      /\ place' = PlacesWithCandidates(sessions)
      /\ history' = history \union {b \in Bucket : opened[b] > 0}
      /\ attempt' = [attempt EXCEPT ![bl] = NoAttempt]
      /\ cut' = NoCut
      /\ UNCHANGED <<session, line, item, form, effect, parent, active>>

\* A check that fails, a mismatch, a deadlock, a lost connection or a killed
\* worker: all is rolled back.
RollBack(bl) ==
  /\ attempt[bl] # NoAttempt
  /\ attempt' = [attempt EXCEPT ![bl] = NoAttempt]
  /\ cut' = IF cut.baseline = bl THEN NoCut ELSE cut
  /\ UNCHANGED <<vars, baseline, fingerprint, history>>

-----------------------------------------------------------------------------
(***************************************************************************)
(* Meanwhile: counting goes on, stock and locations move, where the        *)
(* establishment holds no lock.                                            *)
(***************************************************************************)

\* Places of the lines of the cut, in scope or not.
LinePlaces(s) ==
  {<<b[2], b[3]>> : b \in {c \in Bucket : line[s][c] # NoLine}}
    \union ({item[s][a].expected : a \in Asset} \intersect Place)
    \union ({item[s][a].observed : a \in Asset} \intersect Place)

\* The locations of the tree as it was read, whatever has moved since.
LookedAt(bl) == UNION {attempt[bl].scopes[s] : s \in baseline[bl].sessions}

LockedLocations ==
  LookedAt(cut.baseline)
    \union {p[1] : p \in UNION {LinePlaces(s) : s \in baseline[cut.baseline].sessions}}

\* Rows of the lines.  The materials and conditions of other stock that was found
\* in the subtrees are locked too, which only holds others up further: left out.
LockedRows ==
  LET sessions == baseline[cut.baseline].sessions
  IN  [materials |-> {b[1] : b \in {c \in Bucket :
                        \E s \in sessions : line[s][c] # NoLine}},
       conditions |-> {p[2] : p \in UNION {LinePlaces(s) : s \in sessions}}]

NoRowStandsStill ==   \* mutant: no row is locked, only the assets' table
  cut # NoCut => place' = place

\* An attempt holds its sessions and lines from the start; once it has its other
\* locks, a posting waits for its material, location and condition, a location's
\* row is locked to change it, and shared to place another below it; and the
\* assets' table is locked whole.
LockedStandsStill ==
  /\ \A bl \in Baseline : attempt[bl] # NoAttempt =>
       \A s \in baseline[bl].sessions :
         session'[s] = session[s] /\ line'[s] = line[s] /\ item'[s] = item[s]
  /\ cut # NoCut =>
       /\ \A b \in Bucket :
            ( \/ b[1] \in LockedRows.materials
              \/ LocationOf(b) \in LockedLocations
              \/ b[3] \in LockedRows.conditions ) => stock'[b] = stock[b]
       /\ place' = place
       /\ \A l \in Location :
            /\ l \in LockedLocations =>
                 parent'[l] = parent[l] /\ (l \in active' <=> l \in active)
            /\ parent'[l] # parent[l] => parent'[l] \notin LockedLocations

\* Outbound lines that are posted before they are read count.
SeenMeanwhile ==
  IF cut.phase = "INBOUND"
  THEN [b \in Bucket |->
          IF stock'[b] < stock[b] THEN cut.seen[b] - (stock[b] - stock'[b])
                                  ELSE cut.seen[b]]
  ELSE cut.seen

CountOrMove ==
  /\ Next
  /\ LockedStandsStill
  /\ history' = history \union {b \in Bucket : stock'[b] # stock[b]}
  /\ SeenMeanwhile \in [Bucket -> Sum]
  /\ cut' = [cut EXCEPT !.seen = SeenMeanwhile]
  /\ UNCHANGED <<baseline, fingerprint, attempt>>

CutoverNext ==
  \/ CountOrMove
  \/ \E u \in User, bl \in Baseline :
       \/ \E sessions \in SUBSET Session : Prepare(u, bl, sessions)
       \/ \E o \in OperationId : BeginEstablish(u, bl, o) \/ Replay(u, bl, o)
  \/ \E bl \in Baseline : CheckSessions(bl) \/ ReadTree(bl) \/ RollBack(bl)
  \/ ReadOutbound
  \/ CommitEstablish

CutoverSpec == CutoverInit /\ [][CutoverNext]_cutoverVars

-----------------------------------------------------------------------------
(***************************************************************************)
(* Properties                                                              *)
(***************************************************************************)

\* Wherever the establishment looked, it makes the stock what was counted, neither
\* more nor less, though stock was issued and received and assets registered since
\* the snapshot, and though locations left and entered the scopes since the tree
\* was read (the drift checks, the rule on ledger history of _plan_openings, and
\* the locks, all over one list of locations).  Where a location was in the scopes
\* of two sessions by then, it is what either counted.  It says nothing of a
\* location that was moved below a scope after the reading: nobody looks there.
EstablishedIsCounted ==
  [][ \A bl \in Baseline :
        LET sessions == baseline[bl].sessions
        IN  ( /\ baseline[bl].status = "PREPARED"
              /\ baseline'[bl].status = "ESTABLISHED" ) =>
              /\ \A b \in Bucket : LocationOf(b) \in LookedAt(bl) =>
                   LET counts == {line[s][b].counted : s \in
                                   {t \in sessions : line[t][b] # NoLine}}
                   IN  stock'[b] \in IF counts = {} THEN {0} ELSE counts
              /\ \A a \in Asset : place'[a] \in Place /\ place'[a][1] \in LookedAt(bl)
                   => \E s \in sessions : place'[a] = item[s][a].observed
      ]_cutoverVars

\* An opening is the first the ledger knows of a bucket, wherever the location
\* is by now: nothing was ever posted there, not even between the check and the
\* commit (DI-027; the locks of establish_inventory_baseline).
OpeningsComeFirst ==
  [][ \A bl \in Baseline, b \in Bucket :
        baseline'[bl].opened[b] # baseline[bl].opened[b]
          => b \notin history /\ stock[b] = 0 ]_cutoverVars

\* An established baseline rests on its evidence for good: no decision of a
\* manager and no late entry of a counter touches what was established, each
\* opening is what somebody other than the establisher counted, and so whoever
\* lost the answer and asks again is told the same (CNT-013, CNT-020).
EstablishedOnEvidence ==
  \A bl \in Baseline : baseline[bl].status = "ESTABLISHED" =>
    /\ Replays(baseline[bl].by, bl, baseline[bl].operation)
    /\ \A s \in baseline[bl].sessions :
         session[s].status = "COMPLETED" /\ ~Incomplete(s)
    /\ \A b \in Bucket : baseline[bl].opened[b] > 0 =>
         \E s \in baseline[bl].sessions :
           /\ line[s][b].counted = baseline[bl].opened[b]
           /\ line[s][b].by # baseline[bl].by

\* The page of a baseline never lists a blocker that does not block: what
\* readiness.py works out on its own agrees with the service's refusals.
BlockersBlock ==
  \A u \in User, bl \in Baseline :
    baseline[bl].status = "PREPARED" /\ Blocked(u, bl) =>
      ~(u \in Establisher /\ Presentable(bl) /\ Accepts(u, bl, ScopesNow(bl)))
=============================================================================
