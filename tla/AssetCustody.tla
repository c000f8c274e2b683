----------------------------- MODULE AssetCustody -----------------------------
(***************************************************************************)
(* What the serialized services promise of single assets: a ledger of      *)
(* lines, numbered for each asset in the order they happened, and the      *)
(* custody of each asset, changed together in one indivisible step.  A     *)
(* line follows from the custody it finds: an asset is received once,      *)
(* leaves from where it is, and comes back against the very issue that     *)
(* took it.  SerializedAssets implements this with concurrent transactions *)
(***************************************************************************)
EXTENDS AssetLine

CONSTANT Workload      \* the requests clients may make: <<operation id, line>>

VARIABLES
  ledger,    \* [OperationId -> Line or NoLine]
  number,    \* [OperationId -> Nat]: asset_event_seq of the line, 0 without one
  custody    \* [Asset -> Custody]: the row of SerializedAsset

vars == <<ledger, number, custody>>

-----------------------------------------------------------------------------
EventsOf(a) == {o \in OperationId : ledger[o].asset = a}

NextNumber(a) == 1 + Max({number[o] : o \in EventsOf(a)} \union {0})

\* A return names an issue of its asset that was not returned before.
OriginalFits(r) ==
  r.type = "RETURN" =>
    /\ ledger[r.original].type = "ISSUE"
    /\ ledger[r.original].asset = r.asset
    /\ \A o \in OperationId : ~ /\ ledger[o].type = "RETURN"
                                /\ ledger[o].original = r.original

Init ==
  /\ ledger = [o \in OperationId |-> NoLine]
  /\ number = [o \in OperationId |-> 0]
  /\ custody = [a \in Asset |-> Unregistered]

Post(o, r) ==
  /\ ledger[o] = NoLine
  /\ OriginalFits(r)
  /\ Fits(r, custody[r.asset])
  /\ ledger' = [ledger EXCEPT ![o] = r]
  /\ number' = [number EXCEPT ![o] = NextNumber(r.asset)]
  /\ custody' = [custody EXCEPT ![r.asset] = Moved(r, @)]

Next == \E job \in Workload : Post(job[1], job[2])

Spec == Init /\ [][Next]_vars

-----------------------------------------------------------------------------
(***************************************************************************)
(* The projection check: replay an asset's lines in the order of their     *)
(* numbers and compare where that leads with the asset's row.              *)
(***************************************************************************)
Broken == [at |-> Unregistered, issue |-> NoOperation, ok |-> FALSE]

\* One step of the replay.  Unlike the services it knows which issue is the
\* one to be returned.
Reduce(s, o) ==
  LET r == ledger[o] IN
  IF /\ s.ok
     /\ Fits(r, s.at)
     /\ r.type = "RETURN" => r.original = s.issue
  THEN [at |-> Moved(r, s.at), ok |-> TRUE,
        issue |-> IF r.type = "ISSUE" THEN o ELSE NoOperation]
  ELSE Broken

Replayed(a) ==
  LET last == Cardinality(EventsOf(a))
      Nth(n) == CHOOSE o \in EventsOf(a) : number[o] = n
      state[n \in 0 .. last] ==
        IF n = 0 THEN [at |-> Unregistered, issue |-> NoOperation, ok |-> TRUE]
        ELSE Reduce(state[n - 1], Nth(n))
  IN state[last]

\* The lines of every asset are numbered 1, 2, 3, ... without a gap or a
\* double, and replaying them in this order meets no impossible event (no
\* movement from elsewhere, no return against an older issue) and ends in the
\* custody that the asset's row records (verify_serialized_projection).
HistoryReplays ==
  \A a \in Asset :
    /\ {number[o] : o \in EventsOf(a)} = 1 .. Cardinality(EventsOf(a))
    /\ Replayed(a).ok
    /\ Replayed(a).at = custody[a]
=============================================================================
