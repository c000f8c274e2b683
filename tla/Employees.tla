------------------------------- MODULE Employees -------------------------------
(***************************************************************************)
(* Employees, who receive what is issued (accounts/services/employees.py), *)
(* the audit events of their rows (audit/services.py), and the issues that *)
(* copy a row (inventory/services/issues.py).                              *)
(*                                                                         *)
(* An edit and an issue lock the row FOR UPDATE and commit later; a new    *)
(* employee has no row to lock.  What other rows hold is read without a    *)
(* lock, and only the unique indexes judge it again.  Names are left out:  *)
(* they are copied as the number is, and need not be unique.               *)
(***************************************************************************)
EXTENDS Naturals, Sequences

CONSTANTS
  EmployeeRow,   \* rows that there may be
  PersonNumber,  \* employee_number
  Login,         \* users that may be linked to an employee
  Handover,      \* operation ids of issues
  Clerk,         \* requests that are served at once
  MaxEvents,     \* bound of the audit events of a row
  NoRow          \* SQL NULL, and the row that is not there

ASSUME EmployeeConstants ==
  /\ MaxEvents \in Nat
  /\ NoRow \notin Login

VARIABLES
  employee,  \* [EmployeeRow -> Person or NoRow]
  trail,     \* [EmployeeRow -> Seq of the row before and after each event]
  handed,    \* [Handover -> the receiver and the number copied, or NoRow]
  duty       \* [Clerk -> the service call in progress, or NoDuty]

employeeVars == <<employee, trail, handed, duty>>

Person == [number : PersonNumber, user : Login \union {NoRow}, active : BOOLEAN]
Event == [before : Person \union {NoRow}, after : Person]

\* SQL NULL is not a row.
ASSUME NoRowIsNobody == NoRow \notin Person

\* `seen' is the row as it was locked.
NoDuty == [kind |-> "none", of |-> NoRow]
EditOf(e, after) == [kind |-> "edit", of |-> e, seen |-> employee[e], after |-> after]
IssueTo(e, h) == [kind |-> "issue", of |-> e, seen |-> employee[e], as |-> h]

EmployeeTypeOK ==
  /\ employee \in [EmployeeRow -> Person \union {NoRow}]
  /\ \A e \in EmployeeRow :
       Len(trail[e]) <= MaxEvents /\ \A i \in DOMAIN trail[e] : trail[e][i] \in Event
  /\ handed \in [Handover -> [to : EmployeeRow, number : PersonNumber] \union {NoRow}]
  /\ duty \in [Clerk ->
       {NoDuty}
         \union [kind : {"edit"}, of : EmployeeRow, seen : Person \union {NoRow},
                 after : Person]
         \union [kind : {"issue"}, of : EmployeeRow, seen : Person, as : Handover]]

EmployeesInit ==
  /\ employee = [e \in EmployeeRow |-> NoRow]
  /\ trail = [e \in EmployeeRow |-> <<>>]
  /\ handed = [h \in Handover |-> NoRow]
  /\ duty = [c \in Clerk |-> NoDuty]

-----------------------------------------------------------------------------
\* The row may be locked.  (A row that is being created has one creator.)
RowUnlockedByIssues(e) ==   \* mutant: update_employee does not lock the row
  \A c \in Clerk : ~(duty[c].of = e /\ duty[c].kind = "issue")
RowUnlockedByEdits(e) ==   \* mutant: an issue does not lock the receiver
  \A c \in Clerk : ~(duty[c].of = e /\ duty[c].kind = "edit")

RowUnlocked(e) == \A c \in Clerk : duty[c].of # e

\* The number and the user of e are not those of another row that is committed:
\* first what full_clean and the check of the link read, at last what the unique
\* indexes hold.
NobodyElseHas(e, person) ==
  \A o \in EmployeeRow \ {e} :
    employee[o] # NoRow =>
      /\ employee[o].number # person.number
      /\ person.user # NoRow => employee[o].user # person.user

Recorded(e, before, after) ==
  trail' = [trail EXCEPT ![e] = Append(@, [before |-> before, after |-> after])]

-----------------------------------------------------------------------------
\* Calls that are refused at once, or find nothing to change, change nothing.
CheckCreateEmployee(c, e) ==
  /\ duty[c] = NoDuty
  /\ employee[e] = NoRow
  /\ MaxEvents > 0
  /\ RowUnlocked(e)
  /\ \E person \in [number : PersonNumber, user : Login \union {NoRow}, active : {TRUE}] :
       /\ NobodyElseHas(e, person)
       /\ duty' = [duty EXCEPT ![c] = EditOf(e, person)]
  /\ UNCHANGED <<employee, trail, handed>>

CheckUpdateEmployee(c, e) ==
  /\ duty[c] = NoDuty
  /\ employee[e] # NoRow
  /\ Len(trail[e]) < MaxEvents
  /\ RowUnlocked(e)
  /\ \E n \in PersonNumber, u \in Login \union {NoRow} :
       LET after == [employee[e] EXCEPT !.number = n, !.user = u]
       IN  /\ after # employee[e]
           /\ NobodyElseHas(e, after)
           /\ duty' = [duty EXCEPT ![c] = EditOf(e, after)]
  /\ UNCHANGED <<employee, trail, handed>>

\* The row is written and its event recorded, or a unique index refuses the row.
\* An update does not write `active'.
SaveEmployee(c) ==
  LET e == duty[c].of
      after == duty[c].after
  IN  /\ duty[c].kind = "edit"
      /\ IF NobodyElseHas(e, after)
         THEN /\ employee' = [employee EXCEPT ![e] =
                   IF duty[c].seen = NoRow THEN after
                   ELSE [@ EXCEPT !.number = after.number, !.user = after.user]]
              /\ Recorded(e, duty[c].seen, after)
         ELSE UNCHANGED <<employee, trail>>
      /\ duty' = [duty EXCEPT ![c] = NoDuty]
      /\ UNCHANGED handed

\* Only the row itself is read and written: one step.
SetEmployeeActive(e) ==
  /\ employee[e] # NoRow
  /\ Len(trail[e]) < MaxEvents
  /\ RowUnlocked(e)
  /\ employee' = [employee EXCEPT ![e].active = ~@]
  /\ Recorded(e, employee[e], employee'[e])
  /\ UNCHANGED <<handed, duty>>

\* The header of the issue is inserted before the rows are locked, so that a
\* second call of the same operation waits for it and is replayed.
LockReceiver(c, e, h) ==
  /\ duty[c] = NoDuty
  /\ handed[h] = NoRow
  /\ \A d \in Clerk : duty[d].kind = "issue" => duty[d].as # h
  /\ RowUnlocked(e)
  /\ employee[e] # NoRow
  /\ employee[e].active
  /\ duty' = [duty EXCEPT ![c] = IssueTo(e, h)]
  /\ UNCHANGED <<employee, trail, handed>>

CommitIssueTo(c) ==
  /\ duty[c].kind = "issue"
  /\ handed' = [handed EXCEPT ![duty[c].as] =
                  [to |-> duty[c].of, number |-> duty[c].seen.number]]
  /\ duty' = [duty EXCEPT ![c] = NoDuty]
  /\ UNCHANGED <<employee, trail>>

\* A check of the stock or of another row refuses the issue, or the process that
\* serves the call stops.
GiveUp(c) ==
  /\ duty[c] # NoDuty
  /\ duty' = [duty EXCEPT ![c] = NoDuty]
  /\ UNCHANGED <<employee, trail, handed>>

EmployeesNext ==
  \/ \E e \in EmployeeRow : SetEmployeeActive(e)
  \/ \E c \in Clerk :
       \/ SaveEmployee(c)
       \/ CommitIssueTo(c)
       \/ GiveUp(c)
       \/ \E e \in EmployeeRow :
            \/ CheckCreateEmployee(c, e)
            \/ CheckUpdateEmployee(c, e)
            \/ \E h \in Handover : LockReceiver(c, e, h)

EmployeesSpec == EmployeesInit /\ [][EmployeesNext]_employeeVars

-----------------------------------------------------------------------------
(***************************************************************************)
(* Properties (docs/06-DECISION-REGISTER.md, DEC-024 items 6 and 7)        *)
(***************************************************************************)
\* The audit events of an employee tell the whole history of the row: they begin
\* with a row that is not there, each goes on where the one before ended and
\* changes something, and the last one is the row as it is.  (The row that
\* update_employee records before its change was read earlier in the call, and
\* it writes only some of the columns that it records.)
TrailReplays ==
  \A e \in EmployeeRow :
    LET t == trail[e]
        at == [i \in 0 .. Len(t) |-> IF i = 0 THEN NoRow ELSE t[i].after]
    IN  /\ \A i \in DOMAIN t : t[i].before = at[i - 1] /\ t[i].after # t[i].before
        /\ at[Len(t)] = employee[e]

\* An issue names its receiver as he is when the issue commits, and he is active
\* then, though the row was judged and copied earlier (post_quantity_issue).
ReceiversAreTrue ==
  [][\A h \in Handover :
       handed'[h] # handed[h] =>
         LET e == handed'[h].to
         IN  /\ employee[e] # NoRow
             /\ employee[e].active
             /\ employee[e].number = handed'[h].number]_employeeVars
=============================================================================
