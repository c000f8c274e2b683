------------------------------- MODULE Catalog -------------------------------
(***************************************************************************)
(* Categories, units of measure and materials (catalog/services).          *)
(*                                                                         *)
(* Every service locks the row it changes FOR UPDATE and reads the rows it *)
(* refers to without a lock; the deferred foreign keys take FOR KEY SHARE  *)
(* locks on those rows at commit, which wait for whoever holds one of them *)
(* FOR UPDATE.  A service that reads other rows before it writes is two    *)
(* steps, its checks and its commit; any other is one.                     *)
(***************************************************************************)
EXTENDS Naturals, FiniteSets

CONSTANTS
  Editor,        \* requests that are served at once
  CategoryRow, UnitRow, MaterialRow,   \* rows that there may be
  MaterialForm,         \* what users may send of a material
  MaxNumber,     \* bound of the numbers in generated material codes
  MaxAttempts,   \* MAX_GENERATED_CODE_ATTEMPTS
  Nil            \* SQL NULL

ASSUME CatalogConstants ==
  /\ MaxNumber \in Nat
  /\ MaxAttempts \in Nat \ {0}
  /\ Nil \notin CategoryRow \union UnitRow \union MaterialRow \union Nat

\* A table has finitely many rows.
ASSUME FiniteCategories == IsFiniteSet(CategoryRow)

Status == {"NONE", "ACTIVE", "INACTIVE"}
Mode == {"QUANTITY", "SERIALIZED"}
Number == 1 .. MaxNumber
Plain == 0   \* any code that is not of the pattern MAT-00000000
Code == Number \union {Plain}

\* A material that needs no code of its own is drafted without one; quantities
\* need a unit.
ASSUME DraftConstants ==
  MaterialForm \subseteq
    {d \in [code : Code \union {Nil}, category : CategoryRow,
            unit : UnitRow \union {Nil}, mode : Mode] :
       d.mode = "QUANTITY" => d.unit # Nil}

VARIABLES
  category,    \* [Category -> Category row, status "NONE" before it exists]
  unit,        \* [Unit -> status]
  material,    \* [Material -> Material row]
  lastNumber,  \* the last value of catalog_material_generated_code_seq
  given,       \* the numbers that users have given as codes themselves
  job          \* [Editor -> the service call in progress, or Idle]

catalogVars == <<category, unit, material, lastNumber, given, job>>

CategoryShape(status, parent) == [status |-> status, parent |-> parent]
MaterialShape(status, d) == [status |-> status, of |-> d]

NoCategoryRow == CategoryShape("NONE", Nil)
NoMaterialRow == MaterialShape("NONE", Nil)

\* `tries' and `draws' count the inserts and the numbers that are left to a call
\* that generates the code; both are 0 where the user gives it.  `clean': the row
\* has passed full_clean.  A refusal names the number that was taken, or the
\* attempts that are used up.
UsedUp == 0
Move(c, p) == [kind |-> "move", of |-> c, to |-> p]
Write(m, d, tries, draws) ==
  [kind |-> "write", of |-> m, draft |-> d, tries |-> tries, draws |-> draws,
   clean |-> tries = 0]
Refused(why) == [kind |-> "refused", of |-> Nil, why |-> why]
NoJob == [kind |-> "idle", of |-> Nil]

Attempts == 0 .. MaxAttempts
SentForm == [code : Code \union {Nil}, category : CategoryRow, unit : UnitRow \union {Nil},
         mode : Mode]

CatalogTypeOK ==
  /\ category \in [CategoryRow -> [status : Status, parent : CategoryRow \union {Nil}]]
  /\ unit \in [UnitRow -> Status]
  /\ material \in [MaterialRow -> {NoMaterialRow} \union
       [status : {"ACTIVE", "INACTIVE"}, of : {d \in SentForm : d.code # Nil}]]
  /\ lastNumber \in 0 .. MaxNumber
  /\ given \subseteq Number
  /\ job \in [Editor ->
       {NoJob}
         \union {Refused(why) : why \in Number \union {UsedUp}}
         \union {Move(c, p) : c \in CategoryRow, p \in CategoryRow \union {Nil}}
         \union [kind : {"write"}, of : MaterialRow, draft : SentForm,
                 tries : Attempts, draws : Attempts, clean : BOOLEAN]]

CatalogInit ==
  /\ category = [c \in CategoryRow |-> NoCategoryRow]
  /\ unit = [u \in UnitRow |-> "NONE"]
  /\ material = [m \in MaterialRow |-> NoMaterialRow]
  /\ lastNumber = 0
  /\ given = {}
  /\ job = [e \in Editor |-> NoJob]

-----------------------------------------------------------------------------
Flipped(status) == IF status = "ACTIVE" THEN "INACTIVE" ELSE "ACTIVE"

\* Is x (a category, or a material that exists) locked FOR UPDATE by another
\* than e?
LockedByOther(e, x) == \E d \in Editor \ {e} : job[d].of = x

\* The foreign key on x waits for a lock of another; NULL is not looked up.
MayShareNow(e, x) == TRUE   \* mutant: the check does not wait for locks
MayShare(e, x) == x = Nil \/ ~LockedByOther(e, x)

Locked(x) == \E e \in Editor : job[e].of = x

\* A category and those above it, as far as the walk goes.
Ancestry(c) ==
  LET above[n \in 0 .. Cardinality(CategoryRow)] ==
        IF n = 0 THEN {c} \ {Nil}
        ELSE above[n - 1] \union
               ({category[d].parent : d \in above[n - 1]} \ {Nil})
  IN  above[Cardinality(CategoryRow)]

\* The walk of Category.clean comes to a category it has visited.
RunsInCircle(c) == \E d \in Ancestry(c) : category[d].parent \in Ancestry(c)
                      /\ d \in Ancestry(category[d].parent)

MayHangBelow(c, p) ==
  p # Nil =>
    /\ category[p].status # "NONE"
    /\ c \notin Ancestry(p)
    /\ ~RunsInCircle(p)

-----------------------------------------------------------------------------
(***************************************************************************)
(* Categories and units.                                                   *)
(***************************************************************************)
CreateCategory(e, c, p) ==
  /\ job[e] = NoJob
  /\ category[c] = NoCategoryRow
  /\ MayHangBelow(c, p)
  /\ MayShare(e, p)
  /\ category' = [category EXCEPT ![c] = CategoryShape("ACTIVE", p)]
  /\ UNCHANGED <<unit, material, lastNumber, given, job>>

\* update_category: the row is locked, the ancestors of the new parent are
\* read without a lock.
CheckMove(e, c, p) ==
  /\ job[e] = NoJob
  /\ category[c].status # "NONE"
  /\ category[c].parent # p
  /\ ~Locked(c)
  /\ MayHangBelow(c, p)
  /\ job' = [job EXCEPT ![e] = Move(c, p)]
  /\ UNCHANGED <<category, unit, material, lastNumber, given>>

CommitMove(e) ==
  /\ job[e].kind = "move"
  /\ MayShare(e, job[e].to)
  /\ category' = [category EXCEPT ![job[e].of].parent = job[e].to]
  /\ job' = [job EXCEPT ![e] = NoJob]
  /\ UNCHANGED <<unit, material, lastNumber, given>>

\* Moves that wait in a circle for each other's rows: PostgreSQL ends one.
EndDeadlock(e) ==
  /\ job[e].kind = "move"
  /\ \E circle \in SUBSET {d \in Editor : job[d].kind = "move"} :
       /\ e \in circle
       /\ {job[d].of : d \in circle} = {job[d].to : d \in circle}
  /\ job' = [job EXCEPT ![e] = NoJob]
  /\ UNCHANGED <<category, unit, material, lastNumber, given>>

SetCategoryActive(c) ==
  /\ category[c].status # "NONE"
  /\ ~Locked(c)
  /\ MayHangBelow(c, category[c].parent)
  /\ category' = [category EXCEPT ![c].status = Flipped(@)]
  /\ UNCHANGED <<unit, material, lastNumber, given, job>>

WriteUnit(u) ==   \* create_unit_of_measure, set_unit_of_measure_active
  /\ unit' = [unit EXCEPT ![u] = IF @ = "NONE" THEN "ACTIVE" ELSE Flipped(@)]
  /\ UNCHANGED <<category, material, lastNumber, given, job>>

-----------------------------------------------------------------------------
(***************************************************************************)
(* Materials.                                                              *)
(***************************************************************************)

\* What is assigned is active, or was assigned before.
Assignable(d, old) ==
  /\ \/ category[d.category].status = "ACTIVE"
     \/ old # Nil /\ d.category = old.category
  /\ \/ d.unit = Nil
     \/ unit[d.unit] = "ACTIVE"
     \/ old # Nil /\ d.unit = old.unit

Has(m, code) == material[m] # NoMaterialRow /\ material[m].of.code = code

\* The unique index knows the codes of the pattern only.
Taken(m, code) == code # Plain /\ \E n \in MaterialRow \ {m} : Has(n, code)

CheckCreate(e, m, d) ==
  /\ job[e] = NoJob
  /\ material[m] = NoMaterialRow
  /\ ~Locked(m)
  /\ Assignable(d, Nil)
  /\ ~Taken(m, d.code)
  /\ job' = [job EXCEPT ![e] = IF d.code = Nil
                              THEN Write(m, d, MaxAttempts, MaxAttempts)
                              ELSE Write(m, d, 0, 0)]
  /\ UNCHANGED <<category, unit, material, lastNumber, given>>

\* Code, category, unit and tracking mode may change whatever the stock.
CheckUpdate(e, m, d) ==
  /\ job[e] = NoJob
  /\ material[m] # NoMaterialRow
  /\ ~Locked(m)
  /\ d.code # Nil
  /\ d # material[m].of
  /\ Assignable(d, material[m].of)
  /\ ~Taken(m, d.code)
  /\ job' = [job EXCEPT ![e] = Write(m, d, 0, 0)]
  /\ UNCHANGED <<category, unit, material, lastNumber, given>>

SetMaterialActive(m) ==
  /\ material[m] # NoMaterialRow
  /\ ~Locked(m)
  /\ material' = [material EXCEPT ![m].status = Flipped(@)]
  /\ UNCHANGED <<category, unit, lastNumber, given, job>>

NextByCount ==   \* mutant: the next number is counted, not drawn
  1 + Cardinality({n \in Number : \E m \in MaterialRow : Has(m, n)})

NextNumber == lastNumber + 1

\* allocate_generated_material_code: nextval, which no rollback takes back, and
\* a look whether a material has that code.
Draw(e) ==
  /\ job[e].kind = "write"
  /\ job[e].draft.code = Nil
  /\ NextNumber \in Number
  /\ lastNumber' = NextNumber
  /\ job' = [job EXCEPT ![e] =
       IF ~Taken(job[e].of, NextNumber)
       THEN [@ EXCEPT !.draft.code = NextNumber]
       ELSE IF job[e].draws > 1 THEN [@ EXCEPT !.draws = job[e].draws - 1]
       ELSE Refused(UsedUp)]
  /\ UNCHANGED <<category, unit, material, given>>

Coded(e) == job[e].kind = "write" /\ job[e].draft.code # Nil

\* full_clean looks a second time, and its answer is not tried again.
CleanGenerated(e) ==
  LET code == job[e].draft.code
  IN  /\ Coded(e)
      /\ ~job[e].clean
      /\ job' = [job EXCEPT ![e] =
           IF Taken(@.of, code) THEN Refused(code) ELSE [@ EXCEPT !.clean = TRUE]]
      /\ UNCHANGED <<category, unit, material, lastNumber, given>>

Ready(e) == Coded(e) /\ job[e].clean

\* The index refuses the code: a generated one is drawn anew, one that was
\* given is an error.
Collide(e) ==
  /\ Ready(e)
  /\ Taken(job[e].of, job[e].draft.code)
  /\ job' = [job EXCEPT ![e] =
       IF job[e].tries = 0 THEN NoJob
       ELSE IF job[e].tries > 1
       THEN [@ EXCEPT !.tries = job[e].tries - 1, !.draws = MaxAttempts,
                      !.draft.code = Nil, !.clean = FALSE]
       ELSE Refused(UsedUp)]
  /\ UNCHANGED <<category, unit, material, lastNumber, given>>

CommitMaterial(e) ==
  LET m == job[e].of
      d == job[e].draft
  IN  /\ Ready(e)
      /\ ~Taken(m, d.code)
      /\ MayShare(e, d.category)
      /\ material' = [material EXCEPT ![m] =
           MaterialShape(IF @ = NoMaterialRow THEN "ACTIVE" ELSE @.status, d)]
      /\ given' = IF job[e].tries = 0 THEN given \union ({d.code} \ {Plain}) ELSE given
      /\ job' = [job EXCEPT ![e] = NoJob]
      /\ UNCHANGED <<category, unit, lastNumber>>

\* The user is told that no code could be generated, or that it is taken.
ReadAnswer(e) ==
  /\ job[e].kind = "refused"
  /\ job' = [job EXCEPT ![e] = NoJob]
  /\ UNCHANGED <<category, unit, material, lastNumber, given>>

-----------------------------------------------------------------------------
EditCategory(e) ==
  \E c \in CategoryRow :
    \E p \in CategoryRow \union {Nil} : CreateCategory(e, c, p) \/ CheckMove(e, c, p)

EditMaterial(e) ==
  \E m \in MaterialRow, d \in MaterialForm : CheckCreate(e, m, d) \/ CheckUpdate(e, m, d)

CatalogNext ==
  \/ \E e \in Editor :
       \/ EditCategory(e)
       \/ CommitMove(e)
       \/ EndDeadlock(e)
       \/ EditMaterial(e)
       \/ Draw(e)
       \/ CleanGenerated(e)
       \/ Collide(e)
       \/ CommitMaterial(e)
       \/ ReadAnswer(e)
  \/ \E c \in CategoryRow : SetCategoryActive(c)
  \/ \E u \in UnitRow : WriteUnit(u)
  \/ \E m \in MaterialRow : SetMaterialActive(m)

CatalogSpec == CatalogInit /\ [][CatalogNext]_catalogVars

-----------------------------------------------------------------------------
(***************************************************************************)
(* Properties                                                              *)
(***************************************************************************)

\* Two categories never hang below each other, though nobody locks the one that
\* the other is hung below: the foreign keys wait for each other's row, and the
\* database ends one of them (update_category).
NoMutualParents ==
  \A c, d \in CategoryRow : category[c].parent = d => category[d].parent # c

\* Generated codes do not collide with each other, however many create materials
\* at once: one is refused only if a user has given the number drawn by hand, or
\* as many numbers of that pattern as there are attempts (create_material,
\* allocate_generated_material_code).
RefusedOnlyIfGiven ==
  \A e \in Editor :
    job[e].kind = "refused" =>
      IF job[e].why = UsedUp THEN Cardinality(given) >= MaxAttempts
                             ELSE job[e].why \in given
=============================================================================
