------------------------------- MODULE MCOffice -------------------------------
(***************************************************************************)
(* Five components of the office that share no state, side by side in one  *)
(* instance: purchase requests, the catalog, access management, the pages  *)
(* that post and the employees.  A behaviour follows one of them, the desk *)
(* that is served; the others stay as they begin.  Since every property    *)
(* speaks of one component only, nothing is lost by that.                  *)
(***************************************************************************)
EXTENDS MCProcurement, Catalog, AccessManagement, OperationPages, Employees

VARIABLE desk

notProcurement == <<catalogVars, accessVars, pageVars, employeeVars, desk>>
notCatalog == <<vars, accessVars, pageVars, employeeVars, desk>>
notAccess == <<vars, catalogVars, pageVars, employeeVars, desk>>
notPages == <<vars, catalogVars, accessVars, employeeVars, desk>>
notEmployees == <<vars, catalogVars, accessVars, pageVars, desk>>
officeVars == <<vars, catalogVars, accessVars, pageVars, employeeVars, desk>>

Desks == {"procurement", "catalog", "access", "pages", "employees"}

OfficeInit ==
  /\ desk \in Desks
  /\ Init
  /\ desk # "procurement" => stockUnit = [m \in Material |-> CHOOSE u \in Unit : TRUE]
  /\ CatalogInit
  /\ AccessInit
  /\ PagesInit
  /\ EmployeesInit

OfficeNext ==
  \/ desk = "procurement" /\ Next /\ UNCHANGED notProcurement
  \/ desk = "catalog" /\ CatalogNext /\ UNCHANGED notCatalog
  \/ desk = "access" /\ AccessNext /\ UNCHANGED notAccess
  \/ desk = "pages" /\ PagesNext /\ UNCHANGED notPages
  \/ desk = "employees" /\ EmployeesNext /\ UNCHANGED notEmployees

OfficeSpec == OfficeInit /\ [][OfficeNext]_officeVars

OfficeTypeOK ==
  /\ TypeOK
  /\ CatalogTypeOK
  /\ AccessTypeOK
  /\ PagesTypeOK
  /\ EmployeeTypeOK

-----------------------------------------------------------------------------
(***************************************************************************)
(* Catalog                                                                 *)
(***************************************************************************)
\* Materials of one category: of a code that is generated, of two codes of the
\* generated pattern.
Cards ==
  {[code |-> n, category |-> 1, unit |-> 1, mode |-> "QUANTITY"] : n \in {Nil, 1, 2}}

-----------------------------------------------------------------------------
(***************************************************************************)
(* Access                                                                  *)
(***************************************************************************)
ViewsOfWrites == {<<"change", "view">>}
NothingDirect == [u \in User |-> {}]
ManagersTemplate == [r \in Reserved |-> {Manage, "view", "change"}]
Selections == {{"view", "change"}, {Manage}}
DelegatesJoined == [u \in User |-> IF u = "delegate" THEN Reserved ELSE {}]

-----------------------------------------------------------------------------
(***************************************************************************)
(* Pages                                                                   *)
(***************************************************************************)
\* A page of every kind, and two asset receipts that may want one code.
OnePageOrTwo ==
  UNION {{[q \in Page |-> IF q = p THEN k ELSE Nothing] : k \in Kind} : p \in Page}
    \union {[p \in Page |-> "assetReceipt"]}

\* Workers, editors, clients and clerks are the same values here.
OfficeSymmetry == Permutations(Client) \union Permutations(MaterialRow)
=============================================================================
