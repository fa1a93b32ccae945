------------------------------ MODULE BackOffice ------------------------------
(***************************************************************************)
(* Six components of the backend that share no state: a step of the whole  *)
(* is a step of one of them.                                               *)
(***************************************************************************)
EXTENDS Naturals, Sequences, FiniteSets

CONSTANTS
  Depts, Walks, MaxShown, MaxMoves,                             \* Departments
  Groups, Leaving, Ids, Outputs, Batches, RateChanges, Callers, \* Rates
  Listed, Ranks, Limits, Most, ListChanges,                     \* Listings
  Readers, Writers, MaxWrites, Missing,                         \* Permissions
  Units, Workers, Places, Forms, Entries, WorkerOf, DayOf, FormOf,
  BagOf, ProcessOf, Recorded, Scenes, MaxChanges, Elsewhere,    \* Reports
  Requests, UnitTypes, Compared, Codes, MaxTime, NoCode,        \* Exports
  Nobody, Unborn, Gone

VARIABLES
  parent, walk,
  here, rate, req,
  list, key, pager,
  watched, db, kept, reader, writer, writes,
  units, place, form, entry, rep,
  now, export, file

departments == <<parent, walk>>
rates == <<here, rate, req>>
listings == <<list, key, pager>>
permissions == <<watched, db, kept, reader, writer, writes>>
reports == <<units, place, form, entry, rep>>
exports == <<now, export, file>>
vars == <<departments, rates, listings, permissions, reports, exports>>

-----------------------------------------------------------------------------
D == INSTANCE Departments WITH MaxChanges <- MaxMoves
R == INSTANCE Rates WITH Changes <- RateChanges, Requests <- Callers
L == INSTANCE Listings WITH Rows <- Listed, Keys <- Ranks, Changes <- ListChanges, reader <- pager
P == INSTANCE Permissions
T == INSTANCE Reports WITH Values <- Recorded
X == INSTANCE Exports

(* The constants of Departments.  A tree is followed for a while.          *)
ASSUME DepartmentsAssumption ==
  /\ IsFiniteSet(Depts) /\ {Nobody, Unborn} \cap Depts = {} /\ Nobody # Unborn
  /\ MaxShown \in Nat /\ MaxMoves \in Nat

(* The constants of Listings.  A page has room for a row.                  *)
ASSUME ListingsAssumption ==
  /\ IsFiniteSet(Listed) /\ Ranks \subseteq Nat /\ {Unborn, Gone} \cap Ranks = {}
  /\ Limits \subseteq Nat \ {0} /\ Most \in Nat \ {0} /\ ListChanges \in Nat

(* The constants of Permissions.                                           *)
ASSUME PermissionsAssumption ==
  /\ MaxWrites \in Nat /\ {Unborn, Gone} \cap BOOLEAN = {} /\ Unborn # Gone

(* The clock of Exports.                                                   *)
ASSUME ExportsAssumption == MaxTime \in Nat

(* The constants of Rates.                                                 *)
ASSUME RatesAssumption ==
  /\ Ids \cap {"ask", "insert", "done", "failed"} = {}
  /\ \A r \in Callers : \A b \in Batches[r] :
       b.items \in Seq([group : Groups, output : Outputs, active : BOOLEAN]) /\ b.only \in BOOLEAN
  /\ \A v \in RateChanges \ {Gone} : v.output \in Outputs /\ v.active \in BOOLEAN
  /\ Unborn # Gone /\ {Unborn, Gone} \cap R!Rate = {}

(* The constants of Reports.  A report begins where no row is without what *)
(* it belongs to.                                                          *)
ASSUME ReportsAssumption ==
  /\ IsFiniteSet(Units) /\ IsFiniteSet(Workers) /\ IsFiniteSet(Forms) /\ IsFiniteSet(Entries)
  /\ FormOf \in [Entries -> Forms] /\ WorkerOf \in [Forms -> Workers] /\ MaxChanges \in Nat
  /\ \A v \in Recorded :
       /\ v.total \in Nat /\ IsFiniteSet(DOMAIN v.hours)
       /\ \A h \in DOMAIN v.hours : v.hours[h] \in Nat
       /\ Len(v.issues) \in Nat /\ DOMAIN v.issues = 1..Len(v.issues)
  /\ {Unborn, Gone} \cap Recorded = {} /\ Unborn # Gone
  /\ Unborn \notin [place : Places, status : T!Statuses]
  /\ \A s \in Scenes :
       /\ s.units \subseteq Units /\ s.place \in [Workers -> Places]
       /\ s.form \in [Forms -> [place : Places, status : T!Statuses] \cup {Unborn}]
       /\ s.entry \in [Entries -> Recorded \cup {Unborn, Gone}]
       /\ \A e \in Entries : s.entry[e] \in Recorded =>
            s.form[FormOf[e]] # Unborn /\ s.form[FormOf[e]].status # "GONE"

Init == D!Init /\ R!Init /\ L!Init /\ P!Init /\ T!Init /\ X!Init

DepartmentsStep == D!Next /\ UNCHANGED <<rates, listings, permissions, reports, exports>>
RatesStep == R!Next /\ UNCHANGED <<departments, listings, permissions, reports, exports>>
ListingsStep == L!Next /\ UNCHANGED <<departments, rates, permissions, reports, exports>>
PermissionsStep == P!Next /\ UNCHANGED <<departments, rates, listings, reports, exports>>
ReportsStep == T!Next /\ UNCHANGED <<departments, rates, listings, permissions, exports>>
ExportsStep == X!Next /\ UNCHANGED <<departments, rates, listings, permissions, reports>>
Next ==
  \/ DepartmentsStep \/ RatesStep \/ ListingsStep
  \/ PermissionsStep \/ ReportsStep \/ ExportsStep

Spec == Init /\ [][Next]_vars

(* The fairness of Departments and Rates.                                  *)
Fairness ==
  /\ \A w \in Walks : WF_departments(D!StepHierarchy(w))
  /\ \A r \in Callers : WF_rates(R!Go(r)) /\ \A k \in R!Numbers : WF_rates(R!ItemStep(r, k))

-----------------------------------------------------------------------------
(* Every component's type invariant.                                       *)
TypeOK == D!TypeOK /\ R!TypeOK /\ L!TypeOK /\ P!TypeOK /\ T!TypeOK /\ X!TypeOK

(* The properties of the components, as their modules state them.          *)
StayersShownOnce == D!StayersShownOnce
HierarchyEnds == D!HierarchyEnds
SuccessCoversBatch == R!SuccessCoversBatch
EveryItemSettles == R!EveryItemSettles
PagesMissForReason == L!PagesMissForReason
KeptIsTrue == P!KeptIsTrue
BreakdownsAccount == T!BreakdownsAccount
StatisticsOfOneMoment == T!StatisticsOfOneMoment
FilesHoldReports == X!FilesHoldReports
=============================================================================
