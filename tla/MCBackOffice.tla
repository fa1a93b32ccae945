----------------------------- MODULE MCBackOffice -----------------------------
(***************************************************************************)
(* Small instances of the six components.  The initial state chooses which *)
(* one is at work, and the others stay as they begin: side by side the     *)
(* states of one would be multiplied by those of the others.               *)
(***************************************************************************)
EXTENDS BackOffice, FiniteSets, TLC

CONSTANTS
  d1, g1, g2, i1, i2, r1, r2, x1, x2, x3,
  u1, u2, m1, m2, f1, f2, e1, e2, b1, p1, p2, line, teams

VARIABLE part

(* r1 sends a batch of two groups, r2 creates a rate of the first of them  *)
(* that is not active.                                                     *)
Item(g, o, a) == [group |-> g, output |-> o, active |-> a]
MCBatches == [r \in {r1, r2} |->
  IF r = r1 THEN {[items |-> <<Item(g1, 2, TRUE), Item(g2, 2, TRUE)>>, only |-> FALSE]}
  ELSE {[items |-> <<Item(g1, 1, FALSE)>>, only |-> TRUE]}]
MCRateChanges == {Gone, [output |-> 1, active |-> FALSE]}
MCRanks == 1..3
(* The rows of a list are named in their order, those to come at the end:  *)
(* any other naming is the same but for the names.                         *)
Rank(x) == IF key[x] = Unborn THEN 4 ELSE key[x]
InOrder == Rank(x1) <= Rank(x2) /\ Rank(x2) <= Rank(x3)

(* Two workers with a form and an entry each.  The first begins with a     *)
(* form; the second may have none, a draft in another unit, or a submitted *)
(* form in the unit of the first, wherever the second is now.              *)
In(u) == [inside |-> TRUE, unit |-> u]
MCPlaces == {In(u1), In(u2), [inside |-> FALSE, unit |-> Elsewhere]}
MCWorkerOf == (f1 :> m1) @@ (f2 :> m2)
MCDayOf == (f1 :> 1) @@ (f2 :> 2)
MCFormOf == (e1 :> f1) @@ (e2 :> f2)
MCBagOf == (e1 :> b1) @@ (e2 :> b1)
MCProcessOf == (e1 :> p1) @@ (e2 :> p2)
FormIn(u, s) == [place |-> In(u), status |-> s]
Made(t) == [total |-> t, hours |-> <<t>>,
            issues |-> IF t = 0 THEN <<>> ELSE <<[type |-> "late", impact |-> t]>>]
MCRecorded == {Made(0), Made(2)}
MCScenes ==
  {[units |-> {u1, u2}, place |-> (m1 :> In(u1)) @@ (m2 :> p),
    form |-> (f1 :> FormIn(u1, s)) @@ (f2 :> f),
    entry |-> (e1 :> Made(2)) @@ (e2 :> IF f = FormIn(u1, "PENDING") THEN Made(2) ELSE Unborn)] :
   p \in MCPlaces, s \in {"DRAFT", "PENDING"},
   f \in {Unborn, FormIn(u2, "DRAFT"), FormIn(u1, "PENDING")}}

-----------------------------------------------------------------------------
Parts == {"departments", "rates", "listings", "permissions", "reports", "exports"}

(* A part that is not at work begins in one of its initial states.         *)
MCInit ==
  /\ part \in Parts
  /\ IF part = "departments" THEN TRUE ELSE parent = [d \in Depts |-> IF d = d1 THEN Nobody ELSE d1]
  /\ IF part = "listings" THEN key \in [Listed -> MCRanks \cup {Unborn}] /\ InOrder
     ELSE list = L!ListHandBags /\ key = [x \in Listed |-> Unborn]
  /\ IF part = "reports" THEN TRUE
     ELSE \E s \in MCScenes :
            /\ s.form[f1].status = "DRAFT" /\ s.form[f2] = Unborn /\ s.place[m2] = In(u1)
            /\ units = s.units /\ place = s.place /\ form = s.form /\ entry = s.entry
  /\ Init
  /\ part # "permissions" => watched = "list" /\ db.active = Unborn

MCNext ==
  /\ UNCHANGED part
  /\ \/ part = "departments" /\ DepartmentsStep
     \/ part = "rates" /\ RatesStep
     \/ part = "listings" /\ ListingsStep
     \/ part = "permissions" /\ PermissionsStep
     \/ part = "reports" /\ ReportsStep
     \/ part = "exports" /\ ExportsStep

FairSpec == MCInit /\ [][MCNext]_<<part, vars>> /\ Fairness
=============================================================================
