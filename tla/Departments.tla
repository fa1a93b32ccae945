----------------------------- MODULE Departments -----------------------------
(***************************************************************************)
(* Departments as a tree (department.service.ts): its two readers walk it  *)
(* with one query per department while departments are made, moved and     *)
(* deleted.  update stores any parent it is given, the department itself   *)
(* and its descendants included.  What create, update and delete look up   *)
(* first is in Records; here only their writes count, at any time.         *)
(***************************************************************************)
EXTENDS Naturals, Sequences, FiniteSets, SequencesExt, FiniteSetsExt

CONSTANTS
  Depts,
  Walks,       \* slots for readers
  MaxShown,    \* a tree is followed to this many departments, a hierarchy keeps as many
  MaxChanges,  \* changes while a reader is under way
  Nobody, Unborn

VARIABLES
  parent,   \* of each department; Nobody for a root, Unborn for one not there
  walk      \* the readers

vars == <<parent, walk>>

Here == {d \in Depts : parent[d] # Unborn}
Idle == [pc |-> "idle", todo |-> <<>>, shown |-> [d \in Depts |-> 0], path |-> <<>>,
         up |-> Nobody, moved |-> {}, changes |-> 0]

TypeOK ==
  /\ parent \in [Depts -> Depts \cup {Nobody, Unborn}]
  /\ \A d \in Here : parent[d] \in Here \cup {Nobody}
  /\ \A w \in Walks :
       /\ walk[w].pc \in {"idle", "tree", "hierarchy"}
       /\ walk[w].todo \in Seq(Depts) /\ walk[w].shown \in [Depts -> 0..MaxShown]
       /\ walk[w].path \in Seq(Depts)
       /\ walk[w].up \in Depts \cup {Nobody}
       /\ walk[w].moved \subseteq Depts /\ walk[w].changes \in 0..MaxChanges

Init ==
  /\ parent \in {p \in [Depts -> Depts \cup {Nobody}] : Cardinality({d \in Depts : p[d] = Nobody}) = 1}
  /\ walk = [w \in Walks |-> Idle]

Goes(w) == walk[w].pc # "idle"
Answer(w) == walk' = [walk EXCEPT ![w] = Idle]

-----------------------------------------------------------------------------
(* The writes.  For the properties, each reader under way notes whose      *)
(* parent changed.                                                         *)
Put(p) ==
  LET changed == {d \in Depts : p[d] # parent[d]} IN
  /\ \A w \in Walks : walk[w].changes < MaxChanges
  /\ parent' = p
  /\ walk' = [w \in Walks |->
       IF Goes(w) THEN [walk[w] EXCEPT !.moved = @ \cup changed, !.changes = @ + 1] ELSE walk[w]]

Create(d, p) ==
  /\ parent[d] = Unborn /\ p \in Here \cup {Nobody}
  /\ Put([parent EXCEPT ![d] = p])

Update(d, p) ==
  /\ d \in Here /\ p \in Here \cup {Nobody}
  /\ Put([parent EXCEPT ![d] = p])

(* Children that came after the look for them become roots.                *)
Delete(d) ==
  /\ d \in Here
  /\ Put([c \in Depts |->
       IF c = d THEN Unborn ELSE IF parent[c] = d THEN Nobody ELSE parent[c]])

-----------------------------------------------------------------------------
(* findRootDepartments; findMany gives any order.                          *)
ChildrenOf(p) == {d \in Depts : parent[d] = p}

StartTree(w) ==
  /\ ~Goes(w)
  /\ \E roots \in SetToSeqs(ChildrenOf(Nobody)) :
       walk' = [walk EXCEPT ![w] = [Idle EXCEPT !.pc = "tree", !.todo = roots]]
  /\ UNCHANGED parent

(* Fault: a department without children is left out.                       *)
BuildTreeOfParents(w) ==
  LET d == Head(walk[w].todo) IN
  \E children \in SetToSeqs(ChildrenOf(d)) :
    walk' = [walk EXCEPT ![w].todo = children \o Tail(@),
                         ![w].shown[d] = IF children = <<>> THEN @ ELSE @ + 1]

(* One turn of buildTree: the children of the next department, which are   *)
(* gone into before its sisters.                                           *)
BuildTree(w) ==
  LET d == Head(walk[w].todo) IN
  \E children \in SetToSeqs(ChildrenOf(d)) :
    walk' = [walk EXCEPT ![w].todo = children \o Tail(@), ![w].shown[d] = @ + 1]

(* A tree may never end; it is followed up to MaxShown departments.        *)
StepTree(w) ==
  /\ walk[w].pc = "tree"
  /\ IF walk[w].todo = <<>> THEN Answer(w)
     ELSE IF SumFunction(walk[w].shown) = MaxShown THEN Answer(w) ELSE BuildTree(w)
  /\ UNCHANGED parent

(* The hierarchy starts at a department and follows the parent each row    *)
(* had when it was read.                                                   *)
StartHierarchy(w, d) ==
  /\ ~Goes(w) /\ d \in Here
  /\ walk' = [walk EXCEPT ![w] =
       [Idle EXCEPT !.pc = "hierarchy", !.path = <<d>>, !.up = parent[d]]]
  /\ UNCHANGED parent

(* Fault: a parent that is gone is waited for.                             *)
FindParentsPatiently(w) ==
  LET p == walk[w].up IN
  walk' = IF p \in Here
            THEN [walk EXCEPT ![w].up = parent[p],
                              ![w].path = IF Len(@) < MaxShown THEN <<p>> \o @ ELSE @]
            ELSE walk
(* A parent that is gone by now ends the walk; an answer is followed up to *)
(* MaxShown.                                                               *)
FindParents(w) ==
  LET p == walk[w].up IN
  IF p \in Here
    THEN walk' = [walk EXCEPT ![w].up = parent[p],
                              ![w].path = IF Len(@) < MaxShown THEN <<p>> \o @ ELSE @]
    ELSE walk' = [walk EXCEPT ![w].up = Nobody]

StepHierarchy(w) ==
  /\ walk[w].pc = "hierarchy"
  /\ IF walk[w].up = Nobody THEN Answer(w) ELSE FindParents(w)
  /\ UNCHANGED parent

Change ==
  \/ \E d \in Depts, p \in Depts \cup {Nobody} : Create(d, p) \/ Update(d, p)
  \/ \E d \in Depts : Delete(d)
Next ==
  \/ Change
  \/ \E w \in Walks :
       \/ StartTree(w) \/ StepTree(w) \/ StepHierarchy(w)
       \/ \E d \in Depts : StartHierarchy(w, d)

Spec == Init /\ [][Next]_vars
(* Every query returns, and the event loop goes on with the request.       *)
FairSpec == Spec /\ \A w \in Walks : WF_vars(StepHierarchy(w))

-----------------------------------------------------------------------------
(* A department and what is above it.                                      *)
Chain(d) ==
  LET Up(S) == S \cup {p \in Depts : \E c \in S : parent[c] = p} IN
  Up(Up(Up(Up({d}))))
Rooted(d) == \E r \in Chain(d) : parent[r] = Nobody

(* A tree that is answered shows a department exactly once when it has a   *)
(* root above it, and not at all when it hangs on a cycle, provided that   *)
(* nothing between it and the top moved while the tree was read, whatever  *)
(* else moved.                                                             *)
StayersShownOnce ==
  [][\A w \in Walks : walk[w].pc = "tree" /\ walk[w].todo = <<>> /\ walk'[w].pc = "idle" =>
       \A d \in Here : Chain(d) \cap walk[w].moved = {} =>
         walk[w].shown[d] = IF Rooted(d) THEN 1 ELSE 0]_vars

(* A hierarchy that is never answered is held up by a cycle that stays, or *)
(* by departments that never stop moving: no query of it waits for         *)
(* anything else.                                                          *)
HierarchyEnds ==
  \A w \in Walks :
    (<>[][FALSE]_parent /\ []<>(\A d \in Here : Rooted(d))) => []<>(walk[w].pc # "hierarchy")
=============================================================================
