-------------------------------- MODULE Rights --------------------------------
(***************************************************************************)
(* What one user may manage.  It is written down twice: in the tables of   *)
(* managers and leaders, a row per unit, and in assignments of roles whose *)
(* scope is a unit.  Eight readings put the answer together from several   *)
(* queries, each of some of these sources, while rights are given, expire  *)
(* and are taken away, units are deleted and the user asked about moves.   *)
(***************************************************************************)
EXTENDS Naturals, Sequences

CONSTANTS
  Factories, Lines, Teams, Groups,
  Above,        \* the unit above each line, team and group; it never changes
  MaxChanges,   \* while a question is answered
  Other,        \* the user asked about
  None

VARIABLES
  fact,    \* of each source: "none", "running" or "over"
  here,    \* the units there are
  place,   \* the units the row of Other names
  ask      \* the question

vars == <<fact, here, place, ask>>

Units == Factories \cup Lines \cup Teams \cup Groups
Places ==
  {P \in SUBSET Units : \A kind \in {Factories, Lines, Teams, Groups} :
                         \A u, v \in P \cap kind : u = v}

(* The sources.  The repository of the teams, and it alone, writes a team  *)
(* as "team:" and its id in the scope of a role.                           *)
Admin == <<"admin", None>>
RowOf(u) == <<"row", u>>
RoleOf(u) == <<"role", u>>
PrefixedRoleOf(t) == <<"team:", t>>
Sources ==
  {Admin} \cup {RowOf(u) : u \in Factories \cup Lines \cup Teams}
    \cup {RoleOf(u) : u \in Units} \cup {PrefixedRoleOf(t) : t \in Teams}

There == {s \in Sources : fact[s] # "none"}
Valid == {s \in Sources : fact[s] = "running"}

(* A query is for a source, and for one that has not ended or for any.     *)
Running(s) == [source |-> s, ended |-> FALSE]
Ever(s) == [source |-> s, ended |-> TRUE]
Finds(q) == q.source \in IF q.ended THEN There ELSE Valid

-----------------------------------------------------------------------------
(* The checks of the services: queries in order until one finds.           *)
(* Fault: the assignment of the role is not asked for.                     *)
IsManagerByRow(l) == <<Running(Admin), Running(RowOf(l))>>
IsManager(l) == <<Running(Admin), Running(RowOf(l)), Running(RoleOf(l))>>
IsLeader(t) == <<Running(Admin), Running(RowOf(t)), Running(PrefixedRoleOf(t))>>

CanManageFactory(f) == <<Ever(RowOf(f))>>
CanManageLine(l) == IsManager(l) \o CanManageFactory(Above[l])
CanManageTeam(t) == IsLeader(t) \o IsManager(Above[t])
CanManage(u) ==
  IF u \in Factories THEN CanManageFactory(u)
  ELSE IF u \in Lines THEN CanManageLine(u) ELSE CanManageTeam(u)

(* canAccessEntity, for a unit of each kind.                               *)
IsFactoryManager(f) == Ever(RoleOf(f))
IsLineManager(l) == Ever(RoleOf(l))
IsTeamLeader(t) == Ever(RoleOf(t))
IsGroupLeader(g) == Ever(RoleOf(g))
RoleAt(u) ==
  IF u \in Factories THEN IsFactoryManager(u)
  ELSE IF u \in Lines THEN IsLineManager(u)
  ELSE IF u \in Teams THEN IsTeamLeader(u) ELSE IsGroupLeader(u)
CanAccessUnit(u) == <<Ever(Admin), RoleAt(u)>>

(* And for a user: the roles at the units the user is in, from above.      *)
CanAccessUser(P) ==
  LET Of(kind) == IF P \cap kind = {} THEN <<>>
                  ELSE <<RoleAt(CHOOSE u \in P : u \in kind)>> IN
  Of(Factories) \o Of(Lines) \o Of(Teams) \o Of(Groups)

(* getManagerialAccess: one query; end dates do not matter.                *)
ManagerialAccess(kind) == {u \in kind : RoleOf(u) \in There}
Unnamed == {s \in There : s[1] = "team:"}

-----------------------------------------------------------------------------
(* looks: the queries to come; above: the units whose units below are to   *)
(* be listed; got: the units (or Other) the answer is yes for.  The rest   *)
(* is for the property: the sources valid all the time and those there at  *)
(* some time, the units that stayed, and those Other stayed in or has been *)
(* in.                                                                     *)
Idle == [pc |-> "idle"]
Asked(op, pc, unit, looks) ==
  [op |-> op, pc |-> pc, unit |-> unit, looks |-> looks, above |-> {}, got |-> {}, changes |-> 0,
   steady |-> Valid, seen |-> There, stayed |-> here, home |-> place, been |-> place]

Queries == [source : Sources, ended : BOOLEAN]
Questions ==
  [op : {"manage", "access", "user", "factories", "lines", "teams"},
   pc : {"look", "roles", "target", "below", "done"}, unit : Units \cup {Other, None},
   looks : Seq(Queries), above : SUBSET Units,
   got : SUBSET (Units \cup {Other} \cup {PrefixedRoleOf(t) : t \in Teams}),
   changes : 0..MaxChanges, steady : SUBSET Sources, seen : SUBSET Sources,
   stayed : SUBSET Units, home : SUBSET Units, been : SUBSET Units]

TypeOK ==
  /\ fact \in [Sources -> {"none", "running", "over"}]
  /\ here \subseteq Units /\ place \in Places /\ place \subseteq here
  /\ \A u \in here \ Factories : Above[u] \in here
  /\ \A s \in There : s[1] = "row" => s[2] \in here
  /\ ask # Idle => ask \in Questions /\ ask.steady \subseteq ask.seen

(* At most one source to begin with.                                       *)
Init ==
  /\ fact \in {f \in [Sources -> {"none", "running", "over"}] :
                 \A s, t \in Sources : f[s] # "none" /\ f[t] # "none" => s = t}
  /\ here = Units /\ place \in Places
  /\ ask = Idle

Same == UNCHANGED <<fact, here, place>>
AskManage(u) == ask' = Asked("manage", "look", u, CanManage(u))
AskUnit(u) == ask' = Asked("access", "look", u, CanAccessUnit(u))
AskUser == ask' = Asked("user", "look", Other, <<Ever(Admin)>>)
AskFactories == ask' = Asked("factories", "roles", None, <<>>)
AskLines == ask' = Asked("lines", "roles", None, <<>>)
AskTeams == ask' = Asked("teams", "look", None, <<Ever(Admin)>>)
Ask ==
  /\ ask = Idle /\ Same
  /\ \/ \E u \in here \ Groups : AskManage(u)
     \/ \E u \in here : AskUnit(u)
     \/ AskUser \/ AskFactories \/ AskLines \/ AskTeams

Yes ==
  IF ask.op = "teams" THEN here \cap Teams ELSE {ask.unit}
Look ==
  /\ ask # Idle /\ ask.pc = "look" /\ Same
  /\ LET after ==
           IF Len(ask.looks) > 1 THEN "look"
           ELSE IF ask.op = "user" /\ Head(ask.looks) = Ever(Admin) THEN "target"
           ELSE IF ask.op = "teams" THEN "roles" ELSE "done"
     IN ask' = IF Finds(Head(ask.looks))
               THEN [ask EXCEPT !.pc = "done", !.got = Yes]
               ELSE [ask EXCEPT !.pc = after, !.looks = Tail(@)]

ReadTarget ==
  /\ ask # Idle /\ ask.pc = "target" /\ Same
  /\ ask' = [ask EXCEPT !.looks = CanAccessUser(place),
                        !.pc = IF place = {} THEN "done" ELSE "look"]

(* What the lists make of the roles: units of the kind asked for, and      *)
(* units whose own units count as well.                                    *)
ReadRoles ==
  /\ ask # Idle /\ ask.pc = "roles" /\ Same
  /\ LET above == CASE ask.op = "factories" -> {}
                    [] ask.op = "lines" -> ManagerialAccess(Factories)
                    [] ask.op = "teams" -> ManagerialAccess(Lines)
         got == CASE ask.op = "factories" -> ManagerialAccess(Factories)
                  [] ask.op = "lines" -> ManagerialAccess(Lines)
                  [] ask.op = "teams" -> ManagerialAccess(Teams) \cup Unnamed
     IN ask' = [ask EXCEPT !.got = got, !.above = above,
                           !.pc = IF above = {} THEN "done" ELSE "below"]

ReadBelow ==
  /\ ask # Idle /\ ask.pc = "below" /\ Same
  /\ \E u \in ask.above :
       ask' = [ask EXCEPT !.got = @ \cup {v \in here \ Factories : Above[v] = u},
                          !.above = @ \ {u},
                          !.pc = IF ask.above = {u} THEN "done" ELSE "below"]

-----------------------------------------------------------------------------
(* What may change while a question is answered.                           *)
Change ==
  /\ ask # Idle /\ ask.pc # "done" /\ ask.changes < MaxChanges
  /\ ask' = [ask EXCEPT !.changes = @ + 1, !.steady = @ \cap Valid', !.seen = @ \cup There',
                        !.stayed = @ \cap here', !.home = @ \cap place', !.been = @ \cup place']

(* A right is given, ends, or is taken away.                               *)
SetFact(s, v) ==
  /\ fact[s] # v /\ (v = "over" => fact[s] = "running") /\ (s[1] = "row" => s[2] \in here)
  /\ fact' = [fact EXCEPT ![s] = v]
  /\ UNCHANGED <<here, place>>
  /\ Change

(* A unit goes with its rows; the scope of an assignment is only a text.   *)
DeleteUnit(u) ==
  /\ u \in here /\ \A v \in here \ Factories : Above[v] # u
  /\ here' = here \ {u} /\ place' = place \ {u}
  /\ fact' = [s \in Sources |-> IF s = RowOf(u) THEN "none" ELSE fact[s]]
  /\ Change

MoveUser(P) ==
  /\ P \subseteq here /\ P # place
  /\ place' = P
  /\ UNCHANGED <<fact, here>>
  /\ Change

Next ==
  \/ Ask \/ Look \/ ReadTarget \/ ReadRoles \/ ReadBelow
  \/ \E s \in Sources, v \in {"none", "running", "over"} : SetFact(s, v)
  \/ \E u \in Units : DeleteUnit(u)
  \/ \E P \in Places : MoveUser(P)

Spec == Init /\ [][Next]_vars

-----------------------------------------------------------------------------
(* The line a unit, or Other as long as the question q lasted, is in.      *)
LineOf(q, x) ==
  IF x = Other THEN q.home \cap Lines
  ELSE IF x \in Lines THEN {x} ELSE IF x \in Teams THEN {Above[x]} ELSE {}

(* Those a question is about, for which the role at the line must count:   *)
(* canAccessEntity takes a team for itself.                                *)
About(q) ==
  CASE q.op = "factories" -> {}
    [] q.op = "lines" -> Lines
    [] q.op = "teams" -> Teams
    [] q.op = "access" -> {q.unit} \ Teams
    [] OTHER -> {q.unit}

(* A unit and what is above it; for Other, of all units Other has been in. *)
WithAbove(S) == S \cup {Above[u] : u \in S \ Factories}
Upward(q, x) == WithAbove(WithAbove(WithAbove(IF x = Other THEN q.been ELSE {x})))

(* However rights are read: a valid assignment as manager of a line that   *)
(* lasts while a question is answered makes the answer yes for that line,  *)
(* and where lines count for what is below them, for its teams and users,  *)
(* whatever else changes; and a unit or a user is granted only when at     *)
(* some moment the user was an administrator or had a row or a role at     *)
(* that unit, or at one above it.                                          *)
RightsAreRecognized ==
  ask # Idle /\ ask.pc = "done" =>
    /\ \A x \in About(ask) \cap (ask.stayed \cup {Other}) :
         (\E l \in LineOf(ask, x) : RoleOf(l) \in ask.steady) => x \in ask.got
    /\ \A x \in ask.got \cap (Units \cup {Other}) :
         Admin \in ask.seen \/ \E s \in ask.seen : s[2] \in Upward(ask, x)
=============================================================================
