------------------------------ MODULE Leaders ------------------------------
(***************************************************************************)
(* The leaders or managers of one unit: a factory, a line, a team or a     *)
(* group (the services and repositories of modules/factory, line, team and *)
(* group). Each kind keeps a table of its own with one row per unit and    *)
(* user, a flag for the primary one and an end date, and each changes the  *)
(* flag in its own way: groups write the row and then demote the others,   *)
(* teams demote first, lines do both in one transaction, factories demote  *)
(* nobody. Units do not interact: every statement names its unit.          *)
(***************************************************************************)

CONSTANTS
  Users,
  Requests,     \* slots for requests in flight
  Kinds,        \* the kinds of unit to consider
  Overseers,    \* users the unit's own rows and roles give no right, and who have it
  RoleId,       \* what identifies the role of the unit's leaders in its table
  RoleCode,     \* the name the program has for that role
  Failures,     \* whether calls of the database may fail
  Absent,
  Nobody

VARIABLES
  kind,     \* what the unit is; fixed from the start
  row,      \* the rows of the unit, by user
  scoped,   \* the users with the leader role assigned for this unit
  req       \* the requests in flight

vars == <<kind, row, scoped, req>>

(* An end date is none or to come ("running"), or past ("over").           *)
LeaderRow == [primary : BOOLEAN, term : {"running", "over"}]

ASSUME LeadersAssumption ==
  /\ Kinds \subseteq {"factory", "line", "team", "group"}
  /\ Overseers \subseteq Users
  /\ RoleId # RoleCode
  /\ Nobody \notin Users
  /\ Absent \notin LeaderRow
  /\ Failures \in BOOLEAN

(* What a request asks for: a body may leave out isPrimary and endDate.    *)
Flags == {"primary", "plain", "unsaid"}
Terms == {"running", "over", "unsaid"}
Ops == {"add", "update", "remove"}

Idle == [op |-> "none", pc |-> "idle", by |-> Nobody, user |-> Nobody,
         flag |-> "unsaid", term |-> "unsaid", seen |-> {}]

InFlight ==
  [op : Ops, pc : {"demote", "write", "role"}, by : Users, user : Users,
   flag : Flags, term : Terms, seen : SUBSET Users]

TypeOK ==
  /\ kind \in Kinds
  /\ row \in [Users -> LeaderRow \cup {Absent}]
  /\ scoped \subseteq Users
  /\ req \in [Requests -> {Idle} \cup InFlight]

Init ==
  /\ kind \in Kinds
  /\ row = [u \in Users |-> Absent]
  /\ scoped = {}
  /\ req = [r \in Requests |-> Idle]

Listed(u) == row[u] # Absent
Primaries == {u \in Users : Listed(u) /\ row[u].primary}
Serving == {u \in Users : Listed(u) /\ row[u].term = "running"}

At(r, pc) == req[r].pc = pc
Goto(r, pc) == req' = [req EXCEPT ![r].pc = pc]
Finish(r) == req' = [req EXCEPT ![r] = Idle]

-----------------------------------------------------------------------------
(* A group is open to certain roles and a line, whose controller requires  *)
(* one of an empty list of roles, to super admins; neither asks the rows.  *)
(* A factory's manager counts even when the end date has passed.           *)
CanManage(u) ==
  \/ u \in Overseers
  \/ kind = "team" /\ u \in Serving \cup scoped
  \/ kind = "factory" /\ Listed(u)

(* Only an update of a group can leave the flag as it is; the controllers  *)
(* of the others, and every addition, take a flag left out for FALSE.      *)
FlagOf(op, flag) ==
  IF flag = "unsaid" /\ ~(kind = "group" /\ op = "update") THEN "plain" ELSE flag

(* Fault: a promotion by an update forgets the others.                     *)
DemotesForAdditions(op, flag) ==
  kind \in {"team", "line"} /\ op = "add" /\ flag = "primary"

DemotesFirst(op, flag) == kind \in {"team", "line"} /\ flag = "primary"

(* Fault: no check that the caller is not the one to remove.               *)
MayRemoveAnyone(by, u) == TRUE

(* A leader of a team may not remove themself.                             *)
MayRemove(by, u) == kind = "team" => by # u

(* A request's checks: the unit and the user exist, the caller may.        *)
StartChange(r, by, op, u, flag, term) ==
  LET f == FlagOf(op, flag) IN
  /\ req[r] = Idle
  /\ CanManage(by)
  /\ req' = [req EXCEPT ![r] =
       [op |-> op, pc |-> IF DemotesFirst(op, f) THEN "demote" ELSE "write",
        by |-> by, user |-> u, flag |-> f, term |-> term, seen |-> {}]]
  /\ UNCHANGED <<kind, row, scoped>>

(* Fault: an end date left out is stored as it came.                       *)
StartAddRaw(r, by, u) ==
  \E flag \in Flags, term \in Terms : StartChange(r, by, "add", u, flag, term)

(* An addition as the services take it, with the user it names. The POST   *)
(* routes of teams and lines type their bodies with classes that have no   *)
(* decorators, so the whitelist of main.ts leaves such a body without its  *)
(* user and the look-up refuses it: rows of teams and lines come from      *)
(* other callers of their services, and the model has more than the routes.*)
StartAdd(r, by, u) ==
  \E flag \in Flags, term \in Terms :
    StartChange(r, by, "add", u, flag, IF term = "unsaid" THEN "running" ELSE term)

StartUpdate(r, by, u) ==
  \E flag \in Flags, term \in Terms : StartChange(r, by, "update", u, flag, term)

StartRemove(r, by, u) ==
  /\ MayRemove(by, u)
  /\ StartChange(r, by, "remove", u, "unsaid", "unsaid")

-----------------------------------------------------------------------------
Demoted(S) ==
  [u \in Users |-> IF u \in S /\ Listed(u) THEN [row[u] EXCEPT !.primary = FALSE]
                  ELSE row[u]]

(* In a line's transaction the demotion has taken its rows when it ran and *)
(* becomes visible with the commit (READ COMMITTED); a primary added by    *)
(* another transaction in between is not among them.                       *)
DemoteFirst(r) ==
  /\ At(r, "demote")
  /\ kind \in {"team", "line"}
  /\ IF kind = "line"
       THEN /\ req' = [req EXCEPT ![r].pc = "write", ![r].seen = Primaries]
            /\ UNCHANGED row
       ELSE /\ Goto(r, "write")
            /\ row' = Demoted(Primaries)
  /\ UNCHANGED <<kind, scoped>>

(* Fault: the demotion does not spare the new primary leader.              *)
DemoteAll(r) ==
  /\ At(r, "demote")
  /\ kind = "group"
  /\ row' = Demoted(Primaries)
  /\ Finish(r)
  /\ UNCHANGED <<kind, scoped>>

DemoteOthers(r) ==
  /\ At(r, "demote")
  /\ kind = "group"
  /\ row' = Demoted(Primaries \ {req[r].user})
  /\ Finish(r)
  /\ UNCHANGED <<kind, scoped>>

Writes(r, op) == At(r, "write") /\ req[r].op = op

AfterWrite(r) ==
  LET next == CASE kind = "group" -> "demote"
                [] kind = "team" -> "done"
                [] OTHER -> "role" IN
  IF req[r].flag = "primary" /\ next # "done" THEN Goto(r, next) ELSE Finish(r)

AddLeader(r) ==
  LET q == req[r] IN
  /\ Writes(r, "add")
  /\ ~Listed(q.user)
  /\ row' = [Demoted(q.seen) EXCEPT ![q.user] =
               [primary |-> q.flag = "primary", term |-> q.term]]
  /\ AfterWrite(r)
  /\ UNCHANGED <<kind, scoped>>

(* The key of the table is the unit and the user; a line's transaction is  *)
(* rolled back, a team's demotion is not.                                  *)
AddAgain(r) ==
  /\ Writes(r, "add")
  /\ Listed(req[r].user)
  /\ Finish(r)
  /\ UNCHANGED <<kind, row, scoped>>

UpdateLeader(r) ==
  LET q == req[r] IN
  /\ Writes(r, "update")
  /\ Listed(q.user)
  /\ row' = [Demoted(q.seen) EXCEPT ![q.user] =
               [primary |-> IF q.flag = "unsaid" THEN @.primary ELSE q.flag = "primary",
                term |-> IF q.term = "unsaid" THEN @.term ELSE q.term]]
  /\ AfterWrite(r)
  /\ UNCHANGED <<kind, scoped>>

(* Groups and factories update one row and throw when it is missing, teams *)
(* and lines update whichever rows there are.                              *)
UpdateNobody(r) ==
  LET q == req[r] IN
  /\ Writes(r, "update")
  /\ ~Listed(q.user)
  /\ IF kind \in {"team", "line"}
       THEN row' = Demoted(q.seen) /\ AfterWrite(r)
       ELSE Finish(r) /\ UNCHANGED row
  /\ UNCHANGED <<kind, scoped>>

(* A group keeps the row and ends its term, the others delete it; whoever  *)
(* updates or deletes one row by its key throws when it is missing.        *)
RemoveLeader(r) ==
  LET q == req[r] IN
  /\ Writes(r, "remove")
  /\ row' = IF ~Listed(q.user) THEN row
            ELSE [row EXCEPT ![q.user] =
                   IF kind = "group" THEN [@ EXCEPT !.term = "over"] ELSE Absent]
  /\ IF kind = "line" \/ (kind = "factory" /\ Listed(q.user))
       THEN Goto(r, "role")
       ELSE Finish(r)
  /\ UNCHANGED <<kind, scoped>>

(* assignRole and removeRole name the role by the key of its row; a call   *)
(* with anything else throws and changes nothing.                          *)
Assigned(u, id) == IF id = RoleId THEN scoped \cup {u} ELSE scoped
Unassigned(u, id) == IF id = RoleId THEN scoped \ {u} ELSE scoped

(* The last step of adding, promoting or removing a manager.               *)
ChangeRole(r) ==
  LET q == req[r] IN
  /\ At(r, "role")
  /\ scoped' = IF q.op = "remove" THEN Unassigned(q.user, RoleCode)
               ELSE Assigned(q.user, RoleCode)
  /\ Finish(r)
  /\ UNCHANGED <<kind, row>>

(* The routes of the users module give and take the role by its key.       *)
GrantRole(u) ==
  /\ u \notin scoped
  /\ scoped' = Assigned(u, RoleId)
  /\ UNCHANGED <<kind, row, req>>

RevokeRole(u) ==
  /\ u \in scoped
  /\ scoped' = Unassigned(u, RoleId)
  /\ UNCHANGED <<kind, row, req>>

Fail(r) ==
  /\ Failures
  /\ req[r] # Idle
  /\ Finish(r)
  /\ UNCHANGED <<kind, row, scoped>>

-----------------------------------------------------------------------------
Start(r) ==
  \E by, u \in Users : StartAdd(r, by, u) \/ StartUpdate(r, by, u) \/ StartRemove(r, by, u)

Proceed(r) ==
  \/ DemoteFirst(r) \/ DemoteOthers(r)
  \/ AddLeader(r) \/ AddAgain(r)
  \/ UpdateLeader(r) \/ UpdateNobody(r)
  \/ RemoveLeader(r) \/ ChangeRole(r)
  \/ Fail(r)

Next ==
  \/ \E r \in Requests : Start(r) \/ Proceed(r)
  \/ \E u \in Users : GrantRole(u) \/ RevokeRole(u)

Spec == Init /\ [][Next]_vars

(* The unit's requests, and the changes of its roles, one after the other. *)
Busy == {r \in Requests : req[r] # Idle}
OneAtATime == \A r, s \in Busy : r = s
RolesBetween == scoped' # scoped => Busy' = {}
AloneSpec == Init /\ [][Next /\ OneAtATime' /\ RolesBetween]_vars

-----------------------------------------------------------------------------
(* A team or a line has at most one primary leader at any moment, also     *)
(* when a request fails halfway.                                           *)
AtMostOnePrimary == kind \in {"team", "line"} => \A u, v \in Primaries : u = v

(* Teams and lines may lose their primary leader to a change that fails; a *)
(* group, which demotes last, keeps one until an update says otherwise.    *)
GroupKeepsPrimary ==
  [][kind = "group" /\ Primaries # {}
       => \/ Primaries' # {}
          \/ \E r \in Requests : Writes(r, "update") /\ req[r].flag = "plain"]_vars

(* Leaders of a team who remove each other one after the other never       *)
(* remove the last one.                                                    *)
LeadersRemain ==
  [][\A r \in Requests :
       /\ kind = "team" /\ Writes(r, "remove")
       /\ req[r].by \notin Overseers \cup scoped
       => Serving' # {}]_vars

(* "If primary manager, assign the role": once a line's or a factory's     *)
(* manager has been made the primary one, they hold the role for the unit. *)
PrimaryGetsRole ==
  [][\A r \in Requests :
       At(r, "role") /\ req[r].op # "remove" /\ req'[r] = Idle
         => req[r].user \in scoped']_vars
=============================================================================
