------------------------------ MODULE Records ------------------------------
(***************************************************************************)
(* Master data: factories down to groups, users, roles, permissions,       *)
(* departments, bags with their colours and processes.  Every service      *)
(* follows one protocol: look at the database a few times, one await after *)
(* the other, and then write one row; nothing is locked in between and     *)
(* PostgreSQL alone decides what the write takes along.  A method is       *)
(* therefore data here: its table, what it writes and its list of looks.   *)
(* A call refused because of the caller's role changes nothing and is left *)
(* out.                                                                    *)
(***************************************************************************)
EXTENDS Sequences, FiniteSets

CONSTANTS
  Rows,       \* rows that may come to exist
  TableOf,    \* the table of each
  Requests,   \* slots for requests in flight
  Texts,      \* codes and names
  Scenes,     \* what may be played
  RowsOf,     \* the rows a scene begins with
  CallsOf,    \* the calls that may come in it
  Within,     \* <<n, m>>: the name n is a part of the name m, and another
  Failures,   \* whether a look may fail
  Unborn, Gone, None

VARIABLES
  scene,   \* the scene that is played; fixed from the start
  row,     \* each row, Unborn before and Gone after: no id is used twice
  req      \* the requests in flight

vars == <<scene, row, req>>

-----------------------------------------------------------------------------
(* Which tables a table refers to and what PostgreSQL does to its rows     *)
(* when the row they refer to is deleted.                                  *)
Plain == [t \in {} |-> "keep"]
UserRefs == [group |-> "unhook", role |-> "unhook"]
AssignmentRefs == [user |-> "cascade", role |-> "cascade"]
GrantRefs == [role |-> "cascade", permission |-> "cascade"]
DepartmentRefs == [department |-> "unhook"]
MembershipRefs == [user |-> "cascade", department |-> "cascade", role |-> "restrict"]
LineRefs == [factory |-> "cascade"]
TeamRefs == [line |-> "cascade"]
GroupRefs == [team |-> "cascade"]
RateRefs == [bag |-> "cascade", group |-> "cascade"]
ColorRefs == [bag |-> "cascade"]
ColorProcessRefs == [color |-> "cascade", process |-> "cascade"]
(* Fault: the entries go with their process.                               *)
EntryRefsCascade == [bag |-> "restrict", color |-> "restrict", process |-> "cascade"]
EntryRefs == [bag |-> "restrict", color |-> "restrict", process |-> "restrict"]
FormRefs ==
  [factory |-> "restrict", line |-> "restrict", team |-> "restrict", group |-> "restrict"]

Refs ==
  [factory |-> Plain, line |-> LineRefs, team |-> TeamRefs, group |-> GroupRefs,
   user |-> UserRefs, role |-> Plain, permission |-> Plain,
   assignment |-> AssignmentRefs, grant |-> GrantRefs,
   department |-> DepartmentRefs, membership |-> MembershipRefs,
   bag |-> Plain, color |-> ColorRefs, process |-> Plain,
   colorProcess |-> ColorProcessRefs, rate |-> RateRefs,
   form |-> FormRefs, entry |-> EntryRefs]

Tables == DOMAIN Refs

(* What a unique index of the table spans besides the code: a colour's     *)
(* code is its own within the bag, and the tables that link two others     *)
(* have no code but the pair.  The index on the assignments of a role      *)
(* spans the scope, and does not bind the rows without one.                *)
KeyRefs(t) ==
  IF t \in {"assignment", "grant", "colorProcess", "rate", "color"} THEN DOMAIN Refs[t]
  ELSE IF t = "membership" THEN {"user", "department"}
  ELSE {}

Unscoped == "unscoped"

(* Names are kept apart by the services alone: within the unit above, for  *)
(* some tables, and not at all for others.                                 *)
NameRefs(t) == IF t \in {"line", "team", "group"} THEN DOMAIN Refs[t] ELSE {}
Named == {"factory", "line", "team", "group", "department", "bag", "process"}

(* The look for a name finds every name that contains it, where the        *)
(* repository's conditions are also those of its list.                     *)
FactoryAsks(n, m) == n = m
DepartmentAsks(n, m) == n = m
LineAsks(n, m) == n = m \/ <<n, m>> \in Within
TeamAsks(n, m) == n = m \/ <<n, m>> \in Within
GroupAsks(n, m) == n = m \/ <<n, m>> \in Within
BagAsks(n, m) == n = m \/ <<n, m>> \in Within
ProcessAsks(n, m) == n = m \/ <<n, m>> \in Within
Asks(t, n, m) ==
  \/ t = "factory" /\ FactoryAsks(n, m)
  \/ t = "department" /\ DepartmentAsks(n, m)
  \/ t = "line" /\ LineAsks(n, m)
  \/ t = "team" /\ TeamAsks(n, m)
  \/ t = "group" /\ GroupAsks(n, m)
  \/ t = "bag" /\ BagAsks(n, m)
  \/ t = "process" /\ ProcessAsks(n, m)
Loose == {"line", "team", "group", "bag", "process"}

(* The repository of the factories answers "nothing there" to every look   *)
(* the database refuses; the others throw.                                 *)
Swallowing == {"factory"}

-----------------------------------------------------------------------------
(* The methods.  A look is "row" for the row itself, "key" and "name" for  *)
(* others that have the key or the name asked for, "crew" for the users to *)
(* put in a new group, or a table: the row to refer to, or, for a          *)
(* deletion, the rows that refer to this one.  An update changes the name, *)
(* or what "moves" names.                                                  *)
Inserts(t, looks) == [op |-> "insert", table |-> t, looks |-> looks, moves |-> {}]
Updates(t, looks, moves) == [op |-> "update", table |-> t, looks |-> looks, moves |-> moves]
Deletes(t, looks) == [op |-> "delete", table |-> t, looks |-> looks, moves |-> {}]

CreateFactory == Inserts("factory", <<"key", "name">>)
UpdateFactory == Updates("factory", <<"row", "name">>, {})
DeleteFactory == Deletes("factory", <<"row", "line">>)

CreateLine == Inserts("line", <<"factory", "key", "name">>)
(* The bodies for lines and teams reach the table as they come, with a     *)
(* code or another unit above if they name one.                            *)
UpdateLine == Updates("line", <<"row", "name">>, {"code", "factory"})
(* Fault: no look for teams.                                               *)
DeleteLineUnseen == Deletes("line", <<"row">>)
DeleteLine == Deletes("line", <<"row", "team">>)

CreateTeam == Inserts("team", <<"line", "key", "name">>)
UpdateTeam == Updates("team", <<"row", "name">>, {"code", "line"})
DeleteTeam == Deletes("team", <<"row", "group">>)

CreateGroup == Inserts("group", <<"team", "key", "name", "crew">>)
(* Fault: a new name is stored as it comes.                                *)
UpdateGroupUnnamed == Updates("group", <<"row", "team">>, {"team"})
(* A group may move to another team; only a new name is looked up there.   *)
UpdateGroup == Updates("group", <<"row", "team", "name">>, {"team"})
DeleteGroup == Deletes("group", <<"row", "user", "rate">>)
AddUsersToGroup == Updates("user", <<"group">>, {"group"})

(* A null unit is dropped on the way to the database: a user can be moved, *)
(* never taken out.  The body is written as it comes, the card with it.    *)
UpdateUser == Updates("user", <<"row">>, {"code", "group", "role"})
DeleteUser == Deletes("user", <<"row">>)
AssignRole == Inserts("assignment", <<"user", "key">>)
RemoveRole == Deletes("assignment", <<"user">>)

CreateRole == Inserts("role", <<"key">>)
UpdateRole == Updates("role", <<"row", "key">>, {"code"})
(* Three counts at once: any of them refuses.                              *)
DeleteRole == Deletes("role", <<"row", "assignment", "membership", "user">>)

CreatePermission == Inserts("permission", <<"key">>)
UpdatePermission == Updates("permission", <<"row", "key">>, {"code"})
DeletePermission == Deletes("permission", <<"row", "grant">>)
AssignPermissionsToRole == Inserts("grant", <<"key">>)
RemovePermissionsFromRole == Deletes("grant", <<>>)

CreateDepartment == Inserts("department", <<"key", "name">>)
UpdateDepartment == Updates("department", <<"row", "name", "row">>, {"department"})
DeleteDepartment == Deletes("department", <<"row", "row", "department", "membership">>)
(* Assigning again changes the role.                                       *)
AssignUserToDepartment == Inserts("membership", <<"key">>)
UpdateUserDepartment == Updates("membership", <<"row">>, {"role"})
RemoveUserFromDepartment == Deletes("membership", <<"row">>)

CreateHandBag == Inserts("bag", <<"key", "name">>)
UpdateHandBag == Updates("bag", <<"row", "name">>, {})
(* What it looks for is in ProductionRecord, a table the program nowhere   *)
(* writes; that entries name the bag is left to PostgreSQL.                *)
DeleteHandBag == Deletes("bag", <<"row">>)
CreateBagColor == Inserts("color", <<"bag", "key">>)
UpdateBagColor == Updates("color", <<"row">>, {})
DeleteBagColor == Deletes("color", <<"row">>)
CreateBagColorProcess == Inserts("colorProcess", <<"color", "key">>)
UpdateBagColorProcess == Updates("colorProcess", <<"row">>, {})
DeleteBagColorProcess == Deletes("colorProcess", <<"row">>)
CreateBagProcess == Inserts("process", <<"key", "name">>)
UpdateBagProcess == Updates("process", <<"row", "name">>, {})
DeleteBagProcess == Deletes("process", <<"row", "colorProcess">>)

(* The forms, their entries and the rates, whose services other modules    *)
(* model, are here as rows that refer to the master data.                  *)
InsertDigitalForm == Inserts("form", <<>>)
InsertFormEntry == Inserts("entry", <<>>)
InsertBagGroupRate == Inserts("rate", <<"bag", "group", "key">>)

Inserting ==
  {CreateFactory, CreateLine, CreateTeam, CreateGroup, AssignRole, CreateRole,
   CreatePermission, AssignPermissionsToRole, CreateDepartment, AssignUserToDepartment,
   CreateHandBag, CreateBagColor, CreateBagColorProcess, CreateBagProcess,
   InsertDigitalForm, InsertFormEntry, InsertBagGroupRate}
Updating ==
  {UpdateFactory, UpdateLine, UpdateTeam, UpdateGroup, AddUsersToGroup, UpdateUser,
   UpdateRole, UpdatePermission, UpdateDepartment, UpdateUserDepartment,
   UpdateHandBag, UpdateBagColor, UpdateBagColorProcess, UpdateBagProcess}
Deleting ==
  {DeleteFactory, DeleteLine, DeleteTeam, DeleteGroup, DeleteUser, RemoveRole, DeleteRole,
   DeletePermission, RemovePermissionsFromRole, DeleteDepartment, RemoveUserFromDepartment,
   DeleteHandBag, DeleteBagColor, DeleteBagColorProcess, DeleteBagProcess}
Methods == Inserting \cup Updating \cup Deleting

-----------------------------------------------------------------------------
(* A reference names a row of its table.                                   *)
Above(x) == DOMAIN Refs[TableOf[x]]
Aims(t, S) == {None} \cup {y \in S : TableOf[y] = t}
RowsLike(x) == [code : Texts, name : Texts, up : [Above(x) -> Rows \cup {None}]]
IsRow(x, v, S) == v \in RowsLike(x) /\ \A t \in Above(x) : v.up[t] \in Aims(t, S)

(* A call of a method asks for values; None is what an update leaves.      *)
Legal(c, S) ==
  /\ c.method \in Methods
  /\ c.row \in S /\ TableOf[c.row] = c.method.table
  /\ c.code \in Texts \cup {None} /\ c.name \in Texts \cup {None}
  /\ DOMAIN c.up \subseteq Above(c.row) /\ c.up \in [DOMAIN c.up -> Rows \cup {None}]
  /\ \A t \in DOMAIN c.up : c.up[t] \in Aims(t, S)
  /\ c.crew \subseteq {u \in S : TableOf[u] = "user"}
  /\ c.crew # {} => c.method.table = "group"
  /\ c.method.op = "insert" => DOMAIN c.up = Above(c.row) /\ c.name # None /\ c.code # None
  /\ c.method.op = "update" =>
       /\ DOMAIN c.up \subseteq c.method.moves
       /\ c.code # None => "code" \in c.method.moves

(* A request: its call, the looks still to take, the row as it found it,   *)
(* whether a look came back empty because it failed, and, for the          *)
(* properties alone, the rows others changed since it began.               *)
Sights == Tables \cup {"row", "key", "name", "crew"}
RequestsOf(c) ==
  [call : {c}, todo : Seq(Sights), seen : RowsLike(c.row) \cup {None},
   blind : BOOLEAN, news : SUBSET Rows]

(* References at first lead to rows, and the marks are none of the values. *)
ASSUME RecordsAssumption ==
  /\ DOMAIN TableOf = Rows /\ \A x \in Rows : TableOf[x] \in Tables
  /\ Failures \in BOOLEAN
  /\ Unborn # Gone /\ None \notin Rows
  /\ \A x \in Rows : \A mark \in {Unborn, Gone, None} : mark \notin RowsLike(x)
  /\ \A s \in Scenes :
       LET S == DOMAIN RowsOf[s] IN
       /\ S \subseteq Rows /\ RowsOf[s] = [x \in S |-> RowsOf[s][x]]
       /\ \A c \in CallsOf[s] : Legal(c, S) /\ None \notin RequestsOf(c)
       /\ \A x \in S : RowsOf[s][x] # Unborn =>
            /\ IsRow(x, RowsOf[s][x], S)
            /\ \A t \in Above(x) : RowsOf[s][x].up[t] # None => RowsOf[s][RowsOf[s][x].up[t]] # Unborn

Ids == DOMAIN RowsOf[scene]
Present(x) == row[x] \notin {Unborn, Gone}
Refers(y, t, x) == Present(y) /\ t \in Above(y) /\ row[y].up[t] = x

(* What the database guarantees: a reference has a row to it.              *)
WellReferred(x) ==
  /\ IsRow(x, row[x], Ids)
  /\ \A t \in Above(x) : row[x].up[t] # None => Present(row[x].up[t])
TypeOK ==
  /\ scene \in Scenes
  /\ row = [x \in Ids |-> row[x]] /\ \A x \in Ids : Present(x) => WellReferred(x)
  /\ req = [r \in Requests |-> req[r]]
  /\ \A r \in Requests : req[r] # None =>
       req[r].call \in CallsOf[scene] /\ req[r] \in RequestsOf(req[r].call)

Init ==
  /\ scene \in Scenes
  /\ row = RowsOf[scene]
  /\ req = [r \in Requests |-> None]

-----------------------------------------------------------------------------
Goes(r) == req[r] # None
Finish(r) == req' = [req EXCEPT ![r] = None]
Ready(r, op) == Goes(r) /\ req[r].todo = <<>> /\ req[r].call.method.op = op

(* What a row is once a call has changed it.                               *)
Asked(c, old) ==
  [code |-> IF c.code = None THEN old.code ELSE c.code,
   name |-> IF c.name = None THEN old.name ELSE c.name,
   up |-> [t \in DOMAIN old.up |-> IF t \in DOMAIN c.up THEN c.up[t] ELSE old.up[t]]]
Made(c) == [code |-> c.code, name |-> c.name, up |-> c.up]

SameKey(t, v, w) == v.code = w.code /\ \A k \in KeyRefs(t) : v.up[k] = w.up[k]
SameUnit(t, v, w) == \A k \in NameRefs(t) : v.up[k] = w.up[k]

(* A new row has an id of its own, another call names a row there was.     *)
Start(r, c) ==
  /\ ~Goes(r)
  /\ IF c.method.op = "insert"
       THEN row[c.row] = Unborn /\ \A s \in Requests : Goes(s) => req[s].call.row # c.row
       ELSE row[c.row] # Unborn
  /\ req' = [req EXCEPT ![r] = [call |-> c, todo |-> c.method.looks, seen |-> None,
                                blind |-> FALSE, news |-> {}]]
  /\ UNCHANGED <<scene, row>>

(* Where an update looks for its new name: a group in the team it asks     *)
(* for, a line or a team in the unit it was found in.                      *)
Staying == {UpdateLine, UpdateTeam}
LookedUp(q, v) == IF q.call.method \in Staying THEN [v EXCEPT !.up = q.seen.up] ELSE v

(* What a look may find; findFirst returns one of the rows that fit.  An   *)
(* update looks for a name or a code only when it is not the old one.      *)
Fitting(q, look) ==
  LET c == q.call  t == c.method.table
      v == IF q.seen = None THEN Made(c) ELSE Asked(c, q.seen) IN
  CASE look = "row" -> {c.row} \cap {x \in Ids : Present(x)}
    [] look = "key" -> {x \in Ids : /\ Present(x) /\ TableOf[x] = t /\ SameKey(t, row[x], v)
                                    /\ q.seen # None => v.code # q.seen.code}
    [] look = "name" -> {x \in Ids : /\ Present(x) /\ TableOf[x] = t
                                     /\ Asks(t, v.name, row[x].name) /\ SameUnit(t, row[x], LookedUp(q, v))
                                     /\ q.seen # None => v.name # q.seen.name}
    [] look = "crew" -> {u \in c.crew : ~Present(u)}
    [] look \in Tables /\ c.method.op = "delete" -> {y \in Ids : TableOf[y] = look /\ \E k \in Above(y) : Refers(y, k, c.row)}
    [] OTHER -> IF look \in DOMAIN c.up THEN {c.up[look]} \cap {x \in Ids : Present(x)} ELSE {}

Found(q, look) ==
  LET F == Fitting(q, look) IN
  (IF F = {} THEN {None} ELSE F)
    \cup (IF Failures /\ q.call.method.table \in Swallowing THEN {None} ELSE {})

Accepts(q, look, x) ==
  LET c == q.call IN
  IF look = "row" \/ (look \in Tables /\ c.method.op # "delete")
    THEN x # None \/ (look # "row" /\ look \notin DOMAIN c.up)
    ELSE x = None \/ (look \in {"key", "name"} /\ c.method.op = "update" /\ x = c.row)

Look(r) ==
  LET q == req[r]  look == Head(q.todo) IN
  /\ Goes(r) /\ q.todo # <<>>
  /\ \E x \in Found(q, look) :
       IF Accepts(q, look, x)
         THEN req' = [req EXCEPT ![r] =
                [q EXCEPT !.todo = Tail(@),
                          !.seen = IF look = "row" THEN row[q.call.row] ELSE @,
                          !.blind = @ \/ (x = None /\ Fitting(q, look) # {})]]
         ELSE Finish(r)
  /\ UNCHANGED <<scene, row>>

-----------------------------------------------------------------------------
(* What the database does with a write.                                    *)
KeyTaken(c, v) ==
  LET t == c.method.table IN
  /\ t = "assignment" => v.code # Unscoped
  /\ \E x \in Ids \ {c.row} : Present(x) /\ TableOf[x] = t /\ SameKey(t, row[x], v)
Rooted(v) == \A t \in DOMAIN v.up : v.up[t] # None => Present(v.up[t])

Cascades(y, x) == \E t \in Above(y) : Refers(y, t, x) /\ Refs[TableOf[y]][t] = "cascade"
Closed(S) == \A x \in S, y \in Ids : Cascades(y, x) => y \in S
Doomed(x) ==
  LET here == {y \in Ids : Present(y)} IN
  {y \in here : \A S \in SUBSET here : x \in S /\ Closed(S) => y \in S}
Blocked(D) ==
  \E y \in Ids, x \in D : \E t \in Above(y) :
    Refers(y, t, x) /\ Refs[TableOf[y]][t] = "restrict"
Unhooked(y, D) ==
  [row[y] EXCEPT !.up = [t \in Above(y) |-> IF @[t] \in D THEN None ELSE @[t]]]
(* Fault: what referred to the row goes on referring to it.                *)
WithoutUnhooking(D) == [y \in Ids |-> IF y \in D THEN Gone ELSE row[y]]
Without(D) ==
  [y \in Ids |-> IF y \in D THEN Gone ELSE IF Present(y) THEN Unhooked(y, D) ELSE row[y]]

(* The end of a request; the others learn, for the properties, what it     *)
(* changed.                                                                *)
Done(r, new) ==
  LET changed == {x \in Ids : new[x] # row[x]} IN
  /\ row' = new
  /\ req' = [s \in Requests |->
       IF s = r \/ req[s] = None THEN None ELSE [req[s] EXCEPT !.news = @ \cup changed]]
  /\ UNCHANGED scene

(* createGroup puts its users in the new group within one transaction.     *)
Insert(r) ==
  LET c == req[r].call IN
  /\ Ready(r, "insert")
  /\ Rooted(Made(c)) /\ ~KeyTaken(c, Made(c))
  /\ Done(r, [x \in Ids |->
       IF x = c.row THEN Made(c)
       ELSE IF x \in c.crew /\ Present(x) THEN [row[x] EXCEPT !.up.group = c.row]
       ELSE row[x]])

Update(r) ==
  LET c == req[r].call  v == Asked(c, row[c.row]) IN
  /\ Ready(r, "update") /\ Present(c.row)
  /\ Rooted(v) /\ ~KeyTaken(c, v)
  /\ Done(r, [row EXCEPT ![c.row] = v])

Delete(r) ==
  LET x == req[r].call.row IN
  /\ Ready(r, "delete") /\ Present(x)
  /\ ~Blocked(Doomed(x))
  /\ Done(r, Without(Doomed(x)))

Refused(r) ==
  LET c == req[r].call IN
  /\ Goes(r) /\ req[r].todo = <<>>
  /\ \/ c.method.op = "insert" /\ (~Rooted(Made(c)) \/ KeyTaken(c, Made(c)))
     \/ c.method.op # "insert" /\ ~Present(c.row)
     \/ /\ c.method.op = "update" /\ Present(c.row)
        /\ (~Rooted(Asked(c, row[c.row])) \/ KeyTaken(c, Asked(c, row[c.row])))
     \/ c.method.op = "delete" /\ Blocked(Doomed(c.row))
  /\ Finish(r)
  /\ UNCHANGED <<scene, row>>

Fail(r) ==
  /\ Failures /\ Goes(r)
  /\ Finish(r)
  /\ UNCHANGED <<scene, row>>

Next ==
  \E r \in Requests :
    \/ \E c \in CallsOf[scene] : Start(r, c)
    \/ Look(r) \/ Insert(r) \/ Update(r) \/ Delete(r) \/ Refused(r) \/ Fail(r)

Spec == Init /\ [][Next]_vars

-----------------------------------------------------------------------------
(* The pairs of tables a deletion asks about before it deletes.            *)
Kept == {<<"factory", "line">>, <<"line", "team">>, <<"team", "group">>,
         <<"group", "user">>, <<"group", "rate">>, <<"process", "colorProcess">>,
         <<"role", "user">>, <<"role", "assignment">>, <<"permission", "grant">>,
         <<"department", "department">>, <<"department", "membership">>}

(* A deletion takes along, or takes out of its unit, only rows that came   *)
(* or changed after its request began, of the tables the services look at; *)
(* a factory also those a failed look has hidden.                          *)
TakesOnlyNews ==
  \A r \in Requests, y \in Ids :
    /\ Ready(r, "delete") /\ req'[r] = None
    /\ Present(y) /\ y # req[r].call.row /\ row'[y] # row[y]
    /\ <<req[r].call.method.table, TableOf[y]>> \in Kept
    => y \in req[r].news \/ req[r].blind
DeletionTakesOnlyNews == [][TakesOnlyNews]_vars

(* No method on master data touches what was recorded with it, although    *)
(* the services of bags, colours and processes look for it in a table that *)
(* is empty.                                                               *)
WorkStays == \A y \in Ids : Present(y) /\ TableOf[y] \in {"form", "entry"} => row'[y] = row[y]
RecordedWorkStays == [][WorkStays]_vars

(* Two rows of a table that must differ come to be the same only when one  *)
(* of them changed while the other's request was under way, when a failed  *)
(* look has hidden it, when the old name contained the new one, so that    *)
(* findFirst may have returned the row itself, when a group moves under    *)
(* its old name, which nobody looks up in the new team, or when a line or  *)
(* a team moves, whose name is looked up where it was.                     *)
Same(x, y, v, w) ==
  \/ TableOf[x] \in Named /\ v.name = w.name /\ SameUnit(TableOf[x], v, w)
  \/ TableOf[x] \in {"assignment", "membership"} /\ SameKey(TableOf[x], v, w)

(* x becomes the same as y.                                                *)
Doubles(x, y) ==
  /\ row'[x] # row[x] /\ Present(x)' /\ Present(y)'
  /\ x # y /\ TableOf[x] = TableOf[y] /\ Same(x, y, row'[x], row'[y])
  /\ ~(Present(x) /\ Present(y) /\ Same(x, y, row[x], row[y]))

HasReason(x, y) ==
  \E r \in Requests :
    LET q == req[r] IN
    /\ Goes(r) /\ req'[r] = None /\ q.call.row = x
    /\ \/ {x, y} \cap q.news # {}
       \/ q.blind
       \/ /\ q.call.method.op = "update" /\ TableOf[x] \in Loose
          /\ <<q.call.name, row[x].name>> \in Within
       \/ q.call.method = UpdateGroup /\ q.call.name \in {None, row[x].name}
       \/ q.call.method \in Staying /\ row'[x].up # row[x].up
DoublesHaveReasons == [][\A x, y \in Ids : Doubles(x, y) => HasReason(x, y)]_vars
=============================================================================
