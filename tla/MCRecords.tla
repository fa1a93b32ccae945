----------------------------- MODULE MCRecords -----------------------------
(***************************************************************************)
(* The scenes of Records that TLC plays.  Each has few rows of a few       *)
(* related tables and the calls that meet on them.                         *)
(***************************************************************************)
EXTENDS Records, TLC

MCTableOf ==
  [f1 |-> "factory", f2 |-> "factory",
   l1 |-> "line", l2 |-> "line", l3 |-> "line", t1 |-> "team", t2 |-> "team",
   g1 |-> "group", g2 |-> "group", u1 |-> "user", x1 |-> "rate", w1 |-> "form",
   b1 |-> "bag", b2 |-> "bag", c1 |-> "color", c2 |-> "color",
   p1 |-> "process", p2 |-> "process", k1 |-> "colorProcess", e1 |-> "entry",
   o1 |-> "role", o2 |-> "role", a1 |-> "assignment", a2 |-> "assignment",
   q1 |-> "permission", q2 |-> "permission", h1 |-> "grant",
   d1 |-> "department", d2 |-> "department", d3 |-> "department", m1 |-> "membership"]
MCRows == DOMAIN MCTableOf

MCTexts == MCRows \cup {"n1", "n2", "n11", "k1", "h", "m", "s1", Unscoped}

(* One name in the other, as with "Line 1" and "Line 11".                  *)
MCWithin == {<<"n1", "n11">>}

No == <<>>
Row(code, name, up) == [code |-> code, name |-> name, up |-> up]
Call(method, x, code, name, up) ==
  [method |-> method, row |-> x, code |-> code, name |-> name, up |-> up, crew |-> {}]
Add(method, x, up) == Call(method, x, x, "n1", up)
Drop(method, x) == Call(method, x, None, None, No)
Scene(rows, calls) ==
  [rows |-> rows @@ [x \in {c.row : c \in calls} |-> Unborn], calls |-> calls]

F == [f1 |-> Row("f1", "n1", No)]
L == F @@ [l1 |-> Row("l1", "n1", [factory |-> "f1"])]
T == L @@ [t1 |-> Row("t1", "n1", [line |-> "l1"])]
G == T @@ [g1 |-> Row("g1", "n1", [team |-> "t1"])]
U == [u1 |-> Row("u1", "n1", [group |-> None, role |-> None])]
O == [o1 |-> Row("o1", "n1", No)]
B == [b1 |-> Row("b1", "n1", No)]
P == [p1 |-> Row("p1", "n1", No)]
C == [c1 |-> Row("c1", "n1", [bag |-> "b1"])]

(* Units are deleted while units are added below them.                     *)
Units == Scene(L,
  {Drop(DeleteFactory, "f1"), Drop(DeleteLine, "l1"), Drop(DeleteTeam, "t1"),
   Add(CreateLine, "l2", [factory |-> "f1"]), Add(CreateTeam, "t1", [line |-> "l1"]),
   Add(CreateGroup, "g1", [team |-> "t1"])})

(* A group is deleted while users, rates and forms come to it.             *)
Crews == Scene(G @@ U @@ B,
  {Drop(DeleteGroup, "g1"), Drop(DeleteTeam, "t1"),
   [Add(CreateGroup, "g2", [team |-> "t1"]) EXCEPT !.name = "n2", !.crew = {"u1"}],
   Call(AddUsersToGroup, "u1", None, None, [group |-> "g1"]),
   Call(UpdateUser, "u1", None, None, [group |-> "g1"]),
   Drop(DeleteUser, "u1"),
   Add(InsertBagGroupRate, "x1", [bag |-> "b1", group |-> "g1"]),
   Add(InsertDigitalForm, "w1",
       [factory |-> "f1", line |-> "l1", team |-> "t1", group |-> "g1"])})

(* Names that contain each other, and codes.                               *)
NameCalls(create, update, x, y, up) ==
  {Call(create, y, k, n, up) : k \in {"k1", x}, n \in {"n1", "n11"}}
    \cup {Call(update, x, None, n, No) : n \in {"n1", "n11"}}
FactoryNames == Scene(F, NameCalls(CreateFactory, UpdateFactory, "f1", "f2", No))
LineNames == Scene(L, {Call(CreateLine, y, y, n, [factory |-> "f1"]) : y \in {"l2", "l3"}, n \in {"n1", "n11"}}
    \cup {Call(UpdateLine, "l1", None, n, No) : n \in {"n1", "n11"}})
LineMoves == Scene(L @@ [f2 |-> Row("f2", "n2", No), l2 |-> Row("l2", "n2", [factory |-> "f2"])],
  {Call(UpdateLine, "l1", k, n, [factory |-> "f2"]) : k \in {None, "l2"}, n \in {None, "n2"}}
    \cup {Call(UpdateLine, "l2", None, "n1", No), Drop(DeleteFactory, "f2")})
TeamNames == Scene(T @@ [l2 |-> Row("l2", "n2", [factory |-> "f1"])],
  NameCalls(CreateTeam, UpdateTeam, "t1", "t2", [line |-> "l1"])
    \cup {Call(UpdateTeam, "t1", None, n, [line |-> "l2"]) : n \in {None, "n11"}}
    \cup {Call(CreateTeam, "t2", "t2", "n11", [line |-> "l2"])})
BagNames == Scene(B, NameCalls(CreateHandBag, UpdateHandBag, "b1", "b2", No))
ProcessNames == Scene(P, NameCalls(CreateBagProcess, UpdateBagProcess, "p1", "p2", No))

(* Groups that change their names and their teams.                         *)
Moves == Scene(G @@ [t2 |-> Row("t2", "n2", [line |-> "l1"]),
                     g2 |-> Row("g2", "n11", [team |-> "t2"])],
  {Call(UpdateGroup, "g1", None, n, up) : n \in {None, "n1", "n11"}, up \in {No, [team |-> "t2"]}}
    \cup {Call(UpdateGroup, "g2", None, "n1", No)}
    \cup {Drop(DeleteTeam, "t2")})

(* Products are deleted while they are used.                               *)
Products == Scene(B @@ P @@ C,
  {Drop(DeleteHandBag, "b1"), Drop(DeleteBagColor, "c1"), Drop(DeleteBagProcess, "p1"),
   Drop(DeleteBagColorProcess, "k1"),
   Call(CreateBagColor, "c2", "c1", "n1", [bag |-> "b1"]),
   Call(UpdateBagColor, "c1", None, "n2", No), Call(UpdateBagColorProcess, "k1", None, "n2", No),
   Add(CreateBagColorProcess, "k1", [color |-> "c1", process |-> "p1"]),
   Add(InsertFormEntry, "e1", [bag |-> "b1", color |-> "c1", process |-> "p1"])})

(* Roles and what refers to them.                                          *)
Assignments == Scene(U @@ O,
  {Call(AssignRole, a, s, "n1", [user |-> "u1", role |-> "o1"])
     : a \in {"a1", "a2"}, s \in {Unscoped, "s1"}}
    \cup {Drop(RemoveRole, "a1"), Drop(DeleteRole, "o1"), Drop(DeleteUser, "u1"),
          Call(UpdateUser, "u1", None, None, [role |-> "o1"])})
Grants == Scene(O @@ [q1 |-> Row("q1", "n1", No)],
  {Add(CreateRole, "o2", No), Call(UpdateRole, "o1", "o2", None, No), Drop(DeleteRole, "o1"),
   Add(CreatePermission, "q2", No), Call(UpdatePermission, "q1", "q2", None, No),
   Drop(DeletePermission, "q1"), Drop(RemovePermissionsFromRole, "h1"),
   Call(AssignPermissionsToRole, "h1", "h", "n1", [role |-> "o1", permission |-> "q1"])})

(* Departments and who belongs to them.                                    *)
Departments == Scene(U @@ O @@ [d1 |-> Row("d1", "n1", [department |-> None]),
                                d2 |-> Row("d2", "n2", [department |-> None])],
  {Drop(DeleteDepartment, "d1"), Drop(RemoveUserFromDepartment, "m1"), Drop(DeleteRole, "o1"),
   Call(AssignUserToDepartment, "m1", "m", "n1",
        [user |-> "u1", department |-> "d1", role |-> "o1"]),
   Call(UpdateUserDepartment, "m1", None, None, [role |-> "o1"]),
   Call(UpdateDepartment, "d2", None, "n1", No),
   Call(UpdateDepartment, "d2", None, None, [department |-> "d1"]),
   Call(CreateDepartment, "d3", "d3", "n2", [department |-> "d1"])})

Plays ==
  [units |-> Units, crews |-> Crews, factoryNames |-> FactoryNames, lineNames |-> LineNames, lineMoves |-> LineMoves, teamNames |-> TeamNames, bagNames |-> BagNames, processNames |-> ProcessNames, moves |-> Moves, products |-> Products, assignments |-> Assignments, grants |-> Grants, departments |-> Departments]
(* The requests are alike.                                                *)
Alike == Permutations(Requests)
MCScenes == DOMAIN Plays
MCRowsOf == [s \in MCScenes |-> Plays[s].rows]
MCCallsOf == [s \in MCScenes |-> Plays[s].calls]
=============================================================================
