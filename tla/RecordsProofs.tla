----------------------------- MODULE RecordsProofs -----------------------------
(***************************************************************************)
(* Proofs about Records, for any scenes: any rows, any calls of its        *)
(* methods, and any number of them at a time.                              *)
(***************************************************************************)
EXTENDS Records, Integers, TLAPS

-----------------------------------------------------------------------------
(* What the methods look at.                                               *)
LooksOf(m) == {m.looks[i] : i \in DOMAIN m.looks}

LEMMA Looks1 == \A a : {<<a>>[i] : i \in DOMAIN <<a>>} = {a}
  OBVIOUS
LEMMA Looks2 == \A a, b : {<<a, b>>[i] : i \in DOMAIN <<a, b>>} = {a, b}
  OBVIOUS
LEMMA Looks3 == \A a, b, c : {<<a, b, c>>[i] : i \in DOMAIN <<a, b, c>>} = {a, b, c}
  OBVIOUS
LEMMA Looks4 == \A a, b, c, d : {<<a, b, c, d>>[i] : i \in DOMAIN <<a, b, c, d>>} = {a, b, c, d}
  OBVIOUS

LEMMA MethodsByOp ==
  ASSUME NEW m \in Methods
  PROVE  \/ m.op = "insert" /\ m \in Inserting
         \/ m.op = "update" /\ m \in Updating
         \/ m.op = "delete" /\ m \in Deleting
  <1>1. CASE m \in Inserting
    BY <1>1 DEF Inserting, Inserts,
       CreateFactory, CreateLine, CreateTeam, CreateGroup, AssignRole, CreateRole,
       CreatePermission, AssignPermissionsToRole, CreateDepartment, AssignUserToDepartment,
       CreateHandBag, CreateBagColor, CreateBagColorProcess, CreateBagProcess,
       InsertDigitalForm, InsertFormEntry, InsertBagGroupRate
  <1>2. CASE m \in Updating
    BY <1>2 DEF Updating, Updates,
       UpdateFactory, UpdateLine, UpdateTeam, UpdateGroup, AddUsersToGroup, UpdateUser,
       UpdateRole, UpdatePermission, UpdateDepartment, UpdateUserDepartment,
       UpdateHandBag, UpdateBagColor, UpdateBagColorProcess, UpdateBagProcess
  <1>3. CASE m \in Deleting
    BY <1>3 DEF Deleting, Deletes,
       DeleteFactory, DeleteLine, DeleteTeam, DeleteGroup, DeleteUser, RemoveRole, DeleteRole,
       DeletePermission, RemovePermissionsFromRole, DeleteDepartment, RemoveUserFromDepartment,
       DeleteHandBag, DeleteBagColor, DeleteBagColorProcess, DeleteBagProcess
  <1> QED BY <1>1, <1>2, <1>3 DEF Methods

(* Up to four looks.                                                       *)
Few(looks) ==
  \/ looks = <<>> \/ \E a \in Sights : looks = <<a>>
  \/ \E a, b \in Sights : looks = <<a, b>>
  \/ \E a, b, c \in Sights : looks = <<a, b, c>>
  \/ \E a, b, c, d \in Sights : looks = <<a, b, c, d>>

LEMMA FewSights == ASSUME NEW looks, Few(looks) PROVE looks \in Seq(Sights)
  <1>1. <<>> \in Seq(Sights) /\ \A a \in Sights : <<a>> \in Seq(Sights)
    OBVIOUS
  <1>2. \A a, b \in Sights : <<a, b>> \in Seq(Sights)
    OBVIOUS
  <1>3. \A a, b, c \in Sights : <<a, b, c>> \in Seq(Sights)
    OBVIOUS
  <1>4. \A a, b, c, d \in Sights : <<a, b, c, d>> \in Seq(Sights)
    OBVIOUS
  <1> QED BY <1>1, <1>2, <1>3, <1>4, Zenon DEF Few

LEMMA SightNames ==
  /\ "row" \in Sights /\ "key" \in Sights /\ "name" \in Sights /\ "crew" \in Sights
  /\ \A t \in {"factory", "line", "team", "group", "user", "rate", "role", "assignment",
              "membership", "grant", "department", "bag", "color", "colorProcess"} : t \in Sights
  BY DEF Sights, Tables, Refs

LEMMA MethodLooks ==
  ASSUME NEW m \in Methods
  PROVE  m.looks \in Seq(Sights)
  <1> SUFFICES Few(m.looks)
    BY FewSights
  <1>1. CASE m \in Inserting
    BY <1>1, SightNames DEF Few, Inserting, Inserts,
       CreateFactory, CreateLine, CreateTeam, CreateGroup, AssignRole, CreateRole,
       CreatePermission, AssignPermissionsToRole, CreateDepartment, AssignUserToDepartment,
       CreateHandBag, CreateBagColor, CreateBagColorProcess, CreateBagProcess,
       InsertDigitalForm, InsertFormEntry, InsertBagGroupRate
  <1>2. CASE m \in Updating
    BY <1>2, SightNames DEF Few, Updating, Updates,
       UpdateFactory, UpdateLine, UpdateTeam, UpdateGroup, AddUsersToGroup, UpdateUser,
       UpdateRole, UpdatePermission, UpdateDepartment, UpdateUserDepartment,
       UpdateHandBag, UpdateBagColor, UpdateBagColorProcess, UpdateBagProcess
  <1>3. CASE m \in Deleting
    BY <1>3, SightNames DEF Few, Deleting, Deletes,
       DeleteFactory, DeleteLine, DeleteTeam, DeleteGroup, DeleteUser, RemoveRole, DeleteRole,
       DeletePermission, RemovePermissionsFromRole, DeleteDepartment, RemoveUserFromDepartment,
       DeleteHandBag, DeleteBagColor, DeleteBagColorProcess, DeleteBagProcess
  <1> QED BY <1>1, <1>2, <1>3 DEF Methods

(* The tables a deletion must ask about are among its looks.               *)
LEMMA DeletionsLook ==
  ASSUME NEW m \in Methods, m.op = "delete", NEW t, <<m.table, t>> \in Kept
  PROVE  t \in LooksOf(m)
  BY MethodsByOp, Looks2, Looks3, Looks4 DEF Deleting, Kept, LooksOf, Deletes,
       DeleteFactory, DeleteLine, DeleteTeam, DeleteGroup, DeleteUser, RemoveRole, DeleteRole,
       DeletePermission, RemovePermissionsFromRole, DeleteDepartment, RemoveUserFromDepartment,
       DeleteHandBag, DeleteBagColor, DeleteBagColorProcess, DeleteBagProcess

(* What must not come twice is looked for before it is made ...            *)
LEMMA InsertionsLook ==
  ASSUME NEW m \in Methods, m.op = "insert"
  PROVE  /\ "row" \notin LooksOf(m)
         /\ m.table \in Named => "name" \in LooksOf(m)
         /\ m.table \in {"assignment", "membership"} => "key" \in LooksOf(m)
  BY MethodsByOp, Looks1, Looks2, Looks3, Looks4 DEF Inserting, Named, LooksOf, Inserts,
       CreateFactory, CreateLine, CreateTeam, CreateGroup, AssignRole, CreateRole,
       CreatePermission, AssignPermissionsToRole, CreateDepartment, AssignUserToDepartment,
       CreateHandBag, CreateBagColor, CreateBagColorProcess, CreateBagProcess,
       InsertDigitalForm, InsertFormEntry, InsertBagGroupRate

(* ... and before it is changed, after the row itself.                     *)
LEMMA UpdatesLook ==
  ASSUME NEW m \in Methods, m.op = "update"
  PROVE  /\ m.table \in Named => /\ m.looks # <<>> /\ Head(m.looks) = "row"
                                 /\ "name" \in LooksOf(m)
         /\ m.table \in {"line", "team"} => m \in Staying
         /\ m.table = "group" => m = UpdateGroup
         /\ m.table = "membership" => m.moves = {"role"}
         /\ m.table # "assignment"
  <1>1. m \in Updating
    BY MethodsByOp
  <1>2. m.table \in Named => m.looks \in {<<"row", "name">>, <<"row", "team", "name">>, <<"row", "name", "row">>}
    BY <1>1 DEF Updating, Named, Updates,
       UpdateFactory, UpdateLine, UpdateTeam, UpdateGroup, AddUsersToGroup, UpdateUser,
       UpdateRole, UpdatePermission, UpdateDepartment, UpdateUserDepartment,
       UpdateHandBag, UpdateBagColor, UpdateBagColorProcess, UpdateBagProcess
  <1>3. /\ m.table \in {"line", "team"} => m \in Staying
        /\ m.table = "group" => m = UpdateGroup
        /\ m.table = "membership" => m.moves = {"role"}
        /\ m.table # "assignment"
    BY <1>1 DEF Updating, Updates, Staying,
       UpdateFactory, UpdateLine, UpdateTeam, UpdateGroup, AddUsersToGroup, UpdateUser,
       UpdateRole, UpdatePermission, UpdateDepartment, UpdateUserDepartment,
       UpdateHandBag, UpdateBagColor, UpdateBagColorProcess, UpdateBagProcess
  <1>4. m.looks \in {<<"row", "name">>, <<"row", "team", "name">>, <<"row", "name", "row">>}
          => m.looks # <<>> /\ Head(m.looks) = "row" /\ "name" \in LooksOf(m)
    BY Looks2, Looks3 DEF LooksOf
  <1> QED BY <1>2, <1>3, <1>4

-----------------------------------------------------------------------------
(* Rows and requests.                                                      *)
LEMMA Scene ==
  ASSUME TypeOK
  PROVE  /\ Ids \subseteq Rows
         /\ \A c \in CallsOf[scene] : Legal(c, Ids) /\ None \notin RequestsOf(c)
         /\ \A x \in Ids : TableOf[x] \in Tables
  BY RecordsAssumption DEF TypeOK, Ids

LEMMA CallLegal ==
  ASSUME TypeOK, NEW r \in Requests, Goes(r)
  PROVE  /\ req[r].call \in CallsOf[scene] /\ Legal(req[r].call, Ids)
         /\ req[r] \in RequestsOf(req[r].call) /\ None \notin RequestsOf(req[r].call)
         /\ req[r].call.row \in Ids
  <1>1. req[r].call \in CallsOf[scene] /\ req[r] \in RequestsOf(req[r].call)
    BY DEF TypeOK, Goes
  <1>2. Legal(req[r].call, Ids)
    BY <1>1, Scene
  <1> QED BY <1>1, <1>2, Scene DEF Legal

LEMMA RowsArePresent ==
  ASSUME NEW x \in Rows, NEW v, NEW S, IsRow(x, v, S)
  PROVE  v \notin {Unborn, Gone, None}
  BY RecordsAssumption DEF IsRow

(* What a call makes of a row is a row.                                    *)
LEMMA MadeIsRow ==
  ASSUME TypeOK, NEW r \in Requests, Goes(r), req[r].call.method.op = "insert"
  PROVE  IsRow(req[r].call.row, Made(req[r].call), Ids)
  <1> DEFINE c == req[r].call
  <1>1. Legal(c, Ids)
    BY CallLegal
  <1>2. c.code \in Texts /\ c.name \in Texts /\ DOMAIN c.up = Above(c.row)
    BY <1>1 DEF Legal
  <1>3. c.up \in [Above(c.row) -> Rows \cup {None}]
    BY <1>1, <1>2 DEF Legal
  <1>4. Made(c) \in RowsLike(c.row)
    BY <1>2, <1>3 DEF Made, RowsLike
  <1>5. \A t \in Above(c.row) : Made(c).up[t] \in Aims(t, Ids)
    BY <1>1, <1>2 DEF Legal, Made
  <1> QED BY <1>4, <1>5 DEF IsRow

LEMMA AskedIsRow ==
  ASSUME TypeOK, NEW r \in Requests, Goes(r), NEW v, IsRow(req[r].call.row, v, Ids)
  PROVE  IsRow(req[r].call.row, Asked(req[r].call, v), Ids)
  <1> DEFINE c == req[r].call  w == Asked(c, v)
  <1>1. Legal(c, Ids)
    BY CallLegal
  <1>2. v.code \in Texts /\ v.name \in Texts /\ v.up \in [Above(c.row) -> Rows \cup {None}]
        /\ \A t \in Above(c.row) : v.up[t] \in Aims(t, Ids)
    BY DEF IsRow, RowsLike
  <1>3. w.code \in Texts /\ w.name \in Texts
    BY <1>1, <1>2 DEF Asked, Legal
  <1>4. w.up = [t \in Above(c.row) |-> IF t \in DOMAIN c.up THEN c.up[t] ELSE v.up[t]]
    BY <1>2 DEF Asked
  <1>5. \A t \in Above(c.row) : w.up[t] \in Aims(t, Ids)
    BY <1>1, <1>2, <1>4 DEF Legal
  <1>6. w.up \in [Above(c.row) -> Rows \cup {None}]
    BY <1>4, <1>5, Scene DEF Aims
  <1>7. w = [code |-> w.code, name |-> w.name, up |-> w.up]
    BY DEF Asked
  <1>8. w \in RowsLike(c.row)
    BY <1>3, <1>6, <1>7 DEF RowsLike
  <1> QED BY <1>5, <1>8 DEF IsRow

(* The end of a request: the others stay, and learn what changed.          *)
LEMMA Others ==
  ASSUME TypeOK, NEW r \in Requests, NEW new, Done(r, new)
  PROVE  /\ scene' = scene /\ Ids' = Ids /\ row' = new
         /\ req' = [s \in Requests |-> req'[s]] /\ req'[r] = None
         /\ \A s \in Requests : req'[s] # None =>
              /\ s # r /\ req[s] # None
              /\ req'[s].call = req[s].call /\ req'[s].todo = req[s].todo
              /\ req'[s].seen = req[s].seen /\ req'[s].blind = req[s].blind
              /\ req'[s].news = req[s].news \cup {x \in Ids : row'[x] # row[x]}
              /\ req'[s] \in RequestsOf(req'[s].call)
         /\ \A s \in Requests : s # r /\ Goes(s) => req'[s] # None
  <1> DEFINE changed == {x \in Ids : new[x] # row[x]}
  <1>1. /\ scene' = scene /\ row' = new /\ Ids' = Ids
        /\ req' = [s \in Requests |->
             IF s = r \/ req[s] = None THEN None ELSE [req[s] EXCEPT !.news = @ \cup changed]]
    BY DEF Done, Ids
  <1>2. ASSUME NEW s \in Requests, s # r, req[s] # None
        PROVE  /\ req'[s] # None
               /\ req'[s].call = req[s].call /\ req'[s].todo = req[s].todo
               /\ req'[s].seen = req[s].seen /\ req'[s].blind = req[s].blind
               /\ req'[s].news = req[s].news \cup changed
               /\ req'[s] \in RequestsOf(req'[s].call)
    <2>1. req[s] \in RequestsOf(req[s].call) /\ None \notin RequestsOf(req[s].call)
      BY <1>2, CallLegal DEF Goes
    <2>2. req'[s] = [req[s] EXCEPT !.news = @ \cup changed]
      BY <1>1, <1>2
    <2>3. changed \subseteq Rows
      BY Scene
    <2>4. req'[s] \in RequestsOf(req[s].call) /\ req'[s].call = req[s].call
      BY <2>1, <2>2, <2>3 DEF RequestsOf
    <2>5. /\ req'[s].todo = req[s].todo /\ req'[s].seen = req[s].seen
          /\ req'[s].blind = req[s].blind /\ req'[s].news = req[s].news \cup changed
      BY <2>1, <2>2 DEF RequestsOf
    <2> QED BY <2>1, <2>4, <2>5
  <1> HIDE DEF changed
  <1>3. \A s \in Requests : req'[s] # None => s # r /\ req[s] # None
    BY <1>1
  <1>4. changed = {x \in Ids : row'[x] # row[x]}
    BY <1>1 DEF changed
  <1>5. req' = [s \in Requests |-> req'[s]] /\ req'[r] = None
    BY <1>1
  <1> QED BY <1>1, <1>2, <1>3, <1>4, <1>5 DEF Goes

-----------------------------------------------------------------------------
(* Types.                                                                  *)
RowsOK == row = [x \in Ids |-> row[x]] /\ \A x \in Ids : Present(x) => WellReferred(x)
RequestsOK ==
  /\ req = [r \in Requests |-> req[r]]
  /\ \A r \in Requests : req[r] # None =>
       req[r].call \in CallsOf[scene] /\ req[r] \in RequestsOf(req[r].call)

LEMMA DoneTyped ==
  ASSUME TypeOK, NEW r \in Requests, NEW new, Done(r, new), RowsOK'
  PROVE  TypeOK'
  <1>1. RequestsOK'
    BY Others DEF RequestsOK, TypeOK
  <1> QED BY <1>1, Others DEF TypeOK, RowsOK, RequestsOK

(* A step that writes no row keeps the types when the request is one.      *)
LEMMA RowsStay ==
  ASSUME TypeOK, UNCHANGED <<scene, row>>, RequestsOK'
  PROVE  TypeOK'
  BY DEF TypeOK, RequestsOK, Present, WellReferred, Ids

LEMMA FinishTyped ==
  ASSUME TypeOK, NEW r \in Requests, Finish(r), UNCHANGED <<scene, row>>
  PROVE  TypeOK' /\ \A s \in Requests : req'[s] # None => s # r /\ req'[s] = req[s]
  <1>1. req' = [s \in Requests |-> req'[s]] /\ \A s \in Requests : req'[s] # None => s # r /\ req'[s] = req[s]
    BY DEF Finish, TypeOK
  <1>2. RequestsOK'
    BY <1>1 DEF RequestsOK, TypeOK
  <1> QED BY <1>1, <1>2, RowsStay

LEMMA StartTyped ==
  ASSUME TypeOK, NEW r \in Requests, NEW c \in CallsOf[scene], Start(r, c)
  PROVE  /\ TypeOK' /\ \A s \in Requests : s # r => req'[s] = req[s]
         /\ req'[r] = [call |-> c, todo |-> c.method.looks, seen |-> None,
                       blind |-> FALSE, news |-> {}]
  <1> DEFINE q == [call |-> c, todo |-> c.method.looks, seen |-> None,
                   blind |-> FALSE, news |-> {}]
  <1>1. req' = [s \in Requests |-> req'[s]] /\ req'[r] = q /\ \A s \in Requests : s # r => req'[s] = req[s]
    BY DEF Start, TypeOK
  <1>2. c.method \in Methods
    BY Scene DEF Legal
  <1>3. q \in RequestsOf(c)
    BY <1>2, MethodLooks DEF RequestsOf
  <1>4. RequestsOK'
    BY <1>1, <1>3 DEF RequestsOK, TypeOK, Start
  <1> QED BY <1>1, <1>4, RowsStay DEF Start

(* What a look leaves of a request.                                        *)
Looked(q, p, look) ==
  /\ look = Head(q.todo) /\ q.todo # <<>>
  /\ p.call = q.call /\ p.todo = Tail(q.todo) /\ p.news = q.news
  /\ p.seen = (IF look = "row" THEN row[q.call.row] ELSE q.seen)
  /\ \E x \in Found(q, look) :
       Accepts(q, look, x) /\ p.blind = (q.blind \/ (x = None /\ Fitting(q, look) # {}))

LEMMA LookTyped ==
  ASSUME TypeOK, NEW r \in Requests, Look(r)
  PROVE  /\ TypeOK' /\ \A s \in Requests : s # r => req'[s] = req[s]
         /\ req'[r] # None => Looked(req[r], req'[r], Head(req[r].todo))
  <1> DEFINE q == req[r]  look == Head(q.todo)
  <1>0. q \in RequestsOf(q.call) /\ q.todo # <<>> /\ q.call \in CallsOf[scene] /\ Ids \subseteq Rows
        /\ q.call.row \in Ids /\ UNCHANGED <<scene, row>>
    BY CallLegal, Scene DEF Look
  <1>1. CASE Finish(r)
    <2>1. req'[r] = None
      BY <1>1 DEF Finish, TypeOK
    <2>2. \A s \in Requests : s # r => req'[s] = req[s]
      BY <1>1 DEF Finish, TypeOK
    <2> QED BY <1>1, <1>0, <2>1, <2>2, FinishTyped
  <1>2. ASSUME NEW x \in Found(q, look), Accepts(q, look, x),
               req' = [req EXCEPT ![r] =
                 [q EXCEPT !.todo = Tail(@),
                           !.seen = IF look = "row" THEN row[q.call.row] ELSE @,
                           !.blind = @ \/ (x = None /\ Fitting(q, look) # {})]]
        PROVE  /\ TypeOK' /\ \A s \in Requests : s # r => req'[s] = req[s]
               /\ Looked(q, req'[r], look)
    <2> DEFINE seen == IF look = "row" THEN row[q.call.row] ELSE q.seen
               blind == q.blind \/ (x = None /\ Fitting(q, look) # {})
    <2>1. /\ req' = [s \in Requests |-> req'[s]]
          /\ \A s \in Requests : s # r => req'[s] = req[s]
          /\ req'[r] = [call |-> q.call, todo |-> Tail(q.todo), seen |-> seen,
                        blind |-> blind, news |-> q.news]
      BY <1>0, <1>2 DEF TypeOK, RequestsOf
    <2>2. seen \in RowsLike(q.call.row) \cup {None}
      <3>1. CASE look = "row"
        <4>1. Fitting(q, look) = {q.call.row} \cap {y \in Ids : Present(y)}
          BY <3>1 DEF Fitting, Tables, Refs
        <4>2. x # None
          BY <1>2, <3>1 DEF Accepts
        <4>3. x \in Fitting(q, look)
          BY <1>2, <4>2 DEF Found
        <4>4. Present(q.call.row)
          BY <4>1, <4>3
        <4> QED BY <1>0, <3>1, <4>4 DEF TypeOK, WellReferred, IsRow
      <3>2. CASE look # "row"
        BY <1>0, <3>2 DEF RequestsOf
      <3> QED BY <3>1, <3>2
    <2>3. Tail(q.todo) \in Seq(Sights) /\ blind \in BOOLEAN
      BY <1>0 DEF RequestsOf
    <2>4. q.news \subseteq Rows
      BY <1>0 DEF RequestsOf
    <2> HIDE DEF seen, blind
    <2>5. req'[r] \in RequestsOf(q.call)
      BY <2>1, <2>2, <2>3, <2>4 DEF RequestsOf
    <2>6. /\ req'[r].call = q.call /\ req'[r].todo = Tail(q.todo) /\ req'[r].news = q.news
          /\ req'[r].seen = seen /\ req'[r].blind = blind
      BY <2>1
    <2>7. RequestsOK'
      BY <1>0, <2>1, <2>5, <2>6 DEF RequestsOK, TypeOK
    <2>8. Looked(q, req'[r], look)
      BY <1>0, <1>2, <2>6 DEF Looked, seen, blind
    <2> QED BY <1>0, <2>1, <2>7, <2>8, RowsStay
  <1>3. \/ Finish(r)
        \/ \E x \in Found(q, look) : Accepts(q, look, x) /\
             req' = [req EXCEPT ![r] =
                 [q EXCEPT !.todo = Tail(@),
                           !.seen = IF look = "row" THEN row[q.call.row] ELSE @,
                           !.blind = @ \/ (x = None /\ Fitting(q, look) # {})]]
    BY DEF Look
  <1> QED BY <1>1, <1>2, <1>3

(* A row that is there after a step.                                       *)
Remains(x) == row'[x] \notin {Unborn, Gone}

LEMMA RemainsIsPresent == \A x : Present(x)' <=> Remains(x)
  BY DEF Present, Remains

(* A reference of a row after a step leads to a row.                       *)
LEMMA WellReferredNext ==
  ASSUME NEW x \in Ids, Ids' = Ids, IsRow(x, row'[x], Ids),
         \A t \in Above(x) : row'[x].up[t] # None => Remains(row'[x].up[t])
  PROVE  WellReferred(x)'
  BY DEF WellReferred, Present, Remains

(* A row that is there has its values and references as its table says.    *)
LEMMA RowThere ==
  ASSUME TypeOK, NEW x \in Ids, Present(x)
  PROVE  /\ x \in Rows /\ IsRow(x, row[x], Ids)
         /\ row[x] = [code |-> row[x].code, name |-> row[x].name, up |-> row[x].up]
         /\ row[x].up = [t \in Above(x) |-> row[x].up[t]]
         /\ \A t \in Above(x) : row[x].up[t] # None =>
              row[x].up[t] \in Ids /\ Present(row[x].up[t]) /\ TableOf[row[x].up[t]] = t
  BY Scene DEF TypeOK, WellReferred, IsRow, RowsLike, Aims

LEMMA InsertTyped ==
  ASSUME TypeOK, NEW r \in Requests, Insert(r)
  PROVE  /\ TypeOK' /\ row'[req[r].call.row] = Made(req[r].call)
         /\ \A x \in Ids \ {req[r].call.row} :
              /\ row'[x] # row[x] => TableOf[x] = "user" /\ Present(x) /\ Remains(x)
              /\ row'[x] = row[x] => Remains(x) = Present(x)
         /\ \A x \in Ids : Present(x) => Remains(x)
  <1> DEFINE c == req[r].call
             new == [x \in Ids |->
                       IF x = c.row THEN Made(c)
                       ELSE IF x \in c.crew /\ Present(x) THEN [row[x] EXCEPT !.up.group = c.row]
                       ELSE row[x]]
  <1>1. /\ Goes(r) /\ c.method.op = "insert" /\ Rooted(Made(c)) /\ Done(r, new)
        /\ Legal(c, Ids) /\ c.row \in Ids /\ Ids \subseteq Rows
    BY CallLegal, Scene DEF Insert, Ready
  <1> HIDE DEF new
  <1>2. row' = new /\ Ids' = Ids /\ scene' = scene
    BY <1>1, Others
  <1>3. IsRow(c.row, Made(c), Ids) /\ row'[c.row] = Made(c)
    BY <1>1, <1>2, MadeIsRow DEF new
  <1>4. Remains(c.row)
    BY <1>1, <1>3, RowsArePresent DEF Remains
  <1>5. ASSUME NEW x \in Ids, x # c.row, x \in c.crew, Present(x)
        PROVE  /\ IsRow(x, row'[x], Ids) /\ TableOf[x] = "user" /\ Remains(x)
               /\ \A t \in Above(x) : row'[x].up[t] = (IF t = "group" THEN c.row ELSE row[x].up[t])
    <2>1. TableOf[x] = "user" /\ TableOf[c.row] = "group" /\ x \in Rows
      BY <1>1, <1>5 DEF Legal
    <2>2. Above(x) = {"group", "role"}
      BY <2>1 DEF Above, Refs, UserRefs
    <2>3. row'[x] = [row[x] EXCEPT !.up.group = c.row]
      BY <1>2, <1>5 DEF new
    <2>4. row[x].up = [t \in Above(x) |-> row[x].up[t]] /\ row[x] \in RowsLike(x)
      BY <1>5, RowThere DEF IsRow
    <2>5. row'[x].up = [t \in Above(x) |-> IF t = "group" THEN c.row ELSE row[x].up[t]]
      BY <2>2, <2>3, <2>4 DEF RowsLike
    <2>6. row'[x] = [code |-> row[x].code, name |-> row[x].name, up |-> row'[x].up]
      BY <2>3, <2>4 DEF RowsLike
    <2>7. \A t \in Above(x) : row[x].up[t] \in Aims(t, Ids)
      BY <1>5, RowThere DEF IsRow
    <2>8. \A t \in Above(x) : row'[x].up[t] \in Aims(t, Ids)
      BY <1>1, <2>1, <2>5, <2>7 DEF Aims
    <2>9. row'[x].up \in [Above(x) -> Rows \cup {None}]
      BY <1>1, <2>5, <2>8 DEF Aims
    <2>10. row'[x] \in RowsLike(x)
      BY <2>4, <2>6, <2>9 DEF RowsLike
    <2>11. IsRow(x, row'[x], Ids)
      BY <2>8, <2>10 DEF IsRow
    <2> QED BY <2>1, <2>5, <2>11, RowsArePresent DEF Remains
  <1>6. \A x \in Ids : x # c.row /\ ~(x \in c.crew /\ Present(x)) => row'[x] = row[x]
    BY <1>2 DEF new
  <1>7. \A x \in Ids : Present(x) => Remains(x)
    BY <1>4, <1>5, <1>6 DEF Present, Remains
  <1>8. ASSUME NEW x \in Ids, Remains(x)
        PROVE  WellReferred(x)'
    <2>1. CASE x = c.row
      <3>1. \A t \in Above(x) : Made(c).up[t] # None => Present(Made(c).up[t]) /\ Made(c).up[t] \in Ids
        BY <1>1, <1>3, <2>1 DEF Rooted, IsRow, RowsLike, Aims
      <3> QED BY <1>2, <1>3, <1>7, <2>1, <3>1, WellReferredNext
    <2>2. CASE x # c.row /\ x \in c.crew /\ Present(x)
      <3>1. \A t \in Above(x) : row'[x].up[t] # None => Remains(row'[x].up[t])
        <4>1. \A t \in Above(x) : row[x].up[t] # None => row[x].up[t] \in Ids /\ Present(row[x].up[t])
          BY <2>2, RowThere
        <4> QED BY <1>4, <1>5, <1>7, <2>2, <4>1
      <3> QED BY <1>2, <1>5, <2>2, <3>1, WellReferredNext
    <2>3. CASE x # c.row /\ ~(x \in c.crew /\ Present(x))
      <3>1. row'[x] = row[x] /\ Present(x)
        BY <1>6, <1>8, <2>3 DEF Present, Remains
      <3>2. IsRow(x, row[x], Ids)
            /\ \A t \in Above(x) : row[x].up[t] # None => row[x].up[t] \in Ids /\ Present(row[x].up[t])
        BY <3>1, RowThere
      <3> QED BY <1>2, <1>7, <3>1, <3>2, WellReferredNext
    <2> QED BY <2>1, <2>2, <2>3
  <1>9. RowsOK'
    BY <1>2, <1>8 DEF RowsOK, new, Present, Remains
  <1>10. TypeOK'
    BY <1>1, <1>9, DoneTyped
  <1> QED BY <1>3, <1>5, <1>6, <1>7, <1>10 DEF Present, Remains

LEMMA UpdateTyped ==
  ASSUME TypeOK, NEW r \in Requests, Update(r)
  PROVE  /\ TypeOK' /\ Present(req[r].call.row) /\ Remains(req[r].call.row)
         /\ row'[req[r].call.row] = Asked(req[r].call, row[req[r].call.row])
         /\ \A x \in Ids \ {req[r].call.row} : row'[x] = row[x]
         /\ \A x \in Ids : Remains(x) = Present(x)
  <1> DEFINE c == req[r].call  v == Asked(c, row[c.row])
             new == [row EXCEPT ![c.row] = v]
  <1>1. /\ Goes(r) /\ Rooted(v) /\ Done(r, new) /\ Present(c.row)
        /\ c.row \in Ids /\ Ids \subseteq Rows
    BY CallLegal, Scene DEF Update, Ready
  <1>2. row' = new /\ Ids' = Ids
    BY <1>1, Others
  <1>3. IsRow(c.row, v, Ids)
    BY <1>1, RowThere, AskedIsRow
  <1>4. row' = [x \in Ids |-> row'[x]] /\ row'[c.row] = v /\ \A x \in Ids \ {c.row} : row'[x] = row[x]
    BY <1>1, <1>2 DEF TypeOK
  <1> HIDE DEF v, new
  <1>5. Remains(c.row)
    BY <1>1, <1>3, <1>4, RowsArePresent DEF Remains
  <1>6. \A x \in Ids : Remains(x) = Present(x)
    BY <1>1, <1>4, <1>5 DEF Present, Remains
  <1>7. ASSUME NEW x \in Ids, Present(x)
        PROVE  WellReferred(x)'
    <2>1. CASE x = c.row
      <3>1. \A t \in Above(x) : v.up[t] # None => Present(v.up[t]) /\ v.up[t] \in Ids
        BY <1>1, <1>3, <2>1 DEF Rooted, IsRow, RowsLike, Aims
      <3> QED BY <1>2, <1>3, <1>4, <1>6, <2>1, <3>1, WellReferredNext
    <2>2. CASE x # c.row
      <3>1. IsRow(x, row'[x], Ids) /\ row'[x] = row[x]
        BY <1>4, <1>7, <2>2, RowThere
      <3>2. \A t \in Above(x) : row[x].up[t] # None => row[x].up[t] \in Ids /\ Present(row[x].up[t])
        BY <1>7, RowThere
      <3> QED BY <1>2, <1>6, <3>1, <3>2, WellReferredNext
    <2> QED BY <2>1, <2>2
  <1>8. RowsOK'
    BY <1>2, <1>4, <1>6, <1>7 DEF RowsOK, Present, Remains
  <1> QED BY <1>1, <1>4, <1>5, <1>6, <1>8, DoneTyped DEF v

-----------------------------------------------------------------------------
(* What PostgreSQL deletes with a row is there, and each other row of it   *)
(* has a reference into it that cascades.                                  *)
LEMMA DoomedRows ==
  ASSUME NEW x \in Ids, Present(x)
  PROVE  /\ x \in Doomed(x) /\ Doomed(x) \subseteq {y \in Ids : Present(y)}
         /\ Closed(Doomed(x))
         /\ \A z \in Doomed(x) \ {x} : \E y \in Doomed(x) : Cascades(z, y)
  <1> DEFINE Now == {y \in Ids : Present(y)}  D == Doomed(x)
  <1>1. \A y : y \in D <=> y \in Now /\ \A S \in SUBSET Now : x \in S /\ Closed(S) => y \in S
    BY DEF Doomed
  <1> HIDE DEF D
  <1>2. x \in D /\ D \subseteq Now
    BY <1>1
  <1>3. Closed(D)
    <2> SUFFICES ASSUME NEW a \in D, NEW y \in Ids, Cascades(y, a)
                 PROVE  y \in D
      BY DEF Closed
    <2>1. y \in Now
      BY DEF Cascades, Refers
    <2>2. ASSUME NEW S \in SUBSET Now, x \in S, Closed(S)
          PROVE  y \in S
      BY <1>1, <2>2 DEF Closed
    <2> QED BY <1>1, <2>1, <2>2
  <1>4. ASSUME NEW z \in D, z # x, \A y \in D : ~Cascades(z, y)
        PROVE  FALSE
    <2> DEFINE S == D \ {z}
    <2>1. S \in SUBSET Now /\ x \in S
      BY <1>2, <1>4
    <2>2. Closed(S)
      BY <1>3, <1>4 DEF Closed
    <2> QED BY <1>1, <2>1, <2>2
  <1> QED BY <1>2, <1>3, <1>4 DEF D

LEMMA DeleteTyped ==
  ASSUME TypeOK, NEW r \in Requests, Delete(r)
  PROVE  LET D == Doomed(req[r].call.row) IN
         /\ TypeOK' /\ Present(req[r].call.row) /\ ~Blocked(D)
         /\ \A x \in Ids : ~Present(x) => row'[x] = row[x]
         /\ \A x \in D : x \in Ids /\ row'[x] = Gone
         /\ \A x \in Ids \ D : Present(x) =>
              /\ Remains(x) /\ row'[x].code = row[x].code /\ row'[x].name = row[x].name
              /\ \A t \in Above(x) :
                   row'[x].up[t] = (IF row[x].up[t] \in D THEN None ELSE row[x].up[t])
              /\ (\A t \in Above(x) : row[x].up[t] \notin D) => row'[x] = row[x]
         /\ \A x \in Ids : Remains(x) => Present(x)
  <1> DEFINE x0 == req[r].call.row  D == Doomed(x0)  new == Without(D)
  <1>1. Goes(r) /\ Present(x0) /\ ~Blocked(D) /\ Done(r, new) /\ x0 \in Ids /\ Ids \subseteq Rows
    BY CallLegal, Scene DEF Delete, Ready
  <1>2. x0 \in D /\ D \subseteq {y \in Ids : Present(y)}
    BY <1>1, DoomedRows
  <1>3. row' = new /\ Ids' = Ids
    BY <1>1, Others
  <1> HIDE DEF D
  <1>4. new = [y \in Ids |-> IF y \in D THEN Gone ELSE IF Present(y) THEN Unhooked(y, D) ELSE row[y]]
    BY DEF Without
  <1> HIDE DEF new
  <1>5. /\ \A y \in D : y \in Ids /\ row'[y] = Gone
        /\ \A y \in Ids : ~Present(y) => row'[y] = row[y]
        /\ \A y \in Ids \ D : Present(y) => row'[y] = Unhooked(y, D)
    BY <1>2, <1>3, <1>4
  <1>6. ASSUME NEW y \in Ids \ D, Present(y)
        PROVE  /\ IsRow(y, row'[y], Ids) /\ Remains(y)
               /\ row'[y].code = row[y].code /\ row'[y].name = row[y].name
               /\ \A t \in Above(y) :
                    row'[y].up[t] = (IF row[y].up[t] \in D THEN None ELSE row[y].up[t])
               /\ (\A t \in Above(y) : row[y].up[t] \notin D) => row'[y] = row[y]
    <2> DEFINE up == [t \in Above(y) |-> IF row[y].up[t] \in D THEN None ELSE row[y].up[t]]
    <2>1. row[y] \in RowsLike(y) /\ \A t \in Above(y) : row[y].up[t] \in Aims(t, Ids)
      BY <1>6, RowThere DEF IsRow
    <2>2. row'[y] = [row[y] EXCEPT !.up = up]
      BY <1>5, <1>6 DEF Unhooked
    <2>3. \A t \in Above(y) : up[t] \in Aims(t, Ids)
      BY <2>1 DEF Aims
    <2>4. up \in [Above(y) -> Rows \cup {None}]
      BY <1>1, <2>3 DEF Aims
    <2>5. (\A t \in Above(y) : row[y].up[t] \notin D) => up = row[y].up
      BY <2>1 DEF RowsLike
    <2> HIDE DEF up
    <2>6. row'[y] = [code |-> row[y].code, name |-> row[y].name, up |-> up]
      BY <2>1, <2>2 DEF RowsLike
    <2>7. row[y] = [code |-> row[y].code, name |-> row[y].name, up |-> row[y].up]
      BY <2>1 DEF RowsLike
    <2>8. row'[y] \in RowsLike(y)
      BY <2>1, <2>4, <2>6 DEF RowsLike
    <2>9. IsRow(y, row'[y], Ids)
      BY <2>3, <2>6, <2>8 DEF IsRow
    <2>10. Remains(y)
      BY <1>1, <2>9, RowsArePresent DEF Remains
    <2>11. row'[y].code = row[y].code /\ row'[y].name = row[y].name /\ row'[y].up = up
      BY <2>6
    <2> QED BY <2>5, <2>6, <2>7, <2>9, <2>10, <2>11 DEF up
  <1>7. \A y \in D : ~Remains(y)
    BY <1>5 DEF Present, Remains
  <1>8. \A y \in Ids : Remains(y) => Present(y) /\ y \notin D
    BY <1>5, <1>7 DEF Present, Remains
  <1>9. ASSUME NEW y \in Ids, Remains(y)
        PROVE  WellReferred(y)'
    <2>1. Present(y) /\ y \notin D
      BY <1>8, <1>9
    <2>2. \A t \in Above(y) : row[y].up[t] # None => row[y].up[t] \in Ids /\ Present(row[y].up[t])
      BY <2>1, RowThere
    <2>3. \A t \in Above(y) : row'[y].up[t] # None => Remains(row'[y].up[t])
      BY <1>6, <2>1, <2>2
    <2> QED BY <1>3, <1>6, <2>1, <2>3, WellReferredNext
  <1>10. RowsOK'
    BY <1>3, <1>4, <1>9 DEF RowsOK, Present, Remains
  <1>11. TypeOK'
    BY <1>1, <1>10, DoneTyped
  <1> QED BY <1>1, <1>5, <1>6, <1>8, <1>11 DEF D

-----------------------------------------------------------------------------
(* The type invariant.                                                     *)
LEMMA InitTyped == Init => TypeOK
  <1> SUFFICES ASSUME Init PROVE TypeOK
    OBVIOUS
  <1>1. /\ scene \in Scenes /\ row = RowsOf[scene] /\ Ids \subseteq Rows
        /\ row = [x \in Ids |-> row[x]] /\ req = [r \in Requests |-> None]
        /\ \A x \in Ids : row[x] # Unborn =>
             /\ IsRow(x, row[x], Ids)
             /\ \A t \in Above(x) : row[x].up[t] # None => row[row[x].up[t]] # Unborn
    BY RecordsAssumption DEF Init, Ids
  <1>2. ASSUME NEW x \in Ids, Present(x)
        PROVE  WellReferred(x)
    <2>1. IsRow(x, row[x], Ids)
      BY <1>1, <1>2 DEF Present
    <2>2. ASSUME NEW t \in Above(x), row[x].up[t] # None
          PROVE  Present(row[x].up[t])
      <3>1. row[x].up[t] \in Ids /\ row[row[x].up[t]] # Unborn
        BY <1>1, <1>2, <2>1, <2>2 DEF Present, IsRow, Aims
      <3> QED BY <1>1, <3>1, RowsArePresent DEF Present
    <2> QED BY <2>1, <2>2 DEF WellReferred
  <1> QED BY <1>1, <1>2 DEF TypeOK

LEMMA NextTyped == TypeOK /\ [Next]_vars => TypeOK'
  <1> SUFFICES ASSUME TypeOK, [Next]_vars PROVE TypeOK'
    OBVIOUS
  <1>1. CASE UNCHANGED vars
    BY <1>1 DEF vars, TypeOK, Present, WellReferred, Ids
  <1>2. ASSUME NEW r \in Requests, Refused(r) \/ Fail(r)
        PROVE  TypeOK'
    BY <1>2, FinishTyped DEF Refused, Fail
  <1> QED BY <1>1, <1>2, StartTyped, LookTyped, InsertTyped, UpdateTyped, DeleteTyped DEF Next

(* Rows keep the types of their values and tables, a reference always has  *)
(* a row of its table to it, and requests are of calls there are.          *)
THEOREM RecordsTyped == Spec => []TypeOK
  BY InitTyped, NextTyped, PTL DEF Spec

-----------------------------------------------------------------------------
(* What a request has learnt.  A look that was taken and found nothing     *)
(* leaves only rows that came or changed since the request began, unless   *)
(* it was blind.  All of this is about the rows as they are now, f.        *)
Coming(q) == {q.todo[i] : i \in DOMAIN q.todo}
InTable(f, t) == {y \in DOMAIN f : f[y] \notin {Unborn, Gone} /\ TableOf[y] = t}
NameHits(f, c, v) ==
  LET t == c.method.table IN
  {y \in InTable(f, t) : Asks(t, v.name, f[y].name) /\ SameUnit(t, f[y], v)}
KeyHits(f, c, v) == {y \in InTable(f, c.method.table) : SameKey(c.method.table, f[y], v)}
Referring(f, t, x) == {y \in InTable(f, t) : \E k \in Above(y) : f[y].up[k] = x}

Learnt(q, look, hits) == look \in LooksOf(q.call.method) => look \in Coming(q) \/ q.blind \/ hits \subseteq q.news

InsertKnows(q, f) ==
  /\ q.seen = None /\ "row" \notin Coming(q)
  /\ Learnt(q, "name", NameHits(f, q.call, Made(q.call)))
  /\ Learnt(q, "key", KeyHits(f, q.call, Made(q.call)))
DeleteKnows(q, f) == \A t \in Tables : Learnt(q, t, Referring(f, t, q.call.row))

(* An update knows its row as it is, unless the row is among the news, and *)
(* of others with the new name where it looks for it: there are none but   *)
(* news, or the row itself had a name that contains it.                    *)
Sought(c, old) == IF c.method \in Staying THEN [Asked(c, old) EXCEPT !.up = old.up] ELSE Asked(c, old)

UpdateKnows(q, f) ==
  LET c == q.call  old == f[c.row]  v == Sought(c, old) IN
  /\ q.seen = None \/ c.row \in q.news \/ q.seen = old
  /\ c.method.table \in Named =>
       /\ q.seen = None => q.todo = c.method.looks
       /\ \/ "name" \in Coming(q) \/ q.blind \/ c.row \in q.news \/ v.name = old.name
          \/ c.row \in NameHits(f, c, v) \/ NameHits(f, c, v) \subseteq q.news

Known(q, f) ==
  /\ q.call.method.op = "insert" => InsertKnows(q, f)
  /\ q.call.method.op = "delete" => DeleteKnows(q, f)
  /\ q.call.method.op = "update" => UpdateKnows(q, f)

(* A row that is to be inserted is not there and is nobody else's.         *)
Apart ==
  \A r \in Requests : Goes(r) =>
    /\ req[r].call.method.op = "insert" <=> row[req[r].call.row] = Unborn
    /\ req[r].call.method.op = "insert" =>
         \A s \in Requests \ {r} : Goes(s) => req[s].call.row # req[r].call.row

RInv == TypeOK /\ Apart /\ \A r \in Requests : Goes(r) => Known(req[r], row)

(* What rows change is learnt by everybody else.                           *)
LEMMA NewHits ==
  ASSUME NEW f, NEW g, DOMAIN g = DOMAIN f
  PROVE  LET changed == {x \in DOMAIN f : g[x] # f[x]} IN
         /\ \A c, v : NameHits(g, c, v) \subseteq NameHits(f, c, v) \cup changed
         /\ \A c, v : KeyHits(g, c, v) \subseteq KeyHits(f, c, v) \cup changed
         /\ \A t, x : Referring(g, t, x) \subseteq Referring(f, t, x) \cup changed
         /\ \A c, v : \A x \in NameHits(f, c, v) : g[x] = f[x] => x \in NameHits(g, c, v)
  BY DEF NameHits, KeyHits, Referring, InTable

LEMMA OthersLearn ==
  ASSUME NEW f, NEW g, DOMAIN g = DOMAIN f, NEW q, NEW p, Known(q, f), q.call.row \in DOMAIN f,
         p.call = q.call, p.todo = q.todo, p.seen = q.seen, p.blind = q.blind,
         p.news = q.news \cup {x \in DOMAIN f : g[x] # f[x]}
  PROVE  Known(p, g)
  <1> DEFINE changed == {x \in DOMAIN f : g[x] # f[x]}
  <1>1. Coming(p) = Coming(q)
    BY DEF Coming
  <1>2. ASSUME NEW look, NEW h, NEW k, Learnt(q, look, h), k \subseteq h \cup changed
        PROVE  Learnt(p, look, k)
    BY <1>1, <1>2 DEF Learnt
  <1>3. InsertKnows(q, f) => InsertKnows(p, g)
    BY <1>1, <1>2, NewHits DEF InsertKnows
  <1>4. DeleteKnows(q, f) => DeleteKnows(p, g)
    BY <1>2, NewHits DEF DeleteKnows
  <1>5. ASSUME UpdateKnows(q, f) PROVE UpdateKnows(p, g)
    <2> DEFINE c == q.call
    <2>1. CASE c.row \in changed
      BY <1>1, <1>5, <2>1 DEF UpdateKnows
    <2>2. CASE c.row \notin changed
      <3>1. g[c.row] = f[c.row]
        BY <2>2
      <3> DEFINE v == Sought(c, f[c.row])
      <3>2. /\ NameHits(g, c, v) \subseteq NameHits(f, c, v) \cup changed
            /\ c.row \in NameHits(f, c, v) => c.row \in NameHits(g, c, v)
        BY <3>1, NewHits
      <3> HIDE DEF v
      <3>3. /\ q.seen = None \/ c.row \in q.news \/ q.seen = f[c.row]
            /\ c.method.table \in Named =>
                 /\ q.seen = None => q.todo = c.method.looks
                 /\ \/ "name" \in Coming(q) \/ q.blind \/ c.row \in q.news \/ v.name = f[c.row].name
                    \/ c.row \in NameHits(f, c, v) \/ NameHits(f, c, v) \subseteq q.news
        BY <1>5 DEF UpdateKnows, v
      <3>4. /\ p.seen = None \/ c.row \in p.news \/ p.seen = g[c.row]
            /\ c.method.table \in Named =>
                 /\ p.seen = None => p.todo = c.method.looks
                 /\ \/ "name" \in Coming(p) \/ p.blind \/ c.row \in p.news \/ v.name = g[c.row].name
                    \/ c.row \in NameHits(g, c, v) \/ NameHits(g, c, v) \subseteq p.news
        BY <1>1, <3>1, <3>2, <3>3
      <3> QED BY <3>1, <3>4 DEF UpdateKnows, v
    <2> QED BY <2>1, <2>2
  <1> QED BY <1>3, <1>4, <1>5 DEF Known

(* What a look leaves to come.                                             *)
LEMMA TailOf ==
  ASSUME NEW s \in Seq(Sights), s # <<>>
  PROVE  {s[i] : i \in DOMAIN s} = {Head(s)} \cup {Tail(s)[i] : i \in DOMAIN Tail(s)}
  <1>1. Len(s) \in Nat /\ Len(s) > 0 /\ DOMAIN s = 1..Len(s) /\ Head(s) = s[1]
        /\ DOMAIN Tail(s) = 1..(Len(s) - 1) /\ \A i \in 1..(Len(s) - 1) : Tail(s)[i] = s[i + 1]
    OBVIOUS
  <1>2. \A i \in DOMAIN s : i # 1 => i - 1 \in DOMAIN Tail(s) /\ Tail(s)[i - 1] = s[i]
    BY <1>1
  <1>3. \A i \in DOMAIN Tail(s) : i + 1 \in DOMAIN s /\ s[i + 1] = Tail(s)[i]
    BY <1>1
  <1> QED BY <1>1, <1>2, <1>3

(* A look that is accepted has found nothing, or for a row itself the row. *)
LEMMA WhatLooksFind ==
  ASSUME TypeOK, NEW q, q.call \in CallsOf[scene], NEW look, NEW x \in Found(q, look),
         Accepts(q, look, x)
  PROVE  LET c == q.call  v == IF q.seen = None THEN Made(c) ELSE Asked(c, q.seen) IN
         /\ look = "row" => Present(c.row)
         /\ c.method.op \in {"insert", "delete"} /\ look \in {"key", "name"} \cup Tables
              /\ (look \in Tables => c.method.op = "delete")
              => x = None
         /\ look = "name" => x \in {None, c.row}
         /\ x = None \/ x \in Fitting(q, look)
         /\ look = "name" => Fitting(q, look) =
              (IF q.seen # None /\ v.name = q.seen.name THEN {} ELSE NameHits(row, c, LookedUp(q, v)))
         /\ look = "key" /\ q.seen = None => Fitting(q, look) = KeyHits(row, c, v)
         /\ look \in Tables /\ c.method.op = "delete" => Fitting(q, look) = Referring(row, look, c.row)
  <1> DEFINE c == q.call  v == IF q.seen = None THEN Made(c) ELSE Asked(c, q.seen)
  <1>0. "row" \notin Tables /\ "key" \notin Tables /\ "name" \notin Tables /\ DOMAIN row = Ids
        /\ c.row \in Rows /\ None \notin Rows
    BY Scene, RecordsAssumption DEF Tables, Refs, Legal, TypeOK
  <1>1. x = None \/ x \in Fitting(q, look)
    BY DEF Found
  <1>2. ASSUME look = "row"
        PROVE  Present(c.row)
    <2>1. x # None
      BY <1>2 DEF Accepts
    <2>2. Fitting(q, look) = {c.row} \cap {y \in Ids : Present(y)}
      BY <1>2 DEF Fitting, Tables, Refs
    <2> QED BY <1>1, <2>1, <2>2
  <1>3. /\ c.method.op \in {"insert", "delete"} /\ look \in {"key", "name"} \cup Tables
             /\ (look \in Tables => c.method.op = "delete")
             => x = None
        /\ look = "name" => x \in {None, c.row}
    BY <1>0 DEF Accepts
  <1>4. ASSUME look = "name"
        PROVE  Fitting(q, look) = IF q.seen # None /\ v.name = q.seen.name THEN {} ELSE NameHits(row, c, LookedUp(q, v))
    <2>1. Fitting(q, look) =
            {y \in Ids : /\ Present(y) /\ TableOf[y] = c.method.table
                         /\ Asks(c.method.table, v.name, row[y].name)
                         /\ SameUnit(c.method.table, row[y], LookedUp(q, v))
                         /\ q.seen # None => v.name # q.seen.name}
      BY <1>0, <1>4 DEF Fitting
    <2>2. LookedUp(q, v).name = v.name
      BY DEF LookedUp, Made, Asked
    <2> HIDE DEF v
    <2> QED BY <1>0, <2>1, <2>2 DEF NameHits, InTable, Present
  <1>5. ASSUME look = "key", q.seen = None
        PROVE  Fitting(q, look) = KeyHits(row, c, v)
    <2>1. Fitting(q, look) =
            {y \in Ids : /\ Present(y) /\ TableOf[y] = c.method.table
                         /\ SameKey(c.method.table, row[y], v)
                         /\ q.seen # None => v.code # q.seen.code}
      BY <1>0, <1>5 DEF Fitting
    <2> HIDE DEF v
    <2> QED BY <1>0, <1>5, <2>1 DEF KeyHits, InTable, Present
  <1>6. ASSUME look \in Tables, c.method.op = "delete"
        PROVE  Fitting(q, look) = Referring(row, look, c.row)
    <2>1. Fitting(q, look) = {y \in Ids : TableOf[y] = look /\ \E k \in Above(y) : Refers(y, k, c.row)}
      BY <1>0, <1>6, SightNames DEF Fitting, Tables, Refs
    <2> QED BY <1>0, <2>1 DEF Referring, InTable, Present, Refers
  <1> HIDE DEF v
  <1> QED BY <1>1, <1>2, <1>3, <1>4, <1>5, <1>6 DEF v

LEMMA LookLearns ==
  ASSUME TypeOK, NEW r \in Requests, Goes(r), NEW p, Known(req[r], row),
         Looked(req[r], p, Head(req[r].todo))
  PROVE  Known(p, row)
  <1> DEFINE q == req[r]  look == Head(q.todo)  c == q.call
             v == IF q.seen = None THEN Made(c) ELSE Asked(c, q.seen)
  <1>0. c \in CallsOf[scene] /\ q.todo \in Seq(Sights) /\ c.method \in Methods /\ q.todo # <<>>
        /\ c.row \in Ids /\ c.row \in Rows /\ q.blind \in BOOLEAN /\ None \notin Rows
        /\ "name" \notin Tables /\ "key" \notin Tables
    BY CallLegal, Scene, RecordsAssumption DEF Legal, RequestsOf, Looked, Tables, Refs
  <1>1. PICK x \in Found(q, look) : Accepts(q, look, x) /\ p.blind = (q.blind \/ (x = None /\ Fitting(q, look) # {}))
    BY DEF Looked
  <1>2. /\ p.call = c /\ p.todo = Tail(q.todo) /\ p.news = q.news
        /\ p.seen = (IF look = "row" THEN row[c.row] ELSE q.seen)
    BY DEF Looked
  <1>3. Coming(q) = {look} \cup Coming(p)
    <2>1. Coming(q) = {look} \cup {Tail(q.todo)[i] : i \in DOMAIN Tail(q.todo)}
      BY <1>0, TailOf, Zenon DEF Coming
    <2>2. Coming(p) = {Tail(q.todo)[i] : i \in DOMAIN Tail(q.todo)}
      BY <1>2, Zenon DEF Coming
    <2> QED BY <2>1, <2>2, Zenon
  <1>4. q.blind => p.blind
    BY <1>1
  <1>5. x = None => p.blind \/ Fitting(q, look) = {}
    BY <1>1
  <1>6. /\ look = "row" => Present(c.row)
        /\ c.method.op \in {"insert", "delete"} /\ look \in {"key", "name"} \cup Tables
             /\ (look \in Tables => c.method.op = "delete") => x = None
        /\ look = "name" => x \in {None, c.row}
        /\ x = None \/ x \in Fitting(q, look)
        /\ look = "name" => Fitting(q, look) =
             (IF q.seen # None /\ v.name = q.seen.name THEN {} ELSE NameHits(row, c, LookedUp(q, v)))
        /\ look = "key" /\ q.seen = None => Fitting(q, look) = KeyHits(row, c, v)
        /\ look \in Tables /\ c.method.op = "delete" => Fitting(q, look) = Referring(row, look, c.row)
    BY <1>0, <1>1, WhatLooksFind
  <1>7. ASSUME NEW l, NEW h, Learnt(q, l, h), l = look => p.blind \/ h = {}
        PROVE  Learnt(p, l, h)
    BY <1>2, <1>3, <1>4, <1>7 DEF Learnt
  <1>8. ASSUME c.method.op = "insert"
        PROVE  InsertKnows(p, row)
    <2>1. InsertKnows(q, row)
      BY <1>8 DEF Known
    <2>2. look # "row" /\ q.seen = None /\ p.seen = None /\ "row" \notin Coming(p)
      BY <1>2, <1>3, <2>1 DEF InsertKnows
    <2>3. v = Made(c) /\ LookedUp(q, v) = v
      BY <1>8, <2>2 DEF LookedUp, Staying, UpdateLine, UpdateTeam, Updates
    <2> HIDE DEF v
    <2>4. Learnt(p, "name", NameHits(row, c, Made(c)))
      <3>1. ASSUME look = "name" PROVE p.blind \/ NameHits(row, c, Made(c)) = {}
        <4>1. x = None
          BY <1>0, <1>6, <1>8, <3>1
        <4>2. Fitting(q, look) = NameHits(row, c, Made(c))
          BY <1>6, <2>2, <2>3, <3>1
        <4> QED BY <1>5, <4>1, <4>2
      <3> QED BY <1>7, <2>1, <3>1 DEF InsertKnows
    <2>5. Learnt(p, "key", KeyHits(row, c, Made(c)))
      <3>1. ASSUME look = "key" PROVE p.blind \/ KeyHits(row, c, Made(c)) = {}
        <4>1. x = None
          BY <1>0, <1>6, <1>8, <3>1
        <4>2. Fitting(q, look) = KeyHits(row, c, Made(c))
          BY <1>6, <2>2, <2>3, <3>1
        <4> QED BY <1>5, <4>1, <4>2
      <3> QED BY <1>7, <2>1, <3>1 DEF InsertKnows
    <2> QED BY <1>2, <2>2, <2>4, <2>5 DEF InsertKnows
  <1>9. ASSUME c.method.op = "delete"
        PROVE  DeleteKnows(p, row)
    <2> SUFFICES ASSUME NEW t \in Tables PROVE Learnt(p, t, Referring(row, t, c.row))
      BY <1>2 DEF DeleteKnows
    <2>1. Learnt(q, t, Referring(row, t, c.row))
      BY <1>9 DEF Known, DeleteKnows
    <2>2. t = look => p.blind \/ Referring(row, t, c.row) = {}
      BY <1>5, <1>6, <1>9
    <2> QED BY <1>7, <2>1, <2>2
  <1>10. ASSUME c.method.op = "update"
         PROVE  UpdateKnows(p, row)
    <2> DEFINE old == row[c.row]  w == Sought(c, old)
    <2>1. /\ q.seen = None \/ c.row \in q.news \/ q.seen = old
          /\ c.method.table \in Named =>
               /\ q.seen = None => q.todo = c.method.looks
               /\ \/ "name" \in Coming(q) \/ q.blind \/ c.row \in q.news \/ w.name = old.name
                  \/ c.row \in NameHits(row, c, w) \/ NameHits(row, c, w) \subseteq q.news
      BY <1>10 DEF Known, UpdateKnows
    <2>2. p.seen = None \/ c.row \in p.news \/ p.seen = old
      BY <1>2, <2>1
    <2>3. ASSUME c.method.table \in Named, p.seen = None
          PROVE  FALSE
      <3>1. look # "row"
        BY <1>0, <1>2, <1>6, <2>3, RowThere, RowsArePresent
      <3>2. q.todo = c.method.looks
        BY <1>2, <2>1, <2>3, <3>1
      <3> QED BY <1>0, <1>10, <2>3, <3>1, <3>2, UpdatesLook
    <2>4. ASSUME c.method.table \in Named
          PROVE  \/ "name" \in Coming(p) \/ p.blind \/ c.row \in p.news \/ w.name = old.name
                 \/ c.row \in NameHits(row, c, w) \/ NameHits(row, c, w) \subseteq p.news
      <3>1. CASE look # "name" \/ c.row \in q.news
        BY <1>2, <1>3, <1>4, <2>1, <2>4, <3>1
      <3>2. CASE look = "name" /\ c.row \notin q.news
        <4>1. q.seen = old /\ q.seen # None
          BY <1>2, <2>1, <2>3, <2>4, <3>2
        <4>2. LookedUp(q, v) = w /\ v.name = w.name
          BY <4>1 DEF LookedUp, Sought, Asked
        <4> HIDE DEF v, w, old
        <4>3. w.name = old.name \/ Fitting(q, look) = NameHits(row, c, w)
          BY <1>6, <3>2, <4>1, <4>2
        <4>4. CASE x = None
          BY <1>5, <4>3, <4>4
        <4>5. CASE x # None
          BY <1>6, <3>2, <4>3, <4>5
        <4> QED BY <4>4, <4>5
      <3> QED BY <3>1, <3>2
    <2> HIDE DEF w, old
    <2>5. UpdateKnows(p, row) <=>
            /\ p.seen = None \/ c.row \in p.news \/ p.seen = old
            /\ c.method.table \in Named =>
                 /\ p.seen = None => p.todo = c.method.looks
                 /\ \/ "name" \in Coming(p) \/ p.blind \/ c.row \in p.news \/ w.name = old.name
                    \/ c.row \in NameHits(row, c, w) \/ NameHits(row, c, w) \subseteq p.news
      BY <1>2 DEF UpdateKnows, w, old
    <2> QED BY <2>2, <2>3, <2>4, <2>5
  <1> QED BY <1>2, <1>8, <1>9, <1>10 DEF Known

-----------------------------------------------------------------------------
(* The invariant is kept.  A step that changes no row changes at most one  *)
(* request, or ends it.                                                    *)
LEMMA QuietStep ==
  ASSUME RInv, TypeOK', UNCHANGED <<scene, row>>, NEW r \in Requests,
         \A s \in Requests : req'[s] # None => s = r \/ req'[s] = req[s],
         req'[r] # None =>
           /\ Known(req'[r], row)
           /\ req'[r].call.method.op = "insert" <=> row[req'[r].call.row] = Unborn
           /\ req[r] = None /\ req'[r].call.method.op = "insert" =>
                \A s \in Requests \ {r} : Goes(s) => req[s].call.row # req'[r].call.row
           /\ req[r] # None => req'[r].call = req[r].call
  PROVE  RInv'
  <1>1. ASSUME NEW s \in Requests, req'[s] # None
        PROVE  Known(req'[s], row')
    BY <1>1 DEF RInv, Goes
  <1>2. ASSUME NEW s \in Requests, req'[s] # None
        PROVE  /\ req'[s].call.method.op = "insert" <=> row'[req'[s].call.row] = Unborn
               /\ req'[s].call.method.op = "insert" =>
                    \A z \in Requests \ {s} : req'[z] # None => req'[z].call.row # req'[s].call.row
    BY <1>2 DEF RInv, Apart, Goes
  <1>3. Apart'
    BY <1>2 DEF Apart, Goes
  <1>4. \A s \in Requests : Goes(s)' => Known(req[s], row)'
    BY <1>1 DEF Goes
  <1> QED BY <1>3, <1>4 DEF RInv

LEMMA FinishInv ==
  ASSUME RInv, NEW r \in Requests, Finish(r), UNCHANGED <<scene, row>>
  PROVE  RInv'
  <1>1. TypeOK' /\ \A s \in Requests : req'[s] # None => s # r /\ req'[s] = req[s]
    BY FinishTyped DEF RInv
  <1> QED BY <1>1, QuietStep

LEMMA StartInv ==
  ASSUME RInv, NEW r \in Requests, NEW c \in CallsOf[scene], Start(r, c)
  PROVE  RInv'
  <1> DEFINE q == [call |-> c, todo |-> c.method.looks, seen |-> None,
                   blind |-> FALSE, news |-> {}]
  <1>1. TypeOK /\ c.method \in Methods
    BY Scene DEF RInv, Legal
  <1>2. TypeOK' /\ req'[r] = q /\ \A s \in Requests : s # r => req'[s] = req[s]
    BY <1>1, StartTyped
  <1>3. UNCHANGED <<scene, row>> /\ req[r] = None
    BY DEF Start, Goes
  <1>4. Coming(q) = LooksOf(c.method)
    BY DEF Coming, LooksOf
  <1>5. \A look, h : Learnt(q, look, h)
    BY <1>4 DEF Learnt
  <1>6. c.method.op = "insert" => InsertKnows(q, row)
    BY <1>1, <1>4, <1>5, InsertionsLook DEF InsertKnows
  <1>7. DeleteKnows(q, row)
    BY <1>5 DEF DeleteKnows
  <1>8. c.method.op = "update" => UpdateKnows(q, row)
    BY <1>1, <1>4, UpdatesLook DEF UpdateKnows
  <1>9. Known(q, row) /\ q.call = c
    BY <1>6, <1>7, <1>8 DEF Known
  <1>10. /\ c.method.op = "insert" <=> row[c.row] = Unborn
         /\ c.method.op = "insert" =>
              \A s \in Requests \ {r} : Goes(s) => req[s].call.row # c.row
    BY DEF Start
  <1> QED BY <1>2, <1>3, <1>9, <1>10, QuietStep

LEMMA LookInv ==
  ASSUME RInv, NEW r \in Requests, Look(r)
  PROVE  RInv'
  <1>1. /\ TypeOK' /\ \A s \in Requests : s # r => req'[s] = req[s]
        /\ req'[r] # None => Looked(req[r], req'[r], Head(req[r].todo))
    BY LookTyped DEF RInv
  <1>2. Goes(r) /\ UNCHANGED <<scene, row>>
    BY DEF Look
  <1>3. ASSUME req'[r] # None
        PROVE  Known(req'[r], row) /\ req'[r].call = req[r].call
    <2>1. Known(req[r], row) /\ TypeOK
      BY <1>2 DEF RInv
    <2> QED BY <1>1, <1>2, <1>3, <2>1, LookLearns DEF Looked
  <1>4. req[r].call.method.op = "insert" <=> row[req[r].call.row] = Unborn
    BY <1>2 DEF RInv, Apart
  <1> QED BY <1>1, <1>2, <1>3, <1>4, QuietStep DEF Goes

(* A write ends its request, makes no row unborn, and makes of an unborn   *)
(* row only its own.                                                       *)
LEMMA WriteInv ==
  ASSUME RInv, TypeOK', NEW r \in Requests, NEW new, Done(r, new), Goes(r),
         \A x \in Ids : row[x] = Unborn => row'[x] = Unborn \/ x = req[r].call.row,
         \A x \in Ids : row'[x] = Unborn => row[x] = Unborn,
         row[req[r].call.row] = Unborn => req[r].call.method.op = "insert"
  PROVE  RInv'
  <1>1. TypeOK /\ DOMAIN row = Ids
    BY DEF RInv, TypeOK
  <1>2. /\ Ids' = Ids /\ row' = new
        /\ \A s \in Requests : req'[s] # None =>
              /\ s # r /\ req[s] # None
              /\ req'[s].call = req[s].call /\ req'[s].todo = req[s].todo
              /\ req'[s].seen = req[s].seen /\ req'[s].blind = req[s].blind
              /\ req'[s].news = req[s].news \cup {x \in Ids : row'[x] # row[x]}
    BY <1>1, Others
  <1>3. DOMAIN row' = Ids
    BY <1>2 DEF TypeOK
  <1>4. ASSUME NEW s \in Requests, req'[s] # None
        PROVE  Known(req'[s], row')
    <2>1. req[s].call.row \in Ids /\ Known(req[s], row)
      BY <1>1, <1>2, <1>4, CallLegal DEF RInv, Goes
    <2> QED BY <1>1, <1>2, <1>3, <1>4, <2>1, OthersLearn
  <1>5. ASSUME NEW s \in Requests, req'[s] # None
        PROVE  /\ req'[s].call.method.op = "insert" <=> row'[req'[s].call.row] = Unborn
               /\ req'[s].call.method.op = "insert" =>
                    \A z \in Requests \ {s} : req'[z] # None => req'[z].call.row # req'[s].call.row
    <2>1. /\ s # r /\ Goes(s) /\ req'[s].call = req[s].call /\ req[s].call.row \in Ids
          /\ \A z \in Requests : req'[z] # None => Goes(z) /\ req'[z].call = req[z].call
      BY <1>1, <1>2, <1>5, CallLegal DEF Goes
    <2>2. /\ req[s].call.method.op = "insert" <=> row[req[s].call.row] = Unborn
          /\ req[s].call.method.op = "insert" =>
               \A z \in Requests \ {s} : Goes(z) => req[z].call.row # req[s].call.row
      BY <2>1 DEF RInv, Apart
    <2> QED BY <2>1, <2>2
  <1>6. Apart'
    BY <1>5 DEF Apart, Goes
  <1>7. \A s \in Requests : Goes(s)' => Known(req[s], row)'
    BY <1>4 DEF Goes
  <1> QED BY <1>6, <1>7 DEF RInv

LEMMA InsertInv ==
  ASSUME RInv, NEW r \in Requests, Insert(r)
  PROVE  RInv'
  <1> DEFINE c == req[r].call
  <1>1. TypeOK /\ Goes(r) /\ c.method.op = "insert"
    BY DEF RInv, Insert, Ready
  <1>2. PICK new : Done(r, new)
    BY DEF Insert
  <1>3. /\ TypeOK' /\ row'[c.row] = Made(c)
        /\ \A x \in Ids \ {c.row} :
              /\ row'[x] # row[x] => TableOf[x] = "user" /\ Present(x) /\ Remains(x)
              /\ row'[x] = row[x] => Remains(x) = Present(x)
    BY <1>1, InsertTyped
  <1>4. Made(c) # Unborn
    BY <1>1, MadeIsRow, RowsArePresent, CallLegal, Scene
  <1> QED BY <1>1, <1>2, <1>3, <1>4, WriteInv DEF Present, Remains

LEMMA UpdateInv ==
  ASSUME RInv, NEW r \in Requests, Update(r)
  PROVE  RInv'
  <1> DEFINE c == req[r].call
  <1>1. TypeOK /\ Goes(r)
    BY DEF RInv, Update, Ready
  <1>2. PICK new : Done(r, new)
    BY DEF Update
  <1>3. /\ TypeOK' /\ Present(c.row) /\ Remains(c.row)
        /\ \A x \in Ids \ {c.row} : row'[x] = row[x]
    BY <1>1, UpdateTyped
  <1> QED BY <1>1, <1>2, <1>3, WriteInv DEF Present, Remains

LEMMA DeleteInv ==
  ASSUME RInv, NEW r \in Requests, Delete(r)
  PROVE  RInv'
  <1> DEFINE c == req[r].call  D == Doomed(c.row)
  <1>1. TypeOK /\ Goes(r)
    BY DEF RInv, Delete, Ready
  <1>2. PICK new : Done(r, new)
    BY DEF Delete
  <1>3. /\ TypeOK' /\ Present(c.row)
        /\ \A x \in Ids : ~Present(x) => row'[x] = row[x]
        /\ \A x \in D : x \in Ids /\ row'[x] = Gone
        /\ \A x \in Ids \ D : Present(x) => Remains(x)
    BY <1>1, DeleteTyped
  <1> HIDE DEF D
  <1>4. Unborn # Gone
    BY RecordsAssumption
  <1>5. \A x \in Ids : row'[x] = Unborn => row[x] = Unborn
    BY <1>3, <1>4 DEF Present, Remains
  <1>6. \A x \in Ids : row[x] = Unborn => row'[x] = Unborn
    BY <1>3 DEF Present
  <1> QED BY <1>1, <1>2, <1>3, <1>5, <1>6, WriteInv DEF Present

LEMMA InitInv == Init => RInv
  BY InitTyped DEF Init, RInv, Apart, Goes

LEMMA NextInv == RInv /\ [Next]_vars => RInv'
  <1> SUFFICES ASSUME RInv, [Next]_vars PROVE RInv'
    OBVIOUS
  <1>1. CASE UNCHANGED vars
    <2>1. TypeOK'
      BY <1>1, NextTyped DEF RInv
    <2>2. scene' = scene /\ row' = row /\ req' = req
      BY <1>1 DEF vars
    <2>3. Apart' /\ \A r \in Requests : Goes(r)' => Known(req[r], row)'
      BY <2>2 DEF RInv, Apart, Goes
    <2> QED BY <2>1, <2>3 DEF RInv
  <1>2. ASSUME NEW r \in Requests, Refused(r) \/ Fail(r)
        PROVE  RInv'
    BY <1>2, FinishInv DEF Refused, Fail
  <1> QED BY <1>1, <1>2, StartInv, LookInv, InsertInv, UpdateInv, DeleteInv DEF Next

-----------------------------------------------------------------------------
(* What goes with a row: the tables it may be of, and the way up to it.    *)
LEMMA Cascading ==
  ASSUME TypeOK, NEW z \in Ids, NEW y \in Ids, Cascades(z, y)
  PROVE  /\ TableOf[z] \notin {"factory", "user", "role", "permission", "department",
                               "bag", "process", "form", "entry"}
         /\ TableOf[z] = "line" => TableOf[y] = "factory"
         /\ TableOf[z] = "team" => TableOf[y] = "line"
         /\ TableOf[z] = "group" => TableOf[y] = "team"
         /\ TableOf[z] = "color" => TableOf[y] = "bag"
  <1>1. PICK t \in Above(z) : Refers(z, t, y) /\ Refs[TableOf[z]][t] = "cascade"
    BY DEF Cascades
  <1>2. TableOf[y] = t
    <2>1. None \notin Rows /\ y \in Rows
      BY Scene, RecordsAssumption
    <2> QED BY <1>1, <2>1, RowThere DEF Refers
  <1>3. TableOf[z] \in Tables /\ t \in DOMAIN Refs[TableOf[z]]
    BY <1>1, Scene DEF Above
  <1> QED BY <1>1, <1>2, <1>3 DEF Tables, Refs, Plain, UserRefs, AssignmentRefs, GrantRefs,
       DepartmentRefs, MembershipRefs, LineRefs, TeamRefs, GroupRefs, RateRefs, ColorRefs,
       ColorProcessRefs, EntryRefs, FormRefs

LEMMA DoomedTables ==
  ASSUME TypeOK, NEW x \in Ids, Present(x), NEW z \in Doomed(x), z # x
  PROVE  /\ TableOf[z] \notin {"factory", "user", "role", "permission", "department",
                               "bag", "process", "form", "entry"}
         /\ TableOf[z] = "line" => TableOf[x] = "factory"
         /\ TableOf[z] = "team" => TableOf[x] \in {"factory", "line"}
         /\ TableOf[z] = "group" => TableOf[x] \in {"factory", "line", "team"}
         /\ TableOf[z] = "color" => TableOf[x] = "bag"
  <1> DEFINE Up(a, b) ==
        /\ a \in Doomed(x) /\ b \in Doomed(x)
        /\ TableOf[a] \notin {"factory", "user", "role", "permission", "department",
                              "bag", "process", "form", "entry"}
        /\ TableOf[a] = "line" => TableOf[b] = "factory"
        /\ TableOf[a] = "team" => TableOf[b] = "line"
        /\ TableOf[a] = "group" => TableOf[b] = "team"
        /\ TableOf[a] = "color" => TableOf[b] = "bag"
  <1>1. ASSUME NEW a \in Doomed(x), a # x
        PROVE  \E b \in Doomed(x) : Up(a, b)
    <2>1. PICK b \in Doomed(x) : a \in Ids /\ b \in Ids /\ Cascades(a, b)
      BY <1>1, DoomedRows
    <2> QED BY <2>1, Cascading
  <1> HIDE DEF Up
  <1>2. \A a \in Doomed(x) : a # x /\ TableOf[a] = "line" => TableOf[x] = "factory"
    BY <1>1 DEF Up
  <1>3. \A a \in Doomed(x) : a # x /\ TableOf[a] = "team" => TableOf[x] \in {"factory", "line"}
    BY <1>1, <1>2 DEF Up
  <1>4. \A a \in Doomed(x) : a # x /\ TableOf[a] = "group" => TableOf[x] \in {"factory", "line", "team"}
    BY <1>1, <1>3 DEF Up
  <1>5. \A a \in Doomed(x) : a # x /\ TableOf[a] = "color" => TableOf[x] = "bag"
    BY <1>1 DEF Up
  <1> QED BY <1>1, <1>2, <1>3, <1>4, <1>5 DEF Up

(* A row that a deletion changes refers into what is deleted.              *)
LEMMA ChangedRefers ==
  ASSUME TypeOK, NEW r \in Requests, Delete(r), NEW y \in Ids, Present(y),
         y # req[r].call.row, row'[y] # row[y]
  PROVE  \E k \in Above(y) : /\ row[y].up[k] \in Doomed(req[r].call.row)
                             /\ row[y].up[k] \in Ids /\ TableOf[row[y].up[k]] = k
  <1> DEFINE x == req[r].call.row
  <1>1. x \in Ids /\ Present(x) /\ None \notin Ids /\ y \in Rows
    BY CallLegal, DeleteTyped, Scene, RecordsAssumption DEF Delete, Ready
  <1>2. \E k \in Above(y) : row[y].up[k] \in Doomed(x)
    <2>1. CASE y \in Doomed(x)
      BY <1>1, <2>1, DoomedRows DEF Cascades, Refers
    <2>2. CASE y \notin Doomed(x)
      BY <2>2, DeleteTyped
    <2> QED BY <2>1, <2>2
  <1>3. Doomed(x) \subseteq Ids
    BY <1>1, DoomedRows
  <1> QED BY <1>1, <1>2, <1>3, RowThere

(* The request whose write changes a row is the one that ends.             *)
LEMMA WhoWrites ==
  ASSUME RInv, [Next]_vars
  PROVE  \/ UNCHANGED row
         \/ \E r \in Requests :
              /\ Goes(r) /\ req'[r] = None /\ (Insert(r) \/ Update(r) \/ Delete(r))
              /\ \A s \in Requests : Goes(s) /\ req'[s] = None => s = r
  <1>1. ASSUME NEW r \in Requests, Insert(r) \/ Update(r) \/ Delete(r)
        PROVE  /\ Goes(r) /\ req'[r] = None
               /\ \A s \in Requests : Goes(s) /\ req'[s] = None => s = r
    <2>1. Goes(r) /\ \E new : Done(r, new)
      BY <1>1 DEF Insert, Update, Delete, Ready
    <2> QED BY <2>1, Others DEF RInv
  <1> QED BY <1>1 DEF Next, vars, Start, Look, Refused, Fail

(* When a request writes, it has nothing more to look at.                  *)
LEMMA AllLookedAt ==
  ASSUME RInv, NEW r \in Requests, Goes(r), req[r].todo = <<>>
  PROVE  /\ TypeOK /\ Known(req[r], row) /\ Coming(req[r]) = {}
         /\ req[r].call.method \in Methods /\ req[r].call.row \in Ids
         /\ TableOf[req[r].call.row] = req[r].call.method.table /\ DOMAIN row = Ids
  <1>1. TypeOK /\ Known(req[r], row) /\ DOMAIN row = Ids
    BY DEF RInv, TypeOK
  <1>2. Coming(req[r]) = {}
    BY DEF Coming
  <1> QED BY <1>1, <1>2, CallLegal DEF Legal

LEMMA TakesNews == RInv /\ [Next]_vars => TakesOnlyNews
  <1> SUFFICES ASSUME RInv, [Next]_vars, NEW r \in Requests, NEW y \in Ids,
                      Ready(r, "delete"), req'[r] = None,
                      Present(y), y # req[r].call.row, row'[y] # row[y],
                      <<req[r].call.method.table, TableOf[y]>> \in Kept
               PROVE  y \in req[r].news \/ req[r].blind
    BY DEF TakesOnlyNews
  <1> DEFINE q == req[r]  x == q.call.row
  <1>1. Goes(r) /\ q.todo = <<>> /\ q.call.method.op = "delete"
    BY DEF Ready
  <1>2. Delete(r)
    BY <1>1, WhoWrites DEF Insert, Update, Ready
  <1>3. /\ TypeOK /\ Known(q, row) /\ Coming(q) = {} /\ DOMAIN row = Ids
        /\ q.call.method \in Methods /\ x \in Ids /\ TableOf[x] = q.call.method.table
    BY <1>1, AllLookedAt
  <1>4. Present(x)
    BY <1>2 DEF Delete
  <1>5. PICK k \in Above(y) : row[y].up[k] \in Doomed(x) /\ row[y].up[k] \in Ids /\ TableOf[row[y].up[k]] = k
    BY <1>2, <1>3, ChangedRefers
  <1> DEFINE z == row[y].up[k]
  <1>6. TableOf[y] \in Tables /\ k \in DOMAIN Refs[TableOf[y]]
    BY <1>3, Scene DEF Above
  <1>7. z = x
    <2> SUFFICES ASSUME z # x PROVE FALSE
      OBVIOUS
    <2>1. /\ TableOf[z] \notin {"factory", "user", "role", "permission", "department",
                                "bag", "process", "form", "entry"}
          /\ TableOf[z] = "line" => TableOf[x] = "factory"
          /\ TableOf[z] = "team" => TableOf[x] \in {"factory", "line"}
          /\ TableOf[z] = "group" => TableOf[x] \in {"factory", "line", "team"}
          /\ TableOf[z] = "color" => TableOf[x] = "bag"
      BY <1>3, <1>4, <1>5, DoomedTables
    <2>2. TableOf[z] = k
      BY <1>5
    <2> HIDE DEF z, x
    <2>3. <<TableOf[x], TableOf[y]>> \in Kept
      BY <1>3 DEF x
    <2> QED BY <1>6, <2>1, <2>2, <2>3 DEF Kept, Refs, UserRefs, AssignmentRefs, GrantRefs,
         DepartmentRefs, MembershipRefs, LineRefs, TeamRefs, GroupRefs, RateRefs, ColorProcessRefs
  <1>8. y \in Referring(row, TableOf[y], x)
    BY <1>3, <1>5, <1>7 DEF Referring, InTable, Present
  <1>9. TableOf[y] \in LooksOf(q.call.method)
    BY <1>1, <1>3, DeletionsLook
  <1>10. Learnt(q, TableOf[y], Referring(row, TableOf[y], x))
    BY <1>1, <1>3, <1>6 DEF Known, DeleteKnows
  <1> QED BY <1>3, <1>8, <1>9, <1>10 DEF Learnt

(* A deletion takes along, or takes out of its unit, only rows that came   *)
(* or changed after its request began, or that a failed look has hidden.   *)
THEOREM DeletionsTakeNews == Spec => DeletionTakesOnlyNews
  <1>1. RInv /\ [Next]_vars => [TakesOnlyNews]_vars
    BY TakesNews
  <1> QED BY <1>1, InitInv, NextInv, PTL DEF Spec, DeletionTakesOnlyNews

-----------------------------------------------------------------------------
(* No method changes or deletes forms or entries.                          *)
LEMMA MethodsOfWork ==
  ASSUME NEW m \in Methods, m.table \in {"form", "entry"}
  PROVE  m.op = "insert"
  <1>1. m \notin Updating
    BY DEF Updating, Updates,
       UpdateFactory, UpdateLine, UpdateTeam, UpdateGroup, AddUsersToGroup, UpdateUser,
       UpdateRole, UpdatePermission, UpdateDepartment, UpdateUserDepartment,
       UpdateHandBag, UpdateBagColor, UpdateBagColorProcess, UpdateBagProcess
  <1>2. m \notin Deleting
    BY DEF Deleting, Deletes,
       DeleteFactory, DeleteLine, DeleteTeam, DeleteGroup, DeleteUser, RemoveRole, DeleteRole,
       DeletePermission, RemovePermissionsFromRole, DeleteDepartment, RemoveUserFromDepartment,
       DeleteHandBag, DeleteBagColor, DeleteBagColorProcess, DeleteBagProcess
  <1> QED BY <1>1, <1>2, MethodsByOp

LEMMA WorkIsKept == RInv /\ [Next]_vars => WorkStays
  <1> SUFFICES ASSUME RInv, [Next]_vars, NEW y \in Ids, Present(y), TableOf[y] \in {"form", "entry"},
                      row'[y] # row[y]
               PROVE  FALSE
    BY DEF WorkStays
  <1>1. PICK r \in Requests : Goes(r) /\ (Insert(r) \/ Update(r) \/ Delete(r))
    BY WhoWrites
  <1> DEFINE c == req[r].call
  <1>2. req[r].todo = <<>>
    BY <1>1 DEF Insert, Update, Delete, Ready
  <1>3. TypeOK /\ c.method \in Methods /\ c.row \in Ids /\ TableOf[c.row] = c.method.table
    BY <1>1, <1>2, AllLookedAt
  <1>4. CASE Insert(r)
    <2>1. row[c.row] = Unborn
      BY <1>1, <1>4 DEF Insert, Ready, RInv, Apart
    <2>2. y # c.row
      BY <2>1 DEF Present
    <2> QED BY <1>3, <1>4, <2>2, InsertTyped
  <1>5. CASE Update(r)
    <2>1. y = c.row
      BY <1>3, <1>5, UpdateTyped
    <2> QED BY <1>3, <1>5, <2>1, MethodsOfWork DEF Update, Ready
  <1>6. CASE Delete(r)
    <2>1. y # c.row
      BY <1>3, <1>6, MethodsOfWork DEF Delete, Ready
    <2>2. PICK k \in Above(y) : row[y].up[k] \in Doomed(c.row) /\ row[y].up[k] \in Ids
      BY <1>3, <1>6, <2>1, ChangedRefers
    <2>3. Refs[TableOf[y]][k] = "restrict"
      BY <2>2 DEF Above, Refs, FormRefs, EntryRefs
    <2>4. Blocked(Doomed(c.row))
      BY <2>2, <2>3 DEF Blocked, Refers
    <2> QED BY <1>6, <2>4 DEF Delete
  <1> QED BY <1>1, <1>4, <1>5, <1>6

(* No method on master data changes or deletes what was recorded with it.  *)
THEOREM WorkIsSafe == Spec => RecordedWorkStays
  <1>1. RInv /\ [Next]_vars => [WorkStays]_vars
    BY WorkIsKept
  <1> QED BY <1>1, InitInv, NextInv, PTL DEF Spec, RecordedWorkStays

-----------------------------------------------------------------------------
(* Rows that come to be the same.                                          *)
LEMMA AsksForIt ==
  ASSUME NEW t \in Named, NEW n, NEW m
  PROVE  /\ Asks(t, n, n)
         /\ Asks(t, n, m) /\ n # m => t \in Loose /\ <<n, m>> \in Within
  BY DEF Named, Loose, Asks, FactoryAsks, DepartmentAsks, LineAsks, TeamAsks, GroupAsks,
         BagAsks, ProcessAsks

LEMMA SameRefs ==
  /\ \A t \in {"factory", "department", "bag", "process"} : NameRefs(t) = {}
  /\ KeyRefs("assignment") = {"user", "role"} /\ KeyRefs("membership") = {"user", "department"}
  /\ \A t \in Named : NameRefs(t) \subseteq DOMAIN Refs[t]
                      /\ \A k \in NameRefs(t) : Refs[t][k] = "cascade"
  /\ \A t \in {"assignment", "membership"} : KeyRefs(t) \subseteq DOMAIN Refs[t]
                      /\ \A k \in KeyRefs(t) : Refs[t][k] = "cascade"
  BY DEF NameRefs, KeyRefs, Named, Refs, LineRefs, TeamRefs, GroupRefs, AssignmentRefs, MembershipRefs

LEMMA InsertDoubles ==
  ASSUME RInv, NEW r \in Requests, Insert(r), NEW x \in Ids, NEW y \in Ids, Doubles(x, y)
  PROVE  x = req[r].call.row /\ (y \in req[r].news \/ req[r].blind)
  <1> DEFINE q == req[r]  c == q.call
  <1>1. Goes(r) /\ q.todo = <<>> /\ c.method.op = "insert"
    BY DEF Insert, Ready
  <1>2. /\ TypeOK /\ Known(q, row) /\ Coming(q) = {} /\ DOMAIN row = Ids
        /\ c.method \in Methods /\ c.row \in Ids /\ TableOf[c.row] = c.method.table
    BY <1>1, AllLookedAt
  <1>3. /\ row'[x] # row[x] /\ Remains(x) /\ Remains(y)
        /\ x # y /\ TableOf[x] = TableOf[y] /\ Same(x, y, row'[x], row'[y])
    BY DEF Doubles, Present, Remains
  <1>4. TableOf[x] # "user"
    BY <1>3 DEF Same, Named
  <1>5. x = c.row /\ row'[x] = Made(c) /\ row'[y] = row[y] /\ Present(y)
    BY <1>2, <1>3, <1>4, InsertTyped
  <1>6. InsertKnows(q, row)
    BY <1>1, <1>2 DEF Known
  <1> DEFINE t == c.method.table  v == Made(c)
  <1>7. t = TableOf[y] /\ Same(x, y, v, row[y]) /\ TableOf[x] = t
    BY <1>2, <1>3, <1>5
  <1> HIDE DEF v, t
  <1>8. CASE t \in Named /\ v.name = row[y].name /\ SameUnit(t, v, row[y])
    <2>1. y \in NameHits(row, c, v)
      BY <1>2, <1>5, <1>7, <1>8, AsksForIt DEF NameHits, InTable, Present, SameUnit, t
    <2>2. Learnt(q, "name", NameHits(row, c, v)) /\ "name" \in LooksOf(c.method)
      BY <1>1, <1>2, <1>6, <1>8, InsertionsLook DEF InsertKnows, v, t
    <2> QED BY <1>2, <1>5, <2>1, <2>2 DEF Learnt
  <1>9. CASE t \in {"assignment", "membership"} /\ SameKey(t, v, row[y])
    <2>1. y \in KeyHits(row, c, v)
      BY <1>2, <1>5, <1>7, <1>9 DEF KeyHits, InTable, Present, SameKey, t
    <2>2. Learnt(q, "key", KeyHits(row, c, v)) /\ "key" \in LooksOf(c.method)
      BY <1>1, <1>2, <1>6, <1>9, InsertionsLook DEF InsertKnows, v, t
    <2> QED BY <1>2, <1>5, <2>1, <2>2 DEF Learnt
  <1> QED BY <1>7, <1>8, <1>9 DEF Same

LEMMA UpdateDoubles ==
  ASSUME RInv, NEW r \in Requests, Update(r), NEW x \in Ids, NEW y \in Ids, Doubles(x, y)
  PROVE  LET q == req[r] IN
         /\ x = q.call.row
         /\ \/ {x, y} \cap q.news # {} \/ q.blind
            \/ TableOf[x] \in Loose /\ <<q.call.name, row[x].name>> \in Within
            \/ q.call.method = UpdateGroup /\ q.call.name \in {None, row[x].name}
            \/ q.call.method \in Staying /\ row'[x].up # row[x].up
  <1> DEFINE q == req[r]  c == q.call  t == c.method.table
             old == row[x]  v == Asked(c, old)  w == row[y]  s == Sought(c, old)
  <1>1. Goes(r) /\ q.todo = <<>> /\ c.method.op = "update"
    BY DEF Update, Ready
  <1>2. /\ TypeOK /\ Known(q, row) /\ Coming(q) = {} /\ DOMAIN row = Ids
        /\ c.method \in Methods /\ c.row \in Ids /\ TableOf[c.row] = t
    BY <1>1, AllLookedAt
  <1>3. /\ row'[x] # row[x] /\ Remains(x) /\ Remains(y)
        /\ x # y /\ TableOf[x] = TableOf[y] /\ Same(x, y, row'[x], row'[y])
        /\ ~(Present(x) /\ Present(y) /\ Same(x, y, row[x], row[y]))
    BY DEF Doubles, Present, Remains
  <1>4. x = c.row /\ row'[x] = v /\ row'[y] = w /\ Present(x) /\ Present(y)
    BY <1>2, <1>3, UpdateTyped
  <1>5. /\ Same(x, y, v, w) /\ ~Same(x, y, old, w) /\ TableOf[x] = t /\ TableOf[y] = t
    BY <1>2, <1>3, <1>4
  <1>6. /\ DOMAIN c.up \subseteq c.method.moves /\ (c.code # None => "code" \in c.method.moves)
    BY <1>1, <1>2, CallLegal DEF Legal
  <1>7. /\ v.code = (IF c.code = None THEN old.code ELSE c.code)
        /\ v.name = (IF c.name = None THEN old.name ELSE c.name)
        /\ \A k \in Above(x) : k \notin c.method.moves => v.up[k] = old.up[k]
    <2>1. DOMAIN old.up = Above(x)
      BY <1>2, <1>4, RowThere
    <2> QED BY <1>6, <2>1 DEF Asked
  <1>8. UpdateKnows(q, row)
    BY <1>1, <1>2 DEF Known
  <1>9. t \in Named =>
             /\ q.seen = None => q.todo = c.method.looks
             /\ \/ "name" \in Coming(q) \/ q.blind \/ x \in q.news \/ s.name = old.name
                \/ x \in NameHits(row, c, s) \/ NameHits(row, c, s) \subseteq q.news
    BY <1>4, <1>8 DEF UpdateKnows
  <1>9a. c.method \notin Staying \/ v.up = old.up => s = v
    BY DEF Sought, Asked
  <1> HIDE DEF v, old, w, t, s
  <1>9b. CASE c.method \in Staying /\ v.up # old.up
    BY <1>4, <1>9b DEF old
  <1>10. CASE t \in Named /\ v.name = w.name /\ SameUnit(t, v, w) /\ s = v
    <2>1. y \in NameHits(row, c, v)
      BY <1>2, <1>4, <1>5, <1>10, AsksForIt DEF NameHits, InTable, Present, SameUnit, t, w
    <2>2. CASE v.name = old.name
      <3>1. PICK k \in NameRefs(t) : v.up[k] # old.up[k]
        BY <1>5, <1>10, <2>2 DEF Same, SameUnit
      <3>2. k \in Above(x) /\ t \in {"line", "team", "group"}
        BY <1>5, <1>10, <3>1, SameRefs DEF Above, NameRefs
      <3>3. c.method = UpdateGroup \/ c.method \in Staying
        BY <1>1, <1>2, <3>2, UpdatesLook DEF t
      <3> QED BY <1>4, <1>7, <2>2, <3>1, <3>3 DEF old
    <2>3. CASE v.name # old.name /\ x \in NameHits(row, c, v)
      <3>1. Asks(t, v.name, old.name)
        BY <2>3 DEF NameHits, t, old
      <3>2. t \in Loose /\ <<v.name, old.name>> \in Within
        BY <1>10, <2>3, <3>1, AsksForIt
      <3>3. v.name = c.name
        BY <1>7, <2>3
      <3> QED BY <1>4, <1>5, <3>2, <3>3 DEF old
    <2> QED BY <1>2, <1>4, <1>9, <1>10, <2>1, <2>2, <2>3
  <1>11. CASE t \in {"assignment", "membership"} /\ SameKey(t, v, w)
    <2>1. t = "membership" /\ c.method.moves = {"role"}
      BY <1>1, <1>2, <1>11, UpdatesLook DEF t
    <2>2. v.code = old.code /\ v.up["user"] = old.up["user"] /\ v.up["department"] = old.up["department"]
      BY <1>5, <1>6, <1>7, <2>1 DEF Above, Refs, MembershipRefs
    <2>3. SameKey(t, old, w)
      BY <1>11, <2>1, <2>2, SameRefs DEF SameKey
    <2> QED BY <1>5, <2>1, <2>3 DEF Same
  <1> QED BY <1>5, <1>9a, <1>9b, <1>10, <1>11 DEF Same

LEMMA DeleteDoubles ==
  ASSUME RInv, NEW r \in Requests, Delete(r), NEW x \in Ids, NEW y \in Ids, Doubles(x, y)
  PROVE  FALSE
  <1> DEFINE D == Doomed(req[r].call.row)
  <1>1. TypeOK
    BY DEF RInv
  <1>2. /\ Remains(x) /\ Remains(y) /\ TableOf[x] = TableOf[y] /\ Same(x, y, row'[x], row'[y])
        /\ ~(Present(x) /\ Present(y) /\ Same(x, y, row[x], row[y]))
    BY DEF Doubles, Present, Remains
  <1>3. ASSUME NEW z \in Ids, Remains(z)
        PROVE  /\ Present(z) /\ row'[z].code = row[z].code /\ row'[z].name = row[z].name
               /\ \A k \in Above(z) : Refs[TableOf[z]][k] = "cascade" => row'[z].up[k] = row[z].up[k]
    <2>1. Present(z) /\ z \notin D /\ req[r].call.row \in Ids /\ Present(req[r].call.row)
      BY <1>1, <1>3, DeleteTyped, CallLegal DEF Remains, Delete, Ready
    <2>2. ASSUME NEW k \in Above(z), Refs[TableOf[z]][k] = "cascade"
          PROVE  row[z].up[k] \notin D
      BY <2>1, <2>2, DoomedRows DEF Closed, Cascades, Refers
    <2> QED BY <1>1, <2>1, <2>2, DeleteTyped
  <1>4. Present(x) /\ Present(y)
    BY <1>2, <1>3
  <1> DEFINE t == TableOf[x]
  <1>5. t = TableOf[y]
    BY <1>2
  <1>6. CASE t \in Named /\ row'[x].name = row'[y].name /\ SameUnit(t, row'[x], row'[y])
    BY <1>2, <1>3, <1>4, <1>5, <1>6, SameRefs DEF SameUnit, Above, Same
  <1>7. CASE t \in {"assignment", "membership"} /\ SameKey(t, row'[x], row'[y])
    BY <1>2, <1>3, <1>4, <1>5, <1>7, SameRefs DEF SameKey, Above, Same
  <1> QED BY <1>2, <1>6, <1>7 DEF Same

LEMMA DoublesAreExcused ==
  RInv /\ [Next]_vars => \A x, y \in Ids : Doubles(x, y) => HasReason(x, y)
  <1> SUFFICES ASSUME RInv, [Next]_vars, NEW x \in Ids, NEW y \in Ids, Doubles(x, y)
               PROVE  HasReason(x, y)
    OBVIOUS
  <1>1. row'[x] # row[x]
    BY DEF Doubles
  <1>2. PICK r \in Requests : Goes(r) /\ req'[r] = None /\ (Insert(r) \/ Update(r) \/ Delete(r))
    BY <1>1, WhoWrites
  <1>3. Update(r) => req[r].call.method.op = "update"
    BY DEF Update, Ready
  <1> QED BY <1>2, <1>3, InsertDoubles, UpdateDoubles, DeleteDoubles DEF HasReason

(* Two rows that must differ come to be the same only for the reasons      *)
(* listed: a change while the request was under way, a failed look, an old *)
(* name that contains the new one, a group that moves under its name, or a *)
(* line or a team that moves, whose name is looked up where it was.        *)
THEOREM DoublesAreReasoned == Spec => DoublesHaveReasons
  <1>1. RInv /\ [Next]_vars => [\A x, y \in Ids : Doubles(x, y) => HasReason(x, y)]_vars
    BY DoublesAreExcused
  <1> QED BY <1>1, InitInv, NextInv, PTL DEF Spec, DoublesHaveReasons
=============================================================================
