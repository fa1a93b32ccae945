----------------------------- MODULE Permissions -----------------------------
(***************************************************************************)
(* The answers about roles and permissions kept in Redis                   *)
(* (permission.service.ts, role.service.ts, redis-cache.service.ts), for   *)
(* one permission, one role and one user.  A reader asks Redis, then the   *)
(* database, then stores the answer; a writer changes the database, then   *)
(* looks for the keys of a prefix and deletes those it found.  Every       *)
(* failure of Redis is swallowed.  Of the kinds of answers one is watched. *)
(***************************************************************************)
EXTENDS Naturals, Sequences, SequencesExt

CONSTANTS
  Readers, Writers,   \* slots for requests
  MaxWrites,          \* changes of the database
  Unborn, Gone,
  Missing             \* nothing under the key

VARIABLES
  watched,   \* the kind of answers that is watched
  db,        \* active: of the permission; granted: to the role; role: its version; has: the user, it
  kept,      \* what Redis holds under the watched key
  reader, writer,
  writes

vars == <<watched, db, kept, reader, writer, writes>>

Answers == {"list", "role", "user", "roles"}
There(x) == x \notin {Unborn, Gone}

(* What the database says: the list of permissions, the permissions of the *)
(* role, those of the user, of which only active ones count, and the list  *)
(* of roles.                                                               *)
GetPermissionsByRoles(has) == has /\ db.granted /\ db.active = TRUE
Truth ==
  CASE watched = "list" -> db.active
    [] watched = "role" -> IF db.granted THEN db.active ELSE Gone
    [] watched = "user" -> GetPermissionsByRoles(db.has)
    [] watched = "roles" -> db.role

Values == BOOLEAN \cup {Unborn, Gone}
Entry == [value : Values, excused : BOOLEAN]

TypeOK ==
  /\ watched \in Answers
  /\ db.active \in BOOLEAN \cup {Unborn, Gone} /\ db.granted \in BOOLEAN
  /\ db.role \in BOOLEAN \cup {Unborn, Gone} /\ db.has \in BOOLEAN
  /\ db.granted => There(db.active) /\ There(db.role)
  /\ db.has => There(db.role)
  /\ kept = Missing \/ kept \in Entry
  /\ writes \in 0..MaxWrites

Init ==
  /\ watched \in Answers
  /\ db \in {[active |-> TRUE, granted |-> g, role |-> TRUE, has |-> h] : g, h \in BOOLEAN}
              \cup {[active |-> Unborn, granted |-> FALSE, role |-> Unborn, has |-> FALSE]}
  /\ kept = Missing /\ writes = 0
  /\ reader = [q \in Readers |-> [pc |-> "idle"]]
  /\ writer = [c \in Writers |-> [pc |-> "idle"]]

-----------------------------------------------------------------------------
(* Readers.  listPermissions, getPermissionsByRole and listRoles ask the   *)
(* database once, getUserPermissions first for the roles of the user.      *)
(* (checkUserHasPermission takes the null of a missing key for an answer:  *)
(* it says no without asking, and its keys are never set.)                 *)
(* What is found under a key is answered and changes nothing; a key that   *)
(* is not there, or a Redis that does not answer, is a miss.               *)
GetMiss(q) ==
  /\ reader[q].pc = "idle"
  /\ reader' = [reader EXCEPT ![q] = [pc |-> IF watched = "user" THEN "roles" ELSE "query"]]
  /\ UNCHANGED <<watched, db, kept, writer, writes>>

GetUserRoles(q) ==
  /\ reader[q].pc = "roles"
  /\ reader' = [reader EXCEPT ![q] =
       IF db.has THEN [pc |-> "permissions"] ELSE [pc |-> "set", value |-> FALSE]]
  /\ UNCHANGED <<watched, db, kept, writer, writes>>
GetPermissions(q) ==
  /\ reader[q].pc = "permissions"
  /\ reader' = [reader EXCEPT ![q] = [pc |-> "set", value |-> GetPermissionsByRoles(TRUE)]]
  /\ UNCHANGED <<watched, db, kept, writer, writes>>
Query(q) ==
  /\ reader[q].pc = "query"
  /\ reader' = [reader EXCEPT ![q] = [pc |-> "set", value |-> Truth]]
  /\ UNCHANGED <<watched, db, kept, writer, writes>>

(* The answer is stored, or Redis fails.  An answer already out of date    *)
(* when it is stored is excused.                                           *)
Set(q) ==
  /\ reader[q].pc = "set"
  /\ kept' \in {kept, [value |-> reader[q].value, excused |-> reader[q].value # Truth]}
  /\ reader' = [reader EXCEPT ![q] = [pc |-> "idle"]]
  /\ UNCHANGED <<watched, db, writer, writes>>

Expire ==
  /\ kept # Missing /\ kept' = Missing
  /\ UNCHANGED <<watched, db, reader, writer, writes>>

-----------------------------------------------------------------------------
(* The prefixes each writer clears, one after the other.                   *)
Clears == [
  createPermission |-> <<"permissions">>,
  updatePermission |-> <<"permissions", "user">>,
  deletePermission |-> <<"permissions">>,
  assignPermissionsToRole |-> <<"user">>,
  removePermissionsFromRole |-> <<"user">>,
  createRole |-> <<"roles">>,
  updateRole |-> <<"roles">>,
  deleteRole |-> <<"roles">>,
  assignRole |-> <<>>,
  removeRole |-> <<>>]
(* Fault: an update clears the lists only.                                 *)
ClearsAfterLists(kind) == IF kind = "updatePermission" THEN <<"permissions">> ELSE Clears[kind]
ClearsAfter(kind) == Clears[kind]

(* app:permissions:list:... and app:permissions:role:... have one prefix.  *)
Prefix == CASE watched \in {"list", "role"} -> "permissions"
            [] watched = "user" -> "user"
            [] OTHER -> "roles"

(* Which changes each kind of answer is told of, as the services have it:  *)
(* nobody tells a role's permissions of grants, or anyone of a user's      *)
(* roles.                                                                  *)
Told ==
  CASE watched \in {"list", "role"} -> {"createPermission", "updatePermission", "deletePermission"}
    [] watched = "user" -> {"updatePermission", "assignPermissionsToRole", "removePermissionsFromRole"}
    [] OTHER -> {"createRole", "updateRole", "deleteRole"}

(* Deletions look first whether anything uses the row.                     *)
CheckInUse(c, kind) ==
  /\ writer[c].pc = "idle" /\ writes < MaxWrites
  /\ \/ kind = "deletePermission" /\ There(db.active) /\ ~db.granted
     \/ kind = "deleteRole" /\ There(db.role) /\ ~db.has
  /\ writer' = [writer EXCEPT ![c] = [pc |-> "write", kind |-> kind]]
  /\ UNCHANGED <<watched, db, kept, reader, writes>>

Outcomes(kind) ==
  CASE kind = "createPermission" /\ db.active = Unborn ->
         {[db EXCEPT !.active = a] : a \in BOOLEAN}
    [] kind = "updatePermission" /\ There(db.active) -> {[db EXCEPT !.active = ~@]}
    [] kind = "deletePermission" /\ There(db.active) ->
         {[db EXCEPT !.active = Gone, !.granted = FALSE]}
    [] kind = "assignPermissionsToRole" /\ There(db.active) /\ There(db.role) ->
         {[db EXCEPT !.granted = TRUE]}
    [] kind = "removePermissionsFromRole" -> {[db EXCEPT !.granted = FALSE]}
    [] kind = "createRole" /\ db.role = Unborn -> {[db EXCEPT !.role = TRUE]}
    [] kind = "updateRole" /\ There(db.role) -> {[db EXCEPT !.role = ~@]}
    [] kind = "deleteRole" /\ There(db.role) ->
         {[db EXCEPT !.role = Gone, !.granted = FALSE, !.has = FALSE]}
    [] kind = "assignRole" /\ There(db.role) -> {[db EXCEPT !.has = TRUE]}
    [] kind = "removeRole" -> {[db EXCEPT !.has = FALSE]}
    [] OTHER -> {}

(* The database is written; what nobody will clear is excused from now on. *)
Write(c, kind) ==
  /\ IF kind \in {"deletePermission", "deleteRole"}
       THEN writer[c] = [pc |-> "write", kind |-> kind]
       ELSE writer[c].pc = "idle"
  /\ writes < MaxWrites /\ writes' = writes + 1
  /\ db' \in Outcomes(kind)
  /\ kept' = IF kept # Missing /\ kind \notin Told THEN [kept EXCEPT !.excused = TRUE] ELSE kept
  /\ writer' = [writer EXCEPT ![c] =
       IF ClearsAfter(kind) = <<>> THEN [pc |-> "idle"]
       ELSE [pc |-> "keys", kind |-> kind, todo |-> ClearsAfter(kind)]]
  /\ UNCHANGED <<watched, reader>>

(* What was to be deleted is gone, or the write fails.                     *)
WriteFails(c) ==
  /\ writer[c].pc = "write"
  /\ writer' = [writer EXCEPT ![c] = [pc |-> "idle"]]
  /\ UNCHANGED <<watched, db, kept, reader, writes>>

NextClear(c) ==
  [writer EXCEPT ![c] =
     IF Tail(@.todo) = <<>> THEN [pc |-> "idle"]
     ELSE [pc |-> "keys", kind |-> @.kind, todo |-> Tail(@.todo)]]

(* KEYS prefix:*                                                           *)
Keys(c) ==
  /\ writer[c].pc = "keys"
  /\ writer' = IF kept # Missing /\ Head(writer[c].todo) = Prefix
                 THEN [writer EXCEPT ![c].pc = "del"] ELSE NextClear(c)
  /\ UNCHANGED <<watched, db, kept, reader, writes>>
Del(c) ==
  /\ writer[c].pc = "del"
  /\ kept' = Missing /\ writer' = NextClear(c)
  /\ UNCHANGED <<watched, db, reader, writes>>
(* Redis fails: what was to be cleared stays.                              *)
ClearFails(c) ==
  /\ writer[c].pc \in {"keys", "del"}
  /\ kept' = IF kept # Missing /\ Head(writer[c].todo) = Prefix
               THEN [kept EXCEPT !.excused = TRUE] ELSE kept
  /\ writer' = NextClear(c)
  /\ UNCHANGED <<watched, db, reader, writes>>

Next ==
  \/ Expire
  \/ \E q \in Readers :
       GetMiss(q) \/ GetUserRoles(q) \/ GetPermissions(q) \/ Query(q) \/ Set(q)
  \/ \E c \in Writers :
       \/ \E kind \in DOMAIN Clears : CheckInUse(c, kind) \/ Write(c, kind)
       \/ WriteFails(c) \/ Keys(c) \/ Del(c) \/ ClearFails(c)

Spec == Init /\ [][Next]_vars

-----------------------------------------------------------------------------
(* A kept answer is what the database says now, or a change it is told of  *)
(* is about to clear it; otherwise it was out of date when it was stored,  *)
(* a change happened that nobody tells it of, or Redis failed while it was *)
(* to be cleared.  In these three cases it stays until it expires.         *)
KeptIsTrue ==
  kept # Missing /\ kept.value # Truth /\ ~kept.excused =>
    \E c \in Writers :
      /\ writer[c].pc \in {"keys", "del"} /\ writer[c].kind \in Told
      /\ Prefix \in ToSet(writer[c].todo)
=============================================================================
