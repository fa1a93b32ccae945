--------------------------- MODULE LeadersProofs ---------------------------
(***************************************************************************)
(* Theorems about Leaders for any number of users and any kind of unit.    *)
(***************************************************************************)
EXTENDS Leaders, TLAPS

(* What a request in flight has brought about by its earlier statements.   *)
Prepared(q) ==
  /\ q.op = "add" => q.flag # "unsaid" /\ q.term # "unsaid"
  /\ q.flag = "unsaid" => kind = "group"
  /\ kind # "line" => q.seen = {}
  /\ kind = "team" /\ q.pc = "write" /\ q.flag = "primary" => Primaries = {}
  /\ kind = "line" /\ q.pc = "write" /\ q.flag = "primary" => Primaries \subseteq q.seen
  /\ kind = "group" /\ q.pc = "demote" => q.user \in Primaries
  /\ kind = "team" /\ q.op = "remove"
       => q.by # q.user /\ q.by \in Overseers \cup scoped \cup Serving

LeaderInv ==
  /\ TypeOK
  /\ OneAtATime
  /\ AtMostOnePrimary
  /\ \A r \in Requests : req[r] # Idle => Prepared(req[r])

(* A step of one request finds every other slot empty, and leaves it so.   *)
LEMMA OthersIdle ==
  ASSUME TypeOK, OneAtATime, OneAtATime', NEW r \in Requests,
         \A s \in Requests : s # r => req'[s] = req[s],
         req[r] # Idle \/ req'[r] # Idle
  PROVE  \A s \in Requests : s # r => req'[s] = Idle
  BY DEF OneAtATime, Busy

LEMMA IdleNotInFlight == Idle \notin InFlight
  BY LeadersAssumption DEF Idle, InFlight, Ops

(* Demoting keeps the rows of the others, and leaves at most the rest.     *)
LEMMA DemotedRows ==
  ASSUME TypeOK, NEW STATE S, NEW u \in Users
  PROVE  /\ Demoted(S)[u] \in LeaderRow \cup {Absent}
         /\ Demoted(S)[u] = Absent <=> ~Listed(u)
         /\ u \notin S => Demoted(S)[u] = row[u]
         /\ u \in S /\ Listed(u) => /\ Demoted(S)[u].primary = FALSE
                                    /\ Demoted(S)[u].term = row[u].term
  <1>1. row[u] \in LeaderRow \cup {Absent}
    BY DEF TypeOK
  <1>2. CASE Listed(u)
    <2>1. row[u] \in LeaderRow
      BY <1>1, <1>2 DEF Listed
    <2>2. [row[u] EXCEPT !.primary = FALSE] \in LeaderRow
      BY <2>1 DEF LeaderRow
    <2>3. QED
      BY <1>2, <2>1, <2>2, LeadersAssumption DEF Demoted, Listed, LeaderRow
  <1>3. CASE ~Listed(u)
    BY <1>1, <1>3 DEF Demoted, Listed
  <1>4. QED
    BY <1>2, <1>3

LEMMA InvLocal ==
  ASSUME LeaderInv, OneAtATime', NEW r \in Requests,
         req[r] # Idle \/ req'[r] # Idle,
         NEW STATE q, q \in {Idle} \cup InFlight, req' = [req EXCEPT ![r] = q],
         kind' = kind, row' \in [Users -> LeaderRow \cup {Absent}],
         scoped' \subseteq Users, AtMostOnePrimary',
         req'[r] # Idle => Prepared(req[r])'
  PROVE  LeaderInv'
  <1>1. TypeOK'
    BY DEF LeaderInv, TypeOK
  <1>2. \A s \in Requests : s # r => req'[s] = Idle
    BY OthersIdle DEF LeaderInv, TypeOK
  <1>3. QED
    BY <1>1, <1>2 DEF LeaderInv

LEMMA InvInit == Init => LeaderInv
  BY DEF Init, LeaderInv, TypeOK, OneAtATime, Busy, AtMostOnePrimary, Primaries,
     Listed

LEMMA FlagKnown ==
  ASSUME TypeOK, NEW op \in Ops, NEW flag \in Flags
  PROVE  /\ FlagOf(op, flag) \in Flags
         /\ FlagOf(op, flag) = "unsaid" => op = "update" /\ kind = "group"
  BY DEF FlagOf, Flags, Ops

(* A new request has written nothing; it is prepared if it starts with a   *)
(* demotion, or has none to make.                                          *)
LEMMA InvStart ==
  ASSUME LeaderInv, OneAtATime', NEW r \in Requests, NEW by \in Users,
         NEW u \in Users, NEW op \in Ops, NEW flag \in Flags, NEW term \in Terms,
         StartChange(r, by, op, u, flag, term),
         op = "add" => term # "unsaid",
         op = "remove" => MayRemove(by, u)
  PROVE  LeaderInv'
  <1> DEFINE f == FlagOf(op, flag)
             q == [op |-> op, pc |-> IF DemotesFirst(op, f) THEN "demote" ELSE "write",
                   by |-> by, user |-> u, flag |-> f, term |-> term, seen |-> {}]
  <1>1. f \in Flags /\ (f = "unsaid" => op = "update" /\ kind = "group")
    BY FlagKnown DEF LeaderInv
  <1>2. /\ req' = [req EXCEPT ![r] = q] /\ req[r] = Idle
        /\ UNCHANGED <<kind, row, scoped>>
    BY DEF StartChange
  <1>3. q \in InFlight
    BY <1>1 DEF InFlight
  <1>4. req'[r] = q /\ q # Idle
    BY <1>2, <1>3, IdleNotInFlight DEF LeaderInv, TypeOK
  <1>5. /\ Primaries' = Primaries /\ Serving' = Serving
        /\ row' \in [Users -> LeaderRow \cup {Absent}] /\ scoped' \subseteq Users
        /\ AtMostOnePrimary'
    BY <1>2 DEF Primaries, Serving, Listed, LeaderInv, TypeOK, AtMostOnePrimary
  <1>6. CanManage(by)
    BY DEF StartChange
  <1>7. Prepared(q)
    BY <1>1, <1>6 DEF Prepared, DemotesFirst, MayRemove, CanManage
  <1>8. Prepared(req[r])'
    BY <1>2, <1>4, <1>5, <1>7 DEF Prepared
  <1> HIDE DEF q
  <1>9. QED
    BY <1>2, <1>3, <1>4, <1>5, <1>8, InvLocal

LEMMA InvFinish ==
  ASSUME LeaderInv, OneAtATime', NEW r \in Requests, req[r] # Idle, Finish(r),
         kind' = kind, row' \in [Users -> LeaderRow \cup {Absent}],
         scoped' \subseteq Users, AtMostOnePrimary'
  PROVE  LeaderInv'
  <1>1. req'[r] = Idle
    BY DEF Finish, LeaderInv, TypeOK
  <1>2. req' = [req EXCEPT ![r] = Idle]
    BY DEF Finish
  <1>3. QED
    BY <1>1, <1>2, InvLocal

LEMMA DemotedPrimaries ==
  ASSUME TypeOK, NEW STATE S, row' = Demoted(S)
  PROVE  /\ row' \in [Users -> LeaderRow \cup {Absent}]
         /\ Primaries' = Primaries \ S
         /\ Serving' = Serving
  <1>1. row' = [u \in Users |-> row'[u]]
    BY DEF Demoted
  <1>2. \A u \in Users : /\ row'[u] \in LeaderRow \cup {Absent}
                         /\ row'[u] = Absent <=> ~Listed(u)
                         /\ u \notin S => row'[u] = row[u]
                         /\ u \in S /\ Listed(u) => /\ row'[u].primary = FALSE
                                                    /\ row'[u].term = row[u].term
    BY DemotedRows
  <1>3. \A u \in Users : row'[u] \in LeaderRow \cup {Absent}
    BY <1>2
  <1>4. row' \in [Users -> LeaderRow \cup {Absent}]
    BY <1>1, <1>3
  <1>5. \A u \in Users : /\ u \in Primaries' <=> u \in Primaries \ S
                         /\ u \in Serving' <=> u \in Serving
    BY <1>2 DEF Primaries, Serving, Listed
  <1>6. Primaries' \subseteq Users /\ Primaries \subseteq Users
        /\ Serving' \subseteq Users /\ Serving \subseteq Users
    BY DEF Primaries, Serving
  <1>7. QED
    BY <1>4, <1>5, <1>6

LEMMA WrittenRow ==
  ASSUME TypeOK, NEW STATE S, NEW STATE u, u \in Users, NEW STATE x, x \in LeaderRow,
         row' = [Demoted(S) EXCEPT ![u] = x]
  PROVE  /\ row' \in [Users -> LeaderRow \cup {Absent}]
         /\ \A v \in Users : v # u => (v \in Primaries' <=> v \in Primaries \ S)
         /\ u \in Primaries' <=> x.primary
  <1>1. \A v \in Users : v # u => row'[v] = Demoted(S)[v]
    BY DEF Demoted
  <1>2. row'[u] = x /\ row' = [v \in Users |-> row'[v]]
    BY DEF Demoted
  <1>3. \A v \in Users : row'[v] \in LeaderRow \cup {Absent}
    BY <1>1, <1>2, DemotedRows
  <1>4. \A v \in Users : v # u => (v \in Primaries' <=> v \in Primaries \ S)
    BY <1>1, DemotedRows DEF Primaries, Listed
  <1>5. u \in Primaries' <=> x.primary
    BY <1>2, LeadersAssumption DEF Primaries, Listed
  <1>6. QED
    BY <1>2, <1>3, <1>4, <1>5

LEMMA InvDemote ==
  ASSUME LeaderInv, OneAtATime', NEW r \in Requests,
         DemoteFirst(r) \/ DemoteOthers(r)
  PROVE  LeaderInv'
  <1>1. req[r] \in InFlight /\ req[r] # Idle
    BY DEF DemoteFirst, DemoteOthers, At, LeaderInv, TypeOK, Idle
  <1>2. CASE DemoteOthers(r)
    <2>1. row' \in [Users -> LeaderRow \cup {Absent}]
      BY <1>2, DemotedPrimaries DEF DemoteOthers, LeaderInv
    <2>2. QED
      BY <1>1, <1>2, <2>1, InvFinish DEF DemoteOthers, LeaderInv, TypeOK,
         AtMostOnePrimary
  <1>3. CASE DemoteFirst(r) /\ kind = "line"
    <2> DEFINE q == [req[r] EXCEPT !.pc = "write", !.seen = Primaries]
    <2>1. req' = [req EXCEPT ![r] = q] /\ UNCHANGED <<kind, row, scoped>>
      BY <1>1, <1>3 DEF DemoteFirst, LeaderInv, TypeOK, InFlight
    <2>2. /\ q \in InFlight /\ q.op = req[r].op /\ q.seen = Primaries
          /\ q.flag = req[r].flag /\ q.term = req[r].term
      BY <1>1 DEF InFlight, Primaries
    <2>3. req'[r] = q
      BY <2>1 DEF LeaderInv, TypeOK
    <2>4. Primaries' = Primaries
      BY <2>1 DEF Primaries, Listed
    <2> HIDE DEF q
    <2>5. Prepared(req[r])'
      BY <1>1, <1>3, <2>1, <2>2, <2>3, <2>4 DEF Prepared, LeaderInv
    <2>6. AtMostOnePrimary'
      BY <2>1, <2>4 DEF AtMostOnePrimary, LeaderInv
    <2>7. QED
      BY <1>1, <2>1, <2>2, <2>5, <2>6, InvLocal DEF LeaderInv, TypeOK
  <1>4. CASE DemoteFirst(r) /\ kind = "team"
    <2> DEFINE q == [req[r] EXCEPT !.pc = "write"]
    <2>1. /\ req' = [req EXCEPT ![r] = q] /\ UNCHANGED <<kind, scoped>>
          /\ row' = Demoted(Primaries)
      BY <1>1, <1>4 DEF DemoteFirst, Goto, LeaderInv, TypeOK, InFlight
    <2>2. /\ q \in InFlight /\ q.op = req[r].op /\ q.seen = req[r].seen
          /\ q.flag = req[r].flag /\ q.term = req[r].term
          /\ q.by = req[r].by /\ q.user = req[r].user
      BY <1>1 DEF InFlight
    <2>3. req'[r] = q
      BY <2>1 DEF LeaderInv, TypeOK
    <2>4. /\ Primaries' = {} /\ Serving' = Serving
          /\ row' \in [Users -> LeaderRow \cup {Absent}]
      BY <2>1, DemotedPrimaries DEF LeaderInv
    <2> HIDE DEF q
    <2>5. Prepared(req[r])'
      BY <1>1, <1>4, <2>1, <2>2, <2>3, <2>4 DEF Prepared, LeaderInv
    <2>6. AtMostOnePrimary'
      BY <2>4 DEF AtMostOnePrimary
    <2>7. QED
      BY <1>1, <2>1, <2>2, <2>4, <2>5, <2>6, InvLocal DEF LeaderInv, TypeOK
  <1>5. QED
    BY <1>2, <1>3, <1>4 DEF DemoteFirst

(* The request after its write, when it has more to do.                    *)
LEMMA AfterWriteGoes ==
  ASSUME LeaderInv, OneAtATime', NEW r \in Requests, req[r] # Idle, AfterWrite(r),
         At(r, "write"), req[r].op # "remove",
         kind' = kind, scoped' = scoped,
         row' \in [Users -> LeaderRow \cup {Absent}], AtMostOnePrimary',
         kind = "group" /\ req[r].flag = "primary" => req[r].user \in Primaries'
  PROVE  LeaderInv'
  <1>1. req[r] \in InFlight
    BY DEF LeaderInv, TypeOK
  <1>2. CASE Finish(r)
    BY <1>2, InvFinish DEF LeaderInv, TypeOK
  <1>3. ASSUME NEW pc \in {"demote", "role"}, Goto(r, pc), req[r].flag = "primary",
               pc = "demote" => kind = "group"
        PROVE  LeaderInv'
    <2> DEFINE q == [req[r] EXCEPT !.pc = pc]
    <2>1. req' = [req EXCEPT ![r] = q]
      BY <1>1, <1>3 DEF Goto, LeaderInv, TypeOK, InFlight
    <2>2. /\ q \in InFlight /\ q.op = req[r].op /\ q.seen = req[r].seen
          /\ q.flag = req[r].flag /\ q.term = req[r].term /\ q.pc = pc
          /\ q.by = req[r].by /\ q.user = req[r].user
      BY <1>1, <1>3 DEF InFlight
    <2>3. req'[r] = q
      BY <2>1 DEF LeaderInv, TypeOK
    <2> HIDE DEF q
    <2>4. Prepared(req[r])'
      BY <1>3, <2>2, <2>3 DEF Prepared, LeaderInv
    <2>5. QED
      BY <2>1, <2>2, <2>4, InvLocal DEF LeaderInv, TypeOK
  <1>4. QED
    BY <1>2, <1>3 DEF AfterWrite

LEMMA InvWrite ==
  ASSUME LeaderInv, OneAtATime', NEW r \in Requests, req[r] # Idle, AfterWrite(r),
         At(r, "write"), req[r].op # "remove", NEW STATE x, x \in LeaderRow,
         row' = [Demoted(req[r].seen) EXCEPT ![req[r].user] = x],
         IF req[r].flag = "unsaid" THEN x.primary <=> req[r].user \in Primaries
                                   ELSE x.primary <=> req[r].flag = "primary",
         kind' = kind, scoped' = scoped
  PROVE  LeaderInv'
  <1>1. req[r] \in InFlight /\ Prepared(req[r])
    BY DEF LeaderInv, TypeOK
  <1>2. PICK u \in Users : u = req[r].user
    BY <1>1 DEF InFlight
  <1>3. /\ row' \in [Users -> LeaderRow \cup {Absent}]
        /\ \A v \in Users : v # u => (v \in Primaries' <=> v \in Primaries \ req[r].seen)
        /\ u \in Primaries' <=> x.primary
    BY <1>2, WrittenRow DEF LeaderInv
  <1>4. Primaries' \subseteq Users
    BY DEF Primaries
  <1>5. AtMostOnePrimary'
    BY <1>1, <1>2, <1>3, <1>4 DEF AtMostOnePrimary, LeaderInv, Prepared, At
  <1>6. QED
    BY <1>2, <1>3, <1>5, AfterWriteGoes

LEMMA InvAddUpdate ==
  ASSUME LeaderInv, OneAtATime', NEW r \in Requests,
         AddLeader(r) \/ UpdateLeader(r)
  PROVE  LeaderInv'
  <1>1. /\ req[r] \in InFlight /\ req[r] # Idle /\ Prepared(req[r])
        /\ At(r, "write") /\ req[r].op # "remove"
    BY DEF AddLeader, UpdateLeader, Writes, At, LeaderInv, TypeOK, Idle
  <1>2. req[r].user \in Users /\ req[r].flag \in Flags /\ req[r].term \in Terms
    BY <1>1 DEF InFlight
  <1>3. DOMAIN Demoted(req[r].seen) = Users
    BY DEF Demoted
  <1>4. CASE AddLeader(r)
    <2> DEFINE x == [primary |-> req[r].flag = "primary", term |-> req[r].term]
    <2>1. row' = [Demoted(req[r].seen) EXCEPT ![req[r].user] = x]
      BY <1>4 DEF AddLeader
    <2>2. req[r].flag # "unsaid" /\ req[r].term \in {"running", "over"}
      BY <1>1, <1>2, <1>4 DEF AddLeader, Writes, Prepared, Terms
    <2>3. x \in LeaderRow /\ (x.primary <=> req[r].flag = "primary")
      BY <2>2 DEF LeaderRow
    <2> HIDE DEF x
    <2>4. QED
      BY <1>1, <1>4, <2>1, <2>2, <2>3, InvWrite DEF AddLeader
  <1>5. CASE UpdateLeader(r)
    <2> DEFINE old == Demoted(req[r].seen)[req[r].user]
               x == [primary |-> IF req[r].flag = "unsaid" THEN old.primary
                                                           ELSE req[r].flag = "primary",
                     term |-> IF req[r].term = "unsaid" THEN old.term ELSE req[r].term]
    <2>1. row' = [Demoted(req[r].seen) EXCEPT ![req[r].user] = x]
      BY <1>5 DEF UpdateLeader
    <2>2. Listed(req[r].user)
      BY <1>5 DEF UpdateLeader
    <2>3. old \in LeaderRow
      BY <1>2, <2>2, DemotedRows DEF LeaderInv
    <2>4. x \in LeaderRow
      BY <1>2, <2>3 DEF LeaderRow, Terms
    <2>5. IF req[r].flag = "unsaid" THEN x.primary <=> old.primary
                                    ELSE x.primary <=> req[r].flag = "primary"
      OBVIOUS
    <2>6. req[r].flag = "unsaid" => old = row[req[r].user]
      BY <1>1, <1>2, DemotedRows DEF Prepared, LeaderInv
    <2> HIDE DEF x, old
    <2>7. req[r].flag = "unsaid" => (x.primary <=> req[r].user \in Primaries)
      BY <1>2, <2>2, <2>5, <2>6 DEF Primaries
    <2>8. QED
      BY <1>1, <1>5, <2>1, <2>4, <2>5, <2>7, InvWrite DEF UpdateLeader
  <1>6. QED
    BY <1>4, <1>5

LEMMA InvUpdateNobody ==
  ASSUME LeaderInv, OneAtATime', NEW r \in Requests, UpdateNobody(r)
  PROVE  LeaderInv'
  <1>1. req[r] # Idle /\ At(r, "write") /\ req[r].op # "remove"
    BY DEF UpdateNobody, Writes, At, Idle
  <1>2. CASE kind \in {"team", "line"}
    <2>1. /\ row' = Demoted(req[r].seen) /\ AfterWrite(r)
          /\ UNCHANGED <<kind, scoped>>
      BY <1>2 DEF UpdateNobody
    <2>2. /\ Primaries' = Primaries \ req[r].seen
          /\ row' \in [Users -> LeaderRow \cup {Absent}]
      BY <2>1, DemotedPrimaries DEF LeaderInv
    <2>3. AtMostOnePrimary'
      BY <1>2, <2>1, <2>2 DEF AtMostOnePrimary, LeaderInv
    <2>4. QED
      BY <1>1, <1>2, <2>1, <2>2, <2>3, AfterWriteGoes
  <1>3. CASE kind \notin {"team", "line"}
    <2>1. Finish(r) /\ UNCHANGED <<kind, row, scoped>>
      BY <1>3 DEF UpdateNobody
    <2>2. QED
      BY <1>1, <1>3, <2>1, InvFinish DEF LeaderInv, TypeOK, AtMostOnePrimary
  <1>4. QED
    BY <1>2, <1>3

(* A removal makes nobody primary.                                         *)
LEMMA RemovalRows ==
  ASSUME TypeOK, NEW r \in Requests, RemoveLeader(r)
  PROVE  /\ row' \in [Users -> LeaderRow \cup {Absent}]
         /\ Primaries' \subseteq Primaries
         /\ kind = "group" => Primaries' = Primaries
         /\ Serving \ {req[r].user} \subseteq Serving'
  <1>1. req[r].user \in Users
    BY DEF RemoveLeader, Writes, At, TypeOK, Idle, InFlight, Ops
  <1>2. PICK u \in Users : u = req[r].user
    BY <1>1
  <1>3. CASE ~Listed(u)
    BY <1>2, <1>3 DEF RemoveLeader, TypeOK, Primaries, Serving, Listed
  <1>4. CASE Listed(u)
    <2> DEFINE x == IF kind = "group" THEN [row[u] EXCEPT !.term = "over"] ELSE Absent
    <2>1. row' = [row EXCEPT ![u] = x]
      BY <1>2, <1>4 DEF RemoveLeader
    <2>2. row[u] \in LeaderRow
      BY <1>4 DEF TypeOK, Listed
    <2>3. /\ x \in LeaderRow \cup {Absent}
          /\ x # Absent => x.primary = row[u].primary
          /\ kind = "group" => x # Absent
      BY <2>2, LeadersAssumption DEF LeaderRow
    <2> HIDE DEF x
    <2>4. row' \in [Users -> LeaderRow \cup {Absent}]
      BY <2>1, <2>3 DEF TypeOK
    <2>5. row'[u] = x /\ \A v \in Users : v # u => row'[v] = row[v]
      BY <2>1 DEF TypeOK
    <2>6. QED
      BY <1>2, <1>4, <2>3, <2>4, <2>5 DEF Primaries, Serving, Listed
  <1>5. QED
    BY <1>3, <1>4

LEMMA InvRemove ==
  ASSUME LeaderInv, OneAtATime', NEW r \in Requests, RemoveLeader(r)
  PROVE  LeaderInv'
  <1>1. req[r] \in InFlight /\ req[r] # Idle /\ Prepared(req[r])
    BY DEF RemoveLeader, Writes, At, LeaderInv, TypeOK, Idle
  <1>2. UNCHANGED <<kind, scoped>>
    BY DEF RemoveLeader
  <1>3. /\ row' \in [Users -> LeaderRow \cup {Absent}]
        /\ AtMostOnePrimary'
    BY <1>2, RemovalRows DEF LeaderInv, AtMostOnePrimary
  <1>4. CASE Finish(r)
    BY <1>1, <1>2, <1>3, <1>4, InvFinish DEF LeaderInv, TypeOK
  <1>5. CASE Goto(r, "role") /\ kind \in {"line", "factory"}
    <2> DEFINE q == [req[r] EXCEPT !.pc = "role"]
    <2>1. req' = [req EXCEPT ![r] = q]
      BY <1>1, <1>5 DEF Goto, LeaderInv, TypeOK, InFlight
    <2>2. /\ q \in InFlight /\ q.op = req[r].op /\ q.seen = req[r].seen
          /\ q.flag = req[r].flag /\ q.term = req[r].term /\ q.pc = "role"
      BY <1>1 DEF InFlight
    <2>3. req'[r] = q
      BY <2>1 DEF LeaderInv, TypeOK
    <2> HIDE DEF q
    <2>4. Prepared(req[r])'
      BY <1>1, <1>2, <1>5, <2>2, <2>3 DEF Prepared
    <2>5. QED
      BY <1>1, <1>2, <1>3, <2>1, <2>2, <2>4, InvLocal DEF LeaderInv, TypeOK
  <1>6. QED
    BY <1>4, <1>5 DEF RemoveLeader

(* A role named by its code is neither given nor taken.                    *)
LEMMA InvUnwritten ==
  ASSUME LeaderInv, OneAtATime', NEW r \in Requests,
         AddAgain(r) \/ ChangeRole(r) \/ Fail(r)
  PROVE  LeaderInv'
  <1>1. req[r] # Idle /\ Finish(r) /\ UNCHANGED <<kind, row>>
    BY DEF AddAgain, ChangeRole, Fail, Writes, At, Idle
  <1>2. UNCHANGED scoped
    BY LeadersAssumption DEF AddAgain, ChangeRole, Fail, Assigned, Unassigned
  <1>3. QED
    BY <1>1, <1>2, InvFinish DEF LeaderInv, TypeOK, AtMostOnePrimary, Primaries,
       Listed

LEMMA InvProceed ==
  ASSUME LeaderInv, OneAtATime', NEW r \in Requests, Proceed(r)
  PROVE  LeaderInv'
  BY InvDemote, InvAddUpdate, InvUpdateNobody, InvRemove, InvUnwritten DEF Proceed

LEMMA InvStarts ==
  ASSUME LeaderInv, OneAtATime', NEW r \in Requests, Start(r)
  PROVE  LeaderInv'
  <1>1. PICK by \in Users, u \in Users :
          StartAdd(r, by, u) \/ StartUpdate(r, by, u) \/ StartRemove(r, by, u)
    BY DEF Start
  <1>2. CASE StartAdd(r, by, u)
    <2>1. PICK flag \in Flags, term \in Terms :
            StartChange(r, by, "add", u, flag,
                        IF term = "unsaid" THEN "running" ELSE term)
      BY <1>2 DEF StartAdd
    <2>2. PICK t \in Terms : t = IF term = "unsaid" THEN "running" ELSE term
      BY DEF Terms
    <2>3. t # "unsaid" /\ "add" \in Ops
      BY <2>2 DEF Ops
    <2>4. StartChange(r, by, "add", u, flag, t)
      BY <2>1, <2>2
    <2>5. QED
      BY <2>3, <2>4, InvStart
  <1>3. CASE StartUpdate(r, by, u)
    BY <1>3, InvStart DEF StartUpdate, Ops
  <1>4. CASE StartRemove(r, by, u)
    BY <1>4, InvStart DEF StartRemove, Ops, Flags, Terms
  <1>5. QED
    BY <1>1, <1>2, <1>3, <1>4

LEMMA InvRoles ==
  ASSUME LeaderInv, NEW u \in Users, GrantRole(u) \/ RevokeRole(u), RolesBetween
  PROVE  LeaderInv'
  <1>1. /\ UNCHANGED <<kind, row, req>> /\ scoped' \subseteq Users
        /\ scoped' # scoped
    BY DEF GrantRole, RevokeRole, Assigned, Unassigned, LeaderInv, TypeOK
  <1>2. Busy' = {}
    BY <1>1 DEF RolesBetween
  <1>3. QED
    BY <1>1, <1>2 DEF LeaderInv, TypeOK, OneAtATime, Busy, AtMostOnePrimary,
       Primaries, Listed

LEMMA InvNext ==
  LeaderInv /\ [Next /\ OneAtATime' /\ RolesBetween]_vars => LeaderInv'
  <1> SUFFICES ASSUME LeaderInv, [Next /\ OneAtATime' /\ RolesBetween]_vars
               PROVE  LeaderInv'
    OBVIOUS
  <1>1. CASE UNCHANGED vars
    BY <1>1 DEF vars, LeaderInv, TypeOK, OneAtATime, Busy, AtMostOnePrimary,
       Primaries, Serving, Listed, Prepared
  <1>2. QED
    BY <1>1, InvStarts, InvProceed, InvRoles DEF Next

LEMMA Invariance == AloneSpec => []LeaderInv
  BY InvInit, InvNext, PTL DEF AloneSpec

(* A unit's rows stay well formed, whatever its kind.                      *)
THEOREM LeadersTyped == AloneSpec => []TypeOK
  BY Invariance, PTL DEF LeaderInv

(* With one request at a time, failures included, a team or a line never   *)
(* has two primary leaders.                                                *)
THEOREM PrimaryTheorem == AloneSpec => []AtMostOnePrimary
  BY Invariance, PTL DEF LeaderInv

(* In a group, a step other than an update that asks for it takes the flag *)
(* of the primary leader only by giving it to another.                     *)
LEMMA GroupStep ==
  ASSUME LeaderInv, Next, kind = "group", Primaries # {}
  PROVE  \/ Primaries' # {}
         \/ \E r \in Requests : Writes(r, "update") /\ req[r].flag = "plain"
  <1>1. CASE UNCHANGED row
    BY <1>1 DEF Primaries, Listed
  <1>2. ASSUME NEW r \in Requests, DemoteOthers(r)
        PROVE  Primaries' # {}
    <2>1. req[r].user \in Primaries
      BY <1>2 DEF DemoteOthers, At, LeaderInv, Prepared, Idle
    <2>2. Primaries' = Primaries \ (Primaries \ {req[r].user})
      BY <1>2, DemotedPrimaries DEF DemoteOthers, LeaderInv
    <2>3. QED
      BY <2>1, <2>2
  <1>3. ASSUME NEW r \in Requests, AddLeader(r) \/ UpdateLeader(r)
        PROVE  \/ Primaries' # {}
               \/ Writes(r, "update") /\ req[r].flag = "plain"
    <2>1. req[r] \in InFlight /\ req[r].seen = {}
      BY <1>3 DEF AddLeader, UpdateLeader, Writes, At, LeaderInv, TypeOK, Idle,
         Prepared
    <2>2. PICK u \in Users : u = req[r].user
      BY <2>1 DEF InFlight
    <2>3. \A v \in Users : Demoted(req[r].seen)[v] = row[v]
      BY <2>1, DemotedRows DEF LeaderInv
    <2>4. \A v \in Users : v # u => row'[v] = row[v]
      BY <1>3, <2>2, <2>3 DEF AddLeader, UpdateLeader, Demoted
    <2>5. PICK p \in Users : p \in Primaries
      BY DEF Primaries
    <2>6. CASE p # u
      BY <2>4, <2>5, <2>6 DEF Primaries, Listed
    <2>7. CASE p = u
      <3>1. Listed(u) /\ row[u].primary
        BY <2>5, <2>7 DEF Primaries
      <3>2. UpdateLeader(r)
        BY <1>3, <2>2, <3>1 DEF AddLeader
      <3>3. CASE req[r].flag = "plain"
        BY <3>2, <3>3 DEF UpdateLeader
      <3>4. CASE req[r].flag # "plain"
        <4> DEFINE old == Demoted(req[r].seen)[u]
                   x == [primary |-> IF req[r].flag = "unsaid" THEN old.primary
                                                         ELSE req[r].flag = "primary",
                         term |-> IF req[r].term = "unsaid" THEN old.term
                                                            ELSE req[r].term]
        <4>1. row' = [Demoted(req[r].seen) EXCEPT ![u] = x]
          BY <2>2, <3>2 DEF UpdateLeader
        <4>2. req[r].flag \in {"unsaid", "primary"}
          BY <2>1, <3>4 DEF InFlight, Flags
        <4>3. old.primary
          BY <2>3, <3>1
        <4>4. x.primary
          BY <4>2, <4>3
        <4>5. x # Absent
          <5>1. old \in LeaderRow /\ req[r].term \in Terms
            BY <2>1, <2>3, <3>1 DEF InFlight, LeaderInv, TypeOK, Listed
          <5>2. x \in LeaderRow
            BY <4>2, <5>1 DEF LeaderRow, Terms
          <5>3. QED
            BY <5>2, LeadersAssumption
        <4>6. row'[u] = x
          BY <4>1 DEF Demoted
        <4> HIDE DEF x
        <4>7. QED
          BY <4>4, <4>5, <4>6 DEF Primaries, Listed
      <3>5. QED
        BY <3>3, <3>4
    <2>8. QED
      BY <2>6, <2>7
  <1>4. ASSUME NEW r \in Requests, RemoveLeader(r)
        PROVE  Primaries' # {}
    BY <1>4, RemovalRows DEF LeaderInv
  <1>5. QED
    BY <1>1, <1>2, <1>3, <1>4 DEF Next, Start, Proceed, StartAdd, StartUpdate,
       StartRemove, StartChange, DemoteFirst, AddAgain, UpdateNobody, ChangeRole,
       GrantRole, RevokeRole, Fail

(* With one request at a time, failures included, a group that has a       *)
(* primary leader has one until an update demotes it.                      *)
THEOREM GroupTheorem == AloneSpec => GroupKeepsPrimary
  <1>1. LeaderInv /\ [Next /\ OneAtATime' /\ RolesBetween]_vars
          => [kind = "group" /\ Primaries # {}
                => \/ Primaries' # {}
                   \/ \E r \in Requests : Writes(r, "update") /\ req[r].flag = "plain"]_vars
    BY GroupStep
  <1>2. QED
    BY <1>1, Invariance, PTL DEF AloneSpec, GroupKeepsPrimary

(* A leader who removes another one stays.                                 *)
LEMMA RemainStep ==
  ASSUME LeaderInv, Next, OneAtATime', NEW r \in Requests, kind = "team",
         Writes(r, "remove"), req[r].by \notin Overseers \cup scoped
  PROVE  Serving' # {}
  <1>1. req[r] \in InFlight /\ req[r] # Idle /\ Prepared(req[r])
    BY DEF Writes, At, LeaderInv, TypeOK, Idle
  <1>2. req[r].by \in Serving /\ req[r].by # req[r].user
    BY <1>1 DEF Prepared, Writes
  <1>3. CASE UNCHANGED row
    BY <1>2, <1>3 DEF Serving, Listed
  <1>4. ASSUME NEW s \in Requests, Proceed(s), row' # row
        PROVE  Serving' # {}
    <2>1. req[s] # Idle
      BY <1>4 DEF Proceed, DemoteFirst, DemoteOthers, AddLeader, AddAgain,
         UpdateLeader, UpdateNobody, RemoveLeader, ChangeRole, Fail, Writes, At, Idle
    <2>2. s = r
      BY <1>1, <2>1 DEF LeaderInv, OneAtATime, Busy
    <2>3. RemoveLeader(r)
      BY <1>4, <2>2 DEF Proceed, DemoteFirst, DemoteOthers, AddLeader, AddAgain,
         UpdateLeader, UpdateNobody, ChangeRole, Fail, Writes, At
    <2>4. QED
      BY <1>2, <2>3, RemovalRows DEF LeaderInv
  <1>5. QED
    BY <1>3, <1>4 DEF Next, Start, StartAdd, StartUpdate, StartRemove, StartChange,
       GrantRole, RevokeRole

(* With one request at a time, leaders of a team who remove each other     *)
(* leave the team a leader.                                                *)
THEOREM RemainTheorem == AloneSpec => LeadersRemain
  <1>1. LeaderInv /\ [Next /\ OneAtATime' /\ RolesBetween]_vars
          => [\A r \in Requests :
                /\ kind = "team" /\ Writes(r, "remove")
                /\ req[r].by \notin Overseers \cup scoped
                => Serving' # {}]_vars
    BY RemainStep
  <1>2. QED
    BY <1>1, Invariance, PTL DEF AloneSpec, LeadersRemain

=============================================================================
