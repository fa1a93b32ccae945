--------------------------- MODULE BackOfficeProofs ---------------------------
(***************************************************************************)
(* Proofs about the components of BackOffice, for every value of their     *)
(* constants: of Exports for any number of requests, kinds of reports and  *)
(* units and a clock that runs on; of Permissions for any number of        *)
(* readers, writers and changes; of Rates for any set of items, batches    *)
(* and people; of Reports for any forms, entries and amounts, with the     *)
(* sums over them reasoned about by the lemmas of Sums; of Departments for *)
(* any tree; of Listings for any list, rows and page size.  At the end the *)
(* types of all of them.                                                   *)
(***************************************************************************)
EXTENDS BackOffice, Sequences, SequencesExt, FiniteSets, Sums, TLAPS

(* A step of the whole is a step of each component or leaves it alone.     *)
LEMMA StepOfEach ==
  ASSUME [Next]_vars
  PROVE  /\ [R!Next]_rates /\ [L!Next]_listings /\ [P!Next]_permissions
         /\ [T!Next]_reports /\ [X!Next]_exports /\ [D!Next]_departments
  BY DEF Next, DepartmentsStep, RatesStep, ListingsStep, PermissionsStep, ReportsStep,
         ExportsStep, vars

-----------------------------------------------------------------------------
(* Exports.                                                                *)
(* A request that has not begun, one without a name yet, and one with.     *)
NotBegun == [pc : {"idle"}]
Asked == [pc : {"query", "refused", "lost"}, type : X!Types, format : X!Formats]
Called == [pc : {"open", "fill", "answered", "failed", "lost"}, type : X!Types,
           format : X!Formats, code : Codes \cup {NoCode}, time : Nat]

ExportShape == now \in Nat /\ export \in [Requests -> NotBegun \cup Asked \cup Called]

(* What is in a file was put there by a request with this name that was    *)
(* answered.                                                               *)
OwnNames ==
  \A n \in DOMAIN file : \A s \in file[n] :
    s \in Requests /\ export[s] \in Called /\ X!At(s, "answered") /\ X!Name(s) = n

(* The file of a request that opened it is there, and once it is answered  *)
(* its report is in the file, unless another request has the name.         *)
Shared(r) == \E s \in Requests \ {r} : export[s] \in Called /\ X!Name(s) = X!Name(r)
Filed ==
  \A r \in Requests :
    /\ X!At(r, "fill") => X!Name(r) \in DOMAIN file
    /\ X!At(r, "answered") => X!Name(r) \in DOMAIN file /\ (r \in file[X!Name(r)] \/ Shared(r))

EInv == ExportShape /\ OwnNames /\ Filed

-----------------------------------------------------------------------------
LEMMA CalledByState ==
  ASSUME ExportShape, NEW r \in Requests
  PROVE  /\ X!At(r, "open") \/ X!At(r, "fill") \/ X!At(r, "answered") => export[r] \in Called
         /\ X!At(r, "query") => export[r] \in Asked
         /\ export[r] \in Called => X!Named(r)
  BY DEF ExportShape, X!At, X!Named, NotBegun, Asked, Called

LEMMA SameNames ==
  ASSUME NEW r, NEW s, X!Name(r) = X!Name(s)
  PROVE  X!SameName(r, s)
  BY DEF X!Name, X!SameName

(* Moving a request that has a name to a later state keeps the name.       *)
LEMMA MoveCalled ==
  ASSUME ExportShape, NEW r \in Requests, export[r] \in Called,
         NEW state \in {"open", "fill", "answered", "failed", "lost"}, X!Move(r, state)
  PROVE  /\ export' \in [Requests -> NotBegun \cup Asked \cup Called]
         /\ export'[r] \in Called /\ X!Name(r)' = X!Name(r) /\ export'[r].pc = state
         /\ \A s \in Requests \ {r} : export'[s] = export[s] /\ X!Name(s)' = X!Name(s)
  <1>1. [export[r] EXCEPT !.pc = state] \in Called
    BY DEF Called
  <1>2. /\ export'[r] = [export[r] EXCEPT !.pc = state]
        /\ \A s \in Requests \ {r} : export'[s] = export[s]
        /\ export' \in [Requests -> NotBegun \cup Asked \cup Called]
    BY <1>1 DEF X!Move, ExportShape
  <1>3. X!Name(r)' = X!Name(r) /\ export'[r].pc = state
    BY <1>2 DEF X!Name, Called
  <1> QED BY <1>1, <1>2, <1>3 DEF X!Name

(* Steps that leave the files alone, keep every name and let nobody open   *)
(* or finish a file.                                                       *)
Quiet ==
  /\ now' \in Nat /\ export' \in [Requests -> NotBegun \cup Asked \cup Called] /\ UNCHANGED file
  /\ \A s \in Requests :
       /\ export[s] \in Called => export'[s] \in Called /\ X!Name(s)' = X!Name(s)
       /\ X!At(s, "answered") <=> X!At(s, "answered")'
       /\ X!At(s, "fill")' => X!At(s, "fill")

LEMMA QuietKeeps ==
  ASSUME EInv, Quiet
  PROVE  EInv'
  <1>1. ExportShape'
    BY DEF Quiet, ExportShape
  <1>2. OwnNames'
    BY DEF EInv, OwnNames, Quiet
  <1>3. ASSUME NEW r \in Requests
        PROVE  /\ X!At(r, "fill")' => (X!Name(r) \in DOMAIN file)'
               /\ X!At(r, "answered")' =>
                    (X!Name(r) \in DOMAIN file)' /\ ((r \in file[X!Name(r)])' \/ Shared(r)')
    <2>1. X!At(r, "fill") \/ X!At(r, "answered") => export[r] \in Called
      BY CalledByState DEF EInv
    <2>2. Shared(r) /\ export[r] \in Called => Shared(r)'
      BY DEF Shared, Quiet
    <2> QED BY <2>1, <2>2 DEF EInv, Filed, Quiet
  <1> QED BY <1>1, <1>2, <1>3 DEF EInv, Filed

LEMMA QuietSteps ==
  ASSUME EInv, NEW r \in Requests,
         \/ \E type \in X!Types, format \in X!Formats :
              X!ExportReport(r, type, format) \/ X!ExportComparison(r, type, format)
         \/ \E code \in Codes \cup {NoCode} : X!NameReport(r, code)
         \/ X!NameComparison(r) \/ X!QueryFails(r) \/ X!WriteFails(r) \/ X!StreamFails(r)
  PROVE  Quiet
  <1> USE DEF EInv
  <1>1. CASE \E type \in X!Types, format \in X!Formats :
               X!ExportReport(r, type, format) \/ X!ExportComparison(r, type, format)
    <2> PICK type \in X!Types, format \in X!Formats :
               X!ExportReport(r, type, format) \/ X!ExportComparison(r, type, format)
      BY <1>1
    <2> DEFINE q == [pc |-> "query", type |-> type, format |-> format]
    <2>1. q \in Asked /\ q.pc = "query"
      BY DEF Asked
    <2>2. export' = [export EXCEPT ![r] = q] /\ export[r].pc = "idle" /\ UNCHANGED <<now, file>>
      BY DEF X!ExportReport, X!ExportComparison, X!At
    <2>3. export[r] \notin Called
      BY <2>2 DEF Called
    <2> HIDE DEF q
    <2> QED BY <2>1, <2>2, <2>3 DEF Quiet, ExportShape, X!At, X!Name
  <1>2. CASE (\E code \in Codes \cup {NoCode} : X!NameReport(r, code)) \/ X!NameComparison(r)
    <2>1. PICK code \in Codes \cup {NoCode} :
            /\ export' = [export EXCEPT ![r] =
                 [pc |-> "open", type |-> @.type, format |-> @.format,
                  code |-> code, time |-> now]]
            /\ export[r].pc = "query" /\ UNCHANGED <<now, file>>
      BY <1>2 DEF X!NameReport, X!NameComparison, X!At
    <2> DEFINE q == [pc |-> "open", type |-> export[r].type, format |-> export[r].format,
                     code |-> code, time |-> now]
    <2>2. export[r] \in Asked /\ export[r] \notin Called
      BY <2>1, CalledByState DEF X!At, Called
    <2>3. q \in Called /\ q.pc = "open"
      BY <2>2 DEF Asked, Called, ExportShape
    <2>4. export' = [export EXCEPT ![r] = q]
      BY <2>1
    <2> HIDE DEF q
    <2> QED BY <2>1, <2>2, <2>3, <2>4 DEF Quiet, ExportShape, X!At, X!Name
  <1>3. CASE X!QueryFails(r)
    <2>1. export[r] \in Asked /\ export[r] \notin Called
      BY <1>3, CalledByState DEF X!QueryFails, X!At, Called
    <2>2. [export[r] EXCEPT !.pc = "refused"] \in Asked
          /\ [export[r] EXCEPT !.pc = "refused"].pc = "refused"
      BY <2>1 DEF Asked
    <2> QED BY <1>3, <2>1, <2>2 DEF X!QueryFails, X!Move, Quiet, ExportShape, X!At, X!Name
  <1>4. CASE X!WriteFails(r)
    <2>1. export[r] \in Called
      BY <1>4, CalledByState DEF X!WriteFails
    <2>2. X!Move(r, "failed") /\ UNCHANGED <<now, file>> /\ ~X!At(r, "answered")
      BY <1>4 DEF X!WriteFails, X!At
    <2> QED BY <2>1, <2>2, MoveCalled DEF Quiet, ExportShape, X!At
  <1>5. CASE X!StreamFails(r)
    <2>1. ASSUME NEW s \in Requests
          PROVE  /\ export'[s] \in NotBegun \cup Asked \cup Called
                 /\ export[s] \in Called => export'[s] \in Called /\ X!Name(s)' = X!Name(s)
                 /\ X!At(s, "answered") <=> X!At(s, "answered")'
                 /\ X!At(s, "fill")' => X!At(s, "fill")
      <3>1. CASE export[s].pc \in {"query", "open", "fill"}
        <4>1. export'[s] = [export[s] EXCEPT !.pc = "lost"]
          BY <1>5, <3>1 DEF X!StreamFails
        <4>2. CASE export[s] \in Called
          <5>1. export'[s] \in Called /\ export'[s].pc = "lost" /\ X!Name(s)' = X!Name(s)
            BY <4>1, <4>2 DEF Called, X!Name
          <5> QED BY <3>1, <5>1 DEF X!At
        <4>3. CASE export[s] \notin Called
          <5>1. export[s] \in Asked
            BY <3>1, <4>3, CalledByState DEF X!At
          <5>2. export'[s] \in Asked /\ export'[s].pc = "lost"
            BY <4>1, <5>1 DEF Asked
          <5> QED BY <3>1, <4>3, <5>2 DEF X!At
        <4> QED BY <4>2, <4>3
      <3>2. CASE export[s].pc \notin {"query", "open", "fill"}
        <4>1. export'[s] = export[s]
          BY <1>5, <3>2 DEF X!StreamFails
        <4> QED BY <4>1 DEF X!At, X!Name, ExportShape
      <3> QED BY <3>1, <3>2
    <2>2. export' \in [Requests -> NotBegun \cup Asked \cup Called]
      BY <1>5, <2>1 DEF X!StreamFails
    <2> QED BY <1>5, <2>1, <2>2 DEF Quiet, X!StreamFails, ExportShape
  <1> QED BY <1>1, <1>2, <1>3, <1>4, <1>5

-----------------------------------------------------------------------------
(* Opening a file empties it: whoever had it shares its name with the      *)
(* request that opens it.                                                  *)
LEMMA OpenKeeps ==
  ASSUME EInv, NEW r \in Requests, X!Open(r)
  PROVE  EInv'
  <1> USE DEF EInv
  <1>1. export[r] \in Called /\ X!Move(r, "fill") /\ ~X!At(r, "answered") /\ UNCHANGED now
    BY CalledByState DEF X!Open, X!At
  <1>2. /\ export' \in [Requests -> NotBegun \cup Asked \cup Called]
        /\ export'[r] \in Called /\ X!Name(r)' = X!Name(r) /\ export'[r].pc = "fill"
        /\ \A s \in Requests \ {r} : export'[s] = export[s] /\ X!Name(s)' = X!Name(s)
    BY <1>1, MoveCalled
  <1>3. /\ DOMAIN file' = DOMAIN file \cup {X!Name(r)}
        /\ file'[X!Name(r)] = {}
        /\ \A n \in DOMAIN file : n # X!Name(r) => file'[n] = file[n]
    BY DEF X!Open
  <1>4. OwnNames'
    BY <1>1, <1>2, <1>3 DEF OwnNames, X!At
  <1>5. ASSUME NEW q \in Requests, X!At(q, "answered")'
        PROVE  (X!Name(q) \in DOMAIN file)' /\ ((q \in file[X!Name(q)])' \/ Shared(q)')
    <2>1. q # r /\ X!At(q, "answered") /\ X!Name(q)' = X!Name(q)
      BY <1>2, <1>5 DEF X!At
    <2>2. CASE X!Name(q) = X!Name(r)
      BY <1>2, <1>3, <2>1, <2>2 DEF Shared
    <2>3. CASE X!Name(q) # X!Name(r)
      <3>1. Shared(q) => Shared(q)'
        BY <1>2, <2>1 DEF Shared
      <3> QED BY <1>3, <2>1, <2>3, <3>1 DEF Filed
    <2> QED BY <2>2, <2>3
  <1>6. \A q \in Requests : X!At(q, "fill")' => (X!Name(q) \in DOMAIN file)'
    BY <1>2, <1>3 DEF X!At, Filed
  <1> QED BY <1>1, <1>2, <1>4, <1>5, <1>6 DEF ExportShape, Filed

LEMMA FillKeeps ==
  ASSUME EInv, NEW r \in Requests, X!Fill(r) \/ X!FillComparison(r)
  PROVE  EInv'
  <1> USE DEF EInv
  <1>1. export[r] \in Called /\ X!Move(r, "answered") /\ X!At(r, "fill") /\ UNCHANGED now
    BY CalledByState DEF X!Fill, X!FillComparison
  <1>2. /\ export' \in [Requests -> NotBegun \cup Asked \cup Called]
        /\ export'[r] \in Called /\ X!Name(r)' = X!Name(r) /\ export'[r].pc = "answered"
        /\ \A s \in Requests \ {r} : export'[s] = export[s] /\ X!Name(s)' = X!Name(s)
    BY <1>1, MoveCalled
  <1>3. /\ X!Name(r) \in DOMAIN file /\ DOMAIN file' = DOMAIN file
        /\ file'[X!Name(r)] = file[X!Name(r)] \cup {r}
        /\ \A n \in DOMAIN file : n # X!Name(r) => file'[n] = file[n]
    BY <1>1 DEF X!Fill, X!FillComparison, Filed
  <1>4. OwnNames'
    BY <1>1, <1>2, <1>3 DEF OwnNames, X!At
  <1>5. ASSUME NEW q \in Requests
        PROVE  /\ X!At(q, "fill")' => (X!Name(q) \in DOMAIN file)'
               /\ X!At(q, "answered")' =>
                    (X!Name(q) \in DOMAIN file)' /\ ((q \in file[X!Name(q)])' \/ Shared(q)')
    <2>1. CASE q = r
      BY <1>2, <1>3, <2>1 DEF X!At
    <2>2. CASE q # r
      <3>1. export'[q] = export[q] /\ X!Name(q)' = X!Name(q)
        BY <1>2, <2>2
      <3>2. Shared(q) => Shared(q)'
        BY <1>1, <1>2, <3>1 DEF Shared
      <3>3. X!Name(q) \in DOMAIN file /\ q \in file[X!Name(q)] => q \in file'[X!Name(q)]
        BY <1>3
      <3> QED BY <1>3, <3>1, <3>2, <3>3 DEF Filed, X!At
    <2> QED BY <2>1, <2>2
  <1> QED BY <1>1, <1>2, <1>4, <1>5 DEF ExportShape, Filed

LEMMA EInvHolds == Spec => []EInv
  <1>1. Init => EInv
    BY DEF Init, X!Init, EInv, ExportShape, OwnNames, Filed, X!At, NotBegun
  <1>2. EInv /\ [Next]_vars => EInv'
    <2> SUFFICES ASSUME EInv, [X!Next]_exports PROVE EInv'
      BY StepOfEach
    <2>1. CASE X!Tick
      <3>1. Quiet
        BY <2>1 DEF X!Tick, Quiet, EInv, ExportShape, X!At, X!Name
      <3> QED BY <3>1, QuietKeeps
    <2>2. CASE UNCHANGED exports
      <3>1. Quiet
        BY <2>2 DEF exports, Quiet, EInv, ExportShape, X!At, X!Name
      <3> QED BY <3>1, QuietKeeps
    <2> QED BY <2>1, <2>2, QuietSteps, QuietKeeps, OpenKeeps, FillKeeps DEF X!Next
  <1> QED BY <1>1, <1>2, PTL DEF Spec

(* A file whose address was answered holds that report alone, also later,  *)
(* unless another export began with its name.                              *)
THEOREM FilesHold == Spec => []FilesHoldReports
  <1>1. EInv => FilesHoldReports
    <2> SUFFICES ASSUME EInv, NEW r \in Requests, X!At(r, "answered"),
                        \A s \in Requests \ {r} : X!Named(s) => ~X!SameName(r, s)
                 PROVE  file[X!Name(r)] = {r} /\ X!Name(r) \in DOMAIN file
      BY DEF FilesHoldReports, X!FilesHoldReports
    <2>1. \A s \in Requests \ {r} : export[s] \in Called => X!Name(s) # X!Name(r)
      BY CalledByState, SameNames DEF EInv
    <2>2. X!Name(r) \in DOMAIN file /\ r \in file[X!Name(r)]
      BY <2>1 DEF EInv, Filed, Shared
    <2>3. \A s \in file[X!Name(r)] : s = r
      BY <2>1, <2>2 DEF EInv, OwnNames
    <2> QED BY <2>2, <2>3
  <1> QED BY <1>1, EInvHolds, PTL

-----------------------------------------------------------------------------
(* Permissions.                                                            *)
Clearing == {"keys", "del"}
KeyPrefixes == {"permissions", "user", "roles"}

(* A writer that clears knows the prefixes it still has to clear, and      *)
(* there is one.                                                           *)
ClearShape ==
  /\ watched \in P!Answers
  /\ writer = [c \in Writers |-> writer[c]]
  /\ \A c \in Writers :
       writer[c].pc \in Clearing =>
         /\ writer[c] = [pc |-> writer[c].pc, kind |-> writer[c].kind, todo |-> writer[c].todo]
         /\ writer[c].todo \in Seq(KeyPrefixes) /\ writer[c].todo # <<>>
  /\ kept # Missing => kept = [value |-> kept.value, excused |-> kept.excused]

(* The writer c is going to clear the watched key and was told to.         *)
WillClear(c) ==
  /\ writer[c].pc \in Clearing /\ writer[c].kind \in P!Told
  /\ P!Prefix \in P!ToSet(writer[c].todo)

KInv == ClearShape /\ P!KeptIsTrue

-----------------------------------------------------------------------------
(* Every change an answer is told of clears the answer's prefix.           *)
LEMMA ToldClears ==
  ASSUME watched \in P!Answers, NEW kind \in P!Told
  PROVE  /\ kind \in DOMAIN P!Clears /\ P!ClearsAfter(kind) # <<>>
         /\ P!Prefix \in P!ToSet(P!ClearsAfter(kind))
  <1>1. CASE watched \in {"list", "role"}
    <2>1. P!ClearsAfter(kind)[1] = P!Prefix
      BY <1>1 DEF P!Told, P!Clears, P!ClearsAfter, P!Prefix
    <2>2. 1 \in DOMAIN P!ClearsAfter(kind) /\ P!ClearsAfter(kind) # <<>> /\ kind \in DOMAIN P!Clears
      BY <1>1 DEF P!Told, P!Clears, P!ClearsAfter
    <2> QED BY <2>1, <2>2 DEF P!ToSet
  <1>2. CASE watched = "user"
    <2>1. \E i \in DOMAIN P!ClearsAfter(kind) : P!ClearsAfter(kind)[i] = P!Prefix
      <3>1. CASE kind = "updatePermission"
        <4>1. P!ClearsAfter(kind) = <<"permissions", "user">> /\ P!Prefix = "user"
          BY <1>2, <3>1 DEF P!Clears, P!ClearsAfter, P!Prefix
        <4>2. 2 \in DOMAIN P!ClearsAfter(kind) /\ P!ClearsAfter(kind)[2] = "user"
          BY <4>1
        <4> QED BY <4>1, <4>2
      <3>2. CASE kind # "updatePermission"
        <4>1. P!ClearsAfter(kind) = <<"user">> /\ P!Prefix = "user"
          BY <1>2, <3>2 DEF P!Told, P!Clears, P!ClearsAfter, P!Prefix
        <4> QED BY <4>1
      <3> QED BY <3>1, <3>2
    <2>2. kind \in DOMAIN P!Clears
      BY <1>2 DEF P!Told, P!Clears
    <2>3. P!ClearsAfter(kind) # <<>>
      <3>1. DOMAIN <<>> = {}
        OBVIOUS
      <3> QED BY <2>1, <3>1
    <2> QED BY <2>1, <2>2, <2>3 DEF P!ToSet
  <1>3. CASE watched = "roles"
    <2>1. P!ClearsAfter(kind) = <<"roles">> /\ P!Prefix = "roles" /\ kind \in DOMAIN P!Clears
      BY <1>3 DEF P!Told, P!Clears, P!ClearsAfter, P!Prefix
    <2>2. 1 \in DOMAIN <<"roles">> /\ <<"roles">>[1] = "roles" /\ <<"roles">> # <<>>
      OBVIOUS
    <2> QED BY <2>1, <2>2 DEF P!ToSet
  <1> QED BY <1>1, <1>2, <1>3 DEF P!Answers

LEMMA ClearsShape ==
  ASSUME NEW kind \in DOMAIN P!Clears
  PROVE  P!ClearsAfter(kind) \in Seq(KeyPrefixes)
  <1>1. P!ClearsAfter(kind) \in
          {<<>>, <<"permissions">>, <<"permissions", "user">>, <<"user">>, <<"roles">>}
    BY DEF P!Clears, P!ClearsAfter
  <1>2. <<>> \in Seq(KeyPrefixes)
    OBVIOUS
  <1>3. \A a \in KeyPrefixes : <<a>> \in Seq(KeyPrefixes)
    OBVIOUS
  <1>4. \A a, b \in KeyPrefixes : <<a, b>> \in Seq(KeyPrefixes)
    OBVIOUS
  <1>5. "permissions" \in KeyPrefixes /\ "user" \in KeyPrefixes /\ "roles" \in KeyPrefixes
    BY DEF KeyPrefixes
  <1> QED BY <1>1, <1>2, <1>3, <1>4, <1>5, Zenon

(* What is left after the first of a list.                                 *)
LEMMA TailKeeps ==
  ASSUME NEW s \in Seq(KeyPrefixes), s # <<>>
  PROVE  /\ Tail(s) \in Seq(KeyPrefixes)
         /\ \A x \in P!ToSet(s) : x # Head(s) => x \in P!ToSet(Tail(s)) /\ Tail(s) # <<>>
  <1>1. Tail(s) \in Seq(KeyPrefixes)
    OBVIOUS
  <1>2. ASSUME NEW x \in P!ToSet(s), x # Head(s)
        PROVE  x \in P!ToSet(Tail(s)) /\ Tail(s) # <<>>
    <2>1. PICK i \in 1..Len(s) : s[i] = x
      BY DEF P!ToSet
    <2>2. i # 1 /\ Len(s) \in Nat
      BY <1>2, <2>1
    <2>3. i - 1 \in 1..Len(s) - 1 /\ Len(Tail(s)) = Len(s) - 1
      BY <2>2
    <2>4. Tail(s)[i - 1] = s[i - 1 + 1]
      BY <2>3
    <2>5. Tail(s)[i - 1] = x /\ i - 1 \in DOMAIN Tail(s)
      BY <1>1, <2>1, <2>3, <2>4
    <2>6. Tail(s) # <<>>
      <3>1. Len(Tail(s)) # 0 /\ Len(<<>>) = 0
        BY <2>2, <2>3
      <3> QED BY <3>1
    <2> QED BY <2>5, <2>6 DEF P!ToSet
  <1> QED BY <1>1, <1>2

(* Going on to the next prefix keeps the shape of the writers, touches no  *)
(* other one and leaves out none but the first.                            *)
LEMMA NextClearKeeps ==
  ASSUME ClearShape, NEW c \in Writers, writer[c].pc \in Clearing, writer' = P!NextClear(c)
  PROVE  /\ writer' = [d \in Writers |-> writer'[d]]
         /\ \A d \in Writers \ {c} : writer'[d] = writer[d]
         /\ writer'[c].pc \in Clearing =>
              /\ writer'[c] = [pc |-> writer'[c].pc, kind |-> writer'[c].kind,
                               todo |-> writer'[c].todo]
              /\ writer'[c].todo \in Seq(KeyPrefixes) /\ writer'[c].todo # <<>>
         /\ WillClear(c) /\ Head(writer[c].todo) # P!Prefix =>
              /\ writer'[c].pc \in Clearing /\ writer'[c].kind \in P!Told
              /\ P!Prefix \in P!ToSet(writer'[c].todo)
  <1> DEFINE rest == Tail(writer[c].todo)
  <1>1. /\ rest \in Seq(KeyPrefixes)
        /\ WillClear(c) /\ Head(writer[c].todo) # P!Prefix => P!Prefix \in P!ToSet(rest) /\ rest # <<>>
    BY TailKeeps DEF ClearShape, WillClear
  <1>2. writer' = [writer EXCEPT ![c] =
          IF rest = <<>> THEN [pc |-> "idle"]
          ELSE [pc |-> "keys", kind |-> writer[c].kind, todo |-> rest]]
    BY DEF P!NextClear
  <1> HIDE DEF rest
  <1>3. /\ writer' = [d \in Writers |-> writer'[d]]
        /\ \A d \in Writers \ {c} : writer'[d] = writer[d]
        /\ writer'[c] = IF rest = <<>> THEN [pc |-> "idle"]
                        ELSE [pc |-> "keys", kind |-> writer[c].kind, todo |-> rest]
    BY <1>2 DEF ClearShape
  <1> QED BY <1>1, <1>3 DEF Clearing, WillClear

-----------------------------------------------------------------------------
(* Steps after which the database says the same and nothing new is kept.   *)
LEMMA SameTruth ==
  ASSUME UNCHANGED <<watched, db>>
  PROVE  P!Truth' = P!Truth /\ P!Told' = P!Told /\ P!Prefix' = P!Prefix
  BY DEF P!Truth, P!Told, P!Prefix, P!GetPermissionsByRoles, P!There

LEMMA ReadersKeep ==
  ASSUME KInv, NEW q \in Readers,
         P!GetMiss(q) \/ P!GetUserRoles(q) \/ P!GetPermissions(q) \/ P!Query(q) \/ P!Set(q)
  PROVE  KInv'
  <1>0. UNCHANGED <<watched, db, writer>>
    BY DEF P!GetMiss, P!GetUserRoles, P!GetPermissions, P!Query, P!Set
  <1>1. P!Truth' = P!Truth /\ P!Told' = P!Told /\ P!Prefix' = P!Prefix
    BY <1>0, SameTruth
  <1>2. CASE UNCHANGED kept
    BY <1>0, <1>1, <1>2 DEF KInv, ClearShape, P!KeptIsTrue
  <1>3. CASE kept' = [value |-> reader[q].value, excused |-> reader[q].value # P!Truth]
    <2>1. kept'.value = reader[q].value /\ (kept'.excused <=> reader[q].value # P!Truth)
          /\ kept' = [value |-> kept'.value, excused |-> kept'.excused]
      BY <1>3
    <2>2. P!KeptIsTrue'
      BY <1>1, <2>1 DEF P!KeptIsTrue
    <2> QED BY <1>0, <2>1, <2>2 DEF KInv, ClearShape
  <1> QED BY <1>2, <1>3 DEF P!GetMiss, P!GetUserRoles, P!GetPermissions, P!Query, P!Set

LEMMA ExpireKeeps ==
  ASSUME KInv, P!Expire
  PROVE  KInv'
  BY DEF KInv, ClearShape, P!KeptIsTrue, P!Expire

(* A writer that clears nothing yet is not the one an answer waits for.    *)
LEMMA BeforeClearing ==
  ASSUME KInv, NEW c \in Writers, writer[c].pc \notin Clearing,
         NEW next, next.pc \notin Clearing, writer' = [writer EXCEPT ![c] = next],
         UNCHANGED <<watched, db, kept>>
  PROVE  KInv'
  <1>1. P!Truth' = P!Truth /\ P!Told' = P!Told /\ P!Prefix' = P!Prefix
    BY SameTruth
  <1>2. /\ writer'[c] = next /\ \A d \in Writers \ {c} : writer'[d] = writer[d]
        /\ writer' = [d \in Writers |-> writer'[d]]
    BY DEF KInv, ClearShape
  <1>3. ClearShape'
    BY <1>2 DEF KInv, ClearShape
  <1>4. P!KeptIsTrue'
    BY <1>1, <1>2 DEF KInv, P!KeptIsTrue, Clearing
  <1> QED BY <1>3, <1>4 DEF KInv

LEMMA WriteKeeps ==
  ASSUME KInv, NEW c \in Writers, NEW kind \in DOMAIN P!Clears, P!Write(c, kind)
  PROVE  KInv'
  <1> DEFINE next == IF P!ClearsAfter(kind) = <<>> THEN [pc |-> "idle"]
                     ELSE [pc |-> "keys", kind |-> kind, todo |-> P!ClearsAfter(kind)]
  <1>1. writer[c].pc \notin Clearing
    BY DEF P!Write, Clearing
  <1>2. writer' = [writer EXCEPT ![c] = next] /\ UNCHANGED watched
    BY DEF P!Write
  <1>3. /\ next.pc \in Clearing =>
             /\ next = [pc |-> next.pc, kind |-> next.kind, todo |-> next.todo]
             /\ next.todo \in Seq(KeyPrefixes) /\ next.todo # <<>>
        /\ kind \in P!Told => next.pc \in Clearing /\ next.kind = kind /\ P!Prefix \in P!ToSet(next.todo)
    BY ToldClears, ClearsShape DEF KInv, ClearShape, Clearing
  <1> HIDE DEF next
  <1>4. /\ writer'[c] = next /\ \A d \in Writers \ {c} : writer'[d] = writer[d]
        /\ writer' = [d \in Writers |-> writer'[d]]
    BY <1>2 DEF KInv, ClearShape
  <1>5. P!Told' = P!Told /\ P!Prefix' = P!Prefix
    BY <1>2 DEF P!Told, P!Prefix
  <1>6. kept' = IF kept # Missing /\ kind \notin P!Told THEN [kept EXCEPT !.excused = TRUE] ELSE kept
    BY DEF P!Write
  <1>7. /\ kept' # Missing => kept' = [value |-> kept'.value, excused |-> kept'.excused]
        /\ kind \notin P!Told /\ kept' # Missing => kept'.excused
    BY <1>6 DEF KInv, ClearShape
  <1>8. ClearShape'
    BY <1>2, <1>3, <1>4, <1>7 DEF KInv, ClearShape
  <1>9. P!KeptIsTrue'
    <2>1. CASE kind \in P!Told
      <3>1. /\ writer'[c].pc \in {"keys", "del"} /\ writer'[c].kind \in P!Told'
            /\ P!Prefix' \in P!ToSet(writer'[c].todo)
        BY <1>3, <1>4, <1>5, <2>1 DEF Clearing
      <3> QED BY <3>1 DEF P!KeptIsTrue
    <2>2. CASE kind \notin P!Told
      BY <1>7, <2>2 DEF P!KeptIsTrue
    <2> QED BY <2>1, <2>2
  <1> QED BY <1>8, <1>9 DEF KInv

(* Clearing: an answer that is true or excused stays so, and one that      *)
(* waits for the writer is deleted, excused, or not yet its turn.          *)
LEMMA ClearKeeps ==
  ASSUME KInv, NEW c \in Writers, P!Keys(c) \/ P!Del(c) \/ P!ClearFails(c)
  PROVE  KInv'
  <1>0. writer[c].pc \in Clearing /\ UNCHANGED <<watched, db>>
    BY DEF P!Keys, P!Del, P!ClearFails, Clearing
  <1>1. P!Truth' = P!Truth /\ P!Told' = P!Told /\ P!Prefix' = P!Prefix
    BY <1>0, SameTruth
  <1>2. CASE P!Keys(c) /\ kept # Missing /\ Head(writer[c].todo) = P!Prefix
    <2>1. writer' = [writer EXCEPT ![c].pc = "del"] /\ UNCHANGED kept
      BY <1>2 DEF P!Keys
    <2>2. /\ writer'[c] = [pc |-> "del", kind |-> writer[c].kind, todo |-> writer[c].todo]
          /\ \A d \in Writers \ {c} : writer'[d] = writer[d]
          /\ writer' = [d \in Writers |-> writer'[d]]
      BY <1>0, <2>1 DEF KInv, ClearShape
    <2>3. ClearShape'
      BY <1>0, <2>1, <2>2 DEF KInv, ClearShape
    <2>4. P!KeptIsTrue'
      BY <1>0, <1>1, <2>1, <2>2 DEF KInv, P!KeptIsTrue, Clearing
    <2> QED BY <2>3, <2>4 DEF KInv
  <1>3. CASE writer' = P!NextClear(c) /\ kept' = kept /\ (kept = Missing \/ Head(writer[c].todo) # P!Prefix)
    <2>1. ClearShape'
      BY <1>0, <1>3, NextClearKeeps DEF KInv, ClearShape
    <2>2. P!KeptIsTrue'
      <3> SUFFICES ASSUME kept # Missing, kept.value # P!Truth, ~kept.excused
                   PROVE  \E d \in Writers :
                            /\ writer'[d].pc \in {"keys", "del"} /\ writer'[d].kind \in P!Told
                            /\ P!Prefix \in P!ToSet(writer'[d].todo)
        BY <1>1, <1>3 DEF P!KeptIsTrue
      <3>1. PICK d \in Writers : WillClear(d)
        BY DEF KInv, P!KeptIsTrue, WillClear, Clearing
      <3> QED BY <1>0, <1>3, <3>1, NextClearKeeps DEF KInv, WillClear, Clearing
    <2> QED BY <2>1, <2>2 DEF KInv
  <1>4. CASE writer' = P!NextClear(c) /\ kept' = Missing
    <2>1. ClearShape'
      BY <1>0, <1>4, NextClearKeeps DEF KInv, ClearShape
    <2> QED BY <1>4, <2>1 DEF KInv, P!KeptIsTrue
  <1>5. CASE writer' = P!NextClear(c) /\ kept # Missing /\ kept' = [kept EXCEPT !.excused = TRUE]
    <2>1. kept' = [value |-> kept'.value, excused |-> kept'.excused] /\ kept'.excused
      BY <1>5 DEF KInv, ClearShape
    <2>2. ClearShape'
      BY <1>0, <1>5, <2>1, NextClearKeeps DEF KInv, ClearShape
    <2>3. P!KeptIsTrue'
      BY <2>1 DEF P!KeptIsTrue
    <2> QED BY <2>2, <2>3 DEF KInv
  <1>6. \/ P!Keys(c) /\ kept # Missing /\ Head(writer[c].todo) = P!Prefix
        \/ writer' = P!NextClear(c) /\ kept' = kept /\ (kept = Missing \/ Head(writer[c].todo) # P!Prefix)
        \/ writer' = P!NextClear(c) /\ kept' = Missing
        \/ writer' = P!NextClear(c) /\ kept # Missing /\ kept' = [kept EXCEPT !.excused = TRUE]
    BY DEF P!Keys, P!Del, P!ClearFails
  <1> QED BY <1>2, <1>3, <1>4, <1>5, <1>6

(* A kept answer is what the database says, or a change it is told of is   *)
(* about to clear it, unless it was stored late, nobody tells it of the    *)
(* change, or Redis failed.                                                *)
THEOREM AnswersAreTrue == Spec => []KeptIsTrue
  <1>1. Init => KInv
    BY DEF Init, P!Init, KInv, ClearShape, P!KeptIsTrue, Clearing
  <1>2. KInv /\ [Next]_vars => KInv'
    <2> SUFFICES ASSUME KInv, [P!Next]_permissions PROVE KInv'
      BY StepOfEach
    <2>1. ASSUME NEW c \in Writers, NEW kind \in DOMAIN P!Clears, P!CheckInUse(c, kind)
          PROVE  KInv'
      <3>1. [pc |-> "write", kind |-> kind].pc \notin Clearing /\ writer[c].pc \notin Clearing
        BY <2>1 DEF P!CheckInUse, Clearing
      <3> QED BY <2>1, <3>1, BeforeClearing DEF P!CheckInUse
    <2>2. ASSUME NEW c \in Writers, P!WriteFails(c)
          PROVE  KInv'
      <3>1. [pc |-> "idle"].pc \notin Clearing /\ writer[c].pc \notin Clearing
        BY <2>2 DEF P!WriteFails, Clearing
      <3> QED BY <2>2, <3>1, BeforeClearing DEF P!WriteFails
    <2>3. CASE UNCHANGED permissions
      <3>1. P!Truth' = P!Truth /\ P!Told' = P!Told /\ P!Prefix' = P!Prefix
        BY <2>3, SameTruth DEF permissions
      <3> QED BY <2>3, <3>1 DEF permissions, KInv, ClearShape, P!KeptIsTrue
    <2> QED BY <2>1, <2>2, <2>3, ExpireKeeps, ReadersKeep, WriteKeeps, ClearKeeps DEF P!Next
  <1>3. KInv => KeptIsTrue
    BY DEF KInv, KeptIsTrue
  <1> QED BY <1>1, <1>2, <1>3, PTL DEF Spec

-----------------------------------------------------------------------------
(* Rates.                                                                  *)
RatesShape ==
  /\ here \subseteq Groups
  /\ rate \in [Ids -> R!Rate \cup {Unborn, Gone}]
  /\ \A i \in Ids : R!Present(i) => rate[i].group \in here
  /\ \A i, j \in Ids : R!Present(i) /\ R!Present(j) /\ rate[i].group = rate[j].group => i = j

States == Ids \cup {"ask", "insert", "done", "failed"}
BatchRequests ==
  [pc : {"check", "write"}, batch : Seq([group : Groups, output : Outputs, active : BOOLEAN]), only : BOOLEAN,
   next : Nat, answered : BOOLEAN, item : Seq(States), news : SUBSET Groups]
OneRequests == [pc : {"one"}, id : Ids, new : RateChanges]
GroupRequests == [pc : {"groups"}, todo : SUBSET Groups, lost : SUBSET Groups]
RateRequests == {R!Idle} \cup BatchRequests \cup OneRequests \cup GroupRequests

(* A rate of the group of an item that has what the batch asks for.        *)
Covered(r, k) ==
  \/ req[r].batch[k].group \in req[r].news
  \/ \E i \in Ids, j \in DOMAIN req[r].batch :
       /\ req[r].batch[j].group = req[r].batch[k].group
       /\ R!Present(i) /\ rate[i] = R!RateAsked(req[r], j)

BatchSound(r) ==
  /\ \E b \in Batches[r] : b.items = req[r].batch
  /\ DOMAIN req[r].item = DOMAIN req[r].batch
  /\ req[r].next \in 1..(Len(req[r].batch) + 1)
  /\ req[r].pc = "check" => \A k \in DOMAIN req[r].item : req[r].item[k] = "ask"
  /\ \A k \in DOMAIN req[r].item : req[r].item[k] \in Ids =>
       LET i == req[r].item[k] IN
       rate[i] # Unborn /\ (R!Present(i) => rate[i].group = req[r].batch[k].group)
  /\ ~req[r].answered =>
       \A k \in DOMAIN req[r].item : req[r].item[k] = "done" => Covered(r, k)

RequestSound(r) ==
  /\ req[r] \in RateRequests
  /\ R!Batching(r) => BatchSound(r)
  /\ req[r].pc = "one" => rate[req[r].id] # Unborn
  /\ req[r].pc = "groups" => req[r].lost \cap here = {}

RatesInv ==
  /\ RatesShape /\ DOMAIN req = Callers
  /\ \A r \in Callers : RequestSound(r)

-----------------------------------------------------------------------------
LEMMA RequestByPc ==
  ASSUME NEW q \in RateRequests
  PROVE  /\ q.pc \in {"idle", "check", "write", "one", "groups"}
         /\ q.pc \in {"check", "write"} <=> q \in BatchRequests
         /\ q.pc = "one" <=> q \in OneRequests
         /\ q.pc = "groups" <=> q \in GroupRequests
  BY DEF RateRequests, R!Idle, BatchRequests, OneRequests, GroupRequests

LEMMA ElementOfSeq ==
  ASSUME NEW S, NEW s \in Seq(S), NEW k \in DOMAIN s
  PROVE  s[k] \in S
  OBVIOUS

LEMMA SameCardinality ==
  ASSUME NEW S
  PROVE  R!Cardinality(S) = Cardinality(S)
  BY DEF R!Cardinality, Cardinality

LEMMA RatesTyped ==
  ASSUME RatesInv
  PROVE  R!TypeOK
  <1>1. \A i \in Ids : R!Present(i) => rate[i] \in R!Rate /\ rate[i].group \in here
    BY DEF RatesInv, RatesShape, R!Present
  <1>2. ASSUME NEW g \in Groups PROVE Cardinality(R!RateOf(g)) <= 1
    <2>1. CASE R!RateOf(g) = {}
      BY <2>1, FS_EmptySet
    <2>2. CASE R!RateOf(g) # {}
      <3>1. PICK i \in Ids : R!RateOf(g) = {i}
        BY <2>2 DEF R!RateOf, RatesInv, RatesShape
      <3> QED BY <3>1, FS_Singleton
    <2> QED BY <2>1, <2>2
  <1>3. ASSUME NEW r \in Callers, R!Batching(r)
        PROVE  /\ req[r].batch \in {b.items : b \in Batches[r]}
               /\ req[r].next \in 1..(Len(req[r].batch) + 1)
               /\ \A k \in DOMAIN req[r].item :
                    req[r].item[k] \in Ids \cup {"ask", "insert", "done", "failed"}
    <2>1. req[r] \in BatchRequests
      BY <1>3, RequestByPc DEF RatesInv, RequestSound, R!Batching
    <2>2. req[r].item \in Seq(States)
      BY <2>1 DEF BatchRequests
    <2> QED BY <1>3, <2>2 DEF RatesInv, RequestSound, BatchSound, States
  <1>4. \A g \in Groups : R!Cardinality(R!RateOf(g)) <= 1
    BY <1>2, SameCardinality
  <1> QED BY <1>1, <1>3, <1>4, RequestByPc DEF R!TypeOK, RatesInv, RatesShape, RequestSound

(* What another request goes on with after one rate was written.           *)
LEMMA WriteElsewhere ==
  ASSUME RatesInv, NEW r \in Callers, NEW s \in Callers, s # r,
         NEW i \in Ids, NEW v \in R!Rate \cup {Gone}, NEW mine,
         rate[i] # Gone, R!Present(i) /\ v # Gone => v.group = rate[i].group,
         R!Write(r, [rate EXCEPT ![i] = v], mine), here' = here
  PROVE  RequestSound(s)'
  <1> DEFINE changed == {g \in Groups : \E j \in Ids : [rate EXCEPT ![i] = v][j] # rate[j] /\
                           \E w \in {[rate EXCEPT ![i] = v][j], rate[j]} \ {Unborn, Gone} : w.group = g}
             q == req[s]
  <1>1. /\ rate' = [rate EXCEPT ![i] = v]
        /\ req'[s] = IF R!Watched(s) THEN [q EXCEPT !.news = @ \cup changed] ELSE q
    BY DEF R!Write
  <1>2. q \in RateRequests
    BY DEF RatesInv, RequestSound
  <1>3. /\ \A j \in Ids : j # i => rate'[j] = rate[j]
        /\ rate'[i] = v /\ v # Unborn
    BY <1>1, RatesAssumption DEF RatesInv, RatesShape
  <1>4. v # Gone /\ v # rate[i] => v.group \in changed
    BY <1>1, <1>3, RatesAssumption DEF R!Rate, RatesInv, RatesShape
  <1>5. R!Present(i) /\ v # rate[i] => rate[i].group \in changed
    BY <1>1, <1>3, RatesAssumption DEF R!Rate, RatesInv, RatesShape, R!Present
  <1>6. changed \subseteq Groups
    OBVIOUS
  <1> HIDE DEF changed
  <1>7. CASE ~R!Batching(s)
    <2>1. req'[s] = q
      BY <1>1, <1>7 DEF R!Watched
    <2> QED BY <1>2, <1>3, <1>7, <2>1, RequestByPc DEF RatesInv, RequestSound, R!Batching, OneRequests
  <1>8. CASE R!Batching(s)
    <2>1. q \in BatchRequests /\ BatchSound(s)
      BY <1>2, <1>8, RequestByPc DEF RatesInv, RequestSound, R!Batching
    <2>2. /\ req'[s] \in BatchRequests /\ req'[s].pc = q.pc /\ req'[s].batch = q.batch /\ req'[s].only = q.only
          /\ req'[s].item = q.item /\ req'[s].next = q.next /\ req'[s].answered = q.answered
          /\ ~q.answered => req'[s].news = q.news \cup changed
      BY <1>1, <1>6, <1>8, <2>1 DEF BatchRequests, R!Watched
    <2>3. ASSUME NEW k \in DOMAIN q.item, q.item[k] \in Ids
          PROVE  rate'[q.item[k]] # Unborn /\
                 (rate'[q.item[k]] \notin {Unborn, Gone} => rate'[q.item[k]].group = q.batch[k].group)
      <3>1. rate[q.item[k]] # Unborn /\ (R!Present(q.item[k]) => rate[q.item[k]].group = q.batch[k].group)
        BY <2>1, <2>3 DEF BatchSound
      <3>2. CASE q.item[k] = i
        BY <1>3, <3>1, <3>2 DEF R!Present
      <3>3. CASE q.item[k] # i
        <4>1. rate'[q.item[k]] = rate[q.item[k]]
          BY <1>3, <2>3, <3>3
        <4> QED BY <3>1, <4>1 DEF R!Present
      <3> QED BY <3>2, <3>3
    <2>4. ASSUME ~q.answered, NEW k \in DOMAIN q.item, q.item[k] = "done"
          PROVE  Covered(s, k)'
      <3>1. Covered(s, k)
        BY <2>1, <2>4 DEF BatchSound
      <3>2. CASE q.batch[k].group \in q.news
        BY <2>2, <2>4, <3>2 DEF Covered
      <3>3. CASE q.batch[k].group \notin q.news
        <4>1. PICK h \in Ids, j \in DOMAIN q.batch :
                /\ q.batch[j].group = q.batch[k].group
                /\ R!Present(h) /\ rate[h] = R!RateAsked(q, j)
          BY <3>1, <3>3 DEF Covered
        <4>2. CASE h = i /\ v # rate[i]
          <5>1. rate[i].group = q.batch[k].group
            BY <4>1, <4>2 DEF R!RateAsked
          <5> QED BY <1>5, <2>2, <2>4, <4>1, <4>2, <5>1 DEF Covered
        <4>3. CASE ~(h = i /\ v # rate[i])
          <5>1. rate'[h] = rate[h]
            BY <1>3, <4>3
          <5>2. R!RateAsked(req'[s], j) = R!RateAsked(q, j)
            BY <2>2 DEF R!RateAsked
          <5> QED BY <2>2, <4>1, <5>1, <5>2 DEF Covered, R!Present
        <4> QED BY <4>2, <4>3
      <3> QED BY <3>2, <3>3
    <2>5. BatchSound(s)'
      BY <2>1, <2>2, <2>3, <2>4 DEF BatchSound, R!Present
    <2> QED BY <2>2, <2>5, RequestByPc DEF RequestSound, RateRequests
  <1> QED BY <1>7, <1>8

LEMMA WriteShape ==
  ASSUME RatesInv, NEW i \in Ids, NEW v \in R!Rate \cup {Gone},
         rate' = [rate EXCEPT ![i] = v], here' = here,
         v # Gone => /\ v.group \in here
                     /\ \A j \in Ids \ {i} : R!Present(j) => rate[j].group # v.group
  PROVE  RatesShape'
  <1>1. rate' \in [Ids -> R!Rate \cup {Unborn, Gone}] /\ rate'[i] = v
        /\ \A j \in Ids \ {i} : rate'[j] = rate[j]
    BY DEF RatesInv, RatesShape
  <1> QED BY <1>1 DEF RatesInv, RatesShape, R!Present

(* What one request does leaves the others as they are.                    *)
LEMMA OthersAlone ==
  ASSUME RatesInv, NEW r \in Callers, NEW q, req' = [req EXCEPT ![r] = q],
         rate' = rate, here' = here, RequestSound(r)'
  PROVE  RatesInv'
  <1>1. ASSUME NEW s \in Callers, s # r
        PROVE  RequestSound(s)'
    <2>1. req'[s] = req[s]
      BY <1>1 DEF RatesInv
    <2>2. ASSUME NEW k PROVE Covered(s, k)' = Covered(s, k)
      BY <2>1 DEF Covered, R!Present, R!RateAsked
    <2> QED BY <2>1, <2>2, <1>1 DEF RatesInv, RequestSound, BatchSound, R!Batching, R!Present
  <1> QED BY <1>1 DEF RatesInv, RatesShape, R!Present

(* One item of a batch goes on.                                            *)
LEMMA ItemMoves ==
  ASSUME RatesInv, NEW r \in Callers, NEW k \in DOMAIN req[r].item, req[r].pc = "write",
         NEW st \in States, req'[r] = [req[r] EXCEPT !.item[k] = st]
  PROVE  /\ req[r] \in BatchRequests /\ BatchSound(r) /\ k \in DOMAIN req[r].batch
         /\ req'[r] \in BatchRequests /\ req'[r].pc = "write" /\ req'[r].batch = req[r].batch
         /\ req'[r].next = req[r].next /\ req'[r].answered = req[r].answered
         /\ req'[r].only = req[r].only /\ req'[r].news = req[r].news /\ DOMAIN req'[r].item = DOMAIN req[r].item
         /\ req'[r].item[k] = st
         /\ \A j \in DOMAIN req[r].item : j # k => req'[r].item[j] = req[r].item[j]
  <1> DEFINE q == req[r]  t == [q.item EXCEPT ![k] = st]
  <1>1. q \in BatchRequests /\ BatchSound(r)
    BY RequestByPc DEF RatesInv, RequestSound, R!Batching
  <1>2. t \in Seq(States) /\ DOMAIN t = DOMAIN q.item /\ t[k] = st
        /\ \A j \in DOMAIN q.item : j # k => t[j] = q.item[j]
    BY <1>1 DEF BatchRequests
  <1>3. req'[r] = [q EXCEPT !.item = t]
    OBVIOUS
  <1> HIDE DEF t
  <1>4. req'[r] \in BatchRequests /\ req'[r].pc = q.pc /\ req'[r].batch = q.batch
        /\ req'[r].next = q.next /\ req'[r].answered = q.answered /\ req'[r].news = q.news
        /\ req'[r].only = q.only
        /\ req'[r].item = t
    BY <1>1, <1>2, <1>3 DEF BatchRequests
  <1> QED BY <1>1, <1>2, <1>4 DEF BatchSound

(* An item that looks, or fails.                                           *)
LEMMA LooksKeep ==
  ASSUME RatesInv, NEW r \in Callers, NEW k, R!FindRate(r, k) \/ R!ItemFails(r, k)
  PROVE  RatesInv'
  <1> DEFINE F == R!RateOf(req[r].batch[k].group)
             st == IF R!ItemFails(r, k) THEN "failed"
                   ELSE IF F = {} THEN "insert" ELSE IF req[r].only THEN "failed" ELSE CHOOSE i \in F : TRUE
  <1>1. PICK s \in States \ {"done"} :
          /\ k \in DOMAIN req[r].item /\ req[r].pc = "write"
          /\ req' = [req EXCEPT ![r].item[k] = s] /\ rate' = rate /\ here' = here
          /\ s \in Ids => R!Present(s) /\ rate[s].group = req[r].batch[k].group
    <2>1. CASE R!ItemFails(r, k)
      BY <2>1, RatesAssumption DEF R!ItemFails, R!At, States
    <2>2. CASE R!FindRate(r, k)
      <3>1. F # {} => (CHOOSE i \in F : TRUE) \in F
        OBVIOUS
      <3>2. \A i \in F : i \in Ids /\ i # "done" /\ R!Present(i) /\ rate[i].group = req[r].batch[k].group
        BY RatesAssumption DEF R!RateOf
      <3>3. "insert" \notin Ids /\ "failed" \notin Ids
        BY RatesAssumption
      <3> QED BY <2>2, <3>1, <3>2, <3>3 DEF R!FindRate, R!At, States
    <2> QED BY <2>1, <2>2
  <1>2. req'[r] = [req[r] EXCEPT !.item[k] = s]
    BY <1>1 DEF RatesInv
  <1>3. /\ req[r] \in BatchRequests /\ BatchSound(r) /\ k \in DOMAIN req[r].batch
        /\ req'[r] \in BatchRequests /\ req'[r].pc = "write" /\ req'[r].batch = req[r].batch
        /\ req'[r].next = req[r].next /\ req'[r].answered = req[r].answered
        /\ req'[r].only = req[r].only /\ req'[r].news = req[r].news
        /\ DOMAIN req'[r].item = DOMAIN req[r].item /\ req'[r].item[k] = s
        /\ \A j \in DOMAIN req[r].item : j # k => req'[r].item[j] = req[r].item[j]
    BY <1>1, <1>2, ItemMoves
  <1>4. \A j \in DOMAIN req[r].item : req'[r].item[j] = "done" => req[r].item[j] = "done"
    BY <1>1, <1>3
  <1>5. ASSUME NEW j PROVE Covered(r, j)' = Covered(r, j)
    <2>1. \A n : R!RateAsked(req'[r], n) = R!RateAsked(req[r], n)
      BY <1>3 DEF R!RateAsked
    <2> QED BY <1>1, <1>3, <2>1 DEF Covered, R!Present
  <1>6. BatchSound(r)'
    <2>1. ASSUME NEW j \in DOMAIN req[r].item, req'[r].item[j] \in Ids
          PROVE  LET i == req'[r].item[j] IN
                 rate'[i] # Unborn /\
                 (rate'[i] \notin {Unborn, Gone} => rate'[i].group = req'[r].batch[j].group)
      <3>1. CASE j = k
        BY <1>1, <1>3, <2>1, <3>1 DEF R!Present
      <3>2. CASE j # k
        <4>1. req'[r].item[j] = req[r].item[j] /\ rate' = rate /\ req'[r].batch = req[r].batch
          BY <1>1, <1>3, <3>2
        <4> QED BY <1>3, <2>1, <4>1 DEF BatchSound, R!Present
      <3> QED BY <3>1, <3>2
    <2>2. ~req'[r].answered =>
            \A j \in DOMAIN req'[r].item : req'[r].item[j] = "done" => Covered(r, j)'
      BY <1>3, <1>4, <1>5 DEF BatchSound
    <2> QED BY <1>3, <2>1, <2>2 DEF BatchSound, R!Present
  <1>7. RequestSound(r)'
    BY <1>3, <1>6 DEF RequestSound, RateRequests
  <1>8. req' = [req EXCEPT ![r] = req'[r]]
    BY <1>1 DEF RatesInv
  <1> QED BY <1>1, <1>7, <1>8, OthersAlone

(* An item that writes its rate is covered by it, and the other items of   *)
(* the batch are covered as before.                                        *)
LEMMA ItemWritesKeep ==
  ASSUME RatesInv, NEW r \in Callers, NEW k, NEW i \in Ids,
         R!InsertRate(r, k, i) \/ R!UpdateRate(r, k, i)
  PROVE  RatesInv'
  <1> DEFINE q == req[r]  v == R!Written(i, q, q.batch[k])  mine == [q EXCEPT !.item[k] = "done"]
  <1>1. /\ k \in DOMAIN q.item /\ q.pc = "write" /\ here' = here /\ rate[i] # Gone
        /\ R!Write(r, [rate EXCEPT ![i] = v], mine)
    BY RatesAssumption DEF R!InsertRate, R!UpdateRate, R!At, R!Present
  <1>2. req'[r] = mine /\ rate' = [rate EXCEPT ![i] = v] /\ DOMAIN req' = Callers
    BY <1>1 DEF R!Write
  <1>3. /\ q \in BatchRequests /\ BatchSound(r) /\ k \in DOMAIN q.batch
        /\ req'[r] \in BatchRequests /\ req'[r].pc = "write" /\ req'[r].batch = q.batch
        /\ req'[r].next = q.next /\ req'[r].answered = q.answered
        /\ req'[r].only = q.only /\ req'[r].news = q.news /\ DOMAIN req'[r].item = DOMAIN q.item
        /\ req'[r].item[k] = "done"
        /\ \A j \in DOMAIN q.item : j # k => req'[r].item[j] = q.item[j]
    BY <1>1, <1>2, ItemMoves DEF States
  <1>4. v = [group |-> q.batch[k].group, output |-> q.batch[k].output,
             active |-> q.only => q.batch[k].active]
    BY DEF R!Written
  <1>5. v \in R!Rate /\ v = R!RateAsked(q, k) /\ v.group = q.batch[k].group
    <2>1. q.batch[k] \in [group : Groups, output : Outputs, active : BOOLEAN]
      <3> DEFINE G == [group : Groups, output : Outputs, active : BOOLEAN]
      <3>1. q.batch \in Seq(G) /\ k \in DOMAIN q.batch
        BY <1>3 DEF BatchRequests
      <3> HIDE DEF G
      <3>2. \A t \in Seq(G) : \A n \in DOMAIN t : t[n] \in G
        BY ElementOfSeq
      <3>3. q.batch[k] \in G
        BY <3>1, <3>2
      <3> QED BY <3>3 DEF G
    <2>2. v = R!RateAsked(q, k) /\ v.group = q.batch[k].group
      BY DEF R!Written, R!RateAsked
    <2>3. v \in R!Rate
      BY <1>4, <2>1 DEF R!Rate
    <2> QED BY <2>2, <2>3
  <1> HIDE DEF v, mine
  <1>6. v \notin {Unborn, Gone}
    BY <1>5, RatesAssumption
  <1>7. R!Present(i) => rate[i].group = v.group
    <2>1. CASE R!InsertRate(r, k, i)
      BY <2>1 DEF R!InsertRate, R!Present
    <2>2. CASE R!UpdateRate(r, k, i)
      <3>1. q.item[k] = i
        BY <2>2 DEF R!UpdateRate, R!At
      <3> QED BY <1>1, <1>3, <1>5, <3>1 DEF BatchSound
    <2> QED BY <2>1, <2>2
  <1>8. v.group \in here /\ \A j \in Ids \ {i} : R!Present(j) => rate[j].group # v.group
    <2>1. CASE R!Present(i)
      BY <1>7, <2>1 DEF RatesInv, RatesShape
    <2>2. CASE ~R!Present(i)
      BY <1>5, <2>2 DEF R!InsertRate, R!UpdateRate, R!RateOf
    <2> QED BY <2>1, <2>2
  <1>9. RatesShape'
    BY <1>1, <1>2, <1>5, <1>8, WriteShape
  <1>10. ASSUME NEW s \in Callers, s # r PROVE RequestSound(s)'
    BY <1>1, <1>5, <1>7, <1>10, WriteElsewhere
  <1>11. rate'[i] = v /\ \A j \in Ids : j # i => rate'[j] = rate[j]
    BY <1>2 DEF RatesInv, RatesShape
  <1>12. ASSUME NEW j \in DOMAIN q.item, req'[r].item[j] \in Ids
         PROVE  /\ rate'[req'[r].item[j]] # Unborn
                /\ rate'[req'[r].item[j]] \notin {Unborn, Gone} =>
                     rate'[req'[r].item[j]].group = q.batch[j].group
    <2>1. j # k /\ req'[r].item[j] = q.item[j]
      BY <1>3, <1>12, RatesAssumption
    <2> DEFINE h == q.item[j]
    <2>2. rate[h] # Unborn /\ (rate[h] \notin {Unborn, Gone} => rate[h].group = q.batch[j].group)
      BY <1>3, <1>12, <2>1 DEF BatchSound, R!Present
    <2>3. h \in Ids /\ req'[r].item[j] = h
      BY <1>12, <2>1
    <2> HIDE DEF h
    <2>4. CASE h = i
      BY <1>1, <1>6, <1>7, <1>11, <2>2, <2>3, <2>4 DEF R!Present
    <2>5. CASE h # i
      BY <1>11, <2>2, <2>3, <2>5
    <2> QED BY <2>4, <2>5
  <1>13. ASSUME ~q.answered, NEW j \in DOMAIN q.item, req'[r].item[j] = "done"
         PROVE  Covered(r, j)'
    <2>1. CASE q.batch[j].group = q.batch[k].group
      <3>1. R!RateAsked(req'[r], k) = v
        BY <1>3, <1>5 DEF R!RateAsked
      <3> QED BY <1>2, <1>3, <1>6, <1>11, <2>1, <3>1 DEF Covered, R!Present
    <2>2. CASE q.batch[j].group # q.batch[k].group
      <3>1. Covered(r, j)
        BY <1>3, <1>13, <2>2 DEF BatchSound
      <3>2. CASE q.batch[j].group \in q.news
        BY <1>3, <3>2 DEF Covered
      <3>3. CASE q.batch[j].group \notin q.news
        <4>1. PICK h \in Ids, n \in DOMAIN q.batch :
                /\ q.batch[n].group = q.batch[j].group
                /\ R!Present(h) /\ rate[h] = R!RateAsked(q, n)
          BY <3>1, <3>3 DEF Covered
        <4>2. h # i
          BY <1>5, <1>7, <2>2, <4>1 DEF R!RateAsked
        <4>3. rate'[h] = rate[h]
          BY <1>11, <4>2
        <4>4. R!RateAsked(req'[r], n) = R!RateAsked(q, n)
          BY <1>3 DEF R!RateAsked
        <4> QED BY <1>3, <4>1, <4>3, <4>4 DEF Covered, R!Present
      <3> QED BY <3>2, <3>3
    <2> QED BY <2>1, <2>2
  <1>14. BatchSound(r)'
    BY <1>3, <1>12, <1>13 DEF BatchSound, R!Present
  <1>15. RequestSound(r)'
    BY <1>3, <1>14 DEF RequestSound, RateRequests
  <1> QED BY <1>2, <1>9, <1>10, <1>15 DEF RatesInv

(* The change or the deletion of one rate.                                 *)
LEMMA WriteOneKeeps ==
  ASSUME RatesInv, NEW r \in Callers, R!WriteOne(r)
  PROVE  RatesInv'
  <1> DEFINE i == req[r].id  new == req[r].new
             v == IF new = Gone THEN Gone
                  ELSE [group |-> rate[i].group, output |-> new.output, active |-> new.active]
  <1>1. req[r] \in OneRequests /\ req[r].pc = "one"
    BY RequestByPc DEF R!WriteOne, RatesInv, RequestSound
  <1>2. i \in Ids /\ new \in RateChanges /\ rate[i] # Unborn
    BY <1>1 DEF OneRequests, RatesInv, RequestSound
  <1>4. CASE ~R!Present(i)
    <2>1. req' = [req EXCEPT ![r] = R!Idle] /\ rate' = rate /\ here' = here
      BY <1>4 DEF R!WriteOne, R!Finish
    <2>2. req'[r] = R!Idle
      BY <2>1 DEF RatesInv
    <2>3. RequestSound(r)'
      BY <2>2 DEF R!Idle, RequestSound, RateRequests, R!Batching
    <2> QED BY <2>1, <2>3, OthersAlone
  <1>5. CASE R!Present(i)
    <2>1. R!Write(r, [rate EXCEPT ![i] = v], R!Idle) /\ here' = here
      BY <1>5 DEF R!WriteOne
    <2>2. /\ v \in R!Rate \cup {Gone} /\ rate[i] \in R!Rate /\ rate[i] # Gone
          /\ v # Gone => v.group = rate[i].group
      BY <1>2, <1>5, RatesAssumption DEF RatesInv, RatesShape, R!Present, R!Rate
    <2> HIDE DEF v
    <2>3. req'[r] = R!Idle /\ rate' = [rate EXCEPT ![i] = v] /\ DOMAIN req' = Callers
      BY <2>1 DEF R!Write
    <2>4. v # Gone => v.group \in here /\ \A j \in Ids \ {i} : R!Present(j) => rate[j].group # v.group
      BY <1>2, <1>5, <2>2 DEF RatesInv, RatesShape
    <2>5. RatesShape'
      BY <1>2, <2>1, <2>2, <2>3, <2>4, WriteShape
    <2>6. ASSUME NEW s \in Callers, s # r PROVE RequestSound(s)'
      BY <1>2, <2>1, <2>2, <2>6, WriteElsewhere
    <2>7. RequestSound(r)'
      BY <2>3 DEF R!Idle, RequestSound, RateRequests, R!Batching
    <2> QED BY <2>3, <2>5, <2>6, <2>7 DEF RatesInv
  <1> QED BY <1>4, <1>5

(* A group that is deleted takes its rates along.                          *)
LEMMA DeleteGroupKeeps ==
  ASSUME RatesInv, NEW g \in Leaving, R!DeleteGroup(g)
  PROVE  RatesInv'
  <1>1. /\ here' = here \ {g} /\ g \in here /\ g \in Groups
        /\ rate' = [i \in Ids |-> IF i \in R!RateOf(g) THEN Gone ELSE rate[i]]
        /\ DOMAIN req' = Callers
        /\ \A s \in Callers : req'[s] =
             IF R!Watched(s) THEN [req[s] EXCEPT !.news = @ \cup {g}] ELSE req[s]
    BY DEF R!DeleteGroup, RatesInv, RatesShape
  <1>2. \A i \in Ids :
          /\ rate'[i] \in R!Rate \cup {Unborn, Gone}
          /\ rate'[i] = Unborn <=> rate[i] = Unborn
          /\ rate'[i] \notin {Unborn, Gone} =>
               R!Present(i) /\ rate'[i] = rate[i] /\ rate[i].group # g
          /\ R!Present(i) /\ rate[i].group # g => rate'[i] = rate[i]
    BY <1>1, RatesAssumption DEF RatesInv, RatesShape, R!RateOf, R!Present
  <1>3. RatesShape'
    <2>1. rate' \in [Ids -> R!Rate \cup {Unborn, Gone}]
      BY <1>1, <1>2
    <2> QED BY <1>1, <1>2, <2>1 DEF RatesInv, RatesShape, R!Present
  <1>4. ASSUME NEW s \in Callers PROVE RequestSound(s)'
    <2> DEFINE q == req[s]
    <2>1. q \in RateRequests
      BY DEF RatesInv, RequestSound
    <2>2. CASE ~R!Batching(s)
      <3>1. req'[s] = q
        BY <1>1, <2>2 DEF R!Watched
      <3>2. q.pc = "one" => q.id \in Ids
        BY <2>1, RequestByPc DEF OneRequests
      <3> QED BY <1>1, <1>2, <2>1, <2>2, <3>1, <3>2 DEF RatesInv, RequestSound, R!Batching
    <2>3. CASE R!Batching(s)
      <3>1. q \in BatchRequests /\ BatchSound(s)
        BY <2>1, <2>3, RequestByPc DEF RatesInv, RequestSound, R!Batching
      <3>2. /\ req'[s] \in BatchRequests /\ req'[s].pc = q.pc /\ req'[s].batch = q.batch /\ req'[s].only = q.only
            /\ req'[s].item = q.item /\ req'[s].next = q.next /\ req'[s].answered = q.answered
            /\ ~q.answered => req'[s].news = q.news \cup {g}
        BY <1>1, <2>3, <3>1 DEF BatchRequests, R!Watched
      <3>3. ASSUME NEW k \in DOMAIN q.item, NEW i \in Ids, q.item[k] = i
            PROVE  rate'[i] # Unborn /\
                   (rate'[i] \notin {Unborn, Gone} => rate'[i].group = q.batch[k].group)
        BY <1>2, <3>1, <3>3 DEF BatchSound, R!Present
      <3>4. ASSUME ~q.answered, NEW k \in DOMAIN q.item, q.item[k] = "done"
            PROVE  Covered(s, k)'
        <4>1. Covered(s, k)
          BY <3>1, <3>4 DEF BatchSound
        <4>2. CASE q.batch[k].group \in q.news \cup {g}
          BY <3>2, <3>4, <4>2 DEF Covered
        <4>3. CASE q.batch[k].group \notin q.news \cup {g}
          <5>1. PICK h \in Ids, j \in DOMAIN q.batch :
                  /\ q.batch[j].group = q.batch[k].group
                  /\ R!Present(h) /\ rate[h] = R!RateAsked(q, j)
            BY <4>1, <4>3 DEF Covered
          <5>2. rate'[h] = rate[h]
            BY <1>2, <4>3, <5>1 DEF R!RateAsked
          <5>3. R!RateAsked(req'[s], j) = R!RateAsked(q, j)
            BY <3>2 DEF R!RateAsked
          <5> QED BY <3>2, <5>1, <5>2, <5>3 DEF Covered, R!Present
        <4> QED BY <4>2, <4>3
      <3>5. BatchSound(s)'
        BY <3>1, <3>2, <3>3, <3>4 DEF BatchSound, R!Present
      <3> QED BY <3>2, <3>5, RequestByPc DEF RequestSound, RateRequests
    <2> QED BY <2>2, <2>3
  <1> QED BY <1>1, <1>3, <1>4 DEF RatesInv

(* A batch begins.                                                         *)
LEMMA StartKeeps ==
  ASSUME RatesInv, NEW r \in Callers, NEW b \in Batches[r], R!Start(r, b)
  PROVE  RatesInv'
  <1> DEFINE t == [k \in DOMAIN b.items |-> "ask"]
             q == [pc |-> "check", batch |-> b.items, only |-> b.only, next |-> 1,
                   answered |-> FALSE, item |-> t, news |-> Groups \ here]
  <1>1. b.items \in Seq([group : Groups, output : Outputs, active : BOOLEAN]) /\ b.only \in BOOLEAN
    BY RatesAssumption
  <1>2. /\ t \in Seq(States) /\ DOMAIN t = DOMAIN b.items
        /\ \A k \in DOMAIN t : t[k] = "ask"
    BY <1>1 DEF States
  <1>3. req' = [req EXCEPT ![r] = q] /\ rate' = rate /\ here' = here
    BY DEF R!Start
  <1> HIDE DEF t
  <1>4. q \in BatchRequests
    BY <1>1, <1>2 DEF BatchRequests
  <1>5. req'[r] = q
    BY <1>3 DEF RatesInv
  <1>6. BatchSound(r)'
    BY <1>1, <1>2, <1>5, RatesAssumption DEF BatchSound
  <1>7. RequestSound(r)'
    BY <1>4, <1>5, <1>6 DEF RequestSound, RateRequests
  <1> HIDE DEF q
  <1> QED BY <1>3, <1>7, OthersAlone

(* A batch that checks its groups, is answered, or has settled.            *)
LEMMA BatchStepsKeep ==
  ASSUME RatesInv, NEW r \in Callers, R!CheckGroup(r) \/ R!Answer(r) \/ R!Vanish(r)
  PROVE  RatesInv'
  <1> DEFINE q == req[r]
  <1>1. R!Batching(r) /\ rate' = rate /\ here' = here
    BY DEF R!CheckGroup, R!Answer, R!Vanish, R!Batching
  <1>2. q \in BatchRequests /\ BatchSound(r)
    BY <1>1, RequestByPc DEF RatesInv, RequestSound, R!Batching
  <1>3. q.batch \in Seq([group : Groups, output : Outputs, active : BOOLEAN]) /\ Len(q.batch) \in Nat /\ q.next \in Nat
    BY <1>2 DEF BatchRequests
  <1>4. CASE req' = [req EXCEPT ![r] = R!Idle]
    <2>1. req'[r] = R!Idle
      BY <1>4 DEF RatesInv
    <2>2. RequestSound(r)'
      BY <2>1 DEF R!Idle, RequestSound, RateRequests, R!Batching
    <2> QED BY <1>1, <1>4, <2>2, OthersAlone
  <1>5. ASSUME NEW p \in BatchRequests, req' = [req EXCEPT ![r] = p],
               p.batch = q.batch, p.only = q.only, p.item = q.item, p.next \in 1..(Len(q.batch) + 1),
               p.pc = "check" => q.pc = "check",
               p.answered \/ (p.answered = q.answered /\ p.news = q.news)
        PROVE  RatesInv'
    <2>1. req'[r] = p
      BY <1>5 DEF RatesInv
    <2>2. ASSUME NEW k, ~p.answered PROVE Covered(r, k) => Covered(r, k)'
      <3>1. \A j : R!RateAsked(p, j) = R!RateAsked(q, j)
        BY <1>5 DEF R!RateAsked
      <3> QED BY <1>1, <1>5, <2>1, <2>2, <3>1 DEF Covered, R!Present
    <2>3. BatchSound(r)'
      BY <1>1, <1>2, <1>5, <2>1, <2>2 DEF BatchSound, R!Present
    <2>4. RequestSound(r)'
      BY <1>5, <2>1, <2>3, RequestByPc DEF RequestSound, RateRequests
    <2> QED BY <1>1, <1>5, <2>4, OthersAlone
  <1>6. CASE R!CheckGroup(r) /\ q.next > Len(q.batch)
    <2> DEFINE p == [q EXCEPT !.pc = "write", !.next = 1]
    <2>1. /\ p \in BatchRequests /\ p.batch = q.batch /\ p.only = q.only /\ p.item = q.item /\ p.next = 1
          /\ p.pc = "write" /\ p.answered = q.answered /\ p.news = q.news
      BY <1>2 DEF BatchRequests
    <2>2. req' = [req EXCEPT ![r] = p]
      BY <1>6 DEF R!CheckGroup
    <2> HIDE DEF p
    <2>3. p.next \in 1..(Len(q.batch) + 1)
      BY <1>3, <2>1
    <2> QED BY <1>5, <2>1, <2>2, <2>3
  <1>7. CASE R!CheckGroup(r) /\ ~(q.next > Len(q.batch)) /\ q.batch[q.next].group \in here
    <2> DEFINE p == [q EXCEPT !.next = @ + 1]
    <2>1. /\ p \in BatchRequests /\ p.batch = q.batch /\ p.only = q.only /\ p.item = q.item /\ p.next = q.next + 1
          /\ p.pc = q.pc /\ p.answered = q.answered /\ p.news = q.news
      BY <1>2 DEF BatchRequests
    <2>2. req' = [req EXCEPT ![r] = p]
      BY <1>7 DEF R!CheckGroup
    <2>3. p.next \in 1..(Len(q.batch) + 1)
      BY <1>3, <1>7, <2>1
    <2> HIDE DEF p
    <2> QED BY <1>5, <2>1, <2>2, <2>3
  <1>8. CASE R!Answer(r)
    <2> DEFINE p == [q EXCEPT !.answered = TRUE, !.news = {}]
    <2>1. /\ p \in BatchRequests /\ p.batch = q.batch /\ p.only = q.only /\ p.item = q.item /\ p.next = q.next
          /\ p.pc = q.pc /\ p.answered
      BY <1>2 DEF BatchRequests
    <2>2. req' = [req EXCEPT ![r] = p]
      BY <1>8 DEF R!Answer
    <2> HIDE DEF p
    <2> QED BY <1>2, <1>5, <2>1, <2>2 DEF BatchSound
  <1> QED BY <1>4, <1>6, <1>7, <1>8 DEF R!CheckGroup, R!Vanish, R!Finish

(* The look of an update or a deletion, and the analysis.                  *)
LEMMA OtherStepsKeep ==
  ASSUME RatesInv, NEW r \in Callers,
         \/ \E i \in Ids, new \in RateChanges : R!StartOne(r, i, new)
         \/ R!StartAnalysis(r) \/ R!EndAnalysis(r)
         \/ \E g \in Groups : R!GetGroupDetails(r, g)
  PROVE  RatesInv'
  <1>1. CASE \E i \in Ids, new \in RateChanges : R!StartOne(r, i, new)
    <2>1. PICK i \in Ids, new \in RateChanges : R!StartOne(r, i, new)
      BY <1>1
    <2> DEFINE q == [pc |-> "one", id |-> i, new |-> new]
    <2>2. q \in OneRequests /\ q.pc = "one" /\ q.id = i
      BY DEF OneRequests
    <2>3. req' = [req EXCEPT ![r] = q] /\ rate' = rate /\ here' = here /\ rate[i] # Unborn
      BY <2>1 DEF R!StartOne, R!Present
    <2> HIDE DEF q
    <2>4. req'[r] = q
      BY <2>3 DEF RatesInv
    <2>5. RequestSound(r)'
      BY <2>2, <2>3, <2>4 DEF RequestSound, RateRequests, R!Batching
    <2> QED BY <2>3, <2>5, OthersAlone
  <1>2. CASE R!StartAnalysis(r)
    <2> DEFINE q == [pc |-> "groups", todo |-> R!RatedGroups, lost |-> {}]
    <2>1. R!RatedGroups \subseteq Groups
      BY RatesAssumption DEF R!RatedGroups, RatesInv, RatesShape, R!Present, R!Rate
    <2>2. q \in GroupRequests /\ q.pc = "groups" /\ q.lost = {}
      BY <2>1 DEF GroupRequests
    <2>3. req' = [req EXCEPT ![r] = q] /\ rate' = rate /\ here' = here
      BY <1>2 DEF R!StartAnalysis
    <2> HIDE DEF q
    <2>4. req'[r] = q
      BY <2>3 DEF RatesInv
    <2>5. RequestSound(r)'
      BY <2>2, <2>3, <2>4 DEF RequestSound, RateRequests, R!Batching
    <2> QED BY <2>3, <2>5, OthersAlone
  <1>3. CASE R!EndAnalysis(r)
    <2>1. req' = [req EXCEPT ![r] = R!Idle] /\ rate' = rate /\ here' = here
      BY <1>3 DEF R!EndAnalysis, R!Finish
    <2>2. req'[r] = R!Idle
      BY <2>1 DEF RatesInv
    <2>3. RequestSound(r)'
      BY <2>2 DEF R!Idle, RequestSound, RateRequests, R!Batching
    <2> QED BY <2>1, <2>3, OthersAlone
  <1>4. CASE \E g \in Groups : R!GetGroupDetails(r, g)
    <2>1. PICK g \in Groups : R!GetGroupDetails(r, g)
      BY <1>4
    <2>2. req[r] \in GroupRequests /\ req[r].lost \cap here = {}
      BY <2>1, RequestByPc DEF R!GetGroupDetails, RatesInv, RequestSound
    <2> DEFINE q == [req[r] EXCEPT !.todo = @ \ {g},
                                   !.lost = IF g \in here THEN @ ELSE @ \cup {g}]
    <2>3. q \in GroupRequests /\ q.pc = "groups" /\ q.lost \cap here = {}
      BY <2>2 DEF GroupRequests
    <2>4. req' = [req EXCEPT ![r] = q] /\ rate' = rate /\ here' = here
      BY <2>1 DEF R!GetGroupDetails
    <2> HIDE DEF q
    <2>5. req'[r] = q
      BY <2>4 DEF RatesInv
    <2>6. RequestSound(r)'
      BY <2>3, <2>4, <2>5 DEF RequestSound, RateRequests, R!Batching
    <2> QED BY <2>4, <2>6, OthersAlone
  <1> QED BY <1>1, <1>2, <1>3, <1>4

(* The invariant of the rates: where every item of a batch stands, and     *)
(* that what an item has written is still there or excused.                *)
THEOREM RatesReasoned == Spec => []RatesInv
  <1>1. Init => RatesInv
    BY RatesAssumption DEF Init, R!Init, RatesInv, RatesShape, RequestSound, R!Present, R!Idle, RateRequests,
                           R!Batching
  <1>2. RatesInv /\ [Next]_vars => RatesInv'
    <2> SUFFICES ASSUME RatesInv, [R!Next]_rates PROVE RatesInv'
      BY StepOfEach
    <2>1. CASE UNCHANGED rates
      <3>1. ASSUME NEW r, NEW k PROVE Covered(r, k)' = Covered(r, k)
        BY <2>1 DEF rates, Covered, R!Present, R!RateAsked
      <3> QED BY <2>1, <3>1 DEF rates, RatesInv, RatesShape, RequestSound, BatchSound, R!Present,
                                R!Batching
    <2>2. ASSUME NEW r \in Callers, R!Go(r) PROVE RatesInv'
      BY <2>2, BatchStepsKeep, OtherStepsKeep, WriteOneKeeps DEF R!Go
    <2>3. ASSUME NEW r \in Callers, NEW k, R!ItemStep(r, k) PROVE RatesInv'
      BY <2>3, LooksKeep, ItemWritesKeep DEF R!ItemStep
    <2> QED BY <2>1, <2>2, <2>3, StartKeeps, OtherStepsKeep, DeleteGroupKeeps DEF R!Next
  <1> QED BY <1>1, <1>2, PTL DEF Spec

(* Only its own answer marks a batch as answered.                          *)
LEMMA AnsweredByAnswer ==
  ASSUME RatesInv, [R!Next]_rates, NEW r \in Callers,
         req[r].pc = "write", ~req[r].answered, req'[r].pc = "write", req'[r].answered
  PROVE  R!Answer(r)
  <1> DEFINE q == req[r]
  <1>1. q \in BatchRequests
    BY RequestByPc DEF RatesInv, RequestSound
  <1>2. \A S : [q EXCEPT !.news = S].answered = q.answered
    BY <1>1 DEF BatchRequests
  <1>3. \A t : [q EXCEPT !.item = t].answered = q.answered
    BY <1>1 DEF BatchRequests
  <1>4. R!Idle.pc # "write"
    BY DEF R!Idle
  <1>5. ASSUME NEW s \in Callers, NEW p, req' = [req EXCEPT ![s] = p]
        PROVE  s = r /\ req'[r] = p
    BY <1>5 DEF RatesInv
  <1>6. ASSUME NEW s \in Callers, NEW new, NEW mine, R!Write(s, new, mine)
        PROVE  s = r /\ req'[r] = mine
    BY <1>2, <1>6 DEF R!Write
  <1>7. CASE UNCHANGED rates
    BY <1>7 DEF rates
  <1>8. CASE \E g \in Leaving : R!DeleteGroup(g)
    BY <1>2, <1>8 DEF R!DeleteGroup
  <1>9. ASSUME NEW s \in Callers, NEW b \in Batches[s], R!Start(s, b)
        PROVE  FALSE
    <2>1. s = r
      BY <1>5, <1>9 DEF R!Start
    <2> QED BY <1>9, <2>1 DEF R!Start, R!Goes
  <1>10. ASSUME NEW s \in Callers, NEW i \in Ids, NEW new \in RateChanges, R!StartOne(s, i, new)
         PROVE  FALSE
    <2>1. s = r
      BY <1>5, <1>10 DEF R!StartOne
    <2> QED BY <1>10, <2>1 DEF R!StartOne, R!Goes
  <1>11. ASSUME NEW s \in Callers, R!StartAnalysis(s)
         PROVE  FALSE
    <2>1. s = r
      BY <1>5, <1>11 DEF R!StartAnalysis
    <2> QED BY <1>11, <2>1 DEF R!StartAnalysis, R!Goes
  <1>12. ASSUME NEW s \in Callers, R!Go(s)
         PROVE  R!Answer(r)
    <2>1. CASE R!CheckGroup(s)
      <3>1. s = r
        BY <1>5, <2>1 DEF R!CheckGroup
      <3> QED BY <2>1, <3>1 DEF R!CheckGroup
    <2>2. CASE R!Answer(s)
      <3>1. s = r
        <4>1. req' = [req EXCEPT ![s] = [req[s] EXCEPT !.answered = TRUE, !.news = {}]]
          BY <2>2 DEF R!Answer
        <4> QED BY <1>5, <4>1
      <3> QED BY <2>2, <3>1
    <2>3. CASE R!Vanish(s)
      BY <1>4, <1>5, <2>3 DEF R!Vanish, R!Finish
    <2>4. CASE R!WriteOne(s)
      BY <1>4, <1>5, <1>6, <2>4 DEF R!WriteOne, R!Finish
    <2>5. CASE R!EndAnalysis(s)
      BY <1>4, <1>5, <2>5 DEF R!EndAnalysis, R!Finish
    <2>6. CASE \E g \in Groups : R!GetGroupDetails(s, g)
      <3>1. req[s].pc = "groups" /\ \E p : req' = [req EXCEPT ![s] = p]
        BY <2>6 DEF R!GetGroupDetails
      <3> QED BY <1>5, <3>1
    <2> QED BY <1>12, <2>1, <2>2, <2>3, <2>4, <2>5, <2>6 DEF R!Go
  <1>13. ASSUME NEW s \in Callers, NEW k, R!ItemStep(s, k)
         PROVE  FALSE
    <2>1. CASE R!FindRate(s, k) \/ R!ItemFails(s, k)
      <3>1. PICK st : req' = [req EXCEPT ![s].item[k] = st]
        BY <2>1 DEF R!FindRate, R!ItemFails
      <3>2. req'[r] = req[r] \/ req'[r] = [q EXCEPT !.item = [@ EXCEPT ![k] = st]]
        BY <3>1 DEF RatesInv
      <3> QED BY <1>3, <3>2
    <2>2. CASE \E i \in Ids : R!InsertRate(s, k, i) \/ R!UpdateRate(s, k, i)
      <3>1. PICK new : R!Write(s, new, [req[s] EXCEPT !.item[k] = "done"])
        BY <2>2 DEF R!InsertRate, R!UpdateRate
      <3>2. req'[r] = [q EXCEPT !.item = [@ EXCEPT ![k] = "done"]]
        BY <1>6, <3>1
      <3> QED BY <1>3, <3>2
    <2> QED BY <1>13, <2>1, <2>2 DEF R!ItemStep
  <1> QED BY <1>7, <1>8, <1>9, <1>10, <1>11, <1>12, <1>13 DEF R!Next

(* A batch answered with its ids has left every group of it with an active *)
(* rate of the output asked for, and a creation its group with a rate as   *)
(* active as asked for, unless another request changed that rate or        *)
(* deleted the group after the request had begun.                          *)
THEOREM BatchesCover == Spec => SuccessCoversBatch
  <1> DEFINE Step ==
        \A r \in Callers :
          req[r].pc = "write" /\ ~req[r].answered /\ req'[r].pc = "write" /\ req'[r].answered
            /\ "failed" \notin R!Items(r) =>
            \A k \in DOMAIN req[r].batch : Covered(r, k)
  <1>1. RatesInv /\ [Next]_vars => [Step]_rates
    <2> SUFFICES ASSUME RatesInv, [Next]_vars, NEW r \in Callers,
                        req[r].pc = "write", ~req[r].answered, req'[r].pc = "write",
                        req'[r].answered, "failed" \notin R!Items(r),
                        NEW k \in DOMAIN req[r].batch
                 PROVE  Covered(r, k)
      OBVIOUS
    <2>1. R!Answer(r)
      BY StepOfEach, AnsweredByAnswer
    <2>2. BatchSound(r)
      BY DEF RatesInv, RequestSound, R!Batching
    <2>3. req[r].item[k] = "done"
      BY <2>1, <2>2 DEF R!Answer, R!Answers, R!AllDone, R!Items, BatchSound
    <2> QED BY <2>2, <2>3 DEF BatchSound
  <1>2. [][Step]_rates => SuccessCoversBatch
    BY DEF SuccessCoversBatch, R!SuccessCoversBatch, Covered, rates, R!vars
  <1> HIDE DEF Step
  <1> QED BY <1>1, <1>2, RatesReasoned, PTL DEF Spec

-----------------------------------------------------------------------------
(* Reports.                                                                *)
EntryMaps == UNION {[E -> Recorded] : E \in SUBSET Entries}
FormRows == [place : Places, status : T!Statuses]
Reads == {"units", "forms", "entries"}
RowReads == {"forms", "members", "entries"}
RowRecords == [todo : Seq(RowReads), forms : SUBSET Forms, got : EntryMaps, members : SUBSET Workers]
RowMaps == UNION {[S -> RowRecords] : S \in SUBSET (Units \cup Workers)}
ReportStates ==
  [pc : {"reads"}, kind : T!Reports, todo : Seq(Reads), forms : SUBSET Forms,
   seen : EntryMaps, row : RowMaps, then : EntryMaps, joined : SUBSET Units,
   moved : SUBSET Workers, edited : SUBSET (Forms \cup Entries), changes : 0..MaxChanges]

Pending(todo, what) == \E i \in DOMAIN todo : todo[i] = what

(* What nobody wrote since the report began: it is as it was then.         *)
OfForms(F) == {e \in Entries : T!Kept(e) /\ FormOf[e] \in F}
Untouched(F) == OfForms(F) \ rep.edited
Lasts(s) == \A e \in DOMAIN s \ rep.edited : T!Kept(e) /\ s[e] = entry[e]

World ==
  /\ units \subseteq Units /\ place \in [Workers -> Places]
  /\ form \in [Forms -> FormRows \cup {Unborn}]
  /\ entry \in [Entries -> Recorded \cup {Unborn, Gone}]
  /\ \A e \in Entries : T!Kept(e) => T!There(FormOf[e])

(* The order of the reads: forms before entries, units last when there are *)
(* rows to read.                                                           *)
InOrder(todo, kind) ==
  /\ \A i, j \in DOMAIN todo : todo[i] = todo[j] => i = j
  /\ \A i, j \in DOMAIN todo : todo[i] = "entries" /\ todo[j] = "forms" => j < i
  /\ Pending(todo, "forms") => Pending(todo, "entries")
  /\ kind.row # <<>> => \A i \in DOMAIN todo : todo[i] = "units" <=> i = Len(todo)
  /\ (kind.settled /\ kind.row = <<>>) \/ kind.by = "none" => ~Pending(todo, "units")

RowInOrder(todo, kind) ==
  /\ \A i \in DOMAIN todo : todo[i] = "entries" <=> i = Len(todo)
  /\ \A i, j \in DOMAIN todo : todo[i] = todo[j] => i = j
  /\ \A i \in DOMAIN todo : Pending(kind.row, todo[i])

UnitsRead == ~Pending(rep.todo, "units") /\ (rep.todo # <<>> \/ rep.forms # {})

SeenSound ==
  /\ Pending(rep.todo, "forms") => rep.forms = {}
  /\ Pending(rep.todo, "entries") => rep.seen = T!Empty
  /\ ~Pending(rep.kind.reads, "forms") =>
       ~Pending(rep.todo, "forms") /\ ~Pending(rep.todo, "entries")
       /\ rep.forms = {} /\ rep.seen = T!Empty
  /\ \A e \in DOMAIN rep.seen :
       FormOf[e] \in rep.forms /\ (e \notin rep.edited => entry[e] = rep.seen[e])
  /\ \A f \in rep.forms : form[f] # Unborn

ThenSound ==
  rep.kind.settled =>
    /\ Lasts(rep.then)
    /\ rep.kind.row = <<>> =>
         /\ ~Pending(rep.todo, "forms") => Untouched(rep.forms) \subseteq DOMAIN rep.then
         /\ ~Pending(rep.todo, "entries") => Untouched(rep.forms) \subseteq DOMAIN rep.seen

RowsBegun ==
  /\ rep.todo # <<>> /\ rep.kind.row # <<>> => DOMAIN rep.row = {}
  /\ rep.kind.row = <<>> => \A x \in DOMAIN rep.row : rep.row[x].todo = <<>>
  /\ rep.kind.by = "worker" => DOMAIN rep.row \subseteq Workers
  /\ rep.kind.by = "worker" /\ ~rep.kind.settled /\ UnitsRead =>
       \A w \in Workers \ rep.moved : place[w].inside => w \in DOMAIN rep.row
  /\ rep.kind.by = "unit" /\ ~rep.kind.settled /\ UnitsRead => units \ rep.joined \subseteq DOMAIN rep.row

RowSound(x) ==
  LET r == rep.row[x] IN
  /\ RowInOrder(r.todo, rep.kind)
  /\ Pending(r.todo, "entries") => r.got = T!Empty
  /\ \A e \in DOMAIN r.got : FormOf[e] \in r.forms /\ WorkerOf[FormOf[e]] \in r.members
  /\ Pending(rep.kind.row, "forms") =>
       \A f \in r.forms : form[f] # Unborn /\ form[f].place.unit = x
  /\ rep.kind.row # <<>> /\ ~Pending(rep.kind.row, "forms") => r.forms = rep.forms
  /\ rep.kind.by = "worker" => r.members = {x}
  /\ rep.kind.by # "worker" /\ ~Pending(rep.kind.row, "members") => r.members = Workers
  /\ Pending(rep.kind.row, "members") /\ ~Pending(r.todo, "members") =>
       \A w \in Workers \ rep.moved : w \in r.members <=> place[w].unit = x
  /\ rep.kind.row # <<>> /\ ~Pending(rep.kind.row, "forms") /\ ~Pending(r.todo, "entries") =>
       \A e \in DOMAIN rep.seen \ rep.edited :
         WorkerOf[FormOf[e]] \in r.members => e \in DOMAIN r.got /\ r.got[e] = rep.seen[e]
  /\ rep.kind.row # <<>> /\ rep.kind.settled =>
       /\ ~Pending(r.todo, "forms") => Untouched(r.forms) \subseteq DOMAIN rep.then
       /\ ~Pending(r.todo, "entries") => Untouched(r.forms) \subseteq DOMAIN r.got
       /\ Lasts(r.got)

ReportsInv ==
  /\ World
  /\ rep \in {T!Idle, T!Answered} \cup ReportStates
  /\ rep.pc = "reads" =>
       /\ InOrder(rep.todo, rep.kind) /\ SeenSound /\ ThenSound /\ RowsBegun
       /\ \A x \in DOMAIN rep.row : RowSound(x)

-----------------------------------------------------------------------------
LEMMA ReportsSizes ==
  /\ MaxChanges \in Nat /\ Unborn # Gone /\ Unborn \notin FormRows
  /\ FormOf \in [Entries -> Forms] /\ WorkerOf \in [Forms -> Workers]
  BY ReportsAssumption DEF FormRows
LEMMA RecordedIsKept == ASSUME NEW v \in Recorded PROVE v \notin {Unborn, Gone}
  BY ReportsAssumption

(* What the properties need to know of the kinds of reports.               *)
KindSound(k) ==
  /\ k \in [reads : Seq(Reads), row : Seq(RowReads), by : {"unit", "worker", "none"}, settled : BOOLEAN]
  /\ InOrder(k.reads, k) /\ RowInOrder(k.row, k)
  /\ ~k.settled /\ k.by # "none" => Pending(k.reads, "units")
  /\ k.settled /\ k.row = <<>> => Pending(k.reads, "forms")
  /\ k.settled /\ k.row # <<>> => Pending(k.row, "forms") /\ k.by = "unit"
  /\ k.settled => ~Pending(k.row, "members")
  /\ Pending(k.row, "forms") => ~Pending(k.reads, "forms") /\ k.by = "unit"
  /\ k.by = "worker" => ~Pending(k.row, "members")
  /\ k.by = "worker" /\ ~k.settled => k.row # <<>>
  /\ k.by = "none" => k.row = <<>>
  /\ k = T!ByTeam <=> k.row # <<>> /\ k.by = "unit" /\ ~Pending(k.row, "forms")
  /\ k = T!ByTeam => Pending(k.row, "members")
  /\ Pending(k.reads, "entries") => Pending(k.reads, "forms")
  /\ k.reads # <<>>

LEMMA KindsSound == \A k \in T!Reports : KindSound(k)
  <1> USE DEF KindSound, InOrder, RowInOrder, Pending, Reads, RowReads, T!Kind, T!ByTeam
  <1>1. KindSound(T!ByFactory)
    BY DEF T!ByFactory
  <1>2. KindSound(T!ByLine)
    BY DEF T!ByLine
  <1>3. KindSound(T!ByTeam)
    BY DEF T!ByTeam
  <1>4. KindSound(T!ByGroup)
    BY DEF T!ByGroup
  <1>5. KindSound(T!CompareTeams)
    BY DEF T!CompareTeams
  <1>6. KindSound(T!CompareGroups)
    BY DEF T!CompareGroups
  <1>7. KindSound(T!FactoryStats)
    BY DEF T!FactoryStats
  <1>8. KindSound(T!LineStats)
    BY DEF T!LineStats
  <1>9. KindSound(T!TeamStats)
    BY DEF T!TeamStats
  <1>10. KindSound(T!GroupStats)
    BY DEF T!GroupStats
  <1>11. KindSound(T!DashboardStats)
    BY DEF T!DashboardStats
  <1>12. KindSound(T!CompareStats)
    BY DEF T!CompareStats
  <1> HIDE DEF KindSound, InOrder, RowInOrder, Pending, Reads, RowReads, T!Kind, T!ByTeam
  <1> QED BY <1>1, <1>2, <1>3, <1>4, <1>5, <1>6, <1>7, <1>8, <1>9, <1>10, <1>11,
             <1>12 DEF T!Reports

(* One read after the other is taken off the list.                         *)
LEMMA TailInOrder ==
  ASSUME NEW todo \in Seq(Reads), todo # <<>>, NEW kind, InOrder(todo, kind)
  PROVE  /\ Tail(todo) \in Seq(Reads) /\ InOrder(Tail(todo), kind) /\ Pending(todo, Head(todo))
         /\ \A what : Pending(Tail(todo), what) <=> Pending(todo, what) /\ what # Head(todo)
         /\ kind.row # <<>> /\ Head(todo) = "units" => Tail(todo) = <<>>
  <1> DEFINE t == Tail(todo)
  <1>1. /\ t \in Seq(Reads) /\ Len(t) = Len(todo) - 1 /\ Len(todo) \in Nat /\ Len(todo) > 0
        /\ \A i \in DOMAIN t : i + 1 \in DOMAIN todo /\ t[i] = todo[i + 1]
        /\ \A i \in DOMAIN todo : i # 1 => i - 1 \in DOMAIN t /\ t[i - 1] = todo[i]
        /\ 1 \in DOMAIN todo /\ Head(todo) = todo[1]
        /\ DOMAIN todo = 1..Len(todo) /\ DOMAIN t = 1..Len(t)
    OBVIOUS
  <1> HIDE DEF t
  <1>2. ASSUME NEW what
        PROVE  Pending(t, what) <=> Pending(todo, what) /\ what # Head(todo)
    <2>1. ASSUME Pending(t, what) PROVE Pending(todo, what) /\ what # Head(todo)
      <3>1. PICK i \in DOMAIN t : t[i] = what
        BY <2>1 DEF Pending
      <3>2. i + 1 # 1 /\ i + 1 \in DOMAIN todo /\ todo[i + 1] = what
        BY <1>1, <3>1
      <3> QED BY <1>1, <3>2 DEF InOrder, Pending
    <2>2. ASSUME Pending(todo, what), what # Head(todo) PROVE Pending(t, what)
      <3>1. PICK i \in DOMAIN todo : todo[i] = what
        BY <2>2 DEF Pending
      <3> QED BY <1>1, <2>2, <3>1 DEF Pending
    <2> QED BY <2>1, <2>2
  <1>3. Pending(todo, Head(todo))
    BY <1>1 DEF Pending
  <1>4. \A i, j \in DOMAIN t : t[i] = t[j] => i = j
    BY <1>1 DEF InOrder
  <1>5. \A i, j \in DOMAIN t : t[i] = "entries" /\ t[j] = "forms" => j < i
    BY <1>1 DEF InOrder
  <1>6. Pending(t, "forms") => Pending(t, "entries")
    <2> SUFFICES ASSUME Pending(t, "forms") PROVE Pending(t, "entries")
      OBVIOUS
    <2>1. Pending(todo, "forms") /\ Pending(todo, "entries")
      BY <1>2 DEF InOrder
    <2>2. PICK i \in DOMAIN todo : todo[i] = "forms"
      BY <2>1 DEF Pending
    <2>3. Head(todo) # "entries"
      BY <1>1, <2>2 DEF InOrder
    <2> QED BY <1>2, <2>1, <2>3
  <1>7. kind.row # <<>> => \A i \in DOMAIN t : t[i] = "units" <=> i = Len(t)
    <2> SUFFICES ASSUME kind.row # <<>>, NEW i \in DOMAIN t PROVE t[i] = "units" <=> i = Len(t)
      OBVIOUS
    <2>1. todo[i + 1] = "units" <=> i + 1 = Len(todo)
      BY <1>1 DEF InOrder
    <2> QED BY <1>1, <2>1
  <1>8. (kind.settled /\ kind.row = <<>>) \/ kind.by = "none" => ~Pending(t, "units")
    BY <1>2 DEF InOrder
  <1>9. kind.row # <<>> /\ Head(todo) = "units" => t = <<>>
    <2> SUFFICES ASSUME kind.row # <<>>, Head(todo) = "units" PROVE t = <<>>
      OBVIOUS
    <2>1. Len(todo) = 1
      BY <1>1 DEF InOrder
    <2> QED BY <1>1, <2>1
  <1>10. InOrder(t, kind)
    BY <1>4, <1>5, <1>6, <1>7, <1>8 DEF InOrder
  <1> QED BY <1>1, <1>2, <1>3, <1>9, <1>10 DEF t

LEMMA NoneInOrder ==
  ASSUME NEW kind
  PROVE  InOrder(<<>>, kind) /\ \A what : ~Pending(<<>>, what)
  BY DEF InOrder, Pending

LEMMA TailRowInOrder ==
  ASSUME NEW todo \in Seq(RowReads), todo # <<>>, NEW kind, RowInOrder(todo, kind)
  PROVE  /\ Tail(todo) \in Seq(RowReads) /\ RowInOrder(Tail(todo), kind)
         /\ Pending(todo, "entries") /\ Pending(todo, Head(todo)) /\ Pending(kind.row, Head(todo))
         /\ \A what : Pending(Tail(todo), what) <=> Pending(todo, what) /\ what # Head(todo)
  <1> DEFINE t == Tail(todo)
  <1>1. /\ t \in Seq(RowReads) /\ Len(t) = Len(todo) - 1 /\ Len(todo) \in Nat /\ Len(todo) > 0
        /\ \A i \in DOMAIN t : i + 1 \in DOMAIN todo /\ t[i] = todo[i + 1]
        /\ \A i \in DOMAIN todo : i # 1 => i - 1 \in DOMAIN t /\ t[i - 1] = todo[i]
        /\ 1 \in DOMAIN todo /\ Head(todo) = todo[1]
        /\ DOMAIN todo = 1..Len(todo) /\ DOMAIN t = 1..Len(t)
    OBVIOUS
  <1> HIDE DEF t
  <1>2. ASSUME NEW what
        PROVE  Pending(t, what) <=> Pending(todo, what) /\ what # Head(todo)
    <2>1. ASSUME Pending(t, what) PROVE Pending(todo, what) /\ what # Head(todo)
      <3>1. PICK i \in DOMAIN t : t[i] = what
        BY <2>1 DEF Pending
      <3>2. i + 1 # 1 /\ i + 1 \in DOMAIN todo /\ todo[i + 1] = what
        BY <1>1, <3>1
      <3> QED BY <1>1, <3>2 DEF RowInOrder, Pending
    <2>2. ASSUME Pending(todo, what), what # Head(todo) PROVE Pending(t, what)
      <3>1. PICK i \in DOMAIN todo : todo[i] = what
        BY <2>2 DEF Pending
      <3> QED BY <1>1, <2>2, <3>1 DEF Pending
    <2> QED BY <2>1, <2>2
  <1>3. Pending(todo, Head(todo)) /\ Pending(kind.row, Head(todo))
    BY <1>1 DEF Pending, RowInOrder
  <1>4. Pending(todo, "entries")
    <2>1. Len(todo) \in DOMAIN todo
      BY <1>1
    <2> QED BY <2>1 DEF RowInOrder, Pending
  <1>5. ASSUME NEW i \in DOMAIN t PROVE t[i] = "entries" <=> i = Len(t)
    <2>1. todo[i + 1] = "entries" <=> i + 1 = Len(todo)
      BY <1>1 DEF RowInOrder
    <2> QED BY <1>1, <2>1
  <1>6. \A i, j \in DOMAIN t : t[i] = t[j] => i = j
    BY <1>1 DEF RowInOrder
  <1>7. \A i \in DOMAIN t : Pending(kind.row, t[i])
    BY <1>1 DEF RowInOrder
  <1>8. RowInOrder(t, kind)
    BY <1>5, <1>6, <1>7 DEF RowInOrder
  <1> QED BY <1>1, <1>2, <1>3, <1>4, <1>8 DEF t

-----------------------------------------------------------------------------
(* What a change meanwhile leaves, and what of it is noted.                *)
Shifted ==
  /\ rep \in ReportStates /\ rep' \in ReportStates
  /\ rep'.kind = rep.kind /\ rep'.todo = rep.todo /\ rep'.forms = rep.forms /\ rep'.seen = rep.seen
  /\ rep'.row = rep.row /\ rep'.then = rep.then
  /\ rep.edited \subseteq rep'.edited /\ rep.moved \subseteq rep'.moved /\ rep.joined \subseteq rep'.joined
  /\ \A e \in Entries : entry'[e] # entry[e] => e \in rep'.edited
  /\ \A w \in Workers : place'[w] # place[w] => w \in rep'.moved
  /\ units' \subseteq units \cup rep'.joined
  /\ \A f \in Forms : form[f] # Unborn => form'[f] # Unborn /\ form'[f].place = form[f].place

LEMMA RepByPc ==
  ASSUME ReportsInv
  PROVE  rep.pc = "reads" <=> rep \in ReportStates
  BY DEF ReportsInv, T!Idle, T!Answered, ReportStates

Marked(A, B, C) ==
  /\ rep \in ReportStates /\ rep' \in ReportStates
  /\ rep'.kind = rep.kind /\ rep'.todo = rep.todo /\ rep'.forms = rep.forms
  /\ rep'.seen = rep.seen /\ rep'.row = rep.row /\ rep'.then = rep.then
  /\ rep'.edited = rep.edited \cup A /\ rep'.moved = rep.moved \cup B
  /\ rep'.joined = rep.joined \cup C

LEMMA NotedMarks ==
  ASSUME ReportsInv, NEW A \in SUBSET (Forms \cup Entries), NEW B \in SUBSET Workers,
         NEW C \in SUBSET Units, T!Noted(A, B, C)
  PROVE  Marked(A, B, C)
  <1> DEFINE n == rep.changes + 1  e == rep.edited \cup A  m == rep.moved \cup B
             j == rep.joined \cup C
  <1>1. rep \in ReportStates
    BY RepByPc DEF T!Noted, T!Goes
  <1>2. rep' = [rep EXCEPT !.edited = e, !.moved = m, !.joined = j, !.changes = n]
    BY DEF T!Noted
  <1>3. /\ n \in 0..MaxChanges /\ e \in SUBSET (Forms \cup Entries)
        /\ m \in SUBSET Workers /\ j \in SUBSET Units
    BY <1>1, ReportsSizes DEF T!Noted, ReportStates
  <1> HIDE DEF n, e, m, j
  <1>4. rep' \in ReportStates
    BY <1>1, <1>2, <1>3 DEF ReportStates
  <1>5. /\ rep'.kind = rep.kind /\ rep'.todo = rep.todo /\ rep'.forms = rep.forms
        /\ rep'.seen = rep.seen /\ rep'.row = rep.row /\ rep'.then = rep.then
        /\ rep'.edited = e /\ rep'.moved = m /\ rep'.joined = j
    BY <1>1, <1>2 DEF ReportStates
  <1> QED BY <1>1, <1>4, <1>5 DEF Marked, e, m, j

LEMMA KeptIsRecorded ==
  ASSUME World, NEW e \in Entries
  PROVE  T!Kept(e) <=> entry[e] \in Recorded
  BY RecordedIsKept DEF World, T!Kept

LEMMA FormHere ==
  ASSUME World, NEW f \in Forms, form[f] # Unborn
  PROVE  /\ form[f] \in FormRows
         /\ T!There(f) <=> form[f].status # "GONE"
         /\ form[f].status \in {"DRAFT", "PENDING", "REJECTED", "GONE"}
  BY DEF World, FormRows, T!There, T!Statuses

LEMMA CreateFormShifts ==
  ASSUME ReportsInv, NEW f \in Forms, T!CreateForm(f)
  PROVE  Shifted /\ World'
  <1> DEFINE q == [place |-> place[WorkerOf[f]], status |-> "DRAFT"]
  <1>1. World /\ form[f] = Unborn /\ form' = [form EXCEPT ![f] = q] /\ UNCHANGED <<units, place, entry>>
    BY DEF T!CreateForm, ReportsInv
  <1>2. q \in FormRows /\ q.status = "DRAFT"
    BY <1>1, ReportsSizes DEF World, FormRows, T!Statuses
  <1> HIDE DEF q
  <1>3. q # Unborn
    BY <1>2, ReportsSizes
  <1>4. Marked({f}, {}, {})
    <2>1. T!Noted({f}, {}, {})
      BY DEF T!CreateForm
    <2> QED BY <2>1, NotedMarks
  <1>5. form' \in [Forms -> FormRows \cup {Unborn}] /\ form'[f] = q
        /\ \A g \in Forms : g # f => form'[g] = form[g]
    BY <1>1, <1>2 DEF World
  <1>6. ~T!There(f)
    BY <1>1 DEF T!There
  <1>7. World'
    <2>1. \A e \in Entries : T!Kept(e)' => T!There(FormOf[e])'
      BY <1>1, <1>5, <1>6, ReportsSizes DEF World, T!Kept, T!There
    <2> QED BY <1>1, <1>5, <2>1 DEF World
  <1>8. Shifted
    BY <1>1, <1>3, <1>4, <1>5 DEF Marked, Shifted
  <1> QED BY <1>7, <1>8

LEMMA WriteEntryShifts ==
  ASSUME ReportsInv, NEW e \in Entries, NEW v \in Recorded \cup {Gone}, T!WriteEntry(e, v)
  PROVE  Shifted /\ World'
  <1>1. /\ World /\ T!There(FormOf[e])
        /\ entry' = [entry EXCEPT ![e] = v] /\ UNCHANGED <<units, place, form>>
    BY DEF T!WriteEntry, ReportsInv
  <1>2. Marked({e}, {}, {})
    <2>1. T!Noted({e}, {}, {})
      BY DEF T!WriteEntry
    <2> QED BY <2>1, NotedMarks
  <1>3. entry' \in [Entries -> Recorded \cup {Unborn, Gone}]
        /\ \A d \in Entries : d # e => entry'[d] = entry[d]
    BY <1>1 DEF World
  <1>4. World'
    <2>1. \A d \in Entries : T!Kept(d)' => T!There(FormOf[d])'
      BY <1>1, <1>3 DEF World, T!Kept, T!There
    <2> QED BY <1>1, <1>3, <2>1 DEF World
  <1>5. Shifted
    BY <1>1, <1>2, <1>3 DEF Marked, Shifted
  <1> QED BY <1>4, <1>5

LEMMA SetStatusShifts ==
  ASSUME ReportsInv, NEW f \in Forms, NEW s \in {"PENDING", "REJECTED", "GONE"}, T!SetStatus(f, s)
  PROVE  Shifted /\ World'
  <1> DEFINE A == {e \in Entries : entry'[e] # entry[e]}
  <1>1. /\ World /\ T!There(f) /\ form' = [form EXCEPT ![f].status = s] /\ UNCHANGED <<units, place>>
        /\ T!Noted(A, {}, {})
        /\ entry' = [e \in Entries |-> IF s = "GONE" /\ FormOf[e] = f /\ T!Kept(e) THEN Gone ELSE entry[e]]
    BY DEF T!SetStatus, ReportsInv
  <1>2. form[f] # Unborn
    BY <1>1 DEF T!There
  <1>3. form[f] \in FormRows /\ form[f] # Unborn
    BY <1>1, <1>2, FormHere
  <1> DEFINE q == [form[f] EXCEPT !.status = s]
  <1>4. q \in FormRows /\ q.status = s /\ q.place = form[f].place
    BY <1>3 DEF FormRows, T!Statuses
  <1>5. form' = [form EXCEPT ![f] = q]
    BY <1>1
  <1> HIDE DEF q
  <1>6. q # Unborn
    BY <1>4, ReportsSizes
  <1>7. form' \in [Forms -> FormRows \cup {Unborn}] /\ form'[f] = q
        /\ \A g \in Forms : g # f => form'[g] = form[g]
    BY <1>1, <1>4, <1>5 DEF World
  <1>8. /\ entry' \in [Entries -> Recorded \cup {Unborn, Gone}]
        /\ \A e \in Entries : entry'[e] # entry[e] => s = "GONE" /\ FormOf[e] = f
        /\ \A e \in Entries : s = "GONE" /\ FormOf[e] = f => ~T!Kept(e)'
        /\ \A e \in Entries : T!Kept(e)' => T!Kept(e)
    <2>1. \A e \in Entries : entry'[e] = IF s = "GONE" /\ FormOf[e] = f /\ T!Kept(e) THEN Gone ELSE entry[e]
      BY <1>1
    <2>2. DOMAIN entry' = Entries /\ entry' = [e \in Entries |-> entry'[e]]
      BY <1>1
    <2> QED BY <1>1, <2>1, <2>2 DEF World, T!Kept
  <1>9. World'
    <2>1. ASSUME NEW e \in Entries, T!Kept(e)' PROVE T!There(FormOf[e])'
      BY <1>1, <1>4, <1>6, <1>7, <1>8, <2>1, ReportsSizes DEF World, T!There
    <2> QED BY <1>1, <1>7, <1>8, <2>1 DEF World
  <1>10. Shifted
    <2>1. A \in SUBSET (Forms \cup Entries)
      OBVIOUS
    <2> HIDE DEF A
    <2>2. Marked(A, {}, {})
      BY <1>1, <2>1, NotedMarks
    <2>3. \A e \in Entries : entry'[e] # entry[e] => e \in A
      BY DEF A
    <2> QED BY <1>1, <1>4, <1>6, <1>7, <2>2, <2>3 DEF Marked, Shifted
  <1> QED BY <1>9, <1>10

LEMMA MovesShift ==
  ASSUME ReportsInv,
         \/ \E w \in Workers, p \in Places : T!MoveWorker(w, p)
         \/ \E x \in Units : T!MoveUnit(x)
  PROVE  Shifted /\ World'
  <1>1. CASE \E w \in Workers, p \in Places : T!MoveWorker(w, p)
    <2>1. PICK w \in Workers, p \in Places : T!MoveWorker(w, p)
      BY <1>1
    <2>2. /\ World /\ place' = [place EXCEPT ![w] = p] /\ UNCHANGED <<units, form, entry>>
          /\ T!Noted({}, {w}, {})
      BY <2>1 DEF T!MoveWorker, ReportsInv
    <2>3. World'
      BY <2>2 DEF World, T!Kept, T!There
    <2>4. Marked({}, {w}, {})
      BY <2>2, NotedMarks
    <2>5. Shifted
      BY <2>2, <2>4 DEF Marked, Shifted, World
    <2> QED BY <2>3, <2>5
  <1>2. CASE \E x \in Units : T!MoveUnit(x)
    <2>1. PICK x \in Units : T!MoveUnit(x)
      BY <1>2
    <2>2. /\ World /\ units' \in {units \ {x}, units \cup {x}} /\ UNCHANGED <<place, form, entry>>
          /\ T!Noted({}, {}, {x})
      BY <2>1 DEF T!MoveUnit, ReportsInv
    <2>3. World'
      BY <2>2 DEF World, T!Kept, T!There
    <2>4. Marked({}, {}, {x})
      BY <2>2, NotedMarks
    <2>5. Shifted
      BY <2>2, <2>4 DEF Marked, Shifted
    <2> QED BY <2>3, <2>5
  <1> QED BY <1>1, <1>2

LEMMA ShiftedKeeps ==
  ASSUME ReportsInv, Shifted, World'
  PROVE  ReportsInv'
  <1>1. /\ rep.pc = "reads" /\ World /\ InOrder(rep.todo, rep.kind) /\ SeenSound /\ ThenSound
        /\ RowsBegun /\ \A x \in DOMAIN rep.row : RowSound(x)
        /\ rep'.pc = "reads" /\ rep.kind \in T!Reports
    BY DEF ReportsInv, Shifted, ReportStates
  <1>2. /\ rep'.kind = rep.kind /\ rep'.todo = rep.todo /\ rep'.forms = rep.forms
        /\ rep'.seen = rep.seen /\ rep'.row = rep.row /\ rep'.then = rep.then
        /\ rep.edited \subseteq rep'.edited /\ rep.moved \subseteq rep'.moved
        /\ rep.joined \subseteq rep'.joined /\ rep' \in ReportStates
    BY DEF Shifted
  <1>3. rep.forms \subseteq Forms /\ DOMAIN rep.seen \subseteq Entries /\ DOMAIN rep.then \subseteq Entries
        /\ \A x \in DOMAIN rep.row : rep.row[x].forms \subseteq Forms
    BY DEF Shifted, ReportStates, EntryMaps, RowMaps, RowRecords
  <1>4. \A e \in Entries : e \notin rep'.edited =>
          e \notin rep.edited /\ entry'[e] = entry[e] /\ (T!Kept(e)' <=> T!Kept(e))
    BY <1>2 DEF Shifted, T!Kept
  <1>5. ASSUME NEW F \in SUBSET Forms
        PROVE  {e \in Entries : T!Kept(e)' /\ FormOf[e] \in F} \ rep'.edited \subseteq Untouched(F)
    BY <1>4 DEF Untouched, OfForms
  <1>6. ASSUME NEW s \in EntryMaps, Lasts(s)
        PROVE  \A e \in DOMAIN s \ rep'.edited : T!Kept(e)' /\ s[e] = entry'[e]
    <2>1. DOMAIN s \subseteq Entries
      BY DEF EntryMaps
    <2> QED BY <1>4, <1>6, <2>1 DEF Lasts
  <1>7. UnitsRead' = UnitsRead
    BY <1>2 DEF UnitsRead
  <1>8. SeenSound'
    <2>1. ASSUME NEW e \in DOMAIN rep.seen
          PROVE  FormOf[e] \in rep.forms /\ (e \notin rep'.edited => entry'[e] = rep.seen[e])
      BY <1>1, <1>2, <1>3 DEF SeenSound, Shifted
    <2>2. \A f \in rep.forms : form'[f] # Unborn
      BY <1>1, <1>3 DEF SeenSound, Shifted
    <2> QED BY <1>1, <1>2, <2>1, <2>2 DEF SeenSound
  <1>9. ThenSound'
    <2> SUFFICES ASSUME rep.kind.settled PROVE ThenSound'
      BY <1>2 DEF ThenSound
    <2>1. rep.then \in EntryMaps /\ rep.forms \in SUBSET Forms
      BY <1>3 DEF Shifted, ReportStates
    <2>2. Lasts(rep.then)'
      BY <1>1, <1>2, <1>6, <2>1 DEF ThenSound, Lasts
    <2>3. Untouched(rep.forms)' \subseteq Untouched(rep.forms)
      BY <1>2, <1>5, <2>1 DEF Untouched, OfForms
    <2> QED BY <1>1, <1>2, <2>2, <2>3 DEF ThenSound
  <1>10. RowsBegun'
    BY <1>1, <1>2, <1>7 DEF RowsBegun, Shifted
  <1>11. ASSUME NEW x \in DOMAIN rep.row PROVE RowSound(x)'
    <2> DEFINE r == rep.row[x]
    <2>1. RowSound(x) /\ rep'.row[x] = r /\ r.forms \in SUBSET Forms
      BY <1>1, <1>2, <1>3
    <2>2. Pending(rep.kind.row, "forms") =>
            \A f \in r.forms : form'[f] # Unborn /\ form'[f].place.unit = x
      BY <2>1 DEF RowSound, Shifted
    <2>3. Pending(rep.kind.row, "members") /\ ~Pending(r.todo, "members") =>
            \A w \in Workers \ rep'.moved : w \in r.members <=> place'[w].unit = x
      BY <1>2, <2>1 DEF RowSound, Shifted
    <2>4. /\ Untouched(rep.row[x].forms)' \subseteq Untouched(r.forms)
          /\ Lasts(r.got) => Lasts(rep.row[x].got)'
      <3>1. r.got \in EntryMaps
        BY <1>11 DEF Shifted, ReportStates, RowMaps, RowRecords
      <3>2. Untouched(rep.row[x].forms)' \subseteq Untouched(r.forms)
        BY <1>2, <1>5, <2>1 DEF Untouched, OfForms
      <3>3. Lasts(r.got) => Lasts(rep.row[x].got)'
        BY <1>6, <2>1, <3>1 DEF Lasts
      <3> QED BY <3>2, <3>3
    <2> QED BY <1>2, <2>1, <2>2, <2>3, <2>4 DEF RowSound
  <1> QED BY <1>1, <1>2, <1>8, <1>9, <1>10, <1>11 DEF ReportsInv

-----------------------------------------------------------------------------
(* The reads.                                                              *)
LEMMA EmptyMap ==
  /\ T!Empty \in EntryMaps /\ DOMAIN T!Empty = {} /\ T!Empty \in RowMaps
  <1>1. T!Empty = [e \in {} |-> {}]
    BY DEF T!Empty
  <1>2. T!Empty \in [{} -> Recorded] /\ T!Empty \in [{} -> RowRecords] /\ DOMAIN T!Empty = {}
    BY <1>1
  <1> QED BY <1>2 DEF EntryMaps, RowMaps

LEMMA EntriesOfForms ==
  ASSUME World, NEW F
  PROVE  /\ T!EntriesOf(F) \in EntryMaps /\ DOMAIN T!EntriesOf(F) = OfForms(F)
         /\ \A e \in OfForms(F) : T!EntriesOf(F)[e] = entry[e]
         /\ F = {} => T!EntriesOf(F) = T!Empty
  <1>1. T!EntriesOf(F) = [e \in OfForms(F) |-> entry[e]]
    BY DEF T!EntriesOf, OfForms
  <1>2. OfForms(F) \in SUBSET Entries /\ \A e \in OfForms(F) : entry[e] \in Recorded
    BY KeptIsRecorded DEF OfForms
  <1>3. T!EntriesOf(F) \in [OfForms(F) -> Recorded]
    BY <1>1, <1>2
  <1>4. T!EntriesOf(F) \in EntryMaps
    BY <1>2, <1>3 DEF EntryMaps
  <1>5. ASSUME F = {} PROVE T!EntriesOf(F) = T!Empty
    <2>1. OfForms(F) = {}
      BY <1>5 DEF OfForms
    <2> QED BY <1>1, <2>1 DEF T!Empty
  <1> QED BY <1>1, <1>4, <1>5

(* What is known when a report reads.                                      *)
Reading ==
  /\ rep \in ReportStates /\ KindSound(rep.kind) /\ World
  /\ InOrder(rep.todo, rep.kind) /\ SeenSound /\ ThenSound /\ RowsBegun
  /\ \A x \in DOMAIN rep.row : RowSound(x)
LEMMA ReadingHolds ==
  ASSUME ReportsInv, rep.pc = "reads"
  PROVE  Reading
  <1>1. rep \in ReportStates
    BY RepByPc
  <1>2. rep.kind \in T!Reports
    BY <1>1 DEF ReportStates
  <1> QED BY <1>1, <1>2, KindsSound DEF ReportsInv, Reading

LEMMA WorldStays ==
  ASSUME World, T!ReadsOnly
  PROVE  /\ World' /\ \A e \in Entries : T!Kept(e)' <=> T!Kept(e)
         /\ units' = units /\ place' = place /\ form' = form /\ entry' = entry
  BY DEF World, T!ReadsOnly, T!Kept, T!There

LEMMA StartReportKeeps ==
  ASSUME ReportsInv, NEW k \in T!Reports, T!Start(k)
  PROVE  ReportsInv'
  <1>1. /\ rep' = T!Started(k) /\ World' /\ KindSound(k)
    BY WorldStays, KindsSound DEF ReportsInv, T!Start
  <1>2. /\ rep'.pc = "reads" /\ rep'.kind = k /\ rep'.todo = k.reads /\ rep'.forms = {}
        /\ rep'.seen = T!Empty /\ rep'.row = T!Empty /\ rep'.then = T!Empty
    BY <1>1 DEF T!Started
  <1>3. rep' \in ReportStates
    BY <1>1, EmptyMap, ReportsSizes DEF T!Started, ReportStates, KindSound
  <1>4. InOrder(rep'.todo, rep'.kind) /\ SeenSound' /\ RowsBegun'
    <2>1. k.row # <<>> => k.by # "none"
      BY <1>1 DEF KindSound
    <2>2. InOrder(k.reads, k) /\ k.reads # <<>>
      BY <1>1 DEF KindSound
    <2>3. SeenSound'
      BY <1>1, <1>2, <2>2, EmptyMap DEF SeenSound, InOrder, KindSound
    <2>4. UnitsRead' => ~Pending(k.reads, "units")
      BY <1>2 DEF UnitsRead
    <2>5. RowsBegun'
      BY <1>1, <1>2, <2>2, <2>4, EmptyMap DEF RowsBegun, KindSound
    <2> QED BY <1>2, <2>2, <2>3, <2>5
  <1>5. ThenSound'
    BY <1>1, <1>2, EmptyMap DEF ThenSound, KindSound, InOrder, Lasts, Untouched, OfForms
  <1> QED BY <1>1, <1>2, <1>3, <1>4, <1>5, EmptyMap DEF ReportsInv

LEMMA ReadEntriesKeeps ==
  ASSUME ReportsInv, T!ReadEntries
  PROVE  ReportsInv'
  <1> DEFINE t == Tail(rep.todo)  s == T!EntriesOf(rep.forms)
  <1>1. /\ rep' = [rep EXCEPT !.todo = t, !.seen = s] /\ T!ReadsOnly
        /\ rep.pc = "reads" /\ rep.todo # <<>> /\ Head(rep.todo) = "entries"
    BY DEF T!ReadEntries, T!Next1, T!Goes
  <1>2. Reading
    BY <1>1, ReadingHolds
  <1>3. /\ t \in Seq(Reads) /\ InOrder(t, rep.kind) /\ Pending(rep.todo, "entries")
        /\ \A what : Pending(t, what) <=> Pending(rep.todo, what) /\ what # "entries"
    BY <1>1, <1>2, TailInOrder DEF Reading, ReportStates
  <1>4. /\ s \in EntryMaps /\ DOMAIN s = OfForms(rep.forms)
        /\ \A e \in OfForms(rep.forms) : s[e] = entry[e]
    BY <1>2, EntriesOfForms DEF Reading
  <1>5. ~Pending(t, "forms") /\ ~Pending(rep.todo, "forms")
    BY <1>3 DEF InOrder
  <1>6. /\ World' /\ UNCHANGED <<units, place, form, entry>>
        /\ \A e \in Entries : T!Kept(e)' <=> T!Kept(e)
    BY <1>1, <1>2, WorldStays DEF Reading
  <1>7. rep.kind.settled /\ rep.kind.row = <<>> => Untouched(rep.forms) \subseteq DOMAIN rep.then
    BY <1>2, <1>5 DEF Reading, ThenSound
  <1>8. rep \in ReportStates
    BY <1>2 DEF Reading
  <1> HIDE DEF t, s
  <1>9. /\ rep' \in ReportStates /\ rep'.pc = "reads" /\ rep'.kind = rep.kind /\ rep'.todo = t
        /\ rep'.forms = rep.forms /\ rep'.seen = s /\ rep'.row = rep.row /\ rep'.then = rep.then
        /\ rep'.joined = rep.joined /\ rep'.moved = rep.moved /\ rep'.edited = rep.edited
    BY <1>1, <1>3, <1>4, <1>8 DEF ReportStates
  <1>10. rep.forms \subseteq Forms /\ DOMAIN rep.then \subseteq Entries /\ OfForms(rep.forms) \subseteq Entries
    BY <1>8 DEF ReportStates, EntryMaps, OfForms
  <1>11. SeenSound'
    <2>1. \A e \in OfForms(rep.forms) : FormOf[e] \in rep.forms
      BY DEF OfForms
    <2>2. \A f \in rep.forms : form[f] # Unborn
      BY <1>2 DEF Reading, SeenSound
    <2>3. Pending(rep.kind.reads, "forms")
      BY <1>2, <1>3 DEF Reading, SeenSound
    <2> QED BY <1>3, <1>4, <1>5, <1>6, <1>9, <2>1, <2>2, <2>3 DEF SeenSound
  <1>12. ThenSound'
    <2> SUFFICES ASSUME rep.kind.settled PROVE ThenSound'
      BY <1>9 DEF ThenSound
    <2>1. Lasts(rep.then)'
      BY <1>2, <1>6, <1>9, <1>10 DEF Reading, ThenSound, Lasts
    <2>2. Untouched(rep.forms)' = Untouched(rep.forms) /\ Untouched(rep.forms) \subseteq DOMAIN s
      BY <1>4, <1>6, <1>9 DEF Untouched, OfForms
    <2> QED BY <1>7, <1>9, <2>1, <2>2 DEF ThenSound
  <1>13. RowsBegun'
    <2>1. UnitsRead' => UnitsRead
      BY <1>1, <1>3, <1>9 DEF UnitsRead
    <2> QED BY <1>1, <1>2, <1>6, <1>9, <2>1 DEF RowsBegun, Reading
  <1>14. ASSUME NEW x \in DOMAIN rep.row PROVE RowSound(x)'
    <2>1. rep.kind.row = <<>> /\ RowSound(x)
      BY <1>1, <1>2, <1>14 DEF Reading, RowsBegun
    <2>2. \A what : ~Pending(rep.kind.row, what)
      BY <2>1, NoneInOrder
    <2> QED BY <1>6, <1>9, <2>1, <2>2 DEF RowSound
  <1> QED BY <1>3, <1>6, <1>9, <1>11, <1>12, <1>13, <1>14 DEF ReportsInv

LEMMA ReadFormsKeeps ==
  ASSUME ReportsInv, T!ReadForms
  PROVE  ReportsInv'
  <1> DEFINE F == {f \in Forms : T!Counts(f, rep.kind) /\ form[f].place.inside}
             t == IF F = {} THEN <<>> ELSE Tail(rep.todo)
             n == T!Was(F)
  <1>1. /\ rep' = [rep EXCEPT !.todo = t, !.forms = F, !.then = n] /\ T!ReadsOnly
        /\ rep.pc = "reads" /\ rep.todo # <<>> /\ Head(rep.todo) = "forms"
    BY DEF T!ReadForms, T!Next1, T!Goes
  <1>2. Reading
    BY <1>1, ReadingHolds
  <1>3. /\ t \in Seq(Reads) /\ InOrder(t, rep.kind) /\ Pending(rep.todo, "forms") /\ ~Pending(t, "forms")
        /\ \A what : Pending(t, what) => Pending(rep.todo, what)
        /\ F # {} => \A what : Pending(t, what) <=> Pending(rep.todo, what) /\ what # "forms"
    <2>1. /\ Tail(rep.todo) \in Seq(Reads) /\ InOrder(Tail(rep.todo), rep.kind)
          /\ Pending(rep.todo, "forms")
          /\ \A what : Pending(Tail(rep.todo), what) <=> Pending(rep.todo, what) /\ what # "forms"
      BY <1>1, <1>2, TailInOrder DEF Reading, ReportStates
    <2> HIDE DEF F
    <2> QED BY <2>1, NoneInOrder
  <1>4. Pending(rep.todo, "entries") /\ rep.seen = T!Empty
    BY <1>2, <1>3 DEF Reading, InOrder, SeenSound
  <1>5. F \in SUBSET Forms /\ \A f \in F : form[f] # Unborn
    BY DEF T!Counts, T!There
  <1>6. /\ World' /\ UNCHANGED <<units, place, form, entry>>
        /\ \A e \in Entries : T!Kept(e)' <=> T!Kept(e)
    BY <1>1, <1>2, WorldStays DEF Reading
  <1> HIDE DEF F
  <1>7. /\ n \in EntryMaps
        /\ rep.kind.settled => n = T!EntriesOf(F)
        /\ F = {} => n = T!Empty
    BY <1>2, EntriesOfForms, EmptyMap DEF Reading, T!Was
  <1>8. rep \in ReportStates
    BY <1>2 DEF Reading
  <1> HIDE DEF t, n
  <1>9. /\ rep' \in ReportStates /\ rep'.pc = "reads" /\ rep'.kind = rep.kind /\ rep'.todo = t
        /\ rep'.forms = F /\ rep'.seen = rep.seen /\ rep'.row = rep.row /\ rep'.then = n
        /\ rep'.joined = rep.joined /\ rep'.moved = rep.moved /\ rep'.edited = rep.edited
    BY <1>1, <1>3, <1>5, <1>7, <1>8 DEF ReportStates
  <1>10. SeenSound'
    <2>1. Pending(rep.kind.reads, "forms")
      BY <1>2, <1>3 DEF Reading, SeenSound
    <2> QED BY <1>3, <1>4, <1>5, <1>6, <1>9, <2>1, EmptyMap DEF SeenSound
  <1>11. ThenSound'
    <2> SUFFICES ASSUME rep.kind.settled PROVE ThenSound'
      BY <1>9 DEF ThenSound
    <2>1. DOMAIN n = OfForms(F) /\ \A e \in OfForms(F) : n[e] = entry[e]
      BY <1>2, <1>7, EntriesOfForms DEF Reading
    <2>2. Lasts(rep.then)'
      BY <1>6, <1>9, <2>1 DEF Lasts, OfForms
    <2>3. Untouched(rep.forms)' = Untouched(F) /\ Untouched(F) \subseteq DOMAIN n
      BY <1>6, <1>9, <2>1 DEF Untouched, OfForms
    <2>4. ~Pending(t, "entries") => Untouched(F) = {}
      <3> SUFFICES ASSUME ~Pending(t, "entries") PROVE Untouched(F) = {}
        OBVIOUS
      <3>1. F = {}
        BY <1>3, <1>4
      <3> QED BY <3>1 DEF Untouched, OfForms
    <2> QED BY <1>9, <2>2, <2>3, <2>4 DEF ThenSound
  <1>12. RowsBegun'
    <2>1. UnitsRead' => UnitsRead
      <3>1. F = {} => ~UnitsRead'
        BY <1>9 DEF UnitsRead, t
      <3>2. F # {} => (Pending(t, "units") <=> Pending(rep.todo, "units"))
        BY <1>3
      <3> QED BY <1>1, <1>9, <3>1, <3>2 DEF UnitsRead
    <2> QED BY <1>1, <1>2, <1>6, <1>9, <2>1 DEF RowsBegun, Reading
  <1>13. ASSUME NEW x \in DOMAIN rep.row PROVE RowSound(x)'
    <2>1. rep.kind.row = <<>> /\ RowSound(x)
      BY <1>1, <1>2, <1>13 DEF Reading, RowsBegun
    <2>2. \A what : ~Pending(rep.kind.row, what)
      BY <2>1, NoneInOrder
    <2> QED BY <1>6, <1>9, <2>1, <2>2 DEF RowSound
  <1> QED BY <1>3, <1>6, <1>9, <1>10, <1>11, <1>12, <1>13 DEF ReportsInv

LEMMA ReadUnitsKeeps ==
  ASSUME ReportsInv, T!ReadUnits
  PROVE  ReportsInv'
  <1> DEFINE below == IF rep.kind.by = "worker" THEN T!GroupWorkers ELSE units
             Fresh(x) == [todo |-> rep.kind.row, forms |-> rep.forms, got |-> T!Empty,
                          members |-> IF rep.kind.by = "worker" THEN {x} ELSE Workers]
             R1 == [x \in below |-> Fresh(x)]
             t == Tail(rep.todo)
  <1>1. /\ T!ReadsOnly /\ rep.pc = "reads" /\ rep.todo # <<>> /\ Head(rep.todo) = "units"
        /\ rep' = T!Answered \/ rep' = [rep EXCEPT !.todo = t, !.row = R1]
    BY DEF T!ReadUnits, T!Next1, T!Goes
  <1>2. Reading
    BY <1>1, ReadingHolds
  <1>3. /\ World' /\ UNCHANGED <<units, place, form, entry>>
        /\ \A e \in Entries : T!Kept(e)' <=> T!Kept(e)
    BY <1>1, <1>2, WorldStays DEF Reading
  <1>4. CASE rep' = T!Answered
    BY <1>3, <1>4 DEF ReportsInv, T!Answered
  <1>5. CASE rep' = [rep EXCEPT !.todo = t, !.row = R1]
    <2>1. /\ t \in Seq(Reads) /\ InOrder(t, rep.kind) /\ Pending(rep.todo, "units")
          /\ \A what : Pending(t, what) <=> Pending(rep.todo, what) /\ what # "units"
          /\ rep.kind.row # <<>> => t = <<>>
      BY <1>1, <1>2, TailInOrder DEF Reading, ReportStates
    <2>2. /\ rep \in ReportStates /\ rep.kind.row \in Seq(RowReads) /\ rep.forms \in SUBSET Forms
          /\ RowInOrder(rep.kind.row, rep.kind)
          /\ rep.kind.by \in {"unit", "worker", "none"} /\ World
      BY <1>2 DEF Reading, KindSound, ReportStates
    <2>3. /\ below \subseteq Units \cup Workers
          /\ rep.kind.by = "worker" => below = {w \in Workers : place[w].inside}
          /\ rep.kind.by # "worker" => below = units
      BY <2>2 DEF T!GroupWorkers, World
    <2> HIDE DEF below
    <2>4. \A x \in below : R1[x] \in RowRecords
      BY <2>2, <2>3, EmptyMap DEF RowRecords
    <2>5. R1 \in RowMaps /\ DOMAIN R1 = below
      <3>1. R1 \in [below -> RowRecords]
        BY <2>4
      <3> HIDE DEF R1
      <3> QED BY <2>3, <3>1 DEF RowMaps
    <2>6. ASSUME NEW x \in below
          PROVE  /\ R1[x].todo = rep.kind.row /\ R1[x].forms = rep.forms /\ R1[x].got = T!Empty
                 /\ rep.kind.by = "worker" => R1[x].members = {x}
                 /\ rep.kind.by # "worker" => R1[x].members = Workers
      OBVIOUS
    <2> HIDE DEF R1, t
    <2>7. /\ rep' \in ReportStates /\ rep'.pc = "reads" /\ rep'.kind = rep.kind /\ rep'.todo = t
          /\ rep'.forms = rep.forms /\ rep'.seen = rep.seen /\ rep'.row = R1 /\ rep'.then = rep.then
          /\ rep'.joined = rep.joined /\ rep'.moved = rep.moved /\ rep'.edited = rep.edited
      BY <1>5, <2>1, <2>2, <2>5 DEF ReportStates
    <2>8. DOMAIN rep.seen \subseteq Entries /\ DOMAIN rep.then \subseteq Entries
      BY <2>2 DEF ReportStates, EntryMaps
    <2>9. SeenSound'
      BY <1>2, <1>3, <2>1, <2>7 DEF Reading, SeenSound
    <2>10. ThenSound'
      <3>1. ~Pending(t, "forms") => ~Pending(rep.todo, "forms")
        BY <2>1
      <3>2. ~Pending(t, "entries") => ~Pending(rep.todo, "entries")
        BY <2>1
      <3>3. Untouched(rep.forms)' = Untouched(rep.forms)
        BY <1>3, <2>7 DEF Untouched, OfForms
      <3>4. Lasts(rep.then) => Lasts(rep.then)'
        BY <1>3, <2>7, <2>8 DEF Lasts
      <3>5. ThenSound
        BY <1>2 DEF Reading
      <3> QED BY <2>7, <3>1, <3>2, <3>3, <3>4, <3>5 DEF ThenSound
    <2>11. RowsBegun'
      BY <1>3, <2>1, <2>3, <2>5, <2>6, <2>7 DEF RowsBegun
    <2>12. ASSUME NEW x \in below PROVE RowSound(x)'
      <3>1. rep'.row[x] = R1[x]
        BY <2>7
      <3>2. Pending(rep.kind.row, "forms") => rep.forms = {}
        BY <1>2 DEF Reading, KindSound, SeenSound
      <3>3. rep.kind.row # <<>> => Pending(rep.kind.row, "entries")
        BY <2>2, TailRowInOrder
      <3>4. rep.kind.settled /\ rep.kind.row # <<>> => Pending(rep.kind.row, "forms")
        BY <1>2 DEF Reading, KindSound
      <3> QED BY <2>2, <2>6, <2>7, <3>1, <3>2, <3>3, <3>4, EmptyMap DEF RowSound, Lasts
    <2> QED BY <1>3, <2>1, <2>5, <2>7, <2>9, <2>10, <2>11, <2>12 DEF ReportsInv
  <1> QED BY <1>1, <1>4, <1>5

(* A read of one row; then only what it sets may still have to be shown.   *)
RowTurned(x, q, n) ==
  /\ rep' \in ReportStates /\ rep'.pc = "reads" /\ rep'.kind = rep.kind /\ rep'.todo = rep.todo
  /\ rep'.forms = rep.forms /\ rep'.seen = rep.seen /\ rep'.then = n
  /\ rep'.joined = rep.joined /\ rep'.moved = rep.moved /\ rep'.edited = rep.edited
  /\ DOMAIN rep'.row = DOMAIN rep.row /\ rep'.row[x] = q
  /\ \A y \in DOMAIN rep.row : y # x => rep'.row[y] = rep.row[y]

LEMMA RowTurns ==
  ASSUME rep \in ReportStates, NEW x \in DOMAIN rep.row, NEW q \in RowRecords, NEW n \in EntryMaps,
         rep.pc = "reads", rep' = [rep EXCEPT !.row = [rep.row EXCEPT ![x] = q], !.then = n]
  PROVE  RowTurned(x, q, n)
  <1> DEFINE R1 == [rep.row EXCEPT ![x] = q]
  <1>1. rep.row \in RowMaps
    BY DEF ReportStates
  <1>2. PICK S \in SUBSET (Units \cup Workers) : rep.row \in [S -> RowRecords]
    BY <1>1 DEF RowMaps
  <1>3. R1 \in [S -> RowRecords] /\ DOMAIN R1 = DOMAIN rep.row /\ R1[x] = q
        /\ \A y \in DOMAIN rep.row : y # x => R1[y] = rep.row[y]
    BY <1>2
  <1>4. rep' = [rep EXCEPT !.row = R1, !.then = n]
    OBVIOUS
  <1> HIDE DEF R1
  <1>5. R1 \in RowMaps
    BY <1>3 DEF RowMaps
  <1>6. /\ rep' \in ReportStates /\ rep'.row = R1 /\ rep'.then = n
        /\ rep'.pc = "reads" /\ rep'.kind = rep.kind /\ rep'.todo = rep.todo
        /\ rep'.forms = rep.forms /\ rep'.seen = rep.seen
        /\ rep'.joined = rep.joined /\ rep'.moved = rep.moved /\ rep'.edited = rep.edited
    BY <1>4, <1>5 DEF ReportStates
  <1> QED BY <1>3, <1>6 DEF RowTurned

LEMMA RowTurnKeeps ==
  ASSUME ReportsInv, T!ReadsOnly, rep.pc = "reads", rep.todo = <<>>,
         NEW x \in DOMAIN rep.row, rep.row[x].todo # <<>>,
         NEW q, NEW n, RowTurned(x, q, n), DOMAIN rep.then \subseteq DOMAIN n, DOMAIN n \subseteq Entries,
         rep.kind.settled => Lasts(n),
         RowSound(x)'
  PROVE  ReportsInv'
  <1>1. Reading
    BY ReadingHolds
  <1>2. /\ World' /\ UNCHANGED <<units, place, form, entry>>
        /\ \A e \in Entries : T!Kept(e)' <=> T!Kept(e)
    BY <1>1, WorldStays DEF Reading
  <1>3. rep.kind.row # <<>>
    BY <1>1 DEF Reading, RowsBegun
  <1>4. /\ rep' \in ReportStates /\ rep'.pc = "reads" /\ rep'.kind = rep.kind /\ rep'.todo = rep.todo
        /\ rep'.forms = rep.forms /\ rep'.seen = rep.seen /\ rep'.then = n
        /\ rep'.joined = rep.joined /\ rep'.moved = rep.moved /\ rep'.edited = rep.edited
        /\ DOMAIN rep'.row = DOMAIN rep.row
        /\ \A y \in DOMAIN rep.row : y # x => rep'.row[y] = rep.row[y]
    BY DEF RowTurned
  <1>5. rep.forms \subseteq Forms /\ \A e \in Entries : FormOf[e] \in Forms
    BY <1>1, ReportsSizes DEF Reading, ReportStates
  <1>6. SeenSound'
    BY <1>1, <1>2, <1>4 DEF Reading, SeenSound
  <1>7. ThenSound'
    <2>1. Lasts(n) => Lasts(rep.then)'
      BY <1>2, <1>4 DEF Lasts
    <2> QED BY <1>3, <1>4, <2>1 DEF ThenSound
  <1>8. RowsBegun'
    <2>1. UnitsRead' = UnitsRead
      BY <1>4 DEF UnitsRead
    <2> QED BY <1>1, <1>2, <1>3, <1>4, <2>1 DEF Reading, RowsBegun
  <1>9. ASSUME NEW y \in DOMAIN rep.row, y # x PROVE RowSound(y)'
    <2>1. RowSound(y) /\ rep'.row[y] = rep.row[y]
      BY <1>1, <1>4, <1>9 DEF Reading
    <2>2. rep.row[y].forms \subseteq Forms
      BY <1>1, <1>9 DEF Reading, ReportStates, RowMaps, RowRecords
    <2>3. rep.row[y].got \in EntryMaps
      BY <1>1, <1>9 DEF Reading, ReportStates, RowMaps, RowRecords
    <2>4. Untouched(rep.row[y].forms)' = Untouched(rep.row[y].forms)
      BY <1>2, <1>4, <2>1 DEF Untouched, OfForms
    <2>5. Lasts(rep.row[y].got) => Lasts(rep.row[y].got)'
      BY <1>2, <1>4, <2>1, <2>3 DEF Lasts, EntryMaps
    <2>6. rep.kind.row # <<>> /\ rep.kind.settled =>
              /\ ~Pending(rep.row[y].todo, "forms") => Untouched(rep.row[y].forms) \subseteq DOMAIN n
              /\ ~Pending(rep.row[y].todo, "entries") => Untouched(rep.row[y].forms) \subseteq DOMAIN rep.row[y].got
              /\ Lasts(rep.row[y].got)
      BY <2>1 DEF RowSound
    <2> QED BY <1>2, <1>4, <2>1, <2>4, <2>5, <2>6 DEF RowSound
  <1> QED BY <1>1, <1>2, <1>4, <1>6, <1>7, <1>8, <1>9 DEF ReportsInv, Reading

(* What is known of the row that is read.                                  *)
LEMMA RowReading ==
  ASSUME ReportsInv, NEW x, NEW what, T!NextOf(x, what)
  PROVE  /\ Reading /\ rep.pc = "reads" /\ rep.todo = <<>> /\ x \in DOMAIN rep.row
         /\ x \in Units \cup Workers /\ rep.kind.row # <<>>
         /\ RowSound(x) /\ rep.row[x] \in RowRecords /\ rep.row[x].todo # <<>>
         /\ T!Turned(x) = [rep.row[x] EXCEPT !.todo = Tail(rep.row[x].todo)]
         /\ Tail(rep.row[x].todo) \in Seq(RowReads) /\ RowInOrder(Tail(rep.row[x].todo), rep.kind)
         /\ Pending(rep.row[x].todo, "entries") /\ Pending(rep.row[x].todo, what)
         /\ Pending(rep.kind.row, what) /\ Pending(rep.kind.row, "entries")
         /\ \A y : Pending(Tail(rep.row[x].todo), y) <=> Pending(rep.row[x].todo, y) /\ y # what
  <1>1. /\ rep.pc = "reads" /\ rep.todo = <<>> /\ x \in DOMAIN rep.row
        /\ rep.row[x].todo # <<>> /\ Head(rep.row[x].todo) = what
    BY DEF T!NextOf, T!Goes
  <1>2. Reading
    BY <1>1, ReadingHolds
  <1>3. /\ RowSound(x) /\ rep.row[x] \in RowRecords /\ x \in Units \cup Workers
    BY <1>1, <1>2 DEF Reading, ReportStates, RowMaps
  <1>4. rep.row[x].todo \in Seq(RowReads) /\ RowInOrder(rep.row[x].todo, rep.kind)
    BY <1>3 DEF RowSound, RowRecords
  <1>5. /\ Tail(rep.row[x].todo) \in Seq(RowReads) /\ RowInOrder(Tail(rep.row[x].todo), rep.kind)
        /\ Pending(rep.row[x].todo, "entries") /\ Pending(rep.row[x].todo, what)
        /\ Pending(rep.kind.row, what)
        /\ \A y : Pending(Tail(rep.row[x].todo), y) <=> Pending(rep.row[x].todo, y) /\ y # what
    BY <1>1, <1>4, TailRowInOrder
  <1>6. rep.kind.row # <<>>
    BY <1>5, NoneInOrder
  <1>7. Pending(rep.kind.row, "entries")
    <2>1. rep.kind.row \in Seq(RowReads) /\ RowInOrder(rep.kind.row, rep.kind)
      BY <1>2 DEF Reading, KindSound
    <2> QED BY <1>6, <2>1, TailRowInOrder
  <1> QED BY <1>1, <1>2, <1>3, <1>5, <1>6, <1>7 DEF T!Turned

LEMMA ReadFormsOfKeeps ==
  ASSUME ReportsInv, NEW x, T!ReadFormsOf(x)
  PROVE  ReportsInv'
  <1> DEFINE F == {f \in Forms : T!Counts(f, rep.kind) /\ form[f].place.unit = x}
             w == T!Was(F)
             n == T!Joined(w, rep.then)
             q == [T!Turned(x) EXCEPT !.forms = F]
             t == Tail(rep.row[x].todo)
  <1>1. /\ rep' = [rep EXCEPT !.row = [rep.row EXCEPT ![x] = q], !.then = n]
        /\ T!ReadsOnly /\ T!NextOf(x, "forms")
    BY DEF T!ReadFormsOf
  <1>2. /\ Reading /\ rep.pc = "reads" /\ rep.todo = <<>> /\ x \in DOMAIN rep.row
        /\ rep.kind.row # <<>> /\ RowSound(x) /\ rep.row[x] \in RowRecords /\ rep.row[x].todo # <<>>
        /\ T!Turned(x) = [rep.row[x] EXCEPT !.todo = t]
        /\ t \in Seq(RowReads) /\ RowInOrder(t, rep.kind)
        /\ Pending(rep.row[x].todo, "entries") /\ Pending(rep.kind.row, "forms")
        /\ \A y : Pending(t, y) <=> Pending(rep.row[x].todo, y) /\ y # "forms"
    BY <1>1, RowReading
  <1>3. F \in SUBSET Forms /\ \A f \in F : form[f] # Unborn /\ form[f].place.unit = x
    BY DEF T!Counts, T!There
  <1> HIDE DEF F, t
  <1>4. /\ q \in RowRecords /\ q.todo = t /\ q.forms = F /\ q.got = rep.row[x].got
        /\ q.members = rep.row[x].members
    BY <1>2, <1>3 DEF RowRecords
  <1>5. /\ w \in EntryMaps
        /\ rep.kind.settled => DOMAIN w = OfForms(F) /\ \A e \in OfForms(F) : w[e] = entry[e]
    BY <1>2, EntriesOfForms, EmptyMap DEF Reading, T!Was
  <1> HIDE DEF q, w
  <1>6. /\ n \in EntryMaps /\ DOMAIN n = DOMAIN w \cup DOMAIN rep.then
        /\ \A e \in DOMAIN n : n[e] = IF e \in DOMAIN w THEN w[e] ELSE rep.then[e]
    <2>1. rep.then \in EntryMaps
      BY <1>2 DEF Reading, ReportStates
    <2>2. /\ DOMAIN n = DOMAIN w \cup DOMAIN rep.then /\ DOMAIN n \subseteq Entries
          /\ n = [e \in DOMAIN n |-> n[e]]
          /\ \A e \in DOMAIN n :
               n[e] \in Recorded /\ n[e] = IF e \in DOMAIN w THEN w[e] ELSE rep.then[e]
      BY <1>5, <2>1 DEF EntryMaps, T!Joined
    <2>3. n \in [DOMAIN n -> Recorded]
      BY <2>2
    <2> HIDE DEF n
    <2> QED BY <2>2, <2>3 DEF EntryMaps
  <1> HIDE DEF n
  <1>7. RowTurned(x, q, n)
    BY <1>1, <1>2, <1>4, <1>6, RowTurns DEF Reading
  <1>8. DOMAIN n \subseteq Entries /\ rep.forms \subseteq Forms
    BY <1>2, <1>6 DEF EntryMaps, Reading, ReportStates
  <1>9. rep.kind.settled => Lasts(n)
    BY <1>2, <1>5, <1>6 DEF Reading, ThenSound, OfForms, Lasts
  <1>10. /\ UNCHANGED <<units, place, form, entry>>
         /\ \A e \in Entries : T!Kept(e)' <=> T!Kept(e)
    BY <1>1, <1>2, WorldStays DEF Reading
  <1>11. RowSound(x)'
    <2>1. q.got = T!Empty /\ Pending(t, "entries")
      BY <1>2, <1>4 DEF RowSound
    <2>2. Untouched(rep.row[x].forms)' = Untouched(F)
      BY <1>4, <1>7, <1>10 DEF Untouched, OfForms, RowTurned
    <2>3. rep.kind.settled => Untouched(F) \subseteq DOMAIN n
      BY <1>5, <1>6 DEF Untouched
    <2>4. Pending(t, "members") <=> Pending(rep.row[x].todo, "members")
      BY <1>2
    <2>5. /\ rep'.row[x] = q /\ rep'.kind = rep.kind /\ rep'.forms = rep.forms
          /\ rep'.seen = rep.seen /\ rep'.then = n /\ rep'.moved = rep.moved /\ rep'.edited = rep.edited
      BY <1>7 DEF RowTurned
    <2>6. /\ rep.kind.by = "worker" => q.members = {x}
          /\ rep.kind.by # "worker" /\ ~Pending(rep.kind.row, "members") => q.members = Workers
          /\ Pending(rep.kind.row, "members") /\ ~Pending(t, "members") =>
               \A v \in Workers \ rep.moved : v \in q.members <=> place[v].unit = x
      BY <1>2, <1>4, <2>4 DEF RowSound
    <2> QED BY <1>2, <1>3, <1>4, <1>10, <2>1, <2>2, <2>3, <2>5, <2>6, EmptyMap DEF RowSound, Lasts
  <1>12. DOMAIN rep.then \subseteq DOMAIN n
    BY <1>6
  <1> QED BY <1>1, <1>2, <1>7, <1>8, <1>9, <1>11, <1>12, RowTurnKeeps

LEMMA ReadMembersOfKeeps ==
  ASSUME ReportsInv, NEW x, T!ReadMembersOf(x)
  PROVE  ReportsInv'
  <1> DEFINE M == {w \in Workers : place[w].unit = x}
             q == [T!Turned(x) EXCEPT !.members = M]
             n == rep.then
             t == Tail(rep.row[x].todo)
  <1>1. /\ rep' = [rep EXCEPT !.row = [rep.row EXCEPT ![x] = q]]
        /\ T!ReadsOnly /\ T!NextOf(x, "members")
    BY DEF T!ReadMembersOf
  <1>2. /\ Reading /\ rep.pc = "reads" /\ rep.todo = <<>> /\ x \in DOMAIN rep.row
        /\ rep.kind.row # <<>> /\ RowSound(x) /\ rep.row[x] \in RowRecords /\ rep.row[x].todo # <<>>
        /\ T!Turned(x) = [rep.row[x] EXCEPT !.todo = t]
        /\ t \in Seq(RowReads) /\ RowInOrder(t, rep.kind)
        /\ Pending(rep.row[x].todo, "entries") /\ Pending(rep.kind.row, "members")
        /\ \A y : Pending(t, y) <=> Pending(rep.row[x].todo, y) /\ y # "members"
    BY <1>1, RowReading
  <1>3. M \in SUBSET Workers /\ \A w \in Workers : w \in M <=> place[w].unit = x
    OBVIOUS
  <1> HIDE DEF M, t
  <1>4. /\ q \in RowRecords /\ q.todo = t /\ q.forms = rep.row[x].forms /\ q.got = rep.row[x].got
        /\ q.members = M
    BY <1>2, <1>3 DEF RowRecords
  <1> HIDE DEF q
  <1>5. n \in EntryMaps /\ rep' = [rep EXCEPT !.row = [rep.row EXCEPT ![x] = q], !.then = n]
    BY <1>1, <1>2 DEF Reading, ReportStates
  <1> HIDE DEF n
  <1>6. RowTurned(x, q, n)
    BY <1>2, <1>4, <1>5, RowTurns DEF Reading
  <1>7. /\ UNCHANGED <<units, place, form, entry>>
        /\ \A e \in Entries : T!Kept(e)' <=> T!Kept(e)
    BY <1>1, <1>2, WorldStays DEF Reading
  <1>8. rep.kind.by # "worker" /\ ~rep.kind.settled
    BY <1>2 DEF Reading, KindSound
  <1>9. RowSound(x)'
    <2>1. q.got = T!Empty /\ Pending(t, "entries")
      BY <1>2, <1>4 DEF RowSound
    <2>2. /\ rep'.row[x] = q /\ rep'.kind = rep.kind /\ rep'.forms = rep.forms
          /\ rep'.seen = rep.seen /\ rep'.moved = rep.moved /\ rep'.edited = rep.edited
      BY <1>6 DEF RowTurned
    <2> QED BY <1>2, <1>3, <1>4, <1>7, <1>8, <2>1, <2>2, EmptyMap DEF RowSound
  <1>10. DOMAIN rep.then \subseteq DOMAIN n /\ DOMAIN n \subseteq Entries
    BY <1>2 DEF n, Reading, ReportStates, EntryMaps
  <1> QED BY <1>1, <1>2, <1>6, <1>8, <1>9, <1>10, RowTurnKeeps

LEMMA ReadEntriesOfKeeps ==
  ASSUME ReportsInv, NEW x, T!ReadEntriesOf(x)
  PROVE  ReportsInv'
  <1> DEFINE r == rep.row[x]
             G == T!RowEntries(r)
             q == [T!Turned(x) EXCEPT !.got = G]
             n == rep.then
             t == Tail(rep.row[x].todo)
  <1>1. /\ rep' = [rep EXCEPT !.row = [rep.row EXCEPT ![x] = q]]
        /\ T!ReadsOnly /\ T!NextOf(x, "entries")
    BY DEF T!ReadEntriesOf
  <1>2. /\ Reading /\ rep.pc = "reads" /\ rep.todo = <<>> /\ x \in DOMAIN rep.row
        /\ rep.kind.row # <<>> /\ RowSound(x) /\ r \in RowRecords /\ r.todo # <<>>
        /\ T!Turned(x) = [rep.row[x] EXCEPT !.todo = t]
        /\ t \in Seq(RowReads) /\ RowInOrder(t, rep.kind)
        /\ Pending(r.todo, "entries") /\ Pending(rep.kind.row, "entries")
        /\ \A y : Pending(t, y) <=> Pending(r.todo, y) /\ y # "entries"
    BY <1>1, RowReading
  <1>3. /\ G \in EntryMaps
        /\ DOMAIN G = {e \in OfForms(r.forms) : WorkerOf[FormOf[e]] \in r.members}
        /\ \A e \in DOMAIN G : G[e] = entry[e]
    <2> DEFINE all == T!EntriesOf(r.forms)
    <2>1. /\ DOMAIN all = OfForms(r.forms) /\ all \in EntryMaps
          /\ \A e \in OfForms(r.forms) : all[e] = entry[e]
      BY <1>2, EntriesOfForms DEF Reading
    <2>2. G = [e \in {d \in DOMAIN all : WorkerOf[FormOf[d]] \in r.members} |-> all[e]]
      BY DEF T!RowEntries
    <2> HIDE DEF all, G, r
    <2>3. /\ DOMAIN G = {e \in OfForms(r.forms) : WorkerOf[FormOf[e]] \in r.members}
          /\ \A e \in DOMAIN G : G[e] = entry[e] /\ G[e] \in Recorded
          /\ G = [e \in DOMAIN G |-> G[e]] /\ DOMAIN G \subseteq Entries
      BY <2>1, <2>2 DEF EntryMaps
    <2>4. G \in [DOMAIN G -> Recorded]
      BY <2>3
    <2> QED BY <2>3, <2>4 DEF EntryMaps
  <1> HIDE DEF G, t
  <1>4. /\ q \in RowRecords /\ q.todo = t /\ q.forms = r.forms /\ q.got = G
        /\ q.members = r.members
    BY <1>2, <1>3 DEF RowRecords
  <1> HIDE DEF q
  <1>5. n \in EntryMaps /\ rep' = [rep EXCEPT !.row = [rep.row EXCEPT ![x] = q], !.then = n]
    BY <1>1, <1>2 DEF Reading, ReportStates
  <1> HIDE DEF n
  <1>6. RowTurned(x, q, n)
    BY <1>2, <1>4, <1>5, RowTurns DEF Reading
  <1>7. /\ UNCHANGED <<units, place, form, entry>>
        /\ \A e \in Entries : T!Kept(e)' <=> T!Kept(e)
    BY <1>1, <1>2, WorldStays DEF Reading
  <1>8. /\ rep'.row[x] = q /\ rep'.kind = rep.kind /\ rep'.forms = rep.forms /\ rep'.then = rep.then
        /\ rep'.seen = rep.seen /\ rep'.moved = rep.moved /\ rep'.edited = rep.edited
    BY <1>6 DEF RowTurned, n
  <1>9. RowSound(x)'
    <2>1. \A e \in DOMAIN G : FormOf[e] \in r.forms /\ WorkerOf[FormOf[e]] \in r.members
      BY <1>3 DEF OfForms
    <2>2. ~Pending(t, "entries")
      BY <1>2
    <2>3. ASSUME ~Pending(rep.kind.row, "forms"), NEW e \in DOMAIN rep.seen \ rep.edited,
                 WorkerOf[FormOf[e]] \in r.members
          PROVE  e \in DOMAIN G /\ G[e] = rep.seen[e]
      <3>1. r.forms = rep.forms
        BY <1>2, <2>3 DEF RowSound
      <3>2. FormOf[e] \in rep.forms /\ entry[e] = rep.seen[e]
        BY <1>2, <2>3 DEF Reading, SeenSound
      <3>3. e \in Entries /\ rep.seen[e] \in Recorded
        BY <1>2, <2>3 DEF Reading, ReportStates, EntryMaps
      <3>4. e \in OfForms(r.forms)
        BY <1>2, <3>1, <3>2, <3>3, KeptIsRecorded DEF OfForms, Reading
      <3> QED BY <1>3, <2>3, <3>2, <3>4
    <2>4. Untouched(rep.row[x].forms)' = Untouched(r.forms)
      BY <1>4, <1>7, <1>8 DEF Untouched, OfForms
    <2>5. rep.kind.settled =>
            /\ ~Pending(t, "forms") => Untouched(r.forms) \subseteq DOMAIN rep.then
            /\ Untouched(r.forms) \subseteq DOMAIN G
            /\ Lasts(rep.row[x].got)'
      <3> SUFFICES ASSUME rep.kind.settled
                   PROVE  /\ ~Pending(t, "forms") => Untouched(r.forms) \subseteq DOMAIN rep.then
                          /\ Untouched(r.forms) \subseteq DOMAIN G
                          /\ Lasts(rep.row[x].got)'
        OBVIOUS
      <3>1. Lasts(rep.row[x].got)'
        BY <1>3, <1>4, <1>7, <1>8 DEF Lasts, OfForms
      <3>2. ~Pending(t, "forms") => Untouched(r.forms) \subseteq DOMAIN rep.then
        BY <1>2 DEF RowSound
      <3>3. rep.kind.by # "worker" /\ ~Pending(rep.kind.row, "members")
        BY <1>2 DEF Reading, KindSound
      <3>4. r.members = Workers
        BY <1>2, <3>3 DEF RowSound
      <3>5. \A e \in OfForms(r.forms) : WorkerOf[FormOf[e]] \in Workers
        BY ReportsSizes DEF OfForms
      <3> HIDE DEF r
      <3>6. Untouched(r.forms) \subseteq DOMAIN G
        BY <1>3, <3>4, <3>5 DEF Untouched
      <3> QED BY <3>1, <3>2, <3>6
    <2>6. /\ Pending(rep.kind.row, "forms") =>
               \A f \in r.forms : form[f] # Unborn /\ form[f].place.unit = x
          /\ ~Pending(rep.kind.row, "forms") => r.forms = rep.forms
          /\ rep.kind.by = "worker" => r.members = {x}
          /\ rep.kind.by # "worker" /\ ~Pending(rep.kind.row, "members") => r.members = Workers
          /\ Pending(rep.kind.row, "members") /\ ~Pending(t, "members") =>
               \A w \in Workers \ rep.moved : w \in r.members <=> place[w].unit = x
      BY <1>2 DEF RowSound
    <2> HIDE DEF r
    <2> QED BY <1>2, <1>4, <1>7, <1>8, <2>1, <2>2, <2>3, <2>4, <2>5, <2>6 DEF RowSound
  <1>10. DOMAIN rep.then \subseteq DOMAIN n /\ DOMAIN n \subseteq Entries
    BY <1>2 DEF n, Reading, ReportStates, EntryMaps
  <1>11. rep.kind.settled => Lasts(n)
    BY <1>2 DEF n, Reading, ThenSound
  <1> QED BY <1>1, <1>2, <1>6, <1>9, <1>10, <1>11, RowTurnKeeps

LEMMA ReportStepKeeps ==
  ASSUME ReportsInv, T!Next
  PROVE  ReportsInv'
  <1>1. CASE T!Change
    <2>1. ASSUME NEW f \in Forms, T!CreateForm(f) PROVE ReportsInv'
      BY <2>1, CreateFormShifts, ShiftedKeeps
    <2>2. ASSUME NEW f \in Forms, NEW s \in {"PENDING", "REJECTED", "GONE"}, T!SetStatus(f, s)
          PROVE ReportsInv'
      <3>1. Shifted /\ World'
        BY <2>2, SetStatusShifts
      <3> QED BY <3>1, ShiftedKeeps
    <2>3. ASSUME NEW e \in Entries, NEW v \in Recorded \cup {Gone}, T!WriteEntry(e, v) PROVE ReportsInv'
      BY <2>3, WriteEntryShifts, ShiftedKeeps
    <2>4. ASSUME \/ \E w \in Workers, p \in Places : T!MoveWorker(w, p)
                 \/ \E x \in Units : T!MoveUnit(x)
          PROVE  ReportsInv'
      BY <2>4, MovesShift, ShiftedKeeps
    <2> QED BY <1>1, <2>1, <2>2, <2>3, <2>4 DEF T!Change
  <1>2. CASE \E k \in T!Reports : T!Start(k)
    BY <1>2, StartReportKeeps
  <1>3. CASE T!ReadUnits \/ T!ReadForms \/ T!ReadEntries
    BY <1>3, ReadUnitsKeeps, ReadFormsKeeps, ReadEntriesKeeps
  <1>4. CASE T!Finish
    <2>1. rep' = T!Answered /\ World'
      BY <1>4, WorldStays DEF T!Finish, ReportsInv
    <2> QED BY <2>1 DEF ReportsInv, T!Answered
  <1>5. CASE \E x \in Units \cup Workers : T!ReadFormsOf(x) \/ T!ReadMembersOf(x) \/ T!ReadEntriesOf(x)
    BY <1>5, ReadFormsOfKeeps, ReadMembersOfKeeps, ReadEntriesOfKeeps
  <1> QED BY <1>1, <1>2, <1>3, <1>4, <1>5 DEF T!Next

LEMMA ReportsBegin ==
  ASSUME T!Init
  PROVE  ReportsInv
  <1>1. PICK s \in Scenes : units = s.units /\ place = s.place /\ form = s.form /\ entry = s.entry
    BY DEF T!Init
  <1>2. /\ s.units \subseteq Units /\ s.place \in [Workers -> Places]
        /\ s.form \in [Forms -> [place : Places, status : T!Statuses] \cup {Unborn}]
        /\ s.entry \in [Entries -> Recorded \cup {Unborn, Gone}]
        /\ \A e \in Entries : s.entry[e] \in Recorded =>
             s.form[FormOf[e]] # Unborn /\ s.form[FormOf[e]].status # "GONE"
    BY ReportsAssumption
  <1>3. ASSUME NEW e \in Entries PROVE T!Kept(e) <=> s.entry[e] \in Recorded
    BY <1>1, <1>2, <1>3, RecordedIsKept DEF T!Kept
  <1>4. World
    BY <1>1, <1>2, <1>3 DEF World, FormRows, T!There
  <1>5. rep = T!Idle /\ rep.pc # "reads"
    BY DEF T!Init, T!Idle
  <1> QED BY <1>4, <1>5 DEF ReportsInv

(* While a report is made, what it has read is as ReportsInv says.         *)
THEOREM ReportsReasoned == Spec => []ReportsInv
  <1>1. Init => ReportsInv
    BY ReportsBegin DEF Init
  <1>2. ReportsInv /\ [Next]_vars => ReportsInv'
    <2> SUFFICES ASSUME ReportsInv, [Next]_vars PROVE ReportsInv'
      OBVIOUS
    <2>1. [T!Next]_reports
      BY StepOfEach
    <2>2. CASE T!Next
      BY <2>2, ReportStepKeeps
    <2>3. CASE UNCHANGED reports
      BY <2>3 DEF reports, ReportsInv, World, T!Kept, T!There, OfForms, Untouched, Lasts,
         ReportStates, SeenSound, ThenSound, RowsBegun, UnitsRead, RowSound
    <2> QED BY <2>1, <2>2, <2>3
  <1> QED BY <1>1, <1>2, PTL DEF Spec

(* The type invariant of Reports: no entry without its form, no row of a   *)
(* report of what is not there.                                            *)
LEMMA ReportsTyped ==
  ASSUME ReportsInv
  PROVE  T!TypeOK
  <1>1. World
    BY DEF ReportsInv
  <1>2. ASSUME T!Goes
        PROVE  /\ rep.kind \in T!Reports /\ rep.forms \subseteq Forms /\ DOMAIN rep.seen \subseteq Entries
               /\ DOMAIN rep.row \subseteq Units \cup Workers /\ rep.changes \in 0..MaxChanges
    <2>1. rep \in ReportStates
      BY <1>2, RepByPc DEF T!Goes
    <2> QED BY <2>1 DEF ReportStates, EntryMaps, RowMaps
  <1> QED BY <1>1, <1>2 DEF T!TypeOK, World, FormRows

(* Every statistic shows the entries of one moment, but for those that     *)
(* were written meanwhile.                                                 *)
LEMMA OneMoment ==
  ASSUME ReportsInv
  PROVE  T!StatisticsOfOneMoment
  <1> SUFFICES ASSUME T!Done, rep.kind.settled
               PROVE  IF rep.kind.row = <<>> THEN T!AsThen(rep.seen, rep.forms)
                      ELSE \A x \in DOMAIN T!Rows : T!AsThen(T!Rows[x], rep.row[x].forms)
    BY DEF T!StatisticsOfOneMoment
  <1>1. Reading /\ rep.todo = <<>> /\ \A x \in DOMAIN rep.row : rep.row[x].todo = <<>>
    BY ReadingHolds DEF T!Done, T!Goes
  <1>2. \A what : ~Pending(<<>>, what)
    BY NoneInOrder
  <1>3. Lasts(rep.then)
    BY <1>1 DEF Reading, ThenSound
  <1>4. ASSUME NEW s, NEW F, Lasts(s), \A e \in DOMAIN s : FormOf[e] \in F,
               Untouched(F) \subseteq DOMAIN rep.then, Untouched(F) \subseteq DOMAIN s
        PROVE  T!AsThen(s, F)
    BY <1>3, <1>4 DEF T!AsThen, Lasts, Untouched, OfForms
  <1>5. CASE rep.kind.row = <<>>
    <2>1. Untouched(rep.forms) \subseteq DOMAIN rep.then /\ Untouched(rep.forms) \subseteq DOMAIN rep.seen
      BY <1>1, <1>2, <1>5 DEF Reading, ThenSound
    <2>2. \A e \in DOMAIN rep.seen : FormOf[e] \in rep.forms
      BY <1>1 DEF Reading, SeenSound
    <2>3. rep.seen \in EntryMaps /\ World
      BY <1>1 DEF Reading, ReportStates
    <2>4. \A e \in DOMAIN rep.seen : e \in Entries /\ rep.seen[e] \in Recorded
      BY <2>3 DEF EntryMaps
    <2>5. Lasts(rep.seen)
      BY <1>1, <2>3, <2>4, KeptIsRecorded DEF Reading, SeenSound, Lasts
    <2>6. T!AsThen(rep.seen, rep.forms)
      BY <1>4, <2>1, <2>2, <2>5
    <2> QED BY <1>5, <2>6
  <1>6. CASE rep.kind.row # <<>>
    <2>1. T!Rows = [x \in DOMAIN rep.row |-> rep.row[x].got]
      BY <1>6 DEF T!Rows
    <2>2. ASSUME NEW x \in DOMAIN rep.row PROVE T!AsThen(rep.row[x].got, rep.row[x].forms)
      <3>1. RowSound(x) /\ rep.row[x].todo = <<>>
        BY <1>1 DEF Reading
      <3>2. /\ Untouched(rep.row[x].forms) \subseteq DOMAIN rep.then
            /\ Untouched(rep.row[x].forms) \subseteq DOMAIN rep.row[x].got
            /\ Lasts(rep.row[x].got)
            /\ \A e \in DOMAIN rep.row[x].got : FormOf[e] \in rep.row[x].forms
        BY <1>2, <1>6, <3>1 DEF RowSound
      <3> QED BY <1>4, <3>2
    <2> QED BY <1>6, <2>1, <2>2
  <1> QED BY <1>5, <1>6

(* StatisticsOfOneMoment for every number of forms, entries and changes.   *)
THEOREM StatisticsShowOneMoment == Spec => []StatisticsOfOneMoment
  <1>1. ReportsInv => StatisticsOfOneMoment
    BY OneMoment DEF StatisticsOfOneMoment
  <1> QED BY <1>1, ReportsReasoned, PTL

-----------------------------------------------------------------------------
(* What is answered.  Reports names the library's operators as its own.    *)
LEMMA SumOfReports ==
  ASSUME NEW f
  PROVE  T!SumFunction(f) = SumFunctionOnSet(f, DOMAIN f)
  BY DEF T!SumFunction, T!SumFunctionOnSet, T!FoldFunctionOnSet, T!MapThenFoldSet,
         SumFunctionOnSet, FoldFunctionOnSet, MapThenFoldSet
LEMMA CardinalityOfReports ==
  ASSUME NEW S
  PROVE  T!Cardinality(S) = Cardinality(S)
  BY DEF T!Cardinality, Cardinality

LEMMA FiniteImage ==
  ASSUME NEW A, IsFiniteSet(A), NEW f
  PROVE  IsFiniteSet({f[x] : x \in A})
  <1> DEFINE B == {f[x] : x \in A}  g == [x \in A |-> f[x]]
  <1>1. g \in Surjection(A, B)
    BY DEF Surjection
  <1> HIDE DEF B, g
  <1>2. IsFiniteSet(B)
    BY <1>1, FS_Surjection
  <1> QED BY <1>2 DEF B

LEMMA RecordedShape ==
  ASSUME NEW v \in Recorded
  PROVE  /\ v.total \in Nat /\ IsFiniteSet(DOMAIN v.hours)
         /\ \A h \in DOMAIN v.hours : v.hours[h] \in Nat
         /\ Len(v.issues) \in Nat /\ DOMAIN v.issues = 1..Len(v.issues)
  BY ReportsAssumption
LEMMA FiniteReports ==
  IsFiniteSet(Units) /\ IsFiniteSet(Workers) /\ IsFiniteSet(Forms) /\ IsFiniteSet(Entries)
  BY ReportsAssumption

Totals(s) == [e \in DOMAIN s |-> s[e].total]
LEMMA TotalIsSum ==
  ASSUME NEW s \in EntryMaps
  PROVE  /\ IsFiniteSet(DOMAIN s) /\ DOMAIN s \subseteq Entries /\ \A e \in DOMAIN s : s[e] \in Recorded
         /\ Numeric(Totals(s), DOMAIN s)
         /\ T!Total(s) = SumFunctionOnSet(Totals(s), DOMAIN s) /\ T!Total(s) \in Nat
  <1>1. DOMAIN s \subseteq Entries /\ \A e \in DOMAIN s : s[e] \in Recorded
    BY DEF EntryMaps
  <1>2. IsFiniteSet(DOMAIN s)
    BY <1>1, FiniteReports, FS_Subset
  <1>3. Numeric(Totals(s), DOMAIN s) /\ DOMAIN Totals(s) = DOMAIN s
    BY <1>1, RecordedShape DEF Numeric, Totals
  <1>4. T!Total(s) = SumFunctionOnSet(Totals(s), DOMAIN Totals(s))
    BY SumOfReports DEF T!Total, Totals
  <1> QED BY <1>1, <1>2, <1>3, <1>4, SumNatural

LEMMA PartIsOfMap ==
  ASSUME NEW s \in EntryMaps, NEW by, NEW k
  PROVE  /\ T!Part(s, by, k) \in EntryMaps
         /\ DOMAIN T!Part(s, by, k) = {e \in DOMAIN s : by[e] = k}
         /\ \A e \in DOMAIN T!Part(s, by, k) : T!Part(s, by, k)[e] = s[e]
         /\ T!Total(T!Part(s, by, k)) = SumFunctionOnSet(Totals(s), {e \in DOMAIN s : by[e] = k})
  <1> DEFINE Q == {e \in DOMAIN s : by[e] = k}  p == T!Part(s, by, k)
  <1>1. p = [e \in Q |-> s[e]]
    BY DEF T!Part, T!Restrict
  <1>2. Q \subseteq DOMAIN s /\ DOMAIN s \subseteq Entries /\ \A e \in DOMAIN s : s[e] \in Recorded
    BY TotalIsSum
  <1> HIDE DEF Q, p
  <1>3. p \in [Q -> Recorded]
    BY <1>1, <1>2
  <1>4. p \in EntryMaps /\ DOMAIN p = Q /\ \A e \in Q : p[e] = s[e]
    BY <1>1, <1>2, <1>3 DEF EntryMaps
  <1>5. T!Total(p) = SumFunctionOnSet(Totals(p), Q) /\ IsFiniteSet(Q)
    BY <1>4, TotalIsSum
  <1>6. \A e \in Q : Totals(p)[e] = Totals(s)[e]
    BY <1>2, <1>4 DEF Totals
  <1>7. SumFunctionOnSet(Totals(p), Q) = SumFunctionOnSet(Totals(s), Q)
    BY <1>5, <1>6, SumSame
  <1> QED BY <1>4, <1>5, <1>7 DEF Q, p

(* The totals of the parts by a key add up to the total of the whole.      *)
LEMMA PartsAddUp ==
  ASSUME NEW s \in EntryMaps, NEW by, NEW K, IsFiniteSet(K), \A e \in DOMAIN s : by[e] \in K,
         NEW g, g = [k \in K |-> T!Total(T!Part(s, by, k))]
  PROVE  T!SumFunction(g) = T!Total(s) /\ Numeric(g, K) /\ DOMAIN g = K
  <1>1. g = ByKey(Totals(s), DOMAIN s, by, K)
    BY PartIsOfMap DEF ByKey
  <1>2. /\ IsFiniteSet(DOMAIN s) /\ Numeric(Totals(s), DOMAIN s)
        /\ T!Total(s) = SumFunctionOnSet(Totals(s), DOMAIN s)
    BY TotalIsSum
  <1>3. DOMAIN g = K
    OBVIOUS
  <1>4. Numeric(g, K)
    <2>1. \A k \in K : T!Part(s, by, k) \in EntryMaps
      BY PartIsOfMap
    <2> QED BY <2>1, TotalIsSum DEF Numeric
  <1> HIDE DEF ByKey
  <1>5. SumFunctionOnSet(g, K) = SumFunctionOnSet(Totals(s), DOMAIN s)
    BY <1>1, <1>2, SumByKey
  <1> QED BY <1>2, <1>3, <1>4, <1>5, SumOfReports

LEMMA GroupedAddsUp ==
  ASSUME NEW s \in EntryMaps, NEW by
  PROVE  T!SumFunction(T!Grouped(s, by)) = T!Total(s)
  <1> DEFINE K == {by[e] : e \in DOMAIN s}  g == [k \in K |-> T!Total(T!Part(s, by, k))]
  <1>1. IsFiniteSet(K)
    BY TotalIsSum, FiniteImage
  <1>2. \A e \in DOMAIN s : by[e] \in K
    OBVIOUS
  <1>3. T!Grouped(s, by) = g
    BY DEF T!Grouped
  <1> HIDE DEF K
  <1>4. T!SumFunction(g) = T!Total(s)
    BY <1>1, <1>2, PartsAddUp
  <1> QED BY <1>3, <1>4

LEMMA FiniteUnion ==
  ASSUME NEW A, IsFiniteSet(A), NEW d, \A x \in A : IsFiniteSet(d[x])
  PROVE  IsFiniteSet(UNION {d[x] : x \in A})
  <1> DEFINE S == {d[x] : x \in A}
  <1>1. IsFiniteSet(S)
    BY FiniteImage
  <1>2. \A U \in S : IsFiniteSet(U)
    OBVIOUS
  <1> HIDE DEF S
  <1>3. IsFiniteSet(UNION S)
    BY <1>1, <1>2, FS_UNION
  <1> QED BY <1>3 DEF S

(* Where every total is the sum of its slots, the slots add up.            *)
LEMMA HoursAddUp ==
  ASSUME NEW s \in EntryMaps, \A e \in DOMAIN s : T!SumFunction(s[e].hours) = s[e].total
  PROVE  T!SumFunction(T!HourlyBreakdown(s)) = T!Total(s)
  <1> DEFINE A == DOMAIN s
             w == [e \in A |-> s[e].hours]
             d == [e \in A |-> DOMAIN s[e].hours]
             K == UNION {DOMAIN s[e].hours : e \in A}
             C(h) == {e \in A : h \in DOMAIN s[e].hours}
             g(h) == [e \in C(h) |-> s[e].hours[h]]
  <1>1. /\ IsFiniteSet(A) /\ \A e \in A : s[e] \in Recorded
        /\ T!Total(s) = SumFunctionOnSet(Totals(s), A)
    BY TotalIsSum
  <1>2. IsFiniteSet(K)
    <2>1. \A e \in A : IsFiniteSet(d[e])
      BY <1>1, RecordedShape
    <2>2. K = UNION {d[e] : e \in A}
      OBVIOUS
    <2> HIDE DEF d, K, A
    <2> QED BY <1>1, <2>1, <2>2, FiniteUnion
  <1>3. T!HourlyBreakdown(s) = [h \in K |-> T!SumFunction(g(h))]
    BY DEF T!HourlyBreakdown
  <1>4. ASSUME NEW h \in K
        PROVE  T!SumFunction(g(h)) = SumFunctionOnSet(Entry(w, A, h), Column(w, A, h))
    <2>1. Column(w, A, h) = C(h) /\ DOMAIN g(h) = C(h)
      BY DEF Column
    <2>2. \A e \in C(h) : g(h)[e] = Entry(w, A, h)[e]
      BY DEF Entry
    <2>3. IsFiniteSet(C(h))
      BY <1>1, FS_Subset
    <2>4. T!SumFunction(g(h)) = SumFunctionOnSet(g(h), DOMAIN g(h))
      BY SumOfReports
    <2> DEFINE G == g(h)  B == C(h)  W == Entry(w, A, h)
    <2>5. IsFiniteSet(B) /\ \A e \in B : G[e] = W[e]
      BY <2>2, <2>3
    <2> HIDE DEF G, B, W
    <2>6. SumFunctionOnSet(G, B) = SumFunctionOnSet(W, B)
      BY <2>5, SumSame
    <2> QED BY <2>1, <2>4, <2>6 DEF G, B, W
  <1>5. T!HourlyBreakdown(s) = ByColumn(w, A, K)
    <2> HIDE DEF K, w, A, g
    <2> QED BY <1>3, <1>4 DEF ByColumn
  <1>6. \A e \in A : /\ DOMAIN w[e] \subseteq K /\ Numeric(w[e], DOMAIN w[e])
                     /\ Totals(s)[e] = SumFunctionOnSet(w[e], DOMAIN w[e])
    <2> SUFFICES ASSUME NEW e \in A
                 PROVE  /\ DOMAIN w[e] \subseteq K /\ Numeric(w[e], DOMAIN w[e])
                        /\ Totals(s)[e] = SumFunctionOnSet(w[e], DOMAIN w[e])
      OBVIOUS
    <2>1. w[e] = s[e].hours /\ DOMAIN w[e] \subseteq K
      OBVIOUS
    <2>2. Numeric(w[e], DOMAIN w[e])
      BY <1>1, <2>1, RecordedShape DEF Numeric
    <2>3. Totals(s)[e] = T!SumFunction(s[e].hours)
      BY DEF Totals
    <2> QED BY <2>1, <2>2, <2>3, SumOfReports
  <1> HIDE DEF K, w, A
  <1>7. SumFunctionOnSet(ByColumn(w, A, K), K) = SumFunctionOnSet(Totals(s), A)
    BY <1>1, <1>2, <1>6, SumByColumn
  <1>8. DOMAIN ByColumn(w, A, K) = K
    BY DEF ByColumn
  <1> QED BY <1>1, <1>5, <1>7, <1>8, SumOfReports DEF A

(* The problems are as many by type as by entry.                           *)
LEMMA IssuesAddUp ==
  ASSUME NEW s \in EntryMaps
  PROVE  LET issues == T!ProductionIssues(s) IN
         T!SumFunction([t \in DOMAIN issues |-> issues[t].occurrences])
           = T!SumFunction([e \in DOMAIN s |-> Len(s[e].issues)])
  <1> DEFINE A == DOMAIN s
             all == UNION {{<<e, n>> : n \in DOMAIN s[e].issues} : e \in A}
             type == [i \in all |-> s[i[1]].issues[i[2]].type]
             owner == [i \in all |-> i[1]]
             K == {type[i] : i \in all}
             one == [i \in all |-> 1]
             by == [t \in K |-> T!Cardinality({i \in all : type[i] = t})]
             sizes == [e \in A |-> Len(s[e].issues)]
             issues == T!ProductionIssues(s)
  <1>1. IsFiniteSet(A) /\ \A e \in A : s[e] \in Recorded
    BY TotalIsSum
  <1>2. \A e \in A : Len(s[e].issues) \in Nat /\ DOMAIN s[e].issues = 1..Len(s[e].issues)
    BY <1>1, RecordedShape
  <1> DEFINE mine(e) == {<<e, n>> : n \in DOMAIN s[e].issues}
  <1>3. ASSUME NEW e \in A
        PROVE  IsFiniteSet(mine(e)) /\ Cardinality(mine(e)) = Len(s[e].issues)
    <2> DEFINE m == Len(s[e].issues)  M == mine(e)  b == [n \in 1..m |-> <<e, n>>]
    <2>1. m \in Nat /\ M = {<<e, n>> : n \in 1..m}
      BY <1>2
    <2> HIDE DEF m, M
    <2>2. b \in Bijection(1..m, M)
      <3>1. b \in [1..m -> M]
        BY <2>1
      <3>2. \A i, j \in 1..m : b[i] = b[j] => i = j
        OBVIOUS
      <3>3. \A x \in M : \E n \in 1..m : b[n] = x
        BY <2>1
      <3> QED BY <3>1, <3>2, <3>3 DEF Bijection, Injection, Surjection, IsInjective
    <2>3. ExistsBijection(1..m, M)
      BY <2>2 DEF ExistsBijection
    <2>4. IsFiniteSet(1..m) /\ Cardinality(1..m) = m
      BY <2>1, FS_Interval
    <2>5. IsFiniteSet(M) /\ Cardinality(M) = m
      BY <2>3, <2>4, FS_Bijection
    <2> QED BY <2>5 DEF m, M
  <1>4. IsFiniteSet(all)
    <2> DEFINE d == [e \in A |-> mine(e)]
    <2>1. \A e \in A : IsFiniteSet(d[e])
      BY <1>3
    <2>2. all = UNION {d[e] : e \in A}
      OBVIOUS
    <2> HIDE DEF A, d, all
    <2> QED BY <1>1, <2>1, <2>2, FiniteUnion
  <1>5. /\ \A i \in all : owner[i] \in A
        /\ \A e \in A : {i \in all : owner[i] = e} = mine(e)
    OBVIOUS
  <1>6. Numeric(one, all) /\ \A i \in all : one[i] = 1
    <2> HIDE DEF all
    <2> QED BY DEF Numeric
  <1>7. issues = [t \in K |-> [occurrences |-> by[t],
                   totalImpact |-> T!SumFunction([i \in {j \in all : type[j] = t} |-> s[i[1]].issues[i[2]].impact])]]
    BY Zenon DEF T!ProductionIssues
  <1>8. DOMAIN issues = K /\ \A t \in K : issues[t].occurrences = by[t]
    <2> HIDE DEF issues, K, by, type, all
    <2> QED BY <1>7
  <1>9. IsFiniteSet(K) /\ \A i \in all : type[i] \in K
    <2> HIDE DEF all, type
    <2> QED BY <1>4, FiniteImage
  <1> HIDE DEF issues, K, type, owner, all, one, A
  <1>10. \A t \in K : by[t] = SumFunctionOnSet(one, {i \in all : type[i] = t})
    <2> SUFFICES ASSUME NEW t \in K PROVE by[t] = SumFunctionOnSet(one, {i \in all : type[i] = t})
      OBVIOUS
    <2>1. IsFiniteSet({i \in all : type[i] = t})
      BY <1>4, FS_Subset
    <2>2. SumFunctionOnSet(one, {i \in all : type[i] = t}) = Cardinality({i \in all : type[i] = t})
      BY <1>6, <2>1, SumOfOnes
    <2> QED BY <2>2, CardinalityOfReports
  <1>11. \A e \in A : sizes[e] = SumFunctionOnSet(one, {i \in all : owner[i] = e})
    <2> SUFFICES ASSUME NEW e \in A PROVE sizes[e] = SumFunctionOnSet(one, {i \in all : owner[i] = e})
      OBVIOUS
    <2>1. IsFiniteSet({i \in all : owner[i] = e}) /\ Cardinality({i \in all : owner[i] = e}) = sizes[e]
      BY <1>3, <1>5
    <2>2. \A i \in {j \in all : owner[j] = e} : one[i] = 1
      BY <1>6
    <2> HIDE DEF sizes, mine
    <2> QED BY <2>1, <2>2, SumOfOnes
  <1>12. by = ByKey(one, all, type, K) /\ sizes = ByKey(one, all, owner, A)
    <2>1. by = [t \in K |-> by[t]] /\ sizes = [e \in A |-> sizes[e]]
      OBVIOUS
    <2> HIDE DEF by, sizes
    <2> QED BY <1>10, <1>11, <2>1 DEF ByKey
  <1>13. DOMAIN by = K /\ DOMAIN sizes = A
    OBVIOUS
  <1>14. [t \in DOMAIN issues |-> issues[t].occurrences] = by
    BY <1>8
  <1> HIDE DEF by, sizes
  <1>15. SumFunctionOnSet(by, K) = SumFunctionOnSet(one, all)
    BY <1>4, <1>6, <1>9, <1>12, SumByKey
  <1>16. SumFunctionOnSet(sizes, A) = SumFunctionOnSet(one, all)
    BY <1>1, <1>4, <1>5, <1>6, <1>12, SumByKey
  <1>17. T!SumFunction(by) = T!SumFunction(sizes)
    BY <1>13, <1>15, <1>16, SumOfReports
  <1> QED BY <1>14, <1>17 DEF issues, sizes, A

(* The rows of a report that is done.                                      *)
Rowed(x, e) == x \in DOMAIN T!Rows /\ e \in DOMAIN T!Rows[x]
LEMMA RowsAreMaps ==
  ASSUME ReportsInv, T!Done
  PROVE  /\ IsFiniteSet(DOMAIN T!Rows)
         /\ \A x \in DOMAIN T!Rows : T!Rows[x] \in EntryMaps
         /\ rep.kind.row # <<>> => T!Rows = [x \in DOMAIN rep.row |-> rep.row[x].got]
         /\ rep.kind.row = <<>> =>
              /\ \A x \in DOMAIN T!Rows :
                   /\ DOMAIN T!Rows[x] = {e \in DOMAIN rep.seen : T!RowOf[e] = x}
                   /\ \A e \in DOMAIN T!Rows[x] : T!Rows[x][e] = rep.seen[e]
              /\ rep.kind.settled => DOMAIN T!Rows = {T!RowOf[e] : e \in DOMAIN rep.seen}
              /\ ~rep.kind.settled => DOMAIN T!Rows = DOMAIN rep.row
  <1>1. /\ rep.seen \in EntryMaps /\ DOMAIN rep.row \subseteq Units \cup Workers
        /\ \A x \in DOMAIN rep.row : rep.row[x].got \in EntryMaps
    BY ReadingHolds DEF T!Done, T!Goes, Reading, ReportStates, RowMaps, RowRecords
  <1>2. IsFiniteSet(DOMAIN rep.row)
    <2>1. IsFiniteSet(Units \cup Workers)
      BY FiniteReports, FS_Union
    <2> QED BY <1>1, <2>1, FS_Subset
  <1>3. CASE rep.kind.row # <<>>
    <2>1. T!Rows = [x \in DOMAIN rep.row |-> rep.row[x].got]
      BY <1>3 DEF T!Rows
    <2> QED BY <1>1, <1>2, <1>3, <2>1
  <1>4. CASE rep.kind.row = <<>>
    <2> DEFINE XS == IF rep.kind.settled THEN {T!RowOf[e] : e \in DOMAIN rep.seen} ELSE DOMAIN rep.row
    <2>1. T!Rows = [x \in XS |-> T!Part(rep.seen, T!RowOf, x)]
      BY <1>4 DEF T!Rows, T!RowsThatOccur, T!RowsOf
    <2>2. IsFiniteSet({T!RowOf[e] : e \in DOMAIN rep.seen})
      BY <1>1, TotalIsSum, FiniteImage
    <2>3. IsFiniteSet(XS)
      BY <1>2, <2>2
    <2>4. DOMAIN T!Rows = XS /\ \A x \in XS : T!Rows[x] = T!Part(rep.seen, T!RowOf, x)
      BY <2>1
    <2>5. /\ rep.kind.settled => XS = {T!RowOf[e] : e \in DOMAIN rep.seen}
          /\ ~rep.kind.settled => XS = DOMAIN rep.row
      OBVIOUS
    <2> HIDE DEF XS
    <2>6. ASSUME NEW x \in XS
          PROVE  /\ T!Rows[x] \in EntryMaps
                 /\ DOMAIN T!Rows[x] = {e \in DOMAIN rep.seen : T!RowOf[e] = x}
                 /\ \A e \in DOMAIN T!Rows[x] : T!Rows[x][e] = rep.seen[e]
      <3> DEFINE s == rep.seen  by == T!RowOf
      <3>1. T!Rows[x] = T!Part(s, by, x) /\ s \in EntryMaps
        BY <1>1, <2>4
      <3> HIDE DEF s, by
      <3>2. T!Part(s, by, x) \in EntryMaps
        BY <3>1, PartIsOfMap
      <3>3. DOMAIN T!Part(s, by, x) = {e \in DOMAIN s : by[e] = x}
        BY DEF T!Part, T!Restrict
      <3>4. \A e \in DOMAIN T!Part(s, by, x) : T!Part(s, by, x)[e] = s[e]
        BY DEF T!Part, T!Restrict
      <3> QED BY <3>1, <3>2, <3>3, <3>4 DEF s, by
    <2> QED BY <1>4, <2>3, <2>4, <2>5, <2>6
  <1> QED BY <1>3, <1>4

(* The tables of a comparison account for each of its rows.                *)
LEMMA TableAddsUp ==
  ASSUME ReportsInv, T!Done, NEW K, IsFiniteSet(K), NEW by,
         \A x \in DOMAIN T!Rows : \A e \in DOMAIN T!Rows[x] : by[e] \in K,
         NEW x \in DOMAIN T!Rows,
         NEW t, t \in {T!Table(K, by), T!Made(T!Table(K, by))}
  PROVE  T!SumFunction([k \in DOMAIN t |-> t[k][x]]) = T!Total(T!Rows[x])
  <1> DEFINE full == T!Table(K, by)
             g == [k \in K |-> T!Total(T!Part(T!Rows[x], by, k))]
             c == [k \in DOMAIN t |-> t[k][x]]
  <1>1. T!Rows[x] \in EntryMaps
    BY RowsAreMaps
  <1>2. T!SumFunction(g) = T!Total(T!Rows[x]) /\ Numeric(g, K) /\ DOMAIN g = K
    BY <1>1, PartsAddUp
  <1>3. DOMAIN full = K /\ \A k \in K : full[k][x] = g[k]
    BY DEF T!Table
  <1> HIDE DEF g, full
  <1>4. CASE t = full
    <2>1. c = [k \in K |-> g[k]]
      BY <1>3, <1>4
    <2>2. DOMAIN c = K /\ \A k \in K : c[k] = g[k]
      BY <2>1
    <2> HIDE DEF c
    <2>3. SumFunctionOnSet(c, K) = SumFunctionOnSet(g, K)
      BY <2>2, SumSame
    <2>4. T!SumFunction(c) = T!SumFunction(g)
      BY <1>2, <2>2, <2>3, SumOfReports
    <2> QED BY <1>2, <2>4 DEF c
  <1>5. CASE t = T!Made(full)
    <2> DEFINE M == {k \in K : \E y \in DOMAIN T!Rows : full[k][y] > 0}
    <2>1. t = [k \in M |-> full[k]]
      BY <1>3, <1>5 DEF T!Made
    <2>2. DOMAIN c = M /\ \A k \in M : c[k] = g[k]
      BY <1>3, <2>1
    <2>3. \A k \in K \ M : g[k] = 0
      <3> SUFFICES ASSUME NEW k \in K \ M PROVE g[k] = 0
        OBVIOUS
      <3>1. ~(g[k] > 0)
        BY <1>3
      <3> QED BY <1>2, <3>1 DEF Numeric
    <2>4. M \subseteq K /\ IsFiniteSet(M)
      BY FS_Subset
    <2> HIDE DEF c, M
    <2>5. Numeric(g, M)
      BY <1>2, <2>4 DEF Numeric
    <2>6. SumFunctionOnSet(c, M) = SumFunctionOnSet(g, M)
      BY <2>2, <2>4, SumSame
    <2>7. SumFunctionOnSet(g, K) = SumFunctionOnSet(g, M)
      BY <2>3, <2>4, <2>5, SumOfRest
    <2>8. T!SumFunction(c) = T!SumFunction(g)
      BY <1>2, <2>2, <2>6, <2>7, SumOfReports
    <2> QED BY <1>2, <2>8 DEF c
  <1> QED BY <1>4, <1>5 DEF full

LEMMA TablesAddUp ==
  ASSUME ReportsInv, T!Done, rep.kind \in {T!CompareTeams, T!CompareGroups},
         NEW x \in DOMAIN T!Rows, NEW t \in {T!CompareBags, T!CompareProcesses, T!TimeSeries}
  PROVE  T!SumFunction([k \in DOMAIN t |-> t[k][x]]) = T!Total(T!Rows[x])
  <1> DEFINE ES == T!InRows
             BS == {BagOf[e] : e \in ES}
             PS == {ProcessOf[e] : e \in ES}
             FS == UNION {rep.row[y].forms : y \in DOMAIN T!Rows}
             DS == {DayOf[f] : f \in FS}
  <1>1. Reading /\ rep.kind.row # <<>>
    BY ReadingHolds DEF T!Done, T!Goes, T!CompareTeams, T!CompareGroups, T!Kind
  <1>2. /\ IsFiniteSet(DOMAIN T!Rows) /\ \A y \in DOMAIN T!Rows : T!Rows[y] \in EntryMaps
        /\ T!Rows = [y \in DOMAIN rep.row |-> rep.row[y].got]
    BY <1>1, RowsAreMaps
  <1>3. \A y \in DOMAIN T!Rows : \A e \in DOMAIN T!Rows[y] : e \in ES
    BY DEF T!InRows
  <1>4. ES \subseteq Entries /\ FS \subseteq Forms
    <2>1. \A y \in DOMAIN T!Rows : DOMAIN T!Rows[y] \subseteq Entries
      BY <1>2, TotalIsSum
    <2>2. \A y \in DOMAIN T!Rows : rep.row[y].forms \subseteq Forms
      BY <1>1, <1>2 DEF Reading, ReportStates, RowMaps, RowRecords
    <2> QED BY <2>1, <2>2 DEF T!InRows
  <1>5. IsFiniteSet(ES) /\ IsFiniteSet(FS)
    BY <1>4, FiniteReports, FS_Subset
  <1>6. \A y \in DOMAIN T!Rows : \A e \in DOMAIN T!Rows[y] : FormOf[e] \in FS
    BY <1>1, <1>2 DEF Reading, RowSound
  <1>7. CASE t = T!CompareBags
    <2>1. t = T!Made(T!Table(BS, BagOf))
      BY <1>7 DEF T!CompareBags
    <2> HIDE DEF ES
    <2>2. IsFiniteSet(BS)
      BY <1>5, FiniteImage
    <2>3. \A y \in DOMAIN T!Rows : \A e \in DOMAIN T!Rows[y] : BagOf[e] \in BS
      BY <1>3
    <2> HIDE DEF BS
    <2> QED BY <2>1, <2>2, <2>3, TableAddsUp
  <1>8. CASE t = T!CompareProcesses
    <2>1. t = T!Made(T!Table(PS, ProcessOf))
      BY <1>8 DEF T!CompareProcesses
    <2> HIDE DEF ES
    <2>2. IsFiniteSet(PS)
      BY <1>5, FiniteImage
    <2>3. \A y \in DOMAIN T!Rows : \A e \in DOMAIN T!Rows[y] : ProcessOf[e] \in PS
      BY <1>3
    <2> HIDE DEF PS
    <2> QED BY <2>1, <2>2, <2>3, TableAddsUp
  <1>9. CASE t = T!TimeSeries
    <2>1. t = T!Table(DS, T!DayOfEntry)
      BY <1>9 DEF T!TimeSeries
    <2> HIDE DEF FS
    <2>2. IsFiniteSet(DS)
      BY <1>5, FiniteImage
    <2>3. \A y \in DOMAIN T!Rows : \A e \in DOMAIN T!Rows[y] : T!DayOfEntry[e] \in DS
      BY <1>3, <1>4, <1>6 DEF T!DayOfEntry
    <2> HIDE DEF DS
    <2> QED BY <2>1, <2>2, <2>3, TableAddsUp
  <1> QED BY <1>7, <1>8, <1>9

(* No entry is in two rows unless its worker moved meanwhile.              *)
LEMMA RowsApart ==
  ASSUME ReportsInv, T!Done, NEW e, NEW x, NEW y, Rowed(x, e), Rowed(y, e),
         ~(rep.kind = T!ByTeam /\ WorkerOf[FormOf[e]] \in rep.moved)
  PROVE  x = y
  <1>1. Reading /\ rep.todo = <<>> /\ \A z \in DOMAIN rep.row : rep.row[z].todo = <<>>
    BY ReadingHolds DEF T!Done, T!Goes
  <1>2. \A what : ~Pending(<<>>, what)
    BY NoneInOrder
  <1>3. CASE rep.kind.row = <<>>
    <2>1. \A z \in DOMAIN T!Rows : DOMAIN T!Rows[z] = {d \in DOMAIN rep.seen : T!RowOf[d] = z}
      BY <1>3, RowsAreMaps
    <2>2. \A z : Rowed(z, e) => T!RowOf[e] = z
      BY <2>1 DEF Rowed
    <2> HIDE DEF Rowed
    <2> QED BY <2>2
  <1>4. CASE rep.kind.row # <<>>
    <2>1. T!Rows = [z \in DOMAIN rep.row |-> rep.row[z].got]
      BY <1>4, RowsAreMaps
    <2>2. ASSUME NEW z, Rowed(z, e)
          PROVE  /\ z \in DOMAIN rep.row /\ RowSound(z) /\ rep.row[z].todo = <<>>
                 /\ FormOf[e] \in rep.row[z].forms /\ WorkerOf[FormOf[e]] \in rep.row[z].members
                 /\ FormOf[e] \in Forms
      <3>1. z \in DOMAIN rep.row /\ e \in DOMAIN rep.row[z].got
        BY <2>1, <2>2 DEF Rowed
      <3>2. RowSound(z) /\ rep.row[z].got \in EntryMaps
        BY <1>1, <3>1 DEF Reading, ReportStates, RowMaps, RowRecords
      <3>3. e \in Entries
        BY <3>1, <3>2 DEF EntryMaps
      <3> QED BY <1>1, <3>1, <3>2, <3>3, ReportsSizes DEF RowSound
    <2>3. CASE Pending(rep.kind.row, "forms")
      <3>1. \A z : Rowed(z, e) => form[FormOf[e]].place.unit = z
        BY <2>2, <2>3 DEF RowSound
      <3> QED BY <3>1
    <2>4. CASE rep.kind.by = "worker"
      <3>1. \A z : Rowed(z, e) => WorkerOf[FormOf[e]] = z
        BY <2>2, <2>4 DEF RowSound
      <3> QED BY <3>1
    <2>5. CASE ~Pending(rep.kind.row, "forms") /\ rep.kind.by # "worker"
      <3>1. rep.kind = T!ByTeam /\ Pending(rep.kind.row, "members")
        BY <1>1, <1>4, <2>5 DEF Reading, KindSound
      <3>2. WorkerOf[FormOf[e]] \in Workers \ rep.moved
        BY <2>2, <3>1, ReportsSizes
      <3>3. \A z : Rowed(z, e) => place[WorkerOf[FormOf[e]]].unit = z
        BY <1>2, <2>2, <3>1, <3>2 DEF RowSound
      <3> QED BY <3>3
    <2> QED BY <2>3, <2>4, <2>5
  <1> QED BY <1>3, <1>4

(* An entry of the total that is expected is in a row, as in the total.    *)
LEMMA ExpectedIsHeld ==
  ASSUME ReportsInv, T!Done, rep.kind.by # "none", rep.forms # {},
         NEW e \in DOMAIN rep.seen, T!Expected(e)
  PROVE  /\ \E x : Rowed(x, e) /\ T!Rows[x][e] = rep.seen[e]
         /\ ~(rep.kind = T!ByTeam /\ WorkerOf[FormOf[e]] \in rep.moved)
  <1> DEFINE w == WorkerOf[FormOf[e]]  unit == form[FormOf[e]].place.unit
  <1>1. /\ Reading /\ rep.todo = <<>> /\ \A z \in DOMAIN rep.row : rep.row[z].todo = <<>>
        /\ KindSound(rep.kind)
    BY ReadingHolds DEF T!Done, T!Goes, Reading
  <1>2. \A what : ~Pending(<<>>, what)
    BY NoneInOrder
  <1>3. UnitsRead /\ RowsBegun
    BY <1>1, <1>2 DEF UnitsRead, Reading
  <1>4. Pending(rep.kind.reads, "forms") /\ ~Pending(rep.kind.row, "forms")
    BY <1>1 DEF Reading, SeenSound, KindSound
  <1>5. rep.kind.settled => rep.kind.row = <<>>
    BY <1>1, <1>4 DEF KindSound
  <1>6. e \in Entries /\ FormOf[e] \in Forms /\ w \in Workers /\ rep.kind.by \in {"unit", "worker"}
    <2>1. rep.seen \in EntryMaps
      BY <1>1 DEF Reading, ReportStates
    <2>2. e \in Entries
      BY <2>1 DEF EntryMaps
    <2>3. rep.kind.by \in {"unit", "worker"}
      BY <1>1 DEF KindSound
    <2> QED BY <2>2, <2>3, ReportsSizes
  <1>7. CASE rep.kind.row = <<>>
    <2>1. rep.kind # T!ByTeam
      BY <1>1, <1>7 DEF KindSound
    <2>2. T!RowOf[e] \in DOMAIN T!Rows
      <3>1. CASE rep.kind.settled
        BY <1>7, <3>1, RowsAreMaps
      <3>2. CASE ~rep.kind.settled
        <4>1. rep.kind.by = "unit"
          BY <1>1, <1>6, <1>7, <3>2 DEF KindSound
        <4>2. T!Stays(unit)
          BY <1>7, <3>2 DEF T!Expected
        <4>3. unit \in DOMAIN rep.row
          BY <1>3, <3>2, <4>1, <4>2 DEF RowsBegun, T!Stays
        <4>4. T!RowOf[e] = unit
          BY <4>1 DEF T!RowOf
        <4>5. DOMAIN T!Rows = DOMAIN rep.row
          BY <1>7, <3>2, RowsAreMaps
        <4> QED BY <4>3, <4>4, <4>5
      <3> QED BY <3>1, <3>2
    <2>3. e \in DOMAIN T!Rows[T!RowOf[e]] /\ T!Rows[T!RowOf[e]][e] = rep.seen[e]
      BY <1>7, <2>2, RowsAreMaps
    <2> QED BY <2>1, <2>2, <2>3 DEF Rowed
  <1>8. CASE rep.kind.row # <<>>
    <2>1. T!Rows = [z \in DOMAIN rep.row |-> rep.row[z].got]
      BY <1>8, RowsAreMaps
    <2>2. /\ ~rep.kind.settled /\ w \notin rep.moved /\ e \notin rep.edited
          /\ rep.kind.by = "worker" => place[w].inside
          /\ rep.kind.by # "worker" => T!Stays(place[w].unit)
      BY <1>5, <1>8 DEF T!Expected
    <2>3. ASSUME NEW x \in DOMAIN rep.row, w \in rep.row[x].members
          PROVE  Rowed(x, e) /\ T!Rows[x][e] = rep.seen[e]
      <3>1. RowSound(x) /\ rep.row[x].todo = <<>>
        BY <1>1 DEF Reading
      <3>2. e \in DOMAIN rep.row[x].got /\ rep.row[x].got[e] = rep.seen[e]
        BY <1>2, <1>4, <1>8, <2>2, <2>3, <3>1 DEF RowSound
      <3> QED BY <2>1, <3>2 DEF Rowed
    <2>4. CASE rep.kind.by = "worker"
      <3>1. w \in DOMAIN rep.row
        BY <1>3, <1>6, <2>2, <2>4 DEF RowsBegun
      <3>2. w \in rep.row[w].members
        BY <1>1, <2>4, <3>1 DEF Reading, RowSound
      <3> QED BY <2>2, <2>3, <3>1, <3>2
    <2>5. CASE rep.kind.by = "unit"
      <3> DEFINE x == place[w].unit
      <3>1. Pending(rep.kind.row, "members")
        BY <1>1, <1>4, <1>8, <2>5 DEF KindSound
      <3>2. x \in DOMAIN rep.row
        BY <1>3, <2>2, <2>5 DEF RowsBegun, T!Stays
      <3> HIDE DEF x
      <3>3. RowSound(x) /\ rep.row[x].todo = <<>>
        BY <1>1, <3>2 DEF Reading
      <3>4. \A v \in Workers \ rep.moved : v \in rep.row[x].members <=> place[v].unit = x
        BY <1>2, <3>1, <3>3 DEF RowSound
      <3>5. place[w].unit = x
        BY DEF x
      <3>6. w \in rep.row[x].members
        <4> HIDE DEF w
        <4> QED BY <1>6, <2>2, <3>4, <3>5
      <3> QED BY <2>2, <2>3, <3>2, <3>6
    <2> QED BY <1>6, <2>4, <2>5
  <1> QED BY <1>7, <1>8

LEMMA AccountHolds ==
  ASSUME ReportsInv
  PROVE  T!BreakdownsAccount
  <1> SUFFICES ASSUME T!Done PROVE T!BreakdownsAccount
    BY DEF T!BreakdownsAccount
  <1>1. rep.seen \in EntryMaps
    BY ReadingHolds DEF T!Done, T!Goes, Reading, ReportStates
  <1>2. \A parts \in {T!DailyBreakdown(rep.seen), T!OutputByBag(rep.seen), T!OutputByProcess(rep.seen)} :
          T!SumFunction(parts) = T!Total(rep.seen)
    BY <1>1, GroupedAddsUp DEF T!DailyBreakdown, T!OutputByBag, T!OutputByProcess
  <1>3. (\A e \in DOMAIN rep.seen : T!SumFunction(rep.seen[e].hours) = rep.seen[e].total) =>
          T!SumFunction(T!HourlyBreakdown(rep.seen)) = T!Total(rep.seen)
    BY <1>1, HoursAddUp
  <1>4. LET issues == T!ProductionIssues(rep.seen) IN
        T!SumFunction([t \in DOMAIN issues |-> issues[t].occurrences])
          = T!SumFunction([e \in DOMAIN rep.seen |-> Len(rep.seen[e].issues)])
    BY <1>1, IssuesAddUp
  <1>5. rep.kind \in {T!CompareTeams, T!CompareGroups} =>
          \A t \in {T!CompareBags, T!CompareProcesses, T!TimeSeries} : \A x \in DOMAIN T!Rows :
            T!SumFunction([k \in DOMAIN t |-> t[k][x]]) = T!Total(T!Rows[x])
    BY TablesAddUp
  <1>6. \A e : T!Holding(e) = {x \in DOMAIN T!Rows : Rowed(x, e)}
    BY DEF T!Holding, Rowed
  <1>7. rep.kind.by # "none" /\ rep.forms # {} =>
          \A e \in DOMAIN rep.seen : T!Expected(e) =>
            \E x \in T!Holding(e) : T!Holding(e) = {x} /\ T!Rows[x][e] = rep.seen[e]
    <2> SUFFICES ASSUME rep.kind.by # "none", rep.forms # {}, NEW e \in DOMAIN rep.seen, T!Expected(e)
                 PROVE  \E x \in T!Holding(e) : T!Holding(e) = {x} /\ T!Rows[x][e] = rep.seen[e]
      OBVIOUS
    <2>1. PICK x : Rowed(x, e) /\ T!Rows[x][e] = rep.seen[e]
      BY ExpectedIsHeld
    <2>2. ~(rep.kind = T!ByTeam /\ WorkerOf[FormOf[e]] \in rep.moved)
      BY ExpectedIsHeld
    <2>3. \A y : Rowed(y, e) => y = x
      BY <2>1, <2>2, RowsApart
    <2>4. x \in DOMAIN T!Rows
      BY <2>1 DEF Rowed
    <2>5. T!Holding(e) = {x}
      BY <1>6, <2>1, <2>3, <2>4
    <2> QED BY <2>1, <2>5
  <1>8. \A e \in Entries :
          T!Cardinality(T!Holding(e)) > 1 => rep.kind = T!ByTeam /\ WorkerOf[FormOf[e]] \in rep.moved
    <2> SUFFICES ASSUME NEW e \in Entries, ~(rep.kind = T!ByTeam /\ WorkerOf[FormOf[e]] \in rep.moved)
                 PROVE  ~(T!Cardinality(T!Holding(e)) > 1)
      OBVIOUS
    <2>1. \A x, y \in T!Holding(e) : x = y
      BY <1>6, RowsApart
    <2>2. T!Holding(e) = {} \/ \E x : T!Holding(e) = {x}
      BY <2>1
    <2>3. Cardinality(T!Holding(e)) \in {0, 1}
      BY <2>2, FS_EmptySet, FS_Singleton
    <2> QED BY <2>3, CardinalityOfReports
  <1> QED BY <1>2, <1>3, <1>4, <1>5, <1>7, <1>8 DEF T!BreakdownsAccount

(* BreakdownsAccount for every number of units, workers, forms, entries    *)
(* and changes: what a report shows by row, day, bag, process, hour and    *)
(* problem adds up.                                                        *)
THEOREM BreakdownsAddUp == Spec => []BreakdownsAccount
  <1>1. ReportsInv => BreakdownsAccount
    BY AccountHolds DEF BreakdownsAccount
  <1> QED BY <1>1, ReportsReasoned, PTL

-----------------------------------------------------------------------------
(* Departments.                                                            *)
(* A tree is followed no further than its bound.                           *)
Walkers ==
  [pc : {"idle", "tree", "hierarchy"}, todo : Seq(Depts), shown : [Depts -> Nat],
   path : Seq(Depts), up : Depts \cup {Nobody}, moved : SUBSET Depts, changes : 0..MaxMoves]
Followed(w) == SumFunctionOnSet(w.shown, Depts) <= MaxShown

DInv ==
  /\ parent \in [Depts -> Depts \cup {Nobody, Unborn}]
  /\ \A d \in D!Here : parent[d] \in D!Here \cup {Nobody}
  /\ walk = [w \in Walks |-> walk[w]]
  /\ \A w \in Walks : walk[w] \in Walkers /\ Followed(walk[w])

LEMMA SizesOfDepartments ==
  /\ IsFiniteSet(Depts) /\ Nobody \notin Depts /\ Unborn \notin Depts /\ Nobody # Unborn
  /\ MaxShown \in Nat /\ MaxMoves \in Nat
  BY DepartmentsAssumption

LEMMA SumOfDepartments ==
  ASSUME NEW f \in [Depts -> Nat]
  PROVE  /\ D!SumFunction(f) = SumFunctionOnSet(f, Depts)
         /\ Numeric(f, Depts)
  <1>1. D!SumFunction(f) = SumFunctionOnSet(f, DOMAIN f)
    BY DEF D!SumFunction, D!SumFunctionOnSet, D!FoldFunctionOnSet, D!MapThenFoldSet,
           SumFunctionOnSet, FoldFunctionOnSet, MapThenFoldSet
  <1> QED BY <1>1 DEF Numeric

LEMMA IdleWalks == D!Idle \in Walkers /\ Followed(D!Idle)
  <1> DEFINE f == [d \in Depts |-> 0]
  <1>1. f \in [Depts -> Nat] /\ \A d \in Depts : f[d] \in 0..0
    OBVIOUS
  <1>2. Cardinality(Depts) \in Nat
    BY SizesOfDepartments, FS_CardinalityType
  <1>3. SumFunctionOnSet(f, Depts) \in 0..(0 * Cardinality(Depts))
    <2> HIDE DEF f
    <2> QED BY <1>1, SizesOfDepartments, SumBounded
  <1>4. SumFunctionOnSet(f, Depts) <= MaxShown
    BY <1>2, <1>3, SizesOfDepartments
  <1>5. <<>> \in Seq(Depts)
    OBVIOUS
  <1> QED BY <1>1, <1>4, <1>5, SizesOfDepartments DEF D!Idle, Walkers, Followed

LEMMA ShownBounded ==
  ASSUME NEW q \in Walkers, Followed(q)
  PROVE  q.shown \in [Depts -> 0..MaxShown]
  <1>1. q.shown \in [Depts -> Nat] /\ Numeric(q.shown, Depts)
    BY DEF Walkers, Numeric
  <1>2. \A d \in Depts : q.shown[d] <= SumFunctionOnSet(q.shown, Depts)
    BY <1>1, InSum, SizesOfDepartments
  <1>3. SumFunctionOnSet(q.shown, Depts) \in Nat
    BY <1>1, SumNatural, SizesOfDepartments
  <1> QED BY <1>1, <1>2, <1>3, SizesOfDepartments DEF Followed

LEMMA DepartmentsTyped ==
  ASSUME DInv
  PROVE  D!TypeOK
  BY ShownBounded DEF DInv, D!TypeOK, Walkers

(* One reader moves.                                                       *)
LEMMA WalkerMoves ==
  ASSUME DInv, UNCHANGED parent, NEW w \in Walks, NEW q \in Walkers, Followed(q),
         walk' = [walk EXCEPT ![w] = q]
  PROVE  DInv'
  BY DEF DInv, D!Here

LEMMA Orders ==
  ASSUME NEW p, NEW s \in D!SetToSeqs(D!ChildrenOf(p))
  PROVE  s \in Seq(Depts)
  <1>1. D!ChildrenOf(p) \in SUBSET Depts
    BY DEF D!ChildrenOf
  <1>2. D!Cardinality(D!ChildrenOf(p)) = Cardinality(D!ChildrenOf(p))
        /\ Cardinality(D!ChildrenOf(p)) \in Nat
    BY <1>1, SizesOfDepartments, FS_Subset, FS_CardinalityType DEF D!Cardinality, Cardinality
  <1> QED BY <1>1, <1>2 DEF D!SetToSeqs

LEMMA DepartmentsChangesKeep ==
  ASSUME DInv, NEW p, D!Put(p), p \in [Depts -> Depts \cup {Nobody, Unborn}],
         \A d \in Depts : p[d] \in Depts => p[p[d]] # Unborn
  PROVE  DInv'
  <1>1. parent' = p /\ D!Here' = {d \in Depts : p[d] # Unborn}
    BY DEF D!Put, D!Here
  <1>2. \A d \in D!Here' : parent'[d] \in (D!Here' \cup {Nobody})
    BY <1>1
  <1>3. ASSUME NEW w \in Walks
        PROVE  walk'[w] \in Walkers /\ Followed(walk'[w])
    <2>1. CASE D!Goes(w)
      <3> DEFINE changed == {d \in Depts : p[d] # parent[d]}  q == walk[w]
                 new == [q EXCEPT !.moved = @ \cup changed, !.changes = @ + 1]
      <3>1. walk'[w] = new /\ q.changes < MaxMoves /\ changed \in SUBSET Depts
        BY <2>1 DEF D!Put
      <3> HIDE DEF changed
      <3>2. q \in Walkers /\ q.changes + 1 \in 0..MaxMoves /\ Followed(q)
        BY <3>1, SizesOfDepartments DEF DInv, Walkers
      <3>3. new = [pc |-> q.pc, todo |-> q.todo, shown |-> q.shown, path |-> q.path, up |-> q.up,
                   moved |-> q.moved \cup changed, changes |-> q.changes + 1]
        <4> HIDE DEF q
        <4>1. q = [pc |-> q.pc, todo |-> q.todo, shown |-> q.shown, path |-> q.path, up |-> q.up,
                   moved |-> q.moved, changes |-> q.changes]
          BY <3>2 DEF Walkers
        <4>2. new = [q EXCEPT !.moved = @ \cup changed, !.changes = @ + 1]
          OBVIOUS
        <4> HIDE DEF new
        <4> QED BY <4>1, <4>2
      <3>4. new \in Walkers /\ new.shown = q.shown
        BY <3>1, <3>2, <3>3 DEF Walkers
      <3> QED BY <3>1, <3>2, <3>4 DEF Followed
    <2>2. CASE ~D!Goes(w)
      BY <2>2 DEF D!Put, DInv
    <2> QED BY <2>1, <2>2
  <1>4. walk' = [w \in Walks |-> walk'[w]]
    BY DEF D!Put
  <1> QED BY <1>1, <1>2, <1>3, <1>4 DEF DInv

LEMMA DepartmentsChange ==
  ASSUME DInv, D!Change
  PROVE  DInv'
  <1> USE SizesOfDepartments
  <1>1. ASSUME NEW d \in Depts, NEW p \in Depts \cup {Nobody}, D!Create(d, p) \/ D!Update(d, p)
        PROVE  DInv'
    <2> DEFINE f == [parent EXCEPT ![d] = p]
    <2>1. D!Put(f) /\ p \in D!Here \cup {Nobody}
      BY <1>1 DEF D!Create, D!Update
    <2>2. f \in [Depts -> Depts \cup {Nobody, Unborn}]
          /\ \A c \in Depts : f[c] \in Depts => f[f[c]] # Unborn
      BY <2>1 DEF DInv, D!Here
    <2> HIDE DEF f
    <2> QED BY <2>1, <2>2, DepartmentsChangesKeep
  <1>2. ASSUME NEW d \in Depts, D!Delete(d)
        PROVE  DInv'
    <2> DEFINE f == [c \in Depts |->
                 IF c = d THEN Unborn ELSE IF parent[c] = d THEN Nobody ELSE parent[c]]
    <2>1. D!Put(f)
      BY <1>2 DEF D!Delete
    <2>2. f \in [Depts -> Depts \cup {Nobody, Unborn}]
          /\ \A c \in Depts : f[c] \in Depts => f[f[c]] # Unborn
      BY DEF DInv, D!Here
    <2> HIDE DEF f
    <2> QED BY <2>1, <2>2, DepartmentsChangesKeep
  <1> QED BY <1>1, <1>2 DEF D!Change

LEMMA TreeKeeps ==
  ASSUME DInv, NEW w \in Walks, D!StartTree(w) \/ D!StepTree(w)
  PROVE  DInv'
  <1>1. CASE D!StartTree(w)
    <2>1. PICK s \in D!SetToSeqs(D!ChildrenOf(Nobody)) :
            walk' = [walk EXCEPT ![w] = [D!Idle EXCEPT !.pc = "tree", !.todo = s]]
      BY <1>1 DEF D!StartTree
    <2> DEFINE q == [D!Idle EXCEPT !.pc = "tree", !.todo = s]
    <2>2. q \in Walkers /\ q.shown = D!Idle.shown
      BY Orders, IdleWalks DEF D!Idle, Walkers
    <2>3. Followed(q) /\ UNCHANGED parent
      BY <1>1, <2>2, IdleWalks DEF Followed, D!StartTree
    <2> HIDE DEF q
    <2> QED BY <2>1, <2>2, <2>3, WalkerMoves DEF q
  <1>2. CASE D!StepTree(w) /\ D!Answer(w)
    BY <1>2, WalkerMoves, IdleWalks DEF D!StepTree, D!Answer
  <1>3. CASE D!StepTree(w) /\ ~D!Answer(w)
    <2> DEFINE q == walk[w]  d == Head(q.todo)
    <2>1. /\ q.todo # <<>> /\ D!SumFunction(q.shown) # MaxShown /\ D!BuildTree(w) /\ UNCHANGED parent
          /\ q \in Walkers /\ Followed(q)
      BY <1>3 DEF D!StepTree, DInv
    <2>2. d \in Depts /\ Tail(q.todo) \in Seq(Depts) /\ q.shown \in [Depts -> Nat]
      BY <2>1 DEF Walkers
    <2>3. PICK s \in D!SetToSeqs(D!ChildrenOf(d)) :
            walk' = [walk EXCEPT ![w].todo = s \o Tail(@), ![w].shown[d] = @ + 1]
      BY <2>1 DEF D!BuildTree
    <2> DEFINE new == [q EXCEPT !.todo = s \o Tail(@), !.shown[d] = @ + 1]
               shown == [q.shown EXCEPT ![d] = @ + 1]
    <2>4. walk' = [walk EXCEPT ![w] = new]
      BY <2>3 DEF DInv
    <2>5. new = [pc |-> q.pc, todo |-> s \o Tail(q.todo), shown |-> shown, path |-> q.path,
                 up |-> q.up, moved |-> q.moved, changes |-> q.changes]
      <3> HIDE DEF q, d
      <3>1. q = [pc |-> q.pc, todo |-> q.todo, shown |-> q.shown, path |-> q.path, up |-> q.up,
                 moved |-> q.moved, changes |-> q.changes]
        BY <2>1 DEF Walkers
      <3> DEFINE one == [q EXCEPT !.todo = s \o Tail(@)]
      <3>2. one = [pc |-> q.pc, todo |-> s \o Tail(q.todo), shown |-> q.shown, path |-> q.path,
                   up |-> q.up, moved |-> q.moved, changes |-> q.changes]
        <4>1. one = [q EXCEPT !.todo = s \o Tail(@)]
          OBVIOUS
        <4> HIDE DEF one
        <4> QED BY <3>1, <4>1
      <3>3. new = [one EXCEPT !.shown = shown]
        BY <3>2
      <3> HIDE DEF one, new, shown
      <3> QED BY <3>2, <3>3
    <2>6. shown \in [Depts -> Nat] /\ s \o Tail(q.todo) \in Seq(Depts)
      BY <2>2, Orders
    <2>7. new \in Walkers /\ new.shown = shown
      BY <2>1, <2>5, <2>6 DEF Walkers
    <2>8. shown[d] = 1 + q.shown[d] /\ \A c \in Depts \ {d} : shown[c] = q.shown[c]
      BY <2>2
    <2>9. Followed(new)
      <3> HIDE DEF new, shown, q, d
      <3>1. SumFunctionOnSet(shown, Depts) = 1 + SumFunctionOnSet(q.shown, Depts)
        <4> DEFINE old == q.shown
        <4>1. Numeric(old, Depts) /\ IsFiniteSet(Depts) /\ d \in Depts /\ 1 \in Nat
          BY <2>2, SumOfDepartments, SizesOfDepartments
        <4>2. shown[d] = 1 + old[d] /\ \A c \in Depts \ {d} : shown[c] = old[c]
          BY <2>8
        <4> HIDE DEF old
        <4>3. SumFunctionOnSet(shown, Depts) = 1 + SumFunctionOnSet(old, Depts)
          BY <4>1, <4>2, SumGrows
        <4> QED BY <4>3 DEF old
      <3>2. SumFunctionOnSet(q.shown, Depts) \in Nat /\ SumFunctionOnSet(q.shown, Depts) # MaxShown
        BY <2>1, <2>2, SumOfDepartments, SumNatural, SizesOfDepartments
      <3> QED BY <2>1, <2>7, <3>1, <3>2, SizesOfDepartments DEF Followed
    <2> HIDE DEF new, shown
    <2> QED BY <2>1, <2>4, <2>7, <2>9, WalkerMoves
  <1> QED BY <1>1, <1>2, <1>3

LEMMA HierarchyKeeps ==
  ASSUME DInv, NEW w \in Walks,
         D!StepHierarchy(w) \/ \E d \in Depts : D!StartHierarchy(w, d)
  PROVE  DInv'
  <1>1. ASSUME NEW d \in Depts, D!StartHierarchy(w, d)
        PROVE  DInv'
    <2> DEFINE q == [D!Idle EXCEPT !.pc = "hierarchy", !.path = <<d>>, !.up = parent[d]]
    <2>1. walk' = [walk EXCEPT ![w] = q] /\ UNCHANGED parent /\ d \in D!Here
      BY <1>1 DEF D!StartHierarchy
    <2>2. parent[d] \in Depts \cup {Nobody} /\ <<d>> \in Seq(Depts)
      BY <2>1 DEF DInv, D!Here
    <2>3. q \in Walkers /\ q.shown = D!Idle.shown
      BY <2>2, IdleWalks DEF D!Idle, Walkers
    <2>4. Followed(q)
      BY <2>3, IdleWalks DEF Followed
    <2> HIDE DEF q
    <2> QED BY <2>1, <2>3, <2>4, WalkerMoves
  <1>2. CASE D!StepHierarchy(w) /\ D!Answer(w)
    BY <1>2, WalkerMoves, IdleWalks DEF D!StepHierarchy, D!Answer
  <1>3. CASE D!StepHierarchy(w) /\ ~D!Answer(w)
    <2> DEFINE q == walk[w]  p == q.up
    <2>1. q \in Walkers /\ Followed(q) /\ UNCHANGED parent /\ D!FindParents(w)
      BY <1>3 DEF D!StepHierarchy, DInv
    <2>2. CASE p \in D!Here
      <3> DEFINE path == IF D!Len(q.path) < MaxShown THEN <<p>> \o q.path ELSE q.path
                 new == [q EXCEPT !.up = parent[p], !.path = path]
      <3>1. walk' = [walk EXCEPT ![w] = new]
        BY <2>1, <2>2 DEF D!FindParents, DInv
      <3>2. parent[p] \in Depts \cup {Nobody} /\ path \in Seq(Depts)
        BY <2>1, <2>2 DEF DInv, D!Here, Walkers
      <3> HIDE DEF path
      <3>3. new \in Walkers /\ new.shown = q.shown
        BY <2>1, <3>2 DEF Walkers
      <3>4. Followed(new)
        BY <2>1, <3>3 DEF Followed
      <3> HIDE DEF new
      <3> QED BY <2>1, <3>1, <3>3, <3>4, WalkerMoves
    <2>3. CASE p \notin D!Here
      <3> DEFINE new == [q EXCEPT !.up = Nobody]
      <3>1. walk' = [walk EXCEPT ![w] = new]
        BY <2>1, <2>3 DEF D!FindParents, DInv
      <3>2. new \in Walkers /\ new.shown = q.shown
        BY <2>1 DEF Walkers
      <3>3. Followed(new)
        BY <2>1, <3>2 DEF Followed
      <3> HIDE DEF new
      <3> QED BY <2>1, <3>1, <3>2, <3>3, WalkerMoves
    <2> QED BY <2>2, <2>3
  <1> QED BY <1>1, <1>2, <1>3

LEMMA DInvHolds == Spec => []DInv
  <1>1. Init => DInv
    <2> SUFFICES ASSUME D!Init PROVE DInv
      BY DEF Init
    <2> QED BY SizesOfDepartments, IdleWalks DEF D!Init, DInv, D!Here
  <1>2. DInv /\ [Next]_vars => DInv'
    <2> SUFFICES ASSUME DInv, [D!Next]_departments PROVE DInv'
      BY StepOfEach
    <2>1. CASE UNCHANGED departments
      BY <2>1 DEF departments, DInv, D!Here
    <2> QED BY <2>1, DepartmentsChange, TreeKeeps, HierarchyKeeps DEF D!Next
  <1> QED BY <1>1, <1>2, PTL DEF Spec

-----------------------------------------------------------------------------
(* Listings.                                                               *)
(* The rows up to x, and whether x is alone at its place.                  *)
UpTo(x) == {y \in L!Here : key[y] <= key[x]}
Place(x) == Cardinality(UpTo(x))
Alone(x) == \A y \in Listed \ {x} : key[y] # key[x]

(* The pages are what the table holds, and as large as the client is told. *)
Honest == ~pager.other /\ ~(L!Told > L!Size)

(* The pages whose rows the client has been given.                         *)
Given == IF "rows" \in pager.todo THEN pager.page - 1 ELSE pager.page

(* A row that is there all the time, was not pushed about, is alone at its *)
(* place and was not shown yet is behind the rows shown; and once the rows *)
(* of a page follow their count, or the count the rows, it is within what  *)
(* was counted.                                                            *)
Ahead(x) ==
  /\ Given * L!Size < Place(x)
  /\ pager.todo = {"rows"} => Place(x) <= pager.total
  /\ pager.todo = {} => pager.page * L!Size < pager.total

Pagers ==
  [page : Nat \ {0}, limit : Limits, todo : SUBSET {"count", "rows"},
   total : 0..Cardinality(Listed), shown : SUBSET Listed, stayed : SUBSET Listed,
   excused : SUBSET Listed, other : BOOLEAN, changes : Nat]

ListShape ==
  /\ list \in L!Lists /\ key \in [Listed -> Ranks \cup {Unborn, Gone}]
  /\ pager \in {L!Idle, L!Over} \cup Pagers
  /\ L!Reads =>
       /\ pager \in Pagers /\ pager.stayed \subseteq L!Here
       /\ pager.page \in 1..(Cardinality(Listed) + 1) /\ pager.changes \in 0..ListChanges
       /\ pager.other => list.instead # "nothing"

LInv ==
  /\ ListShape
  /\ L!Reads /\ Honest =>
       \A x \in pager.stayed \ pager.shown : x \notin pager.excused /\ Alone(x) => Ahead(x)

-----------------------------------------------------------------------------
LEMMA SizesOfLists ==
  /\ Cardinality(Listed) \in Nat /\ Limits \subseteq Nat \ {0} /\ Most \in Nat \ {0}
  /\ Ranks \subseteq Nat /\ Unborn \notin Ranks /\ Gone \notin Ranks /\ IsFiniteSet(Listed)
  /\ ListChanges \in Nat
  BY ListingsAssumption, FS_CardinalityType

(* A page has room for a row, and is never larger than the client is told. *)
LEMMA SizeOfPage ==
  ASSUME pager \in Pagers
  PROVE  L!Size \in Nat \ {0} /\ L!Told \in Nat \ {0} /\ L!Size <= L!Told
  <1>1. pager.limit \in Nat \ {0} /\ Most \in Nat \ {0}
    BY SizesOfLists DEF Pagers
  <1> QED BY <1>1 DEF L!Size, L!Told

LEMMA PagerWritten ==
  ASSUME pager \in Pagers
  PROVE  /\ pager = [page |-> pager.page, limit |-> pager.limit, todo |-> pager.todo,
                     total |-> pager.total, shown |-> pager.shown, stayed |-> pager.stayed,
                     excused |-> pager.excused, other |-> pager.other, changes |-> pager.changes]
         /\ pager.page \in Nat \ {0} /\ pager.limit \in Limits
         /\ pager.todo \in SUBSET {"count", "rows"} /\ pager.total \in 0..Cardinality(Listed)
         /\ pager.shown \in SUBSET Listed /\ pager.stayed \in SUBSET Listed
         /\ pager.excused \in SUBSET Listed /\ pager.other \in BOOLEAN /\ pager.changes \in Nat
  BY DEF Pagers

LEMMA CardinalityOfLists ==
  ASSUME NEW S
  PROVE  L!Cardinality(S) = Cardinality(S)
  BY DEF L!Cardinality, Cardinality

LEMMA PlacesCount ==
  ASSUME ListShape, NEW x \in L!Here
  PROVE  /\ IsFiniteSet(L!Here) /\ IsFiniteSet(UpTo(x)) /\ x \in UpTo(x)
         /\ Place(x) \in Nat /\ Place(x) <= Cardinality(L!Here)
         /\ Cardinality(L!Here) \in 0..Cardinality(Listed)
  <1>1. L!Here \subseteq Listed /\ UpTo(x) \subseteq L!Here /\ key[x] \in Nat
    BY SizesOfLists DEF L!Here, L!Present, UpTo
  <1>2. IsFiniteSet(L!Here) /\ Cardinality(L!Here) <= Cardinality(Listed)
    BY <1>1, SizesOfLists, FS_Subset
  <1>3. IsFiniteSet(UpTo(x)) /\ Cardinality(UpTo(x)) <= Cardinality(L!Here)
    BY <1>1, <1>2, FS_Subset
  <1>4. Cardinality(UpTo(x)) \in Nat /\ Cardinality(L!Here) \in Nat
    BY <1>2, <1>3, FS_CardinalityType
  <1> QED BY <1>1, <1>2, <1>3, <1>4 DEF Place, UpTo

(* In a sorted list the place of a row that is alone is its number.        *)
LEMMA PlaceIsNumber ==
  ASSUME ListShape, NEW s \in L!SetToSeqs(L!Here), L!Sorted(s), NEW x \in L!Here, Alone(x)
  PROVE  Place(x) \in DOMAIN s /\ s[Place(x)] = x
  <1> DEFINE H == L!Here  n == Cardinality(L!Here)
  <1>1. /\ s \in [1..n -> H] /\ \A i, j \in 1..n : i # j => s[i] # s[j]
    BY CardinalityOfLists DEF L!SetToSeqs
  <1>2. IsFiniteSet(H) /\ n \in Nat /\ \A y \in H : key[y] \in Nat /\ y \in Listed
    BY PlacesCount, SizesOfLists, FS_CardinalityType DEF L!Here, L!Present
  <1> HIDE DEF H, n
  <1>3. \A y \in H : \E j \in 1..n : s[j] = y
    <2>1. s \in Injection(1..n, H)
      BY <1>1 DEF Injection, IsInjective
    <2>2. Cardinality(1..n) = n /\ IsFiniteSet(1..n)
      BY <1>2, FS_Interval
    <2>3. s \in Surjection(1..n, H)
      BY <1>2, <2>1, <2>2, FS_Injection DEF n, H
    <2> QED BY <2>3 DEF Surjection
  <1>4. PICK i \in 1..n : s[i] = x
    BY <1>3 DEF H
  <1>5. \A j \in 1..n : j <= i <=> key[s[j]] <= key[x]
    <2>1. \A j \in 1..n : j <= i => key[s[j]] <= key[x]
      BY <1>1, <1>2, <1>4 DEF L!Sorted
    <2>2. \A j \in 1..n : i < j => key[x] <= key[s[j]] /\ s[j] # x
      BY <1>1, <1>2, <1>4 DEF L!Sorted
    <2>3. \A j \in 1..n : i < j => ~(key[s[j]] <= key[x])
      BY <1>1, <1>2, <1>4, <2>2 DEF Alone, H
    <2> QED BY <1>4, <2>1, <2>3
  <1>6. Cardinality(UpTo(x)) = i
    <2> DEFINE g == [j \in 1..i |-> s[j]]
    <2>1. g \in Bijection(1..i, UpTo(x))
      <3>1. 1..i \subseteq 1..n
        BY <1>2, <1>4
      <3>2. g \in [1..i -> UpTo(x)]
        BY <1>1, <1>5, <3>1 DEF UpTo, H
      <3>3. \A a, b \in 1..i : g[a] = g[b] => a = b
        BY <1>1, <3>1
      <3>4. \A y \in UpTo(x) : \E j \in 1..i : g[j] = y
        BY <1>2, <1>3, <1>5 DEF UpTo, H
      <3> QED BY <3>2, <3>3, <3>4 DEF Bijection, Injection, Surjection, IsInjective
    <2>2. IsFiniteSet(1..i) /\ Cardinality(1..i) = i
      BY <1>4, FS_Interval
    <2> QED BY <2>1, <2>2, FS_Bijection DEF ExistsBijection
  <1> QED BY <1>1, <1>4, <1>6 DEF Place

(* One element more never makes a set smaller.                             *)
LEMMA OneMore ==
  ASSUME NEW U, IsFiniteSet(U), NEW z
  PROVE  /\ IsFiniteSet(U \cup {z}) /\ Cardinality(U) \in Nat
         /\ Cardinality(U \cup {z}) \in Nat /\ Cardinality(U \cup {z}) >= Cardinality(U)
  <1>1. IsFiniteSet(U \cup {z}) /\ Cardinality(U) \in Nat
    BY FS_AddElement, FS_CardinalityType
  <1>2. CASE z \in U
    <2>1. U \cup {z} = U
      BY <1>2
    <2> QED BY <1>1, <2>1
  <1>3. CASE z \notin U
    <2>1. Cardinality(U \cup {z}) = Cardinality(U) + 1
      BY <1>3, FS_AddElement
    <2> QED BY <1>1, <2>1
  <1> QED BY <1>2, <1>3

(* A row that is inserted, deleted or moved.                               *)
LEMMA PutKeeps ==
  ASSUME LInv, NEW y \in Listed, NEW k \in Ranks \cup {Gone}, NEW E \in SUBSET Listed,
         L!Put(y, k, E),
         L!Present(y) => L!After(key[y]) \subseteq E,
         L!Present(y) /\ k \in Ranks => y \in E /\ L!After(k) \subseteq E,
         pager.todo = {"rows"} /\ k \in Ranks => L!After(k) \subseteq E
  PROVE  LInv'
  <1>1. /\ key' = [key EXCEPT ![y] = k] /\ list' = list /\ pager.changes < ListChanges
        /\ ListShape /\ L!Reads /\ L!Here' = {x \in Listed : key'[x] \in Ranks}
        /\ L!Here = {x \in Listed : key[x] \in Ranks}
    BY DEF LInv, L!Put, L!Here, L!Present
  <1>2. key' \in [Listed -> Ranks \cup {Unborn, Gone}]
    BY <1>1 DEF ListShape
  <1> DEFINE Rest == L!Here'
             q == [pager EXCEPT !.stayed = @ \cap Rest, !.changes = @ + 1, !.excused = @ \cup E]
  <1>3. pager' = q /\ pager \in Pagers /\ pager.changes \in 0..ListChanges
        /\ pager.page \in 1..(Cardinality(Listed) + 1) /\ (pager.other => list.instead # "nothing")
    BY <1>1 DEF L!Put, ListShape
  <1>a. q = [pager EXCEPT !.stayed = @ \cap Rest, !.changes = @ + 1, !.excused = @ \cup E]
    OBVIOUS
  <1> HIDE DEF q, Rest
  <1>4. /\ q \in Pagers /\ q.page = pager.page /\ q.limit = pager.limit /\ q.todo = pager.todo
        /\ q.total = pager.total /\ q.shown = pager.shown /\ q.stayed = pager.stayed \cap Rest
        /\ q.excused = pager.excused \cup E /\ q.other = pager.other
        /\ q.changes = pager.changes + 1
    <2>1. q = [page |-> pager.page, limit |-> pager.limit, todo |-> pager.todo,
               total |-> pager.total, shown |-> pager.shown, stayed |-> pager.stayed \cap Rest,
               excused |-> pager.excused \cup E, other |-> pager.other,
               changes |-> pager.changes + 1]
      BY <1>3, <1>a, PagerWritten
    <2>2. pager.stayed \cap Rest \in SUBSET Listed /\ pager.excused \cup E \in SUBSET Listed
          /\ pager.changes + 1 \in Nat
      BY <1>3, PagerWritten
    <2> QED BY <1>3, <2>1, <2>2, PagerWritten DEF Pagers
  <1>5. ListShape'
    <2>1. q.stayed \subseteq L!Here'
      BY <1>4 DEF Rest
    <2> QED BY <1>1, <1>2, <1>3, <1>4, <2>1, SizesOfLists DEF ListShape
  <1>6. ASSUME Honest', NEW x \in (pager.stayed \ pager.shown)', x \notin pager.excused', Alone(x)'
        PROVE  Ahead(x)'
    <2>0. Honest /\ L!Size' = L!Size /\ L!Size \in Nat
      BY <1>1, <1>3, <1>4, <1>6, SizeOfPage DEF Honest, L!Size, L!Told
    <2>1. x \in pager.stayed /\ x \notin pager.shown /\ x \notin pager.excused /\ x \notin E
          /\ x \in L!Here /\ x \in L!Here' /\ x \in Listed
      <3>1. x \in pager.stayed /\ x \in Rest
        BY <1>3, <1>4, <1>6
      <3> QED BY <1>1, <1>3, <1>4, <1>6, <3>1 DEF ListShape, Rest
    <2>2. x # y /\ key'[x] = key[x] /\ key[x] \in Ranks
      BY <1>1, <2>1 DEF L!Present, ListShape
    <2>3. Alone(x)
      <3>1. key[y] # key[x]
        <4> SUFFICES ASSUME key[y] = key[x] PROVE FALSE
          OBVIOUS
        <4>1. L!Present(y)
          BY <2>2 DEF L!Present
        <4>2. x \notin L!After(key[y])
          BY <2>1, <4>1
        <4>3. key[x] \in Nat
          BY <2>2, SizesOfLists
        <4> QED BY <2>1, <4>2, <4>3 DEF L!After
      <3> QED BY <1>1, <1>6, <2>2, <3>1 DEF Alone, ListShape
    <2>4. Ahead(x)
      BY <1>1, <2>0, <2>1, <2>3 DEF LInv
    <2>5. UpTo(x)' = UpTo(x) \/ (UpTo(x)' = UpTo(x) \cup {y} /\ pager.todo # {"rows"})
      <3>1. \A z \in Listed \ {y} : z \in UpTo(x)' <=> z \in UpTo(x)
        BY <1>1, <2>2 DEF UpTo, ListShape
      <3>2. L!Present(y) => y \notin UpTo(x) /\ y \notin UpTo(x)'
        <4> SUFFICES ASSUME L!Present(y) PROVE y \notin UpTo(x) /\ y \notin UpTo(x)'
          OBVIOUS
        <4>1. x \notin L!After(key[y]) /\ (k \in Ranks => x \notin L!After(k))
          BY <2>1
        <4>2. ~(key[x] >= key[y]) /\ (k \in Ranks => ~(key[x] >= k)) /\ key[y] \in Ranks
          BY <2>1, <4>1 DEF L!After, L!Present
        <4>3. key'[y] = k
          BY <1>1 DEF ListShape
        <4> QED BY <1>1, <2>2, <4>2, <4>3, SizesOfLists DEF UpTo
      <3>3. ~L!Present(y) => y \notin UpTo(x)
        BY <1>1 DEF UpTo, L!Present
      <3>4. pager.todo = {"rows"} => y \notin UpTo(x)'
        <4> SUFFICES ASSUME pager.todo = {"rows"} PROVE y \notin UpTo(x)'
          OBVIOUS
        <4>1. k \in Ranks => ~(key[x] >= k)
          BY <2>1 DEF L!After
        <4>2. key'[y] = k
          BY <1>1 DEF ListShape
        <4> QED BY <1>1, <2>2, <4>1, <4>2, SizesOfLists DEF UpTo
      <3>5. UpTo(x) \subseteq Listed /\ UpTo(x)' \subseteq Listed
        BY <1>1 DEF UpTo
      <3> QED BY <3>1, <3>2, <3>3, <3>4, <3>5
    <2>6. Place(x)' >= Place(x) /\ (pager.todo = {"rows"} => Place(x)' = Place(x))
          /\ Place(x) \in Nat /\ Place(x)' \in Nat
      <3> DEFINE U == UpTo(x)
      <3>1. IsFiniteSet(U) /\ Cardinality(U) \in Nat
        BY <1>1, <2>1, PlacesCount DEF Place
      <3>2. UpTo(x)' = U \/ (UpTo(x)' = U \cup {y} /\ pager.todo # {"rows"})
        BY <2>5
      <3>3. Place(x) = Cardinality(U)
        BY DEF Place
      <3> HIDE DEF U
      <3>4. IsFiniteSet(U \cup {y}) /\ Cardinality(U \cup {y}) >= Cardinality(U)
            /\ Cardinality(U \cup {y}) \in Nat
        BY <3>1, OneMore
      <3>5. Place(x)' = Cardinality(U) \/ (Place(x)' = Cardinality(U \cup {y}) /\ pager.todo # {"rows"})
        BY <3>2 DEF Place
      <3> QED BY <3>1, <3>3, <3>4, <3>5
    <2>7. Given' = Given /\ Given * L!Size \in Int /\ pager.page * L!Size \in Int
      <3>1. pager.page \in Int /\ Given \in Int
        BY <1>3 DEF Given
      <3>2. Given' = Given
        BY <1>3, <1>4 DEF Given
      <3> QED BY <2>0, <3>1, <3>2
    <2> QED BY <1>3, <1>4, <2>0, <2>4, <2>6, <2>7 DEF Ahead
  <1> QED BY <1>5, <1>6 DEF LInv

LEMMA ChangesKeep ==
  ASSUME LInv, NEW y \in Listed,
         L!Delete(y) \/ \E k \in Ranks : L!Insert(y, k) \/ L!Move(y, k)
  PROVE  LInv'
  <1>1. /\ \A k : L!After(k) \subseteq Listed
        /\ Unborn \notin Ranks
    BY SizesOfLists DEF L!After, L!Here
  <1>2. CASE L!Delete(y)
    BY <1>1, <1>2, SizesOfLists, PutKeeps DEF L!Delete
  <1>3. CASE \E k \in Ranks : L!Insert(y, k)
    <2> PICK k \in Ranks : L!Insert(y, k)
      BY <1>3
    <2> DEFINE E == IF pager.todo = {"rows"} THEN L!After(k) ELSE {}
    <2>1. L!Put(y, k, E) /\ ~L!Present(y) /\ E \in SUBSET Listed
          /\ (pager.todo = {"rows"} => L!After(k) \subseteq E)
      BY <1>1 DEF L!Insert, L!Present
    <2> HIDE DEF E
    <2> QED BY <2>1, PutKeeps
  <1>4. CASE \E k \in Ranks : L!Move(y, k)
    <2> PICK k \in Ranks : L!Move(y, k)
      BY <1>4
    <2> DEFINE E == {y} \cup L!After(key[y]) \cup L!After(k)
    <2>1. L!Put(y, k, E) /\ E \in SUBSET Listed /\ y \in E /\ L!After(k) \subseteq E
          /\ L!After(key[y]) \subseteq E
      BY <1>1 DEF L!Move
    <2> HIDE DEF E
    <2> QED BY <2>1, PutKeeps
  <1> QED BY <1>2, <1>3, <1>4

(* The queries of a page.                                                  *)
LEMMA ListStartKeeps ==
  ASSUME LInv, NEW limit \in Limits, L!Start(limit)
  PROVE  LInv'
  <1>0. L!Here \in SUBSET Listed /\ L!Here' = L!Here /\ ListShape /\ UNCHANGED <<list, key>>
    BY DEF L!Here, L!Present, L!Start, LInv
  <1>1. pager' = [page |-> 1, limit |-> limit, todo |-> {"count", "rows"}, total |-> 0,
                  shown |-> {}, stayed |-> L!Here, excused |-> {}, other |-> FALSE, changes |-> 0]
    BY DEF L!Start
  <1>2. /\ pager' \in Pagers /\ pager'.page = 1 /\ pager'.todo = {"count", "rows"}
        /\ pager'.shown = {} /\ pager'.stayed = L!Here /\ ~pager'.other /\ pager'.changes = 0
    <2> DEFINE H == L!Here  q == pager'
    <2>1. q = [page |-> 1, limit |-> limit, todo |-> {"count", "rows"}, total |-> 0,
               shown |-> {}, stayed |-> H, excused |-> {}, other |-> FALSE, changes |-> 0]
      BY <1>1
    <2>2. H \in SUBSET Listed /\ 0 \in 0..Cardinality(Listed)
      BY <1>0, SizesOfLists
    <2> HIDE DEF H, q
    <2>3. q \in Pagers /\ q.page = 1 /\ q.todo = {"count", "rows"}
          /\ q.shown = {} /\ q.stayed = H /\ ~q.other /\ q.changes = 0
      BY <2>1, <2>2 DEF Pagers
    <2> QED BY <2>3 DEF H, q
  <1>3. ListShape'
    BY <1>0, <1>2, SizesOfLists DEF ListShape
  <1>4. ASSUME NEW x \in L!Here
        PROVE  Ahead(x)'
    <2>1. IsFiniteSet(UpTo(x)) /\ x \in UpTo(x) /\ Place(x) \in Nat
      BY <1>0, <1>4, PlacesCount
    <2>2. Place(x)' = Place(x) /\ Place(x) # 0
      BY <1>0, <2>1, FS_EmptySet DEF Place, UpTo
    <2>3. Given' = 0 /\ L!Size' \in Int
      <3>1. pager'.limit \in Nat /\ Most \in Nat
        BY <1>1, SizesOfLists
      <3>2. L!Size' \in Int
        BY <3>1 DEF L!Size
      <3> QED BY <1>2, <3>2 DEF Given
    <2>4. 0 * L!Size' = 0
      <3>1. \A a \in Int : 0 * a = 0
        OBVIOUS
      <3> QED BY <2>3, <3>1
    <2> QED BY <1>2, <2>1, <2>2, <2>3, <2>4 DEF Ahead
  <1> QED BY <1>2, <1>3, <1>4 DEF LInv

(* No client asks for a page beyond the first one that may be empty.       *)
LEMMA NextPageKeeps ==
  ASSUME LInv, L!NextPage
  PROVE  LInv'
  <1>0. L!Here' = L!Here /\ ListShape /\ UNCHANGED <<list, key>> /\ L!Reads /\ pager \in Pagers
        /\ pager.todo = {}
    BY DEF L!Here, L!Present, LInv, ListShape, L!NextPage, L!Answered
  <1>1. CASE L!Ends
    <2>1. pager' = L!Over /\ L!Over.page = 0
      BY <1>1 DEF L!NextPage, L!Over
    <2>2. ~L!Reads'
      BY <2>1 DEF L!Reads
    <2> QED BY <1>0, <2>1, <2>2 DEF LInv, ListShape
  <1>2. CASE ~L!Ends
    <2> DEFINE n == pager.page + 1
    <2>1. L!Size \in Nat \ {0} /\ L!Told \in Nat \ {0} /\ L!Size <= L!Told
          /\ pager.page \in Nat \ {0} /\ pager.total \in 0..Cardinality(Listed)
      BY <1>0, SizeOfPage, PagerWritten
    <2>2. pager.page * L!Told < pager.total
      <3>1. pager.page * L!Told \in Nat /\ pager.total \in Nat
        BY <2>1, SizesOfLists
      <3>2. ~(pager.page * L!Told >= pager.total)
        BY <1>0, <1>2 DEF L!Ends, L!Answered
      <3> QED BY <3>1, <3>2
    <2>3. pager' = [page |-> n, limit |-> pager.limit, todo |-> {"count", "rows"},
                    total |-> pager.total, shown |-> pager.shown, stayed |-> pager.stayed,
                    excused |-> pager.excused, other |-> pager.other, changes |-> pager.changes]
      <3>1. pager' = [pager EXCEPT !.page = @ + 1, !.todo = {"count", "rows"}]
        BY <1>2 DEF L!NextPage
      <3> QED BY <1>0, <3>1, PagerWritten
    <2>4. n \in 1..(Cardinality(Listed) + 1) /\ n \in Nat \ {0}
      <3>1. pager.page * L!Told >= pager.page
        <4>1. \A a \in Nat, b \in Nat \ {0} : a * b >= a
          OBVIOUS
        <4> QED BY <2>1, <4>1
      <3>2. pager.page * L!Told \in Nat
        BY <2>1
      <3> QED BY <2>1, <2>2, <3>1, <3>2, SizesOfLists
    <2> HIDE DEF n
    <2>5. /\ pager' \in Pagers /\ pager'.page = n /\ pager'.limit = pager.limit
          /\ pager'.todo = {"count", "rows"} /\ pager'.shown = pager.shown
          /\ pager'.stayed = pager.stayed /\ pager'.excused = pager.excused
          /\ pager'.other = pager.other /\ pager'.changes = pager.changes
      BY <1>0, <2>3, <2>4, PagerWritten DEF Pagers
    <2>6. ListShape'
      BY <1>0, <2>4, <2>5 DEF ListShape
    <2>7. ASSUME Honest', NEW x \in pager.stayed \ pager.shown, x \notin pager.excused, Alone(x)'
          PROVE  Ahead(x)'
      <3>1. Honest /\ L!Size' = L!Size
        BY <1>0, <2>5, <2>7 DEF Honest, L!Size, L!Told
      <3>2. Alone(x) /\ Place(x)' = Place(x)
        BY <1>0, <2>7 DEF Alone, Place, UpTo
      <3>3. Ahead(x)
        BY <1>0, <2>7, <3>1, <3>2 DEF LInv
      <3>4. Given = pager.page /\ Given' = pager.page
        BY <1>0, <2>1, <2>5 DEF Given, n
      <3> QED BY <2>5, <3>1, <3>2, <3>3, <3>4 DEF Ahead
    <2> QED BY <2>5, <2>6, <2>7 DEF LInv
  <1> QED BY <1>1, <1>2

(* Of a page that is not what the table holds nothing is said.             *)
LEMMA AnswerInsteadKeeps ==
  ASSUME LInv, L!AnswerInstead
  PROVE  LInv'
  <1>0. L!Here' = L!Here /\ ListShape /\ UNCHANGED <<list, key>> /\ L!Reads /\ pager \in Pagers
        /\ list.instead # "nothing"
    BY DEF L!Here, L!Present, LInv, ListShape, L!AnswerInstead
  <1>1. PICK n \in 0..Cardinality(Listed) :
          pager' = [pager EXCEPT !.todo = {}, !.total = n, !.other = TRUE]
    <2>1. {0} \subseteq 0..Cardinality(Listed)
      BY SizesOfLists
    <2> QED BY <2>1, CardinalityOfLists DEF L!AnswerInstead
  <1>2. pager' = [page |-> pager.page, limit |-> pager.limit, todo |-> {}, total |-> n,
                  shown |-> pager.shown, stayed |-> pager.stayed, excused |-> pager.excused,
                  other |-> TRUE, changes |-> pager.changes]
    BY <1>0, <1>1, PagerWritten
  <1>3. /\ pager' \in Pagers /\ pager'.page = pager.page /\ pager'.stayed = pager.stayed
        /\ pager'.other /\ pager'.changes = pager.changes
    BY <1>0, <1>2, PagerWritten DEF Pagers
  <1>4. ListShape'
    BY <1>0, <1>3 DEF ListShape
  <1> QED BY <1>3, <1>4 DEF LInv, Honest

LEMMA CountKeeps ==
  ASSUME LInv, L!Count
  PROVE  LInv'
  <1> DEFINE n == Cardinality(L!Here)
  <1>0. L!Here' = L!Here /\ ListShape /\ L!Reads /\ pager \in Pagers /\ UNCHANGED <<list, key>>
        /\ "count" \in pager.todo
    BY DEF L!Here, L!Present, LInv, ListShape, L!Count
  <1>1. n \in 0..Cardinality(Listed)
    <2>1. L!Here \in SUBSET Listed
      BY DEF L!Here
    <2> QED BY <2>1, SizesOfLists, FS_Subset, FS_CardinalityType
  <1>2. pager' = [page |-> pager.page, limit |-> pager.limit, todo |-> pager.todo \ {"count"},
                  total |-> n, shown |-> pager.shown, stayed |-> pager.stayed,
                  excused |-> pager.excused, other |-> pager.other, changes |-> pager.changes]
    <2>1. pager' = [pager EXCEPT !.todo = @ \ {"count"}, !.total = n]
      BY CardinalityOfLists DEF L!Count
    <2> HIDE DEF n
    <2> QED BY <1>0, <2>1, PagerWritten
  <1> HIDE DEF n
  <1>3. /\ pager' \in Pagers /\ pager'.page = pager.page /\ pager'.limit = pager.limit
        /\ pager'.todo = pager.todo \ {"count"} /\ pager'.total = n /\ pager'.shown = pager.shown
        /\ pager'.stayed = pager.stayed /\ pager'.excused = pager.excused
        /\ pager'.other = pager.other /\ pager'.changes = pager.changes
    BY <1>0, <1>1, <1>2, PagerWritten DEF Pagers
  <1>4. ListShape'
    BY <1>0, <1>3 DEF ListShape
  <1>5. ASSUME Honest', NEW x \in pager.stayed \ pager.shown, x \notin pager.excused, Alone(x)'
        PROVE  Ahead(x)'
    <2>0. Honest /\ L!Size' = L!Size /\ L!Size \in Nat
      BY <1>0, <1>3, <1>5, SizeOfPage DEF Honest, L!Size, L!Told
    <2>1. Alone(x) /\ Place(x)' = Place(x) /\ x \in L!Here
      BY <1>0, <1>5 DEF Alone, Place, UpTo, ListShape
    <2>2. Ahead(x)
      BY <1>0, <1>5, <2>0, <2>1 DEF LInv
    <2>3. Place(x) \in Nat /\ Place(x) <= n /\ n \in Nat
      BY <1>0, <1>1, <2>1, PlacesCount DEF n
    <2>4. Given' = Given /\ Given * L!Size < Place(x) /\ Given * L!Size \in Int
          /\ (pager'.todo = {} => Given = pager.page)
      BY <1>0, <1>3, <2>0, <2>2 DEF Given, Ahead, Pagers
    <2> QED BY <1>3, <2>0, <2>1, <2>3, <2>4 DEF Ahead
  <1> QED BY <1>3, <1>4, <1>5 DEF LInv

LEMMA FindManyKeeps ==
  ASSUME LInv, L!FindMany
  PROVE  LInv'
  <1>0. L!Here' = L!Here /\ ListShape /\ L!Reads /\ pager \in Pagers /\ UNCHANGED <<list, key>>
        /\ "rows" \in pager.todo
    BY DEF L!Here, L!Present, LInv, ListShape, L!FindMany
  <1>1. PICK s \in L!SetToSeqs(L!Here) :
          /\ L!Sorted(s)
          /\ pager' = [pager EXCEPT !.todo = @ \ {"rows"}, !.shown = @ \cup L!Page(s, pager.page)]
    BY DEF L!FindMany
  <1> DEFINE rows == L!Page(s, pager.page)
  <1>2. rows \in SUBSET Listed
    BY DEF L!Page, L!SetToSeqs, L!Here
  <1>a. L!Size \in Nat \ {0} /\ pager.page \in Nat \ {0}
    BY <1>0, SizeOfPage, PagerWritten
  <1>3. \A x \in L!Here : Alone(x) /\ (pager.page - 1) * L!Size < Place(x) /\ x \notin rows =>
          (pager.page - 1) * L!Size + L!Size < Place(x)
    <2> SUFFICES ASSUME NEW x \in L!Here, Alone(x), (pager.page - 1) * L!Size < Place(x), x \notin rows
                 PROVE  (pager.page - 1) * L!Size + L!Size < Place(x)
      OBVIOUS
    <2>1. Place(x) \in DOMAIN s /\ s[Place(x)] = x /\ Place(x) \in Nat
      BY <1>0, <1>1, PlaceIsNumber, PlacesCount
    <2>2. ~(L!Skip(pager.page) < Place(x) /\ Place(x) <= L!Skip(pager.page) + L!Size)
      BY <2>1 DEF L!Page
    <2>3. (pager.page - 1) * L!Size \in Int
      BY <1>a
    <2> QED BY <1>a, <2>1, <2>2, <2>3 DEF L!Skip
  <1>b. pager' = [pager EXCEPT !.todo = @ \ {"rows"}, !.shown = @ \cup rows]
    BY <1>1
  <1> HIDE DEF rows
  <1>4. pager' = [page |-> pager.page, limit |-> pager.limit, todo |-> pager.todo \ {"rows"},
                  total |-> pager.total, shown |-> pager.shown \cup rows, stayed |-> pager.stayed,
                  excused |-> pager.excused, other |-> pager.other, changes |-> pager.changes]
    BY <1>0, <1>b, PagerWritten
  <1>5. /\ pager' \in Pagers /\ pager'.page = pager.page /\ pager'.limit = pager.limit
        /\ pager'.todo = pager.todo \ {"rows"} /\ pager'.total = pager.total
        /\ pager'.shown = pager.shown \cup rows /\ pager'.stayed = pager.stayed
        /\ pager'.excused = pager.excused /\ pager'.other = pager.other
        /\ pager'.changes = pager.changes
    BY <1>0, <1>2, <1>4, PagerWritten DEF Pagers
  <1>7. ListShape'
    BY <1>0, <1>5 DEF ListShape
  <1>8. ASSUME Honest', NEW x \in pager.stayed \ (pager.shown \cup rows), x \notin pager.excused,
               Alone(x)'
        PROVE  Ahead(x)'
    <2>0. Honest /\ L!Size' = L!Size
      BY <1>0, <1>5, <1>8 DEF Honest, L!Size, L!Told
    <2>1. Alone(x) /\ Place(x)' = Place(x) /\ x \in L!Here
      BY <1>0, <1>8 DEF Alone, Place, UpTo, ListShape
    <2>2. Ahead(x)
      BY <1>0, <1>8, <2>0, <2>1 DEF LInv
    <2>3. Place(x) \in Nat /\ pager.total \in Nat
      BY <1>0, <2>1, PlacesCount, SizesOfLists DEF Pagers
    <2>4. (pager.page - 1) * L!Size + L!Size < Place(x)
      BY <1>0, <1>3, <1>8, <2>1, <2>2 DEF Ahead, Given
    <2>5. (pager.page - 1) * L!Size + L!Size = pager.page * L!Size
      <3>1. \A a, b \in Nat \ {0} : (a - 1) * b + b = a * b
        OBVIOUS
      <3> QED BY <1>a, <3>1
    <2>6. pager.page * L!Size < Place(x) /\ Given' = pager.page
      BY <1>5, <2>4, <2>5 DEF Given
    <2>7. pager'.todo # {"rows"}
      BY <1>5
    <2>8. pager'.todo = {} => Place(x) <= pager.total
      <3>1. pager'.todo = {} => pager.todo = {"rows"}
        BY <1>0, <1>5
      <3> QED BY <2>2, <3>1 DEF Ahead
    <2>9. pager'.todo = {} => pager.page * L!Size < pager.total
      <3>1. pager.page * L!Size \in Int
        BY <1>a
      <3> QED BY <2>3, <2>6, <2>8, <3>1
    <2> QED BY <1>5, <2>0, <2>1, <2>6, <2>7, <2>9 DEF Ahead
  <1> QED BY <1>5, <1>7, <1>8 DEF LInv

LEMMA ListStepKeeps ==
  ASSUME LInv, [L!Next]_listings
  PROVE  LInv'
  <1>1. CASE UNCHANGED listings
    <2>1. \A x : Alone(x)' <=> Alone(x) /\ (Ahead(x)' <=> Ahead(x))
      BY <1>1 DEF listings, Alone, Ahead, Place, UpTo, Given, L!Here, L!Present, L!Size
    <2>2. (Honest' <=> Honest) /\ (L!Reads' <=> L!Reads)
      BY <1>1 DEF listings, Honest, L!Size, L!Told, L!Reads
    <2>3. ListShape'
      BY <1>1 DEF listings, LInv, ListShape, L!Here, L!Present, L!Reads
    <2>4. pager' = pager
      BY <1>1 DEF listings
    <2> QED BY <2>1, <2>2, <2>3, <2>4 DEF LInv
  <1> QED BY <1>1, ListStartKeeps, NextPageKeeps, AnswerInsteadKeeps, CountKeeps, FindManyKeeps,
             ChangesKeep DEF L!Next

LEMMA LInvHolds == Spec => []LInv
  <1>1. Init => LInv
    <2> SUFFICES ASSUME L!Init PROVE LInv
      BY DEF Init
    <2>1. ~L!Reads
      BY DEF L!Init, L!Idle, L!Reads
    <2> QED BY <2>1 DEF L!Init, LInv, ListShape
  <1>2. LInv /\ [Next]_vars => LInv'
    BY StepOfEach, ListStepKeeps
  <1> QED BY <1>1, <1>2, PTL DEF Spec

LEMMA ListsTyped == LInv => L!TypeOK
  BY SizesOfLists DEF LInv, ListShape, L!TypeOK, Pagers, L!Cardinality, Cardinality

(* A pager that ends without a row that was there all the time was misled  *)
(* by a change named, by a tie, by a page that is not what the table       *)
(* holds, or by pages smaller than it is told, whatever the rows, their    *)
(* order and the limits.                                                   *)
THEOREM PagesReasoned == Spec => PagesMissForReason
  <1> DEFINE Step ==
        L!Ends /\ pager'.page = 0 =>
          \A x \in pager.stayed \ pager.shown :
            \/ x \in pager.excused \/ \E y \in Listed \ {x} : key[y] = key[x]
            \/ pager.other \/ L!Told > L!Size
  <1>1. LInv => Step
    <2> SUFFICES ASSUME LInv, L!Ends, NEW x \in pager.stayed \ pager.shown,
                        x \notin pager.excused, Alone(x), Honest
                 PROVE  FALSE
      BY DEF Alone, Honest
    <2>1. pager \in Pagers /\ L!Reads /\ pager.todo = {} /\ pager.page * L!Told >= pager.total
      BY DEF LInv, ListShape, L!Ends, L!Answered
    <2>2. L!Size \in Nat /\ L!Told = L!Size /\ pager.page \in Nat /\ pager.total \in Nat
      <3>1. L!Size \in Nat /\ L!Told \in Nat /\ L!Size <= L!Told
        BY <2>1, SizeOfPage
      <3> QED BY <2>1, <3>1, PagerWritten, SizesOfLists DEF Honest
    <2>3. Ahead(x)
      BY <2>1 DEF LInv
    <2>4. pager.page * L!Size \in Nat
      BY <2>2
    <2>5. pager.page * L!Size < pager.total /\ pager.page * L!Size >= pager.total
      BY <2>1, <2>2, <2>3 DEF Ahead
    <2> QED BY <2>2, <2>4, <2>5
  <1>2. [][Step]_listings => PagesMissForReason
    BY DEF PagesMissForReason, L!PagesMissForReason, listings, L!vars
  <1> HIDE DEF Step
  <1> QED BY <1>1, <1>2, LInvHolds, PTL

-----------------------------------------------------------------------------
(* What the exports hold is typed.                                         *)
(* The clock runs no further than its bound, and a name is of a time that  *)
(* has come.                                                               *)
Timed ==
  /\ now \in 0..MaxTime /\ DOMAIN file \subseteq X!Names
  /\ \A r \in Requests : export[r] \in Called => export[r].time \in 0..now

LEMMA AskedOrCalled ==
  ASSUME ExportShape, NEW r \in Requests
  PROVE  /\ export[r] \in Called <=> X!Named(r)
         /\ export[r].pc \in {"idle", "query", "refused"} => export[r] \notin Called
  BY DEF ExportShape, X!Named, NotBegun, Asked, Called

LEMMA NamesOfTime ==
  ASSUME Timed, NEW r \in Requests, export[r] \in Called
  PROVE  X!Name(r) \in X!Names /\ X!Name(r)[3] = export[r].time /\ X!Name(r)[1] = export[r].type
  BY ExportsAssumption DEF Timed, Called, X!Name, X!Names

LEMMA TimedKeeps ==
  ASSUME EInv, EInv', Timed, [X!Next]_exports
  PROVE  Timed'
  <1>0. ExportShape /\ ExportShape' /\ now \in Nat /\ MaxTime \in Nat
    BY ExportsAssumption DEF EInv, ExportShape
  <1>1. CASE X!Tick \/ UNCHANGED exports
    BY <1>0, <1>1 DEF X!Tick, exports, Timed, ExportShape
  <1>2. ASSUME NEW r \in Requests, NEW q, export' = [export EXCEPT ![r] = q],
               q.pc \in {"query", "refused"} \/ q.time = now, UNCHANGED <<now, file>>
        PROVE  Timed'
    <2>1. export'[r] = q /\ \A s \in Requests \ {r} : export'[s] = export[s]
      BY <1>0, <1>2 DEF ExportShape
    <2>2. q \in Called => q.time = now
      BY <1>2 DEF Called
    <2> QED BY <1>0, <1>2, <2>1, <2>2 DEF Timed
  <1>3. ASSUME NEW r \in Requests,
               \/ \E type \in X!Types, format \in X!Formats :
                    X!ExportReport(r, type, format) \/ X!ExportComparison(r, type, format)
               \/ \E code \in Codes \cup {NoCode} : X!NameReport(r, code)
               \/ X!NameComparison(r)
        PROVE  Timed'
    BY <1>2, <1>3 DEF X!ExportReport, X!ExportComparison, X!NameReport, X!NameComparison
  <1>4. ASSUME NEW r \in Requests, X!QueryFails(r)
        PROVE  Timed'
    <2> DEFINE q == [export[r] EXCEPT !.pc = "refused"]
    <2>1. export' = [export EXCEPT ![r] = q] /\ UNCHANGED <<now, file>> /\ export[r] \in Asked
      BY <1>0, <1>4, CalledByState DEF X!QueryFails, X!Move
    <2>2. q.pc = "refused"
      BY <2>1 DEF Asked
    <2> HIDE DEF q
    <2> QED BY <1>2, <2>1, <2>2
  <1>5. ASSUME NEW r \in Requests, X!Open(r) \/ X!Fill(r) \/ X!FillComparison(r) \/ X!WriteFails(r)
        PROVE  Timed'
    <2>1. export[r] \in Called /\ now' = now
      BY <1>0, <1>5, CalledByState DEF X!Open, X!Fill, X!FillComparison, X!WriteFails
    <2>2. PICK state \in {"open", "fill", "answered", "failed", "lost"} : X!Move(r, state)
      BY <1>5 DEF X!Open, X!Fill, X!FillComparison, X!WriteFails
    <2>3. X!Name(r)' = X!Name(r) /\ \A s \in Requests \ {r} : export'[s] = export[s]
      BY <1>0, <2>1, <2>2, MoveCalled
    <2>4. export'[r].time = export[r].time
      BY <2>3 DEF X!Name
    <2>5. DOMAIN file' \subseteq DOMAIN file \cup {X!Name(r)}
      BY <1>5 DEF X!Open, X!Fill, X!FillComparison, X!WriteFails
    <2>6. X!Name(r) \in X!Names
      BY <2>1, NamesOfTime
    <2> QED BY <2>1, <2>3, <2>4, <2>5, <2>6 DEF Timed
  <1>6. ASSUME NEW r \in Requests, X!StreamFails(r)
        PROVE  Timed'
    <2>1. ASSUME NEW s \in Requests, export'[s] \in Called
          PROVE  export[s] \in Called /\ export'[s].time = export[s].time
      <3>1. \/ export'[s] = export[s]
            \/ (export[s].pc # "idle" /\ export'[s] = [export[s] EXCEPT !.pc = "lost"])
        BY <1>6 DEF X!StreamFails
      <3>2. export[s] \in NotBegun \cup Asked \cup Called
        BY <1>0 DEF ExportShape
      <3>3. CASE export[s] \in Asked /\ export'[s] = [export[s] EXCEPT !.pc = "lost"]
        <4>1. "code" \notin DOMAIN export'[s]
          BY <3>3 DEF Asked
        <4>2. "code" \in DOMAIN export'[s]
          BY <2>1 DEF Called
        <4> QED BY <4>1, <4>2
      <3>4. CASE export[s] \in Called
        BY <3>1, <3>4 DEF Called
      <3>5. CASE export[s] \in NotBegun
        <4>1. export'[s] = export[s]
          BY <3>1, <3>5 DEF NotBegun
        <4> QED BY <2>1, <4>1
      <3> QED BY <2>1, <3>1, <3>2, <3>3, <3>4, <3>5
    <2>2. UNCHANGED <<now, file>>
      BY <1>6 DEF X!StreamFails
    <2> QED BY <2>1, <2>2 DEF Timed
  <1> QED BY <1>1, <1>3, <1>4, <1>5, <1>6 DEF X!Next

LEMMA TimedHolds == Spec => []Timed
  <1>1. Init => Timed
    BY ExportsAssumption DEF Init, X!Init, Timed, Called
  <1>2. EInv /\ EInv' /\ Timed /\ [Next]_vars => Timed'
    BY StepOfEach, TimedKeeps
  <1> QED BY <1>1, <1>2, EInvHolds, PTL DEF Spec

LEMMA ExportsTyped ==
  ASSUME EInv, Timed
  PROVE  X!TypeOK
  <1>1. \A n \in DOMAIN file : n \in X!Names /\ file[n] \subseteq Requests
    BY DEF EInv, OwnNames, Timed
  <1>2. ASSUME NEW r \in Requests
        PROVE  /\ export[r].pc \in {"idle", "query", "open", "fill", "answered", "failed", "refused", "lost"}
               /\ X!Named(r) => export[r].time \in 0..now /\ export[r].type \in X!Types
    <2>1. export[r].pc \in {"idle", "query", "open", "fill", "answered", "failed", "refused", "lost"}
      BY DEF EInv, ExportShape, NotBegun, Asked, Called
    <2>2. X!Named(r) => export[r] \in Called
      BY AskedOrCalled DEF EInv
    <2> QED BY <2>1, <2>2 DEF Timed, Called
  <1>3. ASSUME NEW r \in Requests, X!At(r, "fill")
        PROVE  \E n \in DOMAIN file : n[1] = export[r].type
    BY <1>3, CalledByState, NamesOfTime DEF EInv, Filed
  <1> QED BY <1>1, <1>2, <1>3 DEF X!TypeOK, Timed

-----------------------------------------------------------------------------
(* What the database holds about the permission, the role and the user.    *)
DbRows == [active : P!Values, granted : BOOLEAN, role : P!Values, has : BOOLEAN]
DbSound(d) ==
  /\ d \in DbRows
  /\ d.granted => P!There(d.active) /\ P!There(d.role)
  /\ d.has => P!There(d.role)
AnswersTyped ==
  /\ watched \in P!Answers /\ DbSound(db) /\ writes \in 0..MaxWrites
  /\ kept = Missing \/ kept \in P!Entry
  /\ reader = [q \in Readers |-> reader[q]]
  /\ \A q \in Readers : reader[q].pc = "set" => reader[q].value \in P!Values

LEMMA Flips ==
  /\ \A v \in P!Values : P!There(v) => (~v) \in P!Values /\ P!There(~v)
  /\ P!There(TRUE) /\ P!There(FALSE) /\ TRUE \in P!Values /\ FALSE \in P!Values /\ Gone \in P!Values
  <1>1. \A b \in BOOLEAN : b \in P!Values /\ P!There(b)
    <2>1. \A b \in BOOLEAN : b \notin {Unborn, Gone}
      BY PermissionsAssumption, Zenon
    <2> QED BY <2>1, Zenon DEF P!Values, P!There
  <1>2. TRUE \in BOOLEAN /\ FALSE \in BOOLEAN
    OBVIOUS
  <1>5. \A b \in BOOLEAN : (~b) \in BOOLEAN
    BY SMT
  <1>3. \A v \in P!Values : P!There(v) => v \in BOOLEAN
    BY Zenon DEF P!Values, P!There
  <1>4. Gone \in P!Values
    BY Zenon DEF P!Values
  <1>6. ASSUME NEW v \in P!Values, P!There(v)
        PROVE  (~v) \in P!Values /\ P!There(~v)
    <2>1. (~v) \in BOOLEAN
      BY <1>3, <1>5, <1>6, Zenon
    <2> DEFINE w == ~v
    <2> HIDE DEF w
    <2>2. w \in P!Values /\ P!There(w)
      BY <1>1, <2>1, Zenon DEF w
    <2> QED BY <2>2 DEF w
  <1>7. P!There(TRUE) /\ P!There(FALSE) /\ TRUE \in P!Values /\ FALSE \in P!Values
    BY <1>1, <1>2, Zenon
  <1> QED BY <1>4, <1>6, <1>7, Zenon

LEMMA OutcomesSound ==
  ASSUME DbSound(db), NEW kind \in DOMAIN P!Clears, NEW d \in P!Outcomes(kind)
  PROVE  DbSound(d)
  <1>0. /\ db = [active |-> db.active, granted |-> db.granted, role |-> db.role, has |-> db.has]
        /\ db.active \in P!Values /\ db.role \in P!Values /\ db.granted \in BOOLEAN /\ db.has \in BOOLEAN
        /\ db.granted => P!There(db.active) /\ P!There(db.role)
        /\ db.has => P!There(db.role)
    BY DEF DbSound, DbRows
  <1>1. CASE kind = "createPermission"
    <2>1. db.active = Unborn /\ \E a \in BOOLEAN : d = [db EXCEPT !.active = a]
      BY <1>1 DEF P!Outcomes
    <2>2. PICK a \in BOOLEAN :
            d = [active |-> a, granted |-> db.granted, role |-> db.role, has |-> db.has]
      BY <1>0, <2>1
    <2>3. ~db.granted
      BY <1>0, <2>1 DEF P!There
    <2> QED BY <1>0, <2>2, <2>3, Flips DEF DbSound, DbRows
  <1>2. CASE kind = "updatePermission"
    <2>1. P!There(db.active) /\ d = [db EXCEPT !.active = ~@]
      BY <1>2 DEF P!Outcomes
    <2>2. d = [active |-> ~db.active, granted |-> db.granted, role |-> db.role, has |-> db.has]
      BY <1>0, <2>1
    <2> QED BY <1>0, <2>1, <2>2, Flips DEF DbSound, DbRows
  <1>3. CASE kind = "deletePermission"
    <2>1. d = [db EXCEPT !.active = Gone, !.granted = FALSE]
      BY <1>3 DEF P!Outcomes
    <2>2. d = [active |-> Gone, granted |-> FALSE, role |-> db.role, has |-> db.has]
      BY <1>0, <2>1
    <2> QED BY <1>0, <2>2, Flips DEF DbSound, DbRows
  <1>4. CASE kind = "assignPermissionsToRole"
    <2>1. P!There(db.active) /\ P!There(db.role) /\ d = [db EXCEPT !.granted = TRUE]
      BY <1>4 DEF P!Outcomes
    <2>2. d = [active |-> db.active, granted |-> TRUE, role |-> db.role, has |-> db.has]
      BY <1>0, <2>1
    <2> QED BY <1>0, <2>1, <2>2 DEF DbSound, DbRows
  <1>5. CASE kind = "removePermissionsFromRole"
    <2>1. d = [db EXCEPT !.granted = FALSE]
      BY <1>5 DEF P!Outcomes
    <2>2. d = [active |-> db.active, granted |-> FALSE, role |-> db.role, has |-> db.has]
      BY <1>0, <2>1
    <2> QED BY <1>0, <2>2 DEF DbSound, DbRows
  <1>6. CASE kind \in {"createRole", "updateRole"}
    <2>1. \/ db.role = Unborn /\ d = [db EXCEPT !.role = TRUE]
          \/ P!There(db.role) /\ d = [db EXCEPT !.role = ~@]
      BY <1>6 DEF P!Outcomes
    <2>2. \/ db.role = Unborn
             /\ d = [active |-> db.active, granted |-> db.granted, role |-> TRUE, has |-> db.has]
          \/ P!There(db.role)
             /\ d = [active |-> db.active, granted |-> db.granted, role |-> ~db.role, has |-> db.has]
      BY <1>0, <2>1
    <2> DEFINE v == IF db.role = Unborn THEN TRUE ELSE ~db.role
    <2>3. v \in P!Values /\ P!There(v) /\ (db.has => P!There(v)) /\ (db.granted => P!There(db.active))
      <3>1. CASE db.role = Unborn
        BY <1>0, <3>1, Flips
      <3>2. CASE db.role # Unborn
        BY <1>0, <2>1, <3>2, Flips
      <3> QED BY <3>1, <3>2
    <2>4. d = [active |-> db.active, granted |-> db.granted, role |-> v, has |-> db.has]
      <3>1. P!There(db.role) => db.role # Unborn
        BY DEF P!There
      <3> QED BY <2>2, <3>1
    <2> HIDE DEF v
    <2> QED BY <1>0, <2>3, <2>4 DEF DbSound, DbRows
  <1>7. CASE kind = "deleteRole"
    <2>1. d = [db EXCEPT !.role = Gone, !.granted = FALSE, !.has = FALSE]
      BY <1>7 DEF P!Outcomes
    <2>2. d = [active |-> db.active, granted |-> FALSE, role |-> Gone, has |-> FALSE]
      BY <1>0, <2>1
    <2> QED BY <1>0, <2>2, Flips DEF DbSound, DbRows
  <1>8. CASE kind \in {"assignRole", "removeRole"}
    <2>1. \/ P!There(db.role) /\ d = [db EXCEPT !.has = TRUE]
          \/ d = [db EXCEPT !.has = FALSE]
      BY <1>8 DEF P!Outcomes
    <2>2. \/ P!There(db.role)
             /\ d = [active |-> db.active, granted |-> db.granted, role |-> db.role, has |-> TRUE]
          \/ d = [active |-> db.active, granted |-> db.granted, role |-> db.role, has |-> FALSE]
      BY <1>0, <2>1
    <2>3. CASE P!There(db.role)
               /\ d = [active |-> db.active, granted |-> db.granted, role |-> db.role, has |-> TRUE]
      BY <1>0, <2>3 DEF DbSound, DbRows
    <2>4. CASE d = [active |-> db.active, granted |-> db.granted, role |-> db.role, has |-> FALSE]
      BY <1>0, <2>4 DEF DbSound, DbRows
    <2> QED BY <2>2, <2>3, <2>4
  <1> QED BY <1>1, <1>2, <1>3, <1>4, <1>5, <1>6, <1>7, <1>8 DEF P!Clears

LEMMA TruthTyped ==
  ASSUME AnswersTyped
  PROVE  P!Truth \in P!Values /\ P!GetPermissionsByRoles(TRUE) \in P!Values
  <1>1. db.active \in P!Values /\ db.role \in P!Values /\ Gone \in P!Values
    BY Flips DEF AnswersTyped, DbSound, DbRows
  <1>2. \A has : P!GetPermissionsByRoles(has) \in P!Values
    <2>1. \A has : P!GetPermissionsByRoles(has) \in BOOLEAN
      BY DEF P!GetPermissionsByRoles
    <2> QED BY <2>1 DEF P!Values
  <1>3. watched \in {"list", "role", "user", "roles"}
    BY DEF AnswersTyped, P!Answers
  <1> QED BY <1>1, <1>2, <1>3 DEF P!Truth

LEMMA AnswersKeep ==
  ASSUME AnswersTyped, [P!Next]_permissions
  PROVE  AnswersTyped'
  <1>1. ASSUME NEW q \in Readers, NEW new, reader' = [reader EXCEPT ![q] = new],
               new.pc = "set" => new.value \in P!Values,
               kept' = Missing \/ kept' \in P!Entry, UNCHANGED <<watched, db, writes>>
        PROVE  AnswersTyped'
    <2>1. reader' = [p \in Readers |-> reader'[p]]
          /\ \A p \in Readers : reader'[p] = IF p = q THEN new ELSE reader[p]
      BY <1>1 DEF AnswersTyped
    <2> QED BY <1>1, <2>1 DEF AnswersTyped
  <1>2. ASSUME NEW q \in Readers,
               P!GetMiss(q) \/ P!GetUserRoles(q) \/ P!GetPermissions(q) \/ P!Query(q)
        PROVE  AnswersTyped'
    <2>1. FALSE \in P!Values
      BY Flips
    <2>2. UNCHANGED <<watched, db, writes, kept>> /\ (kept = Missing \/ kept \in P!Entry)
      BY <1>2 DEF AnswersTyped, P!GetMiss, P!GetUserRoles, P!GetPermissions, P!Query
    <2>3. CASE P!GetMiss(q)
      BY <1>1, <2>2, <2>3 DEF P!GetMiss
    <2>4. CASE P!GetUserRoles(q)
      BY <1>1, <2>1, <2>2, <2>4 DEF P!GetUserRoles
    <2>5. CASE P!GetPermissions(q)
      BY <1>1, <2>2, <2>5, TruthTyped DEF P!GetPermissions
    <2>6. CASE P!Query(q)
      BY <1>1, <2>2, <2>6, TruthTyped DEF P!Query
    <2> QED BY <1>2, <2>3, <2>4, <2>5, <2>6
  <1>3. ASSUME NEW q \in Readers, P!Set(q)
        PROVE  AnswersTyped'
    <2>1. reader[q].value \in P!Values /\ (kept = Missing \/ kept \in P!Entry)
      BY <1>3 DEF AnswersTyped, P!Set
    <2>2. [value |-> reader[q].value, excused |-> reader[q].value # P!Truth] \in P!Entry
      BY <2>1 DEF P!Entry
    <2>3. kept' = Missing \/ kept' \in P!Entry
      BY <1>3, <2>1, <2>2 DEF P!Set
    <2> QED BY <1>1, <1>3, <2>3 DEF P!Set
  <1>4. kept \in P!Entry => [kept EXCEPT !.excused = TRUE] \in P!Entry
    BY DEF P!Entry
  <1>5. ASSUME NEW c \in Writers, NEW kind \in DOMAIN P!Clears, P!Write(c, kind)
        PROVE  AnswersTyped'
    <2>1. DbSound(db')
      BY <1>5, OutcomesSound DEF P!Write, AnswersTyped
    <2>2. writes' \in 0..MaxWrites
      BY <1>5, PermissionsAssumption DEF P!Write, AnswersTyped
    <2>3. kept' = Missing \/ kept' \in P!Entry
      BY <1>4, <1>5 DEF P!Write, AnswersTyped
    <2>4. UNCHANGED <<watched, reader>>
      BY <1>5 DEF P!Write
    <2> QED BY <2>1, <2>2, <2>3, <2>4 DEF AnswersTyped, DbSound
  <1>6. ASSUME \/ P!Expire \/ UNCHANGED permissions
               \/ \E c \in Writers :
                    \/ \E kind \in DOMAIN P!Clears : P!CheckInUse(c, kind)
                    \/ P!WriteFails(c) \/ P!Keys(c) \/ P!Del(c) \/ P!ClearFails(c)
        PROVE  AnswersTyped'
    <2>1. UNCHANGED <<watched, db, reader, writes>> /\ (kept' = Missing \/ kept' \in P!Entry)
      BY <1>4, <1>6 DEF P!Expire, permissions, P!CheckInUse, P!WriteFails, P!Keys, P!Del,
                         P!ClearFails, AnswersTyped
    <2> QED BY <2>1 DEF AnswersTyped
  <1> QED BY <1>2, <1>3, <1>5, <1>6 DEF P!Next

LEMMA AnswersTypedHolds == Spec => []AnswersTyped
  <1>1. Init => AnswersTyped
    <2> SUFFICES ASSUME P!Init PROVE AnswersTyped
      BY DEF Init
    <2>1. DbSound(db)
      <3>1. Unborn \in P!Values /\ TRUE \in P!Values /\ P!There(TRUE)
        BY Flips DEF P!Values
      <3>2. \/ \E g, h \in BOOLEAN :
                 db = [active |-> TRUE, granted |-> g, role |-> TRUE, has |-> h]
            \/ db = [active |-> Unborn, granted |-> FALSE, role |-> Unborn, has |-> FALSE]
        BY DEF P!Init
      <3>3. ASSUME NEW g \in BOOLEAN, NEW h \in BOOLEAN,
                   db = [active |-> TRUE, granted |-> g, role |-> TRUE, has |-> h]
            PROVE  DbSound(db)
        <4>1. db \in DbRows
          BY <3>1, <3>3 DEF DbRows
        <4>2. P!There(db.active) /\ P!There(db.role)
          BY <3>1, <3>3
        <4> QED BY <4>1, <4>2 DEF DbSound
      <3>4. CASE db = [active |-> Unborn, granted |-> FALSE, role |-> Unborn, has |-> FALSE]
        <4>1. db \in DbRows
          BY <3>1, <3>4 DEF DbRows
        <4>2. db.granted = FALSE /\ db.has = FALSE
          BY <3>4
        <4> QED BY <4>1, <4>2 DEF DbSound
      <3> QED BY <3>2, <3>3, <3>4
    <2> QED BY <2>1, PermissionsAssumption DEF P!Init, AnswersTyped
  <1>2. AnswersTyped /\ [Next]_vars => AnswersTyped'
    BY StepOfEach, AnswersKeep
  <1> QED BY <1>1, <1>2, PTL DEF Spec

LEMMA PermissionsTyped ==
  ASSUME AnswersTyped
  PROVE  P!TypeOK
  <1>1. db.active \in P!Values /\ db.role \in P!Values /\ db.granted \in BOOLEAN /\ db.has \in BOOLEAN
    BY DEF AnswersTyped, DbSound, DbRows
  <1> QED BY <1>1 DEF AnswersTyped, DbSound, P!TypeOK, P!Values

(* Every component keeps its types, for every value of the constants.      *)
THEOREM BackOfficeTyped == Spec => []TypeOK
  <1>1. DInv /\ RatesInv /\ LInv /\ AnswersTyped /\ ReportsInv /\ EInv /\ Timed => TypeOK
    BY DepartmentsTyped, RatesTyped, ListsTyped, PermissionsTyped, ReportsTyped, ExportsTyped
       DEF TypeOK
  <1> QED BY <1>1, DInvHolds, RatesReasoned, LInvHolds, AnswersTypedHolds, ReportsReasoned,
             EInvHolds, TimedHolds, PTL

=============================================================================
