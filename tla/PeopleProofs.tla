----------------------------- MODULE PeopleProofs -----------------------------
(***************************************************************************)
(* Proofs about the components of People, for every value of their         *)
(* constants: of Sessions for any number of instances, tokens and          *)
(* requests, of Accounts for any number of requests, passwords and reset   *)
(* tokens, of Rights for any factories, lines, teams and groups and any    *)
(* number of changes while a question is answered.                         *)
(***************************************************************************)
EXTENDS People, Sequences, TLAPS

(* A step of the whole is a step of each component or leaves it alone.     *)
LEMMA StepOfEach ==
  ASSUME [PartsNext]_allVars
  PROVE  [Next]_sessions /\ [A!Next]_accounts /\ [R!Next]_rights
  BY DEF PartsNext, SessionsStep, AccountsStep, RightsStep, allVars

-----------------------------------------------------------------------------
(* Sessions.                                                               *)
(* What a request in flight knows: its token and its instance.             *)
LEMMA InFlightShape ==
  ASSUME TypeOK, NEW r \in Requests, req[r].pc # "idle"
  PROVE  /\ req[r] \in InFlight
         /\ req[r].server \in Servers /\ req[r].token \in Tokens
  <1>1. req[r] \in {Idle} \cup InFlight
    BY DEF TypeOK
  <1>2. req[r] # Idle
    BY DEF Idle
  <1> QED BY <1>1, <1>2 DEF InFlight

LEMMA InFlightInProceed ==
  ASSUME TypeOK, NEW r \in Requests, Proceed(r)
  PROVE  req[r] \in InFlight /\ req[r].server \in Servers /\ req[r].token \in Tokens
  <1>1. req[r].pc # "idle"
    BY DEF Proceed, RedisAnswers, RedisFails, KeepAnswer, Guard, NothingToRevoke, Logout,
           Refresh, Publish, GiveUp, At
  <1> QED BY <1>1, InFlightShape

(* Moving a request on, ending one and noting an answer keep the types.    *)
LEMMA GotoKeepsTypes ==
  ASSUME TypeOK, NEW r \in Requests, req[r] \in InFlight,
         NEW pc \in {"ask", "listed", "clear", "passed", "publish"}, Goto(r, pc)
  PROVE  req' \in [Requests -> {Idle} \cup InFlight]
  <1>1. [req[r] EXCEPT !.pc = pc] \in InFlight
    BY DEF InFlight
  <1> QED BY <1>1 DEF TypeOK, Goto

LEMMA FinishKeepsTypes ==
  ASSUME TypeOK, NEW r \in Requests, Finish(r)
  PROVE  req' \in [Requests -> {Idle} \cup InFlight]
  BY DEF TypeOK, Finish

(* A request that moves on keeps its token, which was issued.              *)
LEMMA TokensStayIssued ==
  ASSUME TypeOK, NEW r \in Requests, req[r] \in InFlight, NEW pc, Goto(r, pc) \/ Finish(r),
         \A t \in Tokens : life'[t] = life[t] \/ life'[t] = "valid"
  PROVE  \A q \in Requests : req'[q] # Idle => life'[req'[q].token] # "none"
  <1>1. req[r] # Idle
    BY DEF InFlight, Idle
  <1>2. \A q \in Requests : req[q] # Idle => req[q].token \in Tokens /\ life[req[q].token] # "none"
    BY DEF TypeOK, InFlight
  <1>3. \A q \in Requests : req'[q] # Idle => req[q] # Idle /\ req'[q].token = req[q].token
    BY <1>1 DEF TypeOK, Goto, Finish, InFlight
  <1> QED BY <1>2, <1>3

LEMMA NoteKeepsTypes ==
  ASSUME TypeOK, NEW s \in Servers, NEW t \in Tokens, NEW answer \in Answers,
         Note(s, t, answer)
  PROVE  local' \in [Servers -> [Tokens -> Answers]]
  BY DEF TypeOK, Note

(* What moving a request on and ending one do to the requests.             *)
LEMMA GotoShape ==
  ASSUME TypeOK, NEW r \in Requests, req[r] \in InFlight, NEW pc, Goto(r, pc)
  PROVE  /\ req'[r].pc = pc
         /\ req'[r].server = req[r].server /\ req'[r].token = req[r].token
         /\ \A q \in Requests \ {r} : req'[q] = req[q]
  BY DEF TypeOK, Goto, InFlight

LEMMA FinishShape ==
  ASSUME TypeOK, NEW r \in Requests, Finish(r)
  PROVE  /\ req'[r].pc = "idle"
         /\ \A q \in Requests \ {r} : req'[q] = req[q]
  BY DEF TypeOK, Finish, Idle

-----------------------------------------------------------------------------
(* The steps outside requests.                                             *)
LEMMA OutsideKeepsTypes ==
  ASSUME TypeOK,
         \/ \E t \in Tokens : Login(t) \/ Age(t) \/ Expire(t) \/ KeyExpires(t)
         \/ \E s \in Servers : Restart(s) \/ \E t \in Tokens : Forget(s, t)
  PROVE  TypeOK'
  <1>1. CASE \E t \in Tokens : Login(t)
    BY <1>1 DEF Login, TypeOK, Lives
  <1>2. CASE \E t \in Tokens : Age(t) \/ Expire(t) \/ KeyExpires(t)
    <2> PICK t \in Tokens : Age(t) \/ Expire(t) \/ KeyExpires(t)
      BY <1>2
    <2>1. /\ life' \in [Tokens -> Lives] /\ redis' \subseteq redis /\ UNCHANGED <<local, req>>
          /\ \A x \in Tokens : life[x] # "none" => life'[x] # "none"
      BY DEF Age, Expire, KeyExpires, TypeOK, Lives
    <2>2. \A q \in Requests : req[q] # Idle => req[q].token \in Tokens
      BY DEF TypeOK, InFlight
    <2> QED BY <2>1, <2>2 DEF TypeOK
  <1>3. CASE \E s \in Servers : Restart(s)
    <2> PICK s \in Servers : Restart(s)
      BY <1>3
    <2>1. local' \in [Servers -> [Tokens -> Answers]]
      BY DEF Restart, TypeOK, Answers
    <2>2. req' \in [Requests -> {Idle} \cup InFlight]
      BY DEF Restart, TypeOK
    <2>3. \A r \in Requests : req'[r] # Idle => req'[r] = req[r]
      BY DEF Restart, TypeOK
    <2> QED BY <2>1, <2>2, <2>3 DEF Restart, TypeOK
  <1>4. CASE \E s \in Servers, t \in Tokens : Forget(s, t)
    BY <1>4, NoteKeepsTypes DEF Forget, TypeOK, Answers
  <1> QED BY <1>1, <1>2, <1>3, <1>4

(* The steps of a request.  The token it revokes was issued, also when it  *)
(* has expired by the time the key is set.                                 *)
LEMMA ProceedKeepsTypes ==
  ASSUME TypeOK, NEW r \in Requests, Proceed(r)
  PROVE  TypeOK'
  <1>0. req[r] \in InFlight /\ req[r].server \in Servers /\ req[r].token \in Tokens
    BY InFlightInProceed
  <1>1. CASE RedisAnswers(r) \/ RedisFails(r)
    <2>1. req' \in [Requests -> {Idle} \cup InFlight]
      BY <1>0, <1>1, GotoKeepsTypes DEF RedisAnswers, RedisFails
    <2> QED BY <1>0, <1>1, <2>1, TokensStayIssued DEF RedisAnswers, RedisFails, TypeOK
  <1>2. CASE KeepAnswer(r)
    <2>1. req' \in [Requests -> {Idle} \cup InFlight]
      BY <1>0, <1>2, GotoKeepsTypes, FinishKeepsTypes DEF KeepAnswer
    <2>2. local' \in [Servers -> [Tokens -> Answers]]
      BY <1>0, <1>2, NoteKeepsTypes DEF KeepAnswer, Answers
    <2> QED BY <1>0, <1>2, <2>1, <2>2, TokensStayIssued DEF KeepAnswer, TypeOK
  <1>3. CASE Guard(r) \/ NothingToRevoke(r) \/ GiveUp(r)
    <2>1. req' \in [Requests -> {Idle} \cup InFlight]
      BY <1>3, FinishKeepsTypes DEF Guard, NothingToRevoke, GiveUp
    <2> QED BY <1>0, <1>3, <2>1, TokensStayIssued DEF Guard, NothingToRevoke, GiveUp, TypeOK
  <1>4. CASE Logout(r)
    <2>1. req' \in [Requests -> {Idle} \cup InFlight]
      BY <1>0, <1>4, GotoKeepsTypes DEF Logout
    <2>2. local' \in [Servers -> [Tokens -> Answers]]
      BY <1>0, <1>4, NoteKeepsTypes DEF Logout, Answers
    <2> QED BY <1>0, <1>4, <2>1, <2>2, TokensStayIssued DEF Logout, TypeOK
  <1>5. CASE \E t \in Tokens \cup {Null} : Refresh(r, t)
    <2> PICK new \in Tokens \cup {Null} : Refresh(r, new)
      BY <1>5
    <2>1. req' \in [Requests -> {Idle} \cup InFlight]
      BY <1>0, GotoKeepsTypes, FinishKeepsTypes DEF Refresh
    <2>2. local' \in [Servers -> [Tokens -> Answers]]
      BY <1>0, NoteKeepsTypes DEF Refresh, Answers, TypeOK
    <2>3. /\ life' \in [Tokens -> Lives] /\ redis' = redis
          /\ \A t \in Tokens : life'[t] = life[t] \/ life'[t] = "valid"
      BY DEF Refresh, TypeOK, Lives
    <2>4. \A q \in Requests : req'[q] # Idle => life'[req'[q].token] # "none"
      BY <1>0, <2>3, TokensStayIssued DEF Refresh
    <2> QED BY <2>1, <2>2, <2>3, <2>4 DEF TypeOK
  <1>6. CASE Publish(r)
    <2>1. req' \in [Requests -> {Idle} \cup InFlight]
      BY <1>6, FinishKeepsTypes DEF Publish
    <2>2. life[req[r].token] # "none"
      BY <1>0 DEF TypeOK, InFlight, Idle
    <2> QED BY <1>0, <1>6, <2>1, <2>2, TokensStayIssued DEF Publish, TypeOK
  <1> QED BY <1>1, <1>2, <1>3, <1>4, <1>5, <1>6 DEF Proceed

LEMMA BeginKeepsTypes ==
  ASSUME TypeOK, NEW r \in Requests, NEW op \in Ops, NEW s \in Servers, NEW t \in Tokens,
         Begin(r, op, s, t)
  PROVE  TypeOK'
  <1>1. [op |-> op, server |-> s, token |-> t,
         pc |-> IF local[s][t] = "clear" THEN "passed" ELSE "ask"] \in InFlight
    BY DEF InFlight
  <1> QED BY <1>1 DEF Begin, TypeOK

LEMMA SessionsInit == Init => TypeOK
  BY DEF Init, TypeOK, Answers, Lives

LEMMA SessionsNext == TypeOK /\ [Next]_vars => TypeOK'
  <1> SUFFICES ASSUME TypeOK, [Next]_vars PROVE TypeOK'
    OBVIOUS
  <1>1. CASE Next
    BY <1>1, OutsideKeepsTypes, BeginKeepsTypes, ProceedKeepsTypes DEF Next
  <1>2. CASE UNCHANGED vars
    BY <1>2 DEF vars, TypeOK
  <1> QED BY <1>1, <1>2

(* Tokens, the blacklist, the maps of the instances and the requests are   *)
(* what the code takes them for; what is checked or blacklisted is a token *)
(* that was issued, though it may have expired since.                      *)
THEOREM SessionsTyped == Spec => []TypeOK
  BY SessionsInit, SessionsNext, PTL DEF Spec

-----------------------------------------------------------------------------
(* One step: whoever asks Redis is told that the token is listed, so no    *)
(* new answer says that it is clear, and an old one cannot be on its way.  *)
LEMMA CleanKept ==
  ASSUME TypeOK, Next, NEW s \in Servers, NEW t \in Tokens,
         t \in redis, Clean(s, t)
  PROVE  Clean(s, t)'
  <1> USE DEF Clean
  <1>1. CASE \E u \in Tokens : Login(u) \/ Age(u) \/ Expire(u) \/ KeyExpires(u)
    BY <1>1 DEF Login, Age, Expire, KeyExpires
  <1>2. CASE \E x \in Servers : Restart(x) \/ \E u \in Tokens : Forget(x, u)
    <2>1. CASE \E x \in Servers : Restart(x)
      BY <2>1 DEF Restart, TypeOK, Idle
    <2>2. CASE \E x \in Servers, u \in Tokens : Forget(x, u)
      BY <2>2 DEF Forget, Note, TypeOK
    <2> QED BY <1>2, <2>1, <2>2
  <1>3. CASE \E r \in Requests, op \in Ops, x \in Servers, u \in Tokens : Begin(r, op, x, u)
    BY <1>3 DEF Begin, TypeOK
  <1>4. CASE \E r \in Requests : Proceed(r)
    <2> PICK r \in Requests : Proceed(r)
      BY <1>4
    <2>0. req[r] \in InFlight /\ req[r].server \in Servers /\ req[r].token \in Tokens
      BY InFlightInProceed
    <2>1. CASE RedisAnswers(r)
      <3>1. req[r].token = t => req'[r].pc = "listed"
        BY <2>0, <2>1, GotoShape DEF RedisAnswers
      <3> QED BY <2>0, <2>1, <3>1, GotoShape DEF RedisAnswers
    <2>2. CASE RedisFails(r)
      BY <2>0, <2>2, GotoShape DEF RedisFails
    <2>3. CASE KeepAnswer(r)
      <3>1. local'[s][t] # "clear"
        BY <2>0, <2>3 DEF KeepAnswer, Note, TypeOK
      <3>2. Goto(r, "passed") \/ Finish(r)
        BY <2>3 DEF KeepAnswer
      <3> QED BY <2>0, <3>1, <3>2, GotoShape, FinishShape
    <2>4. CASE Guard(r) \/ NothingToRevoke(r) \/ GiveUp(r) \/ Publish(r)
      <3>1. Finish(r) /\ UNCHANGED local
        BY <2>4 DEF Guard, NothingToRevoke, GiveUp, Publish
      <3> QED BY <3>1, FinishShape
    <2>5. CASE Logout(r)
      <3>1. Goto(r, "publish") /\ Note(req[r].server, req[r].token, "listed")
        BY <2>5 DEF Logout
      <3>2. local'[s][t] # "clear"
        BY <2>0, <3>1 DEF Note, TypeOK
      <3> QED BY <2>0, <3>1, <3>2, GotoShape
    <2>6. CASE \E new \in Tokens \cup {Null} : Refresh(r, new)
      <3>1. Goto(r, "publish") \/ Finish(r)
        BY <2>6 DEF Refresh
      <3>2. local'[s][t] # "clear"
        BY <2>0, <2>6 DEF Refresh, Note, TypeOK
      <3> QED BY <2>0, <3>1, <3>2, GotoShape, FinishShape
    <2> QED BY <2>1, <2>2, <2>3, <2>4, <2>5, <2>6 DEF Proceed
  <1> QED BY <1>1, <1>2, <1>3, <1>4 DEF Next

(* Once a token is on the blacklist, an instance that is clean of it stays *)
(* clean, however many checks cross the revocation.                        *)
THEOREM CleanInstances == Spec => CleanStaysClean
  <1>1. TypeOK /\ [Next]_vars =>
          [\A s \in Servers, t \in Tokens :
             t \in redis /\ t \in redis' /\ Clean(s, t) => Clean(s, t)']_vars
    BY CleanKept
  <1> QED BY <1>1, SessionsTyped, PTL DEF Spec, CleanStaysClean

-----------------------------------------------------------------------------
(* Accounts.                                                               *)
(* What has been spent is not stored any more, a token that is to be       *)
(* stored is new to everybody else, and a reset or a change knows the      *)
(* account as it is or has news of it.                                     *)
Tokened(r) ==
  LET q == areq[r] IN
  q.op = "request" =>
    /\ q.token \notin spent /\ (A!Present => account.token # q.token)
    /\ \A s \in Requests \ {r} : areq[s].token # q.token
Aware(q, a) ==
  /\ q.op = "reset" =>
       /\ q.token = Null \/ q.token = a.token \/ "token" \in q.news
       /\ q.status = a.status \/ "status" \in q.news
  /\ q.op = "change" => q.knew = a.password \/ "password" \in q.news

AInv ==
  /\ A!TypeOK
  /\ account = Unborn => \A r \in Requests : areq[r].op \in {"none", "register"}
  /\ A!Present => account.token \notin spent
  /\ \A r \in Requests : Tokened(r) /\ (A!Present => Aware(areq[r], account))

LEMMA AccountShape ==
  ASSUME A!TypeOK, A!Present
  PROVE  /\ account \in A!Row
         /\ account = [status |-> account.status, password |-> account.password,
                       token |-> account.token, fresh |-> account.fresh]
  BY DEF A!TypeOK, A!Present, A!Row

LEMMA RequestShape ==
  ASSUME A!TypeOK, NEW r \in Requests, areq[r].op # "none"
  PROVE  areq[r] \in A!InFlight /\ areq[r] # A!Idle /\ A!Given(areq[r]) /\ areq[r].token \in issued \cup {Null}
  BY DEF A!TypeOK, A!Idle

(* Beginning a request.                                                    *)
LEMMA BeginKeeps ==
  ASSUME AInv, NEW r \in Requests, NEW q \in A!InFlight, A!Begin(r, q),
         UNCHANGED <<account, spent>>, issued \subseteq issued', issued' \subseteq ResetTokens,
         q.token \in issued' \cup {Null}, A!Given(q),
         account = Unborn => q.op = "register",
         A!Present => Aware(q, account),
         \A s \in Requests \ {r} : areq[s].op = "request" => q.token # areq[s].token,
         q.op = "request" => q.token \notin issued
  PROVE  AInv'
  <1>1. areq' = [s \in Requests |-> areq'[s]] /\ areq'[r] = q /\ \A s \in Requests \ {r} : areq'[s] = areq[s]
    BY DEF A!Begin, AInv, A!TypeOK
  <1>2. areq' \in [Requests -> {A!Idle} \cup A!InFlight]
    BY <1>1 DEF AInv, A!TypeOK
  <1>3. \A s \in Requests : areq'[s].token \in issued' \cup {Null} /\ A!Given(areq'[s])
    BY <1>1 DEF AInv, A!TypeOK
  <1>4. A!TypeOK'
    BY <1>2, <1>3 DEF AInv, A!TypeOK, A!Present, A!Given
  <1>5. \A s \in Requests : A!Present => Aware(areq'[s], account)
    BY <1>1 DEF AInv
  <1>6. ASSUME NEW s \in Requests
        PROVE  Tokened(s)'
    <2>1. Null \notin ResetTokens /\ \A z \in Requests : areq[z].token \in issued \cup {Null}
      BY PeopleAssumption DEF AInv, A!TypeOK
    <2>2. CASE s = r
      BY <1>1, <2>1, <2>2, PeopleAssumption DEF AInv, A!TypeOK, Tokened, A!Present, A!Given
    <2>3. CASE s # r
      BY <1>1, <2>3 DEF AInv, Tokened, A!Present
    <2> QED BY <2>2, <2>3
  <1> QED BY <1>1, <1>4, <1>5, <1>6 DEF AInv, A!Present

(* The end of a request, with what it stored.                              *)
LEMMA StoreKeeps ==
  ASSUME AInv, NEW r \in Requests, NEW new \in A!Row \cup {Gone}, A!Store(r, new), A!Present,
         UNCHANGED issued, spent' \subseteq issued,
         new # Gone => /\ new.token \in (issued \cup {Null}) \ spent'
                       /\ \A s \in Requests \ {r} : areq[s].op = "request" => new.token # areq[s].token,
         \A s \in Requests \ {r} : areq[s].op = "request" => areq[s].token \notin spent'
  PROVE  AInv' /\ \A s \in Requests \ {r} : areq[s] # A!Idle => areq'[s] # A!Idle
  <1> DEFINE changed == A!Changed(new)
  <1>0. changed \subseteq A!Columns
    BY DEF A!Changed, A!Columns
  <1> HIDE DEF changed
  <1>1. ASSUME NEW s \in Requests \ {r}
        PROVE  /\ areq'[s] \in {A!Idle} \cup A!InFlight /\ (areq[s] # A!Idle => areq'[s] # A!Idle)
               /\ areq'[s].op = areq[s].op /\ areq'[s].token = areq[s].token
               /\ areq'[s].status = areq[s].status /\ areq'[s].password = areq[s].password
               /\ areq'[s].knew = areq[s].knew /\ areq'[s].body = areq[s].body
               /\ areq'[s].news = (IF areq[s].op \in {"change", "reset"} THEN areq[s].news \cup changed
                                  ELSE areq[s].news)
    <2>1. areq'[s] = IF areq[s].op \in {"change", "reset"} THEN [areq[s] EXCEPT !.news = @ \cup changed]
                    ELSE areq[s]
      BY DEF A!Store, changed
    <2>2. areq[s] \in {A!Idle} \cup A!InFlight
      BY DEF AInv, A!TypeOK
    <2>3. CASE areq[s] = A!Idle
      BY <2>1, <2>3 DEF A!Idle
    <2>4. CASE areq[s] \in A!InFlight
      BY <1>0, <2>1, <2>4 DEF A!InFlight, A!Idle, A!Ops
    <2> QED BY <2>2, <2>3, <2>4
  <1>2. areq'[r] = A!Idle /\ areq' = [s \in Requests |-> areq'[s]] /\ account' = new
    BY DEF A!Store
  <1>3. areq' \in [Requests -> {A!Idle} \cup A!InFlight]
    BY <1>1, <1>2
  <1>4. \A s \in Requests : areq'[s].token \in issued \cup {Null} /\ A!Given(areq'[s])
    <2>1. areq'[r].token = Null /\ areq'[r].op = "none"
      BY <1>2 DEF A!Idle
    <2>2. \A s \in Requests : areq[s].token \in issued \cup {Null} /\ A!Given(areq[s])
      BY DEF AInv, A!TypeOK
    <2>3. \A s \in Requests \ {r} : A!Given(areq'[s])
      BY <1>1, <2>2 DEF A!Given
    <2> QED BY <1>1, <2>1, <2>2, <2>3 DEF A!Given
  <1>5. A!TypeOK'
    BY <1>2, <1>3, <1>4 DEF AInv, A!TypeOK, A!Present, A!Given
  <1>6. account' # Unborn
    BY <1>2, PeopleAssumption
  <1>7. ASSUME NEW s \in Requests
        PROVE  Tokened(s)'
    <2>1. CASE s = r
      BY <1>2, <2>1 DEF Tokened, A!Idle
    <2>2. CASE s # r
      <3> SUFFICES ASSUME areq[s].op = "request" PROVE Tokened(s)'
        BY <1>1, <2>2 DEF Tokened
      <3>1. /\ areq'[s].token = areq[s].token /\ areq[s].token # Null
            /\ areq[s].token \notin spent' /\ (new # Gone => new.token # areq[s].token)
        BY <1>1, <2>2 DEF AInv, A!TypeOK, A!Given
      <3>2. \A z \in Requests \ {s} : areq'[z].token # areq[s].token
        <4>1. \A z \in Requests \ {s} : areq[z].token # areq[s].token
          BY DEF AInv, Tokened
        <4>2. areq'[r].token = Null
          BY <1>2 DEF A!Idle
        <4> QED BY <1>1, <3>1, <4>1, <4>2
      <3> QED BY <1>2, <3>1, <3>2 DEF Tokened, A!Present
    <2> QED BY <2>1, <2>2
  <1>8. ASSUME NEW s \in Requests, new \in A!Row
        PROVE  Aware(areq'[s], new)
    <2>1. CASE s = r
      BY <1>2, <2>1 DEF Aware, A!Idle
    <2>2. CASE s # r
      <3>1. changed = {c \in A!Columns : new[c] # account[c]}
        BY <1>8 DEF changed, A!Changed
      <3>2. /\ new.token # account.token => "token" \in changed
            /\ new.status # account.status => "status" \in changed
            /\ new.password # account.password => "password" \in changed
        BY <3>1 DEF A!Columns
      <3>3. Aware(areq[s], account)
        BY DEF AInv
      <3>4. CASE areq[s].op = "reset"
        BY <1>1, <2>2, <3>2, <3>3, <3>4 DEF Aware
      <3>5. CASE areq[s].op = "change"
        BY <1>1, <2>2, <3>2, <3>3, <3>5 DEF Aware
      <3>6. CASE areq[s].op \notin {"reset", "change"}
        BY <1>1, <2>2, <3>6 DEF Aware
      <3> QED BY <3>4, <3>5, <3>6
    <2> QED BY <2>1, <2>2
  <1>9. A!Present' => new \in A!Row
    BY <1>2 DEF A!Present
  <1>10. A!Present' => account'.token \notin spent'
    BY <1>2, <1>9, PeopleAssumption
  <1> QED BY <1>1, <1>2, <1>5, <1>6, <1>7, <1>8, <1>9, <1>10 DEF AInv

-----------------------------------------------------------------------------
(* The handlers that write: each stores something well formed, changes the *)
(* account as it may, and keeps the invariant.                             *)
Reasons(r) ==
  LET q == areq[r] IN
  A!Present /\ A!Present' =>
    /\ account'.password # account.password =>
         \/ q.op = "reset"
         \/ q.op = "change" /\ (q.knew = account.password \/ "password" \in q.news)
         \/ q.op = "update" /\ "password" \in q.body.columns
    /\ q.op = "reset" /\ q.token \in spent => "token" \in q.news
    /\ account'.status # account.status =>
         \/ q.op = "delete"
         \/ q.op = "update" /\ "status" \in q.body.columns
         \/ q.op = "reset" /\ account.status = "PENDING_ACTIVATION" /\ account'.status = "ACTIVE"
         \/ q.op = "reset" /\ "status" \in q.news
Kept(r) == AInv' /\ (\A s \in Requests \ {r} : areq[s] # A!Idle => areq'[s] # A!Idle) /\ Reasons(r)

LEMMA Insertions ==
  ASSUME AInv, NEW r \in Requests, A!InsertUser(r)
  PROVE  Kept(r)
  <1> DEFINE new == A!New(areq[r].password, areq[r].status)
  <1>1. areq[r].op = "register" /\ account = Unborn /\ A!Store(r, new) /\ UNCHANGED <<issued, spent>>
    BY DEF A!InsertUser, A!Ready
  <1>2. A!TypeOK /\ areq[r] \in A!InFlight /\ A!Given(areq[r])
    BY <1>1, RequestShape DEF AInv
  <1>3. areq[r].password \in Passwords /\ areq[r].status \in A!Statuses
    BY <1>1, <1>2 DEF A!InFlight, A!Given
  <1>4. new \in A!Row /\ new.token = Null
    BY <1>3 DEF A!New, A!Row, A!Hashes
  <1>5. ~A!Present
    BY <1>1 DEF A!Present
  <1> HIDE DEF new
  <1>6. \A s \in Requests : areq[s].op \in {"none", "register"}
    BY <1>1 DEF AInv
  <1>7. areq' = [s \in Requests |-> IF s = r THEN A!Idle ELSE areq[s]] /\ account' = new
    BY <1>1, <1>6 DEF A!Store
  <1>8. A!TypeOK'
    BY <1>1, <1>4, <1>7 DEF AInv, A!TypeOK, A!Present, A!Given, A!Idle
  <1>9. \A s \in Requests : areq'[s].op \in {"none", "register"}
    BY <1>6, <1>7 DEF A!Idle
  <1>10. A!Present' => account'.token \notin spent'
    BY <1>1, <1>2, <1>4, <1>7, PeopleAssumption DEF A!TypeOK
  <1>11. AInv'
    BY <1>4, <1>7, <1>8, <1>9, <1>10, PeopleAssumption DEF AInv, Tokened, Aware
  <1> QED BY <1>5, <1>7, <1>11 DEF Kept, Reasons

(* A write to the account that is there.                                   *)
LEMMA Writes ==
  ASSUME AInv, NEW r \in Requests, NEW new, A!Present, A!Store(r, new), UNCHANGED issued,
         new = Gone \/ (new \in A!Row /\
           \/ new.token = account.token /\ spent' = spent
           \/ areq[r].op = "request" /\ new.token = areq[r].token /\ spent' = spent
           \/ areq[r].op = "update" /\ new.token \in {account.token, areq[r].token}
                /\ spent' = spent \ {areq[r].token}
           \/ areq[r].op = "reset" /\ new.token = Null /\ spent' = spent \cup ({areq[r].token} \ {Null})),
         new = Gone => spent' = spent, areq[r].op # "none"
  PROVE  AInv' /\ \A s \in Requests \ {r} : areq[s] # A!Idle => areq'[s] # A!Idle
  <1>1. /\ A!TypeOK /\ areq[r] \in A!InFlight /\ areq[r].token \in issued \cup {Null} /\ A!Given(areq[r])
        /\ account.token \notin spent /\ account.token \in issued \cup {Null}
        /\ issued \subseteq ResetTokens /\ spent \subseteq issued /\ Null \notin ResetTokens /\ Gone \notin A!Row
    BY RequestShape, PeopleAssumption DEF AInv, A!TypeOK
  <1>2. \A s \in Requests \ {r} : areq[s].op = "request" =>
          /\ areq[s].token \notin spent /\ account.token # areq[s].token /\ areq[r].token # areq[s].token
          /\ areq[s].token # Null
    BY <1>1 DEF AInv, Tokened, A!TypeOK, A!Given
  <1>3. areq[r].op = "request" => areq[r].token \notin spent
    BY DEF AInv, Tokened
  <1>4. spent' \subseteq issued
    BY <1>1
  <1>5. \A s \in Requests \ {r} : areq[s].op = "request" => areq[s].token \notin spent'
    BY <1>1, <1>2
  <1>6. new # Gone => /\ new.token \in (issued \cup {Null}) \ spent'
                      /\ \A s \in Requests \ {r} : areq[s].op = "request" => new.token # areq[s].token
    BY <1>1, <1>2, <1>3
  <1> QED BY <1>1, <1>4, <1>5, <1>6, StoreKeeps

LEMMA HandlersKeep ==
  ASSUME AInv, NEW r \in Requests,
         A!WriteChange(r) \/ A!WriteRequest(r) \/ A!WriteReset(r) \/ A!WriteUpdate(r) \/ A!WriteDelete(r)
  PROVE  Kept(r)
  <1> DEFINE q == areq[r]
  <1>1. A!Present /\ q.op \in {"change", "request", "reset", "update", "delete", "remove"}
    BY DEF A!WriteChange, A!WriteRequest, A!WriteReset, A!WriteUpdate, A!WriteDelete, A!Ready
  <1>2. A!TypeOK /\ q \in A!InFlight /\ A!Given(q) /\ account \in A!Row /\ Aware(q, account)
    BY <1>1, RequestShape, AccountShape DEF AInv
  <1>3. /\ q.op \in {"change", "reset"} => q.password \in Passwords
        /\ q.op = "reset" => q.status \in A!Statuses
        /\ q.op = "request" => q.token \in ResetTokens
    BY <1>2 DEF A!InFlight, A!Given
  <1>4. CASE A!WriteChange(r)
    <2> DEFINE new == [account EXCEPT !.password = q.password]
    <2>1. q.op = "change" /\ A!Store(r, new) /\ UNCHANGED <<issued, spent>>
      BY <1>4 DEF A!WriteChange, A!Ready
    <2>2. new \in A!Row /\ new.token = account.token /\ new.status = account.status
      BY <1>2, <1>3, <2>1 DEF A!Row, A!Hashes
    <2> HIDE DEF new
    <2>3. AInv' /\ \A s \in Requests \ {r} : areq[s] # A!Idle => areq'[s] # A!Idle
      BY <1>1, <2>1, <2>2, Writes
    <2>4. account' = new
      BY <2>1 DEF A!Store
    <2> QED BY <1>2, <2>1, <2>2, <2>3, <2>4 DEF Kept, Reasons, Aware
  <1>5. CASE A!WriteRequest(r)
    <2> DEFINE new == [account EXCEPT !.token = q.token, !.fresh = TRUE]
    <2>1. q.op = "request" /\ A!Store(r, new) /\ UNCHANGED <<issued, spent>>
      BY <1>5 DEF A!WriteRequest, A!Ready
    <2>2. new \in A!Row /\ new.token = q.token /\ new.password = account.password /\ new.status = account.status
      BY <1>2, <1>3, <2>1 DEF A!Row, A!Hashes
    <2> HIDE DEF new
    <2>3. AInv' /\ \A s \in Requests \ {r} : areq[s] # A!Idle => areq'[s] # A!Idle
      BY <1>1, <2>1, <2>2, Writes
    <2>4. account' = new
      BY <2>1 DEF A!Store
    <2> QED BY <2>1, <2>2, <2>3, <2>4 DEF Kept, Reasons
  <1>6. CASE A!WriteReset(r)
    <2> DEFINE new == A!New(q.password, A!Activated(q.status))
    <2>1. q.op = "reset" /\ A!Store(r, new) /\ UNCHANGED issued /\ spent' = spent \cup ({q.token} \ {Null})
      BY <1>6 DEF A!WriteReset, A!Ready
    <2>2. A!Activated(q.status) \in A!Statuses
      BY <1>3, <2>1 DEF A!Activated, A!Statuses
    <2>3. new \in A!Row /\ new.token = Null /\ new.status = A!Activated(q.status)
      BY <1>3, <2>1, <2>2 DEF A!New, A!Row, A!Hashes
    <2> HIDE DEF new
    <2>4. AInv' /\ \A s \in Requests \ {r} : areq[s] # A!Idle => areq'[s] # A!Idle
      BY <1>1, <2>1, <2>3, PeopleAssumption, Writes
    <2>5. account' = new
      BY <2>1 DEF A!Store
    <2>6. q.token \in spent => "token" \in q.news
      <3>1. account.token \notin spent /\ Null \notin spent
        BY <1>1, PeopleAssumption DEF AInv, A!TypeOK
      <3> QED BY <1>2, <2>1, <3>1 DEF Aware
    <2>7. account'.status # account.status =>
            \/ account.status = "PENDING_ACTIVATION" /\ account'.status = "ACTIVE"
            \/ "status" \in q.news
      BY <1>2, <2>1, <2>3, <2>5 DEF Aware, A!Activated
    <2> QED BY <2>1, <2>4, <2>6, <2>7 DEF Kept, Reasons
  <1>7. CASE A!WriteUpdate(r)
    <2> DEFINE new == A!Merged(q.body)
    <2>1. q.op = "update" /\ A!Store(r, new) /\ UNCHANGED issued /\ spent' = spent \ {q.token}
      BY <1>7 DEF A!WriteUpdate, A!Ready
    <2>2. q.body \in A!Body /\ q.token = A!TokenIn(q.body)
      BY <1>2, <2>1, PeopleAssumption DEF A!Given
    <2>6. /\ new \in A!Row /\ new.token \in {account.token, q.token}
          /\ new.password # account.password => "password" \in q.body.columns
          /\ new.status # account.status => "status" \in q.body.columns
      BY <1>2, <2>2 DEF A!Merged, A!Row, A!Body, A!TokenIn
    <2> HIDE DEF new
    <2>3. AInv' /\ \A s \in Requests \ {r} : areq[s] # A!Idle => areq'[s] # A!Idle
      BY <1>1, <2>1, <2>6, PeopleAssumption, Writes
    <2>4. account' = new
      BY <2>1 DEF A!Store
    <2> QED BY <2>1, <2>3, <2>4, <2>6 DEF Kept, Reasons
  <1>8. CASE A!WriteDelete(r)
    <2> DEFINE new == IF A!Ready(r, "remove") THEN Gone ELSE [account EXCEPT !.status = "CLOSED"]
    <2>1. q.op \in {"remove", "delete"} /\ A!Store(r, new) /\ UNCHANGED <<issued, spent>>
      BY <1>8 DEF A!WriteDelete
    <2>2. \/ new = Gone /\ q.op = "remove"
          \/ new \in A!Row /\ new.token = account.token /\ new.password = account.password /\ q.op = "delete"
      BY <1>2, <2>1 DEF A!Row, A!Statuses, A!Ready
    <2> HIDE DEF new
    <2>3. AInv' /\ \A s \in Requests \ {r} : areq[s] # A!Idle => areq'[s] # A!Idle
      BY <1>1, <2>1, <2>2, PeopleAssumption, Writes
    <2>4. account' = new
      BY <2>1 DEF A!Store
    <2> QED BY <2>1, <2>2, <2>3, <2>4 DEF Kept, Reasons, A!Present
  <1> QED BY <1>4, <1>5, <1>6, <1>7, <1>8

-----------------------------------------------------------------------------
(* The other steps change no account that a request was to store.          *)
LEMMA Beginnings ==
  ASSUME AInv, NEW r \in Requests,
         \/ \E p \in Passwords :
              \/ \E s \in A!Statuses : A!StartRegister(r, p, s)
              \/ \E old \in Passwords : A!StartChange(r, old, p)
              \/ \E t \in ResetTokens \cup {Null} : A!StartReset(r, t, p)
         \/ \E t \in ResetTokens : A!StartRequest(r, t)
         \/ \E body \in Bodies : A!StartUpdate(r, body)
         \/ \E hard \in BOOLEAN : A!StartDelete(r, hard)
  PROVE  AInv' /\ account' = account
  <1>0. /\ issued \subseteq ResetTokens /\ Null \notin ResetTokens
        /\ \A s \in Requests : areq[s].token \in issued \cup {Null}
        /\ \A s \in Requests : areq[s].op = "request" => areq[s].token # Null
    BY PeopleAssumption DEF AInv, A!TypeOK, A!Given
  <1>1. ASSUME NEW p \in Passwords, NEW s \in A!Statuses, A!StartRegister(r, p, s)
        PROVE  AInv' /\ account' = account
    <2> DEFINE q == [A!Idle EXCEPT !.op = "register", !.password = p, !.status = s]
    <2>1. q \in A!InFlight /\ A!Given(q) /\ q.op = "register" /\ q.token = Null
      BY PeopleAssumption DEF A!Idle, A!InFlight, A!Ops, A!Given, A!Columns
    <2>2. A!Begin(r, q) /\ A!Looks /\ ~A!Present
      BY <1>1 DEF A!StartRegister, A!Present
    <2> HIDE DEF q
    <2> QED BY <1>0, <2>1, <2>2, BeginKeeps DEF A!Looks
  <1>2. ASSUME NEW p \in Passwords, NEW old \in Passwords, A!StartChange(r, old, p)
        PROVE  AInv' /\ account' = account
    <2> DEFINE q == [A!Idle EXCEPT !.op = "change", !.password = p, !.knew = old]
    <2>1. q \in A!InFlight /\ A!Given(q) /\ q.op = "change" /\ q.token = Null /\ q.knew = old
      BY PeopleAssumption DEF A!Idle, A!InFlight, A!Ops, A!Given, A!Columns
    <2>2. A!Begin(r, q) /\ A!Looks /\ A!Present /\ old = account.password
      BY <1>2 DEF A!StartChange
    <2> HIDE DEF q
    <2>3. Aware(q, account) /\ account # Unborn
      BY <2>1, <2>2 DEF Aware, A!Present
    <2> QED BY <1>0, <2>1, <2>2, <2>3, BeginKeeps DEF A!Looks
  <1>3. ASSUME NEW p \in Passwords, NEW t \in ResetTokens \cup {Null}, A!StartReset(r, t, p)
        PROVE  AInv' /\ account' = account
    <2> DEFINE q == [A!Idle EXCEPT !.op = "reset", !.password = p, !.token = t,
                                 !.status = account.status]
    <2>0. A!Begin(r, q) /\ A!Looks /\ A!Present /\ (t # Null => account.token = t)
      BY <1>3 DEF A!StartReset, A!FindToReset
    <2>1. account.status \in A!Statuses /\ account.token \in issued \cup {Null}
      BY <2>0, AccountShape DEF AInv, A!TypeOK, A!Row
    <2>2. q \in A!InFlight /\ A!Given(q) /\ q.op = "reset" /\ q.token = t /\ q.status = account.status
      BY <2>1, PeopleAssumption DEF A!Idle, A!InFlight, A!Ops, A!Given, A!Columns
    <2> HIDE DEF q
    <2>3. Aware(q, account) /\ account # Unborn
      BY <2>0, <2>2 DEF Aware, A!Present
    <2>4. \A s \in Requests \ {r} : areq[s].op = "request" => t # areq[s].token
      BY <1>0, <2>0 DEF AInv, Tokened
    <2> QED BY <1>0, <2>0, <2>1, <2>2, <2>3, <2>4, BeginKeeps DEF A!Looks
  <1>4. ASSUME NEW t \in ResetTokens, A!StartRequest(r, t)
        PROVE  AInv' /\ account' = account
    <2> DEFINE q == [A!Idle EXCEPT !.op = "request", !.token = t]
    <2>1. q \in A!InFlight /\ A!Given(q) /\ q.op = "request" /\ q.token = t
      BY PeopleAssumption DEF A!Idle, A!InFlight, A!Ops, A!Given, A!Columns
    <2>2. A!Begin(r, q) /\ UNCHANGED <<account, spent>> /\ A!Present /\ t \notin issued
          /\ issued' = issued \cup {t}
      BY <1>4 DEF A!StartRequest
    <2> HIDE DEF q
    <2>3. Aware(q, account) /\ account # Unborn
      BY <2>1, <2>2 DEF Aware, A!Present
    <2> QED BY <1>0, <2>1, <2>2, <2>3, BeginKeeps
  <1>5. ASSUME NEW body \in Bodies, A!StartUpdate(r, body)
        PROVE  AInv' /\ account' = account
    <2> DEFINE q == [A!Idle EXCEPT !.op = "update", !.token = A!TokenIn(body), !.body = body]
    <2>1. A!TokenIn(body) \in ResetTokens \cup {Null}
      BY PeopleAssumption DEF A!TokenIn, A!Body
    <2>2. q \in A!InFlight /\ A!Given(q) /\ q.op = "update" /\ q.token = A!TokenIn(body)
      BY <2>1, PeopleAssumption DEF A!Idle, A!InFlight, A!Ops, A!Given, A!Columns
    <2>3. /\ A!Begin(r, q) /\ UNCHANGED <<account, spent>> /\ A!Present
          /\ issued' = issued \cup ({A!TokenIn(body)} \ {Null})
          /\ \A s \in Requests : areq[s].op = "request" => areq[s].token # A!TokenIn(body)
      BY <1>5 DEF A!StartUpdate
    <2> HIDE DEF q
    <2>4. Aware(q, account) /\ account # Unborn
      BY <2>2, <2>3 DEF Aware, A!Present
    <2>5. issued \subseteq issued' /\ issued' \subseteq ResetTokens /\ q.token \in issued' \cup {Null}
      BY <1>0, <2>1, <2>2, <2>3
    <2> QED BY <2>2, <2>3, <2>4, <2>5, BeginKeeps
  <1>6. ASSUME NEW hard \in BOOLEAN, A!StartDelete(r, hard)
        PROVE  AInv' /\ account' = account
    <2> DEFINE q == [A!Idle EXCEPT !.op = IF hard THEN "remove" ELSE "delete"]
    <2>1. q \in A!InFlight /\ A!Given(q) /\ q.op \in {"remove", "delete"} /\ q.token = Null
      BY PeopleAssumption DEF A!Idle, A!InFlight, A!Ops, A!Given, A!Columns
    <2>2. A!Begin(r, q) /\ A!Looks /\ A!Present
      BY <1>6 DEF A!StartDelete
    <2> HIDE DEF q
    <2>3. Aware(q, account) /\ account # Unborn
      BY <2>1, <2>2 DEF Aware, A!Present
    <2> QED BY <1>0, <2>1, <2>2, <2>3, BeginKeeps DEF A!Looks
  <1> QED BY <1>1, <1>2, <1>3, <1>4, <1>5, <1>6

LEMMA FailureKeeps ==
  ASSUME AInv, NEW r \in Requests, A!Fail(r)
  PROVE  AInv' /\ account' = account
  <1>1. /\ areq' = [s \in Requests |-> IF s = r THEN A!Idle ELSE areq[s]]
        /\ UNCHANGED <<account, issued, spent>>
    BY DEF A!Fail, A!Looks, AInv, A!TypeOK
  <1>2. A!Idle.op = "none" /\ A!Idle.token = Null
    BY DEF A!Idle
  <1> HIDE DEF A!Idle
  <1>3. A!TypeOK'
    BY <1>1, <1>2 DEF AInv, A!TypeOK, A!Present, A!Given
  <1>4. ASSUME NEW s \in Requests
        PROVE  Tokened(s)' /\ (A!Present' => Aware(areq'[s], account'))
               /\ (account' = Unborn => areq'[s].op \in {"none", "register"})
    <2>1. \A z \in Requests : areq[z].op = "request" => areq[z].token # Null
      BY DEF AInv, A!TypeOK, A!Given
    <2>2. CASE s = r
      BY <1>1, <1>2, <2>2 DEF Tokened, Aware
    <2>3. CASE s # r
      BY <1>1, <1>2, <2>1, <2>3 DEF AInv, Tokened, A!Present
    <2> QED BY <2>2, <2>3
  <1> QED BY <1>1, <1>3, <1>4 DEF AInv, A!Present

LEMMA ExpiryKeeps ==
  ASSUME AInv, A!Expire
  PROVE  AInv' /\ UNCHANGED areq
  <1>1. /\ account' = [account EXCEPT !.fresh = FALSE] /\ UNCHANGED <<issued, spent, areq>>
        /\ A!Present /\ account \in A!Row
    BY AccountShape DEF A!Expire, AInv
  <1>2. /\ account' \in A!Row /\ account'.token = account.token /\ account'.status = account.status
        /\ account'.password = account.password
    BY <1>1 DEF A!Row
  <1>3. account # Unborn /\ account' # Unborn
    BY <1>1, <1>2, PeopleAssumption DEF A!Present
  <1>4. A!TypeOK'
    BY <1>1, <1>2 DEF AInv, A!TypeOK, A!Present, A!Given
  <1>5. ASSUME NEW s \in Requests
        PROVE  Tokened(s)' /\ Aware(areq[s], account)'
    <2>1. Tokened(s)'
      BY <1>1, <1>2 DEF AInv, Tokened
    <2>2. Aware(areq[s], account)
      BY <1>1 DEF AInv
    <2> QED BY <1>1, <1>2, <2>1, <2>2 DEF Aware
  <1>6. account'.token \notin spent'
    BY <1>1, <1>2 DEF AInv
  <1> QED BY <1>1, <1>3, <1>4, <1>5, <1>6 DEF AInv

-----------------------------------------------------------------------------
LEMMA AccountsInit == A!Init => AInv
  <1> SUFFICES ASSUME A!Init PROVE AInv
    OBVIOUS
  <1>1. /\ A!Idle.op = "none" /\ A!Idle.token = Null /\ account = Unborn /\ issued = {} /\ spent = {}
        /\ areq = [r \in Requests |-> A!Idle]
    BY DEF A!Init, A!Idle
  <1> QED BY <1>1 DEF AInv, A!TypeOK, A!Present, Tokened, A!Given

LEMMA AccountsNext == AInv /\ [A!Next]_accounts => AInv'
  <1> SUFFICES ASSUME AInv, [A!Next]_accounts PROVE AInv'
    OBVIOUS
  <1>1. CASE UNCHANGED accounts
    BY <1>1 DEF accounts, AInv, A!TypeOK, A!Present, Tokened
  <1> QED BY <1>1, Insertions, HandlersKeep, Beginnings, FailureKeeps, ExpiryKeeps DEF A!Next, Kept

LEMMA ReasonedStep ==
  ASSUME AInv, A!Next, NEW r \in Requests, areq[r] # A!Idle, areq'[r] = A!Idle,
         A!Present, A!Present', account' # account
  PROVE  account'.token \notin spent' /\ Reasons(r)
  <1>1. AInv'
    BY AccountsNext
  <1>2. PICK s \in Requests : Kept(s)
    BY Insertions, HandlersKeep, Beginnings, FailureKeeps, ExpiryKeeps DEF A!Next
  <1>3. s = r
    BY <1>2 DEF Kept
  <1> QED BY <1>1, <1>2, <1>3 DEF AInv, Kept

-----------------------------------------------------------------------------
(* Rights.                                                                 *)
(* The sources that the queries still to come ask for.                     *)
SourcesOf(looks) == {looks[i].source : i \in DOMAIN looks}

(* Where a question stands: what it is about, and what it has left to do.  *)
Kinds(q) ==
  /\ q.op = "manage" => q.unit \in R!Units \ Groups
  /\ q.op = "access" => q.unit \in R!Units
  /\ q.op = "user" => q.unit = Other
  /\ q.op \in {"manage", "access"} => q.pc \in {"look", "done"}
  /\ q.op = "user" => q.pc \in {"look", "target", "done"}
  /\ q.op = "factories" => q.pc \in {"roles", "done"}
  /\ q.op = "lines" => q.pc \in {"roles", "below", "done"}
  /\ q.op = "teams" => q.pc \in {"look", "roles", "below", "done"}
  /\ q.pc = "look" => q.looks # <<>>
  /\ q.pc = "look" /\ q.op = "teams" => q.looks = <<R!Ever(R!Admin)>>
  /\ q.pc \in {"look", "roles", "target"} => q.got = {}

(* A right that was valid all the time is still to be asked for, or has    *)
(* been found.                                                             *)
Promised(q, x, l) ==
  \/ x \in q.got
  \/ q.pc \in {"target", "roles"}
  \/ q.pc = "look" /\ q.op = "teams"
  \/ q.pc = "look" /\ q.op = "user" /\ q.looks = <<R!Ever(R!Admin)>>
  \/ q.pc = "look" /\ R!RoleOf(l) \in SourcesOf(q.looks)
  \/ q.pc = "below" /\ q.op = "teams" /\ l \in q.above
Complete(q) ==
  \A x \in R!About(q) \cap (q.stayed \cup {Other}) :
    \A l \in R!LineOf(q, x) : R!RoleOf(l) \in q.steady => Promised(q, x, l)

(* What was found gives a right to what is granted, and what is still to   *)
(* be asked for would.                                                     *)
Entitles(q, s, x) == s = R!Admin \/ s[2] \in R!Upward(q, x)
Sound(q) ==
  /\ q.pc = "look" => \A s \in SourcesOf(q.looks) : Entitles(q, s, q.unit)
  /\ \A x \in q.got \cap (R!Units \cup {Other}) : \E s \in q.seen : Entitles(q, s, x)
  /\ q.pc = "below" => \A u \in q.above : R!RoleOf(u) \in q.seen

(* What a question has seen so far, until it is answered.                  *)
Fresh ==
  /\ ask.home \subseteq ask.been
  /\ ask.pc # "done" =>
       /\ ask.steady \subseteq R!Valid /\ R!There \subseteq ask.seen
       /\ ask.stayed \subseteq here /\ ask.home \subseteq place /\ place \subseteq ask.been

QInv == ask # R!Idle => Kinds(ask) /\ Complete(ask) /\ Sound(ask) /\ Fresh
RightsInv == R!TypeOK /\ QInv

-----------------------------------------------------------------------------
(* Queries and their sources.                                              *)
LEMMA TailSources ==
  ASSUME NEW S, NEW looks \in Seq(S), looks # <<>>
  PROVE  /\ SourcesOf(looks) = {Head(looks).source} \cup SourcesOf(Tail(looks))
         /\ Tail(looks) \in Seq(S) /\ Head(looks) \in S
         /\ Len(looks) <= 1 => Tail(looks) = <<>>
         /\ Len(looks) > 1 => Tail(looks) # <<>>
  <1>1. Len(looks) \in Nat /\ Len(looks) > 0 /\ DOMAIN looks = 1..Len(looks) /\ Head(looks) = looks[1]
        /\ DOMAIN Tail(looks) = 1..(Len(looks) - 1)
        /\ \A i \in 1..(Len(looks) - 1) : Tail(looks)[i] = looks[i + 1]
    OBVIOUS
  <1>2. \A i \in DOMAIN looks : i # 1 => i - 1 \in DOMAIN Tail(looks) /\ Tail(looks)[i - 1] = looks[i]
    BY <1>1
  <1>3. \A i \in DOMAIN Tail(looks) : i + 1 \in DOMAIN looks /\ looks[i + 1] = Tail(looks)[i]
    BY <1>1
  <1>4. SourcesOf(looks) = {Head(looks).source} \cup SourcesOf(Tail(looks))
    <2>1. ASSUME NEW i \in DOMAIN looks
          PROVE  looks[i].source \in {Head(looks).source} \cup SourcesOf(Tail(looks))
      BY <1>1, <1>2 DEF SourcesOf
    <2>2. Head(looks).source \in SourcesOf(looks)
      BY <1>1 DEF SourcesOf
    <2>3. ASSUME NEW i \in DOMAIN Tail(looks)
          PROVE  Tail(looks)[i].source \in SourcesOf(looks)
      BY <1>3 DEF SourcesOf
    <2> QED BY <2>1, <2>2, <2>3 DEF SourcesOf
  <1>5. Tail(looks) \in Seq(S) /\ Head(looks) \in S
    OBVIOUS
  <1>6. Len(looks) <= 1 => Tail(looks) = <<>>
    BY <1>1
  <1>7. Len(looks) > 1 => Tail(looks) # <<>>
    <2>1. SUFFICES ASSUME Len(looks) > 1
                   PROVE  Tail(looks) # <<>>
      OBVIOUS
    <2>2. 1 \in DOMAIN Tail(looks)
      BY <1>1, <2>1
    <2>3. DOMAIN <<>> = {}
      OBVIOUS
    <2> QED BY <2>2, <2>3
  <1> QED BY <1>4, <1>5, <1>6, <1>7

LEMMA JoinedSources ==
  ASSUME NEW S, NEW s \in Seq(S), NEW t \in Seq(S)
  PROVE  /\ SourcesOf(s \o t) = SourcesOf(s) \cup SourcesOf(t) /\ s \o t \in Seq(S)
         /\ s # <<>> \/ t # <<>> => s \o t # <<>>
  <1>1. /\ DOMAIN s = 1..Len(s) /\ DOMAIN t = 1..Len(t) /\ DOMAIN (s \o t) = 1..(Len(s) + Len(t))
        /\ Len(s) \in Nat /\ Len(t) \in Nat
        /\ \A i \in 1..(Len(s) + Len(t)) : (s \o t)[i] = IF i <= Len(s) THEN s[i] ELSE t[i - Len(s)]
    OBVIOUS
  <1>2. \A i \in DOMAIN s : i \in DOMAIN (s \o t) /\ (s \o t)[i] = s[i]
    BY <1>1
  <1>3. \A i \in DOMAIN t : i + Len(s) \in DOMAIN (s \o t) /\ (s \o t)[i + Len(s)] = t[i]
    BY <1>1
  <1>4. \A i \in DOMAIN (s \o t) : \/ i \in DOMAIN s /\ (s \o t)[i] = s[i]
                                   \/ i - Len(s) \in DOMAIN t /\ (s \o t)[i] = t[i - Len(s)]
    BY <1>1
  <1>5. SourcesOf(s \o t) = SourcesOf(s) \cup SourcesOf(t)
    <2>1. ASSUME NEW i \in DOMAIN (s \o t)
          PROVE  (s \o t)[i].source \in SourcesOf(s) \cup SourcesOf(t)
      BY <1>4 DEF SourcesOf
    <2>2. ASSUME NEW i \in DOMAIN s
          PROVE  s[i].source \in SourcesOf(s \o t)
      BY <1>2 DEF SourcesOf
    <2>3. ASSUME NEW i \in DOMAIN t
          PROVE  t[i].source \in SourcesOf(s \o t)
      BY <1>3 DEF SourcesOf
    <2> QED BY <2>1, <2>2, <2>3 DEF SourcesOf
  <1>6. s \o t \in Seq(S) /\ (s # <<>> \/ t # <<>> => s \o t # <<>>)
    OBVIOUS
  <1> QED BY <1>5, <1>6

LEMMA FewSources ==
  /\ SourcesOf(<<>>) = {}
  /\ \A a : SourcesOf(<<a>>) = {a.source}
  /\ \A a, b : SourcesOf(<<a, b>>) = {a.source, b.source}
  /\ \A a, b, c : SourcesOf(<<a, b, c>>) = {a.source, b.source, c.source}
  BY DEF SourcesOf

LEMMA QueriesAre ==
  /\ R!Running(R!Admin) \in R!Queries /\ R!Ever(R!Admin) \in R!Queries
  /\ \A u \in Factories \cup Lines \cup Teams :
       R!Running(R!RowOf(u)) \in R!Queries /\ R!Ever(R!RowOf(u)) \in R!Queries
  /\ \A u \in R!Units : R!Running(R!RoleOf(u)) \in R!Queries /\ R!Ever(R!RoleOf(u)) \in R!Queries
  /\ \A t \in Teams : R!Running(R!PrefixedRoleOf(t)) \in R!Queries
  /\ \A s : R!Running(s).source = s /\ R!Ever(s).source = s /\ R!Ever(s).ended = TRUE
  BY DEF R!Queries, R!Running, R!Ever, R!Sources

LEMMA Names ==
  /\ \A u : R!RoleOf(u)[1] = "role" /\ R!RoleOf(u)[2] = u /\ R!RowOf(u)[1] = "row" /\ R!RowOf(u)[2] = u
            /\ R!PrefixedRoleOf(u)[1] = "team:" /\ R!PrefixedRoleOf(u)[2] = u /\ R!RoleOf(u) # R!Admin
  /\ R!Admin[1] = "admin"
  BY DEF R!RoleOf, R!RowOf, R!PrefixedRoleOf, R!Admin

LEMMA Kind ==
  /\ \A l \in Lines :
       l \in R!Units /\ l \notin Factories /\ l \notin Teams /\ l \notin Groups /\ Above[l] \in Factories
  /\ \A t \in Teams :
       t \in R!Units /\ t \notin Factories /\ t \notin Lines /\ t \notin Groups /\ Above[t] \in Lines
  /\ \A g \in Groups :
       g \in R!Units /\ g \notin Factories /\ g \notin Lines /\ g \notin Teams /\ Above[g] \in Teams
  /\ \A f \in Factories : f \in R!Units /\ f \notin Lines /\ f \notin Teams /\ f \notin Groups
  /\ R!Units = Factories \cup Lines \cup Teams \cup Groups /\ Other \notin R!Units
  BY PeopleAssumption DEF R!Units

-----------------------------------------------------------------------------
(* Units above.                                                            *)
LEMMA UpwardHas ==
  ASSUME NEW q
  PROVE  /\ \A x : x # Other => x \in R!Upward(q, x)
         /\ \A x : x # Other /\ x \notin Factories => Above[x] \in R!Upward(q, x)
         /\ \A x : x # Other /\ x \notin Factories /\ Above[x] \notin Factories =>
                    Above[Above[x]] \in R!Upward(q, x)
         /\ q.been \subseteq R!Upward(q, Other)
  <1>1. \A S : S \subseteq R!WithAbove(S) /\ \A u \in S \ Factories : Above[u] \in R!WithAbove(S)
    BY DEF R!WithAbove
  <1> QED BY <1>1 DEF R!Upward

LEMMA UpwardGrows ==
  ASSUME NEW q, NEW p, q.been \subseteq p.been, NEW x
  PROVE  R!Upward(q, x) \subseteq R!Upward(p, x)
  <1>1. \A S, T : S \subseteq T => R!WithAbove(S) \subseteq R!WithAbove(T)
    BY DEF R!WithAbove
  <1> DEFINE s == IF x = Other THEN q.been ELSE {x}  t == IF x = Other THEN p.been ELSE {x}
  <1>2. s \subseteq t
    OBVIOUS
  <1> HIDE DEF s, t
  <1>3. R!WithAbove(R!WithAbove(R!WithAbove(s))) \subseteq R!WithAbove(R!WithAbove(R!WithAbove(t)))
    BY <1>1, <1>2
  <1> QED BY <1>3 DEF R!Upward, s, t

-----------------------------------------------------------------------------
(* What the checks of the services ask for.                                *)
LEMMA ManagerLooks ==
  ASSUME NEW l \in Lines
  PROVE  /\ R!IsManager(l) \in Seq(R!Queries) /\ R!IsManager(l) # <<>>
         /\ SourcesOf(R!IsManager(l)) = {R!Admin, R!RowOf(l), R!RoleOf(l)}
  <1>1. SourcesOf(R!IsManager(l)) = {R!Admin, R!RowOf(l), R!RoleOf(l)}
    BY FewSources, QueriesAre DEF R!IsManager
  <1>2. R!IsManager(l) \in Seq(R!Queries)
    <2> DEFINE a == R!Running(R!Admin)  b == R!Running(R!RowOf(l))  c == R!Running(R!RoleOf(l))
    <2>1. a \in R!Queries /\ b \in R!Queries /\ c \in R!Queries
      BY QueriesAre, Kind
    <2> HIDE DEF a, b, c
    <2>2. <<a, b, c>> \in Seq(R!Queries)
      BY <2>1
    <2> QED BY <2>2 DEF R!IsManager, a, b, c
  <1> QED BY <1>1, <1>2 DEF R!IsManager

LEMMA LeaderLooks ==
  ASSUME NEW t \in Teams
  PROVE  /\ R!IsLeader(t) \in Seq(R!Queries) /\ R!IsLeader(t) # <<>>
         /\ SourcesOf(R!IsLeader(t)) = {R!Admin, R!RowOf(t), R!PrefixedRoleOf(t)}
  <1>1. SourcesOf(R!IsLeader(t)) = {R!Admin, R!RowOf(t), R!PrefixedRoleOf(t)}
    BY FewSources, QueriesAre DEF R!IsLeader
  <1>2. R!IsLeader(t) \in Seq(R!Queries)
    <2> DEFINE a == R!Running(R!Admin)  b == R!Running(R!RowOf(t))  c == R!Running(R!PrefixedRoleOf(t))
    <2>1. a \in R!Queries /\ b \in R!Queries /\ c \in R!Queries
      BY QueriesAre
    <2> HIDE DEF a, b, c
    <2>2. <<a, b, c>> \in Seq(R!Queries)
      BY <2>1
    <2> QED BY <2>2 DEF R!IsLeader, a, b, c
  <1> QED BY <1>1, <1>2 DEF R!IsLeader

LEMMA FactoryLooks ==
  ASSUME NEW f \in Factories
  PROVE  /\ R!CanManageFactory(f) \in Seq(R!Queries) /\ R!CanManageFactory(f) # <<>>
         /\ SourcesOf(R!CanManageFactory(f)) = {R!RowOf(f)}
  <1>1. SourcesOf(R!CanManageFactory(f)) = {R!RowOf(f)}
    BY FewSources, QueriesAre DEF R!CanManageFactory
  <1>2. R!Ever(R!RowOf(f)) \in R!Queries
    BY QueriesAre
  <1> QED BY <1>1, <1>2 DEF R!CanManageFactory

LEMMA ManageLooks ==
  ASSUME NEW u \in R!Units \ Groups, NEW q
  PROVE  /\ R!CanManage(u) \in Seq(R!Queries) /\ R!CanManage(u) # <<>>
         /\ \A s \in SourcesOf(R!CanManage(u)) : Entitles(q, s, u)
         /\ \A l \in R!LineOf(q, u) : R!RoleOf(l) \in SourcesOf(R!CanManage(u))
  <1>1. CASE u \in Factories
    <2>1. R!CanManage(u) = R!CanManageFactory(u) /\ R!LineOf(q, u) = {}
      BY <1>1, Kind DEF R!CanManage, R!LineOf
    <2>2. u \in R!Upward(q, u)
      BY Kind, UpwardHas
    <2> QED BY <1>1, <2>1, <2>2, FactoryLooks, Names DEF Entitles
  <1>2. CASE u \in Lines
    <2>1. R!CanManage(u) = R!IsManager(u) \o R!CanManageFactory(Above[u]) /\ R!LineOf(q, u) = {u}
      BY <1>2, Kind DEF R!CanManage, R!CanManageLine, R!LineOf
    <2>2. u \in R!Upward(q, u) /\ Above[u] \in R!Upward(q, u) /\ Above[u] \in Factories
      BY <1>2, Kind, UpwardHas
    <2>3. /\ SourcesOf(R!CanManage(u)) = {R!Admin, R!RowOf(u), R!RoleOf(u)} \cup {R!RowOf(Above[u])}
          /\ R!CanManage(u) \in Seq(R!Queries) /\ R!CanManage(u) # <<>>
      <3>1. /\ R!IsManager(u) \in Seq(R!Queries) /\ R!IsManager(u) # <<>>
            /\ SourcesOf(R!IsManager(u)) = {R!Admin, R!RowOf(u), R!RoleOf(u)}
        BY <1>2, ManagerLooks
      <3>2. /\ R!CanManageFactory(Above[u]) \in Seq(R!Queries)
            /\ SourcesOf(R!CanManageFactory(Above[u])) = {R!RowOf(Above[u])}
        BY <2>2, FactoryLooks
      <3> QED BY <2>1, <3>1, <3>2, JoinedSources
    <2> QED BY <2>1, <2>2, <2>3, Names DEF Entitles
  <1>3. CASE u \in Teams
    <2>1. R!CanManage(u) = R!IsLeader(u) \o R!IsManager(Above[u]) /\ R!LineOf(q, u) = {Above[u]}
      BY <1>3, Kind DEF R!CanManage, R!CanManageTeam, R!LineOf
    <2>2. u \in R!Upward(q, u) /\ Above[u] \in R!Upward(q, u) /\ Above[u] \in Lines
      BY <1>3, Kind, UpwardHas
    <2>3. /\ SourcesOf(R!CanManage(u)) =
               {R!Admin, R!RowOf(u), R!PrefixedRoleOf(u)}
                 \cup {R!Admin, R!RowOf(Above[u]), R!RoleOf(Above[u])}
          /\ R!CanManage(u) \in Seq(R!Queries) /\ R!CanManage(u) # <<>>
      <3>1. /\ R!IsLeader(u) \in Seq(R!Queries) /\ R!IsLeader(u) # <<>>
            /\ SourcesOf(R!IsLeader(u)) = {R!Admin, R!RowOf(u), R!PrefixedRoleOf(u)}
        BY <1>3, LeaderLooks
      <3>2. /\ R!IsManager(Above[u]) \in Seq(R!Queries)
            /\ SourcesOf(R!IsManager(Above[u])) = {R!Admin, R!RowOf(Above[u]), R!RoleOf(Above[u])}
        BY <2>2, ManagerLooks
      <3> QED BY <2>1, <3>1, <3>2, JoinedSources
    <2> QED BY <2>1, <2>2, <2>3, Names DEF Entitles
  <1> QED BY <1>1, <1>2, <1>3, Kind

LEMMA AccessLooks ==
  ASSUME NEW u \in R!Units, NEW q
  PROVE  /\ R!RoleAt(u) = R!Ever(R!RoleOf(u))
         /\ R!CanAccessUnit(u) \in Seq(R!Queries) /\ R!CanAccessUnit(u) # <<>>
         /\ \A s \in SourcesOf(R!CanAccessUnit(u)) : Entitles(q, s, u)
         /\ u \notin Teams => \A l \in R!LineOf(q, u) : R!RoleOf(l) \in SourcesOf(R!CanAccessUnit(u))
  <1>1. R!RoleAt(u) = R!Ever(R!RoleOf(u))
    BY DEF R!RoleAt, R!IsFactoryManager, R!IsLineManager, R!IsTeamLeader, R!IsGroupLeader
  <1>2. SourcesOf(R!CanAccessUnit(u)) = {R!Admin, R!RoleOf(u)}
    BY <1>1, FewSources, QueriesAre DEF R!CanAccessUnit
  <1>3. R!CanAccessUnit(u) \in Seq(R!Queries)
    <2> DEFINE a == R!Ever(R!Admin)  b == R!Ever(R!RoleOf(u))
    <2>1. a \in R!Queries /\ b \in R!Queries
      BY QueriesAre
    <2> HIDE DEF a, b
    <2>2. <<a, b>> \in Seq(R!Queries)
      BY <2>1
    <2> QED BY <1>1, <2>2 DEF R!CanAccessUnit, a, b
  <1>4. \A s \in SourcesOf(R!CanAccessUnit(u)) : Entitles(q, s, u)
    BY <1>2, Kind, UpwardHas, Names DEF Entitles
  <1>5. u \notin Teams => \A l \in R!LineOf(q, u) : R!RoleOf(l) \in SourcesOf(R!CanAccessUnit(u))
    BY <1>2, Kind DEF R!LineOf
  <1> QED BY <1>1, <1>3, <1>4, <1>5 DEF R!CanAccessUnit

(* The role at the unit of one kind that a user is in.                     *)
RolesAt(P, kind) == IF P \cap kind = {} THEN <<>> ELSE <<R!RoleAt(CHOOSE u \in P : u \in kind)>>
RolesOf(U) == {R!RoleOf(u) : u \in U}

LEMMA KindLooks ==
  ASSUME NEW P \in R!Places, NEW kind \in {Factories, Lines, Teams, Groups}
  PROVE  /\ RolesAt(P, kind) \in Seq(R!Queries) /\ (P \cap kind # {} => RolesAt(P, kind) # <<>>)
         /\ SourcesOf(RolesAt(P, kind)) = RolesOf(P \cap kind)
  <1>1. CASE P \cap kind = {}
    <2>1. RolesAt(P, kind) = <<>> /\ RolesOf(P \cap kind) = {}
      BY <1>1 DEF RolesAt, RolesOf
    <2>2. <<>> \in Seq(R!Queries) /\ SourcesOf(<<>>) = {}
      BY FewSources
    <2> QED BY <1>1, <2>1, <2>2
  <1>2. ASSUME NEW u \in P \cap kind
        PROVE  /\ RolesAt(P, kind) \in Seq(R!Queries) /\ RolesAt(P, kind) # <<>>
               /\ SourcesOf(RolesAt(P, kind)) = RolesOf(P \cap kind)
    <2>1. \A v \in P \cap kind : v = u
      BY <1>2 DEF R!Places
    <2>2. (CHOOSE v \in P : v \in kind) = u
      BY <2>1
    <2>3. u \in R!Units
      BY DEF R!Places
    <2>4. RolesAt(P, kind) = <<R!Ever(R!RoleOf(u))>> /\ R!Ever(R!RoleOf(u)) \in R!Queries
      BY <2>2, <2>3, AccessLooks, QueriesAre DEF RolesAt
    <2>5. RolesOf(P \cap kind) = {R!RoleOf(u)}
      BY <2>1 DEF RolesOf
    <2>6. SourcesOf(RolesAt(P, kind)) = {R!RoleOf(u)}
      BY <2>4, FewSources, QueriesAre
    <2> QED BY <2>4, <2>5, <2>6
  <1> QED BY <1>1, <1>2

LEMMA UserLooks ==
  ASSUME NEW P \in R!Places
  PROVE  /\ R!CanAccessUser(P) \in Seq(R!Queries) /\ (P # {} => R!CanAccessUser(P) # <<>>)
         /\ \A s \in SourcesOf(R!CanAccessUser(P)) : s # R!Admin /\ s[2] \in P
         /\ \A l \in P \cap Lines : R!RoleOf(l) \in SourcesOf(R!CanAccessUser(P))
  <1> DEFINE F == RolesAt(P, Factories)  L == RolesAt(P, Lines)
             T == RolesAt(P, Teams)  G == RolesAt(P, Groups)
  <1>1. R!CanAccessUser(P) = F \o L \o T \o G
    BY DEF R!CanAccessUser, RolesAt
  <1>2. /\ F \in Seq(R!Queries) /\ SourcesOf(F) = RolesOf(P \cap Factories) /\ (P \cap Factories # {} => F # <<>>)
        /\ L \in Seq(R!Queries) /\ SourcesOf(L) = RolesOf(P \cap Lines) /\ (P \cap Lines # {} => L # <<>>)
        /\ T \in Seq(R!Queries) /\ SourcesOf(T) = RolesOf(P \cap Teams) /\ (P \cap Teams # {} => T # <<>>)
        /\ G \in Seq(R!Queries) /\ SourcesOf(G) = RolesOf(P \cap Groups) /\ (P \cap Groups # {} => G # <<>>)
    BY KindLooks
  <1> DEFINE FL == F \o L  FLT == FL \o T
  <1>3. \A a, b \in Seq(R!Queries) :
          /\ a \o b \in Seq(R!Queries) /\ SourcesOf(a \o b) = SourcesOf(a) \cup SourcesOf(b)
          /\ (a # <<>> \/ b # <<>> => a \o b # <<>>)
    BY JoinedSources
  <1> HIDE DEF F, L, T, G
  <1>4. /\ FL \in Seq(R!Queries) /\ SourcesOf(FL) = SourcesOf(F) \cup SourcesOf(L)
        /\ (F # <<>> \/ L # <<>> => FL # <<>>)
    BY <1>2, <1>3, Zenon
  <1> HIDE DEF FL
  <1>5. /\ FLT \in Seq(R!Queries) /\ SourcesOf(FLT) = SourcesOf(FL) \cup SourcesOf(T)
        /\ (FL # <<>> \/ T # <<>> => FLT # <<>>)
    BY <1>2, <1>3, <1>4, Zenon
  <1> HIDE DEF FLT
  <1>6. /\ FLT \o G \in Seq(R!Queries) /\ SourcesOf(FLT \o G) = SourcesOf(FLT) \cup SourcesOf(G)
        /\ (FLT # <<>> \/ G # <<>> => FLT \o G # <<>>)
    BY <1>2, <1>3, <1>5, Zenon
  <1>7. P \subseteq Factories \cup Lines \cup Teams \cup Groups
    BY DEF R!Places, R!Units
  <1>8. SourcesOf(FLT \o G) = RolesOf(P)
    BY <1>2, <1>4, <1>5, <1>6, <1>7 DEF RolesOf
  <1>9. P # {} => FLT \o G # <<>>
    BY <1>2, <1>4, <1>5, <1>6, <1>7
  <1>10. R!CanAccessUser(P) = FLT \o G
    BY <1>1 DEF FLT, FL
  <1> QED BY <1>6, <1>8, <1>9, <1>10, Names DEF RolesOf

-----------------------------------------------------------------------------
(* The steps.                                                              *)
LEMMA SourceIs ==
  ASSUME NEW s \in R!Sources
  PROVE  \/ s = R!Admin
         \/ \E u \in Factories \cup Lines \cup Teams : s = R!RowOf(u)
         \/ \E u \in R!Units : s = R!RoleOf(u)
         \/ \E t \in Teams : s = R!PrefixedRoleOf(t)
  BY DEF R!Sources

LEMMA RowSource ==
  ASSUME NEW s \in R!Sources, s[1] = "row"
  PROVE  s[2] \in R!Units /\ \A u : s # R!RowOf(u) => s[2] # u
  <1>1. PICK u \in R!Units : s = R!RowOf(u)
    BY SourceIs, Names, Kind
  <1> QED BY <1>1, Names

LEMMA PrefixedSource ==
  ASSUME NEW s \in R!Sources, s[1] = "team:"
  PROVE  \E t \in Teams : s = R!PrefixedRoleOf(t)
  BY SourceIs, Names

LEMMA ThereAre == R!Valid \subseteq R!There /\ R!There \subseteq R!Sources
  BY DEF R!Valid, R!There

LEMMA RightsInit == R!Init => RightsInv
  <1> SUFFICES ASSUME R!Init PROVE RightsInv
    OBVIOUS
  <1>1. /\ fact \in [R!Sources -> {"none", "running", "over"}]
        /\ here = R!Units /\ place \in R!Places /\ ask = R!Idle
    BY DEF R!Init
  <1>2. place \subseteq here
    BY <1>1 DEF R!Places
  <1>3. \A u \in here \ Factories : Above[u] \in here
    BY <1>1, Kind
  <1>4. \A s \in R!There : s[1] = "row" => s[2] \in here
    <2>1. ASSUME NEW s \in R!There, s[1] = "row"
          PROVE  s[2] \in R!Units
      <3>1. s \in R!Sources
        BY ThereAre
      <3> QED BY <2>1, <3>1, RowSource
    <2> QED BY <1>1, <2>1
  <1> QED BY <1>1, <1>2, <1>3, <1>4 DEF RightsInv, R!TypeOK, QInv

(* The question goes on, and nothing else changes.                         *)
LEMMA QuestionStep ==
  ASSUME RightsInv, R!Same, NEW q \in R!Questions, ask' = q,
         q.steady \subseteq q.seen, Kinds(q), Complete(q), Sound(q), q.home \subseteq q.been,
         q.pc # "done" =>
           /\ q.steady \subseteq R!Valid /\ R!There \subseteq q.seen
           /\ q.stayed \subseteq here /\ q.home \subseteq place /\ place \subseteq q.been
  PROVE  RightsInv'
  <1>1. fact' = fact /\ here' = here /\ place' = place
    BY DEF R!Same
  <1>2. R!There' = R!There /\ R!Valid' = R!Valid
    BY <1>1 DEF R!There, R!Valid
  <1>3. R!TypeOK'
    BY <1>1, <1>2 DEF RightsInv, R!TypeOK
  <1>4. Fresh'
    BY <1>1, <1>2 DEF Fresh
  <1>5. Kinds(ask)' /\ Complete(ask)' /\ Sound(ask)'
    OBVIOUS
  <1> QED BY <1>3, <1>4, <1>5 DEF RightsInv, QInv

(* Of a question that is being answered, what the reading of it leaves.    *)
Keeps(q, p) ==
  /\ p.op = q.op /\ p.unit = q.unit /\ p.changes = q.changes /\ p.steady = q.steady /\ p.seen = q.seen
  /\ p.stayed = q.stayed /\ p.home = q.home /\ p.been = q.been

LEMMA Reading ==
  ASSUME RightsInv, R!Same, ask # R!Idle, ask.pc # "done", NEW p \in R!Questions, ask' = p, Keeps(ask, p),
         Kinds(p), Complete(p), Sound(p)
  PROVE  RightsInv'
  <1>1. Fresh /\ ask.steady \subseteq ask.seen
    BY DEF RightsInv, QInv, R!TypeOK
  <1> QED BY <1>1, QuestionStep DEF Fresh, Keeps

LEMMA SameScope ==
  ASSUME NEW q, NEW p, Keeps(q, p)
  PROVE  /\ R!About(p) = R!About(q) /\ \A x : R!LineOf(p, x) = R!LineOf(q, x)
         /\ \A x : R!Upward(p, x) = R!Upward(q, x)
         /\ \A s, x : Entitles(p, s, x) <=> Entitles(q, s, x)
  <1>1. R!About(p) = R!About(q) /\ \A x : R!LineOf(p, x) = R!LineOf(q, x)
    BY DEF R!About, R!LineOf, Keeps
  <1>2. \A x : R!Upward(p, x) = R!Upward(q, x)
    BY DEF R!Upward, Keeps
  <1> QED BY <1>1, <1>2 DEF Entitles

LEMMA AboutIs ==
  ASSUME NEW q
  PROVE  /\ q.op = "factories" => R!About(q) = {}
         /\ q.op = "lines" => R!About(q) = Lines
         /\ q.op = "teams" => R!About(q) = Teams
         /\ q.op = "access" => R!About(q) = {q.unit} \ Teams
         /\ q.op \in {"manage", "user"} => R!About(q) = {q.unit}
  BY DEF R!About

(* The world changes while a question is answered.                         *)
LEMMA ChangeStep ==
  ASSUME RightsInv, R!Change, here' \subseteq R!Units, place' \subseteq R!Units
  PROVE  QInv' /\ ask \in R!Questions /\ ask' \in R!Questions /\ ask'.steady \subseteq ask'.seen
  <1>1. /\ ask # R!Idle /\ ask.pc # "done" /\ ask.changes < MaxChanges
        /\ ask' = [ask EXCEPT !.changes = @ + 1, !.steady = @ \cap R!Valid', !.seen = @ \cup R!There',
                              !.stayed = @ \cap here', !.home = @ \cap place', !.been = @ \cup place']
    BY DEF R!Change
  <1>2. /\ ask \in R!Questions /\ ask.steady \subseteq ask.seen /\ ask.changes \in 0..MaxChanges
        /\ ask.steady \subseteq R!Sources /\ ask.seen \subseteq R!Sources /\ ask.stayed \subseteq R!Units
        /\ ask.home \subseteq R!Units /\ ask.been \subseteq R!Units
    BY <1>1 DEF RightsInv, R!TypeOK, R!Questions
  <1>3. Kinds(ask) /\ Complete(ask) /\ Sound(ask) /\ Fresh
    BY <1>1 DEF RightsInv, QInv
  <1>4. R!Valid' \subseteq R!There' /\ R!There' \subseteq R!Sources
    BY DEF R!Valid, R!There
  <1>5. /\ ask'.op = ask.op /\ ask'.pc = ask.pc /\ ask'.unit = ask.unit /\ ask'.looks = ask.looks
        /\ ask'.above = ask.above /\ ask'.got = ask.got /\ ask'.changes = ask.changes + 1
        /\ ask'.steady = ask.steady \cap R!Valid' /\ ask'.seen = ask.seen \cup R!There'
        /\ ask'.stayed = ask.stayed \cap here' /\ ask'.home = ask.home \cap place'
        /\ ask'.been = ask.been \cup place'
    BY <1>1, <1>2 DEF R!Questions
  <1>6. ask' \in R!Questions
    <2>1. ask.changes + 1 \in 0..MaxChanges
      BY <1>1, <1>2, PeopleAssumption
    <2>2. /\ ask'.steady \subseteq R!Sources /\ ask'.seen \subseteq R!Sources /\ ask'.stayed \subseteq R!Units
          /\ ask'.home \subseteq R!Units /\ ask'.been \subseteq R!Units
      BY <1>2, <1>4, <1>5
    <2>3. ask' = [op |-> ask.op, pc |-> ask.pc, unit |-> ask.unit, looks |-> ask.looks, above |-> ask.above,
                  got |-> ask.got, changes |-> ask.changes + 1, steady |-> ask'.steady, seen |-> ask'.seen,
                  stayed |-> ask'.stayed, home |-> ask'.home, been |-> ask'.been]
      BY <1>1, <1>2 DEF R!Questions
    <2> QED BY <1>2, <2>1, <2>2, <2>3 DEF R!Questions
  <1>7. ask'.steady \subseteq ask'.seen
    BY <1>2, <1>5
  <1> DEFINE p == ask'
  <1>8. /\ p.op = ask.op /\ p.pc = ask.pc /\ p.unit = ask.unit /\ p.looks = ask.looks
        /\ p.above = ask.above /\ p.got = ask.got
        /\ p.steady \subseteq ask.steady /\ ask.seen \subseteq p.seen
        /\ p.stayed \subseteq ask.stayed /\ p.home \subseteq ask.home /\ ask.been \subseteq p.been
    BY <1>5
  <1>9. Fresh'
    BY <1>3, <1>5 DEF Fresh
  <1> HIDE DEF p
  <1>10. Kinds(p)
    BY <1>3, <1>8 DEF Kinds
  <1>11. Complete(p)
    <2>1. SUFFICES ASSUME NEW x \in R!About(p) \cap (p.stayed \cup {Other}),
                          NEW l \in R!LineOf(p, x), R!RoleOf(l) \in p.steady
                   PROVE  Promised(p, x, l)
      BY DEF Complete
    <2>2. R!About(p) = R!About(ask)
      BY <1>8 DEF R!About
    <2>3. l \in R!LineOf(ask, x)
      BY <1>8 DEF R!LineOf
    <2>4. Promised(ask, x, l)
      BY <1>3, <1>8, <2>1, <2>2, <2>3 DEF Complete
    <2> QED BY <1>8, <2>4 DEF Promised
  <1>12. Sound(p)
    <2>1. \A s, x : Entitles(ask, s, x) => Entitles(p, s, x)
      BY <1>8, UpwardGrows DEF Entitles
    <2>2. p.pc = "look" => \A s \in SourcesOf(p.looks) : Entitles(p, s, p.unit)
      BY <1>3, <1>8, <2>1 DEF Sound
    <2>3. \A x \in p.got \cap (R!Units \cup {Other}) : \E s \in p.seen : Entitles(p, s, x)
      BY <1>3, <1>8, <2>1 DEF Sound
    <2>4. p.pc = "below" => \A u \in p.above : R!RoleOf(u) \in p.seen
      BY <1>3, <1>8 DEF Sound
    <2> QED BY <2>2, <2>3, <2>4 DEF Sound
  <1>13. Kinds(ask)' /\ Complete(ask)' /\ Sound(ask)'
    BY <1>10, <1>11, <1>12 DEF p
  <1> QED BY <1>2, <1>6, <1>7, <1>9, <1>13 DEF QInv

LEMMA SetFactStep ==
  ASSUME RightsInv, NEW s \in R!Sources, NEW v \in {"none", "running", "over"}, R!SetFact(s, v)
  PROVE  RightsInv'
  <1>1. /\ s[1] = "row" => s[2] \in here
        /\ fact' = [fact EXCEPT ![s] = v] /\ here' = here /\ place' = place /\ R!Change
    BY DEF R!SetFact
  <1>2. /\ fact \in [R!Sources -> {"none", "running", "over"}]
        /\ here \subseteq R!Units /\ place \in R!Places /\ place \subseteq here
        /\ \A u \in here \ Factories : Above[u] \in here
        /\ \A t \in R!There : t[1] = "row" => t[2] \in here
    BY DEF RightsInv, R!TypeOK
  <1>3. fact' \in [R!Sources -> {"none", "running", "over"}]
    BY <1>1, <1>2
  <1>4. R!There' \subseteq R!There \cup {s}
    BY <1>1, <1>2 DEF R!There
  <1>5. \A t \in R!There' : t[1] = "row" => t[2] \in here
    BY <1>1, <1>2, <1>4
  <1>6. QInv' /\ ask' \in R!Questions /\ ask'.steady \subseteq ask'.seen
    BY <1>1, <1>2, ChangeStep
  <1> QED BY <1>1, <1>2, <1>3, <1>5, <1>6 DEF RightsInv, R!TypeOK

LEMMA DeleteUnitStep ==
  ASSUME RightsInv, NEW u \in R!Units, R!DeleteUnit(u)
  PROVE  RightsInv'
  <1>1. /\ u \in here /\ \A v \in here \ Factories : Above[v] # u
        /\ here' = here \ {u} /\ place' = place \ {u}
        /\ fact' = [s \in R!Sources |-> IF s = R!RowOf(u) THEN "none" ELSE fact[s]]
        /\ R!Change
    BY DEF R!DeleteUnit
  <1>2. /\ fact \in [R!Sources -> {"none", "running", "over"}]
        /\ here \subseteq R!Units /\ place \in R!Places /\ place \subseteq here
        /\ \A v \in here \ Factories : Above[v] \in here
        /\ \A s \in R!There : s[1] = "row" => s[2] \in here
    BY DEF RightsInv, R!TypeOK
  <1>3. fact' \in [R!Sources -> {"none", "running", "over"}]
    BY <1>1, <1>2
  <1>4. place' \in R!Places /\ place' \subseteq here' /\ here' \subseteq R!Units
    BY <1>1, <1>2 DEF R!Places
  <1>5. \A v \in here' \ Factories : Above[v] \in here'
    BY <1>1, <1>2
  <1>6. \A s \in R!There' : s \in R!There /\ s # R!RowOf(u)
    BY <1>1, <1>2 DEF R!There
  <1>7. \A s \in R!There' : s[1] = "row" => s[2] \in here'
    <2>1. SUFFICES ASSUME NEW s \in R!There', s[1] = "row"
                   PROVE  s[2] \in here'
      OBVIOUS
    <2>2. s \in R!There /\ s # R!RowOf(u) /\ s \in R!Sources
      BY <1>6, ThereAre
    <2>3. s[2] # u
      BY <2>1, <2>2, RowSource
    <2>4. s[2] \in here
      BY <1>2, <2>1, <2>2
    <2> QED BY <1>1, <2>3, <2>4
  <1>8. place' \subseteq R!Units
    BY <1>4
  <1>9. QInv' /\ ask' \in R!Questions /\ ask'.steady \subseteq ask'.seen
    BY <1>1, <1>4, <1>8, ChangeStep
  <1> QED BY <1>3, <1>4, <1>5, <1>7, <1>9 DEF RightsInv, R!TypeOK

LEMMA MoveUserStep ==
  ASSUME RightsInv, NEW P \in R!Places, R!MoveUser(P)
  PROVE  RightsInv'
  <1>1. P \subseteq here /\ place' = P /\ fact' = fact /\ here' = here /\ R!Change
    BY DEF R!MoveUser
  <1>2. /\ fact \in [R!Sources -> {"none", "running", "over"}] /\ here \subseteq R!Units
        /\ \A u \in here \ Factories : Above[u] \in here
        /\ \A s \in R!There : s[1] = "row" => s[2] \in here
    BY DEF RightsInv, R!TypeOK
  <1>3. R!There' = R!There
    BY <1>1 DEF R!There
  <1>4. QInv' /\ ask' \in R!Questions /\ ask'.steady \subseteq ask'.seen
    BY <1>1, <1>2, ChangeStep
  <1> QED BY <1>1, <1>2, <1>3, <1>4 DEF RightsInv, R!TypeOK

(* Asking.                                                                 *)
LEMMA AskedStep ==
  ASSUME RightsInv, R!Same,
         NEW op \in {"manage", "access", "user", "factories", "lines", "teams"}, NEW pc \in {"look", "roles"},
         NEW u \in R!Units \cup {Other, Null}, NEW looks \in Seq(R!Queries),
         ask' = R!Asked(op, pc, u, looks), Kinds(R!Asked(op, pc, u, looks)),
         pc = "look" => \A s \in SourcesOf(looks) : Entitles(R!Asked(op, pc, u, looks), s, u),
         \A x \in R!About(R!Asked(op, pc, u, looks)) : \A l \in R!LineOf(R!Asked(op, pc, u, looks), x) :
           Promised(R!Asked(op, pc, u, looks), x, l)
  PROVE  RightsInv'
  <1> DEFINE q == R!Asked(op, pc, u, looks)
  <1>1. /\ q.op = op /\ q.pc = pc /\ q.unit = u /\ q.looks = looks /\ q.above = {} /\ q.got = {}
        /\ q.changes = 0 /\ q.steady = R!Valid /\ q.seen = R!There /\ q.stayed = here
        /\ q.home = place /\ q.been = place
    BY DEF R!Asked
  <1>2. R!Valid \subseteq R!Sources /\ R!There \subseteq R!Sources /\ R!Valid \subseteq R!There
    BY ThereAre
  <1>3. here \subseteq R!Units /\ place \subseteq R!Units
    BY DEF RightsInv, R!TypeOK
  <1>4. q \in R!Questions
    <2>1. 0 \in 0..MaxChanges
      BY PeopleAssumption
    <2> QED BY <1>2, <1>3, <2>1 DEF R!Questions, R!Asked
  <1>5. Complete(q)
    BY DEF Complete
  <1>6. Sound(q)
    BY <1>1 DEF Sound
  <1>7. Kinds(q) /\ ask' = q
    OBVIOUS
  <1> HIDE DEF q
  <1> QED BY <1>1, <1>2, <1>4, <1>5, <1>6, <1>7, QuestionStep

LEMMA AskStep == ASSUME RightsInv, R!Ask PROVE RightsInv'
  <1>1. R!Same /\ here \subseteq R!Units
    BY DEF R!Ask, RightsInv, R!TypeOK
  <1>2. \A op, pc, u, looks : /\ R!Asked(op, pc, u, looks).op = op /\ R!Asked(op, pc, u, looks).pc = pc
                              /\ R!Asked(op, pc, u, looks).unit = u /\ R!Asked(op, pc, u, looks).looks = looks
                              /\ R!Asked(op, pc, u, looks).got = {} /\ R!Asked(op, pc, u, looks).been = place
    BY DEF R!Asked
  <1>3. ASSUME NEW u \in here \ Groups, R!AskManage(u)
        PROVE  RightsInv'
    <2> DEFINE q == R!Asked("manage", "look", u, R!CanManage(u))
    <2>1. u \in R!Units \ Groups
      BY <1>1
    <2>2. /\ R!CanManage(u) \in Seq(R!Queries) /\ R!CanManage(u) # <<>>
          /\ \A s \in SourcesOf(R!CanManage(u)) : Entitles(q, s, u)
          /\ \A l \in R!LineOf(q, u) : R!RoleOf(l) \in SourcesOf(R!CanManage(u))
      BY <2>1, ManageLooks
    <2>3. ask' = q /\ q.op = "manage" /\ q.pc = "look" /\ q.unit = u /\ q.looks = R!CanManage(u)
          /\ q.got = {}
      BY <1>2, <1>3 DEF R!AskManage
    <2>4. Kinds(q)
      BY <2>1, <2>2, <2>3 DEF Kinds
    <2>5. R!About(q) = {u}
      BY <2>3, AboutIs
    <2>6. \A x \in R!About(q) : \A l \in R!LineOf(q, x) : Promised(q, x, l)
      BY <2>2, <2>3, <2>5 DEF Promised
    <2> QED BY <1>1, <2>1, <2>2, <2>3, <2>4, <2>6, AskedStep
  <1>4. ASSUME NEW u \in here, R!AskUnit(u)
        PROVE  RightsInv'
    <2> DEFINE q == R!Asked("access", "look", u, R!CanAccessUnit(u))
    <2>1. u \in R!Units
      BY <1>1
    <2>2. /\ R!CanAccessUnit(u) \in Seq(R!Queries) /\ R!CanAccessUnit(u) # <<>>
          /\ \A s \in SourcesOf(R!CanAccessUnit(u)) : Entitles(q, s, u)
          /\ u \notin Teams => \A l \in R!LineOf(q, u) : R!RoleOf(l) \in SourcesOf(R!CanAccessUnit(u))
      BY <2>1, AccessLooks
    <2>3. ask' = q /\ q.op = "access" /\ q.pc = "look" /\ q.unit = u /\ q.looks = R!CanAccessUnit(u)
          /\ q.got = {}
      BY <1>2, <1>4 DEF R!AskUnit
    <2>4. Kinds(q)
      BY <2>1, <2>2, <2>3 DEF Kinds
    <2>5. R!About(q) = {u} \ Teams
      BY <2>3, AboutIs
    <2>6. \A x \in R!About(q) : \A l \in R!LineOf(q, x) : Promised(q, x, l)
      BY <2>2, <2>3, <2>5 DEF Promised
    <2> QED BY <1>1, <2>1, <2>2, <2>3, <2>4, <2>6, AskedStep
  <1>5. /\ <<R!Ever(R!Admin)>> \in Seq(R!Queries) /\ <<R!Ever(R!Admin)>> # <<>>
        /\ SourcesOf(<<R!Ever(R!Admin)>>) = {R!Admin}
        /\ <<>> \in Seq(R!Queries)
    BY QueriesAre, FewSources
  <1>6. CASE R!AskUser
    <2> DEFINE q == R!Asked("user", "look", Other, <<R!Ever(R!Admin)>>)
    <2>1. ask' = q /\ q.op = "user" /\ q.pc = "look" /\ q.unit = Other
          /\ q.looks = <<R!Ever(R!Admin)>>
          /\ q.got = {}
      BY <1>2, <1>6 DEF R!AskUser
    <2>2. Kinds(q)
      BY <1>5, <2>1 DEF Kinds
    <2>3. \A x \in R!About(q) : \A l \in R!LineOf(q, x) : Promised(q, x, l)
      BY <2>1 DEF Promised
    <2>4. \A s \in SourcesOf(<<R!Ever(R!Admin)>>) : Entitles(q, s, Other)
      BY <1>5 DEF Entitles
    <2> QED BY <1>1, <1>5, <2>1, <2>2, <2>3, <2>4, AskedStep
  <1>7. CASE R!AskFactories
    <2> DEFINE q == R!Asked("factories", "roles", Null, <<>>)
    <2>1. ask' = q /\ q.op = "factories" /\ q.pc = "roles" /\ q.unit = Null /\ q.looks = <<>>
          /\ q.got = {}
      BY <1>2, <1>7 DEF R!AskFactories
    <2>2. Kinds(q)
      BY <2>1 DEF Kinds
    <2>3. \A x \in R!About(q) : \A l \in R!LineOf(q, x) : Promised(q, x, l)
      BY <2>1 DEF Promised
    <2> QED BY <1>1, <1>5, <2>1, <2>2, <2>3, AskedStep
  <1>8. CASE R!AskLines
    <2> DEFINE q == R!Asked("lines", "roles", Null, <<>>)
    <2>1. ask' = q /\ q.op = "lines" /\ q.pc = "roles" /\ q.unit = Null /\ q.looks = <<>>
          /\ q.got = {}
      BY <1>2, <1>8 DEF R!AskLines
    <2>2. Kinds(q)
      BY <2>1 DEF Kinds
    <2>3. \A x \in R!About(q) : \A l \in R!LineOf(q, x) : Promised(q, x, l)
      BY <2>1 DEF Promised
    <2> QED BY <1>1, <1>5, <2>1, <2>2, <2>3, AskedStep
  <1>9. CASE R!AskTeams
    <2> DEFINE q == R!Asked("teams", "look", Null, <<R!Ever(R!Admin)>>)
    <2>1. ask' = q /\ q.op = "teams" /\ q.pc = "look" /\ q.unit = Null
          /\ q.looks = <<R!Ever(R!Admin)>>
          /\ q.got = {}
      BY <1>2, <1>9 DEF R!AskTeams
    <2>2. Kinds(q)
      BY <1>5, <2>1 DEF Kinds
    <2>3. \A x \in R!About(q) : \A l \in R!LineOf(q, x) : Promised(q, x, l)
      BY <2>1 DEF Promised
    <2>4. \A s \in SourcesOf(<<R!Ever(R!Admin)>>) : Entitles(q, s, Null)
      BY <1>5 DEF Entitles
    <2> QED BY <1>1, <1>5, <2>1, <2>2, <2>3, <2>4, AskedStep
  <1> QED BY <1>3, <1>4, <1>6, <1>7, <1>8, <1>9 DEF R!Ask

-----------------------------------------------------------------------------
(* Answering.                                                              *)
LEMMA LookStep == ASSUME RightsInv, R!Look PROVE RightsInv'
  <1> DEFINE head == Head(ask.looks)  tail == Tail(ask.looks)
             after == IF Len(ask.looks) > 1 THEN "look"
                      ELSE IF ask.op = "user" /\ Head(ask.looks) = R!Ever(R!Admin) THEN "target"
                      ELSE IF ask.op = "teams" THEN "roles" ELSE "done"
  <1>1. /\ ask # R!Idle /\ ask.pc = "look" /\ R!Same
        /\ ask' = IF R!Finds(head) THEN [ask EXCEPT !.pc = "done", !.got = R!Yes]
                  ELSE [ask EXCEPT !.pc = after, !.looks = tail]
    BY DEF R!Look
  <1>2. /\ ask \in R!Questions /\ here \subseteq R!Units
        /\ Kinds(ask) /\ Complete(ask) /\ Sound(ask) /\ Fresh
    BY <1>1 DEF RightsInv, R!TypeOK, QInv
  <1>3. /\ ask.looks \in Seq(R!Queries) /\ ask.looks # <<>> /\ ask.got = {}
        /\ ask.unit \in R!Units \cup {Other, Null}
        /\ ask.op \in {"manage", "access", "user", "teams"}
        /\ ask.op \in {"manage", "access"} => ask.unit \in R!Units
        /\ ask.op = "user" => ask.unit = Other
        /\ ask.op = "teams" => ask.looks = <<R!Ever(R!Admin)>>
    BY <1>1, <1>2 DEF R!Questions, Kinds
  <1>4. /\ SourcesOf(ask.looks) = {head.source} \cup SourcesOf(tail)
        /\ tail \in Seq(R!Queries) /\ head \in R!Queries
        /\ Len(ask.looks) <= 1 => tail = <<>>
        /\ Len(ask.looks) > 1 => tail # <<>>
    BY <1>3, TailSources
  <1>5. ask.op = "teams" => head = R!Ever(R!Admin) /\ ~(Len(ask.looks) > 1)
    <2>1. Head(<<R!Ever(R!Admin)>>) = R!Ever(R!Admin) /\ Len(<<R!Ever(R!Admin)>>) = 1 /\ ~(1 > 1)
      OBVIOUS
    <2>2. ask.op = "teams" => ask.looks = <<R!Ever(R!Admin)>>
      BY <1>3
    <2> QED BY <2>1, <2>2, Zenon
  <1>6. R!Finds(head) => head.source \in ask.seen
    BY <1>1, <1>2, ThereAre DEF R!Finds, Fresh
  <1>7. head.source \in ask.steady => R!Finds(head)
    BY <1>1, <1>2, ThereAre DEF R!Finds, Fresh
  <1>8. ask.stayed \subseteq here
    BY <1>1, <1>2 DEF Fresh
  <1>9. CASE R!Finds(head)
    <2> DEFINE p == [ask EXCEPT !.pc = "done", !.got = R!Yes]
    <2>1. R!Yes \subseteq R!Units \cup {Other}
      BY <1>2, <1>3 DEF R!Yes, R!Units
    <2>2. /\ p \in R!Questions /\ p.pc = "done" /\ p.got = R!Yes /\ Keeps(ask, p) /\ p.op = ask.op
          /\ p.unit = ask.unit /\ p.looks = ask.looks
      BY <1>2, <2>1 DEF R!Questions, Keeps
    <2>3. ask' = p
      BY <1>1, <1>9
    <2> HIDE DEF p
    <2>4. Kinds(p)
      BY <1>2, <2>2 DEF Kinds
    <2>5. Complete(p)
      <3>1. \A x \in R!About(p) \cap (p.stayed \cup {Other}) : x \in R!Yes
        <4>1. CASE ask.op = "teams"
          <5>1. R!About(p) = Teams /\ R!Yes = here \cap Teams /\ p.stayed \subseteq here /\ Other \notin Teams
            BY <1>8, <2>2, <4>1, AboutIs, Kind DEF Keeps, R!Yes
          <5> QED BY <5>1
        <4>2. CASE ask.op # "teams"
          <5>1. R!About(p) \subseteq {ask.unit} /\ R!Yes = {ask.unit}
            BY <1>3, <2>2, <4>2, AboutIs DEF R!Yes
          <5> QED BY <5>1
        <4> QED BY <4>1, <4>2
      <3> QED BY <2>2, <3>1 DEF Complete, Promised
    <2>6. Sound(p)
      <3>1. \A x \in R!Yes : Entitles(ask, head.source, x)
        <4>1. CASE ask.op = "teams"
          BY <1>5, <4>1, QueriesAre DEF Entitles
        <4>2. CASE ask.op # "teams"
          BY <1>1, <1>2, <1>4, <4>2 DEF R!Yes, Sound
        <4> QED BY <4>1, <4>2
      <3>2. \A x \in p.got : \E s \in p.seen : Entitles(p, s, x)
        BY <1>6, <1>9, <2>2, <3>1, SameScope DEF Keeps
      <3> QED BY <2>2, <3>2 DEF Sound
    <2> QED BY <1>1, <2>2, <2>3, <2>4, <2>5, <2>6, Reading
  <1>10. CASE ~R!Finds(head)
    <2> DEFINE p == [ask EXCEPT !.pc = after, !.looks = tail]
    <2>1. after \in {"look", "target", "roles", "done"}
      OBVIOUS
    <2> HIDE DEF after, tail
    <2>2. /\ p \in R!Questions /\ p.pc = after /\ p.got = {} /\ Keeps(ask, p) /\ p.op = ask.op
          /\ p.unit = ask.unit /\ p.looks = tail
      BY <1>2, <1>3, <1>4, <2>1 DEF R!Questions, Keeps
    <2>3. ask' = p
      BY <1>1, <1>10
    <2> HIDE DEF p
    <2> USE DEF after
    <2>4. Kinds(p)
      BY <1>2, <1>3, <1>4, <1>5, <2>2 DEF Kinds
    <2>5. Complete(p)
      <3>1. SUFFICES ASSUME NEW x \in R!About(p) \cap (p.stayed \cup {Other}),
                          NEW l \in R!LineOf(p, x), R!RoleOf(l) \in p.steady
                     PROVE  Promised(p, x, l)
        BY DEF Complete
      <3>2. R!RoleOf(l) \in ask.steady /\ Promised(ask, x, l)
        BY <1>2, <2>2, <3>1, SameScope DEF Complete, Keeps
      <3>3. CASE ask.op = "teams"
        BY <1>5, <2>2, <3>3 DEF Promised
      <3>4. CASE ask.op = "user" /\ ask.looks = <<R!Ever(R!Admin)>>
        <4>1. head = R!Ever(R!Admin) /\ Len(ask.looks) = 1
          BY <3>4
        <4> QED BY <2>2, <3>4, <4>1 DEF Promised
      <3>5. CASE R!RoleOf(l) \in SourcesOf(ask.looks)
        <4>1. R!RoleOf(l) \in SourcesOf(tail)
          BY <1>4, <1>7, <1>10, <3>2, <3>5
        <4>2. tail # <<>>
          BY <4>1, FewSources
        <4>3. p.pc = "look"
          BY <1>3, <1>4, <2>2, <4>2
        <4> QED BY <2>2, <4>1, <4>3 DEF Promised
      <3> QED BY <1>1, <1>3, <3>2, <3>3, <3>4, <3>5 DEF Promised
    <2>6. Sound(p)
      <3>1. \A s \in SourcesOf(tail) : Entitles(p, s, p.unit)
        BY <1>1, <1>2, <1>4, <2>2, SameScope DEF Sound
      <3> QED BY <2>2, <3>1 DEF Sound
    <2> QED BY <1>1, <2>2, <2>3, <2>4, <2>5, <2>6, Reading
  <1> QED BY <1>9, <1>10

Further(q, got, above, pc) == [q EXCEPT !.got = got, !.above = above, !.pc = pc]

LEMMA ReadAgain ==
  ASSUME NEW q \in R!Questions, NEW above \in SUBSET R!Units,
         NEW got \in SUBSET (R!Units \cup {Other} \cup {R!PrefixedRoleOf(t) : t \in Teams}),
         NEW pc \in {"below", "done"}, NEW p, p = Further(q, got, above, pc)
  PROVE  /\ p \in R!Questions /\ p.pc = pc /\ p.above = above /\ p.got = got
         /\ p.op = q.op /\ p.unit = q.unit /\ Keeps(q, p)
  BY DEF Further, R!Questions, Keeps

LEMMA ReadTargetStep == ASSUME RightsInv, R!ReadTarget PROVE RightsInv'
  <1> DEFINE p == [ask EXCEPT !.looks = R!CanAccessUser(place), !.pc = IF place = {} THEN "done" ELSE "look"]
  <1>1. ask # R!Idle /\ ask.pc = "target" /\ R!Same /\ ask' = p
    BY DEF R!ReadTarget
  <1>2. /\ ask \in R!Questions /\ place \in R!Places
        /\ Kinds(ask) /\ Complete(ask) /\ Sound(ask) /\ Fresh
    BY <1>1 DEF RightsInv, R!TypeOK, QInv
  <1>3. ask.op = "user" /\ ask.unit = Other /\ ask.got = {}
    BY <1>1, <1>2 DEF Kinds, R!Questions
  <1>4. /\ R!CanAccessUser(place) \in Seq(R!Queries) /\ (place # {} => R!CanAccessUser(place) # <<>>)
        /\ \A s \in SourcesOf(R!CanAccessUser(place)) : s # R!Admin /\ s[2] \in place
        /\ \A l \in place \cap Lines : R!RoleOf(l) \in SourcesOf(R!CanAccessUser(place))
    BY <1>2, UserLooks
  <1> DEFINE looks == R!CanAccessUser(place)
  <1> HIDE DEF looks
  <1>5. /\ p \in R!Questions /\ p.pc = IF place = {} THEN "done" ELSE "look"
        /\ p.looks = looks /\ p.got = {} /\ p.op = "user" /\ p.unit = Other /\ Keeps(ask, p)
    BY <1>2, <1>3, <1>4 DEF R!Questions, Keeps, looks
  <1> USE DEF looks
  <1> HIDE DEF p
  <1>6. ask.home \subseteq place /\ place \subseteq ask.been
    BY <1>1, <1>2 DEF Fresh
  <1>7. Kinds(p)
    BY <1>4, <1>5 DEF Kinds
  <1>8. Complete(p)
    <2>1. SUFFICES ASSUME NEW x \in R!About(p) \cap (p.stayed \cup {Other}), NEW l \in R!LineOf(p, x)
                   PROVE  Promised(p, x, l)
      BY DEF Complete
    <2>2. x = Other
      BY <1>5, <2>1, AboutIs
    <2>3. l \in place \cap Lines
      BY <1>5, <1>6, <2>1, <2>2 DEF R!LineOf, Keeps
    <2> QED BY <1>4, <1>5, <2>3 DEF Promised
  <1>9. Sound(p)
    <2>1. place \subseteq R!Upward(p, Other)
      BY <1>5, <1>6, UpwardHas DEF Keeps
    <2>2. \A s \in SourcesOf(p.looks) : Entitles(p, s, p.unit)
      BY <1>4, <1>5, <2>1 DEF Entitles
    <2> QED BY <1>5, <2>2 DEF Sound
  <1> QED BY <1>1, <1>5, <1>7, <1>8, <1>9, Reading

LEMMA ReadRolesStep == ASSUME RightsInv, R!ReadRoles PROVE RightsInv'
  <1>1. ask # R!Idle /\ ask.pc = "roles" /\ R!Same
    BY DEF R!ReadRoles
  <1>2. ask \in R!Questions /\ Kinds(ask) /\ Fresh
    BY <1>1 DEF RightsInv, R!TypeOK, QInv
  <1>3. ask.op \in {"factories", "lines", "teams"}
    BY <1>1, <1>2 DEF Kinds, R!Questions
  <1>4. ask.steady \subseteq R!There /\ R!There \subseteq ask.seen
    BY <1>1, <1>2, ThereAre DEF Fresh
  <1>5. /\ \A kind \in {Factories, Lines, Teams} : R!ManagerialAccess(kind) \subseteq R!Units
        /\ \A kind, u : u \in R!ManagerialAccess(kind) <=> u \in kind /\ R!RoleOf(u) \in R!There
        /\ R!Unnamed \subseteq {R!PrefixedRoleOf(t) : t \in Teams}
        /\ R!Unnamed \cap (R!Units \cup {Other}) = {}
    <2>1. R!Unnamed \subseteq {R!PrefixedRoleOf(t) : t \in Teams}
      BY ThereAre, PrefixedSource DEF R!Unnamed
    <2> QED BY <2>1, PeopleAssumption DEF R!ManagerialAccess, R!Units
  <1> DEFINE Reads(above, got) ==
               ask' = [ask EXCEPT !.got = got, !.above = above,
                                  !.pc = IF above = {} THEN "done" ELSE "below"]
  <1>6. /\ ask.op = "factories" => Reads({}, R!ManagerialAccess(Factories))
        /\ ask.op = "lines" => Reads(R!ManagerialAccess(Factories), R!ManagerialAccess(Lines))
        /\ ask.op = "teams" => Reads(R!ManagerialAccess(Lines), R!ManagerialAccess(Teams) \cup R!Unnamed)
    BY DEF R!ReadRoles
  <1> DEFINE above == IF ask.op = "factories" THEN {}
                      ELSE IF ask.op = "lines" THEN R!ManagerialAccess(Factories) ELSE R!ManagerialAccess(Lines)
             got == IF ask.op = "factories" THEN R!ManagerialAccess(Factories)
                    ELSE IF ask.op = "lines" THEN R!ManagerialAccess(Lines)
                    ELSE R!ManagerialAccess(Teams) \cup R!Unnamed
             after == IF above = {} THEN "done" ELSE "below"
  <1> HIDE DEF Reads
  <1>7. /\ Reads(above, got)
        /\ above \subseteq R!Units /\ got \subseteq R!Units \cup {R!PrefixedRoleOf(t) : t \in Teams}
        /\ \A u \in above \cup (got \cap (R!Units \cup {Other})) : u \in R!Units /\ R!RoleOf(u) \in R!There
        /\ ask.op = "factories" => above = {}
        /\ ask.op = "lines" => got = R!ManagerialAccess(Lines)
        /\ ask.op = "teams" => above = R!ManagerialAccess(Lines)
    <2>1. CASE ask.op = "factories"
      BY <1>5, <1>6, <2>1
    <2>2. CASE ask.op = "lines"
      BY <1>5, <1>6, <2>2
    <2>3. CASE ask.op = "teams"
      BY <1>5, <1>6, <2>3
    <2> QED BY <1>3, <2>1, <2>2, <2>3
  <1> HIDE DEF above, got
  <1>17. Reads(above, got) => ask' = [ask EXCEPT !.got = got, !.above = above, !.pc = after]
    BY DEF Reads
  <1>18. after \in {"below", "done"}
    OBVIOUS
  <1> HIDE DEF after
  <1> DEFINE p == [ask EXCEPT !.got = got, !.above = above, !.pc = after]
  <1>8. /\ p \in R!Questions /\ p.pc = after
        /\ p.above = above /\ p.got = got /\ p.op = ask.op /\ p.unit = ask.unit /\ Keeps(ask, p)
    <2>1. above \in SUBSET R!Units
          /\ got \in SUBSET (R!Units \cup {Other} \cup {R!PrefixedRoleOf(t) : t \in Teams})
      BY <1>7
    <2>2. p = Further(ask, got, above, after)
      BY DEF Further
    <2> HIDE DEF p
    <2>3. ask \in R!Questions
      BY <1>2
    <2> QED BY <1>18, <2>1, <2>2, <2>3, ReadAgain
  <1>9. ask' = p
    BY <1>7, <1>17
  <1> HIDE DEF p
  <1> USE DEF after
  <1>10. Kinds(p)
    BY <1>2, <1>3, <1>7, <1>8 DEF Kinds
  <1>11. Complete(p)
    <2>1. SUFFICES ASSUME NEW x \in R!About(p) \cap (p.stayed \cup {Other}),
                          NEW l \in R!LineOf(p, x), R!RoleOf(l) \in p.steady
                   PROVE  Promised(p, x, l)
      BY DEF Complete
    <2>2. R!RoleOf(l) \in R!There
      BY <1>4, <1>8, <2>1 DEF Keeps
    <2>3. CASE ask.op = "factories"
      BY <1>8, <2>1, <2>3, AboutIs
    <2>4. CASE ask.op = "lines"
      <3>1. x \in Lines /\ l = x
        BY <1>8, <2>1, <2>4, AboutIs, Kind DEF R!LineOf
      <3> QED BY <1>5, <1>7, <1>8, <2>2, <2>4, <3>1 DEF Promised
    <2>5. CASE ask.op = "teams"
      <3>1. x \in Teams /\ l = Above[x] /\ l \in Lines
        BY <1>8, <2>1, <2>5, AboutIs, Kind DEF R!LineOf
      <3>2. l \in above
        BY <1>5, <1>7, <2>2, <2>5, <3>1
      <3> QED BY <1>8, <2>5, <3>2 DEF Promised
    <2> QED BY <1>3, <2>3, <2>4, <2>5
  <1>12. Sound(p)
    <2>1. \A x \in p.got \cap (R!Units \cup {Other}) : \E s \in p.seen : Entitles(p, s, x)
      <3>1. SUFFICES ASSUME NEW x \in p.got \cap (R!Units \cup {Other})
                     PROVE  \E s \in p.seen : Entitles(p, s, x)
        OBVIOUS
      <3>2. x \in R!Units /\ R!RoleOf(x) \in p.seen
        BY <1>4, <1>7, <1>8 DEF Keeps
      <3>3. Entitles(p, R!RoleOf(x), x)
        BY <3>2, Kind, UpwardHas, Names DEF Entitles
      <3> QED BY <3>2, <3>3
    <2>2. \A u \in p.above : R!RoleOf(u) \in p.seen
      BY <1>4, <1>7, <1>8 DEF Keeps
    <2> QED BY <1>8, <2>1, <2>2 DEF Sound
  <1> QED BY <1>1, <1>8, <1>9, <1>10, <1>11, <1>12, Reading

LEMMA ReadBelowStep == ASSUME RightsInv, R!ReadBelow PROVE RightsInv'
  <1>1. ask # R!Idle /\ ask.pc = "below" /\ R!Same
    BY DEF R!ReadBelow
  <1>2. PICK u \in ask.above :
          ask' = [ask EXCEPT !.got = @ \cup {v \in here \ Factories : Above[v] = u},
                             !.above = @ \ {u},
                             !.pc = IF ask.above = {u} THEN "done" ELSE "below"]
    BY DEF R!ReadBelow
  <1>3. /\ ask \in R!Questions /\ here \subseteq R!Units
        /\ Kinds(ask) /\ Complete(ask) /\ Sound(ask) /\ Fresh
    BY <1>1 DEF RightsInv, R!TypeOK, QInv
  <1>4. ask.op \in {"lines", "teams"}
    BY <1>1, <1>3 DEF Kinds, R!Questions
  <1> DEFINE after == IF ask.above = {u} THEN "done" ELSE "below"
             under == {v \in here \ Factories : Above[v] = u}
             p == [ask EXCEPT !.got = ask.got \cup under, !.above = ask.above \ {u},
                              !.pc = after]
  <1>5. under \subseteq R!Units
    BY <1>3
  <1>6. ask' = p
    BY <1>2
  <1> HIDE DEF under
  <1>7. /\ p \in R!Questions /\ p.pc = after
        /\ p.above = ask.above \ {u} /\ p.got = ask.got \cup under /\ p.op = ask.op /\ p.unit = ask.unit
        /\ Keeps(ask, p)
    <2>1. after \in {"below", "done"}
      OBVIOUS
    <2> DEFINE rest == ask.above \ {u}  all == ask.got \cup under
    <2>2. /\ rest \in SUBSET R!Units
          /\ all \in SUBSET (R!Units \cup {Other} \cup {R!PrefixedRoleOf(t) : t \in Teams})
      BY <1>3, <1>5 DEF R!Questions
    <2>3. p = Further(ask, all, rest, after)
      BY DEF Further
    <2> HIDE DEF after, p, rest, all
    <2>4. /\ p \in R!Questions /\ p.pc = after /\ p.above = rest /\ p.got = all
          /\ p.op = ask.op /\ p.unit = ask.unit /\ Keeps(ask, p)
      <3>1. ask \in R!Questions
        BY <1>3
      <3> QED BY <3>1, <2>1, <2>2, <2>3, ReadAgain
    <2> QED BY <2>4 DEF rest, all
  <1> HIDE DEF p
  <1>8. Kinds(p)
    BY <1>3, <1>4, <1>7 DEF Kinds
  <1>9. Complete(p)
    <2>1. SUFFICES ASSUME NEW x \in R!About(p) \cap (p.stayed \cup {Other}),
                          NEW l \in R!LineOf(p, x), R!RoleOf(l) \in p.steady
                   PROVE  Promised(p, x, l)
      BY DEF Complete
    <2>2. Promised(ask, x, l)
      BY <1>3, <1>7, <2>1, SameScope DEF Complete, Keeps
    <2>3. CASE x \in ask.got
      BY <1>7, <2>3 DEF Promised
    <2>4. CASE ask.op = "teams" /\ l \in ask.above /\ l # u
      BY <1>7, <2>4 DEF Promised
    <2>5. CASE ask.op = "teams" /\ l = u
      <3>1. x \in Teams /\ l = Above[x] /\ x \notin Factories /\ x # Other
        BY <1>7, <2>1, <2>5, AboutIs, Kind DEF R!LineOf
      <3>2. x \in here
        BY <1>1, <1>3, <1>7, <2>1, <3>1 DEF Fresh, Keeps
      <3> QED BY <1>7, <2>5, <3>1, <3>2 DEF Promised, under
    <2> QED BY <1>1, <2>2, <2>3, <2>4, <2>5 DEF Promised
  <1>10. Sound(p)
    <2>1. R!RoleOf(u) \in p.seen
      BY <1>1, <1>3, <1>7 DEF Sound, Keeps
    <2>2. ASSUME NEW v \in under
          PROVE  Entitles(p, R!RoleOf(u), v)
      <3>1. v \notin Factories /\ v # Other /\ Above[v] = u
        BY <1>3, <2>2, Kind DEF under
      <3>2. Above[v] \in R!Upward(p, v)
        BY <3>1, UpwardHas
      <3> QED BY <3>1, <3>2, Names DEF Entitles
    <2>3. \A x \in ask.got \cap (R!Units \cup {Other}) : \E s \in p.seen : Entitles(p, s, x)
      BY <1>3, <1>7, SameScope DEF Sound, Keeps
    <2>4. \A x \in p.got \cap (R!Units \cup {Other}) : \E s \in p.seen : Entitles(p, s, x)
      BY <1>7, <2>1, <2>2, <2>3
    <2>5. \A v \in p.above : R!RoleOf(v) \in p.seen
      BY <1>1, <1>3, <1>7 DEF Sound, Keeps
    <2> QED BY <1>7, <2>4, <2>5 DEF Sound
  <1> QED BY <1>1, <1>6, <1>7, <1>8, <1>9, <1>10, Reading

-----------------------------------------------------------------------------
LEMMA RightsNext == ASSUME RightsInv, [R!Next]_rights PROVE RightsInv'
  <1>1. CASE R!Ask
    BY <1>1, AskStep
  <1>2. CASE R!Look
    BY <1>2, LookStep
  <1>3. CASE R!ReadTarget
    BY <1>3, ReadTargetStep
  <1>4. CASE R!ReadRoles
    BY <1>4, ReadRolesStep
  <1>5. CASE R!ReadBelow
    BY <1>5, ReadBelowStep
  <1>6. ASSUME NEW s \in R!Sources, NEW v \in {"none", "running", "over"}, R!SetFact(s, v)
        PROVE  RightsInv'
    BY <1>6, SetFactStep
  <1>7. ASSUME NEW u \in R!Units, R!DeleteUnit(u)
        PROVE  RightsInv'
    BY <1>7, DeleteUnitStep
  <1>8. ASSUME NEW P \in R!Places, R!MoveUser(P)
        PROVE  RightsInv'
    BY <1>8, MoveUserStep
  <1>9. CASE UNCHANGED rights
    BY <1>9 DEF rights, RightsInv, R!TypeOK, QInv, Fresh, R!There, R!Valid
  <1> QED BY <1>1, <1>2, <1>3, <1>4, <1>5, <1>6, <1>7, <1>8, <1>9 DEF R!Next

LEMMA Recognized == RightsInv => R!RightsAreRecognized
  <1> SUFFICES ASSUME RightsInv, ask # R!Idle, ask.pc = "done"
               PROVE  R!RightsAreRecognized
    BY DEF R!RightsAreRecognized
  <1>1. Complete(ask) /\ Sound(ask)
    BY DEF RightsInv, QInv
  <1>2. ASSUME NEW x \in R!About(ask) \cap (ask.stayed \cup {Other}),
               NEW l \in R!LineOf(ask, x), R!RoleOf(l) \in ask.steady
        PROVE  x \in ask.got
    BY <1>1, <1>2 DEF Complete, Promised
  <1>3. ASSUME NEW x \in ask.got \cap (R!Units \cup {Other})
        PROVE  R!Admin \in ask.seen \/ \E s \in ask.seen : s[2] \in R!Upward(ask, x)
    BY <1>1 DEF Sound, Entitles
  <1> QED BY <1>2, <1>3 DEF R!RightsAreRecognized

-----------------------------------------------------------------------------
(* The whole.                                                              *)
LEMMA PartsInductive ==
  /\ PartsInit => TypeOK /\ AInv /\ RightsInv
  /\ TypeOK /\ AInv /\ RightsInv /\ [PartsNext]_allVars => (TypeOK /\ AInv /\ RightsInv)'
  <1>1. PartsInit => TypeOK /\ AInv /\ RightsInv
    BY SessionsInit, AccountsInit, RightsInit DEF PartsInit
  <1>2. TypeOK /\ AInv /\ RightsInv /\ [PartsNext]_allVars => (TypeOK /\ AInv /\ RightsInv)'
    BY StepOfEach, SessionsNext, AccountsNext, RightsNext DEF sessions
  <1> QED BY <1>1, <1>2

(* The tokens of logins, the blacklist and the maps, the account and its   *)
(* requests, the rights and the question about them have their types: a    *)
(* reset token that is stored has been issued, a user is in units that     *)
(* there are, and whoever is in a unit is in what is above it.             *)
THEOREM PartsTyped == PartsSpec => []PartsTypeOK
  <1>1. TypeOK /\ AInv /\ RightsInv => PartsTypeOK
    BY DEF AInv, RightsInv, PartsTypeOK
  <1> QED BY <1>1, PartsInductive, PTL DEF PartsSpec

(* A password gives way to another, a token is used and a status changes   *)
(* only for a reason, whatever crosses the request.                        *)
THEOREM AccountsReasoned == PartsSpec => AccountsChangeForReason
  <1>1. AInv /\ [A!Next]_accounts => [\A r \in Requests :
       LET q == areq[r] IN
       q # A!Idle /\ areq'[r] = A!Idle /\ A!Present /\ A!Present' /\ account' # account =>
         /\ account'.token \notin spent'
         /\ account'.password # account.password =>
              \/ q.op = "reset"
              \/ q.op = "change" /\ (q.knew = account.password \/ "password" \in q.news)
              \/ q.op = "update" /\ "password" \in q.body.columns
         /\ q.op = "reset" /\ q.token \in spent => "token" \in q.news
         /\ account'.status # account.status =>
              \/ q.op = "delete"
              \/ q.op = "update" /\ "status" \in q.body.columns
              \/ q.op = "reset" /\ account.status = "PENDING_ACTIVATION" /\ account'.status = "ACTIVE"
              \/ q.op = "reset" /\ "status" \in q.news]_accounts
    BY ReasonedStep DEF Reasons
  <1>2. [PartsNext]_allVars => [A!Next]_accounts
    BY StepOfEach
  <1> QED BY <1>1, <1>2, PartsInductive, PTL
          DEF PartsSpec, AccountsChangeForReason, A!AccountsChangeForReason, A!vars, accounts

(* A role at a line that is valid all the time a question is answered is   *)
(* recognized by every way to read rights, and nothing is granted without  *)
(* a right that was there at some moment.                                  *)
THEOREM RightsRecognized == PartsSpec => []RightsAreRecognized
  <1>1. RightsInv => RightsAreRecognized
    BY Recognized DEF RightsAreRecognized
  <1> QED BY <1>1, PartsInductive, PTL DEF PartsSpec
=============================================================================
