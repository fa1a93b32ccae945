------------------------------- MODULE Accounts -------------------------------
(***************************************************************************)
(* The account of one person (auth.service.ts, user.service.ts): its       *)
(* status, its password and the token that lets a forgotten password be    *)
(* replaced.  Every handler reads the row, awaits bcrypt or the random     *)
(* generator, and then writes some columns by id alone.  Accounts do not   *)
(* interact: every statement names one.                                    *)
(***************************************************************************)
CONSTANTS
  Passwords,
  Tokens,      \* reset tokens that may be generated
  Bodies,      \* bodies of the updates that may be asked for
  Requests,    \* slots for requests in flight
  Unborn, Gone, None

VARIABLES
  account,   \* the row of the person
  issued,    \* the tokens generated so far, or chosen by an update
  spent,     \* those with which a password was set since they were stored
  req        \* the requests in flight

vars == <<account, issued, spent, req>>

(* "CLOSED" is INACTIVE, BANNED or DELETED, which no handler tells apart.  *)
(* A deletion that is not hard only sets the status: no query skips the    *)
(* row, since there is no column deletedAt.                                *)
Statuses == {"PENDING_ACTIVATION", "ACTIVE", "CLOSED"}

(* password: the hash with its salt, None for a pair no password matches.  *)
(* fresh: passwordResetExpiry is to come.                                  *)
Hashes == Passwords \cup {None}
Row == [status : Statuses, password : Hashes, token : Tokens \cup {None}, fresh : BOOLEAN]
New(password, status) == [status |-> status, password |-> password, token |-> None, fresh |-> FALSE]

(* The body of PATCH users/:id has a plain type: no pipe looks at it, and   *)
(* whatever columns it names are written.                                  *)
Body ==
  [columns : SUBSET {"status", "password", "token", "fresh"},
   status : Statuses, password : Hashes, token : Tokens \cup {None}, fresh : BOOLEAN]
TokenIn(body) == IF "token" \in body.columns THEN body.token ELSE None

Present == account \notin {Unborn, Gone}

(* A request: what it was given or has read, and, for the properties       *)
(* alone, which columns others changed since.                              *)
Idle ==
  [op |-> "none", password |-> None, knew |-> None, status |-> None, token |-> None,
   body |-> None, news |-> {}]
Columns == {"status", "password", "token"}
Ops == {"register", "change", "request", "reset", "update", "delete", "remove"}
InFlight ==
  [op : Ops, password : Passwords \cup {None}, knew : Passwords \cup {None},
   status : Statuses \cup {None}, token : Tokens \cup {None}, body : Bodies \cup {None},
   news : SUBSET Columns]
Given(q) ==
  /\ q.op \in {"register", "change", "reset"} => q.password # None
  /\ q.op \in {"register", "reset"} => q.status # None
  /\ q.op = "request" => q.token # None
  /\ q.op = "update" => q.body \in Bodies /\ q.token = TokenIn(q.body)

TypeOK ==
  /\ account \in Row \cup {Unborn, Gone}
  /\ spent \subseteq issued /\ issued \subseteq Tokens
  /\ Present => account.token \in issued \cup {None}
  /\ req \in [Requests -> {Idle} \cup InFlight]
  /\ \A r \in Requests : req[r].token \in issued \cup {None} /\ Given(req[r])

Init ==
  /\ account = Unborn /\ issued = {} /\ spent = {}
  /\ req = [r \in Requests |-> Idle]

-----------------------------------------------------------------------------
Begin(r, q) ==
  /\ req[r] = Idle
  /\ req' = [req EXCEPT ![r] = q]
Looks == UNCHANGED <<account, issued, spent>>
Ready(r, op) == req[r].op = op

(* The end of a request that stored `new'; only changes and resets are     *)
(* followed for what crosses them.                                         *)
Changed(new) ==
  IF Present /\ new \in Row THEN {c \in Columns : new[c] # account[c]} ELSE {}
Store(r, new) ==
  /\ account' = new
  /\ req' = [s \in Requests |->
       IF s = r THEN Idle
       ELSE IF req[s].op \in {"change", "reset"} THEN [req[s] EXCEPT !.news = @ \cup Changed(new)]
       ELSE req[s]]

(* register: no account has the card or the employee's number.             *)
StartRegister(r, password, status) ==
  /\ account = Unborn
  /\ Begin(r, [Idle EXCEPT !.op = "register", !.password = password, !.status = status])
  /\ Looks
InsertUser(r) ==
  /\ Ready(r, "register") /\ account = Unborn
  /\ Store(r, New(req[r].password, req[r].status))
  /\ UNCHANGED <<issued, spent>>

(* changePassword: the old password matches, the new one is another.       *)
StartChange(r, old, password) ==
  /\ Present /\ old = account.password /\ password # account.password
  /\ Begin(r, [Idle EXCEPT !.op = "change", !.password = password, !.knew = old])
  /\ Looks
WriteChange(r) ==
  /\ Ready(r, "change") /\ Present
  /\ Store(r, [account EXCEPT !.password = req[r].password])
  /\ UNCHANGED <<issued, spent>>

(* requestPasswordReset: a token nobody can have seen, for an hour.        *)
StartRequest(r, token) ==
  /\ Present /\ token \notin issued
  /\ issued' = issued \cup {token}
  /\ Begin(r, [Idle EXCEPT !.op = "request", !.token = token])
  /\ UNCHANGED <<account, spent>>
WriteRequest(r) ==
  /\ Ready(r, "request") /\ Present
  /\ Store(r, [account EXCEPT !.token = req[r].token, !.fresh = TRUE])
  /\ UNCHANGED <<issued, spent>>

(* resetPassword: the account is found by its token, which has not         *)
(* expired, or by its name or card, and keeps its status unless it has to  *)
(* be activated.                                                           *)
FindToReset(token) == Present /\ (token # None => account.token = token /\ account.fresh)
StartReset(r, token, password) ==
  /\ FindToReset(token) /\ password # account.password
  /\ Begin(r, [Idle EXCEPT !.op = "reset", !.password = password, !.token = token,
                           !.status = account.status])
  /\ Looks
(* Fault: a status the column does not have.                               *)
ActivatedByWrongName(status) == IF status = "PENDING_ACTIVATION" THEN "ACTIVATED" ELSE status
Activated(status) == IF status = "PENDING_ACTIVATION" THEN "ACTIVE" ELSE status
(* Fault: the token stays.                                                 *)
WriteResetKeepingToken(r) ==
  LET q == req[r] IN
  /\ Ready(r, "reset") /\ Present
  /\ Store(r, [account EXCEPT !.password = q.password, !.status = Activated(q.status)])
  /\ spent' = spent \cup ({q.token} \ {None})
  /\ UNCHANGED issued
WriteReset(r) ==
  LET q == req[r] IN
  /\ Ready(r, "reset") /\ Present
  /\ Store(r, New(q.password, Activated(q.status)))
  /\ spent' = spent \cup ({q.token} \ {None})
  /\ UNCHANGED issued

(* The user routes: an admin's update is written with every column of its  *)
(* body, a manager's if it names no status; others leave what is modelled  *)
(* here alone.  It may name a token that is known, or one of its own: not  *)
(* one that is being generated.                                            *)
StartUpdate(r, body) ==
  LET token == TokenIn(body) IN
  /\ Present
  /\ \A s \in Requests : req[s].op = "request" => req[s].token # token
  /\ issued' = issued \cup ({token} \ {None})
  /\ Begin(r, [Idle EXCEPT !.op = "update", !.token = token, !.body = body])
  /\ UNCHANGED <<account, spent>>
Merged(body) ==
  [status |-> IF "status" \in body.columns THEN body.status ELSE account.status,
   password |-> IF "password" \in body.columns THEN body.password ELSE account.password,
   token |-> IF "token" \in body.columns THEN body.token ELSE account.token,
   fresh |-> IF "fresh" \in body.columns THEN body.fresh ELSE account.fresh]
WriteUpdate(r) ==
  /\ Ready(r, "update") /\ Present
  /\ Store(r, Merged(req[r].body))
  /\ spent' = spent \ {req[r].token}
  /\ UNCHANGED issued

StartDelete(r, hard) ==
  /\ Present
  /\ Begin(r, [Idle EXCEPT !.op = IF hard THEN "remove" ELSE "delete"])
  /\ Looks
WriteDelete(r) ==
  /\ req[r].op \in {"remove", "delete"} /\ Present
  /\ Store(r, IF Ready(r, "remove") THEN Gone ELSE [account EXCEPT !.status = "CLOSED"])
  /\ UNCHANGED <<issued, spent>>

(* The row has come or gone, a role is missing or a call failed.           *)
Fail(r) ==
  /\ req[r] # Idle
  /\ req' = [req EXCEPT ![r] = Idle]
  /\ Looks

(* The hour of the token passes.                                           *)
Expire ==
  /\ Present /\ account.fresh
  /\ account' = [account EXCEPT !.fresh = FALSE]
  /\ UNCHANGED <<issued, spent, req>>

Next ==
  \/ Expire
  \/ \E r \in Requests :
       \/ \E p \in Passwords :
            \/ \E s \in Statuses : StartRegister(r, p, s)
            \/ \E old \in Passwords : StartChange(r, old, p)
            \/ \E t \in Tokens \cup {None} : StartReset(r, t, p)
       \/ \E t \in Tokens : StartRequest(r, t)
       \/ \E body \in Bodies : StartUpdate(r, body)
       \/ \E hard \in BOOLEAN : StartDelete(r, hard)
       \/ InsertUser(r) \/ WriteChange(r) \/ WriteRequest(r) \/ WriteReset(r)
       \/ WriteUpdate(r) \/ WriteDelete(r) \/ Fail(r)

Spec == Init /\ [][Next]_vars

-----------------------------------------------------------------------------
(* A password gives way to another only for who knew it or was let in to   *)
(* reset it, unless it changed after it was compared, or because an update *)
(* names the column.  A reset token sets one password and is not stored    *)
(* again unless an update names it; it sets another only for a reset that  *)
(* had found it before.  A closed account is opened, and a pending one     *)
(* activated or closed, by an update that names the status, by a deletion, *)
(* or by a reset: one that found it pending, or one that a change of       *)
(* status crossed while it hashed and whose write undoes that change.      *)
AccountsChangeForReason ==
  [][\A r \in Requests :
       LET q == req[r] IN
       q # Idle /\ req'[r] = Idle /\ Present /\ Present' /\ account' # account =>
         /\ account'.token \notin spent'
         /\ account'.password # account.password =>
              \/ q.op = "reset"
              \/ q.op = "change" /\ (q.knew = account.password \/ "password" \in q.news)
              \/ q.op = "update" /\ "password" \in q.body.columns
         /\ q.op = "reset" /\ q.token \in spent => "token" \in q.news
         /\ account'.status # account.status =>
              \/ q.op = "delete"
              \/ q.op = "update" /\ "status" \in q.body.columns
              \/ q.op = "reset" /\ account.status = "PENDING_ACTIVATION" /\ account'.status = "ACTIVE"
              \/ q.op = "reset" /\ "status" \in q.news]_vars
=============================================================================
