------------------------------ MODULE Sessions ------------------------------
(***************************************************************************)
(* Login tokens and their revocation (auth.service.ts, token.service.ts).  *)
(* A JWT is valid until it expires; logging out or refreshing puts it on a *)
(* blacklist in Redis that all server instances share, and each instance   *)
(* keeps the answers of the blacklist for a minute in a map of its own.    *)
(* A check reads the map, then awaits Redis, then writes the map: other    *)
(* requests and instances run in between, and Redis may fail at any call.  *)
(***************************************************************************)
CONSTANTS
  Servers,    \* instances of the backend
  Tokens,     \* tokens that may be issued
  Requests,   \* slots for requests in flight
  Null

VARIABLES
  life,    \* how far each token is, one of Lives
  redis,   \* the tokens whose blacklist key exists
  local,   \* localTokenCache of each instance
  req      \* the requests in flight

vars == <<life, redis, local, req>>

(* "ending": less than a second is left, which getExpirationTime rounds    *)
(* down to nothing.                                                        *)
Lives == {"none", "valid", "ending", "expired"}

(* "clear": an entry that says the token is not blacklisted.               *)
Answers == {"absent", "listed", "clear"}
Ops == {"guard", "logout", "refresh"}

Idle == [op |-> "none", pc |-> "idle", server |-> Null, token |-> Null]
InFlight ==
  [op : Ops, server : Servers, token : Tokens,
   pc : {"ask", "listed", "clear", "passed", "publish"}]

TypeOK ==
  /\ life \in [Tokens -> Lives]
  /\ redis \subseteq {t \in Tokens : life[t] # "none"}
  /\ local \in [Servers -> [Tokens -> Answers]]
  /\ req \in [Requests -> {Idle} \cup InFlight]
  /\ \A r \in Requests : req[r] # Idle => life[req[r].token] # "none"

Init ==
  /\ life = [t \in Tokens |-> "none"]
  /\ redis = {}
  /\ local = [s \in Servers |-> [t \in Tokens |-> "absent"]]
  /\ req = [r \in Requests |-> Idle]

At(r, pc) == req[r].pc = pc
Goto(r, pc) == req' = [req EXCEPT ![r].pc = pc]
Finish(r) == req' = [req EXCEPT ![r] = Idle]
Note(s, t, answer) == local' = [local EXCEPT ![s][t] = answer]

-----------------------------------------------------------------------------
Login(t) ==
  /\ life[t] = "none"
  /\ life' = [life EXCEPT ![t] = "valid"]
  /\ UNCHANGED <<redis, local, req>>

Age(t) ==
  /\ life[t] = "valid"
  /\ life' = [life EXCEPT ![t] = "ending"]
  /\ UNCHANGED <<redis, local, req>>
Expire(t) ==
  /\ life[t] = "ending"
  /\ life' = [life EXCEPT ![t] = "expired"]
  /\ UNCHANGED <<redis, local, req>>

(* The EX of a blacklist key is what was left of the token when the key    *)
(* was asked for, in whole seconds: the key may end in the token's last    *)
(* second, and as it is set later it may outlive the token.                *)
KeyExpires(t) ==
  /\ t \in redis /\ life[t] # "valid"
  /\ redis' = redis \ {t}
  /\ UNCHANGED <<life, local, req>>

(* TOKEN_CACHE_TTL_MS passes for an entry.                                 *)
ForgetListed(s, t) ==
  /\ local[s][t] = "listed"
  /\ Note(s, t, "absent")
  /\ UNCHANGED <<life, redis, req>>
Forget(s, t) ==
  /\ local[s][t] # "absent"
  /\ Note(s, t, "absent")
  /\ UNCHANGED <<life, redis, req>>

(* An instance restarts: its map and its requests are gone.                *)
Restart(s) ==
  /\ local' = [local EXCEPT ![s] = [t \in Tokens |-> "absent"]]
  /\ req' = [r \in Requests |-> IF req[r].server = s THEN Idle ELSE req[r]]
  /\ UNCHANGED <<life, redis>>

-----------------------------------------------------------------------------
(* isTokenBlacklisted opens all three requests: of the guard of every      *)
(* route, of logout and of refreshToken.  An entry that says "listed" ends *)
(* the request at once.                                                    *)
Begin(r, op, s, t) ==
  /\ req[r] = Idle
  /\ life[t] # "none"
  /\ local[s][t] # "listed"
  /\ req' = [req EXCEPT ![r] =
               [op |-> op, server |-> s, token |-> t,
                pc |-> IF local[s][t] = "clear" THEN "passed" ELSE "ask"]]
  /\ UNCHANGED <<life, redis, local>>

RedisAnswers(r) ==
  /\ At(r, "ask")
  /\ Goto(r, IF req[r].token \in redis THEN "listed" ELSE "clear")
  /\ UNCHANGED <<life, redis, local>>

(* "Graceful degradation": an error counts as not blacklisted, and is not  *)
(* remembered.                                                             *)
RedisFailsRemembered(r) ==
  /\ At(r, "ask")
  /\ Goto(r, "passed")
  /\ Note(req[r].server, req[r].token, "clear")
  /\ UNCHANGED <<life, redis>>
RedisFails(r) ==
  /\ At(r, "ask")
  /\ Goto(r, "passed")
  /\ UNCHANGED <<life, redis, local>>

(* The answer arrives and goes into the map, whatever the map has by now.  *)
KeepAnswer(r) ==
  /\ req[r].pc \in {"listed", "clear"}
  /\ Note(req[r].server, req[r].token, req[r].pc)
  /\ IF At(r, "clear") THEN Goto(r, "passed") ELSE Finish(r)
  /\ UNCHANGED <<life, redis>>

(* The guard verifies the JWT, which an expired one does not pass.  When it *)
(* refuses a token it asks the blacklist again, like one more request.     *)
Guard(r) ==
  /\ At(r, "passed")
  /\ req[r].op = "guard"
  /\ Finish(r)
  /\ UNCHANGED <<life, redis, local>>

(* The token has no second left: there is nothing to blacklist.            *)
NothingToRevoke(r) ==
  /\ At(r, "passed")
  /\ req[r].op = "logout" /\ life[req[r].token] # "valid"
  /\ Finish(r)
  /\ UNCHANGED <<life, redis, local>>

(* logout: the map of this instance first, Redis next.                     *)
Logout(r) ==
  /\ At(r, "passed")
  /\ req[r].op = "logout" /\ life[req[r].token] = "valid"
  /\ Note(req[r].server, req[r].token, "listed")
  /\ Goto(r, "publish")
  /\ UNCHANGED <<life, redis>>

(* refreshToken issues a new token, also for an expired one, and then      *)
(* revokes the old one like logout.  The new token may be one this model   *)
(* does not follow (Null).                                                 *)
Refresh(r, new) ==
  LET old == req[r].token IN
  /\ At(r, "passed")
  /\ req[r].op = "refresh"
  /\ new # Null => life[new] = "none"
  /\ life' = [t \in Tokens |-> IF t = new THEN "valid" ELSE life[t]]
  /\ IF life[old] = "valid"
       THEN Note(req[r].server, old, "listed") /\ Goto(r, "publish")
       ELSE UNCHANGED local /\ Finish(r)
  /\ UNCHANGED redis

(* The key is set whatever became of the token since the map was written.  *)
Publish(r) ==
  /\ At(r, "publish")
  /\ redis' = redis \cup {req[r].token}
  /\ Finish(r)
  /\ UNCHANGED <<life, local>>

(* The account is gone or not active, or Redis refuses the key, which      *)
(* blacklistToken swallows.                                                *)
GiveUp(r) ==
  /\ \/ At(r, "passed") /\ req[r].op = "refresh"
     \/ At(r, "publish")
  /\ Finish(r)
  /\ UNCHANGED <<life, redis, local>>

-----------------------------------------------------------------------------
Proceed(r) ==
  \/ RedisAnswers(r) \/ RedisFails(r) \/ KeepAnswer(r)
  \/ Guard(r) \/ NothingToRevoke(r) \/ Logout(r)
  \/ \E t \in Tokens \cup {Null} : Refresh(r, t)
  \/ Publish(r) \/ GiveUp(r)

Next ==
  \/ \E t \in Tokens : Login(t) \/ Age(t) \/ Expire(t) \/ KeyExpires(t)
  \/ \E s \in Servers : Restart(s) \/ \E t \in Tokens : Forget(s, t)
  \/ \E r \in Requests :
       \/ \E op \in Ops, s \in Servers, t \in Tokens : Begin(r, op, s, t)
       \/ Proceed(r)

Spec == Init /\ [][Next]_vars

(* Every call to Redis returns or fails, and time passes.                  *)
FairSpec ==
  /\ Spec
  /\ \A r \in Requests : WF_vars(Proceed(r))
  /\ \A s \in Servers, t \in Tokens : WF_vars(Forget(s, t))

-----------------------------------------------------------------------------
(* An instance is clean of a token when it neither remembers that the      *)
(* token is not blacklisted nor is about to.                               *)
Clean(s, t) ==
  /\ local[s][t] # "clear"
  /\ \A r \in Requests :
       req[r].server = s /\ req[r].token = t => req[r].pc # "clear"

(* A stale answer is older than the revocation: once the token is on the   *)
(* blacklist, an instance that is clean of it stays clean, although checks *)
(* cross the revocation and write their answers late.                      *)
CleanStaysClean ==
  [][\A s \in Servers, t \in Tokens :
       t \in redis /\ t \in redis' /\ Clean(s, t) => Clean(s, t)']_vars

(* Every instance sooner or later stops remembering that a blacklisted     *)
(* token was clear, for good, or the last second of the token has come:    *)
(* its key may be gone then, and it is remembered as clear once more.      *)
StaleAnswersVanish ==
  \A t \in Tokens :
    t \in redis ~>
      [](life[t] \in {"ending", "expired"} \/ \A s \in Servers : local[s][t] # "clear")
=============================================================================
