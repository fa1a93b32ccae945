------------------------------ MODULE MCSessions ------------------------------
(***************************************************************************)
(* Small instances of the three components of People.  The initial state   *)
(* chooses which of them is at work: side by side the states of one would  *)
(* be multiplied by those of the others.                                   *)
(***************************************************************************)
EXTENDS People, TLC

CONSTANTS f1, l1, t1a, g1, p1, p2, a1

VARIABLE part

(* A factory with one line, its team and its group.                        *)
MCAbove == (l1 :> f1) @@ (t1a :> l1) @@ (g1 :> t1a)

(* Updates that name the status, the password, a token that was in use or  *)
(* none, and the columns of a reset together.                              *)
MCBodies ==
  LET nothing == [columns |-> {}, status |-> "ACTIVE", password |-> p1, token |-> Null, fresh |-> TRUE]
  IN {[nothing EXCEPT !.columns = {"status"}], [nothing EXCEPT !.columns = {"status"}, !.status = "CLOSED"],
      [nothing EXCEPT !.columns = {"password"}, !.password = p2],
      [nothing EXCEPT !.columns = {"token", "fresh"}, !.token = a1],
      [nothing EXCEPT !.columns = {"token", "password"}]}

(* Rights begins in many states; where it is not at work, in one of them.  *)
MCInit ==
  /\ part \in {"sessions", "accounts", "rights"}
  /\ PartsInit
  /\ part # "rights" => R!There = {} /\ place = {}

MCNext ==
  /\ UNCHANGED part
  /\ \/ part = "sessions" /\ SessionsStep
     \/ part = "accounts" /\ AccountsStep
     \/ part = "rights" /\ RightsStep

(* The fairness of Sessions.                                               *)
FairParts ==
  /\ MCInit /\ [][MCNext]_<<part, allVars>>
  /\ \A r \in Requests : WF_vars(Proceed(r))
  /\ \A s \in Servers, t \in Tokens : WF_vars(Forget(s, t))
=============================================================================
