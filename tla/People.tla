-------------------------------- MODULE People --------------------------------
(***************************************************************************)
(* The tokens of logins, the account of a person and the rights of one.    *)
(* They share no state here (Sessions lets anybody log in, Rights asks     *)
(* about one user): a step of the whole is a step of one of them.          *)
(***************************************************************************)
EXTENDS Sessions, Naturals

CONSTANTS
  Passwords, ResetTokens, Bodies, Unborn, Gone,                   \* Accounts
  Factories, Lines, Teams, Groups, Above, MaxChanges, Other       \* Rights

VARIABLES
  account, issued, spent, areq,
  fact, here, place, ask

A == INSTANCE Accounts WITH Tokens <- ResetTokens, None <- Null, req <- areq
R == INSTANCE Rights WITH None <- Null

sessions == vars
accounts == <<account, issued, spent, areq>>
rights == <<fact, here, place, ask>>
allVars == <<sessions, accounts, rights>>

(* The marks are none of the values, and the units of each kind are under  *)
(* one of the kind above.                                                  *)
ASSUME PeopleAssumption ==
  /\ Null \notin Passwords \cup ResetTokens \cup A!Statuses
  /\ Bodies \subseteq A!Body
  /\ Unborn # Gone /\ Unborn \notin A!Row /\ Gone \notin A!Row
  /\ MaxChanges \in Nat
  /\ Other \notin R!Units /\ \A t \in Teams : R!PrefixedRoleOf(t) \notin R!Units \cup {Other}
  /\ Factories \cap (Lines \cup Teams \cup Groups) = {}
  /\ Lines \cap (Teams \cup Groups) = {} /\ Teams \cap Groups = {}
  /\ \A l \in Lines : Above[l] \in Factories
  /\ \A t \in Teams : Above[t] \in Lines
  /\ \A g \in Groups : Above[g] \in Teams

PartsInit == Init /\ A!Init /\ R!Init

SessionsStep == Next /\ UNCHANGED <<accounts, rights>>
AccountsStep == A!Next /\ UNCHANGED <<sessions, rights>>
RightsStep == R!Next /\ UNCHANGED <<sessions, accounts>>
PartsNext == SessionsStep \/ AccountsStep \/ RightsStep

PartsSpec == PartsInit /\ [][PartsNext]_allVars

-----------------------------------------------------------------------------
(* The type invariants of the three.                                       *)
PartsTypeOK == TypeOK /\ A!TypeOK /\ R!TypeOK

(* Columns of an account change for a reason, as Accounts states it.       *)
AccountsChangeForReason == A!AccountsChangeForReason

(* A role at a line that lasts is recognized, and nothing is granted       *)
(* without a right, as Rights states it.                                   *)
RightsAreRecognized == R!RightsAreRecognized
=============================================================================
