\* Two instances of the backend, two requests in flight, one login token;
\* one account with two passwords and two reset tokens; the rights of one
\* user in a factory of one line, with one change while a question is answered.
CONSTANTS
  Servers = {s1, s2}
  Tokens = {t1}
  Requests = {r1, r2}
  Null = Null
  p1 = p1
  p2 = p2
  a1 = a1
  Passwords = {p1, p2}
  ResetTokens = {a1, a2}
  Bodies <- MCBodies
  Unborn = Unborn
  Gone = Gone
  f1 = f1
  l1 = l1
  t1a = t1a
  g1 = g1
  Factories = {f1}
  Lines = {l1}
  Teams = {t1a}
  Groups = {g1}
  Above <- MCAbove
  MaxChanges = 1
  Other = Other
SPECIFICATION FairParts
INVARIANTS
  PartsTypeOK
  RightsAreRecognized
PROPERTIES
  CleanStaysClean
  StaleAnswersVanish
  AccountsChangeForReason
CHECK_DEADLOCK FALSE
