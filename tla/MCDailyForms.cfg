\* Two runs at once, forms made and removed by hand, crashes.
CONSTANTS
  Workers = {w1, w2}
  Groups = {g1}
  Suffixes = {s1, s2}
  Runs = {a, b}
  Null = Null
SPECIFICATION FairSpec
INVARIANT TypeOK
PROPERTIES
  RunEnds
  NoWorkerForgotten
  JobAddsNoSecondForm
