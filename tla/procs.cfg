SPECIFICATION FairSpec
CONSTANTS
  Procs = {p1, p2}
  Nil = Nil
  MaxOutput = 1
  MaxFrames = 5
INVARIANT TypeOK
INVARIANT ToldOnce
INVARIANT NeverSleepsOnNews
PROPERTY OutputFirst
PROPERTY Told
