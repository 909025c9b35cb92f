SPECIFICATION FairSpec
CONSTANTS
  w1 = w1
  w2 = w2
  Words <- MCWords
  SeqMod = 8
  MaxTries = 5
  MaxPush = 5
INVARIANTS
  NoTornRead
  AckIsTrue
  IInv
PROPERTIES
  ImplementsCell
  LastValueSeen
