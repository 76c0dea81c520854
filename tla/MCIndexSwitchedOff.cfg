CONSTANTS
  m = m
  c = c
  a = a
  b = b
  x = x
  y = y
  u = u
  w = w
  t = t
  g = g
  h = h
  i1 = i1
  i2 = i2
  i3 = i3
  i4 = i4
  j1 = j1
  j2 = j2
  o = o
  f = f
  k = k
  STAR = STAR
  NamePrefix = {}
  MaxDepth = 3
  MaxPathLength = 3
  MaxRounds = 12
  MaxAliasRounds = 4
  Followed <- MCFollowed
  Depths <- MCDepths
  Rounds <- MCRounds
  AliasRounds <- MCAliasRounds
  Field <- MCField
  Var <- MCVar
  Function <- MCFunction
  Insn <- MCInsn
  Object <- MCObject
  ParamIndex <- MCIndexes
  Programs <- AliasedStore
SPECIFICATION Spec
CHECK_DEADLOCK FALSE
INVARIANTS
  SwitchedOff
