SPECIFICATION Spec
CONSTANTS
  sa = sa sb = sb sc = sc true = true
  v = v w = w nil = nil empty = empty tomb = tomb
  Key = {1, sa, sb, sc}
  LuaKey <- Key
  Lua <- MCLua
  Home <- MCHome
  Payload <- MCPayload
  CacheOf <- MCCacheOf
  Cut <- MCCut
  Value = {v, w}
  Nil = nil
  Empty = empty
  Tomb = tomb
  FirstCap = 2
  MinHash = 4
  MaxIndex = 1
  Sizes = {0, 2}
  Erased = {1, sa, sb, sc}
  RawKeys = {1, sa, sb, sc}
  Updates = FALSE
SYMMETRY Symm
VIEW Forgetful
INVARIANTS HashAccounted ReadsAgree WalkGoesOn
PROPERTY MapSpec
