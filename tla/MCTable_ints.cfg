SPECIFICATION LibSpec
CONSTANTS
  sa = sa sb = sb sc = sc true = true
  v = v w = w nil = nil empty = empty tomb = tomb
  Key = {1, 2, 3}
  LuaKey <- Key
  Lua <- MCLua
  Home <- MCHome
  Payload <- MCPayload
  CacheOf <- MCCacheOf
  Cut <- MCCut
  Value = {v, w}
  Nil = nil
  Empty = empty
  Tomb = tomb
  FirstCap = 1
  MinHash = 4
  MaxIndex = 3
  Sizes = {0, 1}
  Erased = {1}
  RawKeys = {1}
  Updates = FALSE
SYMMETRY Symm
VIEW Forgetful
INVARIANTS HintSound OnePlace LengthIsBorder
PROPERTY MapSpec
