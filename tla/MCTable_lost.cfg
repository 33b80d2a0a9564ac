SPECIFICATION Spec
CONSTANTS
  sa = sa sb = sb sc = sc true = true
  v = v w = w nil = nil empty = empty tomb = tomb
  Key = {1, 2, sa}
  LuaKey <- Key
  Lua <- MCLua
  Home <- MCHome
  Payload <- MCPayload
  CacheOf <- MCCacheOf
  Cut <- MCCut
  Value = {v, w}
  Nil = nil
  Empty = empty
  Tomb = tomb
  FirstCap = 2
  MinHash = 4
  MaxIndex = 2
  Sizes = {0}
  Erased = {sa}
  RawKeys = {}
  Updates = FALSE
INVARIANT ReadsAgree
