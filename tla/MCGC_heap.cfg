SPECIFICATION Spec
CONSTANTS
  g = g a = a d = d m = m f = f v = v c1 = c1 nil = nil
  Obj = {g, a, f}
  Fun = {f}
  Cell = {c1}
  Global = g
  Nil = nil
  ProgOps = {"rewire", "return", "alloc"}
  FinOps = {"rewire"}
  Metas = {a}
  Modes = {"generational"}
  MaxStack = 1
  MaxFields = 1
  Shape = "none"
INVARIANTS IInv NoLiveFreed
PROPERTIES MajorReclaims IdealSpec
