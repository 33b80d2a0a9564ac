SPECIFICATION FairSpec
CONSTANTS
  g = g a = a d = d m = m f = f v = v c1 = c1 nil = nil
  Obj = {g, a, d}
  Fun = {}
  Cell = {}
  Global = g
  Nil = nil
  ProgOps = {"rewire", "return", "alloc"}
  FinOps = {}
  Metas = {a}
  Modes = {"generational"}
  MaxStack = 1
  MaxFields = 1
  Shape = "none"
PROPERTY Reclaimed
