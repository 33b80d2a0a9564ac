SPECIFICATION WarmSpec
CONSTANTS
  g = g a = a d = d m = m f = f v = v c1 = c1 nil = nil
  Obj = {g, a, d, m, f}
  Fun = {f}
  Cell = {}
  Global = g
  Nil = nil
  ProgOps = {"return"}
  FinOps = {}
  Metas = {}
  Modes = {"generational"}
  MaxStack = 1
  MaxFields = 1
  Shape = "chain"
INVARIANT FinalizerCallable
