SPECIFICATION RootsSpec
CONSTANTS
  main = main p = p q = q v = v w = w nil = nil
  Thread = {main, p, q}
  Main = main
  Nil = nil
  Counts = {}
  EntryArgs = 8
  Resumable = {"suspended"}
  Closers = {}
  Val = {v}
  Holders = {main}
  Resumers = {main}
  CollectsOn = {p}
  MaxHeld = 1
SYMMETRY Symm
INVARIANT HeldNotFreed
