SPECIFICATION RootsSpec
CONSTANTS
  main = main p = p q = q v = v w = w nil = nil
  Thread = {main, p, q}
  Main = main
  Nil = nil
  Counts = {}
  EntryArgs = 8
  Resumable = {"suspended"}
  Closers = {"capi"}
  Val = {v}
  Holders = {main, p, q}
  Resumers = {main, p, q}
  CollectsOn = {main}
  MaxHeld = 1
SYMMETRY Symm
INVARIANTS RootsIInv ResumeTruth
