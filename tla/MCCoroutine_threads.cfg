SPECIFICATION Spec
CONSTANTS
  main = main p = p q = q x = x nil = nil
  Thread = {main, p, q, x}
  Main = main
  Nil = nil
  Counts = {1}
  EntryArgs = 8
  Resumable = {"suspended"}
  Closers = {"lib", "capi"}
SYMMETRY Symm
INVARIANTS IInv ResumeWaits
PROPERTY StackSpec
