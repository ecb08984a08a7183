SPECIFICATION Spec
CONSTANTS
  t1 = t1 t2 = t2
  Threads = {t1, t2}
  n1 = n1 n2 = n2
  Names = {n1, n2}
  Dispositions = {"open", "overwrite", "create", "open_if"}
  None = None
INVARIANTS DirTypeOK  
SYMMETRY Symmetry
