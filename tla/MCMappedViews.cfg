SPECIFICATION Spec
CONSTANTS
  t1 = t1
  Threads = {t1}
  h1 = h1 h2 = h2
  Handles = {h1, h2}
  s1 = s1 s2 = s2
  FsHandles = {s1, s2}
  f1 = f1 f2 = f2
  Files = {f1, f2}
  r1 = r1 r2 = r2 r3 = r3 r4 = r4
  Refs = {r1, r2, r3, r4}
  None = None
  Bases <- Adjacent
  LastPage = 2
  PagesOf <- OnePage
  MaxLosses = 0
INVARIANT GuardPagesEmulateMapping
