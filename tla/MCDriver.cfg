\* Two IRPs at once on two file objects, two contexts.
CONSTANTS
  Threads = {t1, t2}
  Files = {f1, f2}
  Ctxs = {v1, v2}
  NULL = NULL
SPECIFICATION Spec
SYMMETRY Symmetry
INVARIANTS ClientsInformed MapsBalanced IoctlsAreAdmitted
  OneLoadWins NoUseAfterFree OneOwner NothingOutlivesDriver
PROPERTIES FsContextSticky
