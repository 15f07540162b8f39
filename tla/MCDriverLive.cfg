\* Two IRPs at once on one file object, with fairness.
CONSTANTS
  Threads = {t1, t2}
  Files = {f1}
  Ctxs = {v1, v2}
  NULL = NULL
SPECIFICATION FairSpec
PROPERTIES IrpCompletes
