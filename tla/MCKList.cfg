\* Two lists share a pool of four nodes; three threads and one callback.
CONSTANTS
  Lists = {l1, l2}
  Nodes = {n1, n2, n3, n4}
  Threads = {t1, t2, t3}
  Cookies = {c1}
  ListHead = ListHead
  NULL = NULL
SPECIFICATION AllSpec
INVARIANTS DoublyLinked RingsApart NoLeak
PROPERTIES IsSequences ClearEnds CallsReturn
