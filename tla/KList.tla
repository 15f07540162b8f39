------------------------------- MODULE KList -------------------------------
(***************************************************************************)
(* klist (klist.h): the intrusive, circular, doubly linked lists the       *)
(* driver keeps callbacks in, over the LIST_ENTRY routines of the kernel.  *)
(* A list is its head entry; a node is an entry from the pool.             *)
(***************************************************************************)
EXTENDS Naturals, FiniteSets, Sequences

CONSTANTS
  Lists,        \* the head entries
  Nodes,        \* addresses a node can be allocated at
  NULL

ASSUME ListsAssumption == Lists \cap Nodes = {} /\ NULL \notin Lists \cup Nodes

\* There are finitely many addresses.
ASSUME NodesAssumption == IsFiniteSet(Nodes)

Entry == Lists \cup Nodes

VARIABLES
  flink, blink,   \* the links of every entry
  live,           \* nodes allocated from the pool
  clearing,       \* list whose clear() is at work, or NULL
  other,          \* list a move assignment takes from when it has cleared
  owner           \* history: list a node was put in, or moved to

vars == <<flink, blink, live, clearing, other, owner>>

Init ==
  /\ flink = [e \in Entry |-> IF e \in Lists THEN e ELSE NULL]
  /\ blink = [e \in Entry |-> IF e \in Lists THEN e ELSE NULL]
  /\ live = {}
  /\ clearing = NULL
  /\ other = NULL
  /\ owner = [n \in Nodes |-> NULL]

IsListEmpty(l) == flink[l] = l
OwnerOf(e) == IF e \in Lists THEN e ELSE owner[e]

(***************************************************************************)
(* emplace, and through it insert, push_back, push_front, emplace_front:   *)
(* a new node goes in front of `pos`, a node or the end of a list.  What   *)
(* the pool returns may be NULL, and then the list stays as it is.         *)
(***************************************************************************)
Allocated(n) == n # NULL /\ n \notin live

emplace(pos, n) ==
  LET head == blink[pos]
      next == flink[head]
  IN  /\ clearing = NULL
      /\ Allocated(n)
      /\ live' = live \cup {n}
      /\ flink' = [flink EXCEPT ![n] = next, ![head] = n]
      /\ blink' = [blink EXCEPT ![n] = head, ![next] = n]
      /\ owner' = [owner EXCEPT ![n] = OwnerOf(pos)]
      /\ UNCHANGED <<clearing, other>>

(***************************************************************************)
(* erase of one node: RemoveEntryList, then the node goes to the pool.     *)
(***************************************************************************)
MutantUnlink(e) ==
  /\ flink' = [flink EXCEPT ![blink[e]] = flink[e], ![e] = NULL]
  /\ blink' = [blink EXCEPT ![e] = NULL]
  /\ live' = live \ {e}
  /\ owner' = [owner EXCEPT ![e] = NULL]

Unlink(e) ==
  /\ flink' = [flink EXCEPT ![blink[e]] = flink[e], ![e] = NULL]
  /\ blink' = [blink EXCEPT ![flink[e]] = blink[e], ![e] = NULL]
  /\ live' = live \ {e}
  /\ owner' = [owner EXCEPT ![e] = NULL]

erase(pos) ==
  /\ clearing = NULL
  /\ Unlink(pos)
  /\ UNCHANGED <<clearing, other>>

(***************************************************************************)
(* clear, the destructor and the first half of a move assignment: erase    *)
(* the first node until the list is empty.                                 *)
(***************************************************************************)
clear(l) ==
  /\ clearing = NULL
  /\ clearing' = l
  /\ UNCHANGED <<flink, blink, live, other, owner>>

MoveAssign(a, b) ==
  /\ clearing = NULL
  /\ a # b
  /\ clearing' = a
  /\ other' = b
  /\ UNCHANGED <<flink, blink, live, owner>>

ClearFirst ==
  /\ clearing # NULL
  /\ ~IsListEmpty(clearing)
  /\ Unlink(flink[clearing])
  /\ UNCHANGED <<clearing, other>>

(***************************************************************************)
(* An empty list a takes the ring of b, which is left empty.               *)
(***************************************************************************)
Take(a, b) ==
  /\ flink' = [flink EXCEPT ![a] = flink[b], ![blink[b]] = a, ![b] = b]
  /\ blink' = [blink EXCEPT ![a] = blink[b], ![flink[b]] = a, ![b] = b]
  /\ owner' = [n \in Nodes |-> IF owner[n] = b THEN a ELSE owner[n]]

MutantCleared == clearing # NULL
Cleared == clearing # NULL /\ IsListEmpty(clearing)

ClearDone ==
  /\ Cleared
  /\ IF other = NULL \/ IsListEmpty(other)
       THEN UNCHANGED <<flink, blink, owner>>
       ELSE Take(clearing, other)
  /\ clearing' = NULL
  /\ other' = NULL
  /\ live' = live

(***************************************************************************)
(* swap: the rings change heads, and the ends of a ring must be told.      *)
(***************************************************************************)
Exchange(a, b) ==
  /\ flink' = [flink EXCEPT ![a] = flink[b], ![b] = flink[a],
                            ![blink[b]] = a, ![blink[a]] = b]
  /\ blink' = [blink EXCEPT ![a] = blink[b], ![b] = blink[a],
                            ![flink[b]] = a, ![flink[a]] = b]
  /\ owner' = [n \in Nodes |-> CASE owner[n] = a -> b
                                 [] owner[n] = b -> a
                                 [] OTHER -> owner[n]]

MutantSwapLinks(a, b) == Exchange(a, b)
SwapLinks(a, b) ==
  CASE ~IsListEmpty(a) /\ ~IsListEmpty(b) -> Exchange(a, b)
    [] IsListEmpty(a) /\ ~IsListEmpty(b)  -> Take(a, b)
    [] ~IsListEmpty(a) /\ IsListEmpty(b)  -> Take(b, a)
    [] OTHER -> UNCHANGED <<flink, blink, owner>>

swap(a, b) ==
  /\ clearing = NULL
  /\ a # b
  /\ SwapLinks(a, b)
  /\ UNCHANGED <<live, clearing, other>>

Next ==
  \/ \E pos \in Lists \cup live, n \in Nodes \cup {NULL} : emplace(pos, n)
  \/ \E pos \in live : erase(pos)
  \/ \E l \in Lists : clear(l)
  \/ \E a, b \in Lists : MoveAssign(a, b) \/ swap(a, b)
  \/ ClearFirst
  \/ ClearDone

Spec == Init /\ [][Next]_vars /\ WF_vars(ClearFirst \/ ClearDone)

-----------------------------------------------------------------------------
(***************************************************************************)
(* The type invariant.                                                     *)
(***************************************************************************)
TypeOK ==
  /\ flink \in [Entry -> Entry \cup {NULL}]
  /\ blink \in [Entry -> Entry \cup {NULL}]
  /\ live \in SUBSET Nodes
  /\ clearing \in Lists \cup {NULL}
  /\ other \in Lists \cup {NULL}
  /\ owner \in [Nodes -> Lists \cup {NULL}]

(***************************************************************************)
(* The links of heads and live nodes agree in both directions and never    *)
(* lead to a freed node: RemoveEntryList never finds a corrupt list.       *)
(***************************************************************************)
InUse == Lists \cup live

DoublyLinked ==
  \A e \in InUse : /\ flink[e] \in InUse /\ blink[flink[e]] = e
                   /\ blink[e] \in InUse /\ flink[blink[e]] = e

(***************************************************************************)
(* A ring never joins two lists: neighbours belong to the same list.       *)
(***************************************************************************)
RingsApart == \A e \in InUse : OwnerOf(flink[e]) = OwnerOf(e)

(***************************************************************************)
(* The nodes met on the way from the head of a list back to it.            *)
(***************************************************************************)
Walk(l) ==
  LET path[k \in 0 .. Cardinality(Nodes)] ==
        IF k = 0 THEN <<>>
        ELSE LET met  == path[k - 1]
                 next == flink[IF met = <<>> THEN l ELSE met[Len(met)]]
             IN  IF next = l THEN met ELSE Append(met, next)
  IN  path[Cardinality(Nodes)]

(***************************************************************************)
(* klist implements sequences: emplace inserts at one place, erase removes *)
(* one node, swap and move exchange whole lists, and no node is lost.      *)
(***************************************************************************)
Abstract == INSTANCE ListSpec WITH seqs <- [l \in Lists |-> Walk(l)]
IsSequences == Abstract!Spec

(***************************************************************************)
(* No node leaks from the pool: what is allocated is in some list.         *)
(***************************************************************************)
NoLeak == live = UNION {{Walk(l)[i] : i \in 1 .. Len(Walk(l))} : l \in Lists}

(***************************************************************************)
(* clear() comes to an end with an empty list.                             *)
(***************************************************************************)
ClearEnds ==
  \A l \in Lists :
    clearing = l /\ other = NULL ~> clearing = NULL /\ IsListEmpty(l)
=============================================================================
