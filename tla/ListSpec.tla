------------------------------ MODULE ListSpec ------------------------------
(***************************************************************************)
(* What a klist promises its users: each list is a sequence of nodes, no   *)
(* node is in two places, and every operation edits sequences.             *)
(***************************************************************************)
EXTENDS Naturals, Sequences, SequencesExt

CONSTANTS Lists, Nodes

VARIABLE seqs       \* the nodes of each list, first to last

Elements(l) == {seqs[l][i] : i \in 1 .. Len(seqs[l])}
Used == UNION {Elements(l) : l \in Lists}

Init == seqs = [l \in Lists |-> <<>>]

Insert(l, i, n) ==
  /\ n \notin Used
  /\ i \in 1 .. Len(seqs[l]) + 1
  /\ seqs' = [seqs EXCEPT ![l] = InsertAt(@, i, n)]

Erase(l, i) ==
  /\ i \in 1 .. Len(seqs[l])
  /\ seqs' = [seqs EXCEPT ![l] = RemoveAt(@, i)]

Swap(a, b) == seqs' = [seqs EXCEPT ![a] = seqs[b], ![b] = seqs[a]]

Next ==
  \/ \E l \in Lists, n \in Nodes : \E i \in 1 .. Len(seqs[l]) + 1 :
       Insert(l, i, n)
  \/ \E l \in Lists : \E i \in 1 .. Len(seqs[l]) : Erase(l, i)
  \/ \E a, b \in Lists : Swap(a, b)

Spec == Init /\ [][Next]_seqs
=============================================================================
