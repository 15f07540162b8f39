---------------------------- MODULE KListProofs ----------------------------
(***************************************************************************)
(* Proofs about klist, for any number of lists and nodes.                  *)
(***************************************************************************)
EXTENDS KList, FiniteSetTheorems, SequenceTheorems, WellFoundedInduction, TLAPS

(***************************************************************************)
(* A live node has an owner: the list it was put in.                       *)
(***************************************************************************)
Owned == \A n \in Nodes : n \in live => owner[n] \in Lists

IInv == TypeOK /\ Owned /\ DoublyLinked /\ RingsApart

USE ListsAssumption DEF Entry, InUse, OwnerOf

-----------------------------------------------------------------------------
(***************************************************************************)
(* Distinct entries have distinct neighbours, and an entry that is its own *)
(* successor is its own predecessor.                                       *)
(***************************************************************************)
LEMMA LinksDiffer ==
  ASSUME IInv, NEW e \in InUse, NEW d \in InUse, e # d
  PROVE  flink[e] # flink[d] /\ blink[e] # blink[d]
  BY DEF IInv, DoublyLinked

(***************************************************************************)
(* The ring of an empty list is its head alone, and a node is in the ring  *)
(* of no other list than its owner.                                        *)
(***************************************************************************)
LEMMA HeadLinks ==
  ASSUME IInv, NEW l \in Lists
  PROVE  /\ flink[l] \in Nodes => owner[flink[l]] = l /\ flink[l] \in live
         /\ blink[l] \in Nodes => owner[blink[l]] = l /\ blink[l] \in live
         /\ flink[l] \in Lists => flink[l] = l
         /\ blink[l] \in Lists => blink[l] = l
         /\ flink[l] = l <=> blink[l] = l
  BY DEF IInv, TypeOK, Owned, DoublyLinked, RingsApart

(***************************************************************************)
(* emplace keeps the invariant: the four links it sets close the ring.     *)
(***************************************************************************)
LEMMA EmplaceStep ==
  ASSUME IInv, NEW pos \in Lists \cup live, NEW n \in Nodes \cup {NULL},
         emplace(pos, n)
  PROVE  IInv'
<1> DEFINE head == blink[pos]
<1>1. /\ n \in Nodes /\ n \notin live
      /\ head \in InUse /\ flink[head] = pos /\ n \notin InUse
      /\ live' = live \cup {n}
      /\ flink' = [flink EXCEPT ![n] = pos, ![head] = n]
      /\ blink' = [blink EXCEPT ![n] = head, ![pos] = n]
      /\ owner' = [owner EXCEPT ![n] = OwnerOf(pos)]
      /\ UNCHANGED <<clearing, other>>
  BY DEF emplace, Allocated, IInv, DoublyLinked, TypeOK
<1>2. OwnerOf(pos) \in Lists
  BY DEF IInv, TypeOK, Owned
<1> HIDE DEF head
<1>3. TypeOK'
  BY <1>1, <1>2 DEF IInv, TypeOK
<1>4. Owned'
  BY <1>1, <1>2 DEF IInv, TypeOK, Owned
<1>5. DoublyLinked'
  <2> SUFFICES ASSUME NEW e \in InUse'
               PROVE  /\ flink'[e] \in InUse' /\ blink'[flink'[e]] = e
                      /\ blink'[e] \in InUse' /\ flink'[blink'[e]] = e
    BY DEF DoublyLinked
  <2>1. CASE e = n
    BY <1>1, <2>1 DEF IInv, TypeOK, DoublyLinked
  <2>2. CASE e # n
    <3>1. e \in InUse
      BY <1>1, <2>2
    <3>2. e # head => flink[e] # pos
      BY <1>1, <3>1, LinksDiffer
    <3>3. e # pos => blink[e] # head
      BY <1>1, <3>1 DEF IInv, DoublyLinked
    <3> QED
      BY <1>1, <2>2, <3>1, <3>2, <3>3 DEF IInv, TypeOK, DoublyLinked
  <2> QED
    BY <2>1, <2>2
<1>6. RingsApart'
  <2> SUFFICES ASSUME NEW e \in InUse'
               PROVE  OwnerOf(flink[e])' = OwnerOf(e)'
    BY DEF RingsApart
  <2>1. OwnerOf(head) = OwnerOf(pos)
    BY <1>1 DEF IInv, RingsApart
  <2>2. \A d \in InUse : OwnerOf(d)' = OwnerOf(d)
    BY <1>1 DEF IInv, TypeOK
  <2>3. OwnerOf(n)' = OwnerOf(pos)
    BY <1>1 DEF IInv, TypeOK
  <2>4. CASE e = n
    <3>1. flink'[n] = pos /\ pos \in InUse
      BY <1>1 DEF IInv, TypeOK
    <3> QED
      BY <2>2, <2>3, <2>4, <3>1
  <2>5. CASE e = head
    BY <1>1, <2>1, <2>2, <2>3, <2>5 DEF IInv, TypeOK
  <2>6. CASE e # n /\ e # head
    BY <1>1, <2>2, <2>6 DEF IInv, TypeOK, RingsApart, DoublyLinked
  <2> QED
    BY <2>4, <2>5, <2>6
<1> QED
  BY <1>3, <1>4, <1>5, <1>6 DEF IInv

(***************************************************************************)
(* RemoveEntryList keeps the invariant: it joins the neighbours of a node. *)
(***************************************************************************)
LEMMA UnlinkStep ==
  ASSUME IInv, NEW e \in live, Unlink(e), UNCHANGED <<clearing, other>>
  PROVE  IInv'
<1>1. /\ flink[e] \in InUse /\ blink[e] \in InUse
      /\ flink' = [flink EXCEPT ![blink[e]] = flink[e], ![e] = NULL]
      /\ blink' = [blink EXCEPT ![flink[e]] = blink[e], ![e] = NULL]
      /\ live' = live \ {e} /\ e \in Nodes /\ e \notin Lists
      /\ owner' = [owner EXCEPT ![e] = NULL]
  BY DEF Unlink, IInv, DoublyLinked, TypeOK
<1>2. TypeOK'
  BY <1>1 DEF IInv, TypeOK
<1>3. Owned'
  BY <1>1 DEF IInv, TypeOK, Owned
<1>4. DoublyLinked'
  <2> SUFFICES ASSUME NEW d \in InUse'
               PROVE  /\ flink'[d] \in InUse' /\ blink'[flink'[d]] = d
                      /\ blink'[d] \in InUse' /\ flink'[blink'[d]] = d
    BY DEF DoublyLinked
  <2>1. d \in InUse /\ d # e
    BY <1>1
  <2>2. flink'[d] = IF d = blink[e] THEN flink[e] ELSE flink[d]
    BY <1>1, <2>1 DEF IInv, TypeOK
  <2>3. blink'[d] = IF d = flink[e] THEN blink[e] ELSE blink[d]
    BY <1>1, <2>1 DEF IInv, TypeOK
  <2>4. flink'[d] \in InUse' /\ blink'[flink'[d]] = d
    <3>1. CASE d = blink[e]
      BY <1>1, <2>1, <2>2, <3>1 DEF IInv, TypeOK, DoublyLinked
    <3>2. CASE d # blink[e]
      BY <1>1, <2>1, <2>2, <3>2 DEF IInv, TypeOK, DoublyLinked
    <3> QED
      BY <3>1, <3>2
  <2>5. blink'[d] \in InUse' /\ flink'[blink'[d]] = d
    <3>1. CASE d = flink[e]
      BY <1>1, <2>1, <2>3, <3>1 DEF IInv, TypeOK, DoublyLinked
    <3>2. CASE d # flink[e]
      BY <1>1, <2>1, <2>3, <3>2 DEF IInv, TypeOK, DoublyLinked
    <3> QED
      BY <3>1, <3>2
  <2> QED
    BY <2>4, <2>5
<1>5. RingsApart'
  <2> SUFFICES ASSUME NEW d \in InUse'
               PROVE  OwnerOf(flink[d])' = OwnerOf(d)'
    BY DEF RingsApart
  <2>1. d \in InUse /\ d # e
    BY <1>1
  <2>2. \A c \in InUse : c # e => OwnerOf(c)' = OwnerOf(c)
    BY <1>1 DEF IInv, TypeOK
  <2>3. CASE d = blink[e]
    <3>1. flink[e] # e /\ flink'[d] = flink[e]
      BY <1>1, <2>1, <2>3 DEF IInv, TypeOK, DoublyLinked
    <3>2. OwnerOf(flink[e]) = OwnerOf(e) /\ OwnerOf(flink[d]) = OwnerOf(d)
          /\ flink[d] = e
      BY <1>1, <2>1, <2>3 DEF IInv, RingsApart, DoublyLinked
    <3> QED
      BY <1>1, <2>1, <2>2, <3>1, <3>2
  <2>4. CASE d # blink[e]
    <3>1. flink'[d] = flink[d] /\ flink[d] \in InUse /\ flink[d] # e
      BY <1>1, <2>1, <2>4 DEF IInv, TypeOK, DoublyLinked
    <3> QED
      BY <2>1, <2>2, <3>1 DEF IInv, RingsApart
  <2> QED
    BY <2>3, <2>4
<1> QED
  BY <1>2, <1>3, <1>4, <1>5 DEF IInv

(***************************************************************************)
(* An empty list that takes the ring of another keeps the invariant.       *)
(***************************************************************************)
LEMMA TakeStep ==
  ASSUME IInv, NEW a \in Lists, NEW b \in Lists, a # b,
         IsListEmpty(a), ~IsListEmpty(b), Take(a, b), live' = live,
         clearing' \in Lists \cup {NULL}, other' \in Lists \cup {NULL}
  PROVE  IInv'
<1>1. /\ flink[a] = a /\ blink[a] = a
      /\ flink[b] \in live /\ owner[flink[b]] = b
      /\ blink[b] \in live /\ owner[blink[b]] = b
  BY HeadLinks DEF IInv, TypeOK, IsListEmpty, DoublyLinked
<1>2. /\ flink' = [flink EXCEPT ![a] = flink[b], ![blink[b]] = a, ![b] = b]
      /\ blink' = [blink EXCEPT ![a] = blink[b], ![flink[b]] = a, ![b] = b]
      /\ owner' = [n \in Nodes |-> IF owner[n] = b THEN a ELSE owner[n]]
      /\ live' = live
  BY DEF Take
<1>3. TypeOK'
  BY <1>1, <1>2 DEF IInv, TypeOK
<1>4. Owned'
  BY <1>2 DEF IInv, TypeOK, Owned
<1>5. \A e \in InUse :
        flink'[e] = IF e = a THEN flink[b] ELSE IF e = b THEN b
                    ELSE IF e = blink[b] THEN a ELSE flink[e]
  BY <1>1, <1>2 DEF IInv, TypeOK
<1>6. \A e \in InUse :
        blink'[e] = IF e = a THEN blink[b] ELSE IF e = b THEN b
                    ELSE IF e = flink[b] THEN a ELSE blink[e]
  BY <1>1, <1>2 DEF IInv, TypeOK
<1>7. DoublyLinked'
  <2> SUFFICES ASSUME NEW e \in InUse
               PROVE  /\ flink'[e] \in InUse /\ blink'[flink'[e]] = e
                      /\ blink'[e] \in InUse /\ flink'[blink'[e]] = e
    BY <1>2 DEF DoublyLinked
  <2>1. CASE e = a
    BY <1>1, <1>5, <1>6, <2>1 DEF IInv, TypeOK
  <2>2. CASE e = b
    BY <1>5, <1>6, <2>2
  <2>3. CASE e # a /\ e # b
    <3>1. flink[e] # a /\ blink[e] # a
      BY <1>1, <2>3, LinksDiffer
    <3>2. flink[e] = b <=> e = blink[b]
      BY DEF IInv, DoublyLinked
    <3>3. blink[e] = b <=> e = flink[b]
      BY DEF IInv, DoublyLinked
    <3>4. e # blink[b] => flink[e] # flink[b]
      BY <2>3, LinksDiffer
    <3>5. e # flink[b] => blink[e] # blink[b]
      BY <2>3, LinksDiffer
    <3>6. flink'[e] \in InUse /\ blink'[flink'[e]] = e
      BY <1>5, <1>6, <2>3, <3>1, <3>2, <3>4 DEF IInv, DoublyLinked
    <3>7. blink'[e] \in InUse /\ flink'[blink'[e]] = e
      BY <1>5, <1>6, <2>3, <3>1, <3>3, <3>5 DEF IInv, DoublyLinked
    <3> QED
      BY <3>6, <3>7
  <2> QED
    BY <2>1, <2>2, <2>3
<1>8. RingsApart'
  <2> SUFFICES ASSUME NEW e \in InUse
               PROVE  OwnerOf(flink[e])' = OwnerOf(e)'
    BY <1>2 DEF RingsApart
  <2>1. \A l \in Lists : OwnerOf(l)' = l
    OBVIOUS
  <2>2. \A n \in live : OwnerOf(n)' = IF owner[n] = b THEN a ELSE owner[n]
    BY <1>2 DEF IInv, TypeOK
  <2>3. CASE e = a
    BY <1>1, <1>5, <2>1, <2>2, <2>3
  <2>4. CASE e = b
    BY <1>5, <2>4
  <2>5. CASE e # a /\ e # b
    <3>1. CASE e = blink[b]
      BY <1>1, <1>5, <2>1, <2>2, <2>5, <3>1
    <3>2. CASE e # blink[b]
      <4>1. flink'[e] = flink[e] /\ OwnerOf(flink[e]) = OwnerOf(e)
            /\ flink[e] \in InUse
        BY <1>5, <2>5, <3>2 DEF IInv, RingsApart, DoublyLinked
      <4>2. flink[e] # a /\ flink[e] # b
        BY <1>1, <2>5, <3>2, LinksDiffer DEF IInv, DoublyLinked
      <4>3. OwnerOf(e) # b \/ e \in live
        BY <2>5
      <4> QED
        BY <2>1, <2>2, <2>5, <4>1, <4>2, <4>3 DEF IInv, TypeOK, Owned
    <3> QED
      BY <3>1, <3>2
  <2> QED
    BY <2>3, <2>4, <2>5
<1> QED
  BY <1>3, <1>4, <1>7, <1>8 DEF IInv

(***************************************************************************)
(* Two lists with nodes that swap their rings keep the invariant.          *)
(***************************************************************************)
LEMMA ExchangeStep ==
  ASSUME IInv, NEW a \in Lists, NEW b \in Lists, a # b,
         ~IsListEmpty(a), ~IsListEmpty(b), Exchange(a, b),
         UNCHANGED <<live, clearing, other>>
  PROVE  IInv'
<1>1. /\ flink[a] \in live /\ owner[flink[a]] = a
      /\ blink[a] \in live /\ owner[blink[a]] = a
      /\ flink[b] \in live /\ owner[flink[b]] = b
      /\ blink[b] \in live /\ owner[blink[b]] = b
  BY HeadLinks DEF IInv, TypeOK, IsListEmpty, DoublyLinked
<1>2. /\ flink' = [flink EXCEPT ![a] = flink[b], ![b] = flink[a],
                                ![blink[b]] = a, ![blink[a]] = b]
      /\ blink' = [blink EXCEPT ![a] = blink[b], ![b] = blink[a],
                                ![flink[b]] = a, ![flink[a]] = b]
      /\ owner' = [n \in Nodes |-> CASE owner[n] = a -> b
                                     [] owner[n] = b -> a
                                     [] OTHER -> owner[n]]
      /\ live' = live
  BY DEF Exchange
<1>3. \A n \in Nodes :
        owner'[n] = IF owner[n] = a THEN b
                    ELSE IF owner[n] = b THEN a ELSE owner[n]
  BY <1>2
<1>4. TypeOK'
  <2>1. owner' \in [Nodes -> Lists \cup {NULL}]
    BY <1>2, <1>3 DEF IInv, TypeOK
  <2> QED
    BY <1>1, <1>2, <2>1 DEF IInv, TypeOK
<1>5. Owned'
  BY <1>2, <1>3 DEF IInv, TypeOK, Owned
<1>6. \A e \in InUse :
        flink'[e] = IF e = a THEN flink[b] ELSE IF e = b THEN flink[a]
                    ELSE IF e = blink[b] THEN a
                    ELSE IF e = blink[a] THEN b ELSE flink[e]
  BY <1>1, <1>2 DEF IInv, TypeOK
<1>7. \A e \in InUse :
        blink'[e] = IF e = a THEN blink[b] ELSE IF e = b THEN blink[a]
                    ELSE IF e = flink[b] THEN a
                    ELSE IF e = flink[a] THEN b ELSE blink[e]
  BY <1>1, <1>2 DEF IInv, TypeOK
<1>8. \A e \in InUse :
        /\ flink[e] = a <=> e = blink[a]
        /\ flink[e] = b <=> e = blink[b]
        /\ blink[e] = a <=> e = flink[a]
        /\ blink[e] = b <=> e = flink[b]
  BY DEF IInv, DoublyLinked
<1>9. DoublyLinked'
  <2> SUFFICES ASSUME NEW e \in InUse
               PROVE  /\ flink'[e] \in InUse /\ blink'[flink'[e]] = e
                      /\ blink'[e] \in InUse /\ flink'[blink'[e]] = e
    BY <1>2 DEF DoublyLinked
  <2>1. CASE e = a \/ e = b
    BY <1>1, <1>6, <1>7, <2>1 DEF IInv, TypeOK
  <2>2. CASE e # a /\ e # b
    <3>1. /\ e # blink[a] /\ e # blink[b]
          => flink[e] \notin {a, b, flink[a], flink[b]}
      BY <1>8, <2>2, LinksDiffer
    <3>2. /\ e # flink[a] /\ e # flink[b]
          => blink[e] \notin {a, b, blink[a], blink[b]}
      BY <1>8, <2>2, LinksDiffer
    <3>3. flink[e] \in InUse /\ blink[flink[e]] = e
          /\ blink[e] \in InUse /\ flink[blink[e]] = e
      BY DEF IInv, DoublyLinked
    <3>4. blink[a] # blink[b] /\ flink[a] # flink[b]
      BY LinksDiffer
    <3>5. flink'[e] \in InUse /\ blink'[flink'[e]] = e
      BY <1>1, <1>6, <1>7, <2>2, <3>1, <3>3, <3>4
    <3>6. blink'[e] \in InUse /\ flink'[blink'[e]] = e
      BY <1>1, <1>6, <1>7, <2>2, <3>2, <3>3, <3>4
    <3> QED
      BY <3>5, <3>6
  <2> QED
    BY <2>1, <2>2
<1>10. RingsApart'
  <2> SUFFICES ASSUME NEW e \in InUse
               PROVE  OwnerOf(flink[e])' = OwnerOf(e)'
    BY <1>2 DEF RingsApart
  <2>1. CASE e = a \/ e = b
    BY <1>1, <1>3, <1>6, <2>1 DEF IInv, TypeOK
  <2>2. CASE e \in live /\ (e = blink[a] \/ e = blink[b])
    <3>1. blink[a] # blink[b]
      BY LinksDiffer
    <3> QED
      BY <1>1, <1>3, <1>6, <2>2, <3>1 DEF IInv, TypeOK
  <2>3. CASE e \notin {a, b, blink[a], blink[b]}
    <3>1. flink'[e] = flink[e] /\ flink[e] \in InUse \ {a, b}
          /\ OwnerOf(flink[e]) = OwnerOf(e)
      BY <1>6, <1>8, <2>3 DEF IInv, DoublyLinked, RingsApart
    <3>2. CASE e \in Lists
      <4>1. flink[e] \in Lists => flink[e] = e
        BY <3>2, HeadLinks
      <4> QED
        BY <1>3, <2>3, <3>1, <3>2, <4>1 DEF IInv, TypeOK
    <3>3. CASE e \in live
      <4>1. CASE flink[e] \in live
        BY <1>3, <3>1, <3>3, <4>1 DEF IInv, TypeOK
      <4>2. CASE flink[e] \in Lists
        <5>1. owner[e] = flink[e] /\ e \notin Lists
          BY <3>1, <3>3, <4>2 DEF IInv, TypeOK
        <5>2. owner'[e] = owner[e]
          BY <1>3, <3>1, <3>3, <5>1 DEF IInv, TypeOK
        <5> QED
          BY <3>1, <4>2, <5>1, <5>2
      <4> QED
        BY <3>1, <4>1, <4>2
    <3> QED
      BY <3>2, <3>3
  <2> QED
    BY <1>1, <2>1, <2>2, <2>3
<1> QED
  BY <1>4, <1>5, <1>9, <1>10 DEF IInv

-----------------------------------------------------------------------------
(***************************************************************************)
(* Every empty list meets the invariant.                                   *)
(***************************************************************************)
LEMMA InitIInv == Init => IInv
  BY DEF Init, IInv, TypeOK, Owned, DoublyLinked, RingsApart

(***************************************************************************)
(* Every operation keeps the invariant.                                    *)
(***************************************************************************)
LEMMA NextIInv == IInv /\ [Next]_vars => IInv'
<1> SUFFICES ASSUME IInv, [Next]_vars
             PROVE  IInv'
  OBVIOUS
<1> live \subseteq Nodes
  BY DEF IInv, TypeOK
<1>1. ASSUME NEW pos \in Lists \cup live, NEW n \in Nodes \cup {NULL},
             emplace(pos, n)
      PROVE  IInv'
  BY <1>1, EmplaceStep
<1>2. ASSUME NEW pos \in live, erase(pos)
      PROVE  IInv'
  BY <1>2, UnlinkStep DEF erase
<1>3. ASSUME NEW l \in Lists, clear(l)
      PROVE  IInv'
  BY <1>3 DEF clear, IInv, TypeOK, Owned, DoublyLinked, RingsApart
<1>4. ASSUME NEW a \in Lists, NEW b \in Lists, MoveAssign(a, b)
      PROVE  IInv'
  BY <1>4 DEF MoveAssign, IInv, TypeOK, Owned, DoublyLinked, RingsApart
<1>5. ASSUME NEW a \in Lists, NEW b \in Lists, swap(a, b)
      PROVE  IInv'
  <2>1. a # b /\ SwapLinks(a, b) /\ UNCHANGED <<live, clearing, other>>
        /\ clearing' \in Lists \cup {NULL} /\ other' \in Lists \cup {NULL}
    BY <1>5 DEF swap, IInv, TypeOK
  <2>2. CASE ~IsListEmpty(a) /\ ~IsListEmpty(b)
    <3>1. Exchange(a, b)
      BY <2>1, <2>2 DEF SwapLinks
    <3> QED
      BY <2>1, <2>2, <3>1, ExchangeStep
  <2>3. CASE IsListEmpty(a) /\ ~IsListEmpty(b)
    <3>1. Take(a, b)
      BY <2>1, <2>3 DEF SwapLinks
    <3> QED
      BY <2>1, <2>3, <3>1, TakeStep
  <2>4. CASE ~IsListEmpty(a) /\ IsListEmpty(b)
    <3>1. Take(b, a)
      BY <2>1, <2>4 DEF SwapLinks
    <3> QED
      BY <2>1, <2>4, <3>1, TakeStep
  <2>5. CASE IsListEmpty(a) /\ IsListEmpty(b)
    <3>1. UNCHANGED <<flink, blink, owner>>
      BY <2>1, <2>5 DEF SwapLinks
    <3> QED
      BY <2>1, <3>1 DEF IInv, TypeOK, Owned, DoublyLinked, RingsApart
  <2> QED
    BY <2>2, <2>3, <2>4, <2>5
<1>6. CASE ClearFirst
  <2>1. clearing \in Lists /\ ~IsListEmpty(clearing)
    BY <1>6 DEF ClearFirst, IInv, TypeOK
  <2>2. flink[clearing] \in live
    BY <2>1, HeadLinks DEF IInv, DoublyLinked, IsListEmpty
  <2> QED
    BY <1>6, <2>2, UnlinkStep DEF ClearFirst
<1>7. CASE ClearDone
  <2>1. /\ clearing \in Lists /\ IsListEmpty(clearing)
        /\ clearing' = NULL /\ other' = NULL /\ live' = live
    BY <1>7 DEF ClearDone, Cleared, IInv, TypeOK
  <2>2. CASE other = NULL \/ IsListEmpty(other)
    <3>1. UNCHANGED <<flink, blink, owner>>
      BY <1>7, <2>2 DEF ClearDone
    <3> QED
      BY <2>1, <3>1 DEF IInv, TypeOK, Owned, DoublyLinked, RingsApart
  <2>3. CASE other # NULL /\ ~IsListEmpty(other)
    <3>1. Take(clearing, other) /\ other \in Lists /\ clearing # other
      BY <1>7, <2>1, <2>3 DEF ClearDone, IInv, TypeOK
    <3> QED
      BY <2>1, <2>3, <3>1, TakeStep
  <2> QED
    BY <2>2, <2>3
<1>8. CASE UNCHANGED vars
  BY <1>8 DEF vars, IInv, TypeOK, Owned, DoublyLinked, RingsApart
<1> QED
  BY <1>1, <1>2, <1>3, <1>4, <1>5, <1>6, <1>7, <1>8 DEF Next

(***************************************************************************)
(* The inductive invariant of klist: its types, that live nodes have an    *)
(* owner, and the two facts about links.                                   *)
(***************************************************************************)
THEOREM KListInvariant == Spec => []IInv
  BY InitIInv, NextIInv, PTL DEF Spec

(***************************************************************************)
(* The links of all heads and live nodes agree: RemoveEntryList in erase   *)
(* and clear never meets a corrupt or freed neighbour.                     *)
(***************************************************************************)
THEOREM LinksAgree == Spec => []DoublyLinked
<1>1. IInv => DoublyLinked
  BY DEF IInv
<1> QED
  BY <1>1, KListInvariant, PTL

(***************************************************************************)
(* insert, erase, move and swap never join the rings of two lists.         *)
(***************************************************************************)
THEOREM ListsApart == Spec => []RingsApart
<1>1. IInv => RingsApart
  BY DEF IInv
<1> QED
  BY <1>1, KListInvariant, PTL

(***************************************************************************)
(* Type correctness of the lists.                                          *)
(***************************************************************************)
THEOREM KListTypes == Spec => []TypeOK
<1>1. IInv => TypeOK
  BY DEF IInv
<1> QED
  BY <1>1, KListInvariant, PTL

-----------------------------------------------------------------------------
(***************************************************************************)
(* The ring of a list as a sequence: its nodes, each once, in the order in *)
(* which flink leads from the head back to it.                             *)
(***************************************************************************)
Succ(l, s, i) == IF i < Len(s) THEN s[i + 1] ELSE l

Chain(l, s) ==
  /\ s \in Seq(Nodes)
  /\ flink[l] = Succ(l, s, 0)
  /\ \A i \in 1 .. Len(s) : flink[s[i]] = Succ(l, s, i)
  /\ \A i, j \in 1 .. Len(s) : s[i] = s[j] => i = j

\* A list has no more nodes than there are.
LEMMA ChainFits ==
  ASSUME NEW s \in Seq(Nodes),
         \A i, j \in 1 .. Len(s) : s[i] = s[j] => i = j
  PROVE  Cardinality(Nodes) \in Nat /\ Len(s) \in 0 .. Cardinality(Nodes)
<1>1. Len(s) \in Nat /\ s \in [1 .. Len(s) -> Nodes]
  BY LenProperties
<1>2. s \in Injection(1 .. Len(s), Nodes)
  BY <1>1 DEF Injection, IsInjective
<1>3. Cardinality(1 .. Len(s)) <= Cardinality(Nodes)
  BY <1>2, NodesAssumption, FS_Injection
<1>4. Cardinality(1 .. Len(s)) = Len(s)
  BY <1>1, FS_Interval
<1>5. Cardinality(Nodes) \in Nat
  BY NodesAssumption, FS_CardinalityType
<1> QED
  BY <1>1, <1>3, <1>4, <1>5

\* One step of the walk appends the next node, or finds the head.
Further(l, met) ==
  LET next == flink[IF met = <<>> THEN l ELSE met[Len(met)]]
  IN  IF next = l THEN met ELSE Append(met, next)

\* What it has met after k steps.
Met(s, k) == IF k < Len(s) THEN SubSeq(s, 1, k) ELSE s

\* The next step meets the next node, and after the last one it stays.
LEMMA OneFurther ==
  ASSUME NEW l \in Lists, NEW s, Chain(l, s), NEW k \in Nat \ {0}
  PROVE  Further(l, Met(s, k - 1)) = Met(s, k)
<1>1. /\ s \in Seq(Nodes) /\ Len(s) \in Nat
      /\ \A i \in 1 .. Len(s) : s[i] \in Nodes /\ s[i] # l
      /\ flink[l] = Succ(l, s, 0)
      /\ \A i \in 1 .. Len(s) : flink[s[i]] = Succ(l, s, i)
  <2>1. s \in Seq(Nodes) /\ Len(s) \in Nat
    BY LenProperties DEF Chain
  <2>2. \A i \in 1 .. Len(s) : s[i] \in Nodes
    BY <2>1, ElementOfSeq
  <2>3. /\ flink[l] = Succ(l, s, 0)
        /\ \A i \in 1 .. Len(s) : flink[s[i]] = Succ(l, s, i)
    BY Zenon DEF Chain
  <2>4. \A i \in 1 .. Len(s) : s[i] # l
    BY <2>2
  <2> QED
    BY <2>1, <2>2, <2>3, <2>4
<1>2. CASE k - 1 < Len(s)
  <2> DEFINE m == SubSeq(s, 1, k - 1)
  <2>1. Met(s, k - 1) = m
    BY <1>2 DEF Met
  <2>2. /\ m \in Seq(Nodes) /\ Len(m) = k - 1
        /\ \A i \in 1 .. k - 1 : m[i] = s[i]
    <3>1. \A i \in 1 .. k - 1 : s[i] \in Nodes
      BY <1>1, <1>2
    <3>2. /\ m \in Seq(Nodes) /\ Len(m) = IF 1 <= k - 1 THEN (k - 1) - 1 + 1 ELSE 0
          /\ \A i \in 1 .. (k - 1) - 1 + 1 : m[i] = s[1 + i - 1]
      BY <3>1, SubSeqProperties
    <3> QED
      BY <3>2
  <2>3. k \in 1 .. Len(s) /\ s[k] # l /\ s[k] \in Nodes
    BY <1>1, <1>2
  <2> HIDE DEF m
  <2>4. flink[IF m = <<>> THEN l ELSE m[Len(m)]] = s[k]
    <3>1. CASE k = 1
      <4>1. m = <<>>
        BY <2>2, <3>1, EmptySeq
      <4>2. Succ(l, s, 0) = s[1]
        BY <1>1, <2>3, <3>1 DEF Succ
      <4> QED
        BY <1>1, <3>1, <4>1, <4>2
    <3>2. CASE k # 1
      <4>1. k - 1 \in 1 .. Len(s) /\ k - 1 \in 1 .. k - 1 /\ (k - 1) + 1 = k
            /\ m # <<>>
        BY <1>1, <1>2, <2>2, <3>2, EmptySeq
      <4>2. Succ(l, s, k - 1) = s[k]
        BY <1>2, <4>1 DEF Succ
      <4>3. m[Len(m)] = s[k - 1]
        BY <2>2, <4>1
      <4> QED
        BY <1>1, <4>1, <4>2, <4>3
    <3> QED
      BY <3>1, <3>2
  <2>5. Further(l, m) = Append(m, s[k])
    BY <2>3, <2>4 DEF Further
  <2>6. Append(m, s[k]) = SubSeq(s, 1, k)
    <3>1. SubSeq(s, 1, k) = SubSeq(s, 1, k - 1) \o <<s[k]>>
      <4>1. s \in Seq(Nodes) /\ 1 \in 1 .. Len(s) /\ k \in 1 .. Len(s)
        BY <1>1, <2>3
      <4> QED
        BY <4>1, SubSeqRecursiveSecond
    <3>2. Append(m, s[k]) = m \o <<s[k]>>
      BY <2>2, <2>3, AppendIsConcat
    <3> QED
      BY <3>1, <3>2, Zenon DEF m
  <2>7. Met(s, k) = SubSeq(s, 1, k)
    <3>1. CASE k < Len(s)
      BY <3>1 DEF Met
    <3>2. CASE ~(k < Len(s))
      <4>1. k = Len(s)
        BY <1>1, <2>3, <3>2
      <4> QED
        BY <1>1, <4>1, SubSeqFull DEF Met
    <3> QED
      BY <3>1, <3>2
  <2> QED
    BY <2>1, <2>5, <2>6, <2>7
<1>3. CASE ~(k - 1 < Len(s))
  <2>1. Met(s, k - 1) = s /\ Met(s, k) = s
    BY <1>1, <1>3 DEF Met
  <2>2. flink[IF s = <<>> THEN l ELSE s[Len(s)]] = l
    <3>1. CASE s = <<>>
      <4>1. Len(s) = 0
        BY <3>1, EmptySeq
      <4> QED
        BY <1>1, <3>1, <4>1 DEF Succ
    <3>2. CASE s # <<>>
      <4>1. Len(s) \in 1 .. Len(s) /\ ~(Len(s) < Len(s))
        BY <1>1, <3>2, EmptySeq
      <4>2. Succ(l, s, Len(s)) = l
        BY <4>1 DEF Succ
      <4> QED
        BY <1>1, <3>2, <4>1, <4>2
    <3> QED
      BY <3>1, <3>2
  <2> QED
    BY <2>1, <2>2 DEF Further
<1> QED
  BY <1>2, <1>3

\* The order of the numbers, for the first place where a walk could differ.
LessThan == {ss \in Nat \X Nat : ss[1] < ss[2]}

\* The walk from the head of a list finds the nodes of its ring.
LEMMA WalkIsChain ==
  \A l \in Lists : \A s \in Seq(Nodes) : Chain(l, s) => Walk(l) = s
<1> SUFFICES ASSUME NEW l \in Lists, NEW s \in Seq(Nodes), Chain(l, s)
             PROVE  Walk(l) = s
  OBVIOUS
<1>1. PICK c : c = Cardinality(Nodes)
  OBVIOUS
<1>2. c \in Nat /\ Len(s) \in 0 .. c /\ Len(s) \in Nat
  BY <1>1, ChainFits DEF Chain
<1> DEFINE Body(f) == [k \in 0 .. c |-> IF k = 0 THEN <<>> ELSE Further(l, f[k - 1])]
           g == [k \in 0 .. c |-> Met(s, k)]
           p == CHOOSE f : f = Body(f)
<1>3. Walk(l) = p[c]
  BY <1>1 DEF Walk, Further
<1>4. Met(s, 0) = <<>>
  <2>1. CASE 0 < Len(s)
    BY <2>1, SubSeqEmpty DEF Met
  <2>2. CASE ~(0 < Len(s))
    BY <1>2, <2>2, EmptySeq DEF Met
  <2> QED
    BY <2>1, <2>2
<1>5. \A k \in 0 .. c : k # 0 => Further(l, Met(s, k - 1)) = Met(s, k)
  BY <1>2, OneFurther
<1>6. g = Body(g)
  <2>1. ASSUME NEW k \in 0 .. c
        PROVE  Met(s, k) = IF k = 0 THEN <<>> ELSE Further(l, g[k - 1])
    <3>1. CASE k = 0
      BY <1>4, <3>1
    <3>2. CASE k # 0
      <4>1. k - 1 \in 0 .. c
        BY <1>2, <3>2
      <4> QED
        BY <1>5, <3>2, <4>1
    <3> QED
      BY <3>1, <3>2
  <2> QED
    BY <2>1, Zenon
<1>7. p = Body(p)
  <2> HIDE DEF g, Body
  <2>1. \E f : f = Body(f)
    BY <1>6
  <2> QED
    BY <2>1, Zenon
<1>8. \A k \in 0 .. c : p[k] = IF k = 0 THEN <<>> ELSE Further(l, p[k - 1])
  <2> HIDE DEF p
  <2>1. \A k \in 0 .. c : Body(p)[k] = IF k = 0 THEN <<>> ELSE Further(l, p[k - 1])
    BY Zenon
  <2> QED
    BY <1>7, <2>1, Zenon
<1> DEFINE wrong == {k \in 0 .. c : p[k] # Met(s, k)}
<1>9. wrong = {}
  <2> HIDE DEF p
  <2> SUFFICES ASSUME wrong # {} PROVE FALSE
    OBVIOUS
  <2>1. wrong \subseteq Nat
    BY <1>2
  <2>2. IsWellFoundedOn(LessThan, Nat)
    BY NatLessThanWellFounded, Zenon DEF OpToRel, LessThan
  <2>3. PICK z \in wrong : \A y \in wrong : ~(<<y, z>> \in LessThan)
    <3> HIDE DEF wrong
    <3> QED
      BY <2>1, <2>2, WFMin
  <2>4. z \in 0 .. c /\ p[z] # Met(s, z)
    OBVIOUS
  <2>5. z # 0
    BY <1>4, <1>8, <2>4
  <2>6. z - 1 \in 0 .. c /\ <<z - 1, z>> \in LessThan
    BY <1>2, <2>4, <2>5 DEF LessThan
  <2>7. p[z - 1] = Met(s, z - 1)
    BY <2>3, <2>6
  <2> QED
    BY <1>5, <1>8, <2>4, <2>5, <2>7
<1>10. p[c] = Met(s, c)
  BY <1>2, <1>9
<1> QED
  BY <1>2, <1>3, <1>10 DEF Met

\* The same after a step.
LEMMA WalkIsChainThen ==
  \A l \in Lists : \A s \in Seq(Nodes) : Chain(l, s)' => Walk(l)' = s
<1>1. (\A l \in Lists : \A s \in Seq(Nodes) : Chain(l, s) => Walk(l) = s)'
  BY WalkIsChain, PTL
<1> QED
  BY <1>1

\* The ring of l is s, and holds exactly the live nodes put in l.
RingOf(l, s) ==
  /\ Chain(l, s)
  /\ \A n \in Nodes :
       n \in live /\ owner[n] = l <=> \E i \in 1 .. Len(s) : s[i] = n

\* A ring that keeps its nodes and their order, under its own head or m.
LEMMA SameRing ==
  ASSUME NEW l \in Lists, NEW m \in Lists, NEW s, RingOf(l, s),
         flink'[m] = IF flink[l] = l THEN m ELSE flink[l],
         \A n \in Nodes : n \in live /\ owner[n] = l =>
           flink'[n] = IF flink[n] = l THEN m ELSE flink[n],
         \A n \in Nodes :
           n \in live' /\ owner'[n] = m <=> n \in live /\ owner[n] = l
  PROVE  RingOf(m, s)'
<1>1. /\ s \in Seq(Nodes) /\ Len(s) \in Nat
      /\ \A i \in 1 .. Len(s) : s[i] \in Nodes
      /\ \A i, j \in 1 .. Len(s) : s[i] = s[j] => i = j
  <2>1. s \in Seq(Nodes) /\ \A i, j \in 1 .. Len(s) : s[i] = s[j] => i = j
    BY Zenon DEF RingOf, Chain
  <2> QED
    BY <2>1, ElementOfSeq, LenProperties
<1>2. /\ flink[l] = Succ(l, s, 0)
      /\ \A i \in 1 .. Len(s) : flink[s[i]] = Succ(l, s, i)
  BY Zenon DEF RingOf, Chain
<1>3. \A i \in 0 .. Len(s) :
        Succ(m, s, i) = IF Succ(l, s, i) = l THEN m ELSE Succ(l, s, i)
  <2> TAKE i \in 0 .. Len(s)
  <2>1. CASE i < Len(s)
    <3>1. i + 1 \in 1 .. Len(s)
      BY <1>1, <2>1
    <3>2. s[i + 1] \in Nodes
      BY <1>1, <3>1
    <3> QED
      BY <2>1, <3>2 DEF Succ
  <2>2. CASE ~(i < Len(s))
    BY <2>2 DEF Succ
  <2> QED
    BY <2>1, <2>2
<1>4. flink'[m] = Succ(m, s, 0)
  BY <1>1, <1>2, <1>3
<1>5. ASSUME NEW i \in 1 .. Len(s)
      PROVE  flink'[s[i]] = Succ(m, s, i)
  <2>1. s[i] \in Nodes /\ s[i] \in live /\ owner[s[i]] = l
    BY <1>1 DEF RingOf
  <2>2. i \in 0 .. Len(s)
    BY <1>1
  <2> QED
    BY <1>2, <1>3, <2>1, <2>2
<1>6. Chain(m, s)'
  BY <1>1, <1>4, <1>5 DEF Chain, Succ
<1>7. \A n \in Nodes :
        n \in live /\ owner[n] = l <=> \E i \in 1 .. Len(s) : s[i] = n
  BY DEF RingOf
<1> QED
  BY <1>6, <1>7 DEF RingOf

\* InsertAt puts one element into a sequence.
LEMMA WithOneMore ==
  ASSUME NEW s \in Seq(Nodes), NEW i \in 1 .. Len(s) + 1, NEW n \in Nodes
  PROVE  LET t == Abstract!InsertAt(s, i, n) IN
         /\ t \in Seq(Nodes)
         /\ Len(t) = Len(s) + 1
         /\ t[i] = n
         /\ \A j \in 1 .. i - 1 : t[j] = s[j]
         /\ \A j \in i .. Len(s) : \A k : k = j + 1 => t[k] = s[j]
<1> DEFINE a == SubSeq(s, 1, i - 1)
           b == SubSeq(s, i, Len(s))
           an == a \o <<n>>
<1>1. Len(s) \in Nat /\ \A j \in 1 .. Len(s) : s[j] \in Nodes
  BY LenProperties
<1>2. /\ a \in Seq(Nodes) /\ Len(a) = i - 1
      /\ \A j \in 1 .. i - 1 : a[j] = s[j]
  <2>1. \A j \in 1 .. i - 1 : s[j] \in Nodes
    BY <1>1
  <2>2. /\ a \in Seq(Nodes) /\ Len(a) = IF 1 <= i - 1 THEN (i - 1) - 1 + 1 ELSE 0
        /\ \A j \in 1 .. (i - 1) - 1 + 1 : a[j] = s[1 + j - 1]
    BY <2>1, <1>1, SubSeqProperties
  <2> QED
    BY <1>1, <2>2
<1>3. /\ b \in Seq(Nodes) /\ Len(b) = Len(s) - i + 1
      /\ \A j \in 1 .. Len(s) - i + 1 : b[j] = s[i + j - 1]
  <2>1. \A j \in i .. Len(s) : s[j] \in Nodes
    BY <1>1
  <2>2. /\ b \in Seq(Nodes)
        /\ Len(b) = IF i <= Len(s) THEN Len(s) - i + 1 ELSE 0
        /\ \A j \in 1 .. Len(s) - i + 1 : b[j] = s[i + j - 1]
    BY <2>1, <1>1, SubSeqProperties
  <2> QED
    BY <1>1, <2>2
<1>4. <<n>> \in Seq(Nodes) /\ Len(<<n>>) = 1 /\ <<n>>[1] = n
  OBVIOUS
<1> HIDE DEF a, b
<1>5. /\ an \in Seq(Nodes) /\ Len(an) = i
      /\ \A j \in 1 .. i : an[j] = IF j <= i - 1 THEN s[j] ELSE n
  <2>1. /\ an \in Seq(Nodes) /\ Len(an) = Len(a) + 1
        /\ \A j \in 1 .. Len(a) + 1 :
             an[j] = IF j <= Len(a) THEN a[j] ELSE <<n>>[j - Len(a)]
    BY <1>2, <1>4, ConcatProperties
  <2>2. Len(an) = i
    BY <1>1, <1>2, <2>1
  <2>3. ASSUME NEW j \in 1 .. i
        PROVE  an[j] = IF j <= i - 1 THEN s[j] ELSE n
    <3>1. j \in 1 .. Len(a) + 1
      BY <1>1, <1>2
    <3>2. CASE j <= i - 1
      <4>1. j <= Len(a) /\ j \in 1 .. i - 1
        BY <1>1, <1>2, <3>2
      <4> QED
        BY <1>2, <2>1, <3>1, <3>2, <4>1
    <3>3. CASE ~(j <= i - 1)
      <4>1. ~(j <= Len(a)) /\ j - Len(a) = 1
        BY <1>1, <1>2, <3>3
      <4> QED
        BY <1>4, <2>1, <3>1, <3>3, <4>1
    <3> QED
      BY <3>2, <3>3
  <2> QED
    BY <2>1, <2>2, <2>3
<1> HIDE DEF an
<1>6. /\ an \o b \in Seq(Nodes) /\ Len(an \o b) = Len(an) + Len(b)
      /\ \A j \in 1 .. Len(an) + Len(b) :
           (an \o b)[j] = IF j <= Len(an) THEN an[j] ELSE b[j - Len(an)]
  BY <1>3, <1>5, ConcatProperties
<1>7. Len(an \o b) = Len(s) + 1
  BY <1>1, <1>3, <1>5, <1>6
<1>8. ASSUME NEW j \in 1 .. i
      PROVE  (an \o b)[j] = IF j <= i - 1 THEN s[j] ELSE n
  <2>1. j \in 1 .. Len(an) + Len(b) /\ j <= Len(an)
    BY <1>1, <1>3, <1>5
  <2> QED
    BY <1>5, <1>6, <2>1
<1>9. (an \o b)[i] = n
  <2>1. i \in 1 .. i /\ ~(i <= i - 1)
    BY <1>1
  <2> QED
    BY <1>8, <2>1
<1>10. \A j \in 1 .. i - 1 : (an \o b)[j] = s[j]
  <2>1. \A j \in 1 .. i - 1 : j \in 1 .. i /\ j <= i - 1
    BY <1>1
  <2> QED
    BY <1>8, <2>1
<1>11. ASSUME NEW j \in i .. Len(s), NEW k, k = j + 1
       PROVE  (an \o b)[k] = s[j]
  <2>1. /\ k \in 1 .. Len(an) + Len(b) /\ ~(k <= Len(an))
        /\ k - Len(an) \in 1 .. Len(s) - i + 1 /\ i + (k - Len(an)) - 1 = j
    BY <1>1, <1>3, <1>5, <1>11
  <2>2. (an \o b)[k] = b[k - Len(an)]
    BY <1>6, <2>1
  <2> QED
    BY <1>3, <2>1, <2>2
<1>12. Abstract!InsertAt(s, i, n) = an \o b
  BY Zenon DEF Abstract!InsertAt, an, a, b
<1> HIDE DEF Abstract!InsertAt
<1> QED
  BY <1>6, <1>7, <1>9, <1>10, <1>11, <1>12

\* RemoveAt takes one element out of a sequence.
LEMMA WithOneLess ==
  ASSUME NEW s \in Seq(Nodes), NEW i \in 1 .. Len(s)
  PROVE  LET t == Abstract!RemoveAt(s, i) IN
         /\ t \in Seq(Nodes)
         /\ Len(t) = Len(s) - 1
         /\ \A j \in 1 .. i - 1 : t[j] = s[j]
         /\ \A j \in i .. Len(s) - 1 : \A k : k = j + 1 => t[j] = s[k]
<1> DEFINE a == SubSeq(s, 1, i - 1)
           b == SubSeq(s, i + 1, Len(s))
<1>1. Len(s) \in Nat /\ \A j \in 1 .. Len(s) : s[j] \in Nodes
  BY LenProperties
<1>2. /\ a \in Seq(Nodes) /\ Len(a) = i - 1
      /\ \A j \in 1 .. i - 1 : a[j] = s[j]
  <2>1. \A j \in 1 .. i - 1 : s[j] \in Nodes
    BY <1>1
  <2>2. /\ a \in Seq(Nodes) /\ Len(a) = IF 1 <= i - 1 THEN (i - 1) - 1 + 1 ELSE 0
        /\ \A j \in 1 .. (i - 1) - 1 + 1 : a[j] = s[1 + j - 1]
    BY <2>1, <1>1, SubSeqProperties
  <2> QED
    BY <1>1, <2>2
<1>3. /\ b \in Seq(Nodes) /\ Len(b) = Len(s) - i
      /\ \A j \in 1 .. Len(s) - i : b[j] = s[i + j]
  <2>1. \A j \in i + 1 .. Len(s) : s[j] \in Nodes
    BY <1>1
  <2>2. /\ b \in Seq(Nodes)
        /\ Len(b) = IF i + 1 <= Len(s) THEN Len(s) - (i + 1) + 1 ELSE 0
        /\ \A j \in 1 .. Len(s) - (i + 1) + 1 : b[j] = s[(i + 1) + j - 1]
    BY <2>1, <1>1, SubSeqProperties
  <2> QED
    BY <1>1, <2>2
<1> HIDE DEF a, b
<1>4. /\ a \o b \in Seq(Nodes) /\ Len(a \o b) = Len(a) + Len(b)
      /\ \A j \in 1 .. Len(a) + Len(b) :
           (a \o b)[j] = IF j <= Len(a) THEN a[j] ELSE b[j - Len(a)]
  BY <1>2, <1>3, ConcatProperties
<1>5. Len(a \o b) = Len(s) - 1
  BY <1>1, <1>2, <1>3, <1>4
<1>6. ASSUME NEW j \in 1 .. i - 1
      PROVE  (a \o b)[j] = s[j]
  <2>1. j \in 1 .. Len(a) + Len(b) /\ j <= Len(a)
    BY <1>1, <1>2, <1>3
  <2> QED
    BY <1>2, <1>4, <2>1
<1>7. ASSUME NEW j \in i .. Len(s) - 1, NEW k, k = j + 1
      PROVE  (a \o b)[j] = s[k]
  <2>1. /\ j \in 1 .. Len(a) + Len(b) /\ ~(j <= Len(a))
        /\ j - Len(a) \in 1 .. Len(s) - i /\ i + (j - Len(a)) = k
    BY <1>1, <1>2, <1>3, <1>7
  <2>2. (a \o b)[j] = b[j - Len(a)]
    BY <1>4, <2>1
  <2> QED
    BY <1>3, <2>1, <2>2
<1>8. Abstract!RemoveAt(s, i) = a \o b
  BY Zenon DEF Abstract!RemoveAt, a, b
<1> HIDE DEF Abstract!RemoveAt
<1> QED
  BY <1>4, <1>5, <1>6, <1>7, <1>8

\* What a ring is made of, and that no entry follows two others.
LEMMA RingFacts ==
  ASSUME NEW l \in Lists, NEW s, RingOf(l, s)
  PROVE  /\ s \in Seq(Nodes) /\ Len(s) \in Nat
         /\ \A i \in 1 .. Len(s) : s[i] \in Nodes /\ s[i] \in live /\ owner[s[i]] = l
         /\ \A i, j \in 1 .. Len(s) : s[i] = s[j] => i = j
         /\ flink[l] = Succ(l, s, 0)
         /\ \A i \in 1 .. Len(s) : flink[s[i]] = Succ(l, s, i)
         /\ \A i, j \in 0 .. Len(s) : Succ(l, s, i) = Succ(l, s, j) => i = j
<1>1. /\ s \in Seq(Nodes)
      /\ \A i, j \in 1 .. Len(s) : s[i] = s[j] => i = j
      /\ flink[l] = Succ(l, s, 0)
      /\ \A i \in 1 .. Len(s) : flink[s[i]] = Succ(l, s, i)
  BY Zenon DEF RingOf, Chain
<1>2. Len(s) \in Nat /\ \A i \in 1 .. Len(s) : s[i] \in Nodes
  BY <1>1, ElementOfSeq, LenProperties
<1>3. \A i \in 1 .. Len(s) : s[i] \in live /\ owner[s[i]] = l
  BY <1>2 DEF RingOf
<1>4. ASSUME NEW i \in 0 .. Len(s), NEW j \in 0 .. Len(s),
             Succ(l, s, i) = Succ(l, s, j)
      PROVE  i = j
  <2>1. \A k \in 0 .. Len(s) : k < Len(s) => k + 1 \in 1 .. Len(s)
    BY <1>2
  <2>2. \A k \in 0 .. Len(s) : k < Len(s) => s[k + 1] # l
    BY <1>2, <2>1
  <2>3. CASE i < Len(s)
    <3>1. Succ(l, s, i) = s[i + 1] /\ s[i + 1] # l
      BY <2>2, <2>3 DEF Succ
    <3>2. j < Len(s)
      BY <1>4, <3>1 DEF Succ
    <3>3. s[i + 1] = s[j + 1]
      BY <1>4, <3>1, <3>2 DEF Succ
    <3>4. i + 1 = j + 1
      BY <1>1, <2>1, <2>3, <3>2, <3>3
    <3> QED
      BY <3>4
  <2>4. CASE ~(i < Len(s))
    <3>1. ~(j < Len(s))
      BY <1>4, <2>2, <2>4 DEF Succ
    <3> QED
      BY <1>2, <2>4, <3>1
  <2> QED
    BY <2>3, <2>4
<1> QED
  BY <1>1, <1>2, <1>3, <1>4

\* A node linked in front of an entry of the ring is in its place there.
LEMMA InsertedRing ==
  ASSUME NEW l \in Lists, NEW s, RingOf(l, s),
         NEW i \in 1 .. Len(s) + 1, NEW n \in Nodes, n \notin live,
         flink'[n] = Succ(l, s, i - 1),
         flink'[l] = IF flink[l] = Succ(l, s, i - 1) THEN n ELSE flink[l],
         \A d \in Nodes : d \in live /\ owner[d] = l =>
           flink'[d] = IF flink[d] = Succ(l, s, i - 1) THEN n ELSE flink[d],
         \A d \in Nodes :
           d \in live' /\ owner'[d] = l <=> d = n \/ (d \in live /\ owner[d] = l)
  PROVE  RingOf(l, Abstract!InsertAt(s, i, n))'
<1>1. /\ s \in Seq(Nodes) /\ Len(s) \in Nat
      /\ \A j \in 1 .. Len(s) : s[j] \in Nodes /\ s[j] \in live /\ owner[s[j]] = l
      /\ \A j, k \in 1 .. Len(s) : s[j] = s[k] => j = k
      /\ flink[l] = Succ(l, s, 0)
      /\ \A j \in 1 .. Len(s) : flink[s[j]] = Succ(l, s, j)
      /\ \A j, k \in 0 .. Len(s) : Succ(l, s, j) = Succ(l, s, k) => j = k
  BY RingFacts
<1>2. PICK t : t = Abstract!InsertAt(s, i, n)
  OBVIOUS
<1>3. /\ t \in Seq(Nodes)
      /\ Len(t) = Len(s) + 1
      /\ t[i] = n
      /\ \A j \in 1 .. i - 1 : t[j] = s[j]
      /\ \A j \in i .. Len(s) : \A k : k = j + 1 => t[k] = s[j]
  <2>1. s \in Seq(Nodes) /\ i \in 1 .. Len(s) + 1
    BY <1>1
  <2> QED
    BY <1>2, <2>1, WithOneMore
<1>4. \A j \in 0 .. i - 2 : Succ(l, t, j) = Succ(l, s, j)
  <2> TAKE j \in 0 .. i - 2
  <2>1. j < Len(t) /\ j < Len(s) /\ j + 1 \in 1 .. i - 1
    BY <1>1, <1>3
  <2> QED
    BY <1>3, <2>1 DEF Succ
<1>5. Succ(l, t, i - 1) = n
  <2>1. i - 1 < Len(t) /\ (i - 1) + 1 = i
    BY <1>1, <1>3
  <2> QED
    BY <1>3, <2>1 DEF Succ
<1>6. ASSUME NEW j \in i .. Len(t)
      PROVE  Succ(l, t, j) = Succ(l, s, j - 1)
  <2>1. CASE j < Len(t)
    <3>1. j - 1 < Len(s) /\ (j - 1) + 1 = j /\ j \in i .. Len(s)
      BY <1>1, <1>3, <2>1
    <3>2. t[j + 1] = s[j]
      BY <1>3, <3>1
    <3> QED
      BY <2>1, <3>1, <3>2 DEF Succ
  <2>2. CASE ~(j < Len(t))
    <3>1. ~(j - 1 < Len(s))
      BY <1>1, <1>3, <2>2
    <3> QED
      BY <2>2, <3>1 DEF Succ
  <2> QED
    BY <2>1, <2>2
<1>7. ASSUME NEW j \in 0 .. Len(s), j # i - 1
      PROVE  Succ(l, s, j) # Succ(l, s, i - 1)
  <2>1. i - 1 \in 0 .. Len(s)
    BY <1>1
  <2> QED
    BY <1>1, <1>7, <2>1
<1>8. flink'[l] = Succ(l, t, 0)
  <2>1. CASE i = 1
    <3>1. i - 1 = 0
      BY <2>1
    <3> QED
      BY <1>1, <1>5, <3>1
  <2>2. CASE i # 1
    <3>1. 0 \in 0 .. i - 2 /\ 0 \in 0 .. Len(s) /\ 0 # i - 1
      BY <1>1, <2>2
    <3> QED
      BY <1>1, <1>4, <1>7, <3>1
  <2> QED
    BY <2>1, <2>2
<1>9. ASSUME NEW j \in 1 .. Len(t)
      PROVE  flink'[t[j]] = Succ(l, t, j)
  <2>1. CASE j = i
    <3>1. j \in i .. Len(t)
      BY <1>1, <1>3, <2>1
    <3> QED
      BY <1>3, <1>6, <2>1, <3>1
  <2>2. CASE j < i
    <3>1. j \in 1 .. i - 1 /\ j \in 1 .. Len(s)
      BY <1>1, <1>3, <2>2
    <3>2. flink'[t[j]] = IF Succ(l, s, j) = Succ(l, s, i - 1) THEN n ELSE Succ(l, s, j)
      BY <1>1, <1>3, <3>1
    <3>3. CASE j = i - 1
      BY <1>5, <3>2, <3>3
    <3>4. CASE j # i - 1
      <4>1. j \in 0 .. i - 2 /\ j \in 0 .. Len(s)
        BY <1>1, <3>1, <3>4
      <4> QED
        BY <1>4, <1>7, <3>2, <3>4, <4>1
    <3> QED
      BY <3>3, <3>4
  <2>3. CASE i < j
    <3>1. PICK k \in Nat : k = j - 1
      BY <1>1, <2>3
    <3>2. /\ k \in i .. Len(s) /\ j = k + 1 /\ k \in 1 .. Len(s) /\ k \in 0 .. Len(s)
          /\ k # i - 1 /\ j \in i .. Len(t)
      BY <1>1, <1>3, <2>3, <3>1
    <3>3. t[j] = s[k]
      BY <1>3, <3>2
    <3>4. flink'[s[k]] = IF Succ(l, s, k) = Succ(l, s, i - 1) THEN n ELSE Succ(l, s, k)
      BY <1>1, <3>2
    <3>5. flink'[t[j]] = Succ(l, s, k)
      BY <1>7, <3>2, <3>3, <3>4
    <3> QED
      BY <1>6, <3>1, <3>2, <3>5
  <2> QED
    <3>1. i \in Int /\ j \in Int
      BY <1>1, <1>3
    <3> QED
      BY <2>1, <2>2, <2>3, <3>1
<1>10. \A j \in 1 .. Len(t) :
         \/ j = i /\ t[j] = n
         \/ \E x \in 1 .. Len(s) : t[j] = s[x] /\ ((x = j /\ j < i) \/ (x = j - 1 /\ i < j))
  <2> TAKE j \in 1 .. Len(t)
  <2>1. CASE j = i
    BY <1>3, <2>1
  <2>2. CASE j < i
    <3>1. j \in 1 .. i - 1 /\ j \in 1 .. Len(s)
      BY <1>1, <1>3, <2>2
    <3>2. t[j] = s[j] /\ ((j = j /\ j < i) \/ (j = j - 1 /\ i < j))
      <4>1. t[j] = s[j]
        BY <1>3, <3>1
      <4> QED
        BY <2>2, <4>1
    <3> QED
      BY <3>1, <3>2, Zenon
  <2>3. CASE i < j
    <3>1. PICK k \in Nat : k = j - 1
      BY <1>1, <2>3
    <3>2. k \in i .. Len(s) /\ j = k + 1 /\ k \in 1 .. Len(s)
      BY <1>1, <1>3, <2>3, <3>1
    <3>3. t[j] = s[k]
      BY <1>3, <3>2
    <3>4. k = j - 1 /\ i < j
      BY <2>3, <3>1
    <3> QED
      BY <3>2, <3>3, <3>4
  <2> QED
    <3>1. i \in Int /\ j \in Int
      BY <1>1, <1>3
    <3> QED
      BY <2>1, <2>2, <2>3, <3>1
<1>11. ASSUME NEW j \in 1 .. Len(t), NEW k \in 1 .. Len(t), t[j] = t[k]
       PROVE  j = k
  <2>1. \A m \in 1 .. Len(s) : s[m] # n
    BY <1>1
  <2>2. j \in Int /\ k \in Int /\ i \in Int
    BY <1>1, <1>3
  <2>3. CASE j = i
    BY <1>3, <1>10, <1>11, <2>1, <2>3
  <2>4. CASE k = i
    BY <1>3, <1>10, <1>11, <2>1, <2>4
  <2>5. CASE j # i /\ k # i
    <3>1. PICK x \in 1 .. Len(s) : t[j] = s[x] /\ ((x = j /\ j < i) \/ (x = j - 1 /\ i < j))
      BY <1>10, <2>5
    <3>2. PICK y \in 1 .. Len(s) : t[k] = s[y] /\ ((y = k /\ k < i) \/ (y = k - 1 /\ i < k))
      BY <1>10, <2>5
    <3>3. x = y
      <4>1. s[x] = s[y]
        BY <1>11, <3>1, <3>2, Zenon
      <4> QED
        BY <1>1, <4>1
    <3>4. x \in Int
      OBVIOUS
    <3>5. (x = j /\ j < i) \/ (x = j - 1 /\ i < j)
      BY <3>1
    <3>6. (x = k /\ k < i) \/ (x = k - 1 /\ i < k)
      BY <3>2, <3>3
    <3> HIDE <3>1, <3>2, <3>3
    <3> QED
      BY <2>2, <3>4, <3>5, <3>6
  <2> QED
    BY <2>3, <2>4, <2>5
<1>12. ASSUME NEW d \in Nodes
       PROVE  d = n \/ (\E j \in 1 .. Len(s) : s[j] = d) <=> \E j \in 1 .. Len(t) : t[j] = d
  <2>1. ASSUME d = n
        PROVE  \E j \in 1 .. Len(t) : t[j] = d
    <3>1. i \in 1 .. Len(t)
      BY <1>1, <1>3
    <3> QED
      BY <1>3, <2>1, <3>1
  <2>2. ASSUME NEW j \in 1 .. Len(s), s[j] = d
        PROVE  \E k \in 1 .. Len(t) : t[k] = d
    <3>1. CASE j < i
      <4>1. j \in 1 .. i - 1 /\ j \in 1 .. Len(t)
        BY <1>1, <1>3, <3>1
      <4> QED
        BY <1>3, <2>2, <4>1
    <3>2. CASE ~(j < i)
      <4>1. j \in i .. Len(s) /\ j + 1 \in 1 .. Len(t)
        BY <1>1, <1>3, <3>2
      <4>2. t[j + 1] = s[j]
        BY <1>3, <4>1
      <4> QED
        BY <2>2, <4>1, <4>2
    <3> QED
      BY <3>1, <3>2
  <2>3. ASSUME NEW j \in 1 .. Len(t), t[j] = d
        PROVE  d = n \/ \E k \in 1 .. Len(s) : s[k] = d
    BY <1>10, <2>3
  <2> QED
    BY <2>1, <2>2, <2>3
<1>13. Chain(l, t)'
  BY <1>3, <1>8, <1>9, <1>11 DEF Chain, Succ
<1>14. \A d \in Nodes : d \in live /\ owner[d] = l <=> \E j \in 1 .. Len(s) : s[j] = d
  BY DEF RingOf
<1>15. \A d \in Nodes : d \in live' /\ owner'[d] = l <=> \E j \in 1 .. Len(t) : t[j] = d
  BY <1>12, <1>14
<1>16. RingOf(l, t)'
  BY <1>13, <1>15 DEF RingOf
<1> QED
  BY <1>2, <1>16

\* A node that is unlinked is missing from its ring, and nothing else.
LEMMA ErasedRing ==
  ASSUME NEW l \in Lists, NEW s, RingOf(l, s),
         NEW i \in 1 .. Len(s), NEW e, e = s[i],
         flink'[l] = IF flink[l] = e THEN flink[e] ELSE flink[l],
         \A d \in Nodes : d \in live /\ owner[d] = l /\ d # e =>
           flink'[d] = IF flink[d] = e THEN flink[e] ELSE flink[d],
         \A d \in Nodes :
           d \in live' /\ owner'[d] = l <=> d \in live /\ owner[d] = l /\ d # e
  PROVE  RingOf(l, Abstract!RemoveAt(s, i))'
<1>1. /\ s \in Seq(Nodes) /\ Len(s) \in Nat
      /\ \A j \in 1 .. Len(s) : s[j] \in Nodes /\ s[j] \in live /\ owner[s[j]] = l
      /\ \A j, k \in 1 .. Len(s) : s[j] = s[k] => j = k
      /\ flink[l] = Succ(l, s, 0)
      /\ \A j \in 1 .. Len(s) : flink[s[j]] = Succ(l, s, j)
      /\ \A j, k \in 0 .. Len(s) : Succ(l, s, j) = Succ(l, s, k) => j = k
  BY RingFacts
<1>2. PICK t : t = Abstract!RemoveAt(s, i)
  OBVIOUS
<1>3. /\ t \in Seq(Nodes)
      /\ Len(t) = Len(s) - 1
      /\ \A j \in 1 .. i - 1 : t[j] = s[j]
      /\ \A j \in i .. Len(s) - 1 : \A k : k = j + 1 => t[j] = s[k]
  <2>1. s \in Seq(Nodes) /\ i \in 1 .. Len(s)
    BY <1>1
  <2> QED
    <3>1. LET r == Abstract!RemoveAt(s, i) IN
          /\ r \in Seq(Nodes)
          /\ Len(r) = Len(s) - 1
          /\ \A j \in 1 .. i - 1 : r[j] = s[j]
          /\ \A j \in i .. Len(s) - 1 : \A k : k = j + 1 => r[j] = s[k]
      BY <2>1, WithOneLess, Zenon
    <3> QED
      BY <1>2, <3>1, Zenon
<1>4. Succ(l, s, i - 1) = e
  <2>1. i - 1 < Len(s) /\ (i - 1) + 1 = i
    BY <1>1
  <2> QED
    BY <2>1 DEF Succ
<1>5. flink[e] = Succ(l, s, i)
  BY <1>1
<1>6. ASSUME NEW j \in 0 .. Len(s), j # i - 1
      PROVE  Succ(l, s, j) # e
  <2>1. i - 1 \in 0 .. Len(s)
    BY <1>1
  <2> QED
    BY <1>1, <1>4, <1>6, <2>1
<1>7. \A j \in 0 .. i - 2 : Succ(l, t, j) = Succ(l, s, j)
  <2> TAKE j \in 0 .. i - 2
  <2>1. j < Len(t) /\ j < Len(s) /\ j + 1 \in 1 .. i - 1
    BY <1>1, <1>3
  <2> QED
    BY <1>3, <2>1 DEF Succ
<1>8. ASSUME NEW j \in i - 1 .. Len(t), NEW k, k = j + 1
      PROVE  Succ(l, t, j) = Succ(l, s, k)
  <2>1. CASE j < Len(t)
    <3>1. k < Len(s) /\ k \in i .. Len(s) - 1
      BY <1>1, <1>3, <1>8, <2>1
    <3>2. t[k] = s[k + 1]
      BY <1>3, <3>1
    <3>3. Succ(l, t, j) = t[k]
      BY <1>8, <2>1 DEF Succ
    <3> QED
      BY <3>1, <3>2, <3>3 DEF Succ
  <2>2. CASE ~(j < Len(t))
    <3>1. ~(k < Len(s))
      BY <1>1, <1>3, <1>8, <2>2
    <3> QED
      BY <2>2, <3>1 DEF Succ
  <2> QED
    BY <2>1, <2>2
<1>9. flink'[l] = Succ(l, t, 0)
  <2>1. CASE i = 1
    <3>1. i - 1 = 0 /\ 0 \in i - 1 .. Len(t) /\ i = 0 + 1
      BY <1>1, <1>3, <2>1
    <3>2. Succ(l, t, 0) = Succ(l, s, i)
      BY <1>8, <3>1
    <3> QED
      BY <1>1, <1>4, <1>5, <3>1, <3>2
  <2>2. CASE i # 1
    <3>1. 0 \in 0 .. i - 2 /\ 0 \in 0 .. Len(s) /\ 0 # i - 1
      BY <1>1, <2>2
    <3>2. flink[l] # e
      BY <1>1, <1>6, <3>1
    <3> QED
      BY <1>1, <1>7, <3>1, <3>2
  <2> QED
    BY <2>1, <2>2
<1>10. ASSUME NEW j \in 1 .. Len(s), j # i
       PROVE  flink'[s[j]] = IF j = i - 1 THEN Succ(l, s, i) ELSE Succ(l, s, j)
  <2>1. s[j] # e
    BY <1>1, <1>10
  <2>2. flink'[s[j]] = IF Succ(l, s, j) = e THEN Succ(l, s, i) ELSE Succ(l, s, j)
    BY <1>1, <1>5, <2>1
  <2>3. j \in 0 .. Len(s)
    BY <1>1
  <2> QED
    BY <1>4, <1>6, <2>2, <2>3
<1>11. \A j \in 1 .. Len(t) :
         \E x \in 1 .. Len(s) :
           t[j] = s[x] /\ x # i /\ ((x = j /\ j < i) \/ (x = j + 1 /\ i <= j))
  <2> TAKE j \in 1 .. Len(t)
  <2>1. CASE j < i
    <3>1. j \in 1 .. i - 1 /\ j \in 1 .. Len(s)
      BY <1>1, <1>3, <2>1
    <3>2. t[j] = s[j]
      BY <1>3, <3>1
    <3> QED
      BY <2>1, <3>1, <3>2
  <2>2. CASE i <= j
    <3>1. PICK k \in Nat : k = j + 1
      BY <1>1, <1>3
    <3>2. k \in 1 .. Len(s) /\ j \in i .. Len(s) - 1 /\ k # i
      BY <1>1, <1>3, <2>2, <3>1
    <3>3. t[j] = s[k]
      BY <1>3, <3>1, <3>2
    <3> QED
      BY <2>2, <3>1, <3>2, <3>3
  <2> QED
    <3>1. i \in Int /\ j \in Int
      BY <1>1, <1>3
    <3> QED
      BY <2>1, <2>2, <3>1
<1>12. ASSUME NEW j \in 1 .. Len(t)
       PROVE  flink'[t[j]] = Succ(l, t, j)
  <2>1. PICK x \in 1 .. Len(s) :
           t[j] = s[x] /\ x # i /\ ((x = j /\ j < i) \/ (x = j + 1 /\ i <= j))
    BY <1>11
  <2>2. flink'[t[j]] = IF x = i - 1 THEN Succ(l, s, i) ELSE Succ(l, s, x)
    BY <1>10, <2>1
  <2>3. i \in Int /\ j \in Int /\ x \in Int /\ Len(t) \in Int
    BY <1>1, <1>3
  <2>4. CASE x = i - 1
    <3>1. j \in i - 1 .. Len(t) /\ i = j + 1
      BY <2>1, <2>3, <2>4
    <3> QED
      BY <1>8, <2>2, <2>4, <3>1
  <2>5. CASE x # i - 1 /\ j < i
    <3>1. x = j /\ j \in 0 .. i - 2
      BY <2>1, <2>3, <2>5
    <3> QED
      BY <1>7, <2>2, <2>5, <3>1
  <2>6. CASE x # i - 1 /\ i <= j
    <3>1. x = j + 1 /\ j \in i - 1 .. Len(t)
      BY <2>1, <2>3, <2>6
    <3> QED
      BY <1>8, <2>2, <2>6, <3>1
  <2> QED
    BY <2>3, <2>4, <2>5, <2>6
<1>13. ASSUME NEW j \in 1 .. Len(t), NEW k \in 1 .. Len(t), t[j] = t[k]
       PROVE  j = k
  <2>1. PICK x \in 1 .. Len(s) :
           t[j] = s[x] /\ x # i /\ ((x = j /\ j < i) \/ (x = j + 1 /\ i <= j))
    BY <1>11
  <2>2. PICK y \in 1 .. Len(s) :
           t[k] = s[y] /\ y # i /\ ((y = k /\ k < i) \/ (y = k + 1 /\ i <= k))
    BY <1>11
  <2>3. x = y
    <3>1. s[x] = s[y]
      BY <1>13, <2>1, <2>2, Zenon
    <3> QED
      BY <1>1, <3>1
  <2>4. x \in Int /\ i \in Int /\ j \in Int /\ k \in Int
    BY <1>1, <1>3
  <2>5. (x = j /\ j < i) \/ (x = j + 1 /\ i <= j)
    BY <2>1
  <2>6. (x = k /\ k < i) \/ (x = k + 1 /\ i <= k)
    BY <2>2, <2>3
  <2> HIDE <2>1, <2>2, <2>3
  <2> QED
    BY <2>4, <2>5, <2>6
<1>14. ASSUME NEW d \in Nodes
       PROVE  (d # e /\ \E j \in 1 .. Len(s) : s[j] = d) <=> \E j \in 1 .. Len(t) : t[j] = d
  <2>1. ASSUME NEW j \in 1 .. Len(s), s[j] = d, d # e
        PROVE  \E k \in 1 .. Len(t) : t[k] = d
    <3>1. CASE j < i
      <4>1. j \in 1 .. i - 1 /\ j \in 1 .. Len(t)
        BY <1>1, <1>3, <3>1
      <4> QED
        BY <1>3, <2>1, <4>1
    <3>2. CASE ~(j < i)
      <4>1. PICK k \in Nat : k = j - 1
        BY <1>1
      <4>2. j # i
        BY <2>1
      <4>3. k \in i .. Len(s) - 1 /\ k \in 1 .. Len(t) /\ j = k + 1
        BY <1>1, <1>3, <3>2, <4>1, <4>2
      <4>4. t[k] = s[j]
        BY <1>3, <4>3
      <4> QED
        BY <2>1, <4>3, <4>4
    <3> QED
      BY <3>1, <3>2
  <2>2. ASSUME NEW j \in 1 .. Len(t), t[j] = d
        PROVE  d # e /\ \E k \in 1 .. Len(s) : s[k] = d
    <3>1. PICK x \in 1 .. Len(s) : t[j] = s[x] /\ x # i
      BY <1>11
    <3> QED
      BY <1>1, <2>2, <3>1
  <2> QED
    BY <2>1, <2>2
<1>15. Chain(l, t)'
  BY <1>3, <1>9, <1>12, <1>13 DEF Chain, Succ
<1>16. \A d \in Nodes : d \in live /\ owner[d] = l <=> \E j \in 1 .. Len(s) : s[j] = d
  BY DEF RingOf
<1>17. \A d \in Nodes : d \in live' /\ owner'[d] = l <=> \E j \in 1 .. Len(t) : t[j] = d
  BY <1>14, <1>16
<1>18. RingOf(l, t)'
  BY <1>15, <1>17 DEF RingOf
<1> QED
  BY <1>2, <1>18

-----------------------------------------------------------------------------
(***************************************************************************)
(* The ring of every list is a sequence: the one the walk finds.           *)
(***************************************************************************)
RingInv == \A l \in Lists : RingOf(l, Walk(l))

\* The rings after a step are the ones the walk then finds.
LEMMA NewRings ==
  ASSUME NEW w, \A l \in Lists : RingOf(l, w[l])'
  PROVE  RingInv' /\ \A l \in Lists : Walk(l)' = w[l]
<1> SUFFICES ASSUME NEW l \in Lists
             PROVE  RingOf(l, Walk(l))' /\ Walk(l)' = w[l]
  BY DEF RingInv
<1>1. RingOf(l, w[l])'
  OBVIOUS
<1>2. Chain(l, w[l])' /\ w[l] \in Seq(Nodes)
  BY <1>1 DEF RingOf, Chain
<1>3. Walk(l)' = w[l]
  BY <1>2, WalkIsChainThen
<1>4. RingOf(l, Walk(l))'
  BY <1>1, <1>3 DEF RingOf, Chain, Succ
<1> QED
  BY <1>3, <1>4

\* Every entry is somewhere in the ring of its list.
LEMMA PlaceOf ==
  ASSUME NEW l \in Lists, NEW s, RingOf(l, s), NEW pos \in Lists \cup Nodes,
         pos \in InUse, OwnerOf(pos) = l
  PROVE  \E i \in 1 .. Len(s) + 1 : Succ(l, s, i - 1) = pos
<1>1. s \in Seq(Nodes) /\ Len(s) \in Nat
  BY RingFacts
<1>2. CASE pos \in Lists
  <2>1. pos = l
    BY <1>2
  <2>2. Len(s) + 1 \in 1 .. Len(s) + 1 /\ (Len(s) + 1) - 1 = Len(s)
    BY <1>1
  <2>3. Succ(l, s, Len(s)) = l
    BY <1>1 DEF Succ
  <2> QED
    BY <2>1, <2>2, <2>3
<1>3. CASE pos \notin Lists
  <2>1. pos \in Nodes /\ pos \in live /\ owner[pos] = l
    BY <1>3
  <2>2. PICK i \in 1 .. Len(s) : s[i] = pos
    BY <2>1 DEF RingOf
  <2>3. i \in 1 .. Len(s) + 1 /\ i - 1 < Len(s) /\ (i - 1) + 1 = i
    BY <1>1
  <2>4. Succ(l, s, i - 1) = pos
    BY <2>2, <2>3 DEF Succ
  <2> QED
    BY <2>3, <2>4
<1> QED
  BY <1>2, <1>3

\* emplace inserts one node into one sequence.
LEMMA EmplaceInserts ==
  ASSUME IInv, RingInv, NEW pos \in Lists \cup live, NEW n \in Nodes \cup {NULL},
         emplace(pos, n)
  PROVE  /\ RingInv'
         /\ n \in Nodes /\ n \notin live
         /\ \E l \in Lists : \E i \in 1 .. Len(Walk(l)) + 1 :
              \A m \in Lists :
                Walk(m)' = IF m = l THEN Abstract!InsertAt(Walk(l), i, n) ELSE Walk(m)
<1>1. PICK l : l = OwnerOf(pos)
  OBVIOUS
<1>2. PICK w : w = [m \in Lists |-> Walk(m)]
  OBVIOUS
<1>3. \A m \in Lists : w[m] = Walk(m) /\ RingOf(m, w[m])
  BY <1>2 DEF RingInv
<1>4. l \in Lists /\ pos \in Lists \cup Nodes /\ pos \in InUse
  BY <1>1 DEF IInv, TypeOK, Owned
<1> DEFINE head == blink[pos]
<1>5. /\ n \in Nodes /\ n \notin live /\ n \notin Lists
      /\ head \in InUse /\ flink[head] = pos
      /\ live' = live \cup {n}
      /\ flink' = [flink EXCEPT ![n] = pos, ![head] = n]
      /\ owner' = [owner EXCEPT ![n] = l]
  BY <1>1 DEF emplace, Allocated, IInv, DoublyLinked, TypeOK
<1>6. \A d \in InUse : flink[d] = pos <=> d = head
  BY <1>4 DEF IInv, DoublyLinked
<1> HIDE DEF head
<1>7. \A d \in InUse : flink'[d] = IF flink[d] = pos THEN n ELSE flink[d]
  BY <1>5, <1>6 DEF IInv, TypeOK
<1>8. flink'[n] = pos
  BY <1>5 DEF IInv, TypeOK
<1>9. \A d \in Nodes : \A m \in Lists :
        d \in live' /\ owner'[d] = m <=> (d = n /\ m = l) \/ (d \in live /\ owner[d] = m)
  BY <1>5 DEF IInv, TypeOK
<1>10. PICK i \in 1 .. Len(w[l]) + 1 : Succ(l, w[l], i - 1) = pos
  BY <1>1, <1>3, <1>4, PlaceOf
<1>11. RingOf(l, Abstract!InsertAt(w[l], i, n))'
  <2>1. PICK s : s = w[l]
    OBVIOUS
  <2>2. RingOf(l, s) /\ i \in 1 .. Len(s) + 1 /\ Succ(l, s, i - 1) = pos
    BY <1>3, <1>4, <1>10, <2>1
  <2>3. flink'[l] = IF flink[l] = pos THEN n ELSE flink[l]
    BY <1>4, <1>7
  <2>4. \A d \in Nodes : d \in live /\ owner[d] = l =>
          flink'[d] = IF flink[d] = pos THEN n ELSE flink[d]
    BY <1>7
  <2>5. \A d \in Nodes :
          d \in live' /\ owner'[d] = l <=> d = n \/ (d \in live /\ owner[d] = l)
    BY <1>4, <1>9
  <2>6. RingOf(l, Abstract!InsertAt(s, i, n))'
    BY <1>4, <1>5, <1>8, <2>2, <2>3, <2>4, <2>5, InsertedRing
  <2> QED
    BY <2>1, <2>6
<1>12. ASSUME NEW m \in Lists, m # l
       PROVE  RingOf(m, w[m])'
  <2>1. \A d \in InUse : OwnerOf(d) = m => flink[d] # pos
    BY <1>1, <1>12 DEF IInv, RingsApart
  <2>2. flink'[m] = IF flink[m] = m THEN m ELSE flink[m]
    BY <1>7, <2>1
  <2>3. \A d \in Nodes : d \in live /\ owner[d] = m =>
          flink'[d] = IF flink[d] = m THEN m ELSE flink[d]
    BY <1>7, <2>1
  <2>4. \A d \in Nodes :
          d \in live' /\ owner'[d] = m <=> d \in live /\ owner[d] = m
    BY <1>9, <1>12
  <2> QED
    BY <1>3, <2>2, <2>3, <2>4, SameRing
<1>13. PICK v : v = [m \in Lists |-> IF m = l THEN Abstract!InsertAt(w[l], i, n)
                                     ELSE w[m]]
  OBVIOUS
<1>14. \A m \in Lists : RingOf(m, v[m])'
  BY <1>11, <1>12, <1>13
<1>15. RingInv' /\ \A m \in Lists : Walk(m)' = v[m]
  BY <1>14, NewRings
<1> QED
  BY <1>3, <1>4, <1>5, <1>13, <1>15

\* erase removes one node from one sequence.
LEMMA UnlinkErases ==
  ASSUME IInv, RingInv, NEW e \in live, Unlink(e)
  PROVE  /\ RingInv'
         /\ \E l \in Lists : \E i \in 1 .. Len(Walk(l)) :
              \A m \in Lists :
                Walk(m)' = IF m = l THEN Abstract!RemoveAt(Walk(l), i) ELSE Walk(m)
<1>1. PICK l : l = owner[e]
  OBVIOUS
<1>2. PICK w : w = [m \in Lists |-> Walk(m)]
  OBVIOUS
<1>3. \A m \in Lists : w[m] = Walk(m) /\ RingOf(m, w[m])
  BY <1>2 DEF RingInv
<1>4. /\ l \in Lists /\ e \in Nodes /\ e \in InUse /\ e \notin Lists
      /\ live' = live \ {e} /\ live \subseteq Nodes
      /\ flink' = [flink EXCEPT ![blink[e]] = flink[e], ![e] = NULL]
      /\ owner' = [owner EXCEPT ![e] = NULL]
  BY <1>1 DEF Unlink, IInv, TypeOK, Owned
<1>5. \A d \in InUse : flink[d] = e <=> d = blink[e]
  BY <1>4 DEF IInv, DoublyLinked
<1>6. \A d \in InUse : d # e => flink'[d] = IF flink[d] = e THEN flink[e] ELSE flink[d]
  BY <1>4, <1>5 DEF IInv, TypeOK
<1>7. \A d \in Nodes : \A m \in Lists :
        d \in live' /\ owner'[d] = m <=> d \in live /\ owner[d] = m /\ d # e
  BY <1>4 DEF IInv, TypeOK
<1>8. PICK i \in 1 .. Len(w[l]) : w[l][i] = e
  BY <1>1, <1>3, <1>4 DEF RingOf
<1>9. RingOf(l, Abstract!RemoveAt(w[l], i))'
  <2>1. PICK s : s = w[l]
    OBVIOUS
  <2>2. RingOf(l, s) /\ i \in 1 .. Len(s) /\ e = s[i]
    BY <1>3, <1>4, <1>8, <2>1
  <2>3. flink'[l] = IF flink[l] = e THEN flink[e] ELSE flink[l]
    BY <1>4, <1>6
  <2>4. \A d \in Nodes : d \in live /\ owner[d] = l /\ d # e =>
          flink'[d] = IF flink[d] = e THEN flink[e] ELSE flink[d]
    BY <1>6
  <2>5. \A d \in Nodes :
          d \in live' /\ owner'[d] = l <=> d \in live /\ owner[d] = l /\ d # e
    BY <1>4, <1>7
  <2>6. RingOf(l, Abstract!RemoveAt(s, i))'
    BY <1>4, <2>2, <2>3, <2>4, <2>5, ErasedRing
  <2> QED
    BY <2>1, <2>6
<1>10. ASSUME NEW m \in Lists, m # l
       PROVE  RingOf(m, w[m])'
  <2>1. \A d \in InUse : OwnerOf(d) = m => flink[d] # e /\ d # e
    BY <1>1, <1>4, <1>10 DEF IInv, RingsApart
  <2>2. flink'[m] = IF flink[m] = m THEN m ELSE flink[m]
    BY <1>6, <2>1
  <2>3. \A d \in Nodes : d \in live /\ owner[d] = m =>
          flink'[d] = IF flink[d] = m THEN m ELSE flink[d]
    BY <1>6, <2>1
  <2>4. \A d \in Nodes :
          d \in live' /\ owner'[d] = m <=> d \in live /\ owner[d] = m
    BY <1>1, <1>7, <1>10
  <2> QED
    BY <1>3, <2>2, <2>3, <2>4, SameRing
<1>11. PICK v : v = [m \in Lists |-> IF m = l THEN Abstract!RemoveAt(w[l], i)
                                     ELSE w[m]]
  OBVIOUS
<1>12. \A m \in Lists : RingOf(m, v[m])'
  BY <1>9, <1>10, <1>11
<1>13. RingInv' /\ \A m \in Lists : Walk(m)' = v[m]
  BY <1>12, NewRings
<1> QED
  BY <1>3, <1>4, <1>8, <1>11, <1>13

\* What two lists have after they have exchanged their nodes.
Other(a, b, m) == IF m = a THEN b ELSE IF m = b THEN a ELSE m

\* Lists whose rings change heads have exchanged their sequences.
LEMMA RingsChangeHeads ==
  ASSUME IInv, RingInv, NEW a \in Lists, NEW b \in Lists,
         \A m \in Lists :
           flink'[m] = IF flink[Other(a, b, m)] = Other(a, b, m) THEN m
                       ELSE flink[Other(a, b, m)],
         \A d \in live : \A m \in Lists : owner[d] = Other(a, b, m) =>
           flink'[d] = IF flink[d] = Other(a, b, m) THEN m ELSE flink[d],
         \A d \in live : \A m \in Lists :
           owner'[d] = m <=> owner[d] = Other(a, b, m),
         live' = live
  PROVE  RingInv' /\ \A m \in Lists : Walk(m)' = Walk(Other(a, b, m))
<1>1. PICK w : w = [m \in Lists |-> Walk(m)]
  OBVIOUS
<1>2. \A m \in Lists : w[m] = Walk(m) /\ RingOf(m, w[m])
  BY <1>1 DEF RingInv
<1>3. PICK v : v = [m \in Lists |-> w[Other(a, b, m)]]
  OBVIOUS
<1>4. ASSUME NEW m \in Lists
      PROVE  RingOf(m, v[m])'
  <2>1. PICK l : l = Other(a, b, m)
    OBVIOUS
  <2>2. l \in Lists /\ v[m] = w[l] /\ RingOf(l, w[l])
    BY <1>2, <1>3, <2>1 DEF Other
  <2>3. flink'[m] = IF flink[l] = l THEN m ELSE flink[l]
    BY <2>1
  <2>4. \A n \in Nodes : n \in live /\ owner[n] = l =>
          flink'[n] = IF flink[n] = l THEN m ELSE flink[n]
    BY <2>1
  <2>5. \A n \in Nodes :
          n \in live' /\ owner'[n] = m <=> n \in live /\ owner[n] = l
    BY <2>1
  <2>6. RingOf(m, w[l])'
    BY <2>2, <2>3, <2>4, <2>5, SameRing
  <2> QED
    BY <2>2, <2>6
<1>5. RingInv' /\ \A m \in Lists : Walk(m)' = v[m]
  BY <1>4, NewRings
<1>6. \A m \in Lists : v[m] = Walk(Other(a, b, m))
  BY <1>2, <1>3 DEF Other
<1> QED
  BY <1>5, <1>6

\* Nothing happens to the sequences when links and owners stay.
LEMMA RingsStay ==
  ASSUME IInv, RingInv, UNCHANGED <<flink, live, owner>>
  PROVE  RingInv' /\ \A m \in Lists : Walk(m)' = Walk(m)
<1>1. PICK w : w = [m \in Lists |-> Walk(m)]
  OBVIOUS
<1>2. \A m \in Lists : w[m] = Walk(m) /\ RingOf(m, w[m])
  BY <1>1 DEF RingInv
<1>3. \A m \in Lists : RingOf(m, w[m])'
  BY <1>2, SameRing
<1>4. RingInv' /\ \A m \in Lists : Walk(m)' = w[m]
  BY <1>3, NewRings
<1> QED
  BY <1>2, <1>4

\* An empty list that takes the ring of another exchanges with it.
LEMMA TakeExchanges ==
  ASSUME IInv, RingInv, NEW a \in Lists, NEW b \in Lists, a # b,
         IsListEmpty(a), ~IsListEmpty(b), Take(a, b), live' = live
  PROVE  RingInv' /\ \A m \in Lists : Walk(m)' = Walk(Other(a, b, m))
<1>1. /\ flink[a] = a /\ flink[b] # b /\ flink[b] \in InUse /\ blink[b] \in InUse
      /\ flink[blink[b]] = b
      /\ live \subseteq Nodes
  BY DEF IInv, TypeOK, DoublyLinked, IsListEmpty
<1>2. blink[b] \in live /\ owner[blink[b]] = b
  BY <1>1, HeadLinks
<1>3. \A d \in live : owner[d] # a
  <2>1. RingOf(a, Walk(a))
    BY DEF RingInv
  <2>2. PICK s : s = Walk(a)
    OBVIOUS
  <2>3. RingOf(a, s)
    BY <2>1, <2>2
  <2>4. /\ Len(s) \in Nat /\ flink[a] = Succ(a, s, 0)
        /\ \A i \in 1 .. Len(s) : s[i] \in Nodes
    BY <2>3, RingFacts
  <2>5. ~(0 < Len(s))
    <3> SUFFICES ASSUME 0 < Len(s) PROVE FALSE
      OBVIOUS
    <3>1. 0 + 1 = 1 /\ 1 \in 1 .. Len(s)
      BY <2>4
    <3>2. flink[a] = s[1]
      BY <2>4, <3>1 DEF Succ
    <3> QED
      BY <1>1, <2>4, <3>1, <3>2
  <2>6. \A i : i \notin 1 .. Len(s)
    BY <2>4, <2>5
  <2>7. \A n \in Nodes :
          n \in live /\ owner[n] = a <=> \E i \in 1 .. Len(s) : s[i] = n
    BY <2>3 DEF RingOf
  <2> QED
    BY <1>1, <2>6, <2>7
<1>4. /\ flink' = [flink EXCEPT ![a] = flink[b], ![blink[b]] = a, ![b] = b]
      /\ owner' = [n \in Nodes |-> IF owner[n] = b THEN a ELSE owner[n]]
  BY DEF Take
<1>5. \A e \in InUse :
        flink'[e] = IF e = a THEN flink[b] ELSE IF e = b THEN b
                    ELSE IF e = blink[b] THEN a ELSE flink[e]
  BY <1>1, <1>2, <1>4 DEF IInv, TypeOK
<1>6. \A e \in InUse : flink[e] = b <=> e = blink[b]
  BY DEF IInv, DoublyLinked
<1>7. \A e \in InUse : flink[e] \in Lists => flink[e] = OwnerOf(e)
  BY DEF IInv, RingsApart
<1>8. \A m \in Lists :
        flink'[m] = IF flink[Other(a, b, m)] = Other(a, b, m) THEN m
                    ELSE flink[Other(a, b, m)]
  BY <1>1, <1>2, <1>5 DEF Other
<1>9. \A d \in live : \A m \in Lists : owner[d] = Other(a, b, m) =>
        flink'[d] = IF flink[d] = Other(a, b, m) THEN m ELSE flink[d]
  <2> TAKE d \in live
  <2> TAKE m \in Lists
  <2>1. flink'[d] = IF flink[d] = b THEN a ELSE flink[d]
    BY <1>1, <1>5, <1>6
  <2>2. CASE m = a
    BY <2>1, <2>2 DEF Other
  <2>3. CASE m = b
    BY <1>3, <2>3 DEF Other
  <2>4. CASE m # a /\ m # b
    BY <1>1, <1>7, <2>1, <2>4 DEF Other
  <2> QED
    BY <2>2, <2>3, <2>4
<1>10. \A d \in live : \A m \in Lists : owner'[d] = m <=> owner[d] = Other(a, b, m)
  BY <1>1, <1>3, <1>4 DEF Other
<1> QED
  BY <1>8, <1>9, <1>10, RingsChangeHeads

\* Two lists with nodes that swap their rings exchange their sequences.
LEMMA ExchangeExchanges ==
  ASSUME IInv, RingInv, NEW a \in Lists, NEW b \in Lists, a # b,
         ~IsListEmpty(a), ~IsListEmpty(b), Exchange(a, b), live' = live
  PROVE  RingInv' /\ \A m \in Lists : Walk(m)' = Walk(Other(a, b, m))
<1>1. /\ flink[a] # a /\ flink[b] # b
      /\ blink[a] \in InUse /\ blink[b] \in InUse
      /\ blink[a] # blink[b] /\ live \subseteq Nodes
  BY LinksDiffer DEF IInv, TypeOK, DoublyLinked, IsListEmpty
<1>2. blink[a] \in live /\ blink[b] \in live
  BY <1>1, HeadLinks
<1>3. /\ flink' = [flink EXCEPT ![a] = flink[b], ![b] = flink[a],
                                ![blink[b]] = a, ![blink[a]] = b]
      /\ owner' = [n \in Nodes |-> CASE owner[n] = a -> b
                                     [] owner[n] = b -> a
                                     [] OTHER -> owner[n]]
  BY DEF Exchange
<1>4. \A n \in Nodes : owner'[n] = IF owner[n] = a THEN b
                                   ELSE IF owner[n] = b THEN a ELSE owner[n]
  BY <1>3
<1>5. \A e \in InUse :
        flink'[e] = IF e = a THEN flink[b] ELSE IF e = b THEN flink[a]
                    ELSE IF e = blink[b] THEN a
                    ELSE IF e = blink[a] THEN b ELSE flink[e]
  BY <1>1, <1>2, <1>3 DEF IInv, TypeOK
<1>6. \A e \in InUse : /\ flink[e] = a <=> e = blink[a]
                       /\ flink[e] = b <=> e = blink[b]
  BY DEF IInv, DoublyLinked
<1>7. \A e \in InUse : flink[e] \in Lists => flink[e] = OwnerOf(e)
  BY DEF IInv, RingsApart
<1>8. \A m \in Lists :
        flink'[m] = IF flink[Other(a, b, m)] = Other(a, b, m) THEN m
                    ELSE flink[Other(a, b, m)]
  BY <1>1, <1>2, <1>5 DEF Other
<1>9. \A d \in live : \A m \in Lists : owner[d] = Other(a, b, m) =>
        flink'[d] = IF flink[d] = Other(a, b, m) THEN m ELSE flink[d]
  <2> TAKE d \in live
  <2> TAKE m \in Lists
  <2>1. flink'[d] = IF flink[d] = b THEN a ELSE IF flink[d] = a THEN b ELSE flink[d]
    BY <1>1, <1>5, <1>6
  <2>2. flink[d] \in Lists => flink[d] = owner[d]
    BY <1>1, <1>7
  <2> QED
    BY <2>1, <2>2 DEF Other
<1>10. \A d \in live : \A m \in Lists : owner'[d] = m <=> owner[d] = Other(a, b, m)
  BY <1>1, <1>4 DEF Other
<1> QED
  BY <1>8, <1>9, <1>10, RingsChangeHeads

(***************************************************************************)
(* Every step keeps the sequences and is a step of ListSpec.               *)
(***************************************************************************)
AbstractStep ==
  \/ \A l \in Lists : Walk(l)' = Walk(l)
  \/ \E n \in Nodes \ live, l \in Lists : \E i \in 1 .. Len(Walk(l)) + 1 :
       \A m \in Lists :
         Walk(m)' = IF m = l THEN Abstract!InsertAt(Walk(l), i, n) ELSE Walk(m)
  \/ \E l \in Lists : \E i \in 1 .. Len(Walk(l)) :
       \A m \in Lists :
         Walk(m)' = IF m = l THEN Abstract!RemoveAt(Walk(l), i) ELSE Walk(m)
  \/ \E a, b \in Lists : \A m \in Lists : Walk(m)' = Walk(Other(a, b, m))

LEMMA StepsOfSequences ==
  ASSUME IInv, RingInv, [Next]_vars
  PROVE  RingInv' /\ AbstractStep
<1> live \subseteq Nodes
  BY DEF IInv, TypeOK
<1>1. ASSUME NEW pos \in Lists \cup live, NEW n \in Nodes \cup {NULL},
             emplace(pos, n)
      PROVE  RingInv' /\ AbstractStep
  <2>1. /\ RingInv'
        /\ n \in Nodes /\ n \notin live
        /\ \E l \in Lists : \E i \in 1 .. Len(Walk(l)) + 1 :
             \A m \in Lists :
               Walk(m)' = IF m = l THEN Abstract!InsertAt(Walk(l), i, n) ELSE Walk(m)
    BY <1>1, EmplaceInserts
  <2>2. n \in Nodes \ live
    BY <2>1
  <2> QED
    BY <2>1, <2>2, Zenon DEF AbstractStep
<1>2. ASSUME NEW e \in live, Unlink(e)
      PROVE  RingInv' /\ AbstractStep
  <2>1. /\ RingInv'
        /\ \E l \in Lists : \E i \in 1 .. Len(Walk(l)) :
             \A m \in Lists :
               Walk(m)' = IF m = l THEN Abstract!RemoveAt(Walk(l), i) ELSE Walk(m)
    BY <1>2, UnlinkErases
  <2> QED
    BY <2>1, Zenon DEF AbstractStep
<1>3. ASSUME UNCHANGED <<flink, live, owner>>
      PROVE  RingInv' /\ AbstractStep
  BY <1>3, RingsStay, Zenon DEF AbstractStep
<1>4. ASSUME NEW a \in Lists, NEW b \in Lists, a # b, IsListEmpty(a),
             ~IsListEmpty(b), Take(a, b), live' = live
      PROVE  RingInv' /\ AbstractStep
  <2>1. RingInv' /\ \A m \in Lists : Walk(m)' = Walk(Other(a, b, m))
    BY <1>4, TakeExchanges
  <2> QED
    BY <2>1, Zenon DEF AbstractStep
<1>5. ASSUME NEW a \in Lists, NEW b \in Lists, swap(a, b)
      PROVE  RingInv' /\ AbstractStep
  <2>1. a # b /\ SwapLinks(a, b) /\ live' = live
    BY <1>5 DEF swap
  <2>2. CASE ~IsListEmpty(a) /\ ~IsListEmpty(b)
    <3>1. Exchange(a, b)
      BY <2>1, <2>2 DEF SwapLinks
    <3>2. RingInv' /\ \A m \in Lists : Walk(m)' = Walk(Other(a, b, m))
      BY <2>1, <2>2, <3>1, ExchangeExchanges
    <3> QED
      BY <3>2, Zenon DEF AbstractStep
  <2>3. CASE IsListEmpty(a) /\ ~IsListEmpty(b)
    BY <1>4, <2>1, <2>3 DEF SwapLinks
  <2>4. CASE ~IsListEmpty(a) /\ IsListEmpty(b)
    BY <1>4, <2>1, <2>4 DEF SwapLinks
  <2>5. CASE IsListEmpty(a) /\ IsListEmpty(b)
    BY <1>3, <2>1, <2>5 DEF SwapLinks
  <2> QED
    BY <2>2, <2>3, <2>4, <2>5
<1>6. CASE ClearFirst
  <2>1. clearing \in Lists /\ ~IsListEmpty(clearing) /\ Unlink(flink[clearing])
    BY <1>6 DEF ClearFirst, IInv, TypeOK
  <2>2. flink[clearing] \in live
    BY <2>1, HeadLinks DEF IInv, DoublyLinked, IsListEmpty
  <2> QED
    BY <1>2, <2>1, <2>2
<1>7. CASE ClearDone
  <2>1. clearing \in Lists /\ IsListEmpty(clearing) /\ live' = live
    BY <1>7 DEF ClearDone, Cleared, IInv, TypeOK
  <2>2. CASE other = NULL \/ IsListEmpty(other)
    BY <1>3, <1>7, <2>1, <2>2 DEF ClearDone
  <2>3. CASE other # NULL /\ ~IsListEmpty(other)
    <3>1. Take(clearing, other) /\ other \in Lists /\ clearing # other
      BY <1>7, <2>1, <2>3 DEF ClearDone, IInv, TypeOK
    <3> QED
      BY <1>4, <2>1, <2>3, <3>1
  <2> QED
    BY <2>2, <2>3
<1>8. ASSUME NEW a \in Lists, NEW b \in Lists, clear(a) \/ MoveAssign(a, b)
      PROVE  RingInv' /\ AbstractStep
  BY <1>3, <1>8 DEF clear, MoveAssign
<1>9. CASE UNCHANGED vars
  BY <1>3, <1>9 DEF vars
<1> QED
  BY <1>1, <1>2, <1>5, <1>6, <1>7, <1>8, <1>9 DEF Next, erase

\* Empty lists are empty sequences.
LEMMA InitRings == Init => RingInv /\ \A l \in Lists : Walk(l) = <<>>
<1> SUFFICES ASSUME Init, NEW l \in Lists
             PROVE  RingOf(l, Walk(l)) /\ Walk(l) = <<>>
  BY DEF RingInv
<1>1. <<>> \in Seq(Nodes) /\ Len(<<>>) = 0
  BY EmptySeq
<1>2. flink[l] = l /\ live = {}
  BY DEF Init
<1>3. Chain(l, <<>>)
  BY <1>1, <1>2 DEF Chain, Succ
<1>4. Walk(l) = <<>>
  BY <1>1, <1>3, WalkIsChain
<1>5. RingOf(l, <<>>)
  BY <1>1, <1>2, <1>3 DEF RingOf
<1> QED
  BY <1>4, <1>5

(***************************************************************************)
(* The inductive invariant with the rings: whatever is inserted, erased,   *)
(* moved or swapped, the walk from a head meets each live node that was    *)
(* put in its list once, and comes back to the head.                       *)
(***************************************************************************)
THEOREM RingsAreSequences == Spec => [](IInv /\ RingInv)
<1>1. Init => IInv /\ RingInv
  BY InitIInv, InitRings
<1>2. (IInv /\ RingInv) /\ [Next]_vars => (IInv /\ RingInv)'
  BY NextIInv, StepsOfSequences
<1> QED
  BY <1>1, <1>2, PTL DEF Spec

(***************************************************************************)
(* No node leaks: what the pool has given is in some list, and what is in  *)
(* a list has not been freed.                                              *)
(***************************************************************************)
THEOREM NothingLeaks == Spec => []NoLeak
<1>1. IInv /\ RingInv => NoLeak
  <2> SUFFICES ASSUME IInv, RingInv
               PROVE  NoLeak
    OBVIOUS
  <2>1. live \subseteq Nodes /\ \A n \in live : owner[n] \in Lists
    BY DEF IInv, TypeOK, Owned
  <2>2. \A l \in Lists : \A n \in Nodes :
          n \in live /\ owner[n] = l <=> \E i \in 1 .. Len(Walk(l)) : Walk(l)[i] = n
    BY DEF RingInv, RingOf
  <2>3. \A l \in Lists : \A i \in 1 .. Len(Walk(l)) : Walk(l)[i] \in Nodes
    BY RingFacts DEF RingInv
  <2>4. ASSUME NEW n \in live
        PROVE  \E l \in Lists : n \in {Walk(l)[i] : i \in 1 .. Len(Walk(l))}
    BY <2>1, <2>2
  <2>5. ASSUME NEW l \in Lists, NEW n \in {Walk(l)[i] : i \in 1 .. Len(Walk(l))}
        PROVE  n \in live
    BY <2>2, <2>3
  <2> QED
    BY <2>4, <2>5 DEF NoLeak
<1> QED
  BY <1>1, RingsAreSequences, PTL

(***************************************************************************)
(* klist implements sequences of nodes, whatever is done in which order:   *)
(* emplace inserts, erase and clear remove, swap and move exchange.        *)
(***************************************************************************)
THEOREM ListsAreSequences == Spec => IsSequences
<1> DEFINE seqs == [l \in Lists |-> Walk(l)]
<1>1. Init => Abstract!Init
  BY InitRings DEF Abstract!Init
<1>2. (IInv /\ RingInv) /\ [Next]_vars => [Abstract!Next]_seqs
  <2> SUFFICES ASSUME IInv, RingInv, AbstractStep
               PROVE  seqs' = seqs \/ Abstract!Next
    BY StepsOfSequences
  <2>1. CASE \A l \in Lists : Walk(l)' = Walk(l)
    BY <2>1
  <2>2. ASSUME NEW n \in Nodes \ live, NEW l \in Lists, NEW i \in 1 .. Len(Walk(l)) + 1,
               \A m \in Lists :
                 Walk(m)' = IF m = l THEN Abstract!InsertAt(Walk(l), i, n) ELSE Walk(m)
        PROVE  Abstract!Next
    <3>1. n \notin Abstract!Used
      <4>1. \A m \in Lists : \A j \in 1 .. Len(Walk(m)) : Walk(m)[j] # n
        BY RingFacts DEF RingInv
      <4> QED
        BY <4>1 DEF Abstract!Used, Abstract!Elements
    <3>2. seqs' = [seqs EXCEPT ![l] = Abstract!InsertAt(seqs[l], i, n)]
      BY <2>2
    <3>3. Abstract!Insert(l, i, n)
      BY <3>1, <3>2 DEF Abstract!Insert
    <3> QED
      BY <3>3 DEF Abstract!Next
  <2>3. ASSUME NEW l \in Lists, NEW i \in 1 .. Len(Walk(l)),
               \A m \in Lists :
                 Walk(m)' = IF m = l THEN Abstract!RemoveAt(Walk(l), i) ELSE Walk(m)
        PROVE  Abstract!Next
    <3>1. Abstract!Erase(l, i)
      BY <2>3 DEF Abstract!Erase
    <3> QED
      BY <3>1 DEF Abstract!Next
  <2>4. ASSUME NEW a \in Lists, NEW b \in Lists,
               \A m \in Lists : Walk(m)' = Walk(Other(a, b, m))
        PROVE  Abstract!Next
    <3>1. Abstract!Swap(a, b)
      BY <2>4 DEF Abstract!Swap, Other
    <3> QED
      BY <3>1 DEF Abstract!Next
  <2> QED
    BY <2>1, <2>2, <2>3, <2>4 DEF AbstractStep
<1> QED
  BY <1>1, <1>2, RingsAreSequences, PTL DEF Spec, IsSequences, Abstract!Spec
=============================================================================
