-------------------------- MODULE CallbackListProofs --------------------------
(***************************************************************************)
(* Proofs about CallbackList, for any threads and any addresses of nodes.  *)
(***************************************************************************)
EXTENDS CallbackList, SequenceTheorems, FiniteSetTheorems, TLAPS

USE CookiesAssumption

Reading == {"call", "loop", "callback"}
Writing == {"add", "added", "remove", "removed"}
Labels == {"idle"} \cup Reading \cup Writing

ResourceTypes ==
  /\ readers \subseteq Threads
  /\ writer \in Threads \cup {NULL}
  /\ waitShared \subseteq Threads
  /\ waitExclusive \in Seq(Threads)
  /\ pc \in [Threads -> Labels]

TypeInv ==
  /\ ResourceTypes
  /\ list \in Seq(Cookies)
  /\ held \subseteq Cookies \cup {NULL}
  /\ cookie \in [Threads -> Cookies \cup {NULL}]
  /\ it \in [Threads -> Cookies \cup {NULL}]
  /\ heard \in [Threads -> Seq(Cookies)]
  /\ answer \in [Threads -> [ok : BOOLEAN, heard : Seq(Cookies)]]

(***************************************************************************)
(* Owners and waiters of the resource are where they may be, nobody is     *)
(* two of them, and an exclusive owner is the only owner.                  *)
(***************************************************************************)
ResourceInv ==
  /\ \A t \in Threads :
       /\ t \in readers => pc[t] \in Reading
       /\ t \in waitShared => pc[t] = "call" /\ t \notin readers
       /\ t = writer => pc[t] \in Writing
       /\ \A i \in 1 .. Len(waitExclusive) : waitExclusive[i] = t =>
            pc[t] \in {"add", "remove"} /\ t # writer
  /\ \A i, j \in 1 .. Len(waitExclusive) :
       waitExclusive[i] = waitExclusive[j] => i = j
  /\ writer # NULL => readers = {}

HoldingInv ==
  \A t \in Threads :
    /\ pc[t] \in {"loop", "callback"} => t \in readers
    /\ pc[t] \in {"added", "removed"} => t = writer

(***************************************************************************)
(* Every node has exactly one owner: the client that holds its cookie, or  *)
(* the thread that brings it to or from one.                               *)
(***************************************************************************)
CookieInv ==
  \A t \in Threads :
    /\ pc[t] \notin {"added", "remove"} => cookie[t] = NULL
    /\ pc[t] = "remove" => cookie[t] # NULL

NodesInv ==
  /\ \A i, j \in 1 .. Len(list) : list[i] = list[j] => i = j
  /\ \A n \in Listed : n \in held \/ \E t \in Threads : cookie[t] = n

OwnerInv ==
  /\ held \subseteq Listed \cup {NULL}
  /\ \A t \in Threads : cookie[t] # NULL =>
       /\ cookie[t] \in Listed \ held
       /\ \A u \in Threads : cookie[u] = cookie[t] => u = t

(***************************************************************************)
(* An announcement has reached the nodes up to its iterator, in order.     *)
(***************************************************************************)
HeardInv ==
  \A t \in Threads :
    LET k == Len(heard[t]) IN
    /\ pc[t] \in {"loop", "callback"} =>
         k <= Len(list) /\ heard[t] = SubSeq(list, 1, k)
    /\ pc[t] = "loop" => it[t] = IF k = Len(list) THEN NULL ELSE list[k + 1]
    /\ pc[t] = "callback" => k # 0 /\ it[t] = list[k]

LockInv == ResourceTypes /\ ResourceInv /\ HoldingInv

(***************************************************************************)
(* What the steps of the registry and those of the announcements keep.     *)
(***************************************************************************)
RegistryInv ==
  /\ list \in Seq(Cookies)
  /\ held \subseteq Cookies \cup {NULL}
  /\ cookie \in [Threads -> Cookies \cup {NULL}]
  /\ CookieInv /\ NodesInv /\ OwnerInv

AnnounceInv ==
  /\ it \in [Threads -> Cookies \cup {NULL}]
  /\ heard \in [Threads -> Seq(Cookies)]
  /\ answer \in [Threads -> [ok : BOOLEAN, heard : Seq(Cookies)]]
  /\ HeardInv

IInv ==
  /\ TypeInv /\ ResourceInv /\ HoldingInv /\ CookieInv /\ NodesInv /\ OwnerInv
  /\ HeardInv

-----------------------------------------------------------------------------
\* The set of the elements of a sequence.
LEMMA ElementsOf ==
  ASSUME NEW S, NEW s \in Seq(S)
  PROVE  ToSet(s) = {s[i] : i \in 1 .. Len(s)}
  BY LenProperties DEF ToSet

\* The nodes of the list.
LEMMA NodesOfList ==
  ASSUME list \in Seq(Cookies)
  PROVE  /\ Listed = {list[i] : i \in 1 .. Len(list)}
         /\ Len(list) \in Nat
         /\ \A i \in 1 .. Len(list) : list[i] \in Cookies /\ list[i] \in Listed
  BY LenProperties DEF Listed, ToSet

\* emplace_front makes a node the first and moves the others.
LEMMA PushedFirst ==
  ASSUME list \in Seq(Cookies), NEW n \in Cookies
  PROVE  /\ <<n>> \o list \in Seq(Cookies)
         /\ Len(<<n>> \o list) = Len(list) + 1
         /\ (<<n>> \o list)[1] = n
         /\ \A i \in 2 .. Len(list) + 1 : (<<n>> \o list)[i] = list[i - 1]
         /\ ToSet(<<n>> \o list) = Listed \cup {n}
<1> DEFINE s == <<n>> \o list
<1>1. <<n>> \in Seq(Cookies) /\ Len(<<n>>) = 1 /\ <<n>>[1] = n
  OBVIOUS
<1>2. /\ s \in Seq(Cookies) /\ Len(s) = 1 + Len(list)
      /\ \A i \in 1 .. 1 + Len(list) :
           s[i] = IF i <= 1 THEN <<n>>[i] ELSE list[i - 1]
  BY <1>1, ConcatProperties
<1> HIDE DEF s
<1>3. Len(list) \in Nat
  BY LenProperties
<1>4. s[1] = n /\ \A i \in 2 .. Len(list) + 1 : s[i] = list[i - 1]
  BY <1>1, <1>2, <1>3
<1>5. ToSet(s) = {s[i] : i \in 1 .. Len(list) + 1}
  <2>1. ToSet(s) = {s[i] : i \in 1 .. Len(s)}
    BY <1>2, ElementsOf
  <2> QED
    BY <1>2, <1>3, <2>1
<1>6. \A i \in 1 .. Len(list) : s[i + 1] = list[i]
  BY <1>3, <1>4
<1>7. ToSet(s) = Listed \cup {n}
  <2>1. \A i \in 1 .. Len(list) + 1 : s[i] \in Listed \cup {n}
    <3> TAKE i \in 1 .. Len(list) + 1
    <3>1. CASE i = 1
      BY <1>4, <3>1
    <3>2. CASE i # 1
      <4>1. i \in 2 .. Len(list) + 1 /\ i - 1 \in 1 .. Len(list)
        BY <1>3, <3>2
      <4> QED
        BY <1>4, <4>1, NodesOfList
    <3> QED
      BY <3>1, <3>2
  <2>2. n \in ToSet(s)
    BY <1>3, <1>4, <1>5
  <2>3. \A i \in 1 .. Len(list) : list[i] \in ToSet(s)
    <3> TAKE i \in 1 .. Len(list)
    <3>1. i + 1 \in 1 .. Len(list) + 1
      BY <1>3
    <3> QED
      BY <1>5, <1>6, <3>1
  <2> QED
    BY <1>5, <2>1, <2>2, <2>3, NodesOfList
<1> QED
  BY <1>2, <1>3, <1>4, <1>7 DEF s

\* RemoveAt takes one element out of a sequence.
LEMMA WithoutOne ==
  ASSUME NEW S, NEW s \in Seq(S), NEW i \in 1 .. Len(s)
  PROVE  /\ RemoveAt(s, i) \in Seq(S)
         /\ Len(RemoveAt(s, i)) = Len(s) - 1
         /\ \A j \in 1 .. Len(s) - 1 :
              RemoveAt(s, i)[j] = IF j < i THEN s[j] ELSE s[j + 1]
<1> DEFINE a == SubSeq(s, 1, i - 1)
           b == SubSeq(s, i + 1, Len(s))
<1>1. Len(s) \in Nat /\ \A j \in 1 .. Len(s) : s[j] \in S
  BY LenProperties
<1>2. /\ a \in Seq(S) /\ Len(a) = i - 1
      /\ \A j \in 1 .. i - 1 : a[j] = s[j]
  <2>1. \A j \in 1 .. i - 1 : s[j] \in S
    BY <1>1
  <2>2. /\ a \in Seq(S) /\ Len(a) = IF 1 <= i - 1 THEN (i - 1) - 1 + 1 ELSE 0
        /\ \A j \in 1 .. (i - 1) - 1 + 1 : a[j] = s[1 + j - 1]
    BY <2>1, <1>1, SubSeqProperties
  <2> QED
    BY <1>1, <2>2
<1>3. /\ b \in Seq(S) /\ Len(b) = Len(s) - i
      /\ \A j \in 1 .. Len(s) - i : b[j] = s[i + j]
  <2>1. \A j \in i + 1 .. Len(s) : s[j] \in S
    BY <1>1
  <2>2. /\ b \in Seq(S)
        /\ Len(b) = IF i + 1 <= Len(s) THEN Len(s) - (i + 1) + 1 ELSE 0
        /\ \A j \in 1 .. Len(s) - (i + 1) + 1 : b[j] = s[(i + 1) + j - 1]
    BY <2>1, <1>1, SubSeqProperties
  <2> QED
    BY <1>1, <2>2
<1> HIDE DEF a, b
<1>4. /\ a \o b \in Seq(S) /\ Len(a \o b) = Len(a) + Len(b)
      /\ \A j \in 1 .. Len(a) + Len(b) :
           (a \o b)[j] = IF j <= Len(a) THEN a[j] ELSE b[j - Len(a)]
  BY <1>2, <1>3, ConcatProperties, SMTT(20)
<1>5. \A j \in 1 .. Len(s) - 1 : (a \o b)[j] = IF j < i THEN s[j] ELSE s[j + 1]
  <2> TAKE j \in 1 .. Len(s) - 1
  <2>1. CASE j < i
    <3>1. j \in 1 .. Len(a) + Len(b) /\ j <= Len(a) /\ j \in 1 .. i - 1
      BY <1>1, <1>2, <1>3, <2>1
    <3> QED
      BY <1>2, <1>4, <2>1, <3>1
  <2>2. CASE ~(j < i)
    <3>1. /\ j \in 1 .. Len(a) + Len(b) /\ ~(j <= Len(a))
          /\ j - Len(a) \in 1 .. Len(s) - i /\ i + (j - Len(a)) = j + 1
      BY <1>1, <1>2, <1>3, <2>2
    <3> QED
      BY <1>3, <1>4, <2>2, <3>1
  <2> QED
    BY <2>1, <2>2
<1>6. a \o b \in Seq(S) /\ Len(a \o b) = Len(s) - 1
  BY <1>1, <1>2, <1>3, <1>4
<1> QED
  BY <1>5, <1>6 DEF RemoveAt, a, b

\* Erasing a node takes it, and nothing else, out of the list.
LEMMA ErasedOne ==
  ASSUME list \in Seq(Cookies), NEW c \in Listed,
         \A i, j \in 1 .. Len(list) : list[i] = list[j] => i = j
  PROVE  /\ Erased(c) \in Seq(Cookies)
         /\ \A i, j \in 1 .. Len(Erased(c)) :
              Erased(c)[i] = Erased(c)[j] => i = j
         /\ ToSet(Erased(c)) = Listed \ {c}
         /\ \E i \in DOMAIN list : Erased(c) = RemoveAt(list, i)
<1> DEFINE p == CHOOSE i \in DOMAIN list : list[i] = c
           s == RemoveAt(list, p)
<1>1. DOMAIN list = 1 .. Len(list) /\ Len(list) \in Nat
  BY LenProperties
<1>2. p \in 1 .. Len(list) /\ list[p] = c
  BY <1>1, NodesOfList
<1> HIDE DEF p
<1>3. /\ s \in Seq(Cookies)
      /\ Len(s) = Len(list) - 1
      /\ \A j \in 1 .. Len(list) - 1 : s[j] = IF j < p THEN list[j] ELSE list[j + 1]
  BY <1>2, WithoutOne
<1> HIDE DEF s
<1>4. \A i, j \in 1 .. Len(s) : s[i] = s[j] => i = j
  <2> SUFFICES ASSUME NEW i \in 1 .. Len(s), NEW j \in 1 .. Len(s), s[i] = s[j]
               PROVE  i = j
    OBVIOUS
  <2>1. i \in 1 .. Len(list) - 1 /\ j \in 1 .. Len(list) - 1
    BY <1>3
  <2>2. /\ s[i] = IF i < p THEN list[i] ELSE list[i + 1]
        /\ s[j] = IF j < p THEN list[j] ELSE list[j + 1]
    BY <1>3, <2>1
  <2>3. /\ i \in 1 .. Len(list) /\ i + 1 \in 1 .. Len(list)
        /\ j \in 1 .. Len(list) /\ j + 1 \in 1 .. Len(list)
    BY <1>1, <2>1
  <2>4. CASE i < p /\ j < p
    BY <2>2, <2>3, <2>4
  <2>5. CASE ~(i < p) /\ ~(j < p)
    <3>1. i + 1 = j + 1
      BY <2>2, <2>3, <2>5
    <3> QED
      BY <3>1
  <2>6. CASE i < p /\ ~(j < p)
    <3>1. i = j + 1
      BY <2>2, <2>3, <2>6
    <3> QED
      BY <1>2, <2>6, <3>1
  <2>7. CASE ~(i < p) /\ j < p
    <3>1. i + 1 = j
      BY <2>2, <2>3, <2>7
    <3> QED
      BY <1>2, <2>7, <3>1
  <2> QED
    BY <2>4, <2>5, <2>6, <2>7
<1>5. ToSet(s) = {s[j] : j \in 1 .. Len(list) - 1}
  BY <1>3, ElementsOf
<1>6. \A j \in 1 .. Len(list) - 1 : s[j] \in Listed \ {c}
  <2> TAKE j \in 1 .. Len(list) - 1
  <2>1. /\ j \in 1 .. Len(list) /\ j + 1 \in 1 .. Len(list)
    BY <1>1
  <2>2. s[j] = IF j < p THEN list[j] ELSE list[j + 1]
    BY <1>3
  <2>3. (j < p => j # p) /\ (~(j < p) => j + 1 # p)
    BY <1>1, <1>2
  <2> QED
    BY <1>2, <2>1, <2>2, <2>3, NodesOfList
<1>7. \A n \in Listed \ {c} : \E j \in 1 .. Len(list) - 1 : s[j] = n
  <2> TAKE n \in Listed \ {c}
  <2>1. PICK i \in 1 .. Len(list) : list[i] = n
    BY NodesOfList
  <2>2. i # p
    BY <1>2, <2>1
  <2>3. CASE i < p
    <3>1. i \in 1 .. Len(list) - 1
      BY <1>1, <1>2, <2>3
    <3> QED
      BY <1>3, <2>1, <2>3, <3>1
  <2>4. CASE ~(i < p)
    <3>1. i - 1 \in 1 .. Len(list) - 1 /\ ~(i - 1 < p) /\ (i - 1) + 1 = i
      BY <1>1, <1>2, <2>2, <2>4
    <3> QED
      BY <1>3, <2>1, <3>1
  <2> QED
    BY <2>3, <2>4
<1>8. ToSet(s) = Listed \ {c}
  BY <1>5, <1>6, <1>7
<1>9. Erased(c) = s
  BY DEF Erased, s, p
<1> QED
  BY <1>1, <1>2, <1>3, <1>4, <1>8, <1>9 DEF s

-----------------------------------------------------------------------------
\* The routines of the resource keep its invariant: a shared request, in call.
LEMMA SharedAcquired ==
  ASSUME LockInv, NEW t \in Threads, pc[t] = "idle",
         ExAcquireResourceSharedLite(t), pc' = [pc EXCEPT ![t] = "call"]
  PROVE  LockInv'
<1> USE DEF LockInv, ResourceTypes, ResourceInv, HoldingInv, Labels, Reading,
            Writing
<1>1. /\ t \notin readers /\ t \notin waitShared /\ t # writer
      /\ \A i \in 1 .. Len(waitExclusive) : waitExclusive[i] # t
  OBVIOUS
<1>2. writer' = writer /\ waitExclusive' = waitExclusive
  BY DEF ExAcquireResourceSharedLite
<1>3. CASE writer = NULL /\ readers' = readers \cup {t} /\ waitShared' = waitShared
  BY <1>1, <1>2, <1>3
<1>4. CASE waitShared' = waitShared \cup {t} /\ readers' = readers
  BY <1>1, <1>2, <1>4
<1> QED
  BY <1>3, <1>4 DEF ExAcquireResourceSharedLite

\* A thread that asks for the resource exclusively, in add or in remove.
LEMMA ExclusiveAcquired ==
  ASSUME LockInv, NEW t \in Threads, pc[t] = "idle",
         NEW s \in {"add", "remove"},
         ExAcquireResourceExclusiveLite(t), pc' = [pc EXCEPT ![t] = s]
  PROVE  LockInv'
<1> USE DEF LockInv, ResourceTypes, ResourceInv, HoldingInv, Labels, Reading,
            Writing
<1>1. /\ t \notin readers /\ t \notin waitShared /\ t # writer
      /\ \A i \in 1 .. Len(waitExclusive) : waitExclusive[i] # t
  OBVIOUS
<1>2. readers' = readers /\ waitShared' = waitShared
  BY DEF ExAcquireResourceExclusiveLite
<1>3. CASE /\ writer = NULL /\ readers = {}
           /\ writer' = t /\ waitExclusive' = waitExclusive
  BY <1>1, <1>2, <1>3
<1>4. CASE waitExclusive' = Append(waitExclusive, t) /\ writer' = writer
  <2> DEFINE w == Append(waitExclusive, t)
  <2>1. /\ w \in Seq(Threads) /\ Len(w) = Len(waitExclusive) + 1
        /\ \A i \in 1 .. Len(waitExclusive) : w[i] = waitExclusive[i]
        /\ w[Len(waitExclusive) + 1] = t
        /\ Len(waitExclusive) \in Nat
    BY AppendProperties, LenProperties
  <2> HIDE DEF w
  <2>2. \A i \in 1 .. Len(w) : i \in 1 .. Len(waitExclusive) \/ w[i] = t
    BY <2>1
  <2>3. \A i, j \in 1 .. Len(w) : w[i] = w[j] => i = j
    BY <1>1, <2>1
  <2>4. ResourceTypes' /\ HoldingInv'
    BY <1>1, <1>2, <1>4, <2>1 DEF w
  <2>5. \A u \in Threads : \A i \in 1 .. Len(w) : w[i] = u =>
          pc'[u] \in {"add", "remove"} /\ u # writer'
    BY <1>1, <1>4, <2>1, <2>2
  <2> QED
    BY <1>1, <1>2, <1>4, <2>3, <2>4, <2>5 DEF w
<1> QED
  BY <1>3, <1>4 DEF ExAcquireResourceExclusiveLite

\* The last owner to leave gives the resource to the first that waits for it.
LEMMA ExclusiveGranted ==
  ASSUME LockInv, NEW t \in Threads, t = writer \/ readers = {t},
         GrantExclusive, pc' = [pc EXCEPT ![t] = "idle"],
         readers' = {}, waitShared' = waitShared
  PROVE  LockInv'
<1> USE DEF LockInv, ResourceTypes, ResourceInv, HoldingInv, Labels, Reading,
            Writing
<1>1. /\ t \notin waitShared
      /\ \A i \in 1 .. Len(waitExclusive) : waitExclusive[i] # t
      /\ \A u \in Threads : u # t => u \notin readers /\ u # writer
  OBVIOUS
<1>2. CASE writer' = NULL /\ waitExclusive' = waitExclusive
  BY <1>1, <1>2
<1>3. CASE /\ waitExclusive # <<>>
           /\ writer' = Head(waitExclusive)
           /\ waitExclusive' = Tail(waitExclusive)
  <2> DEFINE w == Tail(waitExclusive)
  <2>1. /\ w \in Seq(Threads) /\ Len(w) = Len(waitExclusive) - 1
        /\ \A i \in 1 .. Len(w) : w[i] = waitExclusive[i + 1]
        /\ Len(waitExclusive) \in Nat \ {0}
        /\ writer' = waitExclusive[1] /\ writer' \in Threads
    BY <1>3, HeadTailProperties, EmptySeq
  <2> HIDE DEF w
  <2>2. \A i \in 1 .. Len(w) :
          i + 1 \in 1 .. Len(waitExclusive) /\ i + 1 # 1
    BY <2>1
  <2>3. \A i, j \in 1 .. Len(w) : w[i] = w[j] => i = j
    <3> TAKE i, j \in 1 .. Len(w)
    <3>1. w[i] = w[j] => i + 1 = j + 1
      BY <2>1, <2>2
    <3> QED
      BY <3>1
  <2>4. \A u \in Threads : \A i \in 1 .. Len(w) : w[i] = u =>
          pc'[u] \in {"add", "remove"} /\ u # writer'
    <3> SUFFICES ASSUME NEW u \in Threads, NEW i \in 1 .. Len(w), w[i] = u
                 PROVE  pc'[u] \in {"add", "remove"} /\ u # writer'
      OBVIOUS
    <3>1. waitExclusive[i + 1] = u /\ u # t
      BY <1>1, <2>1, <2>2
    <3>2. 1 \in 1 .. Len(waitExclusive)
      BY <2>1
    <3> QED
      BY <2>1, <2>2, <3>1, <3>2
  <2>5. ResourceTypes'
    BY <1>1, <1>3, <2>1 DEF w
  <2>6. writer' # t /\ pc[writer'] \in {"add", "remove"}
    <3>1. 1 \in 1 .. Len(waitExclusive)
      BY <2>1
    <3> QED
      BY <1>1, <2>1, <3>1
  <2>7. HoldingInv'
    BY <1>1, <1>3, <2>6
  <2> QED
    BY <1>1, <1>3, <2>3, <2>4, <2>5, <2>6, <2>7 DEF w
<1> QED
  BY <1>2, <1>3 DEF GrantExclusive

\* A release by the exclusive owner, or by one of the shared ones.
LEMMA Released ==
  ASSUME LockInv, NEW t \in Threads, t = writer \/ t \in readers,
         ExReleaseResourceLite(t), pc' = [pc EXCEPT ![t] = "idle"]
  PROVE  LockInv'
<1> USE DEF LockInv, ResourceTypes, ResourceInv, HoldingInv, Labels, Reading,
            Writing
<1>1. CASE t = writer /\ waitShared # {}
  <2>1. /\ readers = {} /\ readers' = waitShared /\ waitShared' = {}
        /\ writer' = NULL /\ waitExclusive' = waitExclusive
    BY <1>1 DEF ExReleaseResourceLite
  <2> QED
    BY <1>1, <2>1
<1>2. CASE t = writer /\ waitShared = {}
  <2>1. readers' = {} /\ waitShared' = waitShared /\ GrantExclusive
    BY <1>2 DEF ExReleaseResourceLite
  <2> QED
    BY <1>2, <2>1, ExclusiveGranted
<1>3. CASE t # writer /\ readers = {t}
  <2>1. readers' = {} /\ waitShared' = waitShared /\ GrantExclusive
    BY <1>3 DEF ExReleaseResourceLite
  <2> QED
    BY <1>3, <2>1, ExclusiveGranted
<1>4. CASE t # writer /\ readers # {t}
  <2>1. /\ readers' = readers \ {t} /\ waitShared' = waitShared
        /\ writer' = writer /\ waitExclusive' = waitExclusive
    BY <1>4 DEF ExReleaseResourceLite
  <2>2. t \in readers /\ writer = NULL
    BY <1>4
  <2> QED
    BY <1>4, <2>1, <2>2
<1> QED
  BY <1>1, <1>2, <1>3, <1>4

\* An owner that goes on keeps the resource.
LEMMA Kept ==
  ASSUME LockInv, NEW t \in Threads, NEW s, UNCHANGED resource,
         pc' = [pc EXCEPT ![t] = s],
         \/ t \in readers /\ s \in {"loop", "callback"}
         \/ t = writer /\ s \in {"added", "removed"}
  PROVE  LockInv'
  BY DEF LockInv, ResourceTypes, ResourceInv, HoldingInv, Labels, Reading,
         Writing, resource

\* Every step keeps the invariant of the resource.
LEMMA LockStep == IInv /\ [Next]_vars => LockInv'
<1> SUFFICES ASSUME IInv, [Next]_vars PROVE LockInv'
  OBVIOUS
<1> USE DEF IInv, TypeInv
<1>1. ASSUME NEW t \in Threads, add(t) PROVE LockInv'
  BY <1>1, ExclusiveAcquired DEF add, Goto, LockInv
<1>2. ASSUME NEW t \in Threads, \E n \in Cookies \cup {NULL} : emplace_front(t, n)
      PROVE  LockInv'
  BY <1>2, Kept DEF emplace_front, Goto, LockInv
<1>3. ASSUME NEW t \in Threads, ReturnCookie(t) PROVE LockInv'
  BY <1>3, Released DEF ReturnCookie, Goto, LockInv, HoldingInv
<1>4. ASSUME NEW t \in Threads, \E c \in held : remove(t, c) PROVE LockInv'
  <2>1. PICK c \in held : remove(t, c)
    BY <1>4
  <2>2. CASE Ignored(c)
    BY <2>1, <2>2 DEF remove, resource, LockInv, ResourceTypes, ResourceInv,
       HoldingInv
  <2>3. CASE ~Ignored(c)
    BY <2>1, <2>3, ExclusiveAcquired DEF remove, LockedFor, LockInv
  <2> QED
    BY <2>2, <2>3
<1>5. ASSUME NEW t \in Threads, erase(t) PROVE LockInv'
  BY <1>5, Kept DEF erase, Goto, LockInv, ResourceInv, Reading
<1>6. ASSUME NEW t \in Threads, Unlock(t) PROVE LockInv'
  BY <1>6, Released DEF Unlock, Goto, LockInv, HoldingInv
<1>7. ASSUME NEW t \in Threads, call(t) PROVE LockInv'
  BY <1>7, SharedAcquired DEF call, Goto, LockInv
<1>8. ASSUME NEW t \in Threads, begin(t) PROVE LockInv'
  BY <1>8, Kept DEF begin, Goto, LockInv
<1>9. ASSUME NEW t \in Threads, Invoke(t) PROVE LockInv'
  BY <1>9, Kept DEF Invoke, Goto, LockInv, HoldingInv
<1>10. ASSUME NEW t \in Threads, Continue(t) PROVE LockInv'
  BY <1>10, Kept DEF Continue, Goto, LockInv, HoldingInv
<1>11. ASSUME NEW t \in Threads, Veto(t) PROVE LockInv'
  BY <1>11, Released DEF Veto, Finish, Goto, LockInv, HoldingInv
<1>12. ASSUME NEW t \in Threads, end(t) PROVE LockInv'
  BY <1>12, Released DEF end, Finish, Goto, LockInv, HoldingInv
<1>13. CASE destroy
  BY <1>13 DEF destroy, resource, LockInv, ResourceTypes, ResourceInv,
     HoldingInv
<1>14. CASE init \/ UNCHANGED vars
  BY <1>14 DEF init, vars, resource, LockInv, ResourceTypes, ResourceInv,
     HoldingInv
<1> QED
  BY <1>1, <1>2, <1>3, <1>4, <1>5, <1>6, <1>7, <1>8, <1>9, <1>10, <1>11,
     <1>12, <1>13, <1>14 DEF Next, Serve

\* emplace_front: a thread that emplaces owns the new node until it returns.
LEMMA Emplaced ==
  ASSUME IInv, NEW t \in Threads, NEW n \in Cookies \cup {NULL},
         emplace_front(t, n)
  PROVE  RegistryInv'
<1>1. /\ list \in Seq(Cookies) /\ held \subseteq Cookies \cup {NULL}
      /\ cookie \in [Threads -> Cookies \cup {NULL}]
      /\ pc \in [Threads -> Labels]
  BY DEF IInv, TypeInv, ResourceTypes
<1>2. CookieInv /\ NodesInv /\ OwnerInv
  BY DEF IInv
<1>3. /\ pc[t] = "add" /\ n \notin Listed /\ held' = held
      /\ list' = Pushed(n)
      /\ cookie' = [cookie EXCEPT ![t] = n]
      /\ pc' = [pc EXCEPT ![t] = "added"]
  BY DEF emplace_front, Goto
<1>4. cookie[t] = NULL /\ CookieInv'
  BY <1>1, <1>2, <1>3 DEF CookieInv
<1>5. CASE n = NULL
  <2>1. list' = list /\ cookie' = cookie
    BY <1>1, <1>3, <1>4, <1>5 DEF Pushed
  <2>2. NodesInv' /\ OwnerInv'
    BY <1>2, <1>3, <2>1 DEF NodesInv, OwnerInv, Listed
  <2> QED
    BY <1>1, <1>3, <1>4, <2>1, <2>2 DEF RegistryInv
<1>6. CASE n # NULL
  <2>1. n \in Cookies /\ list' = <<n>> \o list
    BY <1>3, <1>6 DEF Pushed
  <2> DEFINE new == <<n>> \o list
  <2>2. /\ new \in Seq(Cookies)
        /\ Len(new) = Len(list) + 1 /\ Len(list) \in Nat
        /\ new[1] = n
        /\ \A i \in 2 .. Len(list) + 1 : new[i] = list[i - 1]
        /\ ToSet(new) = Listed \cup {n}
    BY <1>1, <2>1, PushedFirst, LenProperties
  <2> HIDE DEF new
  <2>3. \A i, j \in 1 .. Len(new) : new[i] = new[j] => i = j
    <3> SUFFICES ASSUME NEW i \in 1 .. Len(new), NEW j \in 1 .. Len(new),
                        new[i] = new[j]
                 PROVE  i = j
      OBVIOUS
    <3>1. \A k \in 2 .. Len(list) + 1 :
            k - 1 \in 1 .. Len(list) /\ new[k] = list[k - 1] /\ new[k] # n
      BY <1>1, <1>3, <2>2, NodesOfList
    <3>2. \A k \in 1 .. Len(new) : k = 1 \/ k \in 2 .. Len(list) + 1
      BY <2>2
    <3>3. CASE i = 1 \/ j = 1
      BY <2>2, <3>1, <3>2, <3>3
    <3>4. CASE i # 1 /\ j # 1
      <4>1. i \in 2 .. Len(list) + 1 /\ j \in 2 .. Len(list) + 1
        BY <3>2, <3>4
      <4>2. list[i - 1] = list[j - 1]
        BY <3>1, <4>1
      <4>3. i - 1 = j - 1
        BY <1>2, <3>1, <4>1, <4>2 DEF NodesInv
      <4> QED
        BY <4>1, <4>3
    <3> QED
      BY <3>3, <3>4
  <2>4. Listed' = Listed \cup {n}
    BY <2>1, <2>2 DEF new, Listed
  <2>5. n \notin held
    BY <1>2, <1>3, <1>6 DEF OwnerInv
  <2>6. \A u \in Threads : u # t => cookie'[u] = cookie[u]
    BY <1>1, <1>3
  <2>7. cookie'[t] = n
    BY <1>1, <1>3
  <2>8. OwnerInv'
    <3> SUFFICES ASSUME NEW u \in Threads, cookie'[u] # NULL
                 PROVE  /\ cookie'[u] \in Listed' \ held'
                        /\ \A v \in Threads : cookie'[v] = cookie'[u] => v = u
      BY <1>2, <1>3, <2>4 DEF OwnerInv
    <3>1. \A v \in Threads : v # t => cookie'[v] # n
      BY <1>2, <1>3, <1>6, <2>6 DEF OwnerInv
    <3> QED
      BY <1>2, <1>3, <2>4, <2>5, <2>6, <2>7, <3>1 DEF OwnerInv
  <2>9. \A m \in Listed' : m \in held' \/ \E u \in Threads : cookie'[u] = m
    <3> SUFFICES ASSUME NEW m \in Listed', m # n
                 PROVE  m \in held' \/ \E u \in Threads : cookie'[u] = m
      BY <2>7
    <3>1. m \in Listed /\ m \in Cookies
      BY <1>1, <2>4, NodesOfList
    <3>2. m # cookie[t]
      BY <1>4, <3>1
    <3> QED
      BY <1>2, <1>3, <2>6, <3>1, <3>2 DEF NodesInv
  <2>10. NodesInv'
    BY <2>1, <2>3, <2>9 DEF NodesInv, new
  <2>11. list' \in Seq(Cookies)
    BY <2>1, <2>2 DEF new
  <2> QED
    BY <1>1, <1>3, <1>4, <2>8, <2>10, <2>11 DEF RegistryInv
<1> QED
  BY <1>5, <1>6

\* erase: the node leaves the list together with the cookie.
LEMMA ErasedNode ==
  ASSUME IInv, NEW t \in Threads, erase(t)
  PROVE  RegistryInv'
<1>1. /\ list \in Seq(Cookies) /\ held \subseteq Cookies \cup {NULL}
      /\ cookie \in [Threads -> Cookies \cup {NULL}]
      /\ pc \in [Threads -> Labels]
  BY DEF IInv, TypeInv, ResourceTypes
<1>2. CookieInv /\ NodesInv /\ OwnerInv
  BY DEF IInv
<1>3. PICK c : c = cookie[t]
  OBVIOUS
<1>4. /\ pc[t] = "remove" /\ list' = Erased(c) /\ held' = held
      /\ cookie' = [cookie EXCEPT ![t] = NULL]
      /\ pc' = [pc EXCEPT ![t] = "removed"]
  BY <1>3 DEF erase, Goto
<1>5. c \in Listed \ held /\ c # NULL
  BY <1>2, <1>3, <1>4 DEF CookieInv, OwnerInv
<1>6. /\ list' \in Seq(Cookies)
      /\ \A i, j \in 1 .. Len(list') : list'[i] = list'[j] => i = j
      /\ Listed' = Listed \ {c}
  <2>1. \A i, j \in 1 .. Len(list) : list[i] = list[j] => i = j
    BY <1>2 DEF NodesInv
  <2>2. /\ Erased(c) \in Seq(Cookies)
        /\ \A i, j \in 1 .. Len(Erased(c)) :
             Erased(c)[i] = Erased(c)[j] => i = j
        /\ ToSet(Erased(c)) = Listed \ {c}
    BY <1>1, <1>5, <2>1, ErasedOne
  <2> QED
    BY <1>4, <2>2 DEF Listed
<1>7. \A u \in Threads : u # t => cookie'[u] = cookie[u] /\ cookie[u] # c
  BY <1>1, <1>2, <1>3, <1>4, <1>5 DEF OwnerInv
<1>8. cookie'[t] = NULL
  BY <1>1, <1>4
<1>9. \A m \in Listed' : m \in held' \/ \E u \in Threads : cookie'[u] = m
  <2> TAKE m \in Listed'
  <2>1. m \in Listed /\ m # c
    BY <1>6
  <2>2. m \in held \/ \E u \in Threads : cookie[u] = m
    BY <1>2, <2>1 DEF NodesInv
  <2> QED
    BY <1>3, <1>4, <1>7, <2>1, <2>2
<1>10. NodesInv'
  BY <1>6, <1>9 DEF NodesInv
<1>11. CookieInv'
  BY <1>1, <1>2, <1>4, <1>7, <1>8 DEF CookieInv
<1>12. OwnerInv'
  BY <1>2, <1>4, <1>5, <1>6, <1>7, <1>8 DEF OwnerInv
<1> QED
  BY <1>1, <1>4, <1>6, <1>10, <1>11, <1>12 DEF RegistryInv

\* A step that moves no node and no cookie keeps the owners.
LEMMA RegistryKept ==
  ASSUME IInv, NEW t \in Threads, NEW s,
         list' = list, held' = held, cookie' = cookie,
         pc' = [pc EXCEPT ![t] = s],
         pc[t] \notin {"added", "remove"}, s \notin {"added", "remove"}
  PROVE  RegistryInv'
<1>1. NodesInv' /\ OwnerInv'
  BY DEF IInv, NodesInv, OwnerInv, Listed
<1>2. CookieInv'
  BY DEF IInv, TypeInv, ResourceTypes, CookieInv
<1> QED
  BY <1>1, <1>2 DEF IInv, TypeInv, RegistryInv

\* ReturnCookie: the cookie goes from the thread to its client.
LEMMA CookieReturned ==
  ASSUME IInv, NEW t \in Threads, ReturnCookie(t)
  PROVE  RegistryInv'
<1>1. /\ list \in Seq(Cookies) /\ held \subseteq Cookies \cup {NULL}
      /\ cookie \in [Threads -> Cookies \cup {NULL}]
      /\ pc \in [Threads -> Labels]
  BY DEF IInv, TypeInv, ResourceTypes
<1>2. CookieInv /\ NodesInv /\ OwnerInv
  BY DEF IInv
<1>3. PICK c : c = cookie[t]
  OBVIOUS
<1>4. /\ pc[t] = "added" /\ list' = list
      /\ held' = held \cup {c}
      /\ cookie' = [cookie EXCEPT ![t] = NULL]
      /\ pc' = [pc EXCEPT ![t] = "idle"]
  <2>1. CookieOf(c) = c
    BY DEF CookieOf, as_entry
  <2> QED
    BY <1>3, <2>1 DEF ReturnCookie, Goto
<1>5. Listed' = Listed
  BY <1>4 DEF Listed
<1>6. CookieInv'
  BY <1>1, <1>2, <1>4 DEF CookieInv
<1>7. OwnerInv'
  BY <1>1, <1>2, <1>3, <1>4, <1>5 DEF OwnerInv
<1>8. NodesInv'
  <2>1. \A m \in Listed' : m \in held' \/ \E u \in Threads : cookie'[u] = m
    <3> TAKE m \in Listed'
    <3>1. m \in Cookies
      BY <1>1, <1>5, NodesOfList
    <3>2. m \in held \/ \E u \in Threads : cookie[u] = m
      BY <1>2, <1>5 DEF NodesInv
    <3> QED
      BY <1>1, <1>3, <1>4, <3>1, <3>2
  <2> QED
    BY <1>2, <1>4, <2>1 DEF NodesInv
<1> QED
  BY <1>1, <1>3, <1>4, <1>6, <1>7, <1>8 DEF RegistryInv

\* remove: the cookie goes from the client to the thread.
LEMMA CookieTaken ==
  ASSUME IInv, NEW t \in Threads, NEW c \in held, remove(t, c)
  PROVE  RegistryInv'
<1>1. /\ list \in Seq(Cookies) /\ held \subseteq Cookies \cup {NULL}
      /\ cookie \in [Threads -> Cookies \cup {NULL}]
      /\ pc \in [Threads -> Labels]
  BY DEF IInv, TypeInv, ResourceTypes
<1>2. CookieInv /\ NodesInv /\ OwnerInv
  BY DEF IInv
<1>0. CASE Ignored(c)
  <2>1. /\ list' = list /\ held' = held \ {NULL} /\ cookie' = cookie
        /\ pc' = pc
    BY <1>0 DEF remove, Ignored
  <2>2. \A n \in Listed : n # NULL
    BY <1>1, NodesOfList
  <2>3. NodesInv' /\ OwnerInv' /\ CookieInv'
    BY <1>2, <2>1, <2>2 DEF NodesInv, OwnerInv, CookieInv, Listed
  <2> QED
    BY <1>1, <2>1, <2>3 DEF RegistryInv
<1> SUFFICES ASSUME c # NULL PROVE RegistryInv'
  BY <1>0 DEF Ignored
<1>3. /\ pc[t] = "idle" /\ list' = list
      /\ held' = held \ {c}
      /\ cookie' = [cookie EXCEPT ![t] = c]
      /\ pc' = [pc EXCEPT ![t] = "remove"]
  BY DEF remove, Ignored, LockedFor
<1>4. Listed' = Listed /\ cookie[t] = NULL /\ c \in Cookies
  BY <1>1, <1>2, <1>3 DEF Listed, CookieInv
<1>5. CookieInv'
  BY <1>1, <1>2, <1>3, <1>4 DEF CookieInv
<1>6. OwnerInv'
  BY <1>1, <1>2, <1>3, <1>4 DEF OwnerInv
<1>7. NodesInv'
  <2>1. \A m \in Listed' : m \in held' \/ \E u \in Threads : cookie'[u] = m
    <3> TAKE m \in Listed'
    <3>1. m \in Cookies
      BY <1>1, <1>4, NodesOfList
    <3>2. m \in held \/ \E u \in Threads : cookie[u] = m
      BY <1>2, <1>4 DEF NodesInv
    <3> QED
      BY <1>1, <1>3, <1>4, <3>1, <3>2
  <2> QED
    BY <1>2, <1>3, <2>1 DEF NodesInv
<1> QED
  BY <1>1, <1>3, <1>4, <1>5, <1>6, <1>7 DEF RegistryInv

\* Every step keeps the owners of the nodes.
LEMMA RegistryStep == IInv /\ [Next]_vars => RegistryInv'
<1> SUFFICES ASSUME IInv, [Next]_vars PROVE RegistryInv'
  OBVIOUS
<1>1. ASSUME NEW t \in Threads, \E n \in Cookies \cup {NULL} : emplace_front(t, n)
      PROVE  RegistryInv'
  BY <1>1, Emplaced
<1>2. ASSUME NEW t \in Threads, ReturnCookie(t) PROVE RegistryInv'
  BY <1>2, CookieReturned
<1>3. ASSUME NEW t \in Threads, \E c \in held : remove(t, c)
      PROVE  RegistryInv'
  BY <1>3, CookieTaken
<1>4. ASSUME NEW t \in Threads, erase(t) PROVE RegistryInv'
  BY <1>4, ErasedNode
<1>5. ASSUME NEW t \in Threads,
             add(t) \/ Unlock(t) \/ call(t) \/ begin(t) \/ Invoke(t) \/
             Continue(t) \/ Veto(t) \/ end(t)
      PROVE  RegistryInv'
  <2>1. /\ list' = list /\ held' = held /\ cookie' = cookie
        /\ pc[t] \notin {"added", "remove"}
    BY <1>5 DEF add, Unlock, call, begin, Invoke, Continue, Veto, end, Finish
  <2>2. PICK s \in {"idle", "add", "call", "loop", "callback"} :
          pc' = [pc EXCEPT ![t] = s]
    BY <1>5
       DEF add, Unlock, call, begin, Invoke, Continue, Veto, end, Finish, Goto
  <2> QED
    BY <2>1, <2>2, RegistryKept
<1>6. CASE destroy
  <2>1. /\ list' = <<>> /\ held' = {} /\ cookie' = cookie /\ pc' = pc
        /\ \A t \in Threads : pc[t] = "idle"
    BY <1>6 DEF destroy
  <2>2. \A t \in Threads : cookie[t] = NULL
    BY <2>1 DEF IInv, CookieInv
  <2>3. Listed' = {} /\ Len(list') = 0 /\ list' \in Seq(Cookies)
    BY <2>1, EmptySeq DEF Listed, ToSet
  <2> QED
    BY <2>1, <2>2, <2>3
       DEF IInv, TypeInv, RegistryInv, CookieInv, NodesInv, OwnerInv
<1>7. CASE init \/ UNCHANGED vars
  BY <1>7 DEF IInv, TypeInv, RegistryInv, CookieInv, NodesInv, OwnerInv, Listed,
     init, vars
<1> QED
  BY <1>1, <1>2, <1>3, <1>4, <1>5, <1>6, <1>7 DEF Next, Serve

\* The node after the k-th of a list without duplicates.
LEMMA NextNode ==
  ASSUME list \in Seq(Cookies), NEW k \in 1 .. Len(list),
         \A i, j \in 1 .. Len(list) : list[i] = list[j] => i = j
  PROVE  Successors(list[k]) = {IF k = Len(list) THEN NULL ELSE list[k + 1]}
<1>1. Len(list) \in Nat /\ DOMAIN list = 1 .. Len(list)
  BY LenProperties
<1>2. list[k] \in Listed
  BY NodesOfList
<1>3. Last(list) = list[Len(list)] /\ Len(list) \in 1 .. Len(list)
  BY <1>1 DEF Last
<1>4. (Last(list) = list[k]) <=> k = Len(list)
  BY <1>3
<1>5. (CHOOSE i \in DOMAIN list : list[i] = list[k]) = k
  BY <1>1
<1>6. 1 + k = k + 1
  BY <1>1
<1> QED
  BY <1>2, <1>4, <1>5, <1>6 DEF Successors

\* No announcement is at work while a thread changes the list.
LEMMA NobodyReads ==
  ASSUME IInv, NEW t \in Threads, t = writer
  PROVE  \A u \in Threads : pc[u] \notin {"loop", "callback"}
  BY DEF IInv, TypeInv, ResourceTypes, ResourceInv, HoldingInv

\* A step that leaves the announcements and the list alone, or has neither
\* an announcement of its own nor a list that anybody reads.
LEMMA AnnounceKept ==
  ASSUME IInv, NEW t \in Threads, NEW s \in Labels \ {"loop", "callback"},
         it' = it, heard' = heard, answer' = answer,
         pc' = [pc EXCEPT ![t] = s],
         list' = list \/ t = writer
  PROVE  AnnounceInv'
<1>1. /\ it \in [Threads -> Cookies \cup {NULL}]
      /\ heard \in [Threads -> Seq(Cookies)]
      /\ answer \in [Threads -> [ok : BOOLEAN, heard : Seq(Cookies)]]
      /\ pc \in [Threads -> Labels] /\ HeardInv
  BY DEF IInv, TypeInv, ResourceTypes
<1>2. SUFFICES HeardInv'
  BY <1>1 DEF AnnounceInv
<1>3. \A u \in Threads : pc'[u] \in {"loop", "callback"} =>
        pc'[u] = pc[u] /\ list' = list
  BY <1>1, NobodyReads
<1> QED
  BY <1>1, <1>3 DEF HeardInv

\* What an announcement knows, as facts without HeardInv's abbreviation.
LEMMA Announcing ==
  ASSUME IInv, NEW t \in Threads
  PROVE  /\ list \in Seq(Cookies) /\ Len(list) \in Nat
         /\ heard[t] \in Seq(Cookies) /\ Len(heard[t]) \in Nat
         /\ pc[t] \in {"loop", "callback"} =>
              /\ Len(heard[t]) <= Len(list)
              /\ heard[t] = SubSeq(list, 1, Len(heard[t]))
         /\ pc[t] = "loop" =>
              it[t] = IF Len(heard[t]) = Len(list) THEN NULL
                      ELSE list[Len(heard[t]) + 1]
         /\ pc[t] = "callback" =>
              /\ Len(heard[t]) \in 1 .. Len(list)
              /\ it[t] = list[Len(heard[t])]
<1>1. list \in Seq(Cookies) /\ heard[t] \in Seq(Cookies)
  BY DEF IInv, TypeInv
<1>2. Len(list) \in Nat /\ Len(heard[t]) \in Nat
  BY <1>1, LenProperties
<1> QED
  BY <1>1, <1>2 DEF IInv, HeardInv

\* The step of one announcement, once its own new state is as it should be.
LEMMA AnnounceMoves ==
  ASSUME IInv, NEW t \in Threads, NEW n \in Cookies \cup {NULL},
         NEW h \in Seq(Cookies), NEW s \in {"loop", "callback"},
         list' = list, answer' = answer,
         it' = [it EXCEPT ![t] = n], heard' = [heard EXCEPT ![t] = h],
         pc' = [pc EXCEPT ![t] = s],
         Len(h) <= Len(list), h = SubSeq(list, 1, Len(h)),
         s = "loop" => n = IF Len(h) = Len(list) THEN NULL ELSE list[Len(h) + 1],
         s = "callback" => Len(h) # 0 /\ n = list[Len(h)]
  PROVE  AnnounceInv'
<1>1. /\ it \in [Threads -> Cookies \cup {NULL}]
      /\ heard \in [Threads -> Seq(Cookies)]
      /\ answer \in [Threads -> [ok : BOOLEAN, heard : Seq(Cookies)]]
      /\ pc \in [Threads -> Labels] /\ HeardInv
  BY DEF IInv, TypeInv, ResourceTypes
<1>2. /\ it' \in [Threads -> Cookies \cup {NULL}]
      /\ heard' \in [Threads -> Seq(Cookies)]
      /\ answer' \in [Threads -> [ok : BOOLEAN, heard : Seq(Cookies)]]
  BY <1>1
<1>3. \A u \in Threads : u # t =>
        it'[u] = it[u] /\ heard'[u] = heard[u] /\ pc'[u] = pc[u]
  BY <1>1
<1>4. it'[t] = n /\ heard'[t] = h /\ pc'[t] = s
  BY <1>1
<1>5. HeardInv'
  BY <1>1, <1>3, <1>4 DEF HeardInv
<1> QED
  BY <1>2, <1>5 DEF AnnounceInv

\* begin: the iterator is at the head and nobody has heard.
LEMMA Begun ==
  ASSUME IInv, NEW t \in Threads, begin(t)
  PROVE  AnnounceInv'
<1>1. list \in Seq(Cookies) /\ Len(list) \in Nat
  BY Announcing
<1> DEFINE n == IF list = <<>> THEN NULL ELSE Head(list)
<1>2. PICK h : h = <<>> /\ h \in Seq(Cookies) /\ Len(h) = 0
  <2>1. <<>> \in Seq(Cookies) /\ Len(<<>>) = 0
    OBVIOUS
  <2> QED
    BY <2>1
<1>3. Len(list) = 0 <=> list = <<>>
  BY <1>1, EmptySeq
<1>4. list # <<>> => Head(list) = list[1] /\ list[1] \in Cookies
  BY <1>1, <1>3, HeadTailProperties
<1>5. n \in Cookies \cup {NULL} /\ n = IF 0 = Len(list) THEN NULL ELSE list[0 + 1]
  BY <1>3, <1>4
<1>6. h = SubSeq(list, 1, Len(h)) /\ Len(h) <= Len(list)
      /\ n = IF Len(h) = Len(list) THEN NULL ELSE list[Len(h) + 1]
  BY <1>1, <1>2, <1>5, SubSeqEmpty
<1>7. /\ list' = list /\ answer' = answer
      /\ it' = [it EXCEPT ![t] = n] /\ heard' = [heard EXCEPT ![t] = h]
      /\ pc' = [pc EXCEPT ![t] = "loop"]
  BY <1>2 DEF begin, Goto
<1> HIDE DEF n
<1> QED
  BY <1>1, <1>2, <1>5, <1>6, <1>7, AnnounceMoves

\* Invoke: one node more has heard, the one the iterator is at.
LEMMA Invoked ==
  ASSUME IInv, NEW t \in Threads, Invoke(t)
  PROVE  AnnounceInv'
<1>1. PICK k : k = Len(heard[t])
  OBVIOUS
<1>2. PICK n : n = it[t]
  OBVIOUS
<1>3. PICK old : old = heard[t]
  OBVIOUS
<1>4. /\ list \in Seq(Cookies) /\ Len(list) \in Nat
      /\ old \in Seq(Cookies) /\ k \in Nat /\ k <= Len(list) /\ k = Len(old)
      /\ old = SubSeq(list, 1, k)
      /\ n = IF k = Len(list) THEN NULL ELSE list[k + 1]
      /\ n # NULL
  BY <1>1, <1>2, <1>3, Announcing DEF Invoke
<1>5. k + 1 \in 1 .. Len(list) /\ n = list[k + 1] /\ n \in Cookies
  BY <1>4, NodesOfList
<1> DEFINE h == Append(old, n)
<1>6. /\ list' = list /\ answer' = answer
      /\ it' = [it EXCEPT ![t] = n] /\ heard' = [heard EXCEPT ![t] = h]
      /\ pc' = [pc EXCEPT ![t] = "callback"]
  BY <1>2, <1>3 DEF Invoke, Goto, IInv, TypeInv
<1>7. h \in Seq(Cookies) /\ Len(h) = k + 1
  BY <1>4, <1>5, AppendProperties
<1>8. h = SubSeq(list, 1, k + 1)
  <2>1. SubSeq(list, 1, k + 1)
          = SubSeq(list, 1, (k + 1) - 1) \o <<list[k + 1]>>
    <3>1. list \in Seq(Cookies) /\ 1 \in 1 .. Len(list) /\ k + 1 \in 1 .. Len(list)
      BY <1>4, <1>5
    <3> QED
      BY <3>1, SubSeqRecursiveSecond
  <2>2. (k + 1) - 1 = k
    BY <1>4
  <2> QED
    BY <1>4, <1>5, <2>1, <2>2, AppendIsConcat
<1> HIDE DEF h
<1>9. Len(h) <= Len(list) /\ h = SubSeq(list, 1, Len(h)) /\ Len(h) # 0
      /\ n = list[Len(h)]
  BY <1>4, <1>5, <1>7, <1>8
<1> QED
  BY <1>5, <1>6, <1>7, <1>9, AnnounceMoves

\* operator++: the iterator goes to the node after the last that heard.
LEMMA Continued ==
  ASSUME IInv, NEW t \in Threads, Continue(t)
  PROVE  AnnounceInv'
<1>1. PICK k : k = Len(heard[t])
  OBVIOUS
<1>2. PICK h : h = heard[t]
  OBVIOUS
<1>3. /\ list \in Seq(Cookies) /\ Len(list) \in Nat
      /\ h \in Seq(Cookies) /\ k \in 1 .. Len(list) /\ k = Len(h)
      /\ h = SubSeq(list, 1, k)
      /\ it[t] = list[k]
  BY <1>1, <1>2, Announcing DEF Continue
<1>4. PICK n \in Successors(list[k]) : it' = [it EXCEPT ![t] = n]
  BY <1>3 DEF Continue
<1>5. n = IF k = Len(list) THEN NULL ELSE list[k + 1]
  <2>1. \A i, j \in 1 .. Len(list) : list[i] = list[j] => i = j
    BY DEF IInv, NodesInv
  <2>2. Successors(list[k]) = {IF k = Len(list) THEN NULL ELSE list[k + 1]}
    BY <1>3, <2>1, NextNode
  <2> QED
    BY <1>4, <2>2
<1>6. n \in Cookies \cup {NULL}
  BY <1>3, <1>5, NodesOfList
<1>7. heard' = [heard EXCEPT ![t] = h] /\ list' = list /\ answer' = answer
      /\ pc' = [pc EXCEPT ![t] = "loop"]
  BY <1>2 DEF Continue, Goto, IInv, TypeInv
<1>8. Len(h) <= Len(list) /\ h = SubSeq(list, 1, Len(h))
      /\ n = IF Len(h) = Len(list) THEN NULL ELSE list[Len(h) + 1]
  BY <1>3, <1>5
<1> QED
  BY <1>3, <1>4, <1>6, <1>7, <1>8, AnnounceMoves

\* Veto and end: the announcement's own state is gone.
LEMMA Finished ==
  ASSUME IInv, NEW t \in Threads, NEW ok \in BOOLEAN, Finish(t, ok)
  PROVE  AnnounceInv'
<1>1. /\ it \in [Threads -> Cookies \cup {NULL}]
      /\ heard \in [Threads -> Seq(Cookies)]
      /\ answer \in [Threads -> [ok : BOOLEAN, heard : Seq(Cookies)]]
      /\ pc \in [Threads -> Labels] /\ HeardInv
  BY DEF IInv, TypeInv, ResourceTypes
<1>2. /\ answer' = [answer EXCEPT ![t] = [ok |-> ok, heard |-> heard[t]]]
      /\ heard' = [heard EXCEPT ![t] = <<>>]
      /\ it' = [it EXCEPT ![t] = NULL]
      /\ pc' = [pc EXCEPT ![t] = "idle"]
      /\ list' = list
  BY DEF Finish, Goto
<1>3. <<>> \in Seq(Cookies) /\ heard[t] \in Seq(Cookies)
  BY <1>1
<1>4. /\ it' \in [Threads -> Cookies \cup {NULL}]
      /\ heard' \in [Threads -> Seq(Cookies)]
      /\ answer' \in [Threads -> [ok : BOOLEAN, heard : Seq(Cookies)]]
  BY <1>1, <1>2, <1>3
<1>5. pc'[t] = "idle" /\ \A u \in Threads : u # t =>
        it'[u] = it[u] /\ heard'[u] = heard[u] /\ pc'[u] = pc[u]
  BY <1>1, <1>2
<1>6. HeardInv'
  BY <1>1, <1>2, <1>5 DEF HeardInv
<1> QED
  BY <1>4, <1>6 DEF AnnounceInv

\* Every step keeps what announcements have reached.
LEMMA AnnounceStep == IInv /\ [Next]_vars => AnnounceInv'
<1> SUFFICES ASSUME IInv, [Next]_vars PROVE AnnounceInv'
  OBVIOUS
<1>1. ASSUME NEW t \in Threads, add(t) PROVE AnnounceInv'
  BY <1>1, AnnounceKept DEF add, Goto, Labels, Reading, Writing
<1>2. ASSUME NEW t \in Threads, \E n \in Cookies \cup {NULL} : emplace_front(t, n)
      PROVE  AnnounceInv'
  BY <1>2, AnnounceKept DEF emplace_front, Goto, Labels, Reading, Writing
<1>3. ASSUME NEW t \in Threads, ReturnCookie(t) PROVE AnnounceInv'
  BY <1>3, AnnounceKept DEF ReturnCookie, Goto, Labels, Reading, Writing
<1>4. ASSUME NEW t \in Threads, \E c \in held : remove(t, c)
      PROVE  AnnounceInv'
  <2>1. PICK c \in held : remove(t, c)
    BY <1>4
  <2>2. CASE Ignored(c)
    BY <2>1, <2>2 DEF remove, IInv, TypeInv, AnnounceInv, HeardInv
  <2>3. CASE ~Ignored(c)
    BY <2>1, <2>3, AnnounceKept
       DEF remove, LockedFor, Goto, Labels, Reading, Writing
  <2> QED
    BY <2>2, <2>3
<1>5. ASSUME NEW t \in Threads, erase(t) PROVE AnnounceInv'
  <2>1. t = writer
    BY <1>5 DEF erase, IInv, ResourceInv, Reading
  <2> QED
    BY <1>5, <2>1, AnnounceKept DEF erase, Goto, Labels, Writing
<1>6. ASSUME NEW t \in Threads, Unlock(t) PROVE AnnounceInv'
  BY <1>6, AnnounceKept DEF Unlock, Goto, Labels, Reading, Writing
<1>7. ASSUME NEW t \in Threads, call(t) PROVE AnnounceInv'
  BY <1>7, AnnounceKept DEF call, Goto, Labels, Reading, Writing
<1>8. ASSUME NEW t \in Threads, begin(t) PROVE AnnounceInv'
  BY <1>8, Begun
<1>9. ASSUME NEW t \in Threads, Invoke(t) PROVE AnnounceInv'
  BY <1>9, Invoked
<1>10. ASSUME NEW t \in Threads, Continue(t) PROVE AnnounceInv'
  BY <1>10, Continued
<1>11. ASSUME NEW t \in Threads, Veto(t) PROVE AnnounceInv'
  BY <1>11, Finished DEF Veto
<1>12. ASSUME NEW t \in Threads, end(t) PROVE AnnounceInv'
  BY <1>12, Finished DEF end
<1>13. CASE destroy
  BY <1>13 DEF destroy, IInv, TypeInv, AnnounceInv, HeardInv
<1>14. CASE init \/ UNCHANGED vars
  BY <1>14 DEF init, vars, IInv, TypeInv, AnnounceInv, HeardInv
<1> QED
  BY <1>1, <1>2, <1>3, <1>4, <1>5, <1>6, <1>7, <1>8, <1>9, <1>10, <1>11,
     <1>12, <1>13, <1>14 DEF Next, Serve

-----------------------------------------------------------------------------
\* The list is empty and every thread idle when driver_load ends.
LEMMA Initially == Init => IInv
<1> SUFFICES ASSUME Init PROVE IInv
  OBVIOUS
<1> USE DEF Init
<1>1. \A S : <<>> \in Seq(S) /\ Len(<<>>) = 0
  OBVIOUS
<1>2. TypeInv
  BY <1>1 DEF TypeInv, ResourceTypes, Labels
<1>3. Listed = {}
  BY <1>1, EmptySeq DEF Listed, ToSet
<1>4. ResourceInv /\ HoldingInv /\ CookieInv /\ HeardInv
  BY <1>1 DEF ResourceInv, HoldingInv, CookieInv, HeardInv
<1>5. NodesInv /\ OwnerInv
  BY <1>1, <1>3 DEF NodesInv, OwnerInv
<1> QED
  BY <1>2, <1>4, <1>5 DEF IInv

\* Every step keeps every part.
LEMMA Inductive == IInv /\ [Next]_vars => IInv'
  BY LockStep, RegistryStep, AnnounceStep
     DEF IInv, LockInv, RegistryInv, AnnounceInv, TypeInv

\* IInv is an inductive invariant of the list of callbacks.
THEOREM Invariance == Spec => []IInv
  BY Initially, Inductive, PTL DEF Spec

\* The list, its resource and the threads in it have the values they may have.
THEOREM TypesKept == Spec => []TypeInv
<1>1. IInv => TypeInv
  BY DEF IInv
<1> QED
  BY <1>1, Invariance, PTL

\* For any threads and callbacks, an announcement's iterator rests on a node
\* of the list (callbacks.cpp:112, 123).
THEOREM IteratorsStayLive == Spec => []IteratorsLive
<1>1. IInv => IteratorsLive
  <2> SUFFICES ASSUME IInv, NEW t \in Threads, pc[t] \in {"loop", "callback"}
               PROVE  it[t] \in Listed \cup {NULL}
    BY DEF IteratorsLive
  <2>1. PICK k : k = Len(heard[t])
    OBVIOUS
  <2>2. /\ list \in Seq(Cookies) /\ Len(list) \in Nat /\ k \in Nat
        /\ k <= Len(list)
        /\ pc[t] = "loop" => it[t] = IF k = Len(list) THEN NULL ELSE list[k + 1]
        /\ pc[t] = "callback" => k \in 1 .. Len(list) /\ it[t] = list[k]
    BY <2>1, Announcing
  <2>3. k # Len(list) => k + 1 \in 1 .. Len(list)
    BY <2>2
  <2> QED
    BY <2>2, <2>3, NodesOfList
<1> QED
  BY <1>1, Invariance, PTL

\* For any threads and callbacks, a callback runs only while its client may
\* still expect it (callbacks.cpp:98, remove waits for the announcements).
THEOREM NoLateCalls == Spec => []NoLateCall
<1>1. IInv => NoLateCall
  <2> SUFFICES ASSUME IInv, NEW t \in Threads, pc[t] = "callback"
               PROVE  it[t] \in held \cup {cookie[u] : u \in Threads}
    BY DEF NoLateCall
  <2>1. it[t] \in Listed
    BY Announcing, NodesOfList
  <2> QED
    BY <2>1 DEF IInv, NodesInv
<1> QED
  BY <1>1, Invariance, PTL

\* For any threads and callbacks, the nodes of the list are the cookies that
\* clients hold or that are on their way, one owner each, and a client that
\* got no node has NULL, never the list head (callbacks.cpp:91-104).
THEOREM NodesHaveOneOwner == Spec => []CookiesAreNodes
<1>1. IInv => CookiesAreNodes
  <2>0. ASSUME IInv
        PROVE  /\ held \subseteq Listed \cup {NULL}
               /\ \A t \in Threads : pc[t] = "remove" => cookie[t] \in Listed
    BY <2>0 DEF IInv, OwnerInv, CookieInv
  <2> SUFFICES ASSUME IInv, NEW n \in Cookies
               PROVE  Cardinality(Owners(n)) + (IF n \in held THEN 1 ELSE 0)
                        = IF n \in Listed THEN 1 ELSE 0
    BY <2>0 DEF CookiesAreNodes
  <2>1. n # NULL /\ CookieInv /\ NodesInv /\ OwnerInv
    BY DEF IInv
  <2>2. \A t \in Threads : t \in Owners(n) <=> cookie[t] = n
    BY <2>1 DEF Owners, CookieInv
  <2>3. Cardinality({}) = 0
    BY FS_EmptySet
  <2>4. CASE n \in held
    <3>1. Owners(n) = {} /\ n \in Listed
      BY <2>1, <2>2, <2>4 DEF OwnerInv, Owners
    <3> QED
      BY <2>3, <2>4, <3>1
  <2>5. CASE n \notin held /\ \E t \in Threads : cookie[t] = n
    <3>1. PICK t \in Threads : cookie[t] = n
      BY <2>5
    <3>2. Owners(n) = {t} /\ n \in Listed
      BY <2>1, <2>2, <3>1 DEF OwnerInv, Owners
    <3>3. Cardinality({t}) = 1
      BY FS_Singleton
    <3> QED
      BY <2>5, <3>2, <3>3
  <2>6. CASE n \notin held /\ \A t \in Threads : cookie[t] # n
    <3>1. Owners(n) = {} /\ n \notin Listed
      BY <2>1, <2>6 DEF NodesInv, Owners
    <3> QED
      BY <2>3, <2>6, <3>1
  <2> QED
    BY <2>4, <2>5, <2>6
<1> QED
  BY <1>1, Invariance, PTL

-----------------------------------------------------------------------------
\* An announcement that ends is one instant of the registry.
LEMMA AnnouncementEnds ==
  ASSUME IInv, NEW t \in Threads, Veto(t) \/ end(t)
  PROVE  Registry!Announce(t)
<1>1. PICK k : k = Len(heard[t])
  OBVIOUS
<1>2. PICK h : h = heard[t]
  OBVIOUS
<1>3. /\ list \in Seq(Cookies) /\ Len(list) \in Nat /\ k \in Nat
      /\ k = Len(h) /\ DOMAIN list = 1 .. Len(list) /\ list' = list
  BY <1>1, <1>2, Announcing, LenProperties DEF Veto, end, Finish
<1>4. CASE Veto(t)
  <2>1. answer' = [answer EXCEPT ![t] = [ok |-> FALSE, heard |-> h]]
    BY <1>2, <1>4 DEF Veto, Finish
  <2>2. k \in DOMAIN list /\ h = SubSeq(list, 1, k)
    BY <1>1, <1>2, <1>3, <1>4, Announcing DEF Veto
  <2> QED
    BY <1>3, <2>1, <2>2 DEF Registry!Announce
<1>5. CASE end(t)
  <2>1. answer' = [answer EXCEPT ![t] = [ok |-> TRUE, heard |-> h]]
    BY <1>2, <1>5 DEF end, Finish
  <2>2. /\ pc[t] = "loop" /\ it[t] = NULL /\ k <= Len(list)
        /\ h = SubSeq(list, 1, k)
        /\ it[t] = IF k = Len(list) THEN NULL ELSE list[k + 1]
    BY <1>1, <1>2, <1>5, Announcing DEF end
  <2>3. k = Len(list)
    <3> SUFFICES ASSUME k # Len(list) PROVE FALSE
      OBVIOUS
    <3>1. k + 1 \in 1 .. Len(list)
      BY <1>3, <2>2
    <3> QED
      BY <1>3, <2>2, <3>1, NodesOfList, SMTT(20)
  <2>4. h = list
    BY <1>3, <2>2, <2>3, SubSeqFull
  <2> QED
    BY <1>3, <2>1, <2>4 DEF Registry!Announce
<1> QED
  BY <1>4, <1>5

\* For any threads and callbacks, the list with its locks implements the
\* registry of module CallbackSpec, whose every operation is one step.
THEOREM ListIsRegistry == Spec => IsRegistry
<1>1. Init => Registry!Init
  BY DEF Init, Registry!Init
<1>2. IInv /\ [Next]_vars => [Registry!Next]_(Registry!vars)
  <2> SUFFICES ASSUME IInv, [Next]_vars
               PROVE  UNCHANGED <<list, answer>> \/ Registry!Next
    BY DEF Registry!vars
  <2>1. ASSUME NEW t \in Threads, NEW n \in Cookies \cup {NULL},
               emplace_front(t, n)
        PROVE  UNCHANGED <<list, answer>> \/ Registry!Next
    <3>1. /\ list \in Seq(Cookies) /\ DOMAIN list = 1 .. Len(list)
          /\ n \notin Listed /\ list' = Pushed(n) /\ answer' = answer
      BY <2>1, LenProperties DEF IInv, TypeInv, emplace_front
    <3>2. CASE n = NULL
      BY <3>1, <3>2 DEF Pushed
    <3>3. CASE n # NULL
      <4>1. n \in Cookies /\ list' = <<n>> \o list
        BY <3>1, <3>3 DEF Pushed
      <4>2. \A i \in DOMAIN list : list[i] # n
        BY <3>1, NodesOfList
      <4>3. Registry!Register(n)
        BY <3>1, <4>1, <4>2 DEF Registry!Register
      <4> QED
        BY <4>1, <4>3 DEF Registry!Next
    <3> QED
      BY <3>2, <3>3
  <2>2. ASSUME NEW t \in Threads, erase(t) PROVE Registry!Next
    <3>1. PICK c : c = cookie[t]
      OBVIOUS
    <3>2. list \in Seq(Cookies) /\ c \in Listed /\ list' = Erased(c)
          /\ answer' = answer
          /\ \A i, j \in 1 .. Len(list) : list[i] = list[j] => i = j
      <4>1. pc[t] = "remove" /\ list' = Erased(c) /\ answer' = answer
        BY <2>2, <3>1 DEF erase
      <4>2. list \in Seq(Cookies) /\ CookieInv /\ OwnerInv /\ NodesInv
        BY DEF IInv, TypeInv
      <4>3. c \in Listed
        BY <3>1, <4>1, <4>2 DEF CookieInv, OwnerInv
      <4> QED
        BY <4>1, <4>2, <4>3 DEF NodesInv
    <3>3. PICK i \in DOMAIN list : Erased(c) = RemoveAt(list, i)
      BY <3>2, ErasedOne
    <3>4. Registry!Unregister(i)
      BY <3>2, <3>3 DEF Registry!Unregister, Registry!RemoveAt, RemoveAt
    <3> QED
      BY <3>4 DEF Registry!Next
  <2>3. ASSUME NEW t \in Threads, Veto(t) \/ end(t) PROVE Registry!Next
    BY <2>3, AnnouncementEnds DEF Registry!Next
  <2>4. CASE destroy
    BY <2>4 DEF destroy, Registry!Unload, Registry!Next
  <2>5. CASE init \/ UNCHANGED vars
    BY <2>5 DEF init, vars
  <2>6. ASSUME NEW t \in Threads,
               \/ add(t) \/ ReturnCookie(t) \/ (\E c \in held : remove(t, c))
               \/ Unlock(t) \/ call(t) \/ begin(t) \/ Invoke(t) \/ Continue(t)
        PROVE  UNCHANGED <<list, answer>>
    BY <2>6 DEF add, ReturnCookie, remove, Unlock, call, begin, Invoke, Continue
  <2> QED
    BY <2>1, <2>2, <2>3, <2>4, <2>5, <2>6 DEF Next, Serve
<1> QED
  BY <1>1, <1>2, Invariance, PTL DEF Spec, IsRegistry, Registry!Spec

=============================================================================
