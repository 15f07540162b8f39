---------------------------- MODULE NativesProofs ----------------------------
(***************************************************************************)
(* Proofs about the native functions: HostMemory, Affinity, PciConfig,     *)
(* Registers and KernelCrt, for any threads, sizes and memories.           *)
(***************************************************************************)
EXTENDS HostMemory, Affinity, PciConfig, Registers, KernelCrt,
        SequenceTheorems, WellFoundedInduction, TLAPS

-----------------------------------------------------------------------------
(***************************************************************************)
(* HostMemory.  A module that goes at its byte still finds there what it   *)
(* has read: nobody else has written it, not even with the whole word.     *)
(***************************************************************************)
Byte == 0 .. ByteSize - 1
Halves == {Low, High}

MemoryInv ==
  /\ word \in [Halves -> Byte]
  /\ width \in [Users -> Widths]
  /\ got \in [Users -> {NoCell} \cup (0 .. WordSize - 1)]
  /\ told \in [Users -> Byte]
  /\ \A t \in Users :
       width[t] = "byte" /\ got[t] # NoCell => got[t] = word[ByteOf(t)]
  /\ BytesAreTheirOwners

\* A word of two bytes, and the bytes of a word.
LEMMA Digits ==
  ASSUME NEW n \in Nat \ {0}, NEW l \in 0 .. n - 1, NEW h \in 0 .. n - 1
  PROVE  /\ l + n * h \in 0 .. n * n - 1
         /\ (l + n * h) % n = l
         /\ (l + n * h) \div n = h
<1>1. n * h <= n * (n - 1) /\ n * h \in Nat
  OBVIOUS
<1>2. n * (n - 1) = n * n - n
  OBVIOUS
<1>3. l + n * h \in 0 .. n * n - 1
  BY <1>1, <1>2
<1> QED
  BY <1>1, <1>3

\* The bytes have different owners.
LEMMA Owners ==
  /\ Low # High /\ Halves = {Low, High}
  /\ \A b \in Halves : Owner[b] \in Users /\ ByteOf(Owner[b]) = b
  /\ \A t \in Users : ByteOf(t) \in Halves /\ Owner[ByteOf(t)] = t
BY OwnerAssumption DEF Halves, Low, High, Users, ByteOf

\* A value and the same value signed tell each other apart.
LEMMA SignedApart ==
  ASSUME NEW n \in Nat, NEW a \in 0 .. n - 1, NEW b \in 0 .. n - 1
  PROVE  Signed(a, n) = Signed(b, n) <=> a = b
<1>1. a % n = a /\ b % n = b
  OBVIOUS
<1>2. n \div 2 \in Nat /\ n \div 2 <= n
  OBVIOUS
<1> QED
  BY <1>1, <1>2 DEF Signed

\* One more in one byte, and the other byte as it was.
LEMMA ByteBumped ==
  ASSUME NEW t \in Users, NEW l \in Byte, NEW h \in Byte, NEW v,
         v = l + ByteSize * h
  PROVE  LET new == Spread(Truncated(Bumped(t, v), WordSize)) IN
         /\ new \in [Halves -> Byte]
         /\ t = Owner[Low] => new[Low] = (l + 1) % ByteSize /\ new[High] = h
         /\ t = Owner[High] => new[Low] = l /\ new[High] = (h + 1) % ByteSize
<1>1. ByteSize \in Nat \ {0} /\ Byte = 0 .. ByteSize - 1
  BY ByteAssumption DEF Byte
<1>2. PICK x \in Byte : x = (l + 1) % ByteSize
  BY <1>1
<1>3. PICK y \in Byte : y = (h + 1) % ByteSize
  BY <1>1
<1>4. ASSUME NEW i \in Byte, NEW k \in Byte
      PROVE  /\ Truncated(i + ByteSize * k, WordSize) = i + ByteSize * k
             /\ Spread(i + ByteSize * k) \in [Halves -> Byte]
             /\ Spread(i + ByteSize * k)[Low] = i
             /\ Spread(i + ByteSize * k)[High] = k
  <2>1. PICK w : w = i + ByteSize * k
    OBVIOUS
  <2>2. /\ w \in 0 .. WordSize - 1 /\ WordSize \in Nat
        /\ w % ByteSize = i /\ w \div ByteSize = k
    BY <1>1, <2>1, Digits DEF WordSize
  <2>3. Truncated(w, WordSize) = w
    BY <2>2 DEF Truncated
  <2>4. Spread(w) = [b \in Halves |-> IF b = Low THEN i ELSE k]
    <3>1. \A b \in Halves : (w \div Weight(b)) % ByteSize = IF b = Low THEN i ELSE k
      <4>1. (w \div 1) % ByteSize = i
        BY <1>1, <2>2
      <4>2. (w \div ByteSize) % ByteSize = k
        BY <1>1, <2>2
      <4> QED
        BY <4>1, <4>2 DEF Weight
    <3> QED
      BY <3>1 DEF Spread, Halves
  <2> QED
    BY <2>1, <2>3, <2>4, Owners
<1>5. CASE t = Owner[Low]
  <2>1. ByteOf(t) = Low /\ Weight(Low) = 1
    BY <1>5 DEF ByteOf, Weight
  <2>2. Bumped(t, v) = x + ByteSize * h
    <3>1. Bumped(t, v) = v + (x - l) * 1
      BY <1>2, <1>4, <2>1 DEF Bumped
    <3> QED
      BY <1>1, <3>1
  <2> QED
    BY <1>2, <1>4, <1>5, <2>2, OwnerAssumption DEF Low, High
<1>6. CASE t = Owner[High]
  <2>1. ByteOf(t) = High /\ Weight(High) = ByteSize
    BY <1>6, Owners DEF Weight
  <2>2. Bumped(t, v) = l + ByteSize * y
    <3>1. Bumped(t, v) = v + (y - h) * ByteSize
      BY <1>3, <1>4, <2>1 DEF Bumped
    <3>2. (y - h) * ByteSize = ByteSize * y - ByteSize * h
      BY <1>1
    <3> QED
      BY <1>1, <3>1, <3>2
  <2> QED
    BY <1>3, <1>4, <1>6, <2>2, OwnerAssumption DEF Low, High
<1> QED
  BY <1>5, <1>6 DEF Users

LEMMA MemoryInitially == MemoryInit => MemoryInv
BY ByteAssumption, Owners
   DEF MemoryInit, MemoryInv, Byte, Halves, BytesAreTheirOwners

LEMMA MemoryPreserved ==
  MemoryInv /\ [\E t \in Users : MemoryNext(t)]_memVars => MemoryInv'
<1> SUFFICES ASSUME MemoryInv, [\E t \in Users : MemoryNext(t)]_memVars
             PROVE  MemoryInv'
  OBVIOUS
<1>1. /\ ByteSize \in Nat \ {0} /\ Byte = 0 .. ByteSize - 1
      /\ WordSize = ByteSize * ByteSize /\ WordSize \in Nat
  BY ByteAssumption DEF Byte, WordSize
<1>2. PICK l \in Byte : l = word[Low]
  BY DEF MemoryInv, Halves
<1>3. PICK h \in Byte : h = word[High]
  BY DEF MemoryInv, Halves
<1>4. l + ByteSize * h \in 0 .. WordSize - 1
  BY <1>1, Digits
<1>5. ASSUME NEW t \in Users, ReadCell(t)
      PROVE  MemoryInv'
  <2>1. Fetch(t) \in 0 .. WordSize - 1
    <3>1. CASE width[t] = "byte"
      <4>1. word[ByteOf(t)] \in 0 .. ByteSize - 1
        BY <1>1, Owners DEF MemoryInv
      <4>2. ByteSize <= WordSize
        BY <1>1
      <4> QED
        BY <1>1, <3>1, <4>1, <4>2 DEF Fetch
    <3>2. CASE width[t] # "byte"
      BY <1>2, <1>3, <1>4, <3>2 DEF Fetch
    <3> QED
      BY <3>1, <3>2
  <2> QED
    BY <1>5, <2>1 DEF ReadCell, MemoryInv, Fetch, BytesAreTheirOwners
<1>6. ASSUME NEW t \in Users, Missed(t), UNCHANGED width
      PROVE  MemoryInv'
  BY <1>6 DEF Missed, MemoryInv, BytesAreTheirOwners
<1>7. ASSUME NEW t \in Users, NEW b \in Halves, t = Owner[b],
             got' = [got EXCEPT ![t] = NoCell], Told(t), UNCHANGED width,
             word' \in [Halves -> Byte], word'[b] = (word[b] + 1) % ByteSize,
             \A a \in Halves : a # b => word'[a] = word[a]
      PROVE  MemoryInv'
  <2>1. got' \in [Users -> {NoCell} \cup (0 .. WordSize - 1)]
    BY <1>7 DEF MemoryInv
  <2>2. told' = [told EXCEPT ![t] = (told[t] + 1) % ByteSize]
    BY <1>7 DEF Told
  <2>3. (told[t] + 1) % ByteSize \in Byte
    BY <1>1 DEF MemoryInv
  <2>4. told' \in [Users -> Byte]
    BY <2>2, <2>3 DEF MemoryInv
  <2>5. ASSUME NEW u \in Users, width'[u] = "byte", got'[u] # NoCell
        PROVE  got'[u] = word'[ByteOf(u)]
    <3>1. u # t
      BY <1>7, <2>5 DEF MemoryInv
    <3>2. ByteOf(u) \in Halves /\ ByteOf(u) # b
      BY <1>7, <3>1, Owners
    <3> QED
      BY <1>7, <2>5, <3>1, <3>2 DEF MemoryInv
  <2>6. ASSUME NEW a \in Halves
        PROVE  word'[a] = told'[Owner[a]]
    <3>1. Owner[a] \in Users /\ (a # b => Owner[a] # t) /\ told[Owner[a]] = word[a]
      BY <1>7, Owners DEF MemoryInv, BytesAreTheirOwners, Halves
    <3> QED
      BY <1>7, <2>2, <3>1 DEF MemoryInv
  <2> QED
    BY <1>7, <2>1, <2>4, <2>5, <2>6 DEF MemoryInv, BytesAreTheirOwners, Halves, ByteOf
<1>8. ASSUME NEW t \in Users, WriteByte(t)
      PROVE  MemoryInv'
  <2>1. CASE Missed(t)
    BY <1>6, <1>8, <2>1 DEF WriteByte
  <2>2. CASE ~Missed(t)
    <3>1. PICK b \in Halves : b = ByteOf(t) /\ t = Owner[b]
      BY Owners
    <3>2. got[t] = word[b] /\ word[b] \in Byte
      BY <1>8, <3>1 DEF WriteByte, MemoryInv
    <3>3. /\ word' = [word EXCEPT ![b] = (word[b] + 1) % ByteSize]
          /\ got' = [got EXCEPT ![t] = NoCell] /\ Told(t) /\ UNCHANGED width
      BY <1>8, <2>2, <3>1, <3>2 DEF WriteByte, Truncated
    <3>4. (word[b] + 1) % ByteSize \in Byte
      BY <1>1, <3>2
    <3>5. /\ word' \in [Halves -> Byte] /\ word'[b] = (word[b] + 1) % ByteSize
          /\ \A a \in Halves : a # b => word'[a] = word[a]
      BY <3>3, <3>4 DEF MemoryInv
    <3> QED
      BY <1>7, <3>1, <3>3, <3>5
  <2> QED
    BY <2>1, <2>2
<1>9. ASSUME NEW t \in Users, Cmpxchg(t)
      PROVE  MemoryInv'
  <2>1. CASE Missed(t)
    BY <1>6, <1>9, <2>1 DEF Cmpxchg
  <2>2. CASE Exchange(t)
    <3>1. PICK v \in 0 .. WordSize - 1 : v = got[t]
      BY <1>9 DEF Cmpxchg, MemoryInv
    <3>2. Before = Signed(v, WordSize) <=> v = l + ByteSize * h
      BY <1>1, <1>2, <1>3, <1>4, SignedApart DEF Before
    <3>3. CASE v = l + ByteSize * h
      <4>1. /\ word' = Spread(Truncated(Bumped(t, v), WordSize))
            /\ got' = [got EXCEPT ![t] = NoCell] /\ Told(t) /\ UNCHANGED width
        BY <1>9, <2>2, <3>1, <3>2, <3>3 DEF Exchange, Comparand, Cmpxchg
      <4>2. /\ word' \in [Halves -> Byte]
            /\ t = Owner[Low] => word'[Low] = (l + 1) % ByteSize /\ word'[High] = h
            /\ t = Owner[High] => word'[Low] = l /\ word'[High] = (h + 1) % ByteSize
        BY <3>3, <4>1, ByteBumped
      <4>3. PICK b \in Halves : t = Owner[b]
        BY DEF Users, Halves
      <4> QED
        BY <1>2, <1>3, <1>7, <4>1, <4>2, <4>3 DEF Halves
    <3>4. CASE v # l + ByteSize * h
      BY <1>6, <1>9, <2>2, <3>1, <3>2, <3>4
         DEF Exchange, Comparand, Missed, Cmpxchg
    <3> QED
      BY <3>3, <3>4
  <2> QED
    BY <1>9, <2>1, <2>2 DEF Cmpxchg
<1>10. CASE UNCHANGED memVars
  BY <1>10 DEF memVars, MemoryInv, BytesAreTheirOwners
<1> QED
  BY <1>5, <1>8, <1>9, <1>10 DEF MemoryNext

(***************************************************************************)
(* Two VMs that count in adjacent bytes of one word, each with             *)
(* virtual_read and virtual_write of a byte or with virtual_cmpxchg of the *)
(* word, never lose or invent a count, at any width of a byte.             *)
(***************************************************************************)
THEOREM NoWriteIsLost == MemorySpec => []BytesAreTheirOwners
<1>1. MemoryInv => BytesAreTheirOwners
  BY DEF MemoryInv
<1> QED
  BY <1>1, MemoryInitially, MemoryPreserved, PTL DEF MemorySpec

-----------------------------------------------------------------------------
(***************************************************************************)
(* Affinity.  Where a thread runs after the first n of its sets, unless it *)
(* is astray; a set that succeeded has kept where the thread ran before,   *)
(* which is never zeros.                                                   *)
(***************************************************************************)
RunsAfter(s, n, a) ==
  \/ a = UserAffinity /\ \A i \in 1 .. n : ~s[i].ok
  \/ \E i \in 1 .. n : /\ s[i].ok /\ a = On(ProcessorNumber(s[i].which))
                       /\ \A j \in i + 1 .. n : ~s[j].ok

Asked == 0 .. 2 * U32 - 1
Somewhere == {UserAffinity} \cup {On(ProcessorNumber(w)) : w \in Asked}
SetCall == [which : Asked, ok : BOOLEAN, old : Somewhere \cup {NoAffinity},
            astray : BOOLEAN]

\* Of a thread whose sets are s, at a, astray if lost.
Follows(s, a, lost) ==
  /\ ~lost => RunsAfter(s, Len(s), a)
  /\ \A i \in 1 .. Len(s) :
       s[i].ok => /\ s[i].old # NoAffinity
                  /\ ~s[i].astray => RunsAfter(s, i - 1, s[i].old)

AffinityInv ==
  /\ affinity \in [Movers -> Somewhere]
  /\ sets \in [Movers -> Seq(SetCall)]
  /\ arrays \subseteq Somewhere \cup {NoAffinity}
  /\ \A t \in Movers : Follows(sets[t], affinity[t], t \in astray)

\* No thread runs on no processor.
LEMMA ZerosAreNowhere == NoAffinity \notin Somewhere
<1>1. NoAffinity.mask = {} /\ UserAffinity.mask # {}
  BY ProcessorsAssumption DEF NoAffinity
<1>2. \A w \in Asked : On(ProcessorNumber(w)).mask # {}
  BY DEF On
<1> QED
  BY <1>1, <1>2 DEF Somewhere

\* Only the sets up to n count.
LEMMA SamePrefix ==
  ASSUME NEW s, NEW r, NEW n \in Nat, NEW a, RunsAfter(s, n, a),
         \A i \in 1 .. n : r[i] = s[i]
  PROVE  RunsAfter(r, n, a)
<1>1. CASE a = UserAffinity /\ \A i \in 1 .. n : ~s[i].ok
  BY <1>1 DEF RunsAfter
<1>2. CASE \E i \in 1 .. n : /\ s[i].ok /\ a = On(ProcessorNumber(s[i].which))
                             /\ \A j \in i + 1 .. n : ~s[j].ok
  <2>1. PICK i \in 1 .. n : /\ s[i].ok /\ a = On(ProcessorNumber(s[i].which))
                            /\ \A j \in i + 1 .. n : ~s[j].ok
    BY <1>2
  <2>2. \A j \in i + 1 .. n : j \in 1 .. n
    OBVIOUS
  <2> QED
    BY <2>1, <2>2 DEF RunsAfter
<1> QED
  BY <1>1, <1>2 DEF RunsAfter

LEMMA AffinityInitially == AffinityInit => AffinityInv
<1> SUFFICES ASSUME AffinityInit PROVE AffinityInv
  OBVIOUS
<1>1. \A t \in Movers : sets[t] = <<>> /\ affinity[t] = UserAffinity
  BY DEF AffinityInit
<1>2. \A t \in Movers : Len(sets[t]) = 0
  BY <1>1
<1>3. \A t \in Movers : RunsAfter(sets[t], 0, affinity[t])
  BY <1>1 DEF RunsAfter
<1>4. affinity \in [Movers -> Somewhere] /\ sets \in [Movers -> Seq(SetCall)]
  BY EmptySeq DEF AffinityInit, Somewhere
<1>5. arrays \subseteq Somewhere \cup {NoAffinity}
  BY DEF AffinityInit
<1> QED
  BY <1>2, <1>3, <1>4, <1>5 DEF AffinityInv, Follows

\* One more set c, after which the thread is at b.
LEMMA FollowsLonger ==
  ASSUME NEW s \in Seq(SetCall), NEW c \in SetCall, NEW a, NEW b, NEW lost, NEW now,
         Follows(s, a, lost),
         \/ /\ c.ok /\ b = On(ProcessorNumber(c.which))
            /\ c.old = a /\ a # NoAffinity /\ c.astray = lost
         \/ ~c.ok /\ b = a /\ now = lost
  PROVE  Follows(Append(s, c), b, now)
<1>1. PICK r : r = Append(s, c)
  OBVIOUS
<1>2. /\ Len(s) \in Nat /\ Len(r) = Len(s) + 1 /\ r[Len(s) + 1] = c
      /\ \A i \in 1 .. Len(s) : r[i] = s[i]
  BY <1>1, AppendProperties, LenProperties
<1>3. ~lost => RunsAfter(r, Len(s), a)
  BY <1>2, SamePrefix DEF Follows
<1>4. ~now => RunsAfter(r, Len(s) + 1, b)
  <2>1. CASE c.ok
    <3>1. Len(s) + 1 \in 1 .. Len(s) + 1 /\ b = On(ProcessorNumber(c.which))
      BY <1>2, <2>1
    <3>2. \A j \in (Len(s) + 1) + 1 .. Len(s) + 1 : FALSE
      BY <1>2
    <3> QED
      BY <1>2, <2>1, <3>1, <3>2 DEF RunsAfter
  <2>2. CASE ~c.ok
    BY <1>2, <1>3, <2>2 DEF RunsAfter
  <2> QED
    BY <2>1, <2>2
<1>5. ASSUME NEW i \in 1 .. Len(r), r[i].ok
      PROVE  /\ r[i].old # NoAffinity
             /\ ~r[i].astray => RunsAfter(r, i - 1, r[i].old)
  <2>1. CASE i = Len(s) + 1
    <3>1. r[i] = c /\ i - 1 = Len(s)
      BY <1>2, <2>1
    <3> QED
      BY <1>3, <1>5, <3>1
  <2>2. CASE i # Len(s) + 1
    <3>1. i \in 1 .. Len(s) /\ i - 1 \in Nat /\ \A j \in 1 .. i - 1 : r[j] = s[j]
      BY <1>2, <2>2
    <3> QED
      BY <1>2, <1>5, <3>1, SamePrefix DEF Follows
  <2> QED
    BY <2>1, <2>2
<1> QED
  BY <1>1, <1>2, <1>4, <1>5 DEF Follows

\* The last set of s restored, after which the thread is at b.
LEMMA FollowsShorter ==
  ASSUME NEW s \in Seq(SetCall), NEW n \in Nat, Len(s) = n + 1,
         NEW a, NEW b, NEW lost, NEW now,
         Follows(s, a, lost),
         ~now => \/ s[n + 1].ok /\ ~s[n + 1].astray /\ b = s[n + 1].old
                 \/ ~s[n + 1].ok /\ b = a /\ ~lost
  PROVE  Follows(SubSeq(s, 1, n), b, now)
<1>1. PICK r : r = SubSeq(s, 1, n)
  OBVIOUS
<1>2. Len(r) = n /\ \A i \in 1 .. n : r[i] = s[i]
  BY <1>1, SubSeqProperties
<1>3. n + 1 \in 1 .. Len(s) /\ (n + 1) - 1 = n
  OBVIOUS
<1>4. ASSUME ~now PROVE RunsAfter(r, n, b)
  <2>1. RunsAfter(s, n, b)
    <3>1. CASE s[n + 1].ok /\ ~s[n + 1].astray /\ b = s[n + 1].old
      BY <1>3, <3>1 DEF Follows
    <3>2. CASE ~s[n + 1].ok /\ b = a /\ ~lost
      <4>1. RunsAfter(s, n + 1, b)
        BY <3>2 DEF Follows
      <4>2. CASE b = UserAffinity /\ \A i \in 1 .. n + 1 : ~s[i].ok
        BY <4>2 DEF RunsAfter
      <4>3. CASE \E i \in 1 .. n + 1 :
                   /\ s[i].ok /\ b = On(ProcessorNumber(s[i].which))
                   /\ \A j \in i + 1 .. n + 1 : ~s[j].ok
        <5>1. PICK i \in 1 .. n + 1 :
                /\ s[i].ok /\ b = On(ProcessorNumber(s[i].which))
                /\ \A j \in i + 1 .. n + 1 : ~s[j].ok
          BY <4>3
        <5>2. i \in 1 .. n
          BY <3>2, <5>1
        <5>3. \A j \in i + 1 .. n : ~s[j].ok
          BY <5>1
        <5> QED
          BY <5>1, <5>2, <5>3 DEF RunsAfter
      <4> QED
        BY <4>1, <4>2, <4>3 DEF RunsAfter
    <3> QED
      BY <1>4, <3>1, <3>2
  <2> QED
    BY <1>2, <2>1, SamePrefix
<1>5. ASSUME NEW i \in 1 .. n, r[i].ok
      PROVE  /\ r[i].old # NoAffinity
             /\ ~r[i].astray => RunsAfter(r, i - 1, r[i].old)
  <2>1. i \in 1 .. Len(s) /\ i - 1 \in Nat /\ \A j \in 1 .. i - 1 : r[j] = s[j]
    BY <1>2
  <2> QED
    BY <1>2, <1>5, <2>1, SamePrefix DEF Follows
<1> QED
  BY <1>1, <1>2, <1>4, <1>5 DEF Follows

\* A step of one thread, which takes its sets to r and itself to b.
LEMMA OneThreadMoves ==
  ASSUME AffinityInv, NEW t \in Movers, NEW r \in Seq(SetCall), NEW b \in Somewhere,
         sets' = [sets EXCEPT ![t] = r], affinity' = [affinity EXCEPT ![t] = b],
         \A u \in Movers : u # t => (u \in astray' <=> u \in astray),
         arrays' \subseteq Somewhere \cup {NoAffinity},
         Follows(r, b, t \in astray')
  PROVE  AffinityInv'
<1>1. /\ affinity'[t] = b /\ sets'[t] = r
      /\ \A u \in Movers : u # t => affinity'[u] = affinity[u] /\ sets'[u] = sets[u]
  BY DEF AffinityInv
<1>2. affinity' \in [Movers -> Somewhere] /\ sets' \in [Movers -> Seq(SetCall)]
  BY DEF AffinityInv
<1>3. ASSUME NEW u \in Movers
      PROVE  Follows(sets'[u], affinity'[u], u \in astray')
  <2>1. CASE u = t
    BY <1>1, <2>1
  <2>2. CASE u # t
    BY <1>1, <2>2 DEF AffinityInv, Follows
  <2> QED
    BY <2>1, <2>2
<1> QED
  BY <1>2, <1>3 DEF AffinityInv, Follows, RunsAfter

\* cpu_set_affinity: one more set, and the thread where it says.
LEMMA SetStep ==
  ASSUME AffinityInv, NEW t \in Movers, NEW which \in Asked,
         cpu_set_affinity(t, which)
  PROVE  AffinityInv'
<1>1. PICK s : s = sets[t]
  OBVIOUS
<1>2. PICK a : a = affinity[t]
  OBVIOUS
<1>3. /\ s \in Seq(SetCall) /\ a \in Somewhere /\ a # NoAffinity
      /\ Follows(s, a, t \in astray) /\ (t \in astray) \in BOOLEAN
  BY <1>1, <1>2, ZerosAreNowhere DEF AffinityInv
<1>4. affinity = [affinity EXCEPT ![t] = a]
  BY <1>2 DEF AffinityInv
<1>5. PICK c \in SetCall, b \in Somewhere :
        /\ sets' = [sets EXCEPT ![t] = Append(s, c)]
        /\ affinity' = [affinity EXCEPT ![t] = b]
        /\ \/ /\ c.ok /\ b = On(ProcessorNumber(c.which))
              /\ c.old = a /\ c.astray = (t \in astray)
           \/ ~c.ok /\ b = a /\ (t \in astray') = (t \in astray)
        /\ \A u \in Movers : u # t => (u \in astray' <=> u \in astray)
        /\ arrays' \subseteq Somewhere \cup {NoAffinity}
  <2>1. CASE /\ affinity' = [affinity EXCEPT ![t] = On(ProcessorNumber(which))]
             /\ Push(t, which, TRUE, affinity[t])
             /\ astray' = astray \ {t} /\ arrays' = arrays \cup {affinity[t]}
    <3>1. PICK c : c = [which |-> which, ok |-> TRUE, old |-> a,
                        astray |-> t \in astray]
      OBVIOUS
    <3>2. c \in SetCall /\ On(ProcessorNumber(which)) \in Somewhere
      BY <1>3, <3>1 DEF SetCall, Somewhere
    <3>3. sets' = [sets EXCEPT ![t] = Append(s, c)]
      BY <1>1, <1>2, <2>1, <3>1 DEF Push
    <3>4. arrays' \subseteq Somewhere \cup {NoAffinity}
      BY <1>2, <1>3, <2>1 DEF AffinityInv
    <3> QED
      BY <2>1, <3>1, <3>2, <3>3, <3>4
  <2>2. CASE \E old \in Somewhere \cup {NoAffinity} :
               /\ Push(t, which, FALSE, old)
               /\ UNCHANGED <<affinity, astray, arrays>>
    <3>0. PICK old \in Somewhere \cup {NoAffinity} :
            Push(t, which, FALSE, old) /\ UNCHANGED <<affinity, astray, arrays>>
      BY <2>2
    <3>1. PICK c : c = [which |-> which, ok |-> FALSE, old |-> old,
                        astray |-> t \in astray]
      OBVIOUS
    <3>2. c \in SetCall
      BY <3>1 DEF SetCall
    <3>3. sets' = [sets EXCEPT ![t] = Append(s, c)]
      BY <1>1, <3>0, <3>1 DEF Push
    <3> QED
      BY <1>3, <1>4, <3>0, <3>1, <3>2, <3>3 DEF AffinityInv
  <2> QED
    BY <2>1, <2>2 DEF cpu_set_affinity, AffinityInv
<1>6. Follows(Append(s, c), b, t \in astray')
  BY <1>3, <1>5, FollowsLonger
<1>7. Append(s, c) \in Seq(SetCall)
  BY <1>3, AppendProperties
<1> QED
  BY <1>5, <1>6, <1>7, OneThreadMoves

\* cpu_restore_affinity: one set less, and the thread where it was before.
LEMMA RestoreStep ==
  ASSUME AffinityInv, NEW t \in Movers, cpu_restore_affinity(t)
  PROVE  AffinityInv'
<1>1. PICK s : s = sets[t]
  OBVIOUS
<1>2. PICK a : a = affinity[t]
  OBVIOUS
<1>3. /\ s \in Seq(SetCall) /\ Len(s) \in Nat /\ a \in Somewhere /\ s # <<>>
      /\ Follows(s, a, t \in astray)
  BY <1>1, <1>2, LenProperties DEF AffinityInv, cpu_restore_affinity
<1>4. PICK n \in Nat : n = Len(s) - 1
  BY <1>3, EmptySeq
<1>5. n + 1 \in 1 .. Len(s) /\ Len(s) = n + 1 /\ s[n + 1] \in SetCall
  BY <1>3, <1>4, ElementOfSeq
<1>6. PICK c \in SetCall : c = s[n + 1] /\ c = sets[t][Len(sets[t])]
  BY <1>1, <1>5
<1>7. PICK b : b = IF c.old = NoAffinity THEN a ELSE c.old
  OBVIOUS
<1>8. b \in Somewhere
  BY <1>3, <1>6, <1>7 DEF SetCall
<1>9. /\ affinity' = [affinity EXCEPT ![t] = b]
      /\ sets' = [sets EXCEPT ![t] = SubSeq(s, 1, n)]
  <2>1. SubSeq(sets[t], 1, Len(sets[t]) - 1) = SubSeq(s, 1, n)
    BY <1>1, <1>4
  <2>2. sets' = [sets EXCEPT ![t] = SubSeq(s, 1, n)]
    BY <2>1 DEF cpu_restore_affinity
  <2>3. affinity = [affinity EXCEPT ![t] = a]
    BY <1>2 DEF AffinityInv
  <2> QED
    BY <1>6, <1>7, <2>2, <2>3 DEF cpu_restore_affinity, Restorable, Revert
<1>10. /\ astray' = IF c.old = NoAffinity THEN astray
                    ELSE IF c.ok /\ ~c.astray THEN astray \ {t}
                    ELSE astray \cup {t}
       /\ arrays' = arrays
  BY <1>6 DEF cpu_restore_affinity, Strays
<1>11. c.ok => c.old # NoAffinity
  BY <1>3, <1>5, <1>6 DEF Follows
<1>12. ~(t \in astray') => \/ c.ok /\ ~c.astray /\ b = c.old
                           \/ ~c.ok /\ b = a /\ ~(t \in astray)
  <2>1. CASE c.old = NoAffinity
    BY <1>7, <1>10, <1>11, <2>1
  <2>2. CASE c.old # NoAffinity /\ c.ok /\ ~c.astray
    BY <1>7, <2>2
  <2>3. CASE c.old # NoAffinity /\ ~(c.ok /\ ~c.astray)
    BY <1>10, <2>3
  <2> QED
    BY <2>1, <2>2, <2>3
<1>13. Follows(SubSeq(s, 1, n), b, t \in astray')
  BY <1>3, <1>5, <1>6, <1>12, FollowsShorter
<1>14. SubSeq(s, 1, n) \in Seq(SetCall)
  BY <1>3, <1>4, <1>5, SubSeqProperties
<1>15. \A u \in Movers : u # t => (u \in astray' <=> u \in astray)
  BY <1>10
<1>16. arrays' \subseteq Somewhere \cup {NoAffinity}
  BY <1>10 DEF AffinityInv
<1> QED
  BY <1>8, <1>9, <1>13, <1>14, <1>15, <1>16, OneThreadMoves

LEMMA AffinityPreserved ==
  AffinityInv /\ [\E t \in Movers : AffinityNext(t)]_affinityVars => AffinityInv'
<1> SUFFICES ASSUME AffinityInv,
                    [\E t \in Movers : AffinityNext(t)]_affinityVars
             PROVE  AffinityInv'
  OBVIOUS
<1>1. CASE \E t \in Movers : AffinityNext(t)
  BY <1>1, SetStep, RestoreStep DEF AffinityNext, Asked
<1>2. CASE UNCHANGED affinityVars
  <2>1. /\ affinity' = affinity /\ sets' = sets
        /\ astray' = astray /\ arrays' = arrays
    BY <1>2 DEF affinityVars
  <2>2. ASSUME NEW t \in Movers
        PROVE  Follows(sets'[t], affinity'[t], t \in astray')
    BY <2>1 DEF AffinityInv, Follows
  <2> QED
    BY <2>1, <2>2 DEF AffinityInv, Follows, RunsAfter
<1> QED
  BY <1>1, <1>2

(***************************************************************************)
(* However deep the pairs of cpu_set_affinity and cpu_restore_affinity of  *)
(* a module nest, and whichever of the sets fail, the thread is where the  *)
(* innermost set that succeeded put it, unless it is astray: moved last by *)
(* a restore of what a failed set had left in an array in use.             *)
(***************************************************************************)
THEOREM RestoreUndoesItsSet == AffinitySpec => []AffinityFollowsSets
<1>1. AffinityInv => AffinityFollowsSets
  <2> SUFFICES ASSUME AffinityInv, NEW t \in Movers \ astray
               PROVE  affinity[t] =
                        IF Succeeded(t) = {} THEN UserAffinity
                        ELSE LET last == CHOOSE i \in Succeeded(t) :
                                           \A j \in Succeeded(t) : j <= i
                             IN  On(ProcessorNumber(sets[t][last].which))
    BY DEF AffinityFollowsSets
  <2>1. /\ RunsAfter(sets[t], Len(sets[t]), affinity[t])
        /\ Len(sets[t]) \in Nat /\ DOMAIN sets[t] = 1 .. Len(sets[t])
    BY LenProperties DEF AffinityInv, Follows
  <2>2. CASE \A i \in 1 .. Len(sets[t]) : ~sets[t][i].ok
    BY <2>1, <2>2 DEF RunsAfter, Succeeded
  <2>3. CASE ~ \A i \in 1 .. Len(sets[t]) : ~sets[t][i].ok
    <3>1. PICK i \in 1 .. Len(sets[t]) :
            /\ sets[t][i].ok
            /\ affinity[t] = On(ProcessorNumber(sets[t][i].which))
            /\ \A j \in i + 1 .. Len(sets[t]) : ~sets[t][j].ok
      BY <2>1, <2>3 DEF RunsAfter
    <3>2. i \in Succeeded(t) /\ \A j \in Succeeded(t) : j <= i
      BY <2>1, <3>1 DEF Succeeded
    <3>3. \A k \in Succeeded(t) : (\A j \in Succeeded(t) : j <= k) => k = i
      BY <2>1, <3>2 DEF Succeeded
    <3>4. i = CHOOSE k \in Succeeded(t) : \A j \in Succeeded(t) : j <= k
      BY <3>2, <3>3
    <3> QED
      BY <3>1, <3>2, <3>4
  <2> QED
    BY <2>2, <2>3
<1> QED
  BY <1>1, AffinityInitially, AffinityPreserved, PTL DEF AffinitySpec

-----------------------------------------------------------------------------
(***************************************************************************)
(* PciConfig.  A call under way has taken note of the device as it is now, *)
(* and one that got past the probe has seen it; what was in the buffer     *)
(* when the call returned says what the status may be.                     *)
(***************************************************************************)
PciCall ==
  [at : {"probe", "transfer", "returned"}, direction : Directions,
   offset : Nat, length : Lengths,
   status : {"none", "SUCCESS", "NOT_FOUND", "DOES_NOT_EXIST", "UNSUCCESSFUL"},
   real : Nat, ones : Nat, seen : BOOLEAN, gone : BOOLEAN]

Attentive(c) ==
  /\ present => c.seen
  /\ ~present => c.gone

ToldTruly(c) ==
  /\ c.status = "SUCCESS" =>
       /\ c.seen
       /\ \/ c.real = c.length
          \/ c.direction = "read" /\ c.ones = 2 /\ c.length = 2 /\ c.gone
  /\ c.status = "DOES_NOT_EXIST" => c.gone \/ (c.real = 2 /\ c.length > 2)

PciInv ==
  /\ present \in BOOLEAN /\ bus \in BOOLEAN
  /\ pci \in [PciThreads -> PciCall \cup {NoRequest}]
  /\ \A t \in PciThreads :
       /\ pci[t].at \in {"probe", "transfer"} => Attentive(pci[t])
       /\ pci[t].at = "transfer" => pci[t].seen
       /\ pci[t].at = "returned" => ToldTruly(pci[t])

LEMMA PciInitially == PciInit => PciInv
BY DEF PciInit, PciInv, NoRequest

\* A step of one thread leaves the calls of the others as they were.
LEMMA OneCallChanges ==
  ASSUME PciInv, NEW t \in PciThreads, NEW c \in PciCall \cup {NoRequest},
         pci' = [pci EXCEPT ![t] = c], UNCHANGED <<present, bus>>,
         c.at \in {"probe", "transfer"} => Attentive(c),
         c.at = "transfer" => c.seen,
         c.at = "returned" => ToldTruly(c)
  PROVE  PciInv'
BY DEF PciInv, Attentive, ToldTruly

\* A transfer: the status of HalGetBusDataByOffset or HalSetBusDataByOffset.
LEMMA TransferTells ==
  ASSUME PciInv, NEW c \in PciCall, Attentive(c), c.seen, NEW s,
         s = IF c.direction = "read" THEN ReadStatus(c) ELSE WriteStatus(c),
         NEW d, d = [Buffered(c) EXCEPT !.at = "returned", !.status = s]
  PROVE  d \in PciCall /\ d.at = "returned" /\ ToldTruly(d)
<1>1. /\ c.length \in {1, 2, 4, 8} /\ c.offset \in Nat /\ ConfigSize \in Nat
      /\ c.direction \in {"read", "write"} /\ c.real \in Nat /\ c.ones \in Nat
  BY OffsetsAssumption DEF PciCall, Lengths, Directions
<1>2. PICK n \in Nat : n = InReach(c) /\ n <= c.length
  BY <1>1 DEF InReach, Lesser
<1>3. PICK m \in Nat : m = Lesser(c.length, 2) /\ (c.length = 2 => m = 2)
  BY <1>1 DEF Lesser
<1>4. s \in {"SUCCESS", "NOT_FOUND", "DOES_NOT_EXIST", "UNSUCCESSFUL"}
  BY DEF ReadStatus, WriteStatus
<1>5. CASE present
  <2>1. d = [c EXCEPT !.real = n, !.at = "returned", !.status = s]
    BY <1>2, <1>5 DEF Buffered, PciCall
  <2>2. /\ d \in PciCall /\ d.at = "returned" /\ d.status = s /\ d.real = n
        /\ d.seen /\ d.length = c.length
    BY <1>2, <1>4, <2>1 DEF PciCall
  <2>3. s = "SUCCESS" => n = c.length
    BY <1>2, <1>5 DEF ReadStatus, WriteStatus, HalGet, HalSet
  <2>4. s = "DOES_NOT_EXIST" => n = 2 /\ c.length > 2
    <3>1. s = "DOES_NOT_EXIST" => HalGet(c) = 2 /\ c.length # 2
      BY DEF ReadStatus, WriteStatus
    <3>2. HalGet(c) = n \/ HalGet(c) = 0
      BY <1>2, <1>5 DEF HalGet
    <3> QED
      BY <1>1, <1>2, <3>1, <3>2
  <2> QED
    BY <2>2, <2>3, <2>4 DEF ToldTruly
<1>6. CASE ~present
  <2>1. c.gone
    BY <1>6 DEF Attentive
  <2>2. PICK e \in PciCall : /\ e = Buffered(c) /\ e.gone /\ e.seen
                             /\ e.length = c.length /\ e.direction = c.direction
                             /\ bus /\ c.direction = "read" => e.ones = m
    <3>1. CASE bus /\ c.direction = "read"
      <4>1. PICK e : e = [c EXCEPT !.ones = m]
        OBVIOUS
      <4>2. /\ e \in PciCall /\ e.gone /\ e.seen /\ e.ones = m
            /\ e.length = c.length /\ e.direction = c.direction
        BY <2>1, <4>1 DEF PciCall
      <4> QED
        BY <1>3, <1>6, <3>1, <4>1, <4>2 DEF Buffered
    <3>2. CASE ~(bus /\ c.direction = "read")
      BY <1>6, <2>1, <3>2 DEF Buffered
    <3> QED
      BY <3>1, <3>2
  <2>3. /\ d \in PciCall /\ d.at = "returned" /\ d.status = s /\ d.gone /\ d.seen
        /\ d.length = c.length /\ d.direction = c.direction
        /\ bus /\ c.direction = "read" => d.ones = m
    BY <1>4, <2>2 DEF PciCall
  <2>4. s = "SUCCESS" => bus /\ c.direction = "read" /\ c.length = 2
    BY <1>1, <1>6 DEF ReadStatus, WriteStatus, HalGet, HalSet
  <2> QED
    BY <1>3, <2>3, <2>4 DEF ToldTruly
<1> QED
  BY <1>5, <1>6

LEMMA PciPreserved ==
  PciInv /\ [Plug \/ \E t \in PciThreads : PciNext(t)]_pciVars => PciInv'
<1> SUFFICES ASSUME PciInv, [Plug \/ \E t \in PciThreads : PciNext(t)]_pciVars
             PROVE  PciInv'
  OBVIOUS
<1>1. ASSUME NEW t \in PciThreads, pci[t].at \in {"probe", "transfer"}
      PROVE  pci[t] \in PciCall /\ Attentive(pci[t])
  BY <1>1 DEF PciInv, NoRequest
<1>2. ASSUME NEW t \in PciThreads, pci_config(t)
      PROVE  PciInv'
  <2>1. PICK direction \in Directions, offset \in Offsets, length \in Lengths :
          pci' = [pci EXCEPT ![t] = Request(direction, offset, length)]
    BY <1>2 DEF pci_config
  <2>2. PICK c : c = Request(direction, offset, length)
    OBVIOUS
  <2>3. c \in PciCall /\ c.at = "probe" /\ Attentive(c)
    BY <2>2, OffsetsAssumption DEF PciInv, Request, PciCall, Attentive
  <2> QED
    BY <1>2, <2>1, <2>2, <2>3, OneCallChanges DEF pci_config
<1>3. ASSUME NEW t \in PciThreads, Probe(t)
      PROVE  PciInv'
  <2>1. PICK c : c = pci[t]
    OBVIOUS
  <2>2. c \in PciCall /\ Attentive(c)
    BY <1>1, <1>3, <2>1 DEF Probe
  <2>3. CASE ~bus \/ ~present
    <3>1. PICK s \in {"NOT_FOUND", "DOES_NOT_EXIST"} :
            /\ pci' = [pci EXCEPT ![t] = [c EXCEPT !.at = "returned", !.status = s]]
            /\ s = "DOES_NOT_EXIST" => ~present
      BY <1>3, <2>1, <2>3 DEF Probe, Returned, Absent
    <3>2. PICK d : d = [c EXCEPT !.at = "returned", !.status = s]
      OBVIOUS
    <3>3. d \in PciCall /\ d.at = "returned" /\ d.status = s /\ d.gone = c.gone
      BY <2>2, <3>2 DEF PciCall
    <3>4. ToldTruly(d)
      BY <2>2, <3>1, <3>3 DEF ToldTruly, Attentive
    <3> QED
      BY <1>3, <3>1, <3>2, <3>3, <3>4, OneCallChanges DEF Probe
  <2>4. CASE bus /\ present
    <3>1. PICK d : d = [c EXCEPT !.at = "transfer"]
      OBVIOUS
    <3>2. d \in PciCall /\ d.at = "transfer" /\ d.seen /\ Attentive(d)
      BY <2>2, <2>4, <3>1 DEF PciCall, Attentive
    <3>3. pci' = [pci EXCEPT ![t] = d]
      BY <1>3, <2>1, <2>4, <3>1 DEF Probe, Absent
    <3> QED
      BY <1>3, <3>2, <3>3, OneCallChanges DEF Probe
  <2> QED
    BY <2>3, <2>4
<1>4. ASSUME NEW t \in PciThreads, Transfer(t)
      PROVE  PciInv'
  <2>1. PICK c : c = pci[t]
    OBVIOUS
  <2>2. c \in PciCall /\ Attentive(c) /\ c.seen
    BY <1>1, <1>4, <2>1 DEF Transfer, PciInv
  <2>3. PICK s : s = IF c.direction = "read" THEN ReadStatus(c) ELSE WriteStatus(c)
    OBVIOUS
  <2>4. PICK d : d = [Buffered(c) EXCEPT !.at = "returned", !.status = s]
    OBVIOUS
  <2>5. d \in PciCall /\ d.at = "returned" /\ ToldTruly(d)
    BY <2>2, <2>3, <2>4, TransferTells
  <2>6. pci' = [pci EXCEPT ![t] = d] /\ UNCHANGED <<present, bus>>
    BY <1>4, <2>1, <2>3, <2>4 DEF Transfer, Returned
  <2> QED
    BY <2>5, <2>6, OneCallChanges
<1>5. ASSUME NEW t \in PciThreads, Reply(t)
      PROVE  PciInv'
  <2>1. PICK d : d = NoRequest
    OBVIOUS
  <2>2. d.at = "idle" /\ d \in PciCall \cup {NoRequest}
    BY <2>1 DEF NoRequest
  <2> QED
    BY <1>5, <2>1, <2>2, OneCallChanges DEF Reply
<1>6. CASE Plug
  <2>1. ASSUME NEW t \in PciThreads, pci[t].at \in {"probe", "transfer"}
        PROVE  /\ pci'[t] \in PciCall /\ pci'[t].at = pci[t].at
               /\ pci[t].seen => pci'[t].seen
               /\ Attentive(pci[t])'
    <3>1. pci[t] \in PciCall
      BY <1>1, <2>1
    <3>2. CASE present
      <4>1. pci'[t] = [pci[t] EXCEPT !.gone = TRUE] /\ ~present'
        BY <1>6, <2>1, <3>2 DEF Plug
      <4> QED
        BY <3>1, <4>1 DEF PciCall, Attentive
    <3>3. CASE ~present
      <4>1. pci'[t] = [pci[t] EXCEPT !.seen = TRUE] /\ present'
        BY <1>6, <2>1, <3>3 DEF Plug
      <4> QED
        BY <3>1, <4>1 DEF PciCall, Attentive
    <3> QED
      BY <3>2, <3>3
  <2>2. ASSUME NEW t \in PciThreads, pci[t].at \notin {"probe", "transfer"}
        PROVE  pci'[t] = pci[t]
    BY <1>6, <2>2 DEF Plug
  <2>3. pci' \in [PciThreads -> PciCall \cup {NoRequest}]
    <3>1. \A t \in PciThreads : pci'[t] \in PciCall \cup {NoRequest}
      BY <2>1, <2>2 DEF PciInv
    <3>2. pci' = [t \in PciThreads |-> pci'[t]]
      BY <1>6 DEF Plug
    <3> QED
      BY <3>1, <3>2
  <2>4. present' \in BOOLEAN /\ bus' \in BOOLEAN
    BY <1>6 DEF Plug, PciInv
  <2>5. ASSUME NEW t \in PciThreads
        PROVE  /\ pci'[t].at \in {"probe", "transfer"} => Attentive(pci[t])'
               /\ pci'[t].at = "transfer" => pci'[t].seen
               /\ pci'[t].at = "returned" => ToldTruly(pci[t])'
    <3>1. CASE pci[t].at \in {"probe", "transfer"}
      BY <2>1, <3>1 DEF PciInv
    <3>2. CASE pci[t].at \notin {"probe", "transfer"}
      BY <2>2, <3>2 DEF PciInv, ToldTruly
    <3> QED
      BY <3>1, <3>2
  <2> QED
    BY <2>3, <2>4, <2>5 DEF PciInv
<1>7. CASE UNCHANGED pciVars
  BY <1>7 DEF pciVars, PciInv, Attentive, ToldTruly
<1> QED
  BY <1>2, <1>3, <1>4, <1>5, <1>6, <1>7 DEF PciNext

(***************************************************************************)
(* pci_config_read and pci_config_write tell a module nothing of a device  *)
(* that did not hold at some moment of the call, however often the device  *)
(* comes and goes between the probe and the transfer.                      *)
(***************************************************************************)
THEOREM StatusIsOfTheDevice == PciSpec => []ToldOfTheDevice
<1>1. PciInv => ToldOfTheDevice
  BY DEF PciInv, ToldOfTheDevice, ToldTruly
<1> QED
  BY <1>1, PciInitially, PciPreserved, PTL DEF PciSpec

-----------------------------------------------------------------------------
(***************************************************************************)
(* Registers.  The 64 stubs of _crdr lie in the order in which crdr_wrap   *)
(* counts them.                                                            *)
(***************************************************************************)
RegistersInv ==
  /\ cpu = named
  /\ DOMAIN cpu = Implemented
  /\ answer.value = answer.meant
  /\ stopped = None \/ stopped \in Register \ Implemented

LEMMA StubsInOrder ==
  ASSUME NEW idx \in Nat, NEW kind \in {"cr", "dr"}, NEW isWr \in BOOLEAN
  PROVE  LET stub == StubAt(Id(idx, kind = "cr", isWr)) IN
         RegisterOf(stub) = Named(kind, idx) /\ (Writes(stub) <=> isWr)
<1>1. PICK k \in 0 .. 15 : k = idx % 16
  OBVIOUS
<1>2. PICK b \in 0 .. 3 :
        b = (IF kind = "cr" THEN 1 ELSE 0) + 2 * (IF isWr THEN 1 ELSE 0)
  OBVIOUS
<1>3. Id(idx, kind = "cr", isWr) = k * 8 + b * 128
  BY <1>1, <1>2 DEF Id, Bit
<1>4. PICK n : n = b * 16 + k
  OBVIOUS
<1>5. ((k * 8 + b * 128) % 512) \div 8 = n
  BY <1>4
<1>6. PICK stub : stub = Stub(n)
  OBVIOUS
<1>7. StubAt(Id(idx, kind = "cr", isWr)) = stub
  BY <1>3, <1>5, <1>6 DEF StubAt
<1>8. /\ n \div 16 = b /\ n % 16 = k /\ n % 8 = k % 8 /\ (n >= 32 <=> b >= 2)
  BY <1>4
<1>9. /\ stub.opcode = Opcode[b + 1] /\ stub.rex = k \div 8
      /\ stub.operand = 192 + 8 * (k % 8) + 2 * (IF b >= 2 THEN 1 ELSE 0)
  BY <1>6, <1>8 DEF Stub, Bit
<1>10. (8 * stub.rex) + ((stub.operand \div 8) % 8) = k
  BY <1>9
<1>11. /\ stub.opcode \in {32, 34} <=> kind = "cr"
       /\ stub.opcode \in {34, 35} <=> isWr
  BY <1>2, <1>9 DEF Opcode
<1> QED
  BY <1>1, <1>7, <1>10, <1>11 DEF RegisterOf, Writes, Named

LEMMA RegistersInitially == RegistersInit => RegistersInv
BY DEF RegistersInit, RegistersInv, NoAnswer

LEMMA RegistersPreserved ==
  RegistersInv /\ [RegistersNext]_registerVars => RegistersInv'
<1> SUFFICES ASSUME RegistersInv, [RegistersNext]_registerVars
             PROVE  RegistersInv'
  OBVIOUS
<1>1. ASSUME NEW value, NEW idx \in Nat, NEW kind \in {"cr", "dr"},
             NEW isWr \in BOOLEAN, crdr_wrap(value, idx, kind, isWr)
      PROVE  RegistersInv'
  <2>1. PICK r : r = Named(kind, idx)
    OBVIOUS
  <2>2. r \in Register
    <3>1. idx % 16 \in 0 .. 15
      OBVIOUS
    <3> QED
      BY <2>1, <3>1 DEF Named, Register
  <2>3. PICK stub : stub = StubAt(Id(idx, kind = "cr", isWr))
    OBVIOUS
  <2>4. RegisterOf(stub) = r /\ (Writes(stub) <=> isWr)
    BY <2>1, <2>3, StubsInOrder
  <2>5. /\ stopped' = IF r \in Implemented THEN None ELSE r
        /\ cpu' = IF r \in Implemented /\ isWr THEN [cpu EXCEPT ![r] = value]
                  ELSE cpu
        /\ named' = IF r \in Implemented /\ isWr THEN [named EXCEPT ![r] = value]
                    ELSE named
        /\ answer' = IF {r, r} \subseteq Implemented /\ ~isWr
                       THEN [meant |-> named[r], value |-> cpu[r]] ELSE NoAnswer
    BY <1>1, <2>1, <2>3, <2>4 DEF crdr_wrap
  <2> QED
    BY <2>2, <2>5 DEF RegistersInv, NoAnswer
<1>2. CASE RegistersNext
  BY <1>1, <1>2, RegistersAssumption DEF RegistersNext
<1>3. CASE UNCHANGED registerVars
  BY <1>3 DEF registerVars, RegistersInv
<1> QED
  BY <1>2, <1>3

(***************************************************************************)
(* cr_read, cr_write, dr_read and dr_write reach the register, kind and    *)
(* direction they name through a computed jump, for any processor and any  *)
(* number a module passes.                                                 *)
(***************************************************************************)
THEOREM StubsAreNamed == RegistersSpec => []RegistersAsNamed
<1>1. RegistersInv => RegistersAsNamed
  <2>1. None \notin Implemented
    <3>1. None.kind \notin {"cr", "dr"}
      BY DEF None
    <3>2. \A r \in Implemented : r.kind \in {"cr", "dr"}
      BY RegistersAssumption DEF Register
    <3> QED
      BY <3>1, <3>2
  <2> QED
    BY <2>1 DEF RegistersInv, RegistersAsNamed
<1> QED
  BY <1>1, RegistersInitially, RegistersPreserved, PTL DEF RegistersSpec

-----------------------------------------------------------------------------
(***************************************************************************)
(* KernelCrt.  How far the loop of each function has come, which part of   *)
(* the memory it has written, and what it has not found so far.            *)
(***************************************************************************)
Memory == [CrtAddress -> 0 .. ByteRange - 1]

\* The bytes lo .. hi - 1 of the source are in the destination.
Part(f, dest, src, lo, hi) ==
  [a \in CrtAddress |-> IF dest + lo <= a /\ a < dest + hi
                         THEN f[src + a - dest] ELSE f[a]]
Filled(f, dest, value, n) ==
  [a \in CrtAddress |-> IF dest <= a /\ a < dest + n THEN value ELSE f[a]]

CrtCall ==
  [at : {"entry", "forward", "backward", "copied", "zeros", "returned"},
   fn : CrtFunctions, d : Int, s : Int, n : Int, dest : CrtAddress,
   src : CrtAddress, count : CrtAddress, found : Memory, ret : Int]

\* A turn of a loop, and a return.
Turn(c, at, d, s, n) == [c EXCEPT !.at = at, !.d = d, !.s = s, !.n = n]
Last(c, value) == [c EXCEPT !.at = "returned", !.ret = value]

\* Both pointers have gone i bytes.
Gone(c, i) == c.d = c.dest + i /\ c.s = c.src + i

MoveInv(c) ==
  LET i == c.count - c.n IN
  /\ InMemory(c.dest, c.count) /\ InMemory(c.src, c.count)
  /\ c.fn = "memcpy" => /\ Apart(c.dest, c.count, c.src, c.count)
                        /\ c.at \in {"entry", "returned"}
  /\ c.at \in {"entry", "forward", "backward"} => c.n \in 0 .. c.count
  /\ (c.fn = "memcpy" /\ c.at = "entry") \/ c.at = "forward" =>
       Gone(c, i) /\ bytes = Part(c.found, c.dest, c.src, 0, i)
  /\ c.at = "forward" => c.dest < c.src
  /\ c.fn = "memmove" /\ c.at = "entry" =>
       c.n = c.count /\ Gone(c, 0) /\ bytes = c.found
  /\ c.at = "backward" =>
       /\ Gone(c, c.n) /\ c.src < c.dest
       /\ bytes = Part(c.found, c.dest, c.src, c.n, c.count)
  /\ c.at = "returned" => bytes = Copied(c, c.count)

SetInv(c) ==
  LET i == c.count - c.n IN
  /\ InMemory(c.dest, c.count)
  /\ c.at = "entry" =>
       /\ c.n \in 0 .. c.count /\ c.d = c.dest + i /\ c.s = c.src
       /\ bytes = Filled(c.found, c.dest, c.src % ByteRange, i)
  /\ c.at = "returned" => bytes = SetTo(c)

CompareInv(c) ==
  LET i == c.count - c.n IN
  /\ InMemory(c.dest, c.count) /\ InMemory(c.src, c.count)
  /\ bytes = c.found
  /\ c.at = "entry" =>
       /\ c.n \in 0 .. c.count /\ Gone(c, i)
       /\ \A j \in 0 .. i - 1 : c.found[c.dest + j] = c.found[c.src + j]
  /\ c.at = "returned" => c.ret = Order(c, c.count)

\* No zero so far in the string at a.
NoZero(f, a, i) == \A j \in 0 .. i - 1 : f[a + j] # 0

LengthInv(c) ==
  /\ Terminated(c.found, c.src) /\ bytes = c.found
  /\ c.at = "entry" => \E i \in Nat : c.s = c.src + i /\ NoZero(c.found, c.src, i)
  /\ c.at = "returned" => c.ret = StringSize(c.found, c.src) - 1

StringsCompareInv(c) ==
  /\ Terminated(c.found, c.dest) /\ Terminated(c.found, c.src)
  /\ bytes = c.found
  /\ c.at = "entry" => \E i \in Nat :
       /\ Gone(c, i) /\ NoZero(c.found, c.dest, i)
       /\ \A j \in 0 .. i - 1 : c.found[c.dest + j] = c.found[c.src + j]
  /\ c.at = "returned" => Sign(c.ret) = Order(c, Shorter(c))

StringCopyInv(c) ==
  LET size == StringSize(c.found, c.src) IN
  /\ Terminated(c.found, c.src)
  /\ InMemory(c.dest, size) /\ Apart(c.dest, size, c.src, size)
  /\ c.at = "entry" => \E i \in Nat :
       /\ Gone(c, i) /\ NoZero(c.found, c.src, i)
       /\ bytes = Part(c.found, c.dest, c.src, 0, i)
  /\ c.at \in {"copied", "returned"} => bytes = Copied(c, size)

CallInv(c) ==
  /\ c.fn \in {"memcpy", "memmove"} => MoveInv(c)
  /\ c.fn = "memset" => SetInv(c)
  /\ c.fn = "memcmp" => CompareInv(c)
  /\ c.fn = "strlen" => LengthInv(c)
  /\ c.fn = "strcmp" => StringsCompareInv(c)
  /\ c.fn = "strcpy" => StringCopyInv(c)

CrtInv ==
  \/ crt = Quiet
  \/ /\ crt \in CrtCall
     /\ crt.fn # "strncpy" => bytes \in Memory /\ CallInv(crt)

-----------------------------------------------------------------------------
\* The empty part is no change, and a part from 0 is what C wants copied.
LEMMA Parts ==
  ASSUME NEW f \in Memory, NEW c, c.found = f, c.dest \in CrtAddress,
         c.src \in CrtAddress, NEW n \in Nat, NEW k \in Nat
  PROVE  /\ Part(f, c.dest, c.src, k, k) = f
         /\ Part(f, c.dest, c.src, 0, n) = Copied(c, n)
<1>1. c.dest \in Nat /\ \A a \in CrtAddress : a \in Nat
  BY MemoryAssumption DEF CrtAddress
<1>2. Part(f, c.dest, c.src, k, k) = [a \in CrtAddress |-> f[a]]
  BY <1>1 DEF Part
<1> QED
  BY <1>1, <1>2 DEF Part, Copied, Memory

\* A turn of a loop that goes up, and one of a loop that goes down.
LEMMA CopiesUp ==
  ASSUME NEW f \in Memory, NEW dest \in CrtAddress, NEW src \in CrtAddress,
         NEW i \in Nat, dest + i \in CrtAddress, src + i \in CrtAddress,
         src >= dest \/ src + i < dest, NEW m \in Memory,
         m = Part(f, dest, src, 0, i)
  PROVE  /\ [m EXCEPT ![dest + i] = m[src + i]] = Part(f, dest, src, 0, i + 1)
         /\ [m EXCEPT ![dest + i] = m[src + i]] \in Memory
<1>1. dest \in Nat /\ src \in Nat /\ \A a \in CrtAddress : a \in Nat
  BY MemoryAssumption DEF CrtAddress
<1>2. m[src + i] = f[src + i]
  <2>1. ~(dest + 0 <= src + i /\ src + i < dest + i) \/ src = dest
    BY <1>1
  <2> QED
    BY <1>1, <2>1 DEF Part
<1>3. m[src + i] \in 0 .. ByteRange - 1
  BY DEF Memory
<1>4. [m EXCEPT ![dest + i] = m[src + i]] \in Memory
  BY <1>3 DEF Memory
<1>5. ASSUME NEW a \in CrtAddress
      PROVE  [m EXCEPT ![dest + i] = m[src + i]][a]
               = Part(f, dest, src, 0, i + 1)[a]
  <2>1. CASE a = dest + i
    <3>1. src + a - dest = src + i
      BY <1>1, <2>1
    <3> QED
      BY <1>1, <1>2, <2>1, <3>1 DEF Part, Memory
  <2>2. CASE a # dest + i
    <3>1. [m EXCEPT ![dest + i] = m[src + i]][a] = m[a]
      BY <2>2 DEF Memory
    <3>2. (dest + 0 <= a /\ a < dest + (i + 1)) <=> (dest + 0 <= a /\ a < dest + i)
      BY <1>1, <2>2
    <3> QED
      BY <3>1, <3>2 DEF Part
  <2> QED
    BY <2>1, <2>2
<1> QED
  BY <1>4, <1>5 DEF Part, Memory

LEMMA CopiesDown ==
  ASSUME NEW f \in Memory, NEW dest \in CrtAddress, NEW src \in CrtAddress,
         NEW k \in Nat, NEW n \in Nat, k < n, NEW j \in Nat, j = k + 1,
         dest + k \in CrtAddress, src + k \in CrtAddress,
         src < dest, NEW m \in Memory, m = Part(f, dest, src, j, n)
  PROVE  /\ [m EXCEPT ![dest + k] = m[src + k]] = Part(f, dest, src, k, n)
         /\ [m EXCEPT ![dest + k] = m[src + k]] \in Memory
<1>1. dest \in Nat /\ src \in Nat /\ \A a \in CrtAddress : a \in Nat
  BY MemoryAssumption DEF CrtAddress
<1>2. m[src + k] = f[src + k]
  <2>1. ~(dest + (k + 1) <= src + k)
    BY <1>1
  <2> QED
    BY <1>1, <2>1 DEF Part
<1>3. m[src + k] \in 0 .. ByteRange - 1
  BY DEF Memory
<1>4. [m EXCEPT ![dest + k] = m[src + k]] \in Memory
  BY <1>3 DEF Memory
<1>5. ASSUME NEW a \in CrtAddress
      PROVE  [m EXCEPT ![dest + k] = m[src + k]][a] = Part(f, dest, src, k, n)[a]
  <2>1. CASE a = dest + k
    <3>1. src + a - dest = src + k /\ dest + k <= a /\ a < dest + n
      BY <1>1, <2>1
    <3> QED
      BY <1>1, <1>2, <2>1, <3>1 DEF Part, Memory
  <2>2. CASE a # dest + k
    <3>1. [m EXCEPT ![dest + k] = m[src + k]][a] = m[a]
      BY <2>2 DEF Memory
    <3>2. dest + k <= a <=> dest + (k + 1) <= a
      BY <1>1, <2>2
    <3> QED
      BY <3>1, <3>2 DEF Part
  <2> QED
    BY <2>1, <2>2
<1> QED
  BY <1>4, <1>5 DEF Part, Memory

LessThan == {ss \in Nat \X Nat : ss[1] < ss[2]}

\* A string that has a zero has a first one, and only one.
LEMMA FirstZero ==
  ASSUME NEW f \in Memory, NEW a \in CrtAddress, Terminated(f, a)
  PROVE  /\ End(f, a) \in a .. LastAddress /\ f[End(f, a)] = 0
         /\ \A y \in a .. End(f, a) - 1 : f[y] # 0
         /\ StringSize(f, a) \in Nat \ {0} /\ a + StringSize(f, a) - 1 = End(f, a)
<1>1. LastAddress \in Nat /\ a \in Nat
  BY MemoryAssumption DEF CrtAddress
<1> DEFINE zeros == {z \in a .. LastAddress : f[z] = 0}
<1>2. zeros \subseteq Nat /\ zeros # {}
  BY <1>1 DEF Terminated
<1>3. IsWellFoundedOn(LessThan, Nat)
  BY NatLessThanWellFounded, Zenon DEF OpToRel, LessThan
<1>4. PICK z \in zeros : \A y \in zeros : ~(<<y, z>> \in LessThan)
  <2> HIDE DEF zeros
  <2> QED
    BY <1>2, <1>3, WFMin
<1>5. z \in a .. LastAddress /\ f[z] = 0
  OBVIOUS
<1>6. ASSUME NEW y \in a .. z - 1
      PROVE  f[y] # 0
  <2>1. y \in a .. LastAddress /\ <<y, z>> \in LessThan
    BY <1>1, <1>5 DEF LessThan
  <2> QED
    BY <1>4, <2>1
<1>7. \E x \in a .. LastAddress : f[x] = 0 /\ \A y \in a .. x - 1 : f[y] # 0
  BY <1>5, <1>6
<1>8. /\ End(f, a) \in a .. LastAddress /\ f[End(f, a)] = 0
      /\ \A y \in a .. End(f, a) - 1 : f[y] # 0
  BY <1>7 DEF End
<1> QED
  BY <1>1, <1>8 DEF StringSize

LEMMA ZeroFound ==
  ASSUME NEW f \in Memory, NEW a \in CrtAddress, Terminated(f, a),
         NEW i \in Nat, NoZero(f, a, i)
  PROVE  /\ i < StringSize(f, a) /\ a + i \in CrtAddress
         /\ f[a + i] = 0 => StringSize(f, a) = i + 1
         /\ f[a + i] # 0 => NoZero(f, a, i + 1)
<1>1. PICK e \in Nat : e = End(f, a) /\ a <= e /\ e <= LastAddress
  BY FirstZero, MemoryAssumption DEF CrtAddress
<1>2. a \in Nat /\ LastAddress \in Nat
  BY MemoryAssumption DEF CrtAddress
<1>3. a + i <= e
  <2> SUFFICES ASSUME e < a + i PROVE FALSE
    BY <1>1, <1>2
  <2>1. e - a \in 0 .. i - 1 /\ a + (e - a) = e
    BY <1>1, <1>2
  <2>2. f[a + (e - a)] # 0
    BY <2>1 DEF NoZero
  <2> QED
    BY <1>1, <2>1, <2>2, FirstZero
<1>4. f[a + i] = 0 => a + i = e
  <2>1. a + i < e => a + i \in a .. e - 1
    BY <1>1, <1>2
  <2> QED
    BY <1>1, <1>2, <1>3, <2>1, FirstZero
<1>5. ASSUME f[a + i] # 0
      PROVE  NoZero(f, a, i + 1)
  <2>1. \A j \in 0 .. (i + 1) - 1 : j \in 0 .. i - 1 \/ j = i
    OBVIOUS
  <2> QED
    BY <1>5, <2>1 DEF NoZero
<1> QED
  BY <1>1, <1>2, <1>3, <1>4, <1>5 DEF StringSize, CrtAddress

\* The order of two buffers is that of the first bytes that differ.
LEMMA FirstDifference ==
  ASSUME NEW c, c.dest \in CrtAddress, c.src \in CrtAddress, NEW n \in Nat,
         NEW i \in 0 .. n,
         \A j \in 0 .. i - 1 : c.found[c.dest + j] = c.found[c.src + j]
  PROVE  /\ i = n => Order(c, n) = 0
         /\ (i # n /\ c.found[c.dest + i] # c.found[c.src + i]) =>
              Order(c, n) = Sign(c.found[c.dest + i] - c.found[c.src + i])
<1> DEFINE differ ==
      {j \in 0 .. n - 1 : c.found[c.dest + j] # c.found[c.src + j]}
<1>1. ASSUME i = n
      PROVE  Order(c, n) = 0
  <2>1. differ = {}
    BY <1>1
  <2> QED
    BY <2>1 DEF Order
<1>2. ASSUME i # n, c.found[c.dest + i] # c.found[c.src + i]
      PROVE  Order(c, n) = Sign(c.found[c.dest + i] - c.found[c.src + i])
  <2>1. i \in differ /\ \A j \in differ : i <= j
    BY <1>2
  <2>2. \A k \in differ : (\A j \in differ : k <= j) => k = i
    BY <2>1
  <2>3. i = CHOOSE k \in differ : \A j \in differ : k <= j
    BY <2>1, <2>2
  <2> QED
    BY <2>1, <2>3 DEF Order
<1> QED
  BY <1>1, <1>2

\* A turn of a loop changes the local variables of the call, not its arguments.
LEMMA Turns ==
  ASSUME NEW c \in CrtCall, NEW d \in Int, NEW s \in Int, NEW n \in Int,
         NEW at \in {"entry", "forward", "backward", "copied"}
  PROVE  LET r == Turn(c, at, d, s, n) IN
         /\ r \in CrtCall /\ r.fn = c.fn /\ r.at = at /\ r.found = c.found
         /\ r.dest = c.dest /\ r.src = c.src /\ r.count = c.count
         /\ r.d = d /\ r.s = s /\ r.n = n
BY DEF CrtCall, Turn

LEMMA Lasts ==
  ASSUME NEW c \in CrtCall, NEW value \in Int
  PROVE  LET r == Last(c, value) IN
         /\ r \in CrtCall /\ r.fn = c.fn /\ r.at = "returned"
         /\ r.found = c.found /\ r.ret = value
         /\ r.dest = c.dest /\ r.src = c.src /\ r.count = c.count
         /\ r.d = c.d /\ r.s = c.s /\ r.n = c.n
BY DEF CrtCall, Last

\* A step that keeps what its function promises.
LEMMA Becomes ==
  ASSUME NEW r \in CrtCall, crt' = r, r.fn # "strncpy", bytes' \in Memory,
         CallInv(r)'
  PROVE  CrtInv'
<1>1. CallInv(crt)'
  BY DEF CallInv, MoveInv, SetInv, CompareInv, LengthInv, StringsCompareInv,
     StringCopyInv
<1> QED
  BY <1>1 DEF CrtInv

\* The return of a function whose memory is as it should be.
LEMMA Returns ==
  ASSUME NEW c \in CrtCall, c = crt, c.fn # "strncpy", bytes \in Memory,
         NEW value \in Int, Finish(value),
         NEW r, r = Last(c, value), CallInv(r)
  PROVE  CrtInv'
<1>1. crt' = r /\ r \in CrtCall /\ r.fn # "strncpy" /\ bytes' = bytes
  <2>1. crt' = r /\ bytes' = bytes
    BY DEF Finish, Last
  <2>2. r \in CrtCall /\ r.fn = c.fn
    BY Lasts
  <2> QED
    BY <2>1, <2>2
<1>2. CallInv(r)'
  BY <1>1 DEF CallInv, MoveInv, SetInv, CompareInv, LengthInv,
     StringsCompareInv, StringCopyInv
<1> QED
  BY <1>1, <1>2, Becomes

\* A call that C defines, before the first turn of its loop.
LEMMA Entered ==
  ASSUME Enter
  PROVE  CrtInv'
<1>1. PICK m \in Memory : m = bytes'
  BY DEF Enter, Memory
<1>2. PICK fn \in CrtFunctions, d \in CrtAddress, s \in CrtAddress,
           n \in CrtAddress :
        \E c : c = Call(fn, d, s, n, m) /\ Defined(c, m) /\ crt' = c
  BY <1>1 DEF Enter
<1> PICK c : c = Call(fn, d, s, n, m) /\ Defined(c, m) /\ crt' = c
  BY <1>2
<1>3. d \in Nat /\ s \in Nat /\ n \in Nat /\ LastAddress \in Nat
  BY MemoryAssumption DEF CrtAddress
<1>4. /\ c \in CrtCall /\ c.fn = fn /\ c.at = "entry" /\ c.found = m
      /\ c.d = d /\ c.s = s /\ c.n = n
      /\ c.dest = d /\ c.src = s /\ c.count = n
  BY <1>3 DEF Call, CrtCall
<1>5. \A k \in Nat : Part(m, d, s, k, k) = m
  BY <1>4, Parts
<1>6. c.count - c.n = 0 /\ c.n \in 0 .. c.count /\ Gone(c, 0)
  BY <1>3, <1>4 DEF Gone
<1>7. ASSUME fn \in {"memcpy", "memmove"}
      PROVE  MoveInv(c)'
  <2>1. /\ InMemory(d, n) /\ InMemory(s, n)
        /\ fn = "memcpy" => Apart(d, n, s, n)
    BY <1>4, <1>7 DEF Defined
  <2> QED
    BY <1>1, <1>4, <1>5, <1>6, <2>1 DEF MoveInv, Gone, InMemory, Apart
<1>8. ASSUME fn = "memset"
      PROVE  SetInv(c)'
  <2>1. InMemory(d, n)
    BY <1>4, <1>8 DEF Defined
  <2>2. Filled(m, d, s % ByteRange, 0) = m
    <3>1. \A a \in CrtAddress : ~(d <= a /\ a < d + 0)
      BY <1>3 DEF CrtAddress
    <3>2. Filled(m, d, s % ByteRange, 0) = [a \in CrtAddress |-> m[a]]
      BY <3>1 DEF Filled
    <3> QED
      BY <3>2 DEF Memory
  <2> QED
    BY <1>1, <1>3, <1>4, <1>6, <2>1, <2>2 DEF SetInv, InMemory
<1>9. ASSUME fn = "memcmp"
      PROVE  CompareInv(c)'
  <2>1. InMemory(d, n) /\ InMemory(s, n)
    BY <1>4, <1>9 DEF Defined
  <2> QED
    BY <1>1, <1>4, <1>6, <2>1 DEF CompareInv, InMemory, Gone
<1>10. \A f, a : NoZero(f, a, 0)
  BY DEF NoZero
<1>11. ASSUME fn = "strlen"
       PROVE  LengthInv(c)'
  <2>1. Terminated(m, s)
    BY <1>4, <1>11 DEF Defined
  <2>2. s = s + 0 /\ NoZero(m, s, 0)
    BY <1>3, <1>10
  <2> QED
    BY <1>1, <1>4, <2>1, <2>2 DEF LengthInv, Terminated
<1>12. ASSUME fn = "strcmp"
       PROVE  StringsCompareInv(c)'
  <2>1. Terminated(m, d) /\ Terminated(m, s)
    BY <1>4, <1>12 DEF Defined
  <2>2. \A j \in 0 .. 0 - 1 : m[d + j] = m[s + j]
    OBVIOUS
  <2> QED
    BY <1>1, <1>4, <1>6, <1>10, <2>1, <2>2
       DEF StringsCompareInv, Terminated, Gone, NoZero
<1>13. ASSUME fn = "strcpy"
       PROVE  StringCopyInv(c)'
  <2>1. /\ Terminated(m, s) /\ InMemory(d, StringSize(m, s))
        /\ Apart(d, StringSize(m, s), s, StringSize(m, s))
    BY <1>4, <1>13 DEF Defined
  <2>2. Gone(c, 0) /\ NoZero(m, s, 0) /\ m = Part(m, d, s, 0, 0)
    BY <1>5, <1>6, <1>10
  <2>3. \E i \in Nat : Gone(c, i) /\ NoZero(m, s, i) /\ m = Part(m, d, s, 0, i)
    BY <2>2
  <2> QED
    BY <1>1, <1>4, <2>1, <2>3 DEF StringCopyInv, Terminated, InMemory, Apart
<1>14. fn # "strncpy" => CallInv(c)'
  BY <1>4, <1>7, <1>8, <1>9, <1>11, <1>12, <1>13 DEF CallInv
<1>15. CASE fn # "strncpy"
  BY <1>1, <1>4, <1>14, <1>15, Becomes
<1>16. CASE fn = "strncpy"
  BY <1>4, <1>16 DEF CrtInv
<1> QED
  BY <1>15, <1>16

\* A turn of the loop of memcpy and of memmove that goes up.
LEMMA ForwardStep ==
  ASSUME NEW c \in CrtCall, c = crt, bytes \in Memory, MoveInv(c),
         c.fn \in {"memcpy", "memmove"}, c.n # 0, Forward,
         (c.fn = "memcpy" /\ c.at = "entry") \/ c.at = "forward"
  PROVE  CrtInv'
<1>1. PICK i \in Nat : i = c.count - c.n /\ i < c.count /\ c.n = c.count - i
  BY MemoryAssumption DEF MoveInv, CrtCall, CrtAddress
<1>2. /\ c.dest \in Nat /\ c.src \in Nat /\ c.count \in Nat /\ LastAddress \in Nat
      /\ c.dest \in CrtAddress /\ c.src \in CrtAddress
  BY MemoryAssumption DEF CrtCall, CrtAddress
<1>3. /\ c.dest + c.count <= LastAddress /\ c.src + c.count <= LastAddress
      /\ c.d = c.dest + i /\ c.s = c.src + i
      /\ bytes = Part(c.found, c.dest, c.src, 0, i)
  BY <1>1 DEF MoveInv, InMemory, Gone
<1>4. c.dest + i \in CrtAddress /\ c.src + i \in CrtAddress
  BY <1>1, <1>2, <1>3 DEF CrtAddress
<1>5. c.src >= c.dest \/ c.src + i < c.dest
  <2>1. Apart(c.dest, c.count, c.src, c.count) \/ c.dest < c.src
    BY DEF MoveInv
  <2> QED
    BY <1>1, <1>2, <2>1 DEF Apart
<1>6. PICK m \in Memory : m = bytes
  OBVIOUS
<1>7. PICK m2 \in Memory : /\ m2 = bytes'
                           /\ m2 = Part(c.found, c.dest, c.src, 0, i + 1)
  <2>1. bytes' = [m EXCEPT ![c.dest + i] = m[c.src + i]]
    BY <1>3, <1>6 DEF Forward, Put
  <2>2. c.found \in Memory
    BY DEF CrtCall
  <2> QED
    BY <1>2, <1>3, <1>4, <1>5, <1>6, <2>1, <2>2, CopiesUp
<1>8. PICK c2 : c2 = Turn(c, c.at, c.d + 1, c.s + 1, c.n - 1)
  OBVIOUS
<1>9. crt' = c2
  BY <1>8 DEF Forward, Advance, Turn
<1>10. /\ c2 \in CrtCall /\ c2.fn = c.fn /\ c2.at = c.at /\ c2.n = c.n - 1
       /\ c2.found = c.found
       /\ c2.dest = c.dest /\ c2.src = c.src /\ c2.count = c.count
       /\ c2.d = c.d + 1 /\ c2.s = c.s + 1
  <2>1. c.d + 1 \in Int /\ c.s + 1 \in Int /\ c.n - 1 \in Int
    BY DEF CrtCall
  <2>2. c.at \in {"entry", "forward", "backward", "copied"}
    OBVIOUS
  <2> QED
    BY <1>8, <2>1, <2>2, Turns
<1>11. c2.count - c2.n = i + 1 /\ c2.n \in 0 .. c2.count /\ Gone(c2, i + 1)
  <2>1. PICK k \in Nat, n \in Nat : /\ c2.count = k /\ k = n + i + 1
                                    /\ c2.n = n
    <3>1. c.count - i - 1 \in Nat /\ c.count = (c.count - i - 1) + i + 1
      BY <1>1, <1>2
    <3>2. c2.n = c.count - i - 1 /\ c2.count = c.count
      BY <1>1, <1>2, <1>10
    <3> QED
      BY <3>1, <3>2
  <2>2. c2.d = c2.dest + (i + 1) /\ c2.s = c2.src + (i + 1)
    BY <1>2, <1>3, <1>10
  <2>3. c2.count - c2.n = i + 1 /\ c2.n \in 0 .. c2.count
    BY <2>1
  <2> QED
    BY <2>2, <2>3 DEF Gone
<1>12. MoveInv(c2)'
  BY <1>7, <1>10, <1>11 DEF MoveInv, Gone, InMemory, Apart
<1>13. CallInv(c2)'
  BY <1>10, <1>12 DEF CallInv
<1> QED
  BY <1>7, <1>9, <1>10, <1>13, Becomes

\* A turn of the loop of memmove that goes down.
LEMMA BackwardStep ==
  ASSUME NEW c \in CrtCall, c = crt, bytes \in Memory, MoveInv(c),
         c.fn = "memmove", c.n # 0, Backward, c.at = "backward"
  PROVE  CrtInv'
<1>1. PICK k \in Nat : k + 1 = c.n /\ k < c.count /\ k = c.n - 1
  <2>1. c.n \in 0 .. c.count /\ c.count \in Nat
    BY MemoryAssumption DEF MoveInv, CrtCall, CrtAddress
  <2>2. c.n - 1 \in Nat /\ (c.n - 1) + 1 = c.n /\ c.n - 1 < c.count
    BY <2>1
  <2> QED
    BY <2>2
<1>2. /\ c.dest \in Nat /\ c.src \in Nat /\ c.count \in Nat /\ LastAddress \in Nat
      /\ c.dest \in CrtAddress /\ c.src \in CrtAddress /\ c.found \in Memory
  BY MemoryAssumption DEF CrtCall, CrtAddress
<1>3. /\ c.dest + c.count <= LastAddress /\ c.src + c.count <= LastAddress
      /\ c.d = c.dest + (k + 1) /\ c.s = c.src + (k + 1) /\ c.src < c.dest
      /\ bytes = Part(c.found, c.dest, c.src, k + 1, c.count)
  BY <1>1 DEF MoveInv, InMemory, Gone
<1>4. /\ c.dest + k \in CrtAddress /\ c.src + k \in CrtAddress
      /\ c.d - 1 = c.dest + k /\ c.s - 1 = c.src + k
  BY <1>1, <1>2, <1>3 DEF CrtAddress
<1>5. PICK m \in Memory : m = bytes
  OBVIOUS
<1>6. PICK m2 \in Memory : /\ m2 = bytes'
                           /\ m2 = Part(c.found, c.dest, c.src, k, c.count)
  <2>1. bytes' = [m EXCEPT ![c.d - 1] = m[c.s - 1]]
    BY <1>5 DEF Backward, Put
  <2>2. bytes' = [m EXCEPT ![c.dest + k] = m[c.src + k]]
    BY <1>4, <2>1
  <2>3. m = Part(c.found, c.dest, c.src, k + 1, c.count)
    BY <1>3, <1>5
  <2>4. /\ [m EXCEPT ![c.dest + k] = m[c.src + k]]
             = Part(c.found, c.dest, c.src, k, c.count)
        /\ [m EXCEPT ![c.dest + k] = m[c.src + k]] \in Memory
    <3>1. PICK j \in Nat : j = k + 1
      OBVIOUS
    <3>2. m = Part(c.found, c.dest, c.src, j, c.count)
      BY <2>3, <3>1
    <3> QED
      BY <1>1, <1>2, <1>3, <1>4, <3>1, <3>2, CopiesDown, SMTT(20)
  <2> QED
    BY <2>2, <2>4
<1>7. PICK c2 : c2 = Turn(c, c.at, c.d + (-1), c.s + (-1), c.n - 1)
  OBVIOUS
<1>8. crt' = c2
  BY <1>7 DEF Backward, Advance, Turn
<1>9. /\ c2 \in CrtCall /\ c2.fn = c.fn /\ c2.at = c.at /\ c2.n = k
      /\ c2.found = c.found
      /\ c2.dest = c.dest /\ c2.src = c.src /\ c2.count = c.count
      /\ c2.d = c.d - 1 /\ c2.s = c.s - 1
  <2>1. c.d + (-1) = c.d - 1 /\ c.s + (-1) = c.s - 1
    BY DEF CrtCall
  <2>2. c.d - 1 \in Int /\ c.s - 1 \in Int /\ c.n - 1 \in Int
    BY DEF CrtCall
  <2> QED
    BY <1>1, <1>7, <2>1, <2>2, Turns
<1>10. c2.n \in 0 .. c2.count /\ Gone(c2, c2.n)
  BY <1>1, <1>2, <1>3, <1>9 DEF Gone
<1>11. MoveInv(c2)'
  BY <1>3, <1>6, <1>9, <1>10 DEF MoveInv, Gone, InMemory, Apart
<1>12. CallInv(c2)'
  BY <1>9, <1>11 DEF CallInv
<1> QED
  BY <1>6, <1>8, <1>9, <1>12, Becomes

LEMMA MoveStep ==
  ASSUME CrtInv, memcpy \/ memmove
  PROVE  CrtInv'
<1>1. PICK c : c = crt
  OBVIOUS
<1>2. /\ c \in CrtCall /\ c.fn \in {"memcpy", "memmove"}
      /\ bytes \in Memory /\ MoveInv(c) /\ c.fn # "strncpy"
      /\ c.at \in {"entry", "forward", "backward"}
  BY <1>1 DEF CrtInv, CallInv, memcpy, memmove, In, Quiet
<1>3. c.dest \in CrtAddress /\ c.src \in CrtAddress /\ c.found \in Memory
  BY <1>2 DEF CrtCall
<1>4. /\ c.dest \in Nat /\ c.src \in Nat /\ c.count \in Nat /\ LastAddress \in Nat
      /\ c.n \in 0 .. c.count
  BY <1>2, MemoryAssumption DEF CrtCall, CrtAddress, MoveInv
<1>5. ASSUME Finish(c.dest), bytes = Copied(c, c.count)
      PROVE  CrtInv'
  <2>1. PICK r : r = Last(c, c.dest)
    OBVIOUS
  <2>2. /\ r.fn = c.fn /\ r.at = "returned" /\ r.found = c.found
        /\ r.dest = c.dest /\ r.src = c.src /\ r.count = c.count
    <3>1. c.dest \in Int
      BY <1>4
    <3> QED
      BY <1>2, <2>1, <3>1, Lasts
  <2>3. Copied(r, r.count) = Copied(c, c.count)
    BY <2>2 DEF Copied
  <2>4. CallInv(r)
    <3>1. MoveInv(r)
      BY <1>2, <1>5, <2>2, <2>3 DEF MoveInv
    <3> QED
      BY <1>2, <2>2, <3>1 DEF CallInv
  <2> QED
    BY <1>1, <1>2, <1>4, <1>5, <2>1, <2>4, Returns
<1>6. ASSUME c.n = 0, (c.fn = "memcpy" /\ c.at = "entry") \/ c.at # "entry"
      PROVE  bytes = Copied(c, c.count)
  <2>1. c.at = "backward" \/ c.count - c.n = c.count
    BY <1>4, <1>6
  <2>2. bytes = Part(c.found, c.dest, c.src, 0, c.count)
    BY <1>2, <1>6, <2>1 DEF MoveInv
  <2> QED
    BY <1>3, <1>4, <2>2, Parts
<1>7. CASE memcpy
  BY <1>1, <1>2, <1>5, <1>6, <1>7, ForwardStep DEF memcpy, In
<1>8. CASE memmove /\ c.at = "entry"
  <2>1. /\ bytes = c.found /\ c.n = c.count /\ c.d = c.dest /\ c.s = c.src
        /\ c.fn = "memmove" /\ InMemory(c.dest, c.count) /\ InMemory(c.src, c.count)
    BY <1>1, <1>2, <1>4, <1>8 DEF MoveInv, memmove, In, Gone
  <2>2. CASE c.d = c.s \/ c.n = 0
    <3>1. bytes = Copied(c, c.count)
      <4>1. \A a \in CrtAddress : a \in Nat
        BY MemoryAssumption DEF CrtAddress
      <4>2. Copied(c, c.count) = [a \in CrtAddress |-> c.found[a]]
        BY <1>4, <2>1, <2>2, <4>1 DEF Copied
      <4> QED
        BY <1>3, <2>1, <4>2 DEF Memory
    <3> QED
      BY <1>1, <1>5, <1>8, <2>1, <2>2, <3>1 DEF memmove, In
  <2>3. CASE ~(c.d = c.s \/ c.n = 0) /\ CopiesForward
    <3>1. PICK c2 : c2 = [c EXCEPT !.at = "forward"]
      OBVIOUS
    <3>2. crt' = c2 /\ bytes' = bytes
      BY <1>1, <1>8, <2>3, <3>1 DEF memmove, In, Goto
    <3>3. /\ c2 \in CrtCall /\ c2.fn = "memmove" /\ c2.at = "forward"
          /\ c2.found = c.found /\ c2.dest = c.dest /\ c2.src = c.src
          /\ c2.count = c.count /\ c2.n = c.n /\ c2.d = c.d /\ c2.s = c.s
      BY <1>2, <2>1, <3>1 DEF CrtCall
    <3>4. /\ c2.count - c2.n = 0 /\ c2.n \in 0 .. c2.count /\ Gone(c2, 0)
          /\ c2.dest < c2.src
      BY <1>1, <1>4, <2>1, <2>3, <3>3 DEF Gone, CopiesForward
    <3>5. bytes = Part(c2.found, c2.dest, c2.src, 0, 0)
      BY <1>3, <2>1, <3>3, Parts
    <3>6. MoveInv(c2)'
      BY <2>1, <3>2, <3>3, <3>4, <3>5 DEF MoveInv, Gone, InMemory
    <3>7. CallInv(c2)'
      BY <3>3, <3>6 DEF CallInv
    <3> QED
      BY <1>2, <3>2, <3>3, <3>7, Becomes
  <2>4. CASE ~(c.d = c.s \/ c.n = 0) /\ ~CopiesForward
    <3>1. PICK c2 : c2 = Turn(c, "backward", c.d + c.n, c.s + c.n, c.n)
      OBVIOUS
    <3>2. crt' = c2 /\ bytes' = bytes
      <4>1. c2 = [c EXCEPT !.at = "backward", !.d = c.d + c.n, !.s = c.s + c.n]
        BY <1>2, <3>1 DEF Turn, CrtCall
      <4> QED
        BY <1>1, <1>8, <2>4, <4>1 DEF memmove, In
    <3>3. /\ c2 \in CrtCall /\ c2.fn = "memmove" /\ c2.at = "backward"
          /\ c2.found = c.found /\ c2.dest = c.dest /\ c2.src = c.src
          /\ c2.count = c.count /\ c2.n = c.n /\ c2.d = c.d + c.n
          /\ c2.s = c.s + c.n
      <4>1. c.d + c.n \in Int /\ c.s + c.n \in Int /\ c.n \in Int
        BY <1>4, <2>1
      <4> QED
        BY <1>2, <2>1, <3>1, <4>1, Turns
    <3>4. c2.n \in 0 .. c2.count /\ Gone(c2, c2.n) /\ c2.src < c2.dest
      BY <1>1, <1>4, <2>1, <2>4, <3>3 DEF Gone, CopiesForward
    <3>5. bytes = Part(c2.found, c2.dest, c2.src, c2.n, c2.count)
      BY <1>3, <1>4, <2>1, <3>3, Parts
    <3>6. MoveInv(c2)'
      BY <2>1, <3>2, <3>3, <3>4, <3>5 DEF MoveInv, Gone, InMemory
    <3>7. CallInv(c2)'
      BY <3>3, <3>6 DEF CallInv
    <3> QED
      BY <1>2, <3>2, <3>3, <3>7, Becomes
  <2> QED
    BY <2>2, <2>3, <2>4
<1>9. CASE memmove /\ c.at # "entry"
  BY <1>1, <1>2, <1>5, <1>6, <1>9, ForwardStep, BackwardStep DEF memmove, In
<1> QED
  BY <1>7, <1>8, <1>9


LEMMA FillsUp ==
  ASSUME NEW f \in Memory, NEW dest \in CrtAddress, NEW i \in Nat,
         dest + i \in CrtAddress, NEW value \in 0 .. ByteRange - 1,
         NEW m \in Memory, m = Filled(f, dest, value, i)
  PROVE  /\ [m EXCEPT ![dest + i] = value] = Filled(f, dest, value, i + 1)
         /\ [m EXCEPT ![dest + i] = value] \in Memory
<1>1. dest \in Nat /\ \A a \in CrtAddress : a \in Nat
  BY MemoryAssumption DEF CrtAddress
<1>2. [m EXCEPT ![dest + i] = value] \in Memory
  BY DEF Memory
<1>3. ASSUME NEW a \in CrtAddress
      PROVE  [m EXCEPT ![dest + i] = value][a] = Filled(f, dest, value, i + 1)[a]
  <2>1. CASE a = dest + i
    BY <1>1, <2>1 DEF Filled, Memory
  <2>2. CASE a # dest + i
    <3>1. [m EXCEPT ![dest + i] = value][a] = m[a]
      BY <2>2 DEF Memory
    <3>2. (dest <= a /\ a < dest + (i + 1)) <=> (dest <= a /\ a < dest + i)
      BY <1>1, <2>2
    <3> QED
      BY <3>1, <3>2 DEF Filled
  <2> QED
    BY <2>1, <2>2
<1> QED
  BY <1>2, <1>3 DEF Filled, Memory

LEMMA FillStep ==
  ASSUME CrtInv, memset
  PROVE  CrtInv'
<1>1. PICK c : c = crt
  OBVIOUS
<1>2. /\ c \in CrtCall /\ c.fn = "memset" /\ c.at = "entry"
      /\ bytes \in Memory /\ SetInv(c)
  BY <1>1 DEF CrtInv, CallInv, memset, In, Quiet
<1>3. /\ c.dest \in Nat /\ c.count \in Nat /\ LastAddress \in Nat /\ c.src \in Nat
      /\ c.dest \in CrtAddress /\ c.found \in Memory /\ ByteRange \in Nat \ {0}
  BY <1>2, MemoryAssumption DEF CrtCall, CrtAddress
<1>4. PICK value \in 0 .. ByteRange - 1 : value = c.src % ByteRange
  BY <1>3
<1>5. /\ c.dest + c.count <= LastAddress /\ c.n \in 0 .. c.count /\ c.s = c.src
      /\ c.d = c.dest + (c.count - c.n)
      /\ bytes = Filled(c.found, c.dest, value, c.count - c.n)
  BY <1>2, <1>4 DEF SetInv, InMemory
<1>6. PICK i \in Nat : i = c.count - c.n /\ c.count = i + c.n /\ c.n \in Nat
  BY <1>3, <1>5
<1>7. CASE c.n = 0
  <2>1. Finish(c.dest)
    BY <1>1, <1>7 DEF memset
  <2>2. PICK r : r = Last(c, c.dest)
    OBVIOUS
  <2>3. /\ r.fn = c.fn /\ r.at = "returned" /\ r.found = c.found
        /\ r.dest = c.dest /\ r.src = c.src /\ r.count = c.count
    <3>1. c.dest \in Int
      BY <1>3
    <3> QED
      BY <1>2, <2>2, <3>1, Lasts
  <2>4. bytes = SetTo(r)
    <3>1. i = c.count
      BY <1>3, <1>6, <1>7
    <3> QED
      BY <1>4, <1>5, <1>6, <2>3, <3>1 DEF Filled, SetTo
  <2>5. CallInv(r)
    <3>1. SetInv(r)
      BY <1>2, <2>3, <2>4 DEF SetInv
    <3> QED
      BY <1>2, <2>3, <3>1 DEF CallInv
  <2>6. c.fn # "strncpy" /\ c.dest \in Int
    BY <1>2, <1>3
  <2> QED
    BY <1>1, <1>2, <2>1, <2>2, <2>5, <2>6, Returns
<1>8. CASE c.n # 0
  <2>1. PICK m \in Memory : m = bytes /\ m = Filled(c.found, c.dest, value, i)
    BY <1>2, <1>5, <1>6
  <2>2. PICK m2 \in Memory :
          m2 = bytes' /\ m2 = Filled(c.found, c.dest, value, i + 1)
    <3>1. c.dest + i \in CrtAddress
      BY <1>3, <1>5, <1>6, <1>8 DEF CrtAddress
    <3>2. bytes' = [m EXCEPT ![c.dest + i] = value]
      BY <1>1, <1>4, <1>5, <1>6, <1>8, <2>1 DEF memset, Put
    <3> QED
      BY <1>3, <2>1, <3>1, <3>2, FillsUp
  <2>3. PICK c2 : c2 = Turn(c, c.at, c.d + 1, c.s, c.n - 1)
    OBVIOUS
  <2>4. crt' = c2
    <3>1. c2 = [c EXCEPT !.d = c.d + 1, !.n = c.n - 1]
      BY <1>2, <2>3 DEF Turn, CrtCall
    <3> QED
      BY <1>1, <1>8, <3>1 DEF memset
  <2>5. /\ c2 \in CrtCall /\ c2.fn = c.fn /\ c2.at = c.at /\ c2.n = c.n - 1
        /\ c2.found = c.found
        /\ c2.dest = c.dest /\ c2.src = c.src /\ c2.count = c.count
        /\ c2.d = c.d + 1 /\ c2.s = c.s
    <3>1. c.d + 1 \in Int /\ c.s \in Int /\ c.n - 1 \in Int
      BY <1>2 DEF CrtCall
    <3> QED
      BY <1>2, <2>3, <3>1, Turns
  <2>6. /\ c2.count - c2.n = i + 1 /\ c2.n \in 0 .. c2.count
        /\ c2.d = c2.dest + (i + 1)
    <3>1. PICK n \in Nat : n = c.n - 1 /\ c.count = n + (i + 1)
      BY <1>3, <1>6, <1>8
    <3>2. c2.n = n /\ c2.count = n + (i + 1)
      BY <2>5, <3>1
    <3>3. c.d = c.dest + i
      BY <1>5, <1>6
    <3>4. c2.d = c2.dest + (i + 1)
      BY <1>3, <2>5, <3>3
    <3> QED
      BY <3>2, <3>4
  <2>7. SetInv(c2)'
    BY <1>2, <1>3, <1>4, <1>5, <2>2, <2>5, <2>6 DEF SetInv, InMemory
  <2>8. CallInv(c2)'
    BY <1>2, <2>5, <2>7 DEF CallInv
  <2> QED
    BY <1>2, <2>2, <2>4, <2>5, <2>8, Becomes
<1> QED
  BY <1>7, <1>8

LEMMA CompareStep ==
  ASSUME CrtInv, memcmp
  PROVE  CrtInv'
<1>1. PICK c : c = crt
  OBVIOUS
<1>2. /\ c \in CrtCall /\ c.fn = "memcmp" /\ c.at = "entry"
      /\ bytes \in Memory /\ CompareInv(c) /\ bytes = c.found
  BY <1>1 DEF CrtInv, CallInv, CompareInv, memcmp, In, Quiet
<1>3. /\ c.dest \in Nat /\ c.count \in Nat /\ LastAddress \in Nat /\ c.src \in Nat
      /\ c.dest \in CrtAddress /\ c.src \in CrtAddress /\ c.found \in Memory
  BY <1>2, MemoryAssumption DEF CrtCall, CrtAddress
<1>4. PICK i \in Nat :
        /\ i = c.count - c.n /\ c.count = i + c.n /\ c.n \in Nat
        /\ c.d = c.dest + i /\ c.s = c.src + i
        /\ \A j \in 0 .. i - 1 : c.found[c.dest + j] = c.found[c.src + j]
  <2>1. c.n \in 0 .. c.count
    BY <1>2 DEF CompareInv
  <2>2. PICK i \in Nat : i = c.count - c.n
    BY <1>3, <2>1
  <2>3. /\ c.d = c.dest + i /\ c.s = c.src + i
        /\ \A j \in 0 .. i - 1 : c.found[c.dest + j] = c.found[c.src + j]
    BY <1>2, <2>2 DEF CompareInv, Gone
  <2>4. c.count = i + c.n /\ c.n \in Nat
    BY <1>3, <2>1, <2>2
  <2> QED
    BY <2>2, <2>3, <2>4
<1>5. i \in 0 .. c.count /\ (i = c.count <=> c.n = 0)
  BY <1>3, <1>4
<1>6. ASSUME NEW value \in Int, Finish(value), value = Order(c, c.count)
      PROVE  CrtInv'
  <2>1. PICK r : r = Last(c, value)
    OBVIOUS
  <2>2. /\ r.fn = c.fn /\ r.at = "returned" /\ r.found = c.found /\ r.ret = value
        /\ r.dest = c.dest /\ r.src = c.src /\ r.count = c.count
    BY <1>2, <2>1, Lasts
  <2>3. Order(r, r.count) = Order(c, c.count)
    BY <2>2 DEF Order
  <2>4. CompareInv(r)
    BY <1>2, <1>6, <2>2, <2>3 DEF CompareInv
  <2>5. CallInv(r) /\ c.fn # "strncpy"
    BY <1>2, <2>2, <2>4 DEF CallInv
  <2> QED
    BY <1>1, <1>2, <1>6, <2>1, <2>5, Returns
<1>7. CASE c.n = 0
  <2>1. Finish(0)
    BY <1>1, <1>7 DEF memcmp
  <2>2. Order(c, c.count) = 0
    BY <1>3, <1>4, <1>5, <1>7, FirstDifference
  <2> QED
    BY <1>6, <2>1, <2>2
<1>8. CASE c.n # 0 /\ bytes[c.d] # bytes[c.s]
  <2>1. PICK x \in Nat, y \in Nat :
          x = c.found[c.dest + i] /\ y = c.found[c.src + i]
    <3>1. c.dest + i \in CrtAddress /\ c.src + i \in CrtAddress
      <4>1. c.dest + c.count <= LastAddress /\ c.src + c.count <= LastAddress
        BY <1>2 DEF CompareInv, InMemory
      <4> QED
        BY <1>3, <1>4, <1>8, <4>1 DEF CrtAddress
    <3> QED
      BY <1>3, <3>1, MemoryAssumption DEF Memory
  <2>2. x # y /\ Finish(IF x < y THEN -1 ELSE 1)
    BY <1>1, <1>2, <1>4, <1>8, <2>1 DEF memcmp
  <2>3. Order(c, c.count) = Sign(x - y)
    BY <1>3, <1>4, <1>5, <1>8, <2>1, <2>2, FirstDifference
  <2>4. Sign(x - y) = IF x < y THEN -1 ELSE 1
    BY <2>2 DEF Sign
  <2>5. (IF x < y THEN -1 ELSE 1) \in Int
    OBVIOUS
  <2> QED
    BY <1>6, <2>2, <2>3, <2>4, <2>5
<1>9. CASE c.n # 0 /\ bytes[c.d] = bytes[c.s]
  <2>1. PICK c2 : c2 = Turn(c, c.at, c.d + 1, c.s + 1, c.n - 1)
    OBVIOUS
  <2>2. crt' = c2 /\ bytes' = bytes
    BY <1>1, <1>2, <1>9, <2>1 DEF memcmp, Advance, Turn
  <2>3. /\ c2 \in CrtCall /\ c2.fn = c.fn /\ c2.at = c.at /\ c2.n = c.n - 1
        /\ c2.found = c.found
        /\ c2.dest = c.dest /\ c2.src = c.src /\ c2.count = c.count
        /\ c2.d = c.d + 1 /\ c2.s = c.s + 1
    <3>1. c.d + 1 \in Int /\ c.s + 1 \in Int /\ c.n - 1 \in Int
      BY <1>2 DEF CrtCall
    <3> QED
      BY <1>2, <2>1, <3>1, Turns
  <2>4. /\ c2.count - c2.n = i + 1 /\ c2.n \in 0 .. c2.count
        /\ Gone(c2, i + 1)
    <3>1. PICK n \in Nat : n = c.n - 1 /\ c.count = n + (i + 1)
      BY <1>3, <1>4, <1>9
    <3>2. c2.n = n /\ c2.count = n + (i + 1)
      BY <2>3, <3>1
    <3>3. c.d = c.dest + i /\ c.s = c.src + i
      BY <1>4
    <3>4. c2.d = c2.dest + (i + 1) /\ c2.s = c2.src + (i + 1)
      BY <1>3, <2>3, <3>3
    <3> QED
      BY <3>2, <3>4 DEF Gone
  <2>5. \A j \in 0 .. (i + 1) - 1 : c.found[c.dest + j] = c.found[c.src + j]
    <3>1. \A j \in 0 .. (i + 1) - 1 : j \in 0 .. i - 1 \/ j = i
      OBVIOUS
    <3> QED
      BY <1>2, <1>4, <1>9, <3>1
  <2>6. CompareInv(c2)'
    BY <1>2, <2>2, <2>3, <2>4, <2>5 DEF CompareInv, Gone, InMemory
  <2>7. CallInv(c2)'
    BY <1>2, <2>3, <2>6 DEF CallInv
  <2> QED
    BY <1>2, <2>2, <2>3, <2>7, Becomes
<1> QED
  BY <1>7, <1>8, <1>9

LEMMA LengthStep ==
  ASSUME CrtInv, strlen
  PROVE  CrtInv'
<1>1. PICK c : c = crt
  OBVIOUS
<1>2. /\ c \in CrtCall /\ c.fn = "strlen" /\ c.at = "entry" /\ c.fn # "strncpy"
      /\ bytes \in Memory /\ LengthInv(c) /\ bytes = c.found
      /\ Terminated(c.found, c.src)
  BY <1>1 DEF CrtInv, CallInv, LengthInv, strlen, In, Quiet
<1>3. c.src \in Nat /\ c.src \in CrtAddress /\ c.found \in Memory
  BY <1>2, MemoryAssumption DEF CrtCall, CrtAddress
<1>4. PICK i \in Nat : c.s = c.src + i /\ NoZero(c.found, c.src, i)
  BY <1>2 DEF LengthInv
<1>5. /\ c.found[c.src + i] = 0 => StringSize(c.found, c.src) = i + 1
      /\ c.found[c.src + i] # 0 => NoZero(c.found, c.src, i + 1)
  BY <1>2, <1>3, <1>4, ZeroFound
<1>6. CASE bytes[c.s] = 0
  <2>1. PICK value \in Int : value = c.s - c.src
    BY <1>3, <1>4
  <2>2. Finish(value)
    BY <1>1, <1>6, <2>1 DEF strlen
  <2>3. PICK size \in Nat : /\ size = StringSize(c.found, c.src)
                            /\ value = size - 1
    BY <1>2, <1>3, <1>4, <1>5, <1>6, <2>1
  <2>4. PICK r : r = Last(c, value)
    OBVIOUS
  <2>5. /\ r.fn = c.fn /\ r.at = "returned" /\ r.found = c.found /\ r.ret = value
        /\ r.src = c.src
    BY <1>2, <2>4, Lasts
  <2>6. LengthInv(r)
    BY <1>2, <2>3, <2>5 DEF LengthInv
  <2>7. CallInv(r)
    BY <1>2, <2>5, <2>6 DEF CallInv
  <2> QED
    BY <1>1, <1>2, <2>2, <2>4, <2>7, Returns
<1>7. CASE bytes[c.s] # 0
  <2>1. PICK c2 : c2 = Turn(c, "entry", c.d + 1, c.s + 1, 0)
    OBVIOUS
  <2>2. crt' = c2 /\ bytes' = bytes
    BY <1>1, <1>7, <2>1 DEF strlen, Advance, Turn
  <2>3. /\ c2 \in CrtCall /\ c2.fn = c.fn /\ c2.at = "entry"
        /\ c2.found = c.found /\ c2.src = c.src /\ c2.s = c.s + 1
    <3>1. c.d + 1 \in Int /\ c.s + 1 \in Int
      BY <1>2 DEF CrtCall
    <3> QED
      BY <1>2, <2>1, <3>1, Turns
  <2>4. c2.s = c2.src + (i + 1) /\ NoZero(c2.found, c2.src, i + 1)
    <3>1. c2.s = c2.src + (i + 1)
      BY <1>3, <1>4, <2>3
    <3> QED
      BY <1>2, <1>4, <1>5, <1>7, <2>3, <3>1
  <2>5. \E j \in Nat : c2.s = c2.src + j /\ NoZero(c2.found, c2.src, j)
    BY <2>4
  <2>6. LengthInv(c2)'
    BY <1>2, <2>2, <2>3, <2>5 DEF LengthInv, Terminated
  <2>7. CallInv(c2)'
    BY <1>2, <2>3, <2>6 DEF CallInv
  <2> QED
    BY <1>2, <2>2, <2>3, <2>7, Becomes
<1> QED
  BY <1>6, <1>7

LEMMA StringsCompareStep ==
  ASSUME CrtInv, strcmp
  PROVE  CrtInv'
<1>1. PICK c : c = crt
  OBVIOUS
<1>2. /\ c \in CrtCall /\ c.fn = "strcmp" /\ c.at = "entry" /\ c.fn # "strncpy"
      /\ bytes \in Memory /\ StringsCompareInv(c) /\ bytes = c.found
      /\ Terminated(c.found, c.dest) /\ Terminated(c.found, c.src)
  BY <1>1 DEF CrtInv, CallInv, StringsCompareInv, strcmp, In, Quiet
<1>3. /\ c.src \in Nat /\ c.dest \in Nat /\ c.found \in Memory
      /\ c.src \in CrtAddress /\ c.dest \in CrtAddress
  BY <1>2, MemoryAssumption DEF CrtCall, CrtAddress
<1>4. PICK i \in Nat :
        /\ Gone(c, i) /\ NoZero(c.found, c.dest, i)
        /\ \A j \in 0 .. i - 1 : c.found[c.dest + j] = c.found[c.src + j]
  BY <1>2 DEF StringsCompareInv
<1>5. NoZero(c.found, c.src, i)
  BY <1>4 DEF NoZero
<1>6. c.d = c.dest + i /\ c.s = c.src + i
  BY <1>4 DEF Gone
<1>7. /\ i < StringSize(c.found, c.dest) /\ c.dest + i \in CrtAddress
      /\ c.found[c.dest + i] = 0 => StringSize(c.found, c.dest) = i + 1
      /\ c.found[c.dest + i] # 0 => NoZero(c.found, c.dest, i + 1)
  BY <1>2, <1>3, <1>4, ZeroFound
<1>8. /\ i < StringSize(c.found, c.src) /\ c.src + i \in CrtAddress
      /\ c.found[c.src + i] = 0 => StringSize(c.found, c.src) = i + 1
  BY <1>2, <1>3, <1>5, ZeroFound
<1>9. PICK x \in Nat, y \in Nat :
        x = c.found[c.dest + i] /\ y = c.found[c.src + i]
  BY <1>3, <1>7, <1>8, MemoryAssumption DEF Memory
<1>10. PICK n \in Nat : /\ n = Shorter(c) /\ i < n
                        /\ x = 0 /\ y = 0 => n = i + 1
  <2>1. PICK a \in Nat, b \in Nat : /\ a = StringSize(c.found, c.dest)
                                    /\ b = StringSize(c.found, c.src)
    BY <1>2, <1>3, FirstZero
  <2> QED
    BY <1>7, <1>8, <1>9, <2>1 DEF Shorter
<1>11. CASE x # 0 /\ x = y
  <2>1. PICK c2 : c2 = Turn(c, "entry", c.d + 1, c.s + 1, 0)
    OBVIOUS
  <2>2. crt' = c2 /\ bytes' = bytes
    BY <1>1, <1>2, <1>6, <1>9, <1>11, <2>1 DEF strcmp, Advance, Turn
  <2>3. /\ c2 \in CrtCall /\ c2.fn = c.fn /\ c2.at = "entry"
        /\ c2.found = c.found /\ c2.src = c.src /\ c2.dest = c.dest
        /\ c2.s = c.s + 1 /\ c2.d = c.d + 1
    <3>1. c.d + 1 \in Int /\ c.s + 1 \in Int
      BY <1>2 DEF CrtCall
    <3> QED
      BY <1>2, <2>1, <3>1, Turns
  <2>4. Gone(c2, i + 1)
    BY <1>3, <1>6, <2>3 DEF Gone
  <2>5. \A j \in 0 .. (i + 1) - 1 : c.found[c.dest + j] = c.found[c.src + j]
    <3>1. \A j \in 0 .. (i + 1) - 1 : j \in 0 .. i - 1 \/ j = i
      OBVIOUS
    <3> QED
      BY <1>4, <1>9, <1>11, <3>1
  <2>6. NoZero(c.found, c.dest, i + 1)
    BY <1>7, <1>9, <1>11
  <2>7. \E k \in Nat :
          /\ Gone(c2, k) /\ NoZero(c.found, c.dest, k)
          /\ \A j \in 0 .. k - 1 : c.found[c.dest + j] = c.found[c.src + j]
    BY <2>4, <2>5, <2>6
  <2>8. StringsCompareInv(c2)'
    BY <1>2, <2>2, <2>3, <2>7 DEF StringsCompareInv, Terminated, Gone, NoZero
  <2>9. CallInv(c2)'
    BY <1>2, <2>3, <2>8 DEF CallInv
  <2> QED
    BY <1>2, <2>2, <2>3, <2>9, Becomes
<1>12. CASE ~(x # 0 /\ x = y)
  <2>1. PICK value \in Int : value = x - y
    OBVIOUS
  <2>2. Finish(value)
    BY <1>1, <1>2, <1>6, <1>9, <1>12, <2>1 DEF strcmp
  <2>3. Sign(value) = Order(c, n)
    <3>1. CASE x # y
      <4>1. i \in 0 .. n /\ i # n
        BY <1>10
      <4>2. Order(c, n) = Sign(x - y)
        BY <1>3, <1>4, <1>9, <3>1, <4>1, FirstDifference
      <4> QED
        BY <2>1, <4>2
    <3>2. CASE x = y
      <4>1. n = i + 1 /\ value = 0
        BY <1>10, <1>12, <2>1, <3>2
      <4>2. n \in 0 .. n
        OBVIOUS
      <4>3. \A j \in 0 .. n - 1 : c.found[c.dest + j] = c.found[c.src + j]
        <5>1. \A j \in 0 .. n - 1 : j \in 0 .. i - 1 \/ j = i
          BY <4>1
        <5> QED
          BY <1>4, <1>9, <3>2, <5>1
      <4>4. Order(c, n) = 0
        BY <1>3, <4>2, <4>3, FirstDifference
      <4> QED
        BY <4>1, <4>4 DEF Sign
    <3> QED
      BY <3>1, <3>2
  <2>4. PICK r : r = Last(c, value)
    OBVIOUS
  <2>5. /\ r.fn = c.fn /\ r.at = "returned" /\ r.found = c.found /\ r.ret = value
        /\ r.src = c.src /\ r.dest = c.dest
    BY <1>2, <2>4, Lasts
  <2>6. Order(r, Shorter(r)) = Order(c, Shorter(c))
    BY <2>5 DEF Order, Shorter
  <2>7. StringsCompareInv(r)
    BY <1>2, <1>10, <2>3, <2>5, <2>6 DEF StringsCompareInv
  <2>8. CallInv(r)
    BY <1>2, <2>5, <2>7 DEF CallInv
  <2> QED
    BY <1>1, <1>2, <2>2, <2>4, <2>8, Returns
<1> QED
  BY <1>11, <1>12

LEMMA StringCopyStep ==
  ASSUME CrtInv, strcpy
  PROVE  CrtInv'
<1>1. PICK c : c = crt
  OBVIOUS
<1>2. /\ c \in CrtCall /\ c.fn = "strcpy" /\ c.fn # "strncpy"
      /\ c.at \in {"entry", "copied"} /\ bytes \in Memory
      /\ StringCopyInv(c) /\ Terminated(c.found, c.src)
  BY <1>1 DEF CrtInv, CallInv, StringCopyInv, strcpy, In, Quiet
<1>3. /\ c.src \in Nat /\ c.dest \in Nat /\ c.found \in Memory
      /\ c.src \in CrtAddress /\ c.dest \in CrtAddress /\ LastAddress \in Nat
  BY <1>2, MemoryAssumption DEF CrtCall, CrtAddress
<1>4. PICK size \in Nat : size = StringSize(c.found, c.src)
  BY <1>2, <1>3, FirstZero
<1>5. /\ c.dest + size <= LastAddress
      /\ c.dest + size <= c.src \/ c.src + size <= c.dest
  BY <1>2, <1>4 DEF StringCopyInv, InMemory, Apart
<1>6. CASE c.at = "copied"
  <2>1. Finish(c.dest) /\ c.dest \in Int
    BY <1>1, <1>3, <1>6 DEF strcpy, In
  <2>2. PICK r : r = Last(c, c.dest)
    OBVIOUS
  <2>3. /\ r.fn = c.fn /\ r.at = "returned" /\ r.found = c.found
        /\ r.src = c.src /\ r.dest = c.dest
    BY <1>2, <2>1, <2>2, Lasts
  <2>4. bytes = Copied(r, size)
    <3>1. bytes = Copied(c, size)
      BY <1>2, <1>4, <1>6 DEF StringCopyInv
    <3> QED
      BY <2>3, <3>1 DEF Copied
  <2>5. StringCopyInv(r)
    BY <1>2, <1>4, <2>3, <2>4 DEF StringCopyInv
  <2>6. CallInv(r)
    BY <1>2, <2>3, <2>5 DEF CallInv
  <2> QED
    BY <1>1, <1>2, <2>1, <2>2, <2>6, Returns
<1>7. CASE c.at = "entry"
  <2>1. PICK i \in Nat : /\ Gone(c, i) /\ NoZero(c.found, c.src, i)
                         /\ bytes = Part(c.found, c.dest, c.src, 0, i)
    BY <1>2, <1>7 DEF StringCopyInv
  <2>2. /\ i < size /\ c.src + i \in CrtAddress
        /\ c.found[c.src + i] = 0 => size = i + 1
        /\ c.found[c.src + i] # 0 => NoZero(c.found, c.src, i + 1)
    BY <1>2, <1>3, <1>4, <2>1, ZeroFound
  <2>3. c.dest + i \in CrtAddress /\ (c.src >= c.dest \/ c.src + i < c.dest)
    BY <1>3, <1>5, <2>2 DEF CrtAddress
  <2>4. c.d = c.dest + i /\ c.s = c.src + i
    BY <2>1 DEF Gone
  <2>5. PICK m \in Memory : m = bytes /\ m = Part(c.found, c.dest, c.src, 0, i)
    BY <1>2, <2>1
  <2>6. m[c.src + i] = c.found[c.src + i]
    <3>1. ~(c.dest + 0 <= c.src + i /\ c.src + i < c.dest + i)
      BY <1>3, <1>5, <2>2
    <3> QED
      BY <2>2, <2>5, <3>1 DEF Part
  <2>7. PICK m2 \in Memory : /\ m2 = bytes'
                             /\ m2 = Part(c.found, c.dest, c.src, 0, i + 1)
    <3>1. bytes' = [m EXCEPT ![c.dest + i] = m[c.src + i]]
      BY <1>1, <1>7, <2>4, <2>5 DEF strcpy, In, Put
    <3> QED
      BY <1>3, <2>2, <2>3, <2>5, <3>1, CopiesUp
  <2>8. PICK at \in {"entry", "copied"} :
          at = IF c.found[c.src + i] = 0 THEN "copied" ELSE "entry"
    OBVIOUS
  <2>9. PICK c2 : c2 = Turn(c, at, c.d + 1, c.s + 1, 0)
    OBVIOUS
  <2>10. crt' = c2
    <3>1. at = IF bytes[crt.s] = 0 THEN "copied" ELSE "entry"
      BY <1>1, <2>4, <2>5, <2>6, <2>8
    <3> QED
      BY <1>1, <1>7, <2>9, <3>1 DEF strcpy, In, Advance, Turn
  <2>11. /\ c2 \in CrtCall /\ c2.fn = c.fn /\ c2.at = at
         /\ c2.found = c.found /\ c2.src = c.src /\ c2.dest = c.dest
         /\ c2.s = c.s + 1 /\ c2.d = c.d + 1
    <3>1. c.d + 1 \in Int /\ c.s + 1 \in Int /\ 0 \in Int
      BY <1>2 DEF CrtCall
    <3>2. at \in {"entry", "forward", "backward", "copied"}
      OBVIOUS
    <3> QED
      BY <1>2, <2>9, <3>1, <3>2, Turns
  <2>12. Gone(c2, i + 1)
    BY <1>3, <2>4, <2>11 DEF Gone
  <2>13. at = "entry" => \E k \in Nat :
           /\ Gone(c2, k) /\ NoZero(c.found, c.src, k)
           /\ m2 = Part(c.found, c.dest, c.src, 0, k)
    BY <2>2, <2>7, <2>8, <2>12
  <2>14. at = "copied" => m2 = Copied(c2, size)
    <3>1. Copied(c2, size) = Copied(c, size)
      BY <2>11 DEF Copied
    <3>2. ASSUME at = "copied"
          PROVE  m2 = Copied(c, size)
      <4>1. size = i + 1
        BY <2>2, <2>8, <3>2
      <4>2. m2 = Part(c.found, c.dest, c.src, 0, size)
        BY <2>7, <4>1
      <4> QED
        BY <1>3, <4>2, Parts
    <3> QED
      BY <3>1, <3>2
  <2>15. /\ Terminated(c2.found, c2.src) /\ InMemory(c2.dest, size)
         /\ Apart(c2.dest, size, c2.src, size)
         /\ size = StringSize(c2.found, c2.src)
    BY <1>2, <1>4, <2>11 DEF StringCopyInv
  <2>16. StringCopyInv(c2)'
    BY <2>7, <2>8, <2>11, <2>13, <2>14, <2>15
       DEF StringCopyInv, Terminated, InMemory, Apart, StringSize, End,
           Gone, NoZero, Part, Copied
  <2>17. CallInv(c2)'
    BY <1>2, <2>11, <2>16 DEF CallInv
  <2> QED
    BY <1>2, <2>7, <2>10, <2>11, <2>17, Becomes
<1> QED
  BY <1>2, <1>6, <1>7

\* The limit of strncpy is what MCNativesStrncpy checks; the call stays a call.
LEMMA LimitedCopyStep ==
  ASSUME CrtInv, strncpy
  PROVE  CrtInv'
<1>1. crt \in CrtCall /\ crt.fn = "strncpy"
  BY DEF CrtInv, strncpy, In, Quiet
<1>2. crt' \in CrtCall /\ crt'.fn = "strncpy"
  <2>1. /\ crt.d + 1 \in Int /\ crt.s + 1 \in Int /\ crt.n - 1 \in Int
        /\ crt.dest \in Int
    BY <1>1, MemoryAssumption DEF CrtCall, CrtAddress
  <2> QED
    BY <1>1, <2>1 DEF strncpy, In, Goto, Finish, Advance, CrtCall
<1> QED
  BY <1>2 DEF CrtInv

LEMMA CrtPreserved ==
  ASSUME CrtInv, [CrtNext]_crtVars
  PROVE  CrtInv'
<1>1. CASE Enter
  BY <1>1, Entered
<1>2. CASE GoOn
  BY <1>2 DEF GoOn, CrtInv, Quiet
<1>3. CASE UNCHANGED crtVars
  BY <1>3 DEF crtVars, CrtInv, CallInv, MoveInv, SetInv, CompareInv, LengthInv,
              StringsCompareInv, StringCopyInv
<1> QED
  BY <1>1, <1>2, <1>3, MoveStep, FillStep, CompareStep, LengthStep,
     StringsCompareStep, StringCopyStep, LimitedCopyStep DEF CrtNext

LEMMA CrtKept ==
  ASSUME CrtInv
  PROVE  MeetsC
<1>1. PICK c : c = crt
  OBVIOUS
<1>2. SUFFICES ASSUME c.at = "returned", c.fn # "strncpy"
               PROVE  MeetsC
  <2>1. c.fn = "strncpy" => MeetsC
    BY <1>1 DEF MeetsC
  <2> QED
    BY <1>1, <1>2, <2>1 DEF MeetsC
<1>3. c \in CrtCall /\ CallInv(c)
  BY <1>1, <1>2 DEF CrtInv, Quiet
<1>4. c.fn \in CrtFunctions
  BY <1>3 DEF CrtCall
<1>5. c.fn \in {"memcpy", "memmove"} => bytes = Copied(c, c.count)
  BY <1>2, <1>3 DEF CallInv, MoveInv
<1>6. c.fn = "memset" => bytes = SetTo(c)
  BY <1>2, <1>3 DEF CallInv, SetInv
<1>7. c.fn = "memcmp" => c.ret = Order(c, c.count)
  BY <1>2, <1>3 DEF CallInv, CompareInv
<1>8. c.fn = "strlen" => c.ret = StringSize(c.found, c.src) - 1
  BY <1>2, <1>3 DEF CallInv, LengthInv
<1>9. c.fn = "strcmp" => Sign(c.ret) = Order(c, Shorter(c))
  BY <1>2, <1>3 DEF CallInv, StringsCompareInv
<1>10. c.fn = "strcpy" => bytes = Copied(c, StringSize(c.found, c.src))
  BY <1>2, <1>3 DEF CallInv, StringCopyInv
<1> QED
  BY <1>1, <1>2, <1>4, <1>5, <1>6, <1>7, <1>8, <1>9, <1>10
     DEF MeetsC, CrtFunctions

\* The functions of kernel_stubs.c do what C says of them, for every memory,
\* length and overlap of the buffers: memmove copies in the direction that
\* reads no byte it has written.
THEOREM FunctionsMeetC == CrtSpec => []MeetsC
<1>1. CrtInit => CrtInv
  BY DEF CrtInit, CrtInv
<1> QED
  BY <1>1, CrtPreserved, CrtKept, PTL DEF CrtSpec
=============================================================================
