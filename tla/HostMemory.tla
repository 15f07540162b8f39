------------------------------ MODULE HostMemory ------------------------------
(***************************************************************************)
(* The natives that read, write and compare-and-exchange memory            *)
(* (natives_impl_windows.cpp): physical_read, physical_write,              *)
(* virtual_read, virtual_write and virtual_cmpxchg at two of their widths. *)
(*                                                                         *)
(* The modules that call them, each in a VM and a thread of its own, keep  *)
(* a counter each in adjacent bytes of one word.  Some go at their byte    *)
(* with a byte read and a byte write, the others at the word with a read   *)
(* and a compare-and-exchange, which they try again until it succeeds.     *)
(***************************************************************************)
EXTENDS Integers

CONSTANTS
  Owner,       \* thread that owns the low and the high byte of the word
  ByteSize     \* values of a byte; a word has ByteSize ^ 2

ASSUME ByteAssumption ==
  ByteSize \in Nat /\ ByteSize > 1 /\ ByteSize % 2 = 0

\* A VM runs one call at a time, and the bytes are those of two VMs.
ASSUME OwnerAssumption == Owner["low"] # Owner["high"]

VARIABLES
  word,        \* the two bytes, low and high
  width,       \* of every thread how it goes at its byte
  got,         \* of every thread the cell it has read, or NoCell
  told         \* of every thread the writes it was told succeeded, as a byte

memVars == <<word, width, got, told>>

NoCell == -1
WordSize == ByteSize * ByteSize
Low  == "low"
High == "high"
Users == {Owner[Low], Owner[High]}
ByteOf(t) == IF t = Owner[Low] THEN Low ELSE High
Weight(b) == IF b = Low THEN 1 ELSE ByteSize

Widths == {"byte", "word"}
-----------------------------------------------------------------------------
(***************************************************************************)
(* Values of type T: (T)v keeps the low bits of a cell, and a signed type  *)
(* takes the upper half of them for negative numbers.                      *)
(***************************************************************************)
Truncated(v, space) == v % space
Signed(v, space) ==
  LET low == v % space IN IF low < space \div 2 THEN low ELSE low - space

Fetch(t) ==
  IF width[t] = "byte" THEN word[ByteOf(t)]
  ELSE word[Low] + ByteSize * word[High]

Spread(v) == [b \in {Low, High} |-> (v \div Weight(b)) % ByteSize]

\* A page that is absent raises an exception, and MmGetVirtualForPhysical
\* may find no address: either way the native returns a status and no more.
Missed(t) == got' = [got EXCEPT ![t] = NoCell] /\ UNCHANGED <<word, told>>

MemoryInit ==
  /\ word = [b \in {Low, High} |-> 0]
  /\ width \in [Users -> Widths]
  /\ got = [t \in Users |-> NoCell]
  /\ told = [t \in Users |-> 0]

ReadCell(t) ==
  /\ got[t] = NoCell
  /\ got' = [got EXCEPT ![t] = Fetch(t)]
  /\ UNCHANGED <<word, told, width>>

Told(t) == told' = [told EXCEPT ![t] = (@ + 1) % ByteSize]

\* The module adds one to the cell it read and leaves the rest to (T)v.
WriteByte(t) ==
  /\ got[t] # NoCell
  /\ width[t] = "byte"
  /\ \/ /\ word' = [word EXCEPT ![ByteOf(t)] = Truncated(got[t] + 1, ByteSize)]
        /\ got' = [got EXCEPT ![t] = NoCell]
        /\ Told(t)
     \/ Missed(t)
  /\ UNCHANGED width

(***************************************************************************)
(* virtual_cmpxchg: the interlocked operation returns a signed value, and  *)
(* success is decided by comparing it with the comparand as the same type. *)
(***************************************************************************)
Before == Signed(word[Low] + ByteSize * word[High], WordSize)

MutantComparand(c) == c
Comparand(c) == Signed(c, WordSize)

\* One more in the byte of t, without a carry into the next.
Bumped(t, v) ==
  LET b == ByteOf(t)
      old == Spread(v)[b]
  IN  v + (((old + 1) % ByteSize) - old) * Weight(b)

Exchange(t) ==
  /\ word' = IF Before = Signed(got[t], WordSize)
               THEN Spread(Truncated(Bumped(t, got[t]), WordSize)) ELSE word
  /\ got' = [got EXCEPT ![t] = NoCell]
  /\ IF Comparand(got[t]) = Before THEN Told(t) ELSE told' = told

Cmpxchg(t) ==
  /\ got[t] # NoCell
  /\ width[t] = "word"
  /\ Exchange(t) \/ Missed(t)
  /\ UNCHANGED width

MemoryNext(t) == t \in Users /\ (ReadCell(t) \/ WriteByte(t) \/ Cmpxchg(t))

MemorySpec == MemoryInit /\ [][\E t \in Users : MemoryNext(t)]_memVars
-----------------------------------------------------------------------------
(***************************************************************************)
(* A byte counts the writes its owner was told succeeded: no write reaches *)
(* beyond its width or undoes one of the other VM, and no status is wrong  *)
(* about what was done -- also in the upper half of a type, where a value  *)
(* that was read and the same value signed are different cells.            *)
(***************************************************************************)
BytesAreTheirOwners ==
  \A b \in {Low, High} : word[b] = told[Owner[b]]
=============================================================================
