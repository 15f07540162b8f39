--------------------------- MODULE AmxLoaderProofs ---------------------------
(***************************************************************************)
(* Proofs about AmxLoader, for any files, natives and sizes.               *)
(***************************************************************************)
EXTENDS AmxLoader, SequenceTheorems, WellFoundedInduction, TLAPS

Building == {"copy", "map", "fill", "finish"}
Phases == {"header", "sections", "count", "alloc", "returned", "destroyed"}
            \cup Building

\* The first pass has been through the three tables.
Counted == phase \in Building \cup {"alloc"} \/ result = "success"

Row(t) == IF t = "natives" THEN {Text(o) : o \in Nat}
          ELSE [name : Nat, len : Nat, address : Nat]

LoaderTypes ==
  /\ img \in Images
  /\ phase \in Phases
  /\ result \in Results
  /\ table \in 1 .. 3
  /\ index \in Nat
  /\ codeCount \in Nat /\ dataCount \in Nat /\ dataAllocCount \in Nat
  /\ count \in [TableSet -> Nat]
  /\ strings \in Nat
  /\ strIt \in Nat
  /\ DOMAIN filled = TableSet
  /\ \A t \in TableSet : filled[t] \in Seq(Row(t))
  /\ written \subseteq [region : TableSet \cup {"code", "data", "strings"},
                        lo : Nat, hi : Nat]

(***************************************************************************)
(* The sections are whole cells, and their counts are those of the file.   *)
(***************************************************************************)
SectionsInv ==
  phase = "count" \/ Counted =>
    /\ img.cod <= img.dat /\ img.dat <= img.hea
    /\ codeCount * CellSize = img.dat - img.cod
    /\ dataCount * CellSize = img.hea - img.dat
    /\ dataAllocCount = dataCount + ExtraSize \div CellSize

(***************************************************************************)
(* The entries counted are those of the tables up to the position of the   *)
(* first pass, and each of them had a name, a native one that resolves.    *)
(***************************************************************************)
Num(t) == CASE t = "publics" -> 1 [] t = "natives" -> 2 [] t = "pubvars" -> 3

CountInv ==
  /\ phase \in {"sections", "count"} => img.defsize # 0
  /\ phase \in {"header", "sections"} =>
       /\ table = 1 /\ index = 0 /\ strings = 0
       /\ \A t \in TableSet : count[t] = 0
  /\ phase = "count" => \A t \in TableSet :
       /\ Num(t) < table => ValidTable(t) /\ count[t] = Entries(t)
       /\ Num(t) = table =>
            /\ count[t] = index
            /\ index # 0 => ValidTable(t) /\ index <= Entries(t)
       /\ Num(t) > table => count[t] = 0
  /\ Counted => \A t \in TableSet : ValidTable(t) /\ count[t] = Entries(t)
  /\ \A t \in TableSet : \A i \in 0 .. count[t] - 1 :
       Terminated(NameOfs(t, i)) /\ Found(t, NameOfs(t, i))

(***************************************************************************)
(* p[t][i] is what the first pass had counted of `strings` when it came to *)
(* entry i of table t; the second pass is as far into the strings when it  *)
(* comes to that entry.                                                    *)
(***************************************************************************)
Room(t, i) == IF t = "natives" THEN 0 ELSE NameRoom(NameOfs(t, i))

IsRoomBefore(p) ==
  /\ p \in [TableSet -> [Nat -> Nat]]
  /\ p["publics"][0] = 0
  /\ p["natives"][0] = p["publics"][count["publics"]]
  /\ p["pubvars"][0] = p["natives"][count["natives"]]
  /\ \A t \in TableSet :
       /\ \A i \in 0 .. count[t] - 1 : p[t][i + 1] = p[t][i] + Room(t, i)
       /\ \A i \in 0 .. count[t] : p[t][i] <= strings

StringsInv ==
  \E p : /\ IsRoomBefore(p)
         /\ phase = "count" => strings = p[Table][index]
         /\ phase \in {"map", "fill"} =>
              strIt = Before("strings") + p[Table][index]

(***************************************************************************)
(* The second pass has filled as many entries as it has read.              *)
(***************************************************************************)
FilledInv ==
  /\ phase \in {"alloc", "copy", "map"} => table = 1 /\ index = 0
  /\ phase \in {"header", "sections", "count", "alloc", "copy", "map"} =>
       \A t \in TableSet : Len(filled[t]) = 0
  /\ phase = "fill" => \A t \in TableSet :
       /\ Num(t) < table => Len(filled[t]) = count[t]
       /\ Num(t) = table => Len(filled[t]) = index /\ index <= count[t]
       /\ Num(t) > table => Len(filled[t]) = 0
  /\ phase = "finish" \/ result = "success" =>
       \A t \in TableSet : Len(filled[t]) = count[t]

(***************************************************************************)
(* What it filled in is the file's, and the names are in the block.        *)
(***************************************************************************)
IsRow(t, i, row) ==
  IF t = "natives" THEN row = Text(NameOfs(t, i))
  ELSE /\ row.address = Address(t, i)
       /\ row.len = NameLen(NameOfs(t, i))
       /\ Span("strings", row.name, row.name + row.len) \in written

RowsInv ==
  \A t \in TableSet : \A i \in 1 .. Len(filled[t]) :
    IsRow(t, i - 1, filled[t][i])

(***************************************************************************)
(* What is written is in its region, and names end before the next begins. *)
(***************************************************************************)
BlockInv ==
  /\ phase \in {"header", "sections", "count", "alloc"} =>
       alloc = NoBlock /\ written = {}
  /\ phase = "copy" => written = {}
  /\ phase \in Building => alloc = AllocSize
  /\ alloc \in {NoBlock, AllocSize}

SpansInv ==
  /\ written # {} => strIt <= RegionEnd("strings")
  /\ \A w \in written :
       /\ Before(w.region) <= w.lo /\ w.lo <= w.hi
       /\ w.hi <= RegionEnd(w.region)
       /\ w.region = "strings" => w.hi < strIt
  /\ \A v, w \in written :
       w.region = "strings" /\ v # w => ~(v.lo <= w.hi /\ w.hi < v.hi)

RegsInv ==
  result = "success" =>
    regs = [stk |-> StackTop, hea |-> dataCount * CellSize]

ResultInv ==
  /\ result # "none" <=> phase \in {"returned", "destroyed"}

LoaderInv ==
  /\ LoaderTypes /\ SectionsInv /\ CountInv /\ StringsInv /\ FilledInv /\ RowsInv
  /\ BlockInv /\ SpansInv /\ RegsInv /\ ResultInv

-----------------------------------------------------------------------------
\* Products of what the second pass counts.
LEMMA Times ==
  ASSUME NEW a \in Int, NEW b \in Int, NEW d \in Nat, a <= b
  PROVE  a * d \in Int /\ b * d \in Int /\ a * d <= b * d
  OBVIOUS

\* So are sizes: a count of entries times the size of one.
LEMMA TimesNat ==
  ASSUME NEW a \in Nat, NEW d \in Nat
  PROVE  a * d \in Nat
  OBVIOUS

\* Rounding up to the alignment loses nothing and keeps the order.
LEMMA RoundedUp ==
  ASSUME NEW n \in Nat
  PROVE  /\ AlignUp(n) \in Nat /\ n <= AlignUp(n)
         /\ \A m \in Nat : m <= n => AlignUp(m) <= AlignUp(n)
<1>1. Align \in Nat \ {0}
  BY SizesAssumption
<1>2. ASSUME NEW m \in Nat
      PROVE  \E q \in Nat, r \in 0 .. Align - 1 :
               /\ q = (m + Align - 1) \div Align
               /\ m + Align - 1 = q * Align + r
  <2>1. PICK a \in Nat : a = m + Align - 1
    BY <1>1
  <2>2. /\ a \div Align \in Nat /\ a % Align \in 0 .. Align - 1
        /\ a = ((a \div Align) * Align) + (a % Align)
    BY <1>1, <2>1
  <2> QED
    BY <2>1, <2>2
<1>3. PICK q \in Nat, r \in 0 .. Align - 1 :
        /\ q = (n + Align - 1) \div Align
        /\ n + Align - 1 = q * Align + r
  BY <1>2
<1>4. AlignUp(n) \in Nat /\ n <= AlignUp(n)
  <2>1. PICK s \in Nat : s = q * Align
    BY <1>1, TimesNat
  <2> QED
    BY <1>1, <1>3, <2>1 DEF AlignUp
<1>5. ASSUME NEW m \in Nat, m <= n PROVE AlignUp(m) <= AlignUp(n)
  <2>1. PICK k \in Nat : k = (m + Align - 1) \div Align
    BY <1>2
  <2>2. k <= q
    BY <1>1, <1>3, <1>5, <2>1
  <2> QED
    BY <1>1, <1>3, <2>1, <2>2, Times DEF AlignUp
<1> QED
  BY <1>4, <1>5

\* The fields of a file that init reads.
LEMMA Fields ==
  ASSUME img \in Images
  PROVE  /\ img.bufSize \in Nat
         /\ img.cod \in Nat /\ img.dat \in Nat /\ img.hea \in 0 .. U32 - 1
         /\ img.stp \in 0 .. U32 - 1 /\ img.defsize \in Nat
         /\ img.cip \in Nat
         /\ img.publics \in Nat /\ img.natives \in Nat
         /\ img.libraries \in Nat /\ img.pubvars \in Nat /\ img.tags \in Nat
         /\ img.zeros \subseteq Nat
         /\ \A q \in DOMAIN img.nameofs : img.nameofs[q] \in 0 .. U32 - 1
         /\ \A q \in DOMAIN img.address : img.address[q] \in 0 .. U32 - 1
<1>1. IsImage(img)
  BY ImagesAssumption
<1>2. U32 \in Nat \ {0}
  BY SizesAssumption
<1> QED
  BY <1>1, <1>2 DEF IsImage

\* A word read from the file, or past its end, is a number.
LEMMA Reads ==
  ASSUME img \in Images, NEW t, NEW i
  PROVE  NameOfs(t, i) \in Nat /\ Address(t, i) \in Nat
<1>1. U32 \in Nat \ {0}
  BY SizesAssumption
<1> QED
  BY <1>1, Fields DEF NameOfs, Address, Word

LessThan == {ss \in Nat \X Nat : ss[1] < ss[2]}

\* Every set of offsets has a least one.
LEMMA WellOrdered == IsWellFoundedOn(LessThan, Nat)
  BY NatLessThanWellFounded, Zenon DEF OpToRel, LessThan

\* A name ends at a byte of the file or at its end.
LEMMA NameEnds ==
  ASSUME img \in Images, NEW o \in Nat
  PROVE  NameEnd(o) \in Nat
<1> DEFINE ends == {z \in img.zeros : o <= z /\ z < img.bufSize}
<1>1. img.bufSize \in Nat /\ ends \subseteq Nat
  BY Fields
<1>2. CASE ends = {}
  BY <1>1, <1>2 DEF NameEnd
<1>3. CASE ends # {}
  <2> HIDE DEF ends
  <2>1. PICK z \in ends : \A y \in ends : <<y, z>> \notin LessThan
    BY <1>1, <1>3, WFMin, WellOrdered
  <2>2. \A y \in ends : z <= y
    <3> TAKE y \in ends
    <3>1. y \in Nat /\ z \in Nat
      BY <1>1
    <3>2. ~(y < z)
      BY <2>1, <3>1 DEF LessThan
    <3> QED
      BY <3>1, <3>2
  <2>3. (CHOOSE x \in ends : \A y \in ends : x <= y) \in ends
    BY <2>2
  <2>4. NameEnd(o) = CHOOSE x \in ends : \A y \in ends : x <= y
    BY <1>3 DEF NameEnd, ends
  <2> QED
    BY <1>1, <2>3, <2>4
<1> QED
  BY <1>2, <1>3

\* A name that has an end has a length, and room for its zero byte.
LEMMA NameLengths ==
  ASSUME img \in Images, NEW o \in Nat, Terminated(o)
  PROVE  NameLen(o) \in Nat /\ NameRoom(o) = NameLen(o) + 1
  BY NameEnds DEF Terminated, NameLen, NameRoom

\* A table that valid_array accepts holds whole entries.
LEMMA TableSizes ==
  ASSUME img \in Images, NEW t \in TableSet, ValidTable(t), img.defsize # 0
  PROVE  Entries(t) \in Nat
<1>1. TableEnd(t) - TableBegin(t) \in Nat
  BY Fields DEF ValidTable, ValidArray, TableBegin, TableEnd, TableSet
<1>2. img.defsize \in Nat \ {0}
  BY Fields
<1> QED
  BY <1>1, <1>2 DEF Entries

\* The tables in the order of the passes.
LEMMA Order ==
  ASSUME table \in 1 .. 3
  PROVE  /\ Table \in TableSet /\ Num(Table) = table
         /\ \A t \in TableSet : Num(t) \in 1 .. 3 /\ (Num(t) = table => t = Table)
         /\ Len(Tables) = 3
<1>1. table = 1 \/ table = 2 \/ table = 3
  OBVIOUS
<1> QED
  BY <1>1 DEF Table, Tables, TableSet, Num

\* What depends on the file alone does not change while the file does not.
LEMMA SameFile ==
  ASSUME img' = img, NEW t \in TableSet, NEW i, NEW o
  PROVE  /\ NameOfs(t, i)' = NameOfs(t, i) /\ Address(t, i)' = Address(t, i)
         /\ NameEnd(o)' = NameEnd(o) /\ NameLen(o)' = NameLen(o)
         /\ Text(o)' = Text(o) /\ Terminated(o)' = Terminated(o)
         /\ Found(t, o)' = Found(t, o)
         /\ Room(t, i)' = Room(t, i) /\ Row(t)' = Row(t)
  BY DEF NameOfs, Address, NameEnd, NameLen, Text, Terminated, Found, Resolved,
         Room, NameRoom, Row, Word, EntryAt, TableBegin

\* Neither do its tables.
LEMMA SameTables ==
  ASSUME img' = img, NEW t \in TableSet
  PROVE  Entries(t)' = Entries(t) /\ ValidTable(t)' = ValidTable(t)
  BY DEF Entries, ValidTable, ValidArray, TableBegin, TableEnd

\* Nor do the regions once the first pass has counted.
LEMMA SameRegions ==
  ASSUME UNCHANGED <<sizes, counted>>, NEW r
  PROVE  /\ Before(r)' = Before(r) /\ Bytes(r)' = Bytes(r)
         /\ RegionEnd(r)' = RegionEnd(r) /\ AllocSize' = AllocSize
  BY DEF sizes, counted, Before, Bytes, RegionEnd, AllocSize, AlignUp

\* The regions lie in the block one after the other.
LEMMA Layout ==
  ASSUME LoaderTypes
  PROVE  /\ \A r \in TableSet \cup {"code", "data"} :
              /\ Before(r) \in Nat /\ Bytes(r) \in Nat
              /\ RegionEnd(r) = Before(r) + Bytes(r)
              /\ RegionEnd(r) <= Before("strings")
         /\ Before("strings") \in Nat
         /\ RegionEnd("strings") = Before("strings") + strings
         /\ RegionEnd("strings") <= AllocSize
         /\ AllocSize \in Nat
<1>1. /\ codeCount \in Nat /\ dataAllocCount \in Nat /\ strings \in Nat
      /\ count["publics"] \in Nat /\ count["pubvars"] \in Nat
      /\ count["natives"] \in Nat
  BY DEF LoaderTypes, TableSet
<1>2. /\ CellSize \in Nat /\ PairSize \in Nat /\ PtrSize \in Nat
      /\ PtrSize <= PairSize
  BY SizesAssumption
<1> DEFINE c == Bytes("code")
           d == Bytes("data")
           p == Bytes("publics")
           v == Bytes("pubvars")
           n == Bytes("natives")
           n2 == count["natives"] * PairSize
<1>3. /\ c \in Nat /\ d \in Nat /\ p \in Nat /\ v \in Nat /\ n \in Nat
      /\ n2 \in Nat
  BY <1>1, <1>2, TimesNat DEF Bytes
<1>4. n <= n2
  <2>1. \A x, y, z \in Nat : x <= y => z * x <= z * y
    OBVIOUS
  <2> QED
    BY <1>1, <1>2, <2>1 DEF Bytes
<1>5. /\ Before("code") = 0
      /\ Before("data") = AlignUp(c)
      /\ Before("publics") = AlignUp(c) + AlignUp(d)
      /\ Before("pubvars") = AlignUp(c) + AlignUp(d) + AlignUp(p)
      /\ Before("natives") = AlignUp(c) + AlignUp(d) + AlignUp(p) + AlignUp(v)
      /\ Before("strings") = AlignUp(c) + AlignUp(d) + AlignUp(p) + AlignUp(v)
                               + AlignUp(n)
      /\ AllocSize = Before("natives") + AlignUp(n2) + strings
  BY DEF Before, AllocSize
<1>6. /\ \A r \in TableSet \cup {"code", "data"} :
           RegionEnd(r) = Before(r) + Bytes(r)
      /\ RegionEnd("strings") = Before("strings") + strings
  BY DEF RegionEnd, TableSet
<1> HIDE DEF c, d, p, v, n, n2
<1>7. /\ AlignUp(c) \in Nat /\ c <= AlignUp(c)
      /\ AlignUp(d) \in Nat /\ d <= AlignUp(d)
      /\ AlignUp(p) \in Nat /\ p <= AlignUp(p)
      /\ AlignUp(v) \in Nat /\ v <= AlignUp(v)
      /\ AlignUp(n) \in Nat /\ n <= AlignUp(n)
      /\ AlignUp(n2) \in Nat /\ AlignUp(n) <= AlignUp(n2)
  BY <1>3, <1>4, RoundedUp
<1>8. /\ Before("strings") \in Nat /\ AllocSize \in Nat
      /\ Before("strings") + strings <= AllocSize
  BY <1>1, <1>5, <1>7
<1>9. /\ Before("code") \in Nat /\ Before("code") + c <= Before("strings")
      /\ Before("data") \in Nat /\ Before("data") + d <= Before("strings")
      /\ Before("publics") \in Nat /\ Before("publics") + p <= Before("strings")
      /\ Before("pubvars") \in Nat /\ Before("pubvars") + v <= Before("strings")
      /\ Before("natives") \in Nat /\ Before("natives") + n <= Before("strings")
  BY <1>3, <1>5, <1>7
<1>10. \A r \in TableSet \cup {"code", "data"} :
         /\ Before(r) \in Nat /\ Bytes(r) \in Nat
         /\ Before(r) + Bytes(r) <= Before("strings")
  BY <1>3, <1>9 DEF TableSet, c, d, p, v, n
<1> QED
  BY <1>6, <1>8, <1>10

-----------------------------------------------------------------------------
\* What a step may change, by where init is.
LEMMA StepFacts ==
  ASSUME LoaderTypes, ResultInv, [Next]_vars
  PROVE  /\ img' = img
         /\ phase # "sections" => UNCHANGED sizes
         /\ phase # "count" => UNCHANGED counted
         /\ phase' = "count" => phase \in {"sections", "count"}
         /\ phase' \in {"header", "sections"} => phase \in {"header", phase'}
         /\ phase = "sections" /\ phase' = "count" => CountSections
         /\ Counted' => Counted \/ (phase = "count" /\ CountNext)
         /\ phase' \in Phases /\ result' \in Results
         /\ ResultInv'
<1> USE DEF LoaderTypes, ResultInv, Phases, Building, Results, Counted
<1>1. CASE CheckHeader
  BY <1>1 DEF CheckHeader, HeaderError, Go, Return
<1>2. CASE CountSections
  BY <1>2 DEF CountSections, Go, Return
<1>3. CASE CountRefused
  BY <1>3 DEF CountRefused, Refused, Return
<1>4. CASE CountEntry
  BY <1>4 DEF CountEntry
<1>5. CASE CountNext
  BY <1>5 DEF CountNext, NextTable
<1>6. CASE Allocate
  BY <1>6 DEF Allocate, Go, Return
<1>7. CASE Copy
  BY <1>7 DEF Copy, Go
<1>8. CASE Map
  BY <1>8 DEF Map, Go, Return
<1>9. CASE FillEntry
  BY <1>9 DEF FillEntry
<1>10. CASE FillNext
  BY <1>10 DEF FillNext, NextTable
<1>11. CASE Finish
  BY <1>11 DEF Finish, Return
<1>12. CASE Destroy
  BY <1>12 DEF Destroy
<1>13. CASE UNCHANGED vars
  BY <1>13 DEF vars, sizes, counted
<1> QED
  BY <1>1, <1>2, <1>3, <1>4, <1>5, <1>6, <1>7, <1>8, <1>9, <1>10, <1>11,
     <1>12, <1>13 DEF Next

\* CountSections: whole cells of code and of data.
LEMMA SectionsCounted ==
  ASSUME LoaderTypes, CountSections
  PROVE  /\ codeCount' \in Nat /\ dataCount' \in Nat /\ dataAllocCount' \in Nat
         /\ phase' = "count" =>
              /\ img.cod <= img.dat /\ img.dat <= img.hea
              /\ codeCount' * CellSize = img.dat - img.cod
              /\ dataCount' * CellSize = img.hea - img.dat
              /\ dataAllocCount' = dataCount' + ExtraSize \div CellSize
<1>1. CellSize \in Nat \ {0} /\ U32 \in Nat \ {0}
  BY SizesAssumption
<1>2. /\ img.cod \in Nat /\ img.dat \in Nat /\ img.hea \in Nat
      /\ img.stp \in Nat
  BY <1>1, Fields DEF LoaderTypes
<1>3. CASE /\ ValidArray(img.cod, img.dat, CellSize)
           /\ ValidArray(img.dat, img.hea, CellSize)
  <2>1. /\ codeCount' = (img.dat - img.cod) \div CellSize
        /\ dataCount' = (img.hea - img.dat) \div CellSize
        /\ dataAllocCount' = dataCount' + ExtraSize \div CellSize
    BY <1>3 DEF CountSections
  <2>2. PICK a, b \in Nat : /\ a = img.dat - img.cod /\ a % CellSize = 0
                            /\ b = img.hea - img.dat /\ b % CellSize = 0
    BY <1>2, <1>3 DEF ValidArray
  <2>3. /\ a \div CellSize \in Nat /\ (a \div CellSize) * CellSize = a
        /\ b \div CellSize \in Nat /\ (b \div CellSize) * CellSize = b
    BY <1>1, <2>2
  <2>4. ExtraSize \div CellSize \in Nat
    <3>1. PICK e \in Nat : e = ExtraSize
      BY <1>1, <1>2 DEF ExtraSize
    <3> QED
      BY <1>1, <3>1
  <2>5. img.cod <= img.dat /\ img.dat <= img.hea
    BY <1>2, <2>2
  <2> QED
    BY <2>1, <2>2, <2>3, <2>4, <2>5
<1>4. CASE ~(/\ ValidArray(img.cod, img.dat, CellSize)
             /\ ValidArray(img.dat, img.hea, CellSize))
  BY <1>4 DEF CountSections, Return, sizes, LoaderTypes
<1> QED
  BY <1>3, <1>4

\* The sections stay as CountSections has found them.
LEMMA SectionsStep ==
  ASSUME LoaderInv, [Next]_vars
  PROVE  SectionsInv'
<1>1. LoaderTypes /\ ResultInv /\ SectionsInv
  BY DEF LoaderInv
<1>2. ExtraSize' = ExtraSize
  BY <1>1, StepFacts DEF ExtraSize
<1>3. CASE phase = "sections"
  BY <1>1, <1>2, <1>3, StepFacts, SectionsCounted
     DEF SectionsInv, Counted, Building, ResultInv
<1>4. CASE phase # "sections"
  BY <1>1, <1>2, <1>4, StepFacts DEF SectionsInv, sizes
<1> QED
  BY <1>3, <1>4

\* An entry that the first pass counts has a name, and its table is valid.
LEMMA EntryCounted ==
  ASSUME LoaderInv, CountEntry
  PROVE  /\ ValidTable(Table) /\ index + 1 <= Entries(Table)
         /\ Terminated(NameOfs(Table, index)) /\ Found(Table, NameOfs(Table, index))
         /\ count[Table] = index
         /\ count' = [count EXCEPT ![Table] = index + 1]
         /\ strings' = strings + Room(Table, index)
<1>1. /\ LoaderTypes /\ CountInv /\ phase = "count" /\ Refused = "none"
      /\ index < Entries(Table) /\ img \in Images /\ index \in Nat
      /\ strings \in Nat /\ table \in 1 .. 3
  BY DEF CountEntry, LoaderInv, LoaderTypes
<1>2. Table \in TableSet /\ Num(Table) = table
  BY <1>1, Order
<1>3. /\ ValidTable(Table) /\ Terminated(NameOfs(Table, index))
      /\ Found(Table, NameOfs(Table, index))
  BY <1>1 DEF Refused
<1>4. Entries(Table) \in Nat /\ count[Table] = index
  BY <1>1, <1>2, <1>3, TableSizes DEF CountInv
<1>5. count' = [count EXCEPT ![Table] = index + 1]
  BY <1>4 DEF CountEntry
<1>6. strings' = strings + Room(Table, index)
  BY <1>1 DEF CountEntry, Room
<1> QED
  BY <1>1, <1>3, <1>4, <1>5, <1>6

\* A table that the first pass leaves has been counted to its end.
LEMMA TableCounted ==
  ASSUME LoaderInv, CountNext
  PROVE  /\ ValidTable(Table) /\ count[Table] = Entries(Table)
         /\ index' = 0 /\ UNCHANGED <<img, sizes, counted, built>>
         /\ \/ table < 3 /\ table' = table + 1 /\ phase' = "count"
            \/ table = 3 /\ table' = 1 /\ phase' = "alloc"
<1>1. /\ LoaderTypes /\ CountInv /\ phase = "count" /\ Refused = "none"
      /\ index = Entries(Table) /\ table \in 1 .. 3
  BY DEF CountNext, LoaderInv, LoaderTypes
<1>2. Table \in TableSet /\ Num(Table) = table /\ Len(Tables) = 3
  BY <1>1, Order
<1>3. ValidTable(Table)
  BY <1>1 DEF Refused
<1>4. count[Table] = Entries(Table)
  BY <1>1, <1>2 DEF CountInv
<1> QED
  BY <1>1, <1>2, <1>3, <1>4 DEF CountNext, NextTable

\* The first pass counts entry for entry; nothing counts after it.
LEMMA CountStep ==
  ASSUME LoaderInv, [Next]_vars
  PROVE  CountInv'
<1>1. /\ LoaderTypes /\ ResultInv /\ CountInv /\ table \in 1 .. 3
      /\ index \in Nat /\ count \in [TableSet -> Nat] /\ img \in Images
  BY DEF LoaderInv, LoaderTypes
<1>2. img' = img /\ phase' \in Phases
  BY <1>1, StepFacts
<1>3. \A t \in TableSet : /\ Num(t) \in 1 .. 3 /\ (Num(t) = table => t = Table)
                          /\ Entries(t)' = Entries(t)
                          /\ ValidTable(t)' = ValidTable(t)
  BY <1>1, <1>2, Order, SameTables
<1>4. \A t \in TableSet : \A i :
        (Terminated(NameOfs(t, i)) /\ Found(t, NameOfs(t, i)))'
          = (Terminated(NameOfs(t, i)) /\ Found(t, NameOfs(t, i)))
  BY <1>2, SameFile
<1>5. CASE CountEntry
  <2>1. /\ ValidTable(Table) /\ index + 1 <= Entries(Table)
        /\ Terminated(NameOfs(Table, index)) /\ Found(Table, NameOfs(Table, index))
        /\ count[Table] = index
        /\ count' = [count EXCEPT ![Table] = index + 1]
    BY <1>5, EntryCounted
  <2>2. /\ phase = "count" /\ phase' = "count" /\ table' = table
        /\ index' = index + 1 /\ result' = result
    BY <1>5 DEF CountEntry
  <2>3. Table \in TableSet /\ Num(Table) = table
    BY <1>1, Order
  <2>4. ASSUME NEW t \in TableSet
        PROVE  /\ Num(t) < table => ValidTable(t) /\ count'[t] = Entries(t)
               /\ Num(t) = table =>
                    /\ count'[t] = index' /\ ValidTable(t)
                    /\ index' <= Entries(t)
               /\ Num(t) > table => count'[t] = 0
    <3>1. CASE t = Table
      BY <1>1, <2>1, <2>2, <2>3, <3>1
    <3>2. CASE t # Table
      BY <1>1, <1>3, <2>1, <2>2, <2>3, <3>2 DEF CountInv
    <3> QED
      BY <3>1, <3>2
  <2>5. ASSUME NEW t \in TableSet, NEW i \in 0 .. count'[t] - 1
        PROVE  Terminated(NameOfs(t, i)) /\ Found(t, NameOfs(t, i))
    <3>1. CASE t = Table /\ i = index
      BY <2>1, <3>1
    <3>2. CASE t # Table \/ i # index
      <4>1. i \in 0 .. count[t] - 1
        BY <1>1, <2>1, <2>3, <3>2
      <4> QED
        BY <1>1, <4>1 DEF CountInv
    <3> QED
      BY <3>1, <3>2
  <2>6. ~Counted'
    BY <1>1, <2>2 DEF Counted, Building, ResultInv
  <2> QED
    BY <1>1, <1>2, <1>3, <1>4, <2>2, <2>4, <2>5, <2>6 DEF CountInv
<1>6. CASE CountNext
  <2>1. /\ ValidTable(Table) /\ count[Table] = Entries(Table)
        /\ index' = 0 /\ UNCHANGED count
        /\ \/ table < 3 /\ table' = table + 1 /\ phase' = "count"
           \/ table = 3 /\ table' = 1 /\ phase' = "alloc"
    BY <1>6, TableCounted DEF counted
  <2>2. phase = "count" /\ result' = result
    BY <1>6 DEF CountNext
  <2>3. ASSUME NEW t \in TableSet
        PROVE  /\ Num(t) <= table => ValidTable(t) /\ count[t] = Entries(t)
               /\ Num(t) > table => count[t] = 0
    BY <1>1, <1>3, <2>1, <2>2 DEF CountInv
  <2>4. CASE table < 3
    <3>1. ~Counted'
      BY <1>1, <2>1, <2>2, <2>4 DEF Counted, Building, ResultInv
    <3> QED
      BY <1>1, <1>2, <1>3, <1>4, <2>1, <2>2, <2>3, <2>4, <3>1 DEF CountInv
  <2>5. CASE table = 3
    BY <1>1, <1>2, <1>3, <1>4, <2>1, <2>2, <2>3, <2>5 DEF CountInv
  <2> QED
    BY <1>1, <2>4, <2>5
<1>7. CASE CheckHeader
  <2>1. phase' = "sections" => img.defsize # 0
    BY <1>7 DEF CheckHeader, HeaderError, Go, Return
  <2> QED
    BY <1>1, <1>2, <1>3, <1>4, <1>7, <2>1, StepFacts
       DEF CheckHeader, Go, Return, CountInv, counted, Counted, Building
<1>8. CASE CountSections
  BY <1>1, <1>2, <1>3, <1>4, <1>8, StepFacts
     DEF CountSections, Go, Return, CountInv, counted, Counted, Building
<1>9. CASE phase \notin {"header", "sections", "count"} \/ UNCHANGED vars
           \/ CountRefused
  <2>1. UNCHANGED count
    BY <1>1, <1>9, StepFacts DEF counted, vars, CountRefused
  <2>2. /\ phase' = "count" => UNCHANGED <<phase, table, index>>
        /\ phase' \in {"header", "sections"} =>
             UNCHANGED <<phase, table, index, strings>>
    BY <1>1, <1>9, StepFacts DEF vars, counted, CountRefused, Return
  <2>3. Counted' => Counted
    BY <1>1, <1>9, StepFacts
       DEF vars, CountRefused, Refused, Return, Counted, Building
  <2> QED
    BY <1>1, <1>2, <1>3, <1>4, <2>1, <2>2, <2>3 DEF CountInv
<1> QED
  BY <1>5, <1>6, <1>7, <1>8, <1>9
     DEF Next, Allocate, Copy, Map, FillEntry, FillNext, Finish, Destroy

\* The slot of an entry is in the region of its table.
LEMMA SlotInRegion ==
  ASSUME LoaderTypes
  PROVE  \E lo, hi \in Nat :
           /\ Slot(Table, index) = Span(Table, lo, hi)
           /\ Before(Table) <= lo /\ lo <= hi
           /\ index + 1 <= count[Table] => hi <= RegionEnd(Table)
<1>1. index \in Nat /\ Table \in TableSet /\ count[Table] \in Nat
  BY Order DEF LoaderTypes
<1>2. PICK k \in Nat : k = IF Table = "natives" THEN PtrSize ELSE PairSize
  BY SizesAssumption
<1>3. PICK b \in Nat : b = Before(Table)
  BY <1>1, Layout
<1>4. index * k \in Nat /\ (index + 1) * k = index * k + k
  BY <1>1, <1>2
<1>5. RegionEnd(Table) = b + count[Table] * k
  <2>1. RegionEnd(Table) = b + Bytes(Table)
    BY <1>1, <1>3, Layout
  <2>2. Bytes(Table) = count[Table] * k
    BY <1>1, <1>2 DEF Bytes, TableSet
  <2> QED
    BY <2>1, <2>2
<1>6. index + 1 <= count[Table] => (index + 1) * k <= count[Table] * k
  BY <1>1, <1>2, Times
<1>7. Slot(Table, index) = Span(Table, b + index * k, b + (index + 1) * k)
  BY <1>2, <1>3 DEF Slot
<1>8. count[Table] * k \in Nat
  BY <1>1, <1>2, TimesNat
<1> QED
  BY <1>3, <1>4, <1>5, <1>6, <1>7, <1>8

\* FillEntry: the row and the name that it writes.
LEMMA EntryFilled ==
  ASSUME LoaderInv, FillEntry
  PROVE  /\ index + 1 <= count[Table] /\ Len(filled[Table]) = index
         /\ Terminated(NameOfs(Table, index))
         /\ \E row \in Row(Table) :
              /\ filled' = [filled EXCEPT ![Table] = Append(filled[Table], row)]
              /\ IF Table = "natives"
                   THEN /\ row = Text(NameOfs(Table, index))
                        /\ written' = written \cup {Slot(Table, index)}
                        /\ strIt' = strIt
                   ELSE /\ row = [name |-> strIt,
                                  len |-> NameLen(NameOfs(Table, index)),
                                  address |-> Address(Table, index)]
                        /\ written' = written \cup
                             {Slot(Table, index),
                              Span("strings", strIt,
                                   strIt + NameLen(NameOfs(Table, index)))}
                        /\ strIt' = strIt + NameLen(NameOfs(Table, index)) + 1
<1>1. /\ LoaderTypes /\ CountInv /\ FilledInv /\ phase = "fill"
      /\ index < Entries(Table) /\ img \in Images /\ index \in Nat
      /\ strIt \in Nat /\ table \in 1 .. 3 /\ count \in [TableSet -> Nat]
  BY DEF FillEntry, LoaderInv, LoaderTypes
<1>2. Table \in TableSet /\ Num(Table) = table
  BY <1>1, Order
<1>3. count[Table] = Entries(Table)
  BY <1>1, <1>2 DEF CountInv, Counted, Building
<1>4. index + 1 <= count[Table] /\ index \in 0 .. count[Table] - 1
  BY <1>1, <1>2, <1>3
<1>5. Len(filled[Table]) = index
  BY <1>1, <1>2 DEF FilledInv
<1>6. Terminated(NameOfs(Table, index))
  BY <1>1, <1>2, <1>4 DEF CountInv
<1>7. NameOfs(Table, index) \in Nat /\ Address(Table, index) \in Nat
  BY <1>1, Reads
<1>8. NameLen(NameOfs(Table, index)) \in Nat
  BY <1>1, <1>6, <1>7, NameLengths
<1>9. CASE Table = "natives"
  <2>1. Text(NameOfs(Table, index)) \in Row(Table)
    BY <1>7, <1>9 DEF Row
  <2> QED
    BY <1>4, <1>5, <1>6, <1>9, <2>1 DEF FillEntry
<1>10. CASE Table # "natives"
  <2>1. [name |-> strIt, len |-> NameLen(NameOfs(Table, index)),
         address |-> Address(Table, index)] \in Row(Table)
    BY <1>1, <1>7, <1>8, <1>10 DEF Row
  <2> QED
    BY <1>4, <1>5, <1>6, <1>10, <2>1 DEF FillEntry
<1> QED
  BY <1>9, <1>10

\* The second pass leaves a table when it has read all of it.
LEMMA TableFilled ==
  ASSUME LoaderInv, FillNext
  PROVE  /\ Len(filled[Table]) = count[Table] /\ index = count[Table]
         /\ index' = 0 /\ UNCHANGED <<img, sizes, counted, built>>
         /\ \/ table < 3 /\ table' = table + 1 /\ phase' = "fill"
            \/ table = 3 /\ table' = 1 /\ phase' = "finish"
<1>1. /\ LoaderTypes /\ CountInv /\ FilledInv /\ phase = "fill"
      /\ index \in Nat /\ table \in 1 .. 3 /\ count \in [TableSet -> Nat]
  BY DEF FillNext, LoaderInv, LoaderTypes
<1>2. Table \in TableSet /\ Num(Table) = table /\ Len(Tables) = 3
  BY <1>1, Order
<1>3. count[Table] = Entries(Table)
  BY <1>1, <1>2 DEF CountInv, Counted, Building
<1>4. Len(filled[Table]) = index /\ index <= count[Table]
  BY <1>1, <1>2 DEF FilledInv
<1>5. index = count[Table]
  <2> SUFFICES ASSUME index # count[Table] PROVE FALSE
    OBVIOUS
  <2>1. index < Entries(Table) /\ index \in 0 .. count[Table] - 1
    BY <1>1, <1>2, <1>3, <1>4
  <2>2. Terminated(NameOfs(Table, index)) /\ Found(Table, NameOfs(Table, index))
    BY <1>1, <1>2, <2>1 DEF CountInv
  <2>3. Readable(Table, index)
    BY <2>2 DEF Readable, Found
  <2> QED
    BY <2>1, <2>3 DEF FillNext
<1> QED
  BY <1>1, <1>2, <1>4, <1>5 DEF FillNext, NextTable

\* Every variable keeps its type.
LEMMA TypesStep ==
  ASSUME LoaderInv, [Next]_vars
  PROVE  LoaderTypes'
<1>1. /\ LoaderTypes /\ ResultInv /\ SectionsInv /\ table \in 1 .. 3
      /\ index \in Nat /\ count \in [TableSet -> Nat] /\ img \in Images
      /\ strings \in Nat /\ strIt \in Nat
      /\ Table \in TableSet
  BY Order DEF LoaderInv, LoaderTypes
<1>2. img' = img /\ phase' \in Phases /\ result' \in Results
  BY <1>1, StepFacts
<1>3. \A t \in TableSet : Row(t)' = Row(t)
  BY <1>2, SameFile
<1>4. CASE CountSections
  BY <1>1, <1>2, <1>3, <1>4, SectionsCounted
     DEF CountSections, counted, built, LoaderTypes
<1>5. CASE CountEntry
  <2>1. Terminated(NameOfs(Table, index)) /\ NameOfs(Table, index) \in Nat
    BY <1>1, <1>5, EntryCounted, Reads
  <2>2. Room(Table, index) \in Nat
    BY <1>1, <2>1, NameLengths DEF Room
  <2>3. /\ count' \in [TableSet -> Nat] /\ strings' \in Nat /\ index' \in Nat
        /\ table' = table /\ UNCHANGED <<sizes, built>>
    BY <1>1, <1>5, <2>2, EntryCounted DEF CountEntry
  <2> QED
    BY <1>1, <1>2, <1>3, <2>3 DEF sizes, built, LoaderTypes
<1>6. CASE CountNext
  BY <1>1, <1>2, <1>3, <1>6, TableCounted
     DEF sizes, counted, built, LoaderTypes
<1>7. CASE Copy
  <2>1. /\ strIt' = Before("strings")
        /\ written' = {Span("code", Before("code"),
                            Before("code") + (img.dat - img.cod)),
                       Span("data", Before("data"),
                            Before("data") + (img.hea - img.dat))}
        /\ UNCHANGED <<table, index, sizes, counted, filled>>
    BY <1>7 DEF Copy, DataBytes
  <2>2. img.dat - img.cod \in Nat /\ img.hea - img.dat \in Nat
    BY <1>1, <1>7, Fields DEF Copy, SectionsInv, Counted, Building
  <2>3. Before("code") \in Nat /\ Before("data") \in Nat /\ Before("strings") \in Nat
    BY <1>1, Layout
  <2> QED
    BY <1>1, <1>2, <1>3, <2>1, <2>2, <2>3
       DEF sizes, counted, Span, LoaderTypes
<1>8. CASE FillEntry
  <2>1. PICK row \in Row(Table) :
          /\ filled' = [filled EXCEPT ![Table] = Append(filled[Table], row)]
          /\ \/ written' = written \cup {Slot(Table, index)}
             \/ written' = written \cup
                  {Slot(Table, index),
                   Span("strings", strIt,
                        strIt + NameLen(NameOfs(Table, index)))}
          /\ strIt' \in {strIt, strIt + NameLen(NameOfs(Table, index)) + 1}
    BY <1>8, EntryFilled
  <2>2. NameLen(NameOfs(Table, index)) \in Nat
    BY <1>1, <1>8, EntryFilled, Reads, NameLengths
  <2>3. Slot(Table, index) \in [region : TableSet, lo : Nat, hi : Nat]
    BY <1>1, SlotInRegion DEF Span
  <2>4. DOMAIN filled' = TableSet /\ \A t \in TableSet : filled'[t] \in Seq(Row(t))
    BY <1>1, <2>1, AppendProperties DEF LoaderTypes
  <2>5. UNCHANGED <<table, sizes, counted>> /\ index' = index + 1
    BY <1>8 DEF FillEntry
  <2>6. /\ strIt' \in Nat
        /\ written' \subseteq [region : TableSet \cup {"code", "data", "strings"},
                               lo : Nat, hi : Nat]
    BY <1>1, <2>1, <2>2, <2>3 DEF LoaderTypes, Span
  <2> QED
    BY <1>1, <1>2, <1>3, <2>4, <2>5, <2>6, SMTT(20)
       DEF sizes, counted, LoaderTypes
<1>9. CASE FillNext
  BY <1>1, <1>2, <1>3, <1>9, TableFilled
     DEF sizes, counted, built, LoaderTypes
<1>10. CASE \/ CheckHeader \/ CountRefused \/ Allocate \/ Map \/ Finish
            \/ Destroy \/ UNCHANGED vars
  <2>1. UNCHANGED <<table, index, sizes, counted, strIt, filled, written>>
    BY <1>10 DEF CheckHeader, CountRefused, Allocate, Map, Finish, Destroy, vars,
       sizes, counted, built
  <2> QED
    BY <1>1, <1>2, <1>3, <2>1 DEF sizes, counted, LoaderTypes
<1> QED
  BY <1>4, <1>5, <1>6, <1>7, <1>8, <1>9, <1>10 DEF Next

\* The first pass goes on: what it had counted when it came to each entry.
LEMMA RoomCounted ==
  ASSUME LoaderInv, CountEntry
  PROVE  StringsInv'
<1>1. /\ LoaderTypes /\ CountInv /\ phase = "count" /\ table \in 1 .. 3
      /\ index \in Nat /\ count \in [TableSet -> Nat] /\ img \in Images
      /\ strings \in Nat
  BY DEF CountEntry, LoaderInv, LoaderTypes
<1>2. /\ count[Table] = index
      /\ count' = [count EXCEPT ![Table] = index + 1]
      /\ strings' = strings + Room(Table, index)
      /\ Terminated(NameOfs(Table, index))
  BY EntryCounted
<1>3. img' = img /\ phase' = "count" /\ table' = table /\ index' = index + 1
  BY <1>1 DEF CountEntry
<1>4. Table \in TableSet /\ Num(Table) = table /\ Table' = Table
  BY <1>1, <1>3, Order DEF Table
<1>5. \A t \in TableSet : /\ Num(t) \in 1 .. 3 /\ (Num(t) = table => t = Table)
                          /\ Num(t) > table => count[t] = 0
  BY <1>1, Order DEF CountInv
<1>6. Room(Table, index) \in Nat
  BY <1>1, <1>2, Reads, NameLengths DEF Room
<1>7. PICK p : IsRoomBefore(p) /\ strings = p[Table][index]
  BY <1>1 DEF LoaderInv, StringsInv
<1>8. PICK sum \in Nat : sum = strings + Room(Table, index)
  BY <1>1, <1>6
<1>9. p \in [TableSet -> [Nat -> Nat]]
  BY <1>7 DEF IsRoomBefore
<1>10. PICK q \in [TableSet -> [Nat -> Nat]] :
         q = [t \in TableSet |->
                IF Num(t) < table THEN p[t]
                ELSE IF t = Table THEN [p[t] EXCEPT ![index + 1] = sum]
                ELSE [i \in Nat |-> sum]]
  BY <1>1, <1>8, <1>9
<1>11. /\ \A t \in TableSet : \A i \in 0 .. count[t] - 1 :
            p[t][i + 1] = p[t][i] + Room(t, i)
       /\ \A t \in TableSet : \A i \in 0 .. count[t] : p[t][i] <= strings
       /\ p["publics"][0] = 0
       /\ p["natives"][0] = p["publics"][count["publics"]]
       /\ p["pubvars"][0] = p["natives"][count["natives"]]
  BY <1>7 DEF IsRoomBefore
<1>a. ASSUME NEW t \in TableSet, Num(t) < table
      PROVE  q[t] = p[t] /\ count'[t] = count[t]
  BY <1>1, <1>2, <1>4, <1>10, <1>a
<1>b. ASSUME NEW t \in TableSet, Num(t) > table
      PROVE  count'[t] = 0 /\ \A i \in Nat : q[t][i] = sum
  <2>1. t # Table /\ ~(Num(t) < table) /\ count[t] = 0
    BY <1>1, <1>4, <1>5, <1>b
  <2>2. q[t] = [i \in Nat |-> sum]
    BY <1>10, <2>1
  <2> QED
    BY <1>1, <1>2, <2>1, <2>2
<1>c. /\ count'[Table] = index + 1
      /\ q[Table][index + 1] = sum
      /\ \A i \in 0 .. index : q[Table][i] = p[Table][i]
  <2>1. q[Table] = [p[Table] EXCEPT ![index + 1] = sum]
    BY <1>1, <1>4, <1>10
  <2>2. p[Table] \in [Nat -> Nat] /\ index + 1 \in Nat
    BY <1>1, <1>4, <1>9
  <2>3. \A i \in 0 .. index : i \in Nat /\ i # index + 1
    BY <1>1
  <2> QED
    BY <1>1, <1>2, <1>4, <2>1, <2>2, <2>3
<1>12. \A t \in TableSet : \A i : Room(t, i)' = Room(t, i)
  BY <1>3, SameFile
<1>13. /\ q["publics"][0] = 0
       /\ q["natives"][0] = q["publics"][count'["publics"]]
       /\ q["pubvars"][0] = q["natives"][count'["natives"]]
  <2>1. /\ Num("publics") = 1 /\ Num("natives") = 2 /\ Num("pubvars") = 3
        /\ "publics" \in TableSet /\ "natives" \in TableSet
        /\ "pubvars" \in TableSet
    BY DEF Num, TableSet
  <2>2. 0 \in Nat /\ 0 \in 0 .. index
    BY <1>1
  <2>3. CASE table = 1
    <3>1. Table = "publics"
      BY <1>5, <2>1, <2>3
    <3>2. q["publics"][0] = 0 /\ q["publics"][count'["publics"]] = sum
      BY <1>11, <1>c, <2>2, <3>1
    <3>3. /\ count'["natives"] = 0 /\ q["natives"][0] = sum
          /\ q["pubvars"][0] = sum
      BY <1>b, <2>1, <2>2, <2>3
    <3> QED
      BY <3>2, <3>3
  <2>4. CASE table = 2
    <3>1. Table = "natives"
      BY <1>5, <2>1, <2>4
    <3>2. q["publics"] = p["publics"] /\ count'["publics"] = count["publics"]
      BY <1>a, <2>1, <2>4
    <3>3. /\ q["natives"][0] = p["natives"][0]
          /\ q["natives"][count'["natives"]] = sum
      BY <1>c, <2>2, <3>1
    <3>4. q["pubvars"][0] = sum
      BY <1>b, <2>1, <2>2, <2>4
    <3> QED
      BY <1>11, <3>2, <3>3, <3>4
  <2>5. CASE table = 3
    <3>1. Table = "pubvars"
      BY <1>5, <2>1, <2>5
    <3>2. /\ q["publics"] = p["publics"] /\ count'["publics"] = count["publics"]
          /\ q["natives"] = p["natives"] /\ count'["natives"] = count["natives"]
      BY <1>a, <2>1, <2>5
    <3>3. q["pubvars"][0] = p["pubvars"][0]
      BY <1>c, <2>2, <3>1
    <3> QED
      BY <1>11, <3>2, <3>3
  <2> QED
    BY <1>1, <2>3, <2>4, <2>5
<1>14. ASSUME NEW t \in TableSet, NEW i \in 0 .. count'[t] - 1
       PROVE  q[t][i + 1] = q[t][i] + Room(t, i)
  <2>1. CASE Num(t) < table
    BY <1>11, <1>a, <2>1
  <2>2. CASE t = Table /\ i = index
    <3>1. index \in 0 .. index
      BY <1>1
    <3> QED
      BY <1>7, <1>8, <1>c, <2>2, <3>1
  <2>3. CASE t = Table /\ i # index
    <3>1. i \in 0 .. count[t] - 1 /\ i \in 0 .. index /\ i + 1 \in 0 .. index
      <4>1. count'[t] = index + 1 /\ count[t] = index
        BY <1>2, <1>c, <2>3
      <4> QED
        BY <1>1, <2>3, <4>1
    <3> QED
      BY <1>11, <1>c, <2>3, <3>1
  <2>4. CASE Num(t) > table
    BY <1>b, <2>4
  <2> QED
    BY <1>1, <1>5, <2>1, <2>2, <2>3, <2>4
<1>15. ASSUME NEW t \in TableSet, NEW i \in 0 .. count'[t]
       PROVE  q[t][i] <= sum
  <2>1. strings <= sum
    BY <1>1, <1>6, <1>8
  <2>2. CASE Num(t) < table
    <3>1. i \in 0 .. count[t] /\ i \in Nat /\ q[t][i] = p[t][i]
      BY <1>1, <1>a, <2>2
    <3>2. p[t][i] \in Nat /\ p[t][i] <= strings
      BY <1>9, <1>11, <3>1
    <3> QED
      BY <1>1, <2>1, <3>1, <3>2
  <2>3. CASE t = Table /\ i # index + 1
    <3>1. i \in 0 .. index /\ i \in 0 .. count[t] /\ i \in Nat
      BY <1>1, <1>2, <1>c, <2>3
    <3>2. p[t][i] \in Nat /\ p[t][i] <= strings /\ q[t][i] = p[t][i]
      BY <1>9, <1>11, <1>c, <2>3, <3>1
    <3> QED
      BY <1>1, <2>1, <3>2
  <2>4. CASE t = Table /\ i = index + 1
    BY <1>8, <1>c, <2>4
  <2>5. CASE Num(t) > table
    <3>1. i \in Nat
      BY <1>b, <2>5
    <3> QED
      BY <1>8, <1>b, <2>5, <3>1
  <2> QED
    BY <1>1, <1>5, <2>2, <2>3, <2>4, <2>5
<1>16. strings' = sum
  BY <1>2, <1>8
<1>17. IsRoomBefore(q)'
  <2>1. \A t \in TableSet : \A i \in 0 .. count'[t] - 1 :
          q[t][i + 1] = q[t][i] + Room(t, i)'
    BY <1>12, <1>14
  <2>2. \A t \in TableSet : \A i \in 0 .. count'[t] : q[t][i] <= strings'
    BY <1>15, <1>16
  <2> QED
    BY <1>10, <1>13, <2>1, <2>2 DEF IsRoomBefore
<1>18. strings' = q[Table'][index']
  BY <1>3, <1>4, <1>c, <1>16
<1> QED
  BY <1>3, <1>17, <1>18 DEF StringsInv

\* Steps that keep what was counted keep the history.
LEMMA StringsStep ==
  ASSUME LoaderInv, [Next]_vars
  PROVE  StringsInv'
<1>1. /\ LoaderTypes /\ ResultInv /\ CountInv /\ FilledInv /\ table \in 1 .. 3
      /\ index \in Nat /\ count \in [TableSet -> Nat] /\ img \in Images
      /\ strings \in Nat /\ strIt \in Nat
  BY DEF LoaderInv, LoaderTypes
<1>2. PICK p : /\ IsRoomBefore(p)
               /\ phase = "count" => strings = p[Table][index]
               /\ phase \in {"map", "fill"} =>
                    strIt = Before("strings") + p[Table][index]
  BY DEF LoaderInv, StringsInv
<1>3. img' = img
  BY <1>1, StepFacts
<1>4. /\ p \in [TableSet -> [Nat -> Nat]]
      /\ p["publics"][0] = 0
      /\ p["natives"][0] = p["publics"][count["publics"]]
      /\ p["pubvars"][0] = p["natives"][count["natives"]]
  BY <1>2 DEF IsRoomBefore
<1>5. ASSUME UNCHANGED counted
      PROVE  IsRoomBefore(p)'
  <2>1. \A t \in TableSet : \A i : Room(t, i)' = Room(t, i)
    BY <1>3, SameFile
  <2> QED
    BY <1>2, <1>5, <2>1 DEF IsRoomBefore, counted
<1>6. Tables[1] = "publics" /\ Tables[2] = "natives" /\ Tables[3] = "pubvars"
  BY DEF Tables
<1>7. ASSUME table < 3, table' = table + 1, index' = 0, index = count[Table],
             UNCHANGED counted
      PROVE  p[Table'][index'] = p[Table][index]
  <2>1. CASE table = 1
    BY <1>4, <1>6, <1>7, <2>1 DEF Table
  <2>2. CASE table = 2
    BY <1>4, <1>6, <1>7, <2>2 DEF Table
  <2> QED
    BY <1>1, <1>7, <2>1, <2>2
<1>8. CASE CountEntry
  BY <1>8, RoomCounted
<1>9. CASE CountNext
  <2>1. /\ index = Entries(Table) /\ count[Table] = Entries(Table)
        /\ index' = 0 /\ UNCHANGED counted /\ phase = "count"
        /\ \/ table < 3 /\ table' = table + 1 /\ phase' = "count"
           \/ table = 3 /\ table' = 1 /\ phase' = "alloc"
    BY <1>9, TableCounted DEF CountNext
  <2>2. phase' = "count" => strings' = p[Table'][index']
    BY <1>2, <1>7, <2>1 DEF counted
  <2>3. phase' \notin {"map", "fill"}
    BY <2>1
  <2> QED
    BY <1>5, <2>1, <2>2, <2>3 DEF StringsInv
<1>10. CASE CountSections
  <2>1. UNCHANGED <<counted, table, index>> /\ phase' \in {"count", "returned"}
        /\ strings = 0 /\ index = 0 /\ table = 1
    BY <1>1, <1>10 DEF CountSections, Go, Return, CountInv
  <2>2. strings' = p[Table'][index']
    BY <1>4, <1>6, <2>1 DEF Table, counted
  <2> QED
    BY <1>5, <2>1, <2>2 DEF StringsInv
<1>11. CASE Copy
  <2>1. /\ UNCHANGED <<counted, sizes, table, index>> /\ phase' = "map"
        /\ index = 0 /\ table = 1 /\ strIt' = Before("strings")
    BY <1>1, <1>11 DEF Copy, Go, FilledInv
  <2>2. Before("strings")' = Before("strings")
    BY <2>1, SameRegions
  <2>3. Before("strings") \in Nat
    BY <1>1, Layout
  <2>4. strIt' = Before("strings")' + p[Table'][index']
    BY <1>4, <1>6, <2>1, <2>2, <2>3 DEF Table
  <2> QED
    BY <1>5, <2>1, <2>4 DEF StringsInv
<1>12. CASE FillEntry
  <2>1. /\ UNCHANGED <<counted, sizes, table>> /\ phase = "fill"
        /\ phase' = "fill" /\ index' = index + 1
    BY <1>12 DEF FillEntry
  <2>2. /\ index + 1 <= count[Table] /\ Table \in TableSet
        /\ Terminated(NameOfs(Table, index))
        /\ strIt' = IF Table = "natives" THEN strIt
                    ELSE strIt + NameLen(NameOfs(Table, index)) + 1
    BY <1>1, <1>12, EntryFilled, Order
  <2>3. NameLen(NameOfs(Table, index)) \in Nat
    BY <1>1, <2>2, Reads, NameLengths
  <2>4. Room(Table, index) \in Nat /\ strIt' = strIt + Room(Table, index)
    BY <1>1, <2>2, <2>3 DEF Room, NameRoom
  <2>5. index \in 0 .. count[Table] - 1
    BY <1>1, <2>2
  <2>6. p[Table][index + 1] = p[Table][index] + Room(Table, index)
    BY <1>2, <2>2, <2>5 DEF IsRoomBefore
  <2>7. p[Table][index] \in Nat /\ Before("strings") \in Nat
    BY <1>1, <1>4, <2>2, Layout
  <2>8. Before("strings")' = Before("strings") /\ Table' = Table
    BY <2>1, SameRegions DEF Table
  <2>9. strIt' = Before("strings")' + p[Table'][index']
    BY <1>2, <2>1, <2>4, <2>6, <2>7, <2>8
  <2> QED
    BY <1>5, <2>1, <2>9 DEF StringsInv
<1>13. CASE FillNext
  <2>1. /\ index = count[Table] /\ index' = 0
        /\ UNCHANGED <<counted, sizes, built>> /\ phase = "fill"
        /\ \/ table < 3 /\ table' = table + 1 /\ phase' = "fill"
           \/ table = 3 /\ table' = 1 /\ phase' = "finish"
    BY <1>13, TableFilled DEF FillNext
  <2>2. Before("strings")' = Before("strings") /\ strIt' = strIt
    BY <2>1, SameRegions DEF built
  <2>3. phase' = "fill" => strIt' = Before("strings")' + p[Table'][index']
    BY <1>2, <1>7, <2>1, <2>2
  <2> QED
    BY <1>5, <2>1, <2>3 DEF StringsInv
<1>14. CASE Map \/ UNCHANGED vars
  <2>1. /\ UNCHANGED <<counted, sizes, table, index, strIt>>
        /\ phase' = "count" => phase = "count"
        /\ phase' \in {"map", "fill"} => phase \in {"map", "fill"}
    BY <1>14 DEF Map, Go, Return, vars, counted, sizes
  <2>2. Before("strings")' = Before("strings") /\ Table' = Table
        /\ strings' = strings
    BY <2>1, SameRegions DEF Table, counted
  <2> QED
    BY <1>2, <1>5, <2>1, <2>2 DEF StringsInv
<1>15. CASE CheckHeader \/ CountRefused \/ Allocate \/ Finish \/ Destroy
  <2>1. UNCHANGED counted /\ phase' \notin {"count", "map", "fill"}
    BY <1>15 DEF CheckHeader, CountRefused, Allocate, Finish, Destroy, Go, Return,
       counted
  <2> QED
    BY <1>5, <2>1 DEF StringsInv
<1> QED
  BY <1>8, <1>9, <1>10, <1>11, <1>12, <1>13, <1>14, <1>15 DEF Next

\* The second pass fills a row for every entry that it reads.
LEMMA FilledStep ==
  ASSUME LoaderInv, [Next]_vars
  PROVE  FilledInv'
<1>1. /\ LoaderTypes /\ ResultInv /\ CountInv /\ FilledInv /\ table \in 1 .. 3
      /\ index \in Nat /\ count \in [TableSet -> Nat] /\ DOMAIN filled = TableSet
      /\ Table \in TableSet /\ Num(Table) = table
      /\ \A t \in TableSet : filled[t] \in Seq(Row(t)) /\ Len(filled[t]) \in Nat
      /\ \A t \in TableSet : Num(t) \in 1 .. 3 /\ (Num(t) = table => t = Table)
  BY Order, LenProperties DEF LoaderInv, LoaderTypes
<1>2. \A t \in TableSet : Num(t)' = Num(t)
  BY DEF Num
<1>3. CASE FillEntry
  <2>1. PICK row \in Row(Table) :
          filled' = [filled EXCEPT ![Table] = Append(filled[Table], row)]
    BY <1>3, EntryFilled
  <2>2. index + 1 <= count[Table] /\ Len(filled[Table]) = index
    BY <1>3, EntryFilled
  <2>3. /\ index' = index + 1 /\ phase' = "fill" /\ phase = "fill"
        /\ UNCHANGED <<table, count, result>>
    BY <1>3 DEF FillEntry, counted
  <2>4. /\ Len(filled'[Table]) = index + 1
        /\ \A t \in TableSet : t # Table => filled'[t] = filled[t]
    BY <1>1, <2>1, <2>2, AppendProperties
  <2>5. result' # "success"
    BY <1>1, <2>3 DEF ResultInv
  <2>6. ASSUME NEW t \in TableSet
        PROVE  /\ Num(t) < table => Len(filled'[t]) = count[t]
               /\ Num(t) = table => Len(filled'[t]) = index + 1
               /\ Num(t) > table => Len(filled'[t]) = 0
    BY <1>1, <2>3, <2>4 DEF FilledInv
  <2>7. \A t \in TableSet : Num(t) = table => index + 1 <= count[t]
    BY <1>1, <2>2
  <2> QED
    BY <1>2, <2>3, <2>5, <2>6, <2>7 DEF FilledInv
<1>4. CASE FillNext
  <2>1. /\ Len(filled[Table]) = count[Table] /\ index' = 0
        /\ UNCHANGED <<count, filled, written>>
        /\ \/ table < 3 /\ table' = table + 1 /\ phase' = "fill"
           \/ table = 3 /\ table' = 1 /\ phase' = "finish"
    BY <1>4, TableFilled DEF counted, built
  <2>2. phase = "fill" /\ result' = result
    BY <1>4 DEF FillNext
  <2>3. \A t \in TableSet : /\ Num(t) <= table => Len(filled[t]) = count[t]
                            /\ Num(t) > table => Len(filled[t]) = 0
    BY <1>1, <2>1, <2>2 DEF FilledInv
  <2>4. result' # "success"
    BY <1>1, <2>2 DEF ResultInv
  <2>5. \A t \in TableSet : count[t] \in Nat
    BY <1>1
  <2>6. CASE table < 3
    <3>1. table' = table + 1 /\ phase' = "fill"
      BY <2>1, <2>6
    <3>2. ASSUME NEW t \in TableSet
          PROVE  /\ Num(t) < table + 1 => Len(filled[t]) = count[t]
                 /\ Num(t) = table + 1 => (Len(filled[t]) = 0 /\ 0 <= count[t])
                 /\ Num(t) > table + 1 => Len(filled[t]) = 0
      <4>1. Num(t) \in 1 .. 3 /\ table \in 1 .. 3 /\ count[t] \in Nat
        BY <1>1, <2>5
      <4>2. /\ Num(t) <= table => Len(filled[t]) = count[t]
            /\ Num(t) > table => Len(filled[t]) = 0
        BY <2>3
      <4> QED
        BY <4>1, <4>2
    <3> QED
      BY <1>2, <2>1, <2>4, <3>1, <3>2 DEF FilledInv
  <2>7. CASE table = 3
    <3>1. table' = 1 /\ phase' = "finish"
      BY <2>1, <2>7
    <3>2. \A t \in TableSet : Len(filled[t]) = count[t]
      BY <1>1, <2>3, <2>7
    <3> QED
      BY <2>1, <3>1, <3>2 DEF FilledInv
  <2> QED
    BY <1>1, <2>6, <2>7
<1>5. CASE /\ ~FillEntry /\ ~FillNext
           /\ phase \in {"header", "sections", "count", "alloc", "copy", "map"}
  <2>1. filled' = filled
    BY <1>5 DEF Next, CheckHeader, CountSections, CountRefused, CountEntry,
       CountNext, Allocate, Copy, Map, Finish, Destroy, vars, built
  <2>2. /\ \/ phase' \in {"header", "sections", "count", "alloc", "copy",
                          "map", "returned"}
           \/ phase' = "fill" /\ table' = 1 /\ index' = 0
        /\ phase' \in {"alloc", "copy", "map"} => table' = 1 /\ index' = 0
    BY <1>1, <1>5
       DEF Next, CheckHeader, CountSections, CountRefused, CountEntry,
       CountNext, NextTable, Allocate, Copy, Map, Finish, Destroy, vars, Go,
       Return, FilledInv, Tables
  <2>3. result' # "success"
    BY <1>1, <1>5
       DEF Next, CheckHeader, HeaderError, CountSections, CountRefused, Refused,
       CountEntry, CountNext, Allocate, Copy, Map, Finish, Destroy, vars, Go,
       Return, ResultInv
  <2>4. \A t \in TableSet : Len(filled'[t]) = 0
    BY <1>1, <1>5, <2>1 DEF FilledInv
  <2>5. count' \in [TableSet -> Nat]
    BY TypesStep DEF LoaderTypes
  <2>6. CASE phase' = "fill" /\ table' = 1 /\ index' = 0
    <3>1. ASSUME NEW t \in TableSet
          PROVE  ~(Num(t) < 1) /\ 0 <= count'[t]
      <4>1. Num(t) \in 1 .. 3 /\ count'[t] \in Nat
        BY <1>1, <2>5
      <4> QED
        BY <4>1
    <3> QED
      BY <1>2, <2>3, <2>4, <2>6, <3>1 DEF FilledInv
  <2>7. CASE phase' \in {"header", "sections", "count", "alloc", "copy", "map",
                        "returned"}
    BY <2>2, <2>3, <2>4, <2>7 DEF FilledInv
  <2> QED
    BY <2>2, <2>6, <2>7
<1>6. CASE /\ ~FillEntry /\ ~FillNext
           /\ phase \notin {"header", "sections", "count", "alloc", "copy", "map"}
  <2>1. /\ UNCHANGED <<filled, count>>
        /\ \/ phase' \in {"returned", "destroyed"}
           \/ UNCHANGED <<phase, table, index>>
        /\ result' = "success" => (phase = "finish" \/ result = "success")
        /\ phase' = "finish" => phase = "finish"
    BY <1>6 DEF Next, CheckHeader, CountSections, CountRefused, CountEntry,
       CountNext, Allocate, Copy, Map, Finish, Destroy, vars, built, Return,
       counted
  <2> QED
    BY <1>1, <1>2, <1>6, <2>1 DEF FilledInv
<1> QED
  BY <1>3, <1>4, <1>5, <1>6

\* A row that is filled in is right, and is not changed afterwards.
LEMMA RowsStep ==
  ASSUME LoaderInv, [Next]_vars
  PROVE  RowsInv'
<1>1. /\ LoaderTypes /\ ResultInv /\ FilledInv /\ RowsInv /\ BlockInv
      /\ index \in Nat /\ DOMAIN filled = TableSet /\ Table \in TableSet
      /\ \A t \in TableSet : filled[t] \in Seq(Row(t)) /\ Len(filled[t]) \in Nat
  BY Order, LenProperties DEF LoaderInv, LoaderTypes
<1>2. img' = img
  BY <1>1, StepFacts
<1>3. \A t \in TableSet : /\ \A i : /\ NameOfs(t, i)' = NameOfs(t, i)
                                    /\ Address(t, i)' = Address(t, i)
                          /\ \A o : Text(o)' = Text(o) /\ NameLen(o)' = NameLen(o)
  BY <1>2, SameFile
<1> SUFFICES ASSUME NEW t \in TableSet, NEW i \in Nat, 1 <= i,
                    i <= Len(filled'[t]), NEW row, row = filled'[t][i]
             PROVE  IsRow(t, i - 1, row)'
  <2>1. \A t \in TableSet : \A i \in Nat :
          1 <= i /\ i <= Len(filled'[t]) => IsRow(t, i - 1, filled[t][i])'
    BY Zenon
  <2>2. \A t \in TableSet : \A i \in 1 .. Len(filled'[t]) :
          i \in Nat /\ 1 <= i /\ i <= Len(filled'[t])
    OBVIOUS
  <2> QED
    BY <2>1, <2>2, Zenon DEF RowsInv
<1>4. ASSUME written \subseteq written', i <= Len(filled[t]), row = filled[t][i]
      PROVE  IsRow(t, i - 1, row)'
  <2>1. IsRow(t, i - 1, row)
    BY <1>1, <1>4 DEF RowsInv
  <2> QED
    BY <1>3, <1>4, <2>1 DEF IsRow, Span
<1>5. CASE FillEntry
  <2>1. PICK r \in Row(Table) :
          /\ filled' = [filled EXCEPT ![Table] = Append(filled[Table], r)]
          /\ written \subseteq written'
          /\ IF Table = "natives" THEN r = Text(NameOfs(Table, index))
             ELSE /\ r = [name |-> strIt,
                          len |-> NameLen(NameOfs(Table, index)),
                          address |-> Address(Table, index)]
                  /\ Span("strings", strIt,
                          strIt + NameLen(NameOfs(Table, index))) \in written'
    BY <1>5, EntryFilled
  <2>2. Len(filled[Table]) = index
    BY <1>5, EntryFilled
  <2>3. /\ Len(filled'[Table]) = index + 1
        /\ filled'[Table][index + 1] = r
        /\ \A k \in 1 .. index : filled'[Table][k] = filled[Table][k]
        /\ \A s \in TableSet : s # Table => filled'[s] = filled[s]
    BY <1>1, <2>1, <2>2, AppendProperties
  <2>4. CASE t = Table /\ i = index + 1
    <3>1. i - 1 = index /\ row = r
      BY <1>1, <2>3, <2>4
    <3> QED
      BY <1>3, <2>1, <2>4, <3>1 DEF IsRow, Span
  <2>5. CASE t # Table \/ i # index + 1
    BY <1>1, <1>4, <2>1, <2>2, <2>3, <2>5
  <2> QED
    BY <2>4, <2>5
<1>6. CASE ~FillEntry
  <2>1. filled' = filled
    BY <1>6 DEF Next, CheckHeader, CountSections, CountRefused, CountEntry,
       CountNext, Allocate, Copy, Map, FillNext, Finish, Destroy, vars, built
  <2>2. ~Copy
    <3>1. Copy => Len(filled[t]) = 0
      BY <1>1 DEF Copy, FilledInv
    <3> QED
      BY <1>1, <2>1, <3>1
  <2>3. written' = written
    BY <1>6, <2>2 DEF Next, CheckHeader, CountSections, CountRefused, CountEntry,
       CountNext, Allocate, Map, FillNext, Finish, Destroy, vars, built
  <2> QED
    BY <1>4, <2>1, <2>3
<1> QED
  BY <1>5, <1>6

\* The block is of the size computed from the counts until it is freed.
LEMMA BlockStep ==
  ASSUME LoaderInv, [Next]_vars
  PROVE  BlockInv'
<1>1. LoaderTypes /\ ResultInv /\ BlockInv
  BY DEF LoaderInv
<1>2. CASE phase \in {"header", "sections", "count"}
  <2>1. /\ phase' \in {"header", "sections", "count", "alloc", "returned"}
        /\ UNCHANGED <<alloc, written>>
    BY <1>2 DEF Next, CheckHeader, CountSections, CountRefused, CountEntry,
       CountNext, NextTable, Allocate, Copy, Map, FillEntry, FillNext, Finish,
       Destroy, vars, Go, Return, built
  <2> QED
    BY <1>1, <1>2, <2>1 DEF BlockInv, Building
<1>3. CASE phase \notin {"header", "sections", "count"}
  <2>1. AllocSize' = AllocSize
    BY <1>1, <1>3, StepFacts, SameRegions
  <2>2. /\ phase' \notin {"header", "sections", "count"}
        /\ phase' = "alloc" => UNCHANGED <<phase, alloc, written>>
        /\ phase' = "copy" =>
             written' = written /\ phase \in {"alloc", "copy"}
        /\ phase' \in Building =>
             \/ phase = "alloc" /\ alloc' = AllocSize
             \/ phase \in Building /\ alloc' = alloc
        /\ alloc' \in {alloc, AllocSize, NoBlock}
    BY <1>3 DEF Next, CheckHeader, CountSections, CountRefused, CountEntry,
       CountNext, NextTable, Allocate, Copy, Map, FillEntry, FillNext, Finish,
       Destroy, vars, Go, Return, built, Building
  <2> QED
    BY <1>1, <2>1, <2>2 DEF BlockInv
<1> QED
  BY <1>2, <1>3

\* The strings of the second pass fit behind the regions.
LEMMA StringsFit ==
  ASSUME LoaderInv, FillEntry
  PROVE  Before("strings") <= strIt /\ strIt' <= RegionEnd("strings")
<1>1. /\ LoaderTypes /\ phase = "fill" /\ table \in 1 .. 3 /\ index \in Nat
      /\ count \in [TableSet -> Nat] /\ Table \in TableSet /\ strings \in Nat
  BY Order DEF FillEntry, LoaderInv, LoaderTypes
<1>2. /\ UNCHANGED <<counted, sizes, table>> /\ phase' = "fill"
      /\ index' = index + 1 /\ Table' = Table
  BY <1>1 DEF FillEntry, Table
<1>3. index + 1 <= count[Table]
  BY EntryFilled
<1>4. PICK p : IsRoomBefore(p) /\ strIt = Before("strings") + p[Table][index]
  BY <1>1 DEF LoaderInv, StringsInv
<1>5. PICK q : /\ IsRoomBefore(q)'
               /\ strIt' = Before("strings")' + q[Table'][index']
  <2>1. StringsInv' /\ phase' = "fill"
    BY <1>2, StringsStep DEF Next
  <2> QED
    BY <2>1 DEF StringsInv
<1>6. p[Table][index] \in Nat /\ Before("strings") \in Nat
  BY <1>1, <1>4, Layout DEF IsRoomBefore
<1>7. /\ Before("strings")' = Before("strings")
      /\ RegionEnd("strings") = Before("strings") + strings
      /\ strings' = strings /\ count' = count
  BY <1>1, <1>2, Layout, SameRegions DEF counted
<1>8. q[Table][index + 1] \in Nat /\ q[Table][index + 1] <= strings
  <2>1. index + 1 \in 0 .. count[Table] /\ index + 1 \in Nat
    BY <1>1, <1>3
  <2> QED
    BY <1>1, <1>5, <1>7, <2>1 DEF IsRoomBefore
<1> QED
  BY <1>1, <1>2, <1>4, <1>5, <1>6, <1>7, <1>8

\* Nothing is written outside its region, and no name over another.
LEMMA SpansStep ==
  ASSUME LoaderInv, [Next]_vars
  PROVE  SpansInv'
<1>1. /\ LoaderTypes /\ ResultInv /\ SectionsInv /\ BlockInv /\ SpansInv
      /\ strIt \in Nat /\ strings \in Nat
      /\ written \subseteq [region : TableSet \cup {"code", "data", "strings"},
                            lo : Nat, hi : Nat]
  BY DEF LoaderInv, LoaderTypes
<1>2. CASE Copy
  <2>1. /\ strIt' = Before("strings")
        /\ written' = {Span("code", Before("code"),
                            Before("code") + (img.dat - img.cod)),
                       Span("data", Before("data"),
                            Before("data") + (img.hea - img.dat))}
        /\ UNCHANGED <<sizes, counted>>
    BY <1>2 DEF Copy, DataBytes
  <2>2. /\ codeCount * CellSize = img.dat - img.cod
        /\ dataCount * CellSize = img.hea - img.dat
        /\ dataAllocCount = dataCount + ExtraSize \div CellSize
        /\ img.dat - img.cod \in Nat /\ img.hea - img.dat \in Nat
    <3>1. phase \in Building
      BY <1>2 DEF Copy, Building
    <3>2. /\ img.cod <= img.dat /\ img.dat <= img.hea
          /\ codeCount * CellSize = img.dat - img.cod
          /\ dataCount * CellSize = img.hea - img.dat
          /\ dataAllocCount = dataCount + ExtraSize \div CellSize
      BY <1>1, <3>1 DEF SectionsInv, Counted
    <3>3. img.cod \in Nat /\ img.dat \in Nat /\ img.hea \in Nat
      <4>1. U32 \in Nat \ {0}
        BY SizesAssumption
      <4> QED
        BY <1>1, <4>1, Fields DEF LoaderTypes
    <3> QED
      BY <3>2, <3>3
  <2>3. dataCount * CellSize <= dataAllocCount * CellSize
    <3>1. PICK e \in Nat : e = ExtraSize \div CellSize
      <4>1. CellSize \in Nat \ {0} /\ U32 \in Nat \ {0}
        BY SizesAssumption
      <4>2. img.stp \in Nat /\ img.hea \in Nat
        BY <1>1, <4>1, Fields DEF LoaderTypes
      <4>3. PICK x \in Nat : x = ExtraSize
        BY <4>1, <4>2 DEF ExtraSize
      <4> QED
        BY <4>1, <4>3
    <3> QED
      BY <1>1, <2>2, <3>1, SizesAssumption, Times DEF LoaderTypes
  <2>4. /\ Before("code") \in Nat /\ Before("data") \in Nat
        /\ Before("strings") \in Nat
        /\ RegionEnd("code") = Before("code") + codeCount * CellSize
        /\ RegionEnd("data") = Before("data") + dataAllocCount * CellSize
        /\ RegionEnd("strings") = Before("strings") + strings
    BY <1>1, Layout DEF Bytes, TableSet
  <2>5. dataAllocCount * CellSize \in Nat
    BY <1>1, SizesAssumption, TimesNat DEF LoaderTypes
  <2>6. \A r : Before(r)' = Before(r) /\ RegionEnd(r)' = RegionEnd(r)
    BY <2>1, SameRegions
  <2> QED
    BY <1>1, <2>1, <2>2, <2>3, <2>4, <2>5, <2>6 DEF SpansInv, Span
<1>3. CASE FillEntry
  <2>1. \A r : Before(r)' = Before(r) /\ RegionEnd(r)' = RegionEnd(r)
    BY <1>3, SameRegions DEF FillEntry
  <2>2. Before("strings") <= strIt /\ strIt' <= RegionEnd("strings")
    BY <1>3, StringsFit
  <2>3. PICK lo, hi \in Nat :
          /\ Slot(Table, index) = Span(Table, lo, hi)
          /\ Before(Table) <= lo /\ lo <= hi /\ hi <= RegionEnd(Table)
    BY <1>1, <1>3, EntryFilled, SlotInRegion
  <2>4. PICK n \in Nat : n = NameLen(NameOfs(Table, index))
    BY <1>1, <1>3, EntryFilled, Reads, NameLengths DEF LoaderTypes
  <2>5. \/ /\ written' = written \cup {Span(Table, lo, hi)} /\ strIt' = strIt
        \/ /\ written' = written \cup {Span(Table, lo, hi),
                                       Span("strings", strIt, strIt + n)}
           /\ strIt' = strIt + n + 1
    BY <1>3, <2>3, <2>4, EntryFilled
  <2>6. /\ Table \in TableSet /\ Before("strings") \in Nat
        /\ RegionEnd("strings") \in Nat
        /\ \A r \in TableSet \cup {"code", "data"} :
             RegionEnd(r) \in Nat /\ RegionEnd(r) <= Before("strings")
    BY <1>1, Order, Layout DEF LoaderTypes
  <2>7. ASSUME NEW w \in written
        PROVE  /\ w.lo \in Nat /\ w.hi \in Nat
               /\ Before(w.region) <= w.lo /\ w.lo <= w.hi
               /\ w.hi <= RegionEnd(w.region) /\ w.hi <= strIt
               /\ w.region = "strings" => w.hi < strIt
    BY <1>1, <2>2, <2>6 DEF SpansInv
  <2>8. "strings" \notin TableSet
    BY DEF TableSet
  <2>9. hi <= strIt
    BY <1>1, <2>2, <2>3, <2>6
  <2>10. ASSUME NEW w \in written'
         PROVE  /\ Before(w.region) <= w.lo /\ w.lo <= w.hi
                /\ w.hi <= RegionEnd(w.region)
                /\ w.region = "strings" => w.hi < strIt'
    BY <1>1, <2>2, <2>3, <2>5, <2>6, <2>7, <2>8 DEF Span
  <2>11. ASSUME NEW v \in written', NEW w \in written',
                w.region = "strings", v # w
         PROVE  ~(v.lo <= w.hi /\ w.hi < v.hi)
    <3>1. CASE v \in written /\ w \in written
      BY <1>1, <2>11, <3>1 DEF SpansInv
    <3>2. CASE v = Span(Table, lo, hi) /\ w \in written
      <4>1. w.lo \in Nat /\ w.hi \in Nat /\ Before("strings") <= w.lo /\ w.lo <= w.hi
        BY <2>7, <2>11, <3>2
      <4>2. v.hi = hi /\ hi <= Before("strings")
        BY <2>3, <2>6, <3>2 DEF Span
      <4> QED
        BY <2>6, <4>1, <4>2
    <3>3. CASE v = Span("strings", strIt, strIt + n) /\ w \in written
      BY <1>1, <2>7, <2>11, <3>3 DEF Span
    <3>4. CASE w = Span("strings", strIt, strIt + n)
      <4>1. w.hi = strIt + n /\ strIt + n >= strIt
        BY <1>1, <2>4, <3>4 DEF Span
      <4>2. v.hi <= strIt /\ v.hi \in Nat
        BY <2>3, <2>5, <2>7, <2>9, <2>11, <3>4 DEF Span
      <4> QED
        BY <1>1, <2>4, <4>1, <4>2
    <3>5. w # Span(Table, lo, hi)
      BY <2>6, <2>8, <2>11 DEF Span
    <3> QED
      BY <2>5, <2>11, <3>1, <3>2, <3>3, <3>4, <3>5
  <2> QED
    BY <2>1, <2>2, <2>10, <2>11 DEF SpansInv
<1>4. CASE ~Copy /\ ~FillEntry /\ written = {}
  <2>1. written' = {}
    BY <1>4 DEF Next, CheckHeader, CountSections, CountRefused, CountEntry,
       CountNext, Allocate, Map, FillNext, Finish, Destroy, vars, built
  <2> QED
    BY <2>1 DEF SpansInv
<1>5. CASE ~Copy /\ ~FillEntry /\ written # {}
  <2>1. UNCHANGED <<written, strIt>>
    BY <1>5 DEF Next, CheckHeader, CountSections, CountRefused, CountEntry,
       CountNext, Allocate, Map, FillNext, Finish, Destroy, vars, built
  <2>2. phase \notin {"sections", "count"}
    BY <1>1, <1>5 DEF BlockInv
  <2>3. \A r : Before(r)' = Before(r) /\ RegionEnd(r)' = RegionEnd(r)
    BY <1>1, <2>2, StepFacts, SameRegions
  <2> QED
    BY <1>1, <2>1, <2>3 DEF SpansInv
<1> QED
  BY <1>2, <1>3, <1>4, <1>5

\* A VM that was made starts with its heap above the data, its stack on top.
LEMMA RegsStep ==
  ASSUME LoaderInv, [Next]_vars
  PROVE  RegsInv'
<1>1. LoaderTypes /\ ResultInv /\ RegsInv
  BY DEF LoaderInv
<1>2. CASE Finish /\ result' = "success"
  BY <1>2 DEF Finish, Return, RegsInv, StackTop, sizes
<1>3. CASE ~(Finish /\ result' = "success")
  <2>1. result' = "success" =>
          result = "success" /\ UNCHANGED <<regs, dataCount, dataAllocCount>>
    <3>1. result = "success" => phase \in {"returned", "destroyed"}
      BY <1>1 DEF ResultInv
    <3> QED
      BY <1>3, <3>1
         DEF Next, CheckHeader, HeaderError, CountSections, CountRefused,
         Refused, CountEntry, CountNext, Allocate, Copy, Map, FillEntry,
         FillNext, Finish, Destroy, vars, sizes, built, Go, Return
  <2> QED
    BY <1>1, <2>1 DEF RegsInv, StackTop
<1> QED
  BY <1>2, <1>3

\* What load has in its variables before init.
LEMMA LoaderInitially == Init => LoaderInv
<1> SUFFICES ASSUME Init PROVE LoaderInv
  OBVIOUS
<1>1. LoaderTypes
  <2>1. \A t \in TableSet : filled[t] = <<>>
    BY DEF Init
  <2>2. \A t \in TableSet : filled[t] \in Seq(Row(t))
    BY <2>1, EmptySeq
  <2>3. /\ img \in Images /\ phase \in Phases /\ result \in Results
        /\ table \in 1 .. 3 /\ index \in Nat
        /\ codeCount \in Nat /\ dataCount \in Nat /\ dataAllocCount \in Nat
        /\ strings \in Nat /\ strIt \in Nat
    BY DEF Init, Phases, Building, Results
  <2>4. /\ count \in [TableSet -> Nat] /\ DOMAIN filled = TableSet
        /\ written = {}
    BY DEF Init
  <2> QED
    BY <2>2, <2>3, <2>4 DEF LoaderTypes
<1>2. SectionsInv /\ BlockInv /\ SpansInv /\ RegsInv /\ ResultInv
  BY DEF Init, SectionsInv, BlockInv, SpansInv, RegsInv, ResultInv, Counted,
     Building
<1>3. CountInv
  <2>1. \A t \in TableSet : count[t] = 0
    BY DEF Init
  <2> QED
    BY <2>1 DEF Init, CountInv, Counted, Building
<1>4. FilledInv /\ RowsInv
  <2>1. \A t \in TableSet : filled[t] = <<>> /\ Len(filled[t]) = 0
    BY DEF Init
  <2> QED
    BY <2>1 DEF Init, FilledInv, RowsInv
<1>5. StringsInv
  <2>1. PICK p : p = [t \in TableSet |-> [i \in Nat |-> 0]]
    OBVIOUS
  <2>2. \A t \in TableSet : count[t] = 0
    BY DEF Init
  <2>3. IsRoomBefore(p)
    <3>1. \A t \in TableSet : \A i \in Nat : p[t][i] = 0
      BY <2>1
    <3>2. p \in [TableSet -> [Nat -> Nat]]
      BY <2>1
    <3>3. strings = 0 /\ {"publics", "natives", "pubvars"} \subseteq TableSet
      BY DEF Init, TableSet
    <3> QED
      BY <2>2, <3>1, <3>2, <3>3 DEF IsRoomBefore
  <2> QED
    BY <2>3 DEF StringsInv, Init
<1> QED
  BY <1>1, <1>2, <1>3, <1>4, <1>5 DEF LoaderInv

\* Every step of init and of ~loader keeps each part.
LEMMA LoaderPreserved == LoaderInv /\ [Next]_vars => LoaderInv'
<1> SUFFICES ASSUME LoaderInv, [Next]_vars PROVE LoaderInv'
  OBVIOUS
<1>1. LoaderTypes /\ ResultInv
  BY DEF LoaderInv
<1> QED
  BY <1>1, TypesStep, SectionsStep, CountStep, StringsStep, FilledStep,
     RowsStep, BlockStep, SpansStep, RegsStep, StepFacts DEF LoaderInv

(***************************************************************************)
(* The two passes of init, amx_loader.h: at every step of any load, of any *)
(* file, the counts are those of the tables as far as they have been read, *)
(* and the rows, names and regions of the block are those of the counts.   *)
(***************************************************************************)
THEOREM LoaderInvariance == Spec => []LoaderInv
<1>1. Init => LoaderInv
  BY LoaderInitially
<1>2. LoaderInv /\ [Next]_vars => LoaderInv'
  BY LoaderPreserved
<1> QED
  BY <1>1, <1>2, PTL DEF Spec

\* A region ends inside the block, and a name before the strings end.
LEMMA WritesAreInRegion == LoaderInv => WritesInRegion
<1> SUFFICES ASSUME LoaderInv, alloc # NoBlock, NEW v \in written,
                    NEW w \in written
             PROVE  /\ Before(w.region) <= w.lo /\ w.lo <= w.hi
                    /\ w.hi <= RegionEnd(w.region)
                    /\ RegionEnd(w.region) <= alloc
                    /\ w.region = "strings" =>
                         w.hi < alloc /\ (v # w => ~(v.lo <= w.hi /\ w.hi < v.hi))
  BY DEF WritesInRegion
<1>1. LoaderTypes /\ BlockInv /\ SpansInv
  BY DEF LoaderInv
<1>2. alloc = AllocSize
  BY <1>1 DEF BlockInv
<1>3. /\ w.region \in TableSet \cup {"code", "data", "strings"}
      /\ w.lo \in Nat /\ w.hi \in Nat /\ strIt \in Nat
  BY <1>1 DEF LoaderTypes
<1>4. /\ Before(w.region) <= w.lo /\ w.lo <= w.hi
      /\ w.hi <= RegionEnd(w.region)
      /\ w.region = "strings" => w.hi < strIt
      /\ strIt <= RegionEnd("strings")
      /\ (w.region = "strings" /\ v # w) => ~(v.lo <= w.hi /\ w.hi < v.hi)
  BY <1>1 DEF SpansInv
<1>5. /\ RegionEnd(w.region) \in Nat /\ RegionEnd(w.region) <= AllocSize
      /\ AllocSize \in Nat /\ RegionEnd("strings") <= AllocSize
      /\ RegionEnd("strings") \in Nat
  <2>1. /\ Before("strings") \in Nat /\ AllocSize \in Nat /\ strings \in Nat
        /\ RegionEnd("strings") = Before("strings") + strings
        /\ RegionEnd("strings") <= AllocSize
    BY <1>1, Layout DEF LoaderTypes
  <2>2. CASE w.region = "strings"
    BY <2>1, <2>2
  <2>3. CASE w.region # "strings"
    <3>1. PICK r \in TableSet \cup {"code", "data"} : r = w.region
      BY <1>3, <2>3
    <3>2. /\ Before(r) \in Nat /\ Bytes(r) \in Nat
          /\ RegionEnd(r) = Before(r) + Bytes(r)
          /\ RegionEnd(r) <= Before("strings")
      BY <1>1, Layout
    <3> QED
      BY <2>1, <3>1, <3>2
  <2> QED
    BY <2>2, <2>3
<1> QED
  BY <1>2, <1>3, <1>4, <1>5

\* The rows of a complete second pass are the entries of the file.
LEMMA TablesAreComplete == LoaderInv => TablesComplete
<1> SUFFICES ASSUME LoaderInv, result = "success", NEW t \in TableSet
             PROVE  /\ Len(filled[t]) = count[t] /\ count[t] = Entries(t)
                    /\ \A i \in 1 .. Len(filled[t]) :
                         LET o == NameOfs(t, i - 1) IN
                         IF t = "natives" THEN filled[t][i] = Text(o)
                         ELSE /\ filled[t][i].address = Address(t, i - 1)
                              /\ Span("strings", filled[t][i].name,
                                      filled[t][i].name + NameEnd(o) - o)
                                   \in written
  BY DEF TablesComplete
<1>1. LoaderTypes /\ CountInv /\ FilledInv /\ RowsInv
  BY DEF LoaderInv
<1>2. Len(filled[t]) = count[t] /\ count[t] = Entries(t)
  BY <1>1 DEF FilledInv, CountInv, Counted
<1>3. ASSUME NEW i \in 1 .. Len(filled[t]), t # "natives"
      PROVE  filled[t][i].name + NameEnd(NameOfs(t, i - 1)) - NameOfs(t, i - 1)
               = filled[t][i].name + NameLen(NameOfs(t, i - 1))
  <2>1. filled[t][i].name \in Nat
    <3>1. filled[t] \in Seq([name : Nat, len : Nat, address : Nat])
      BY <1>1, <1>3 DEF LoaderTypes, Row
    <3>2. filled[t][i] \in [name : Nat, len : Nat, address : Nat]
      BY <3>1, ElementOfSeq
    <3> QED
      BY <3>2
  <2>2. PICK o \in Nat : o = NameOfs(t, i - 1)
    BY <1>1, Reads DEF LoaderTypes
  <2>3. NameEnd(o) \in Nat
    BY <1>1, NameEnds DEF LoaderTypes
  <2> QED
    BY <2>1, <2>2, <2>3 DEF NameLen
<1> QED
  BY <1>1, <1>2, <1>3 DEF RowsInv, IsRow

\* The cells between the heap and the end of the data region.
LEMMA RoomAboveHeap ==
  ASSUME img \in Images
  PROVE  /\ ExtraSize \div CellSize \in Nat
         /\ ExtraSize \div CellSize = 0 <=> img.stp = img.hea
         /\ (ExtraSize \div CellSize) * CellSize <= U32 + CellSize
<1>1. CellSize \in Nat \ {0} /\ U32 \in Nat \ {0}
  BY SizesAssumption
<1>2. PICK s \in 0 .. U32 - 1 : s = img.stp
  BY Fields
<1>3. PICK h \in 0 .. U32 - 1 : h = img.hea
  BY Fields
<1>4. PICK m \in 0 .. U32 - 1 : m = (s - h) % U32
  BY <1>1, <1>2, <1>3
<1>5. m = 0 <=> s = h
  BY <1>1, <1>2, <1>3, <1>4
<1>6. PICK e \in Nat : e = ExtraSize
  BY <1>1, <1>2, <1>3, <1>4 DEF ExtraSize
<1>7. e = m + CellSize - 1
  BY <1>2, <1>3, <1>4, <1>6 DEF ExtraSize
<1>8. e \div CellSize \in Nat /\ (e \div CellSize) * CellSize <= e
  BY <1>1, <1>6
<1>9. e \div CellSize = 0 <=> m = 0
  <2>1. CASE m = 0
    BY <1>1, <1>7, <2>1
  <2>2. CASE m # 0
    <3>1. e >= CellSize
      BY <1>1, <1>4, <1>7, <2>2
    <3> QED
      BY <1>1, <1>6, <2>2, <3>1
  <2> QED
    BY <2>1, <2>2
<1>10. (e \div CellSize) * CellSize <= U32 + CellSize
  BY <1>1, <1>4, <1>7, <1>8
<1> QED
  BY <1>2, <1>3, <1>5, <1>6, <1>8, <1>9, <1>10

\* What the stack pointer is modulo U64, below 0 and from 0 on.
LEMMA Wrapped ==
  ASSUME NEW x \in Int, x < U64, x >= 0 - U64
  PROVE  x % U64 = IF x >= 0 THEN x ELSE U64 + x
<1>1. U64 \in Nat \ {0}
  BY SizesAssumption
<1> QED
  BY <1>1

\* STK is the last cell of the data region, if it has a cell.
LEMMA StackIsPlaced == LoaderInv => StackPlaced
<1> SUFFICES ASSUME LoaderInv, result = "success"
             PROVE  IF img.stp = img.hea /\ img.hea = img.dat
                      THEN Bytes("data") = 0 /\ regs.stk = U64 - CellSize
                      ELSE /\ regs.stk + CellSize = Bytes("data")
                           /\ regs.hea <= regs.stk <=> img.stp # img.hea
                           /\ regs.hea <= regs.stk + CellSize
  BY DEF StackPlaced
<1>1. /\ LoaderTypes /\ SectionsInv /\ RegsInv
      /\ dataCount \in Nat /\ dataAllocCount \in Nat /\ img \in Images
  BY DEF LoaderInv, LoaderTypes
<1>2. /\ CellSize \in Nat \ {0} /\ U32 \in Nat \ {0} /\ U64 \in Nat
      /\ 2 * U32 + CellSize <= U64
  BY SizesAssumption
<1>3. PICK k \in Nat : k = ExtraSize \div CellSize
  BY <1>1, RoomAboveHeap
<1>4. (k = 0 <=> img.stp = img.hea) /\ k * CellSize <= U32 + CellSize
  BY <1>1, <1>3, RoomAboveHeap
<1>5. dataAllocCount = dataCount + k /\ dataCount * CellSize = img.hea - img.dat
  BY <1>1, <1>3 DEF SectionsInv, Counted
<1>6. PICK h \in Nat : h = dataCount * CellSize
  BY <1>1, <1>2, TimesNat
<1>7. PICK r \in Nat : r = k * CellSize
  BY <1>2, <1>3, TimesNat
<1>8. h < U32 /\ (h = 0 <=> img.hea = img.dat)
  <2>1. img.hea \in 0 .. U32 - 1 /\ img.dat \in Nat
    BY <1>1, Fields
  <2> QED
    BY <1>2, <1>5, <1>6, <2>1
<1>9. r <= U32 + CellSize /\ (r = 0 <=> img.stp = img.hea) /\ (r # 0 => r >= CellSize)
  <2>1. k = 0 => r = 0
    BY <1>2, <1>7
  <2>2. k # 0 => r >= CellSize
    <3> SUFFICES ASSUME k # 0 PROVE r >= CellSize
      OBVIOUS
    <3>1. 1 * CellSize <= k * CellSize
      BY <1>2, <1>3, Times
    <3> QED
      BY <1>2, <1>7, <3>1
  <2> QED
    BY <1>2, <1>4, <1>7, <2>1, <2>2
<1>10. Bytes("data") = h + r
  <2>1. Bytes("data") = (dataCount + k) * CellSize
    BY <1>5 DEF Bytes
  <2> QED
    BY <1>1, <1>2, <1>3, <1>6, <1>7, <2>1
<1>11. (dataAllocCount - 1) * CellSize = h + r - CellSize
  <2>1. dataAllocCount - 1 = dataCount + k - 1
    BY <1>1, <1>3, <1>5
  <2>2. (dataAllocCount - 1) * CellSize = (dataCount + k - 1) * CellSize
    BY <2>1
  <2>3. (dataCount + k - 1) * CellSize = h + r - CellSize
    BY <1>1, <1>2, <1>3, <1>6, <1>7
  <2> QED
    BY <2>2, <2>3
<1>12. PICK x \in Int : x = h + r - CellSize
  BY <1>2, <1>6, <1>7
<1>13. regs = [stk |-> x % U64, hea |-> h]
  BY <1>1, <1>6, <1>11, <1>12 DEF RegsInv, StackTop
<1>14. x % U64 = IF x >= 0 THEN x ELSE U64 + x
  <2>1. x < U64 /\ x >= 0 - U64
    BY <1>2, <1>6, <1>7, <1>8, <1>9, <1>12
  <2> QED
    BY <2>1, Wrapped
<1>15. CASE img.stp = img.hea /\ img.hea = img.dat
  <2>1. h = 0 /\ r = 0
    BY <1>8, <1>9, <1>15
  <2> QED
    BY <1>2, <1>10, <1>12, <1>13, <1>14, <1>15, <2>1
<1>16. CASE ~(img.stp = img.hea /\ img.hea = img.dat)
  <2>1. h >= CellSize \/ r >= CellSize
    <3>1. CASE r # 0
      BY <1>9, <3>1
    <3>2. CASE r = 0
      <4>1. h # 0
        BY <1>8, <1>9, <1>16, <3>2
      <4>2. dataCount # 0
        BY <1>2, <1>6, <4>1
      <4>3. 1 * CellSize <= dataCount * CellSize
        BY <1>1, <1>2, <4>2, Times
      <4> QED
        BY <1>2, <1>6, <4>3
    <3> QED
      BY <3>1, <3>2
  <2>2. x >= 0 /\ x % U64 = x
    BY <1>2, <1>6, <1>7, <1>12, <1>14, <2>1
  <2>3. regs.stk = h + r - CellSize /\ regs.hea = h
    BY <1>12, <1>13, <2>2
  <2>4. regs.hea <= regs.stk <=> r # 0
    BY <1>2, <1>6, <1>7, <1>9, <2>3
  <2> QED
    BY <1>2, <1>6, <1>7, <1>9, <1>10, <1>16, <2>3, <2>4
<1> QED
  BY <1>15, <1>16

(***************************************************************************)
(* The second pass of init (amx_loader.h, callbacks of iterate_publics,    *)
(* iterate_natives and iterate_pubvars) checks no bound: no file makes it  *)
(* write outside the region the first pass has made room for.              *)
(***************************************************************************)
THEOREM SecondPassFits == Spec => []WritesInRegion
BY LoaderInvariance, WritesAreInRegion, PTL

(***************************************************************************)
(* The second pass ignores an iteration that ends early: after a success   *)
(* the tables of the VM are those of the file all the same.                *)
(***************************************************************************)
THEOREM SecondPassCompletes == Spec => []TablesComplete
BY LoaderInvariance, TablesAreComplete, PTL

(***************************************************************************)
(* The registers that init gives every VM: STK is the last cell of the     *)
(* data region, above HEA exactly if the file asks for room, also when     *)
(* stp - hea wraps, and has wrapped itself if the region has no cell.      *)
(***************************************************************************)
THEOREM StackStart == Spec => []StackPlaced
BY LoaderInvariance, StackIsPlaced, PTL
=============================================================================
