------------------------------ MODULE AmxLoader ------------------------------
(***************************************************************************)
(* loader::init (amx_loader.h): a compiled module becomes the memory image *)
(* of a VM.  A first pass over the three symbol tables validates them and  *)
(* counts what they need; one pool block is allocated and carved into      *)
(* regions; a second pass over the same tables fills the regions, each     *)
(* time trusting what the first pass counted.                              *)
(*                                                                         *)
(* Offsets and sizes are those of the x64 build: the uint32 header fields  *)
(* wrap modulo U32, and size_t modulo U64 where the stack pointer is set;  *)
(* elsewhere the sizes of a file of uint32 fields cannot reach U64.        *)
(***************************************************************************)
EXTENDS Integers, Sequences

CONSTANTS
  Images,       \* the files the loader is given
  Natives,      \* the names of the driver's natives
  U32, U64,     \* one more than the largest uint32, uint64
  HeaderSize, CellSize, PairSize, PtrSize, Align

ASSUME SizesAssumption ==
  /\ {U32, HeaderSize, CellSize, PairSize, PtrSize, Align} \subseteq Nat \ {0}
  /\ PtrSize <= PairSize
  /\ U64 \in Nat /\ 2 * U32 + CellSize <= U64

Tables   == <<"publics", "natives", "pubvars">>
TableSet == {"publics", "natives", "pubvars"}
Regions  == <<"code", "data", "publics", "pubvars", "natives">>
Results  == {"none", "success", "invalid_file", "unsupported_file_version",
             "unsupported_amx_version", "feature_not_supported",
             "wrong_cell_size", "native_not_resolved", "unknown"}

(***************************************************************************)
(* A file.  `zeros` are the offsets of its zero bytes, `text` the string   *)
(* spelled at an offset, and `nameofs` and `address` what the 32-bit words *)
(* of a table entry at an offset read; words it does not list are zero.    *)
(***************************************************************************)
IsImage(m) ==
  /\ m.bufSize \in Nat
  /\ {m.size, m.defsize, m.cod, m.dat, m.hea, m.stp, m.cip, m.publics,
      m.natives, m.libraries, m.pubvars, m.tags} \subseteq 0 .. U32 - 1
  /\ m.magic \in {"own", "other_width", "none"}
  /\ m.fileVersionOk \in BOOLEAN /\ m.amxVersionOk \in BOOLEAN
  /\ m.overlay \in BOOLEAN /\ m.sleep \in BOOLEAN
  /\ m.zeros \subseteq Nat
  /\ \A p \in DOMAIN m.nameofs : m.nameofs[p] \in 0 .. U32 - 1
  /\ \A p \in DOMAIN m.address : m.address[p] \in 0 .. U32 - 1

ASSUME ImagesAssumption == \A m \in Images : IsImage(m)

VARIABLES
  img,        \* the file
  phase,      \* step of init to take next
  table,      \* position in Tables of the table being read
  index,      \* entries of that table read so far
  codeCount, dataCount, dataAllocCount, main,
  count,      \* first pass: valid entries of each table
  strings,    \* first pass: bytes the names need (string_buffer_size)
  alloc,      \* size of the pool block, NoBlock when there is none
  strIt,      \* second pass: offset of string_buffer in the block
  filled,     \* second pass: the entries of each table
  written,    \* byte ranges of the block written to, with their region
  converted,  \* cells of code and of data put into host byte order
  mapped,     \* code and data regions mapped in the VM
  regs,       \* registers STK, HEA of the VM
  result

vars == <<img, phase, table, index, codeCount, dataCount, dataAllocCount,
          main, count, strings, alloc, strIt, filled, written, converted,
          mapped, regs, result>>
sizes   == <<codeCount, dataCount, dataAllocCount, main>>
counted == <<count, strings>>
built   == <<alloc, strIt, filled, written, converted, mapped, regs>>

NoBlock == -1

-----------------------------------------------------------------------------
AlignUp(n) == ((n + Align - 1) \div Align) * Align

ValidArray(begin, end, entry) ==
  /\ begin <= img.bufSize
  /\ end <= img.bufSize
  /\ begin <= end
  /\ (end - begin) % entry = 0

TableBegin(t) == CASE t = "publics" -> img.publics
                   [] t = "natives" -> img.natives
                   [] t = "pubvars" -> img.pubvars
TableEnd(t)   == CASE t = "publics" -> img.natives
                   [] t = "natives" -> img.libraries
                   [] t = "pubvars" -> img.tags

ValidTable(t) == ValidArray(TableBegin(t), TableEnd(t), img.defsize)
Entries(t)    == (TableEnd(t) - TableBegin(t)) \div img.defsize
EntryAt(t, i) == TableBegin(t) + i * img.defsize

Word(words, p) == IF p \in DOMAIN words THEN words[p] ELSE 0
NameOfs(t, i) == Word(img.nameofs, EntryAt(t, i))
Address(t, i) == Word(img.address, EntryAt(t, i))
Text(o)       == Word(img.text, o)

\* The byte after the last one of a name: its first zero byte in the file.
NameEnd(o) ==
  LET ends == {z \in img.zeros : o <= z /\ z < img.bufSize}
  IN  IF ends = {} THEN img.bufSize
      ELSE CHOOSE z \in ends : \A y \in ends : z <= y

Terminated(o) == o <= NameEnd(o) /\ NameEnd(o) < img.bufSize
NameLen(o)    == NameEnd(o) - o
Resolved(o)   == Text(o) \in Natives

(***************************************************************************)
(* The regions of the pool block, in the order they are carved.            *)
(***************************************************************************)
Bytes(r) ==
  CASE r = "code"    -> codeCount * CellSize
    [] r = "data"    -> dataAllocCount * CellSize
    [] r = "publics" -> count["publics"] * PairSize
    [] r = "pubvars" -> count["pubvars"] * PairSize
    [] r = "natives" -> count["natives"] * PtrSize

\* The size computed before the allocation takes the natives for pairs.
Before(r) ==
  CASE r = "code"    -> 0
    [] r = "data"    -> AlignUp(Bytes("code"))
    [] r = "publics" -> AlignUp(Bytes("code")) + AlignUp(Bytes("data"))
    [] r = "pubvars" -> AlignUp(Bytes("code")) + AlignUp(Bytes("data"))
                          + AlignUp(Bytes("publics"))
    [] r = "natives" -> AlignUp(Bytes("code")) + AlignUp(Bytes("data"))
                          + AlignUp(Bytes("publics"))
                          + AlignUp(Bytes("pubvars"))
    [] r = "strings" -> AlignUp(Bytes("code")) + AlignUp(Bytes("data"))
                          + AlignUp(Bytes("publics"))
                          + AlignUp(Bytes("pubvars"))
                          + AlignUp(Bytes("natives"))

MutantAllocSize == Before("natives") + strings
AllocSize == Before("natives") + AlignUp(count["natives"] * PairSize) + strings

-----------------------------------------------------------------------------
Init ==
  /\ img \in Images
  /\ phase = "header" /\ table = 1 /\ index = 0
  /\ codeCount = 0 /\ dataCount = 0 /\ dataAllocCount = 0 /\ main = 0
  /\ count = [t \in TableSet |-> 0]
  /\ strings = 0
  /\ alloc = NoBlock /\ strIt = 0
  /\ filled = [t \in TableSet |-> <<>>]
  /\ written = {}
  /\ converted = [code |-> 0, data |-> 0]
  /\ mapped = {}
  /\ regs = [stk |-> 0, hea |-> 0]
  /\ result = "none"

Return(r) == phase' = "returned" /\ result' = r
Go(p) == phase' = p /\ result' = result

HeaderError ==
  IF img.bufSize < HeaderSize THEN "invalid_file"
  ELSE IF img.magic = "other_width" THEN "wrong_cell_size"
  ELSE IF img.magic = "none" \/ img.size > img.bufSize THEN "invalid_file"
  ELSE IF ~img.fileVersionOk THEN "unsupported_file_version"
  ELSE IF ~img.amxVersionOk THEN "unsupported_amx_version"
  ELSE IF img.overlay \/ img.sleep THEN "feature_not_supported"
  ELSE IF img.defsize < 8 THEN "invalid_file"
  ELSE "none"

CheckHeader ==
  /\ phase = "header"
  /\ IF HeaderError = "none" THEN Go("sections") ELSE Return(HeaderError)
  /\ UNCHANGED <<img, table, index, sizes, counted, built>>

(***************************************************************************)
(* stp - hea is a uint32; the stack and heap come on top of the data.      *)
(***************************************************************************)
MutantExtraSize == img.stp - img.hea + CellSize - 1
ExtraSize == ((img.stp - img.hea) % U32) + CellSize - 1

CountSections ==
  /\ phase = "sections"
  /\ IF /\ ValidArray(img.cod, img.dat, CellSize)
        /\ ValidArray(img.dat, img.hea, CellSize)
       THEN /\ codeCount' = (img.dat - img.cod) \div CellSize
            /\ dataCount' = (img.hea - img.dat) \div CellSize
            /\ dataAllocCount' = dataCount' + ExtraSize \div CellSize
            /\ main' = IF img.cip = U32 - 1 THEN 0 ELSE img.cip
            /\ Go("count")
       ELSE Return("invalid_file") /\ UNCHANGED sizes
  /\ UNCHANGED <<img, table, index, counted, built>>

Table == Tables[table]

(***************************************************************************)
(* The first pass: one step per table entry, publics, natives, pubvars.    *)
(***************************************************************************)
MutantFound(t, o) == TRUE
Found(t, o) == t = "natives" => Resolved(o)

Refused ==
  IF Table = "pubvars" /\ img.libraries # img.pubvars
    THEN "feature_not_supported"
  ELSE IF ~ValidTable(Table) THEN "invalid_file"
  ELSE IF index < Entries(Table)
    THEN IF ~Terminated(NameOfs(Table, index)) THEN "invalid_file"
         ELSE IF ~Found(Table, NameOfs(Table, index))
           THEN "native_not_resolved"
         ELSE "none"
  ELSE "none"

CountRefused ==
  /\ phase = "count"
  /\ Refused # "none"
  /\ Return(Refused)
  /\ UNCHANGED <<img, table, index, sizes, counted, built>>

NameRoom(o) == NameLen(o) + 1

CountEntry ==
  /\ phase = "count"
  /\ Refused = "none"
  /\ index < Entries(Table)
  /\ index' = index + 1
  /\ count' = [count EXCEPT ![Table] = @ + 1]
  /\ strings' = IF Table = "natives" THEN strings
                ELSE strings + NameRoom(NameOfs(Table, index))
  /\ UNCHANGED <<img, phase, table, sizes, built, result>>

NextTable(last) ==
  /\ index' = 0
  /\ IF table < Len(Tables)
       THEN table' = table + 1 /\ phase' = phase
       ELSE table' = 1 /\ phase' = last

CountNext ==
  /\ phase = "count"
  /\ Refused = "none"
  /\ index = Entries(Table)
  /\ NextTable("alloc")
  /\ UNCHANGED <<img, sizes, counted, built, result>>

-----------------------------------------------------------------------------
Allocate ==
  /\ phase = "alloc"
  /\ \/ alloc' = AllocSize /\ Go("copy")
     \/ alloc' = alloc /\ Return("unknown")
  /\ UNCHANGED <<img, table, index, sizes, counted, strIt, filled, written,
                 converted, mapped, regs>>

Span(r, lo, hi) == [region |-> r, lo |-> lo, hi |-> hi]

(***************************************************************************)
(* Carving the regions, then copying code and data into theirs and putting *)
(* their cells into host byte order; both loops run over the code's count. *)
(***************************************************************************)
DataBytes == img.hea - img.dat

Copy ==
  /\ phase = "copy"
  /\ strIt' = Before("strings")
  /\ written' = {Span("code", Before("code"),
                       Before("code") + (img.dat - img.cod)),
                 Span("data", Before("data"), Before("data") + DataBytes)}
  /\ converted' = [code |-> codeCount, data |-> codeCount]
  /\ Go("map")
  /\ UNCHANGED <<img, table, index, sizes, counted, alloc, filled, mapped,
                 regs>>

Map ==
  /\ phase = "map"
  /\ \/ mapped' = {"code", "data"} /\ Go("fill")
     \/ mapped' \in {{}, {"code"}} /\ Return("unknown")
  /\ UNCHANGED <<img, table, index, sizes, counted, alloc, strIt, filled,
                 written, converted, regs>>

(***************************************************************************)
(* The second pass: a public or pubvar is a pair of its name, copied to    *)
(* the strings, and its address; a native is the function that was found.  *)
(***************************************************************************)
Slot(t, i) ==
  LET size == IF t = "natives" THEN PtrSize ELSE PairSize
  IN  Span(t, Before(t) + i * size, Before(t) + (i + 1) * size)

\* The callback that reads an entry returns true, and the iteration goes on.
Readable(t, i) ==
  /\ Terminated(NameOfs(t, i))
  /\ t = "natives" => Resolved(NameOfs(t, i))

FillEntry ==
  LET o == NameOfs(Table, index) IN
  /\ phase = "fill"
  /\ index < Entries(Table)
  /\ Readable(Table, index)
  /\ index' = index + 1
  /\ IF Table = "natives"
       THEN /\ filled' = [filled EXCEPT ![Table] = Append(@, Text(o))]
            /\ written' = written \cup {Slot(Table, index)}
            /\ strIt' = strIt
       ELSE /\ filled' = [filled EXCEPT ![Table] =
                 Append(@, [name |-> strIt, len |-> NameLen(o),
                            address |-> Address(Table, index)])]
            /\ written' = written \cup
                 {Slot(Table, index),
                  Span("strings", strIt, strIt + NameLen(o))}
            /\ strIt' = strIt + NameLen(o) + 1
  /\ UNCHANGED <<img, phase, table, sizes, counted, alloc, converted, mapped,
                 regs, result>>

FillNext ==
  /\ phase = "fill"
  /\ index < Entries(Table) => ~Readable(Table, index)
  /\ NextTable("finish")
  /\ UNCHANGED <<img, sizes, counted, built, result>>

StackTop == ((dataAllocCount - 1) * CellSize) % U64

Finish ==
  /\ phase = "finish"
  /\ IF strIt >= alloc
       THEN Return("unknown") /\ regs' = regs
       ELSE /\ regs' = [stk |-> StackTop, hea |-> dataCount * CellSize]
            /\ Return("success")
  /\ UNCHANGED <<img, table, index, sizes, counted, alloc, strIt, filled,
                 written, converted, mapped>>

(***************************************************************************)
(* ~loader: at once after a failure, and with the VM after a success.      *)
(***************************************************************************)
Destroy ==
  /\ phase = "returned"
  /\ phase' = "destroyed"
  /\ alloc' = NoBlock
  /\ UNCHANGED <<img, table, index, sizes, counted, strIt, filled, written,
                 converted, mapped, regs, result>>

Next == \/ CheckHeader \/ CountSections
        \/ CountRefused \/ CountEntry \/ CountNext
        \/ Allocate \/ Copy \/ Map \/ FillEntry \/ FillNext \/ Finish
        \/ Destroy

Spec == Init /\ [][Next]_vars
-----------------------------------------------------------------------------
(***************************************************************************)
(* The second pass writes only where the first pass made room: each range  *)
(* lies in its region, and no two overlap ("safe since it was checked when *)
(* counting").  Names keep a zero byte behind them.                        *)
(***************************************************************************)
RegionEnd(r) ==
  IF r = "strings" THEN Before("strings") + strings ELSE Before(r) + Bytes(r)

WritesInRegion ==
  alloc # NoBlock =>
    \A v, w \in written :
      /\ Before(w.region) <= w.lo /\ w.lo <= w.hi
      /\ w.hi <= RegionEnd(w.region) /\ RegionEnd(w.region) <= alloc
      /\ w.region = "strings" =>
           w.hi < alloc /\ (v # w => ~(v.lo <= w.hi /\ w.hi < v.hi))

(***************************************************************************)
(* The VM gets the tables of the file, entry for entry: the second pass    *)
(* fills what the first pass counted, although it ignores an iteration     *)
(* that stops early.                                                       *)
(***************************************************************************)
TablesComplete ==
  result = "success" =>
    \A t \in TableSet :
      /\ Len(filled[t]) = count[t]
      /\ count[t] = Entries(t)
      /\ \A i \in 1 .. Len(filled[t]) :
           LET o == NameOfs(t, i - 1) IN
           IF t = "natives" THEN filled[t][i] = Text(o)
           ELSE /\ filled[t][i].address = Address(t, i - 1)
                /\ Span("strings", filled[t][i].name,
                         filled[t][i].name + NameEnd(o) - o) \in written

(***************************************************************************)
(* Where a VM starts its stack (amx_loader.h:582): on the last cell of its *)
(* data region, which is above the heap exactly if the file asks for room  *)
(* between the two, also where stp - hea wraps, and else is the cell below *)
(* it.  A file with neither data nor room has no cell at all: its stack    *)
(* pointer is the last cell there could be, far from the region.           *)
(***************************************************************************)
StackPlaced ==
  result = "success" =>
    IF img.stp = img.hea /\ img.hea = img.dat
      THEN Bytes("data") = 0 /\ regs.stk = U64 - CellSize
      ELSE /\ regs.stk + CellSize = Bytes("data")
           /\ regs.hea <= regs.stk <=> img.stp # img.hea
           /\ regs.hea <= regs.stk + CellSize

(***************************************************************************)
(* The converse of a comment: the final check of init, "something went     *)
(* very very wrong", never fires on a file both passes have accepted.      *)
(***************************************************************************)
NothingWentWrong == phase = "finish" => strIt < alloc

(***************************************************************************)
(* "safe since it was checked when counting": the byte order conversion of *)
(* the data touches only cells of the data region.                         *)
(***************************************************************************)
ConversionInRegion == converted.data <= dataAllocCount
=============================================================================
