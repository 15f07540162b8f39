------------------------------ MODULE Registers ------------------------------
(***************************************************************************)
(* cr_read, cr_write, dr_read and dr_write of the x64 build                *)
(* (natives_impl_windows.cpp).  The register is an operand of an           *)
(* instruction and cannot be computed, so _crdr (x64.asm) holds one stub   *)
(* per register and direction, 8 bytes apart, and jumps to the one whose   *)
(* offset crdr_wrap composed.                                              *)
(***************************************************************************)
EXTENDS Integers

CONSTANTS
  Implemented,   \* registers the processor has, [kind, number] each
  CellValues,    \* what is written to them
  Indices        \* numbers a module may ask for

Register == [kind : {"cr", "dr"}, number : 0 .. 15]

ASSUME RegistersAssumption ==
  /\ Implemented \subseteq Register
  /\ Indices \subseteq Nat /\ CellValues \subseteq Nat

VARIABLES
  cpu,       \* the registers
  named,     \* what modules have left in them, by the name they used
  answer,    \* the last read: what was to be returned, and what was
  stopped    \* the register asked for when the machine stopped, if it did

registerVars == <<cpu, named, answer, stopped>>

None == [kind |-> "none", number |-> 0]
NoAnswer == [meant |-> 0, value |-> 0]
-----------------------------------------------------------------------------
Bit(condition) == IF condition THEN 1 ELSE 0

(***************************************************************************)
(* The stubs, in the order of the file: an opcode, a REX prefix for the    *)
(* upper eight of a kind, and an operand byte with the register in bits    *)
(* 3 to 5.                                                                 *)
(***************************************************************************)
Opcode == <<33, 32, 35, 34>>       \* 21h, 20h, 23h, 22h
Stub(n) ==
  [opcode |-> Opcode[(n \div 16) + 1], rex |-> (n % 16) \div 8,
   operand |-> 192 + 8 * (n % 8) + 2 * Bit(n >= 32)]

RegisterOf(stub) ==
  [kind |-> IF stub.opcode \in {32, 34} THEN "cr" ELSE "dr",
   number |-> (8 * stub.rex) + ((stub.operand \div 8) % 8)]
Writes(stub) == stub.opcode \in {34, 35}

MutantId(idx, isCr, isWr) ==
  ((idx % 16) * 8) + Bit(isCr) * 256 + Bit(isWr) * 128
Id(idx, isCr, isWr) ==
  ((idx % 16) * 8) + Bit(isCr) * 128 + Bit(isWr) * 256

\* The mask 1f8h keeps the offset inside the table and on a stub.
StubAt(id) == Stub((id % 512) \div 8)

Named(kind, idx) == [kind |-> kind, number |-> idx % 16]

RegistersInit ==
  /\ cpu = [r \in Implemented |-> 0]
  /\ named = cpu
  /\ answer = NoAnswer
  /\ stopped = None

(***************************************************************************)
(* crdr_wrap and the stub it reaches.  A register the processor has not    *)
(* raises an exception, which these natives do not handle.                 *)
(***************************************************************************)
crdr_wrap(value, idx, kind, isWr) ==
  LET asked == Named(kind, idx)
      stub  == StubAt(Id(idx, kind = "cr", isWr))
      r     == RegisterOf(stub)
  IN  /\ stopped = None
      /\ stopped' = IF r \in Implemented THEN None ELSE asked
      /\ cpu' = IF r \in Implemented /\ Writes(stub)
                  THEN [cpu EXCEPT ![r] = value] ELSE cpu
      /\ named' = IF asked \in Implemented /\ isWr
                    THEN [named EXCEPT ![asked] = value] ELSE named
      /\ answer' = IF {r, asked} \subseteq Implemented /\ ~isWr
                     THEN [meant |-> named[asked], value |-> cpu[r]]
                     ELSE NoAnswer

RegistersNext ==
  \E idx \in Indices, kind \in {"cr", "dr"} :
    \/ crdr_wrap(0, idx, kind, FALSE)
    \/ \E value \in CellValues : crdr_wrap(value, idx, kind, TRUE)

RegistersSpec == RegistersInit /\ [][RegistersNext]_registerVars
-----------------------------------------------------------------------------
(***************************************************************************)
(* The stub that runs is that of the register, kind and direction the      *)
(* module named: a write changes it and nothing else, a read returns what  *)
(* was last written to it, and the machine stops only for a register that  *)
(* does not exist.  (Numbers above 15 name the register of their low four  *)
(* bits.)                                                                  *)
(***************************************************************************)
RegistersAsNamed ==
  /\ cpu = named
  /\ answer.value = answer.meant
  /\ stopped \notin Implemented
=============================================================================
