------------------------------ MODULE PciConfig ------------------------------
(***************************************************************************)
(* pci_config_read and pci_config_write (natives_impl_windows.cpp): each   *)
(* asks for the vendor id first and then goes at the registers, in a       *)
(* second call of the HAL.  Between the two the device may come or go, and *)
(* what the HAL returns tells less than the code would like to know.       *)
(***************************************************************************)
EXTENDS Integers

CONSTANTS
  PciThreads,
  Offsets,         \* offsets asked for
  ConfigSize       \* bytes of configuration space of a function

ASSUME OffsetsAssumption == Offsets \subseteq Nat /\ ConfigSize \in Nat \ {0}

Lengths == {1, 2, 4, 8}
Directions == {"read", "write"}

VARIABLES
  present,    \* the device is there
  bus,        \* its bus exists
  pci         \* of every thread the call it is in

pciVars == <<present, bus, pci>>

(***************************************************************************)
(* The buffer of a call: its first `real` bytes are the device's, and of   *)
(* the others `ones` are what the HAL puts there for an absent device.     *)
(* `seen` and `gone` tell whether the device was there, and was not there, *)
(* at some moment of the call.                                             *)
(***************************************************************************)
NoRequest == [at |-> "idle"]
Request(direction, offset, length) ==
  [at |-> "probe", direction |-> direction, offset |-> offset,
   length |-> length, status |-> "none", real |-> 0, ones |-> 0,
   seen |-> present, gone |-> ~present]

PciInit ==
  /\ present \in BOOLEAN /\ bus \in BOOLEAN
  /\ present => bus
  /\ pci = [t \in PciThreads |-> NoRequest]

Lesser(a, b) == IF a < b THEN a ELSE b

(***************************************************************************)
(* HalGetBusDataByOffset: nothing without a bus; two bytes of ones, the    *)
(* invalid vendor id, without a device; and no more than there is to read. *)
(* HalSetBusDataByOffset: the bytes the device took.                       *)
(***************************************************************************)
InReach(c) ==
  IF c.offset >= ConfigSize THEN 0 ELSE Lesser(c.length, ConfigSize - c.offset)

HalGet(c) == IF ~bus THEN 0 ELSE IF ~present THEN 2 ELSE InReach(c)
HalSet(c) == IF present THEN InReach(c) ELSE 0

Buffered(c) ==
  IF present THEN [c EXCEPT !.real = InReach(c)]
  ELSE IF bus /\ c.direction = "read" THEN [c EXCEPT !.ones = Lesser(c.length, 2)]
  ELSE c

Returned(t, c, status) ==
  pci' = [pci EXCEPT ![t] = [c EXCEPT !.at = "returned", !.status = status]]

-----------------------------------------------------------------------------
pci_config(t) ==
  /\ pci[t] = NoRequest
  /\ \E direction \in Directions, offset \in Offsets, length \in Lengths :
       pci' = [pci EXCEPT ![t] = Request(direction, offset, length)]
  /\ UNCHANGED <<present, bus>>

MutantAbsent == FALSE
Absent == ~present

Probe(t) ==
  /\ pci[t].at = "probe"
  /\ IF ~bus THEN Returned(t, pci[t], "NOT_FOUND")
     ELSE IF Absent THEN Returned(t, pci[t], "DOES_NOT_EXIST")
     ELSE pci' = [pci EXCEPT ![t].at = "transfer"]
  /\ UNCHANGED <<present, bus>>

ReadStatus(c) ==
  IF HalGet(c) = 0 THEN "NOT_FOUND"
  ELSE IF HalGet(c) = 2 /\ c.length # 2 THEN "DOES_NOT_EXIST"
  ELSE IF HalGet(c) # c.length THEN "UNSUCCESSFUL"
  ELSE "SUCCESS"

WriteStatus(c) == IF HalSet(c) # c.length THEN "UNSUCCESSFUL" ELSE "SUCCESS"

Transfer(t) ==
  LET c == pci[t] IN
  /\ c.at = "transfer"
  /\ Returned(t, Buffered(c),
              IF c.direction = "read" THEN ReadStatus(c) ELSE WriteStatus(c))
  /\ UNCHANGED <<present, bus>>

\* The module has its status and value; also of a call that failed.
Reply(t) ==
  /\ pci[t].at = "returned"
  /\ pci' = [pci EXCEPT ![t] = NoRequest]
  /\ UNCHANGED <<present, bus>>

(***************************************************************************)
(* The device is plugged or unplugged; calls under way take note.          *)
(***************************************************************************)
Plug ==
  /\ bus
  /\ present' = ~present
  /\ pci' = [t \in PciThreads |->
       IF pci[t].at \in {"probe", "transfer"}
         THEN IF present THEN [pci[t] EXCEPT !.gone = TRUE]
                         ELSE [pci[t] EXCEPT !.seen = TRUE]
         ELSE pci[t]]
  /\ UNCHANGED bus

PciNext(t) ==
  t \in PciThreads /\ (pci_config(t) \/ Probe(t) \/ Transfer(t) \/ Reply(t))

PciSpec == PciInit /\ [][Plug \/ \E t \in PciThreads : PciNext(t)]_pciVars
-----------------------------------------------------------------------------
(***************************************************************************)
(* What a module is told of a device holds at some moment of the call.     *)
(* A transfer that succeeds is of a device that was there, and is whole;   *)
(* only a word may be all ones, when the device left in between.  A device *)
(* is said not to exist only if it was missing, or two bytes of a longer   *)
(* read were in reach.                                                     *)
(***************************************************************************)
ToldOfTheDevice ==
  \A t \in PciThreads :
    LET c == pci[t] IN
    c.at = "returned" =>
      /\ c.status = "SUCCESS" =>
           /\ c.seen
           /\ \/ c.real = c.length
              \/ c.direction = "read" /\ c.ones = 2 /\ c.length = 2 /\ c.gone
      /\ c.status = "DOES_NOT_EXIST" =>
           c.gone \/ (c.real = 2 /\ c.length > 2)
=============================================================================
