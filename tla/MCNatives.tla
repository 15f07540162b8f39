------------------------------ MODULE MCNatives ------------------------------
(***************************************************************************)
(* The natives for TLC: how a module calls them, what they reach, and the  *)
(* C functions below them.  These kinds share no state, so that each       *)
(* behaviour is about one of them and the others stay as they were.        *)
(***************************************************************************)
EXTENDS NativeCall, HostMemory, Affinity, PciConfig, Registers, KernelCrt

CONSTANTS t1, t2
VARIABLE kind

\* The lists of physical_read, sgdt, cpu_restore_affinity, query_dell_smm.
SomeNatives == {<<"cell", "cell&">>, <<"cell&", "cell&">>, <<"array">>,
                <<"array", "array&">>}

OneThread == {t1}
Owners == [low |-> t1, high |-> t2]
TwoGroups == <<[group |-> 0, number |-> 0], [group |-> 0, number |-> 1],
               [group |-> 1, number |-> 0]>>
BothOfGroup0 == [group |-> 0, mask |-> {0, 1}]
SomeRegisters == [kind : {"cr"}, number : {0, 3, 4, 8}]
                   \cup [kind : {"dr"}, number : {0, 7}]
SomeOffsets == {0, 252, 254, 255, 256}

HostVars == <<memVars, affinityVars, pciVars, registerVars, crtVars>>
allVars == <<kind, vars, HostVars>>

(***************************************************************************)
(* The starting points of a kind are explored with it only.                *)
(***************************************************************************)
AllInit ==
  /\ kind \in {"call", "memory", "affinity", "pci", "registers", "crt"}
  /\ Init /\ (kind # "call" => mem = [a \in Address |-> 0])
  /\ MemoryInit /\ (kind # "memory" => width = [t \in Users |-> "byte"])
  /\ PciInit /\ (kind # "pci" => present)
  /\ AffinityInit /\ RegistersInit /\ CrtInit

AllNext ==
  /\ UNCHANGED kind
  /\ \/ kind = "call" /\ Next /\ UNCHANGED HostVars
     \/ /\ kind = "memory"
        /\ \E t \in Users : MemoryNext(t)
        /\ UNCHANGED <<vars, affinityVars, pciVars, registerVars, crtVars>>
     \/ /\ kind = "affinity"
        /\ \E t \in Movers : AffinityNext(t)
        /\ UNCHANGED <<vars, memVars, pciVars, registerVars, crtVars>>
     \/ /\ kind = "pci"
        /\ Plug \/ \E t \in PciThreads : PciNext(t)
        /\ UNCHANGED <<vars, memVars, affinityVars, registerVars, crtVars>>
     \/ /\ kind = "registers"
        /\ RegistersNext
        /\ UNCHANGED <<vars, memVars, affinityVars, pciVars, crtVars>>
     \/ /\ kind = "crt"
        /\ CrtNext
        /\ UNCHANGED <<vars, memVars, affinityVars, pciVars, registerVars>>

AllSpec == AllInit /\ [][AllNext]_allVars
=============================================================================
