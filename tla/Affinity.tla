------------------------------- MODULE Affinity -------------------------------
(***************************************************************************)
(* cpu_set_affinity and cpu_restore_affinity (natives_impl_windows.cpp).   *)
(* A module moves its thread to a processor, keeps what it moved from, and *)
(* goes back later; these pairs nest.  It calls restore for every set, and *)
(* relies on restore to recognise the output of a set that failed, which   *)
(* restore can only do when that set left zeros in the array.              *)
(***************************************************************************)
EXTENDS Integers, Sequences

CONSTANTS
  Movers,          \* threads whose modules move
  Processors,      \* the active processors in order, [group, number] each
  UserAffinity,    \* where these threads run of their own accord
  U32,             \* one more than the largest ULONG
  MaxNesting       \* bound on the pairs of set and restore one in another

VARIABLES
  affinity,        \* of every thread its group and the mask in the group
  sets,            \* of every thread its sets not yet restored, innermost last
  astray,          \* threads moved last by restoring what a failed set left
  arrays           \* what an array may hold that a module passes as old

affinityVars == <<affinity, sets, astray, arrays>>

(***************************************************************************)
(* A GROUP_AFFINITY; the bits of a mask are a set of processor numbers.    *)
(***************************************************************************)
NoAffinity == [group |-> 0, mask |-> {}]
On(p) == [group |-> p.group, mask |-> {p.number}]

ASSUME ProcessorsAssumption ==
  /\ Processors # <<>> /\ Len(Processors) <= U32
  /\ UserAffinity.mask # {}

\* KeGetProcessorNumberFromIndex, which counts from 0 over all groups.
Index(which) == which % U32
IsProcessor(which) == Index(which) < Len(Processors)
ProcessorNumber(which) == Processors[Index(which) + 1]
-----------------------------------------------------------------------------
AffinityInit ==
  /\ affinity = [t \in Movers |-> UserAffinity]
  /\ sets = [t \in Movers |-> <<>>]
  /\ astray = {}
  /\ arrays = {NoAffinity}

\* What the module keeps of a set: its status, and the array it gave as old.
Push(t, which, ok, old) ==
  sets' = [sets EXCEPT ![t] =
             Append(@, [which |-> which, ok |-> ok, old |-> old,
                        astray |-> t \in astray])]

(***************************************************************************)
(* KeSetSystemGroupAffinityThread gives the affinity it replaces, or zeros *)
(* when it refuses.  Without such a processor the function returns before  *)
(* it writes old, and the wrapper writes back the cells that it read: those*)
(* of a new array, which are zeros, or of one that a set has used before.  *)
(***************************************************************************)
cpu_set_affinity(t, which) ==
  /\ Len(sets[t]) < MaxNesting
  /\ \/ /\ ~IsProcessor(which)
        /\ \E old \in arrays : Push(t, which, FALSE, old)
        /\ UNCHANGED <<affinity, astray, arrays>>
     \/ /\ IsProcessor(which)
        /\ affinity' = [affinity EXCEPT ![t] = On(ProcessorNumber(which))]
        /\ Push(t, which, TRUE, affinity[t])
        /\ astray' = astray \ {t}
        /\ arrays' = arrays \cup {affinity[t]}
     \/ /\ IsProcessor(which)
        /\ Push(t, which, FALSE, NoAffinity)
        /\ UNCHANGED <<affinity, astray, arrays>>

\* KeRevertToUserGroupAffinityThread gives up system affinity for zeros.
Revert(t, old) ==
  affinity' = [affinity EXCEPT ![t] =
                 IF old = NoAffinity THEN UserAffinity ELSE old]

MutantRestorable(old) == TRUE
Restorable(old) == old # NoAffinity

\* A thread goes back to where it was, or back to having been astray.
Strays(t, set) ==
  astray' = IF set.old = NoAffinity THEN astray
            ELSE IF set.ok /\ ~set.astray THEN astray \ {t}
            ELSE astray \cup {t}

cpu_restore_affinity(t) ==
  /\ sets[t] # <<>>
  /\ LET set == sets[t][Len(sets[t])] IN
       /\ IF Restorable(set.old) THEN Revert(t, set.old)
          ELSE affinity' = affinity
       /\ Strays(t, set)
  /\ sets' = [sets EXCEPT ![t] = SubSeq(@, 1, Len(@) - 1)]
  /\ UNCHANGED arrays

AffinityNext(t) ==
  /\ t \in Movers
  /\ \/ \E which \in 0 .. 2 * U32 - 1 : cpu_set_affinity(t, which)
     \/ cpu_restore_affinity(t)

AffinitySpec == AffinityInit /\ [][\E t \in Movers : AffinityNext(t)]_affinityVars
-----------------------------------------------------------------------------
(***************************************************************************)
(* A thread that is not astray runs on the processor of its innermost set  *)
(* that succeeded, and of its own accord when there is none: restoring a   *)
(* set that failed and left zeros, with others around it or without, moves *)
(* nothing; and a thread that went astray, because a set failed before it  *)
(* wrote to an array in use, is back once a set around that one has been   *)
(* restored, or another has succeeded.                                     *)
(***************************************************************************)
Succeeded(t) == {i \in DOMAIN sets[t] : sets[t][i].ok}

AffinityFollowsSets ==
  \A t \in Movers \ astray :
    affinity[t] =
      IF Succeeded(t) = {} THEN UserAffinity
      ELSE LET last == CHOOSE i \in Succeeded(t) :
                         \A j \in Succeeded(t) : j <= i
           IN  On(ProcessorNumber(sets[t][last].which))

(***************************************************************************)
(* "some idiot passed in the output of a failed cpu_set_affinity", says    *)
(* restore of zeros.  The output of a failed set is not always zeros: that *)
(* of a set without such a processor is what the array held before.        *)
(***************************************************************************)
FailedSetsAreTold ==
  \A t \in Movers : \A i \in DOMAIN sets[t] :
    Restorable(sets[t][i].old) => sets[t][i].ok
=============================================================================
