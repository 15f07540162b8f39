-------------------------- MODULE AmxCallbackSpec --------------------------
(***************************************************************************)
(* What a module may expect of the natives callback_alloc, callback_free:  *)
(* a table of function pointers.  The kernel may call one from alloc to    *)
(* free, and then the function it was allocated for runs in its VM, alone. *)
(* A call that comes too early or too late is only promised to run alone.  *)
(***************************************************************************)
EXTENDS Naturals

CONSTANTS Threads, Vms, Slots, Cips, NULL

VARIABLES
  table,     \* of every slot the function it stands for, or NULL
  running    \* of every thread what it runs: a function, a VM only, or NULL

vars == <<table, running>>

Function == [vm : Vms, cip : Cips]
RunsIn(t, v) == running[t] # NULL /\ running[t].vm = v

Init ==
  /\ table = [s \in Slots |-> NULL]
  /\ running = [t \in Threads |-> NULL]

(***************************************************************************)
(* A thread enters a VM that runs nothing else: by an ioctl or by a stale  *)
(* call, at a function not in the table, or by a pointer of the table.     *)
(***************************************************************************)
Enter(t, v) ==
  /\ \A u \in Threads : ~RunsIn(u, v)
  /\ running[t] = NULL
  /\ running' = [running EXCEPT ![t] = [vm |-> v, cip |-> NULL]]
  /\ UNCHANGED table

Invoke(t, s) ==
  /\ table[s] # NULL
  /\ running[t] = NULL
  /\ \A u \in Threads : ~RunsIn(u, table[s].vm)
  /\ running' = [running EXCEPT ![t] = table[s]]
  /\ UNCHANGED table

Leave(t) ==
  /\ running[t] # NULL
  /\ running' = [running EXCEPT ![t] = NULL]
  /\ UNCHANGED table

(***************************************************************************)
(* Only code of a VM changes what the table has of that VM.                *)
(***************************************************************************)
Alloc(t, s, c) ==
  /\ running[t] # NULL
  /\ table[s] = NULL
  /\ table' = [table EXCEPT ![s] = [vm |-> running[t].vm, cip |-> c]]
  /\ UNCHANGED running

Free(t, s) ==
  /\ table[s] # NULL
  /\ RunsIn(t, table[s].vm)
  /\ table' = [table EXCEPT ![s] = NULL]
  /\ UNCHANGED running

Next ==
  \E t \in Threads :
    \/ \E v \in Vms : Enter(t, v)
    \/ \E s \in Slots : Invoke(t, s) \/ Free(t, s)
    \/ \E s \in Slots, c \in Cips : Alloc(t, s, c)
    \/ Leave(t)

Spec == Init /\ [][Next]_vars
=============================================================================
