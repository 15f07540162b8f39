-------------------------- MODULE AmxCallbacksProofs --------------------------
(***************************************************************************)
(* Proofs about AmxCallbacks, for any threads, VMs and number of slots.    *)
(***************************************************************************)
EXTENDS AmxCallbacks, TLAPS

USE SlotsAssumption, CipsAssumption DEF Causes

Labels == InVm \cup {"idle", "read", "lock", "stopped"}
Running == InVm \ {"check"}
Handling == {"set", "clear"}

TypeInv ==
  /\ alive \subseteq Vms
  /\ ctx \in [Slots -> Vms \cup {NULL}]
  /\ cip \in [Slots -> Cips \cup {0}]
  /\ mutex \in [Vms -> Threads \cup {NULL}]
  /\ pc \in [Threads -> Labels]
  /\ vm \in [Threads -> Vms \cup {NULL}]
  /\ pointer \in [Threads -> Slots \cup {NULL}]
  /\ fn \in [Threads -> Cips \cup {0, NULL}]
  /\ at \in [Threads -> Nat]
  /\ arg \in [Threads -> Cips \cup {0}]
  /\ granted \in [Slots -> [vm : Vms, cip : Cips] \cup {NULL}]
  /\ leaked \subseteq Slots
  /\ free \in [Threads -> SUBSET Slots]

(***************************************************************************)
(* What a thread holds at each label; none has stopped before the machine. *)
(***************************************************************************)
LabelInv ==
  \A t \in Threads :
    /\ pc[t] = "idle" => pointer[t] = NULL /\ fn[t] = NULL
    /\ pc[t] \in {"idle", "read"} => vm[t] = NULL
    /\ pc[t] \in {"read", "lock", "check"} => pointer[t] # NULL
    /\ pc[t] \in InVm \cup {"lock"} => vm[t] # NULL
    /\ pc[t] \in {"claim", "set", "clear"} => at[t] \in Slots
    /\ pc[t] \in {"scan", "claim", "set"} => arg[t] \in Cips
    /\ pc[t] = "stopped" => stop # NULL

(***************************************************************************)
(* A thread inside a VM holds its mutex.                                   *)
(***************************************************************************)
LockInv == \A t \in Threads : pc[t] \in InVm => mutex[vm[t]] = t

(***************************************************************************)
(* As long as the machine runs, so does the VM a thread is in or waits     *)
(* for, and so does every VM with a pointer.                               *)
(***************************************************************************)
AliveInv ==
  stop = NULL => \A t \in Threads : vm[t] # NULL => vm[t] \in alive

GrantInv == \A s \in Slots : granted[s] # NULL => granted[s].vm \in alive

(***************************************************************************)
(* A slot is free, granted, left over from a VM that is gone, or in the    *)
(* hands of one thread, which has not set its function yet or has cleared  *)
(* it.                                                                     *)
(***************************************************************************)
GrantedInv ==
  \A s \in Slots : granted[s] # NULL =>
    ctx[s] = granted[s].vm /\ cip[s] = granted[s].cip

HandInv ==
  \A t \in Threads : pc[t] \in Handling =>
    /\ granted[at[t]] = NULL /\ at[t] \notin leaked
    /\ ctx[at[t]] = vm[t]
    /\ \A u \in Threads : pc[u] \in Handling /\ at[u] = at[t] => u = t

TakenInv ==
  \A s \in Slots : granted[s] = NULL /\ s \notin leaked =>
    /\ cip[s] = 0
    /\ ctx[s] # NULL => \E t \in Threads : pc[t] \in Handling /\ at[t] = s

LeakInv == \A s \in leaked : granted[s] = NULL /\ ctx[s] # NULL

(***************************************************************************)
(* Who calls a pointer within its grant reads from its slot the VM and the *)
(* function it was granted for.                                            *)
(***************************************************************************)
PointerInv ==
  \A t \in Threads : pointer[t] # NULL /\ t \notin stale =>
    /\ granted[pointer[t]] # NULL
    /\ vm[t] # NULL => vm[t] = granted[pointer[t]].vm
    /\ pc[t] \in Running =>
         granted[pointer[t]] = [vm |-> vm[t], cip |-> fn[t]]

(***************************************************************************)
(* What a scan has not passed yet holds all that stayed free.              *)
(***************************************************************************)
ScanInv ==
  \A t \in Threads : \A s \in free[t] :
    /\ ctx[s] = NULL
    /\ pc[t] \in {"scan", "claim"} => at[t] <= s

IInv ==
  /\ TypeInv /\ LabelInv /\ LockInv /\ AliveInv /\ GrantInv /\ GrantedInv
  /\ HandInv /\ TakenInv /\ LeakInv /\ PointerInv /\ ScanInv /\ StopsForCause

-----------------------------------------------------------------------------
\* The initial state, where every slot is free and every thread idle.
LEMMA Initially == Init => IInv
  BY DEF Init, IInv, TypeInv, Labels, InVm, LabelInv, LockInv, AliveInv, GrantInv,
     GrantedInv, HandInv, TakenInv, LeakInv, PointerInv, ScanInv, StopsForCause,
     Handling, Slots

\* A pointer that is called within its grant has a slot that is complete.
LEMMA Called ==
  ASSUME IInv, NEW t \in Threads, pointer[t] # NULL, t \notin stale
  PROVE  /\ pointer[t] \in Slots
         /\ granted[pointer[t]] # NULL
         /\ granted[pointer[t]] \in [vm : Vms, cip : Cips]
         /\ ctx[pointer[t]] = granted[pointer[t]].vm /\ ctx[pointer[t]] # NULL
         /\ cip[pointer[t]] = granted[pointer[t]].cip
         /\ granted[pointer[t]].vm \in alive
<1>1. pointer[t] \in Slots /\ granted[pointer[t]] # NULL
  <2>1. pointer[t] \in Slots \cup {NULL}
    BY DEF IInv, TypeInv
  <2> QED
    BY <2>1 DEF IInv, PointerInv
<1>2. granted[pointer[t]] \in [vm : Vms, cip : Cips]
  BY <1>1 DEF IInv, TypeInv
<1>3. granted[pointer[t]].vm # NULL
  BY <1>2
<1> QED
  BY <1>1, <1>2, <1>3 DEF IInv, GrantedInv, GrantInv

\* Every step keeps the domain of every variable.
LEMMA TypeStep == IInv /\ Run => TypeInv'
<1> SUFFICES ASSUME IInv, stop = NULL, Run PROVE TypeInv'
  BY DEF Run
<1> USE DEF IInv, TypeInv, Labels, InVm, LabelInv
<1>1. CASE \E v \in Vms : Load(v)
  BY <1>1 DEF Load, data, thread, grants
<1>2. CASE \E v \in Vms : Destroy(v)
  <2>1. PICK v \in Vms : Destroy(v)
    BY <1>2
  <2>2. granted' \in [Slots -> [vm : Vms, cip : Cips] \cup {NULL}]
    BY <2>1 DEF Destroy
  <2>3. GrantedTo(v) \subseteq Slots
    BY DEF GrantedTo
  <2> QED
    BY <2>1, <2>2, <2>3 DEF Destroy, data, thread
<1>3. ASSUME NEW t \in Threads, \E v \in Vms : Enter(t, v) PROVE TypeInv'
  BY <1>3 DEF Enter, Goto, data, grants
<1>4. ASSUME NEW t \in Threads, Exit(t) \/ Return(t) PROVE TypeInv'
  BY <1>4 DEF Exit, Return, Unlock, Goto, data
<1>5. ASSUME NEW t \in Threads, \E c \in Cips : Alloc(t, c) PROVE TypeInv'
  BY <1>5 DEF Alloc, Goto, data, grants
<1>6. ASSUME NEW t \in Threads, Scan(t) PROVE TypeInv'
  <2>1. at[t] \in Nat /\ at[t] + 1 \in Nat
    OBVIOUS
  <2>2. at' = at \/ at' = [at EXCEPT ![t] = at[t] + 1]
    BY <1>6 DEF Scan, NextSlot
  <2>3. at' \in [Threads -> Nat]
    BY <2>1, <2>2
  <2> QED
    BY <1>6, <2>3 DEF Scan, Native, Goto, data, grants
<1>7. ASSUME NEW t \in Threads, Claim(t) PROVE TypeInv'
  <2>1. at[t] \in Nat /\ at[t] + 1 \in Nat
    OBVIOUS
  <2>2. at' = at \/ at' = [at EXCEPT ![t] = at[t] + 1]
    BY <1>7 DEF Claim, NextSlot
  <2>3. at' \in [Threads -> Nat]
    BY <2>1, <2>2
  <2> QED
    BY <1>7, <2>3 DEF Claim, Claimed, Native, Goto, data, grants
<1>8. ASSUME NEW t \in Threads, SetCip(t) PROVE TypeInv'
  <2>1. vm[t] \in Vms /\ arg[t] \in Cips /\ at[t] \in Slots
    BY <1>8 DEF SetCip
  <2>2. granted' \in [Slots -> [vm : Vms, cip : Cips] \cup {NULL}]
    BY <1>8, <2>1 DEF SetCip
  <2> QED
    BY <1>8, <2>1, <2>2 DEF SetCip, Done, Native, Goto, data
<1>9. ASSUME NEW t \in Threads, Full(t) PROVE TypeInv'
  BY <1>9 DEF Full, Done, Native, Goto, data, grants
<1>10. ASSUME NEW t \in Threads, \E s \in Slots : Free(t, s) PROVE TypeInv'
  <2>1. PICK s \in Slots : Free(t, s)
    BY <1>10
  <2>2. s \in Nat
    BY <2>1 DEF Slots
  <2>3. /\ at' \in [Threads -> Nat] /\ cip' \in [Slots -> Cips \cup {0}]
        /\ granted' \in [Slots -> [vm : Vms, cip : Cips] \cup {NULL}]
    BY <2>1, <2>2 DEF Free, FastFail, grants
  <2> QED
    BY <2>1, <2>3 DEF Free, FastFail, Native, Goto, data, grants
<1>11. ASSUME NEW t \in Threads, FreeUnknown(t) PROVE TypeInv'
  BY <1>11 DEF FreeUnknown, FastFail, Native, Goto, data, grants
<1>12. ASSUME NEW t \in Threads, ClearCtx(t) PROVE TypeInv'
  BY <1>12 DEF ClearCtx, Cleared, Done, Native, Goto, data, grants
<1>13. ASSUME NEW t \in Threads, \E s \in Slots : Dispatch(t, s)
       PROVE  TypeInv'
  BY <1>13 DEF Dispatch, Goto, data
<1>14. ASSUME NEW t \in Threads, ReadCtx(t) PROVE TypeInv'
  BY <1>14 DEF ReadCtx, FastFail, Goto, data, grants
<1>15. ASSUME NEW t \in Threads, Lock(t) PROVE TypeInv'
  BY <1>15 DEF Lock, MayLock, Goto, data, grants
<1>16. ASSUME NEW t \in Threads, Precall(t) PROVE TypeInv'
  <2>1. pointer[t] \in Slots
    BY <1>16 DEF Precall
  <2>2. cip[pointer[t]] = 0 \/ cip[pointer[t]] \in Cips
    BY <2>1
  <2>3. PICK f : f = IF t \in stale THEN NULL ELSE cip[pointer[t]]
    OBVIOUS
  <2>4. fn' = [fn EXCEPT ![t] = f] /\ f \in Cips \cup {0, NULL}
    BY <1>16, <2>2, <2>3 DEF Precall
  <2> QED
    BY <1>16, <2>4 DEF Precall, FastFail, Goto, data, grants
<1>17. ASSUME NEW t \in Threads, CallFails(t) PROVE TypeInv'
  BY <1>17 DEF CallFails, FastFail, Native, Goto, data, grants
<1> QED
  BY <1>1, <1>2, <1>3, <1>4, <1>5, <1>6, <1>7, <1>8, <1>9, <1>10, <1>11,
     <1>12, <1>13, <1>14, <1>15, <1>16, <1>17 DEF Run, Serve, Begin

\* Every step leaves a thread with what its next label needs.
LEMMA LabelStep == IInv /\ Run => LabelInv'
<1> SUFFICES ASSUME IInv, stop = NULL, Run PROVE LabelInv'
  BY DEF Run
<1> USE DEF IInv, TypeInv, Labels, InVm, LabelInv, Slots
<1>1. CASE \E v \in Vms : Load(v)
  BY <1>1 DEF Load, data, thread, grants
<1>2. CASE \E v \in Vms : Destroy(v)
  BY <1>2 DEF Destroy, GrantedTo, Callers, data, thread
<1>3. ASSUME NEW t \in Threads, \E v \in Vms : Enter(t, v) PROVE LabelInv'
  BY <1>3 DEF Enter, Goto, data, grants
<1>4. ASSUME NEW t \in Threads, Exit(t) \/ Return(t) PROVE LabelInv'
  BY <1>4 DEF Exit, Return, Unlock, Goto, data
<1>5. ASSUME NEW t \in Threads, \E c \in Cips : Alloc(t, c) PROVE LabelInv'
  BY <1>5 DEF Alloc, Goto, data, grants
<1>6. ASSUME NEW t \in Threads, Scan(t) PROVE LabelInv'
  BY <1>6 DEF Scan, Native, NextSlot, Goto, data, grants
<1>7. ASSUME NEW t \in Threads, Claim(t) PROVE LabelInv'
  BY <1>7 DEF Claim, Native, Claimed, NextSlot, Goto, data, grants
<1>8. ASSUME NEW t \in Threads, SetCip(t) PROVE LabelInv'
  BY <1>8 DEF SetCip, Done, Native, Goto, data
<1>9. ASSUME NEW t \in Threads, Full(t) PROVE LabelInv'
  BY <1>9 DEF Full, Done, Native, Goto, data, grants
<1>10. ASSUME NEW t \in Threads, \E s \in Slots : Free(t, s) PROVE LabelInv'
  BY <1>10 DEF Free, FastFail, Callers, Native, Goto, data, grants
<1>11. ASSUME NEW t \in Threads, FreeUnknown(t) PROVE LabelInv'
  BY <1>11 DEF FreeUnknown, FastFail, Native, Goto, data, grants
<1>12. ASSUME NEW t \in Threads, ClearCtx(t) PROVE LabelInv'
  BY <1>12 DEF ClearCtx, Cleared, Done, Native, Goto, data, grants
<1>13. ASSUME NEW t \in Threads, \E s \in Slots : Dispatch(t, s)
       PROVE  LabelInv'
  BY <1>13 DEF Dispatch, Goto, data
<1>14. ASSUME NEW t \in Threads, ReadCtx(t) PROVE LabelInv'
  BY <1>14 DEF ReadCtx, FastFail, Goto, data, grants
<1>15. ASSUME NEW t \in Threads, Lock(t) PROVE LabelInv'
  BY <1>15 DEF Lock, MayLock, Goto, data, grants
<1>16. ASSUME NEW t \in Threads, Precall(t) PROVE LabelInv'
  BY <1>16 DEF Precall, FastFail, Goto, data, grants
<1>17. ASSUME NEW t \in Threads, CallFails(t) PROVE LabelInv'
  BY <1>17 DEF CallFails, FastFail, Native, Goto, data, grants
<1> QED
  BY <1>1, <1>2, <1>3, <1>4, <1>5, <1>6, <1>7, <1>8, <1>9, <1>10, <1>11,
     <1>12, <1>13, <1>14, <1>15, <1>16, <1>17 DEF Run, Serve, Begin

\* A VM is entered by taking its mutex and left by giving it back.
LEMMA LockStep == IInv /\ Run => LockInv'
<1> SUFFICES ASSUME IInv, stop = NULL, Run PROVE LockInv'
  BY DEF Run
<1> USE DEF IInv, TypeInv, Labels, InVm, LabelInv, LockInv
<1>1. CASE \E v \in Vms : Load(v)
  BY <1>1 DEF Load, data, thread, grants
<1>2. CASE \E v \in Vms : Destroy(v)
  BY <1>2 DEF Destroy, GrantedTo, Callers, data, thread
<1>3. ASSUME NEW t \in Threads, \E v \in Vms : Enter(t, v) PROVE LockInv'
  BY <1>3 DEF Enter, Goto, data, grants
<1>4. ASSUME NEW t \in Threads, Exit(t) \/ Return(t) PROVE LockInv'
  BY <1>4 DEF Exit, Return, Unlock, Goto, data
<1>5. ASSUME NEW t \in Threads, \E c \in Cips : Alloc(t, c) PROVE LockInv'
  BY <1>5 DEF Alloc, Goto, data, grants
<1>6. ASSUME NEW t \in Threads, Scan(t) PROVE LockInv'
  BY <1>6 DEF Scan, Native, NextSlot, Goto, data, grants
<1>7. ASSUME NEW t \in Threads, Claim(t) PROVE LockInv'
  BY <1>7 DEF Claim, Native, Claimed, NextSlot, Goto, data, grants
<1>8. ASSUME NEW t \in Threads, SetCip(t) PROVE LockInv'
  BY <1>8 DEF SetCip, Done, Native, Goto, data
<1>9. ASSUME NEW t \in Threads, Full(t) PROVE LockInv'
  BY <1>9 DEF Full, Done, Native, Goto, data, grants
<1>10. ASSUME NEW t \in Threads, \E s \in Slots : Free(t, s) PROVE LockInv'
  BY <1>10 DEF Free, FastFail, Callers, Native, Goto, data, grants
<1>11. ASSUME NEW t \in Threads, FreeUnknown(t) PROVE LockInv'
  BY <1>11 DEF FreeUnknown, FastFail, Native, Goto, data, grants
<1>12. ASSUME NEW t \in Threads, ClearCtx(t) PROVE LockInv'
  BY <1>12 DEF ClearCtx, Cleared, Done, Native, Goto, data, grants
<1>13. ASSUME NEW t \in Threads, \E s \in Slots : Dispatch(t, s)
       PROVE  LockInv'
  BY <1>13 DEF Dispatch, Goto, data
<1>14. ASSUME NEW t \in Threads, ReadCtx(t) PROVE LockInv'
  BY <1>14 DEF ReadCtx, FastFail, Goto, data, grants
<1>15. ASSUME NEW t \in Threads, Lock(t) PROVE LockInv'
  BY <1>15 DEF Lock, MayLock, Goto, data, grants
<1>16. ASSUME NEW t \in Threads, Precall(t) PROVE LockInv'
  BY <1>16 DEF Precall, FastFail, Goto, data, grants
<1>17. ASSUME NEW t \in Threads, CallFails(t) PROVE LockInv'
  BY <1>17 DEF CallFails, FastFail, Native, Goto, data, grants
<1> QED
  BY <1>1, <1>2, <1>3, <1>4, <1>5, <1>6, <1>7, <1>8, <1>9, <1>10, <1>11,
     <1>12, <1>13, <1>14, <1>15, <1>16, <1>17 DEF Run, Serve, Begin

\* A VM that is destroyed with a thread in it stops the machine.
LEMMA AliveStep == IInv /\ Run => AliveInv'
<1> SUFFICES ASSUME IInv, stop = NULL, Run PROVE AliveInv'
  BY DEF Run
<1> USE DEF IInv, TypeInv, Labels, InVm, LabelInv, AliveInv
<1>1. CASE \E v \in Vms : Load(v)
  BY <1>1 DEF Load, data, thread, grants
<1>2. CASE \E v \in Vms : Destroy(v)
  BY <1>2 DEF Destroy, GrantedTo, Callers, data, thread
<1>3. ASSUME NEW t \in Threads, \E v \in Vms : Enter(t, v) PROVE AliveInv'
  BY <1>3 DEF Enter, Goto, data, grants
<1>4. ASSUME NEW t \in Threads, Exit(t) \/ Return(t) PROVE AliveInv'
  BY <1>4 DEF Exit, Return, Unlock, Goto, data
<1>5. ASSUME NEW t \in Threads, \E c \in Cips : Alloc(t, c) PROVE AliveInv'
  BY <1>5 DEF Alloc, Goto, data, grants
<1>6. ASSUME NEW t \in Threads, Scan(t) PROVE AliveInv'
  BY <1>6 DEF Scan, Native, NextSlot, Goto, data, grants
<1>7. ASSUME NEW t \in Threads, Claim(t) PROVE AliveInv'
  BY <1>7 DEF Claim, Native, Claimed, NextSlot, Goto, data, grants
<1>8. ASSUME NEW t \in Threads, SetCip(t) PROVE AliveInv'
  BY <1>8 DEF SetCip, Done, Native, Goto, data
<1>9. ASSUME NEW t \in Threads, Full(t) PROVE AliveInv'
  BY <1>9 DEF Full, Done, Native, Goto, data, grants
<1>10. ASSUME NEW t \in Threads, \E s \in Slots : Free(t, s) PROVE AliveInv'
  BY <1>10 DEF Free, FastFail, Callers, Native, Goto, data, grants
<1>11. ASSUME NEW t \in Threads, FreeUnknown(t) PROVE AliveInv'
  BY <1>11 DEF FreeUnknown, FastFail, Native, Goto, data, grants
<1>12. ASSUME NEW t \in Threads, ClearCtx(t) PROVE AliveInv'
  BY <1>12 DEF ClearCtx, Cleared, Done, Native, Goto, data, grants
<1>13. ASSUME NEW t \in Threads, \E s \in Slots : Dispatch(t, s)
       PROVE  AliveInv'
  BY <1>13 DEF Dispatch, Goto, data
<1>14. ASSUME NEW t \in Threads, ReadCtx(t) PROVE AliveInv'
  BY <1>14 DEF ReadCtx, FastFail, Goto, data, grants
<1>15. ASSUME NEW t \in Threads, Lock(t) PROVE AliveInv'
  BY <1>15 DEF Lock, MayLock, Goto, data, grants
<1>16. ASSUME NEW t \in Threads, Precall(t) PROVE AliveInv'
  BY <1>16 DEF Precall, FastFail, Goto, data, grants
<1>17. ASSUME NEW t \in Threads, CallFails(t) PROVE AliveInv'
  BY <1>17 DEF CallFails, FastFail, Native, Goto, data, grants
<1> QED
  BY <1>1, <1>2, <1>3, <1>4, <1>5, <1>6, <1>7, <1>8, <1>9, <1>10, <1>11,
     <1>12, <1>13, <1>14, <1>15, <1>16, <1>17 DEF Run, Serve, Begin

\* A VM takes its grants along when it is destroyed.
LEMMA GrantStep == IInv /\ Run => GrantInv'
<1> SUFFICES ASSUME IInv, stop = NULL, Run PROVE GrantInv'
  BY DEF Run
<1> USE DEF IInv, TypeInv, Labels, InVm, LabelInv, AliveInv, GrantInv
<1>1. CASE \E v \in Vms : Load(v)
  BY <1>1 DEF Load, data, thread, grants
<1>2. CASE \E v \in Vms : Destroy(v)
  BY <1>2 DEF Destroy, GrantedTo, Callers, data, thread
<1>3. ASSUME NEW t \in Threads, \E v \in Vms : Enter(t, v) PROVE GrantInv'
  BY <1>3 DEF Enter, Goto, data, grants
<1>4. ASSUME NEW t \in Threads, Exit(t) \/ Return(t) PROVE GrantInv'
  BY <1>4 DEF Exit, Return, Unlock, Goto, data
<1>5. ASSUME NEW t \in Threads, \E c \in Cips : Alloc(t, c) PROVE GrantInv'
  BY <1>5 DEF Alloc, Goto, data, grants
<1>6. ASSUME NEW t \in Threads, Scan(t) PROVE GrantInv'
  BY <1>6 DEF Scan, Native, NextSlot, Goto, data, grants
<1>7. ASSUME NEW t \in Threads, Claim(t) PROVE GrantInv'
  BY <1>7 DEF Claim, Native, Claimed, NextSlot, Goto, data, grants
<1>8. ASSUME NEW t \in Threads, SetCip(t) PROVE GrantInv'
  BY <1>8 DEF SetCip, Done, Native, Goto, data
<1>9. ASSUME NEW t \in Threads, Full(t) PROVE GrantInv'
  BY <1>9 DEF Full, Done, Native, Goto, data, grants
<1>10. ASSUME NEW t \in Threads, \E s \in Slots : Free(t, s) PROVE GrantInv'
  BY <1>10 DEF Free, FastFail, Callers, Native, Goto, data, grants
<1>11. ASSUME NEW t \in Threads, FreeUnknown(t) PROVE GrantInv'
  BY <1>11 DEF FreeUnknown, FastFail, Native, Goto, data, grants
<1>12. ASSUME NEW t \in Threads, ClearCtx(t) PROVE GrantInv'
  BY <1>12 DEF ClearCtx, Cleared, Done, Native, Goto, data, grants
<1>13. ASSUME NEW t \in Threads, \E s \in Slots : Dispatch(t, s)
       PROVE  GrantInv'
  BY <1>13 DEF Dispatch, Goto, data
<1>14. ASSUME NEW t \in Threads, ReadCtx(t) PROVE GrantInv'
  BY <1>14 DEF ReadCtx, FastFail, Goto, data, grants
<1>15. ASSUME NEW t \in Threads, Lock(t) PROVE GrantInv'
  BY <1>15 DEF Lock, MayLock, Goto, data, grants
<1>16. ASSUME NEW t \in Threads, Precall(t) PROVE GrantInv'
  BY <1>16 DEF Precall, FastFail, Goto, data, grants
<1>17. ASSUME NEW t \in Threads, CallFails(t) PROVE GrantInv'
  BY <1>17 DEF CallFails, FastFail, Native, Goto, data, grants
<1> QED
  BY <1>1, <1>2, <1>3, <1>4, <1>5, <1>6, <1>7, <1>8, <1>9, <1>10, <1>11,
     <1>12, <1>13, <1>14, <1>15, <1>16, <1>17 DEF Run, Serve, Begin

\* Only its own alloc and free write to a slot that is taken.
LEMMA GrantedStep == IInv /\ Run => GrantedInv'
<1> SUFFICES ASSUME IInv, stop = NULL, Run PROVE GrantedInv'
  BY DEF Run
<1> USE DEF IInv, TypeInv, Labels, InVm, LabelInv, LockInv, GrantedInv,
            HandInv, Handling
<1>1. CASE \E v \in Vms : Load(v)
  BY <1>1 DEF Load, data, thread, grants
<1>2. CASE \E v \in Vms : Destroy(v)
  BY <1>2 DEF Destroy, GrantedTo, Callers, data, thread
<1>3. ASSUME NEW t \in Threads, \E v \in Vms : Enter(t, v) PROVE GrantedInv'
  BY <1>3 DEF Enter, Goto, data, grants
<1>4. ASSUME NEW t \in Threads, Exit(t) \/ Return(t) PROVE GrantedInv'
  BY <1>4 DEF Exit, Return, Unlock, Goto, data
<1>5. ASSUME NEW t \in Threads, \E c \in Cips : Alloc(t, c) PROVE GrantedInv'
  BY <1>5 DEF Alloc, Goto, data, grants
<1>6. ASSUME NEW t \in Threads, Scan(t) PROVE GrantedInv'
  BY <1>6 DEF Scan, Native, NextSlot, Goto, data, grants
<1>7. ASSUME NEW t \in Threads, Claim(t) PROVE GrantedInv'
  BY <1>7 DEF Claim, Native, Claimed, NextSlot, Goto, data, grants
<1>8. ASSUME NEW t \in Threads, SetCip(t) PROVE GrantedInv'
  BY <1>8 DEF SetCip, Done, Native, Goto, data
<1>9. ASSUME NEW t \in Threads, Full(t) PROVE GrantedInv'
  BY <1>9 DEF Full, Done, Native, Goto, data, grants
<1>10. ASSUME NEW t \in Threads, \E s \in Slots : Free(t, s) PROVE GrantedInv'
  BY <1>10 DEF Free, FastFail, Callers, Native, Goto, data, grants
<1>11. ASSUME NEW t \in Threads, FreeUnknown(t) PROVE GrantedInv'
  BY <1>11 DEF FreeUnknown, FastFail, Native, Goto, data, grants
<1>12. ASSUME NEW t \in Threads, ClearCtx(t) PROVE GrantedInv'
  BY <1>12 DEF ClearCtx, Cleared, Done, Native, Goto, data, grants
<1>13. ASSUME NEW t \in Threads, \E s \in Slots : Dispatch(t, s)
       PROVE  GrantedInv'
  BY <1>13 DEF Dispatch, Goto, data
<1>14. ASSUME NEW t \in Threads, ReadCtx(t) PROVE GrantedInv'
  BY <1>14 DEF ReadCtx, FastFail, Goto, data, grants
<1>15. ASSUME NEW t \in Threads, Lock(t) PROVE GrantedInv'
  BY <1>15 DEF Lock, MayLock, Goto, data, grants
<1>16. ASSUME NEW t \in Threads, Precall(t) PROVE GrantedInv'
  BY <1>16 DEF Precall, FastFail, Goto, data, grants
<1>17. ASSUME NEW t \in Threads, CallFails(t) PROVE GrantedInv'
  BY <1>17 DEF CallFails, FastFail, Native, Goto, data, grants
<1> QED
  BY <1>1, <1>2, <1>3, <1>4, <1>5, <1>6, <1>7, <1>8, <1>9, <1>10, <1>11,
     <1>12, <1>13, <1>14, <1>15, <1>16, <1>17 DEF Run, Serve, Begin

\* Two threads never have the same slot in hand.
LEMMA HandStep == IInv /\ Run => HandInv'
<1> SUFFICES ASSUME IInv, stop = NULL, Run PROVE HandInv'
  BY DEF Run
<1> USE DEF IInv, TypeInv, Labels, InVm, LabelInv, LockInv, GrantedInv,
            HandInv, LeakInv, Handling
<1>1. CASE \E v \in Vms : Load(v)
  BY <1>1 DEF Load, data, thread, grants
<1>2. CASE \E v \in Vms : Destroy(v)
  BY <1>2 DEF Destroy, GrantedTo, Callers, data, thread
<1>3. ASSUME NEW t \in Threads, \E v \in Vms : Enter(t, v) PROVE HandInv'
  BY <1>3 DEF Enter, Goto, data, grants
<1>4. ASSUME NEW t \in Threads, Exit(t) \/ Return(t) PROVE HandInv'
  BY <1>4 DEF Exit, Return, Unlock, Goto, data
<1>5. ASSUME NEW t \in Threads, \E c \in Cips : Alloc(t, c) PROVE HandInv'
  BY <1>5 DEF Alloc, Goto, data, grants
<1>6. ASSUME NEW t \in Threads, Scan(t) PROVE HandInv'
  BY <1>6 DEF Scan, Native, NextSlot, Goto, data, grants
<1>7. ASSUME NEW t \in Threads, Claim(t) PROVE HandInv'
  BY <1>7 DEF Claim, Native, Claimed, NextSlot, Goto, data, grants
<1>8. ASSUME NEW t \in Threads, SetCip(t) PROVE HandInv'
  BY <1>8 DEF SetCip, Done, Native, Goto, data
<1>9. ASSUME NEW t \in Threads, Full(t) PROVE HandInv'
  BY <1>9 DEF Full, Done, Native, Goto, data, grants
<1>10. ASSUME NEW t \in Threads, \E s \in Slots : Free(t, s) PROVE HandInv'
  BY <1>10 DEF Free, FastFail, Callers, Native, Goto, data, grants
<1>11. ASSUME NEW t \in Threads, FreeUnknown(t) PROVE HandInv'
  BY <1>11 DEF FreeUnknown, FastFail, Native, Goto, data, grants
<1>12. ASSUME NEW t \in Threads, ClearCtx(t) PROVE HandInv'
  BY <1>12 DEF ClearCtx, Cleared, Done, Native, Goto, data, grants
<1>13. ASSUME NEW t \in Threads, \E s \in Slots : Dispatch(t, s)
       PROVE  HandInv'
  BY <1>13 DEF Dispatch, Goto, data
<1>14. ASSUME NEW t \in Threads, ReadCtx(t) PROVE HandInv'
  BY <1>14 DEF ReadCtx, FastFail, Goto, data, grants
<1>15. ASSUME NEW t \in Threads, Lock(t) PROVE HandInv'
  BY <1>15 DEF Lock, MayLock, Goto, data, grants
<1>16. ASSUME NEW t \in Threads, Precall(t) PROVE HandInv'
  BY <1>16 DEF Precall, FastFail, Goto, data, grants
<1>17. ASSUME NEW t \in Threads, CallFails(t) PROVE HandInv'
  BY <1>17 DEF CallFails, FastFail, Native, Goto, data, grants
<1> QED
  BY <1>1, <1>2, <1>3, <1>4, <1>5, <1>6, <1>7, <1>8, <1>9, <1>10, <1>11,
     <1>12, <1>13, <1>14, <1>15, <1>16, <1>17 DEF Run, Serve, Begin

\* A slot that is taken, not granted and not left over is in somebody's hands.
LEMMA TakenStep == IInv /\ Run => TakenInv'
<1> SUFFICES ASSUME IInv, stop = NULL, Run PROVE TakenInv'
  BY DEF Run
<1> USE DEF IInv, TypeInv, Labels, InVm, LabelInv, GrantedInv, HandInv,
            TakenInv, Handling
<1>1. CASE \E v \in Vms : Load(v)
  BY <1>1 DEF Load, data, thread, grants
<1>2. CASE \E v \in Vms : Destroy(v)
  BY <1>2 DEF Destroy, GrantedTo, Callers, data, thread
<1>3. ASSUME NEW t \in Threads, \E v \in Vms : Enter(t, v) PROVE TakenInv'
  BY <1>3 DEF Enter, Goto, data, grants
<1>4. ASSUME NEW t \in Threads, Exit(t) \/ Return(t) PROVE TakenInv'
  BY <1>4 DEF Exit, Return, Unlock, Goto, data
<1>5. ASSUME NEW t \in Threads, \E c \in Cips : Alloc(t, c) PROVE TakenInv'
  BY <1>5 DEF Alloc, Goto, data, grants
<1>6. ASSUME NEW t \in Threads, Scan(t) PROVE TakenInv'
  BY <1>6 DEF Scan, Native, NextSlot, Goto, data, grants
<1>7. ASSUME NEW t \in Threads, Claim(t) PROVE TakenInv'
  BY <1>7 DEF Claim, Native, Claimed, NextSlot, Goto, data, grants
<1>8. ASSUME NEW t \in Threads, SetCip(t) PROVE TakenInv'
  BY <1>8 DEF SetCip, Done, Native, Goto, data
<1>9. ASSUME NEW t \in Threads, Full(t) PROVE TakenInv'
  BY <1>9 DEF Full, Done, Native, Goto, data, grants
<1>10. ASSUME NEW t \in Threads, \E s \in Slots : Free(t, s) PROVE TakenInv'
  BY <1>10 DEF Free, FastFail, Callers, Native, Goto, data, grants
<1>11. ASSUME NEW t \in Threads, FreeUnknown(t) PROVE TakenInv'
  BY <1>11 DEF FreeUnknown, FastFail, Native, Goto, data, grants
<1>12. ASSUME NEW t \in Threads, ClearCtx(t) PROVE TakenInv'
  BY <1>12 DEF ClearCtx, Cleared, Done, Native, Goto, data, grants
<1>13. ASSUME NEW t \in Threads, \E s \in Slots : Dispatch(t, s)
       PROVE  TakenInv'
  BY <1>13 DEF Dispatch, Goto, data
<1>14. ASSUME NEW t \in Threads, ReadCtx(t) PROVE TakenInv'
  BY <1>14 DEF ReadCtx, FastFail, Goto, data, grants
<1>15. ASSUME NEW t \in Threads, Lock(t) PROVE TakenInv'
  BY <1>15 DEF Lock, MayLock, Goto, data, grants
<1>16. ASSUME NEW t \in Threads, Precall(t) PROVE TakenInv'
  BY <1>16 DEF Precall, FastFail, Goto, data, grants
<1>17. ASSUME NEW t \in Threads, CallFails(t) PROVE TakenInv'
  BY <1>17 DEF CallFails, FastFail, Native, Goto, data, grants
<1> QED
  BY <1>1, <1>2, <1>3, <1>4, <1>5, <1>6, <1>7, <1>8, <1>9, <1>10, <1>11,
     <1>12, <1>13, <1>14, <1>15, <1>16, <1>17 DEF Run, Serve, Begin

\* A slot left over stays taken until a VM at the same address frees it.
LEMMA LeakStep == IInv /\ Run => LeakInv'
<1> SUFFICES ASSUME IInv, stop = NULL, Run PROVE LeakInv'
  BY DEF Run
<1> USE DEF IInv, TypeInv, Labels, InVm, LabelInv, LockInv, GrantedInv,
            HandInv, LeakInv, Handling
<1>1. CASE \E v \in Vms : Load(v)
  BY <1>1 DEF Load, data, thread, grants
<1>2. CASE \E v \in Vms : Destroy(v)
  BY <1>2 DEF Destroy, GrantedTo, Callers, data, thread
<1>3. ASSUME NEW t \in Threads, \E v \in Vms : Enter(t, v) PROVE LeakInv'
  BY <1>3 DEF Enter, Goto, data, grants
<1>4. ASSUME NEW t \in Threads, Exit(t) \/ Return(t) PROVE LeakInv'
  BY <1>4 DEF Exit, Return, Unlock, Goto, data
<1>5. ASSUME NEW t \in Threads, \E c \in Cips : Alloc(t, c) PROVE LeakInv'
  BY <1>5 DEF Alloc, Goto, data, grants
<1>6. ASSUME NEW t \in Threads, Scan(t) PROVE LeakInv'
  BY <1>6 DEF Scan, Native, NextSlot, Goto, data, grants
<1>7. ASSUME NEW t \in Threads, Claim(t) PROVE LeakInv'
  BY <1>7 DEF Claim, Native, Claimed, NextSlot, Goto, data, grants
<1>8. ASSUME NEW t \in Threads, SetCip(t) PROVE LeakInv'
  BY <1>8 DEF SetCip, Done, Native, Goto, data
<1>9. ASSUME NEW t \in Threads, Full(t) PROVE LeakInv'
  BY <1>9 DEF Full, Done, Native, Goto, data, grants
<1>10. ASSUME NEW t \in Threads, \E s \in Slots : Free(t, s) PROVE LeakInv'
  BY <1>10 DEF Free, FastFail, Callers, Native, Goto, data, grants
<1>11. ASSUME NEW t \in Threads, FreeUnknown(t) PROVE LeakInv'
  BY <1>11 DEF FreeUnknown, FastFail, Native, Goto, data, grants
<1>12. ASSUME NEW t \in Threads, ClearCtx(t) PROVE LeakInv'
  BY <1>12 DEF ClearCtx, Cleared, Done, Native, Goto, data, grants
<1>13. ASSUME NEW t \in Threads, \E s \in Slots : Dispatch(t, s)
       PROVE  LeakInv'
  BY <1>13 DEF Dispatch, Goto, data
<1>14. ASSUME NEW t \in Threads, ReadCtx(t) PROVE LeakInv'
  BY <1>14 DEF ReadCtx, FastFail, Goto, data, grants
<1>15. ASSUME NEW t \in Threads, Lock(t) PROVE LeakInv'
  BY <1>15 DEF Lock, MayLock, Goto, data, grants
<1>16. ASSUME NEW t \in Threads, Precall(t) PROVE LeakInv'
  BY <1>16 DEF Precall, FastFail, Goto, data, grants
<1>17. ASSUME NEW t \in Threads, CallFails(t) PROVE LeakInv'
  BY <1>17 DEF CallFails, FastFail, Native, Goto, data, grants
<1> QED
  BY <1>1, <1>2, <1>3, <1>4, <1>5, <1>6, <1>7, <1>8, <1>9, <1>10, <1>11,
     <1>12, <1>13, <1>14, <1>15, <1>16, <1>17 DEF Run, Serve, Begin

\* A call whose slot is freed, or whose VM goes, is stale from then on.
LEMMA PointerStep == IInv /\ Run => PointerInv'
<1> SUFFICES ASSUME IInv, stop = NULL, Run PROVE PointerInv'
  BY DEF Run
<1> USE DEF IInv, TypeInv, Labels, InVm, LabelInv, LockInv, GrantedInv,
            HandInv, PointerInv, Running, Handling
<1>1. CASE \E v \in Vms : Load(v)
  BY <1>1 DEF Load, data, thread, grants
<1>2. CASE \E v \in Vms : Destroy(v)
  BY <1>2 DEF Destroy, GrantedTo, Callers, data, thread
<1>3. ASSUME NEW t \in Threads, \E v \in Vms : Enter(t, v) PROVE PointerInv'
  BY <1>3 DEF Enter, Goto, data, grants
<1>4. ASSUME NEW t \in Threads, Exit(t) \/ Return(t) PROVE PointerInv'
  BY <1>4 DEF Exit, Return, Unlock, Goto, data
<1>5. ASSUME NEW t \in Threads, \E c \in Cips : Alloc(t, c) PROVE PointerInv'
  BY <1>5 DEF Alloc, Goto, data, grants
<1>6. ASSUME NEW t \in Threads, Scan(t) PROVE PointerInv'
  BY <1>6 DEF Scan, Native, NextSlot, Goto, data, grants
<1>7. ASSUME NEW t \in Threads, Claim(t) PROVE PointerInv'
  BY <1>7 DEF Claim, Native, Claimed, NextSlot, Goto, data, grants
<1>8. ASSUME NEW t \in Threads, SetCip(t) PROVE PointerInv'
  BY <1>8 DEF SetCip, Done, Native, Goto, data
<1>9. ASSUME NEW t \in Threads, Full(t) PROVE PointerInv'
  BY <1>9 DEF Full, Done, Native, Goto, data, grants
<1>10. ASSUME NEW t \in Threads, \E s \in Slots : Free(t, s) PROVE PointerInv'
  BY <1>10 DEF Free, FastFail, Callers, Native, Goto, data, grants
<1>11. ASSUME NEW t \in Threads, FreeUnknown(t) PROVE PointerInv'
  BY <1>11 DEF FreeUnknown, FastFail, Native, Goto, data, grants
<1>12. ASSUME NEW t \in Threads, ClearCtx(t) PROVE PointerInv'
  BY <1>12 DEF ClearCtx, Cleared, Done, Native, Goto, data, grants
<1>13. ASSUME NEW t \in Threads, \E s \in Slots : Dispatch(t, s)
       PROVE  PointerInv'
  BY <1>13 DEF Dispatch, Goto, data
<1>14. ASSUME NEW t \in Threads, ReadCtx(t) PROVE PointerInv'
  <2>1. pointer[t] # NULL
    BY <1>14 DEF ReadCtx
  <2>2. t \notin stale =>
          /\ pointer[t] \in Slots
          /\ granted[pointer[t]] # NULL
          /\ granted[pointer[t]] \in [vm : Vms, cip : Cips]
          /\ ctx[pointer[t]] = granted[pointer[t]].vm /\ ctx[pointer[t]] # NULL
          /\ cip[pointer[t]] = granted[pointer[t]].cip
          /\ granted[pointer[t]].vm \in alive
    BY <2>1, Called
  <2> QED
    BY <1>14, <2>1, <2>2 DEF ReadCtx, FastFail, Goto, data, grants
<1>15. ASSUME NEW t \in Threads, Lock(t) PROVE PointerInv'
  BY <1>15 DEF Lock, MayLock, Goto, data, grants
<1>16. ASSUME NEW t \in Threads, Precall(t) PROVE PointerInv'
  <2>1. pointer[t] # NULL
    BY <1>16 DEF Precall
  <2>2. t \notin stale =>
          /\ pointer[t] \in Slots
          /\ granted[pointer[t]] # NULL
          /\ granted[pointer[t]] \in [vm : Vms, cip : Cips]
          /\ ctx[pointer[t]] = granted[pointer[t]].vm /\ ctx[pointer[t]] # NULL
          /\ cip[pointer[t]] = granted[pointer[t]].cip
          /\ granted[pointer[t]].vm \in alive
    BY <2>1, Called

  <2>3. PICK c : c = cip[pointer[t]]
    OBVIOUS
  <2>4. t \notin stale => granted[pointer[t]] = [vm |-> vm[t], cip |-> c]
    <3>1. vm[t] # NULL
      BY <1>16 DEF Precall
    <3>2. t \notin stale => vm[t] = granted[pointer[t]].vm
      BY <2>1, <3>1
    <3> QED
      BY <2>2, <2>3, <3>2
  <2>5. /\ t \notin stale => fn'[t] = c
        /\ \A u \in Threads : u # t => fn'[u] = fn[u] /\ pc'[u] = pc[u]
        /\ UNCHANGED <<vm, pointer, granted, stale>>
    BY <1>16, <2>3 DEF Precall, FastFail, Goto, grants
  <2> SUFFICES ASSUME NEW u \in Threads, pointer'[u] # NULL, u \notin stale'
               PROVE  /\ granted'[pointer'[u]] # NULL
                      /\ vm'[u] # NULL => vm'[u] = granted'[pointer'[u]].vm
                      /\ pc'[u] \in Running =>
                           granted'[pointer'[u]] = [vm |-> vm'[u], cip |-> fn'[u]]
    OBVIOUS
  <2>6. CASE u = t
    BY <2>2, <2>4, <2>5, <2>6
  <2>7. CASE u # t
    BY <2>5, <2>7
  <2> QED
    BY <2>6, <2>7
<1>17. ASSUME NEW t \in Threads, CallFails(t) PROVE PointerInv'
  BY <1>17 DEF CallFails, FastFail, Native, Goto, data, grants
<1> QED
  BY <1>1, <1>2, <1>3, <1>4, <1>5, <1>6, <1>7, <1>8, <1>9, <1>10, <1>11,
     <1>12, <1>13, <1>14, <1>15, <1>16, <1>17 DEF Run, Serve, Begin

\* A scan passes only slots that are taken.
LEMMA ScanStep == IInv /\ Run => ScanInv'
<1> SUFFICES ASSUME IInv, stop = NULL, Run PROVE ScanInv'
  BY DEF Run
<1> USE DEF IInv, TypeInv, Labels, InVm, LabelInv, ScanInv, Slots
<1>1. CASE \E v \in Vms : Load(v)
  BY <1>1 DEF Load, data, thread, grants
<1>2. CASE \E v \in Vms : Destroy(v)
  BY <1>2 DEF Destroy, GrantedTo, Callers, data, thread
<1>3. ASSUME NEW t \in Threads, \E v \in Vms : Enter(t, v) PROVE ScanInv'
  BY <1>3 DEF Enter, Goto, data, grants
<1>4. ASSUME NEW t \in Threads, Exit(t) \/ Return(t) PROVE ScanInv'
  BY <1>4 DEF Exit, Return, Unlock, Goto, data
<1>5. ASSUME NEW t \in Threads, \E c \in Cips : Alloc(t, c) PROVE ScanInv'
  BY <1>5 DEF Alloc, Goto, data, grants
<1>6. ASSUME NEW t \in Threads, Scan(t) PROVE ScanInv'
  BY <1>6 DEF Scan, Native, NextSlot, Goto, data, grants
<1>7. ASSUME NEW t \in Threads, Claim(t) PROVE ScanInv'
  BY <1>7 DEF Claim, Native, Claimed, NextSlot, Goto, data, grants
<1>8. ASSUME NEW t \in Threads, SetCip(t) PROVE ScanInv'
  BY <1>8 DEF SetCip, Done, Native, Goto, data
<1>9. ASSUME NEW t \in Threads, Full(t) PROVE ScanInv'
  BY <1>9 DEF Full, Done, Native, Goto, data, grants
<1>10. ASSUME NEW t \in Threads, \E s \in Slots : Free(t, s) PROVE ScanInv'
  BY <1>10 DEF Free, FastFail, Callers, Native, Goto, data, grants
<1>11. ASSUME NEW t \in Threads, FreeUnknown(t) PROVE ScanInv'
  BY <1>11 DEF FreeUnknown, FastFail, Native, Goto, data, grants
<1>12. ASSUME NEW t \in Threads, ClearCtx(t) PROVE ScanInv'
  BY <1>12 DEF ClearCtx, Cleared, Done, Native, Goto, data, grants
<1>13. ASSUME NEW t \in Threads, \E s \in Slots : Dispatch(t, s)
       PROVE  ScanInv'
  BY <1>13 DEF Dispatch, Goto, data
<1>14. ASSUME NEW t \in Threads, ReadCtx(t) PROVE ScanInv'
  BY <1>14 DEF ReadCtx, FastFail, Goto, data, grants
<1>15. ASSUME NEW t \in Threads, Lock(t) PROVE ScanInv'
  BY <1>15 DEF Lock, MayLock, Goto, data, grants
<1>16. ASSUME NEW t \in Threads, Precall(t) PROVE ScanInv'
  BY <1>16 DEF Precall, FastFail, Goto, data, grants
<1>17. ASSUME NEW t \in Threads, CallFails(t) PROVE ScanInv'
  BY <1>17 DEF CallFails, FastFail, Native, Goto, data, grants
<1> QED
  BY <1>1, <1>2, <1>3, <1>4, <1>5, <1>6, <1>7, <1>8, <1>9, <1>10, <1>11,
     <1>12, <1>13, <1>14, <1>15, <1>16, <1>17 DEF Run, Serve, Begin

\* A call within its grant finds the context and function of its slot.
LEMMA CauseStep == IInv /\ Run => StopsForCause'
<1> SUFFICES ASSUME IInv, stop = NULL, Run PROVE StopsForCause'
  BY DEF Run
<1> USE DEF IInv, TypeInv, Labels, InVm, LabelInv, AliveInv, GrantInv,
            GrantedInv, PointerInv, StopsForCause, GrantedTo
<1>1. CASE \E v \in Vms : Load(v)
  BY <1>1 DEF Load, data, thread, grants
<1>2. CASE \E v \in Vms : Destroy(v)
  <2>1. PICK v \in Vms : Destroy(v)
    BY <1>2
  <2>2. /\ alive' = alive \ {v} /\ stale' = stale \cup Callers(GrantedTo(v))
        /\ UNCHANGED <<pc, vm, pointer, at>>
    BY <2>1 DEF Destroy, thread
  <2>3. ASSUME NEW u \in Threads, vm[u] \notin alive' \cup {NULL}
        PROVE  u \in stale'
    <3>1. vm[u] = v
      BY <2>2, <2>3
    <3>2. pointer[u] # NULL
      BY <2>1, <3>1 DEF Destroy
    <3>3. u \in stale \/ pointer[u] \in GrantedTo(v)
      BY <2>3, <3>1, <3>2
    <3> QED
      BY <2>2, <3>3 DEF Callers
  <2>4. \A u \in Threads : pc'[u] # "stopped"
    BY <2>2
  <2> QED
    BY <2>2, <2>3, <2>4
<1>3. ASSUME NEW t \in Threads, \E v \in Vms : Enter(t, v)
      PROVE  StopsForCause'
  BY <1>3 DEF Enter, Goto, data, grants
<1>4. ASSUME NEW t \in Threads, Exit(t) \/ Return(t) PROVE StopsForCause'
  BY <1>4 DEF Exit, Return, Unlock, Goto, data
<1>5. ASSUME NEW t \in Threads, \E c \in Cips : Alloc(t, c)
      PROVE  StopsForCause'
  BY <1>5 DEF Alloc, Goto, data, grants
<1>6. ASSUME NEW t \in Threads, Scan(t) PROVE StopsForCause'
  BY <1>6 DEF Scan, Native, NextSlot, Goto, data, grants
<1>7. ASSUME NEW t \in Threads, Claim(t) PROVE StopsForCause'
  BY <1>7 DEF Claim, Native, Claimed, NextSlot, Goto, data, grants
<1>8. ASSUME NEW t \in Threads, SetCip(t) PROVE StopsForCause'
  BY <1>8 DEF SetCip, Done, Native, Goto, data
<1>9. ASSUME NEW t \in Threads, Full(t) PROVE StopsForCause'
  BY <1>9 DEF Full, Done, Native, Goto, data, grants
<1>10. ASSUME NEW t \in Threads, \E s \in Slots : Free(t, s)
       PROVE  StopsForCause'
  BY <1>10 DEF Free, FastFail, Callers, Native, Goto, data, grants
<1>11. ASSUME NEW t \in Threads, FreeUnknown(t) PROVE StopsForCause'
  BY <1>11 DEF FreeUnknown, FastFail, Native, Goto, data, grants
<1>12. ASSUME NEW t \in Threads, ClearCtx(t) PROVE StopsForCause'
  BY <1>12 DEF ClearCtx, Cleared, Done, Native, Goto, data, grants
<1>13. ASSUME NEW t \in Threads, \E s \in Slots : Dispatch(t, s)
       PROVE  StopsForCause'
  BY <1>13 DEF Dispatch, Goto, data
<1>14. ASSUME NEW t \in Threads, ReadCtx(t) PROVE StopsForCause'
  <2>1. pointer[t] # NULL
    BY <1>14 DEF ReadCtx
  <2>2. t \notin stale =>
          /\ pointer[t] \in Slots
          /\ granted[pointer[t]] # NULL
          /\ granted[pointer[t]] \in [vm : Vms, cip : Cips]
          /\ ctx[pointer[t]] = granted[pointer[t]].vm /\ ctx[pointer[t]] # NULL
          /\ cip[pointer[t]] = granted[pointer[t]].cip
          /\ granted[pointer[t]].vm \in alive
    BY <2>1, Called
  <2> QED
    BY <1>14, <2>2 DEF ReadCtx, FastFail, Goto, data, grants
<1>15. ASSUME NEW t \in Threads, Lock(t) PROVE StopsForCause'
  BY <1>15 DEF Lock, MayLock, Goto, data, grants
<1>16. ASSUME NEW t \in Threads, Precall(t) PROVE StopsForCause'
  <2>1. pointer[t] # NULL
    BY <1>16 DEF Precall
  <2>2. t \notin stale =>
          /\ pointer[t] \in Slots
          /\ granted[pointer[t]] # NULL
          /\ granted[pointer[t]] \in [vm : Vms, cip : Cips]
          /\ ctx[pointer[t]] = granted[pointer[t]].vm /\ ctx[pointer[t]] # NULL
          /\ cip[pointer[t]] = granted[pointer[t]].cip
          /\ granted[pointer[t]].vm \in alive
    BY <2>1, Called
  <2> QED
    BY <1>16, <2>2 DEF Precall, FastFail, Goto, data, grants
<1>17. ASSUME NEW t \in Threads, CallFails(t) PROVE StopsForCause'
  BY <1>17 DEF CallFails, FastFail, Native, Goto, data, grants
<1> QED
  BY <1>1, <1>2, <1>3, <1>4, <1>5, <1>6, <1>7, <1>8, <1>9, <1>10, <1>11,
     <1>12, <1>13, <1>14, <1>15, <1>16, <1>17 DEF Run, Serve, Begin

\* Nothing is said of a step that changes nothing.
LEMMA Unchanged == IInv /\ UNCHANGED vars => IInv'
  BY DEF IInv, TypeInv, LabelInv, LockInv, AliveInv, GrantInv, GrantedInv,
     HandInv, TakenInv, LeakInv, PointerInv, ScanInv, StopsForCause, GrantedTo,
     vars, data, thread, grants

\* The invariant that all theorems below follow from.
LEMMA Invariance == Spec => []IInv
<1>1. IInv /\ [Next]_vars => IInv'
  <2>1. IInv /\ Run => IInv'
    BY TypeStep, LabelStep, LockStep, AliveStep, GrantStep, GrantedStep, HandStep,
       TakenStep, LeakStep, PointerStep, ScanStep, CauseStep DEF IInv
  <2> QED
    BY <2>1, Unchanged DEF Next, Stopped
<1> QED
  BY <1>1, Initially, PTL DEF Spec

-----------------------------------------------------------------------------
(***************************************************************************)
(* Two VMs that allocate at once never share a slot (vm.cpp:505), nor does *)
(* a free take a slot from another VM (vm.cpp:522), whatever is called and *)
(* freed out of turn.                                                      *)
(***************************************************************************)
THEOREM NoSharedSlot == Spec => []SlotsExclusive
<1>1. IInv => SlotsExclusive
  <2> SUFFICES ASSUME IInv, NEW s \in Slots
               PROVE  IF granted[s] # NULL
                        THEN /\ [vm |-> ctx[s], cip |-> cip[s]] = granted[s]
                             /\ InHand(s) = {}
                        ELSE IF s \in leaked
                          THEN ctx[s] # NULL /\ InHand(s) = {}
                          ELSE IF ctx[s] # NULL
                            THEN \E t \in Threads :
                                   InHand(s) = {t} /\ vm[t] = ctx[s]
                            ELSE InHand(s) = {}
    BY DEF SlotsExclusive
  <2>1. granted[s] # NULL => [vm |-> ctx[s], cip |-> cip[s]] = granted[s]
    BY DEF IInv, TypeInv, GrantedInv
  <2>2. granted[s] # NULL \/ s \in leaked \/ ctx[s] = NULL => InHand(s) = {}
    BY DEF IInv, LabelInv, HandInv, InHand, Handling, InVm
  <2>3. granted[s] = NULL /\ s \notin leaked /\ ctx[s] # NULL =>
          \E t \in Threads : InHand(s) = {t} /\ vm[t] = ctx[s]
    BY DEF IInv, HandInv, TakenInv, InHand, Handling
  <2>4. s \in leaked => ctx[s] # NULL
    BY DEF IInv, LeakInv
  <2> QED
    BY <2>1, <2>2, <2>3, <2>4
<1> QED
  BY <1>1, Invariance, PTL

(***************************************************************************)
(* A call within its grant runs its function in its VM, whatever other     *)
(* pointers are misused, and nothing else runs there (vm.cpp:461-469).     *)
(***************************************************************************)
THEOREM PointersRunTheirs == Spec => []PointerRunsItsFunction
<1>1. IInv => PointerRunsItsFunction
  BY DEF IInv, LabelInv, LockInv, PointerInv, StopsForCause,
     PointerRunsItsFunction, InVm, Running
<1> QED
  BY <1>1, Invariance, PTL

(***************************************************************************)
(* Who stops the machine called outside its grant, asked for entry point   *)
(* 0, or freed what was not its own: no call within its grant sees half of *)
(* an alloc or a free, or a freed context (vm.cpp:459, 463, 520, 522).     *)
(***************************************************************************)
THEOREM NoHalfMadeSlot == Spec => []StopsForCause
  BY Invariance, PTL DEF IInv

(***************************************************************************)
(* callback_alloc returns 0 only if all slots were taken during its scan   *)
(* (vm.cpp:502-511).                                                       *)
(***************************************************************************)
THEOREM FullMeansFull == Spec => []FullOnlyIfFull
<1>1. IInv => FullOnlyIfFull
  BY DEF IInv, TypeInv, ScanInv, FullOnlyIfFull, Slots
<1> QED
  BY <1>1, Invariance, PTL

-----------------------------------------------------------------------------
Entries == [s \in Slots |-> Entry(s)]
Runners == [t \in Threads |-> Runs(t)]

\* NULL is no function of a VM.
LEMMA NotARecord ==
  \A v \in Vms, c \in Cips \cup {0, NULL} : [vm |-> v, cip |-> c] # NULL
<1>1. \A r \in [vm : Vms, cip : Cips \cup {0, NULL}] : r # NULL
  OBVIOUS
<1> QED
  BY <1>1

\* What a step says of every slot and every thread, it says of the tables.
LEMMA SameEntries == ctx' = ctx /\ cip' = cip => Entries' = Entries
  BY DEF Entries, Entry

\* Who stays in or outside its VM, with the same function, runs the same.
LEMMA SameRunners ==
  ASSUME \A t \in Threads :
           /\ (pc[t] \in Running) = (pc'[t] \in Running)
           /\ pc[t] \in Running => vm'[t] = vm[t] /\ fn'[t] = fn[t]
  PROVE  Runners' = Runners
  BY DEF Runners, Runs, Running

\* Alloc, free and dispatch do the rest of their work unseen.
LEMMA UnseenSteps ==
  ASSUME IInv, NEW t \in Threads,
         \/ \E c \in Cips : Alloc(t, c)
         \/ Scan(t) \/ Claim(t) \/ Full(t) \/ ClearCtx(t)
         \/ \E s \in Slots : Dispatch(t, s)
         \/ ReadCtx(t) \/ Lock(t)
  PROVE  UNCHANGED <<Entries, Runners>>
<1> USE DEF IInv, TypeInv, LabelInv, Running, InVm, Labels
<1>1. CASE \E c \in Cips : Alloc(t, c)
  <2>1. ctx' = ctx /\ cip' = cip
    BY <1>1 DEF Alloc, Goto, data
  <2>2. Runners' = Runners
    BY <1>1, SameRunners DEF Alloc, Goto
  <2> QED
    BY <2>1, <2>2, SameEntries
<1>2. CASE Scan(t)
  <2>1. ctx' = ctx /\ cip' = cip
    BY <1>2 DEF Scan, Native, Goto, data
  <2>2. Runners' = Runners
    BY <1>2, SameRunners DEF Scan, Native, Goto
  <2> QED
    BY <2>1, <2>2, SameEntries
<1>3. CASE Full(t)
  <2>1. ctx' = ctx /\ cip' = cip
    BY <1>3 DEF Full, Done, Native, Goto, data
  <2>2. Runners' = Runners
    BY <1>3, SameRunners DEF Full, Done, Native, Goto
  <2> QED
    BY <2>1, <2>2, SameEntries
<1>4. CASE \E s \in Slots : Dispatch(t, s)
  <2>1. ctx' = ctx /\ cip' = cip
    BY <1>4 DEF Dispatch, Goto, data
  <2>2. Runners' = Runners
    BY <1>4, SameRunners DEF Dispatch, Goto
  <2> QED
    BY <2>1, <2>2, SameEntries
<1>5. CASE ReadCtx(t)
  <2>1. ctx' = ctx /\ cip' = cip
    BY <1>5 DEF ReadCtx, FastFail, Goto, data
  <2>2. Runners' = Runners
    BY <1>5, SameRunners DEF ReadCtx, FastFail, Goto
  <2> QED
    BY <2>1, <2>2, SameEntries
<1>6. CASE Lock(t)
  <2>1. ctx' = ctx /\ cip' = cip
    BY <1>6 DEF Lock, Goto, data
  <2>2. Runners' = Runners
    BY <1>6, SameRunners DEF Lock, Goto
  <2> QED
    BY <2>1, <2>2, SameEntries
<1>7. CASE Claim(t)
  <2>1. cip' = cip /\ at[t] \in Slots /\ (ctx' = ctx \/ cip[at[t]] = 0)
    <3>1. CASE ctx[at[t]] = NULL
      <4>1. at[t] \in Slots
        BY <1>7 DEF Claim
      <4>2. granted[at[t]] = NULL
        BY <3>1, <4>1 DEF GrantedInv, GrantInv
      <4>3. at[t] \notin leaked
        BY <3>1 DEF LeakInv
      <4> QED
        BY <1>7, <4>1, <4>2, <4>3 DEF Claim, TakenInv
    <3>2. CASE ctx[at[t]] # NULL
      BY <1>7, <3>2 DEF Claim, Claimed
    <3> QED
      BY <3>1, <3>2
  <2>2. \A s \in Slots : s # at[t] => ctx'[s] = ctx[s]
    BY <1>7 DEF Claim, Claimed, Native, Goto
  <2>3. \A s \in Slots : Entry(s)' = Entry(s)
    BY <2>1, <2>2 DEF Entry
  <2>4. Runners' = Runners
    BY <1>7, SameRunners DEF Claim, Claimed, Native, Goto
  <2> QED
    BY <2>3, <2>4 DEF Entries
<1>8. CASE ClearCtx(t)
  <2>1. cip' = cip /\ cip[at[t]] = 0 /\ at[t] \in Slots
    BY <1>8 DEF ClearCtx, Cleared, Done, Native, Goto, HandInv, TakenInv, Handling
  <2>2. \A s \in Slots : s # at[t] => ctx'[s] = ctx[s]
    BY <1>8 DEF ClearCtx, Cleared, Done, Native, Goto
  <2>3. \A s \in Slots : Entry(s)' = Entry(s)
    BY <2>1, <2>2 DEF Entry
  <2>4. Runners' = Runners
    BY <1>8, SameRunners DEF ClearCtx, Cleared, Done, Native, Goto
  <2> QED
    BY <2>3, <2>4 DEF Entries
<1> QED
  BY <1>1, <1>2, <1>3, <1>4, <1>5, <1>6, <1>7, <1>8

\* Whoever holds the mutex of a VM is the only one to run in it.
LEMMA NobodyRuns ==
  ASSUME IInv, NEW t \in Threads, NEW v \in Vms,
         mutex[v] = NULL \/ (mutex[v] = t /\ pc[t] = "check"),
         NEW u \in Threads
  PROVE  ~(Runners[u] # NULL /\ Runners[u].vm = v)
<1> SUFFICES ASSUME Runners[u] # NULL, Runners[u].vm = v PROVE FALSE
  OBVIOUS
<1>1. pc[u] \in Running /\ vm[u] = v
  BY DEF Runners, Runs, Running
<1>2. mutex[v] = u
  BY <1>1 DEF IInv, LockInv, Running
<1> QED
  BY <1>1, <1>2 DEF Running

\* An ioctl enters its VM when it takes the mutex.
LEMMA EnterStep ==
  ASSUME IInv, NEW t \in Threads, NEW v \in Vms, Enter(t, v)
  PROVE  Table!Enter(t, v)
<1>1. Entries' = Entries
  BY SameEntries DEF Enter, data
<1>2. Runners[t] = NULL
  BY DEF Enter, Runners, Runs, InVm
<1>3. \A u \in Threads : ~(Runners[u] # NULL /\ Runners[u].vm = v)
  <2>1. mutex[v] = NULL
    BY DEF Enter
  <2> QED
    BY <2>1, NobodyRuns
<1>4. Runners' = [Runners EXCEPT ![t] = [vm |-> v, cip |-> NULL]]
  <2>1. Runs(t)' = [vm |-> v, cip |-> NULL]
    BY DEF Enter, Goto, Runs, InVm, IInv, TypeInv, LabelInv
  <2>2. ASSUME NEW u \in Threads, u # t PROVE Runs(u)' = Runs(u)
    BY <2>2 DEF Enter, Goto, Runs, IInv, TypeInv
  <2> QED
    BY <2>1, <2>2 DEF Runners
<1> QED
  BY <1>1, <1>2, <1>3, <1>4 DEF Table!Enter, Table!RunsIn, Entries, Runners

\* What a thread in a VM runs is no NULL.
LEMMA RunsSomething ==
  ASSUME IInv, NEW t \in Threads, pc[t] \in Running
  PROVE  /\ vm[t] \in Vms
         /\ Runners[t] = [vm |-> vm[t], cip |-> fn[t]] /\ Runners[t] # NULL
<1>1. vm[t] \in Vms /\ fn[t] \in Cips \cup {0, NULL}
  BY DEF IInv, TypeInv, LabelInv, InVm, Running
<1> QED
  BY <1>1, NotARecord DEF Runners, Runs, Running

\* A call ends when it gives the mutex back, or with the machine.
LEMMA LeaveStep ==
  ASSUME IInv, NEW t \in Threads, pc[t] = "vm",
         ctx' = ctx, cip' = cip,
         pc' = [pc EXCEPT ![t] = "idle"] \/ pc' = [pc EXCEPT ![t] = "stopped"],
         \A u \in Threads : u # t => vm'[u] = vm[u] /\ fn'[u] = fn[u]
  PROVE  Table!Leave(t)
<1>1. Entries' = Entries
  BY SameEntries
<1>2. Runners[t] # NULL
  BY RunsSomething DEF Running, InVm
<1>3. Runners' = [Runners EXCEPT ![t] = NULL]
  <2>1. Runs(t)' = NULL
    BY DEF Runs, InVm, IInv, TypeInv
  <2>2. ASSUME NEW u \in Threads, u # t PROVE Runs(u)' = Runs(u)
    BY <2>2 DEF Runs, IInv, TypeInv
  <2> QED
    BY <2>1, <2>2 DEF Runners
<1> QED
  BY <1>1, <1>2, <1>3 DEF Table!Leave, Entries, Runners

\* An alloc takes effect when it sets the function of its slot, if any.
LEMMA AllocStep ==
  ASSUME IInv, NEW t \in Threads, SetCip(t)
  PROVE  \/ UNCHANGED <<Entries, Runners>>
         \/ arg[t] # 0 /\ Table!Alloc(t, at[t], arg[t])
<1>1. /\ pc[t] = "set" /\ at[t] \in Slots /\ arg[t] \in Cips
      /\ ctx[at[t]] = vm[t] /\ cip[at[t]] = 0 /\ vm[t] # NULL
  BY DEF IInv, TypeInv, LabelInv, HandInv, TakenInv, Handling, InVm, SetCip
<1>2. /\ vm[t] \in Vms
      /\ Runners[t] = [vm |-> vm[t], cip |-> fn[t]] /\ Runners[t] # NULL
  BY <1>1, RunsSomething DEF Running, InVm
<1>3. Entries[at[t]] = NULL
  BY <1>1 DEF Entries, Entry
<1>4. PICK q \in Slots : q = at[t]
  BY <1>1
<1>5. /\ ctx' = ctx /\ cip' = [cip EXCEPT ![q] = arg[t]]
      /\ cip \in [Slots -> Cips \cup {0}]
  BY <1>4 DEF SetCip, IInv, TypeInv
<1>6. ASSUME NEW s \in Slots, s # q PROVE Entry(s)' = Entry(s)
  BY <1>5, <1>6 DEF Entry
<1>7. Runners' = Runners
  <2>1. vm' = vm /\ fn' = fn /\ pc' = [pc EXCEPT ![t] = "vm"]
    BY DEF SetCip, Done, Native, Goto
  <2> QED
    BY <1>1, <2>1, SameRunners DEF Running, InVm, IInv, TypeInv
<1>8. CASE arg[t] = 0
  <2>1. Entry(q)' = Entry(q)
    BY <1>1, <1>4, <1>5, <1>8 DEF Entry
  <2> QED
    BY <1>6, <1>7, <2>1 DEF Entries
<1>9. CASE arg[t] # 0
  <2>1. Entry(q)' = [vm |-> vm[t], cip |-> arg[t]]
    BY <1>1, <1>4, <1>5, <1>9 DEF Entry
  <2>2. Entries' = [Entries EXCEPT ![at[t]] = [vm |-> vm[t], cip |-> arg[t]]]
    BY <1>4, <1>6, <2>1 DEF Entries
  <2>3. Entries' =
          [Entries EXCEPT ![at[t]] = [vm |-> Runners[t].vm, cip |-> arg[t]]]
    BY <1>2, <2>2
  <2> QED
    BY <1>2, <1>3, <1>7, <1>9, <2>3 DEF Table!Alloc, Entries, Runners
<1> QED
  BY <1>8, <1>9

\* A free takes effect when it clears the function of its slot, if any.
LEMMA FreeStep ==
  ASSUME IInv, NEW t \in Threads, NEW s \in Slots, Free(t, s), ctx[s] = vm[t]
  PROVE  UNCHANGED <<Entries, Runners>> \/ Table!Free(t, s)
<1>1. pc[t] = "vm" /\ vm[t] # NULL
  BY DEF Free, IInv, LabelInv, InVm
<1>2. /\ cip' = [cip EXCEPT ![s] = 0] /\ ctx' = ctx
      /\ pc' = [pc EXCEPT ![t] = "clear"] /\ vm' = vm /\ fn' = fn
  BY DEF Free, Goto, Native
<1>3. Entries' = [Entries EXCEPT ![s] = NULL]
  <2>1. Entry(s)' = NULL
    BY <1>2 DEF Entry, IInv, TypeInv
  <2>2. ASSUME NEW q \in Slots, q # s PROVE Entry(q)' = Entry(q)
    BY <1>2, <2>2 DEF Entry, IInv, TypeInv
  <2> QED
    BY <2>1, <2>2 DEF Entries
<1>4. Runners' = Runners
  BY <1>1, <1>2, SameRunners DEF Running, InVm, IInv, TypeInv
<1>5. /\ vm[t] \in Vms
      /\ Runners[t] = [vm |-> vm[t], cip |-> fn[t]] /\ Runners[t] # NULL
  BY <1>1, RunsSomething DEF Running, InVm
<1>6. CASE cip[s] = 0
  <2>1. Entries[s] = NULL
    BY <1>6 DEF Entries, Entry
  <2> QED
    BY <1>3, <1>4, <2>1 DEF Entries
<1>7. CASE cip[s] # 0
  <2>1. cip[s] \in Cips
    BY <1>7 DEF IInv, TypeInv
  <2>2. Entries[s] = [vm |-> vm[t], cip |-> cip[s]] /\ Entries[s] # NULL
    BY <1>1, <1>5, <1>7, <2>1, NotARecord DEF Entries, Entry
  <2> QED
    BY <1>3, <1>4, <1>5, <2>2 DEF Table!Free, Table!RunsIn, Entries, Runners
<1> QED
  BY <1>6, <1>7

(***************************************************************************)
(* A dispatch takes effect when clients have been asked: within its grant  *)
(* it runs what the table says, and outside it enters some VM.             *)
(***************************************************************************)
LEMMA InvokeStep ==
  ASSUME IInv, NEW t \in Threads, Precall(t)
  PROVE  \/ UNCHANGED <<Entries, Runners>>
         \/ Table!Invoke(t, pointer[t])
         \/ Table!Enter(t, vm[t])
<1>1. /\ pc[t] = "check" /\ pointer[t] # NULL /\ mutex[vm[t]] = t
      /\ vm[t] \in Vms
  BY DEF Precall, IInv, TypeInv, LabelInv, LockInv, InVm
<1>2. Entries' = Entries
  BY SameEntries DEF Precall, data
<1>3. Runners[t] = NULL
  BY <1>1 DEF Runners, Runs, InVm
<1>4. \A u \in Threads : ~(Runners[u] # NULL /\ Runners[u].vm = vm[t])
  BY <1>1, NobodyRuns
<1>5. PICK f : f = IF t \in stale THEN NULL ELSE cip[pointer[t]]
  OBVIOUS
<1>6. /\ fn' = [fn EXCEPT ![t] = f]
      /\ vm' = vm
      /\ \/ pc' = [pc EXCEPT ![t] = "vm"] /\ cip[pointer[t]] # 0
         \/ pc' = [pc EXCEPT ![t] = "stopped"]
  BY <1>5 DEF Precall, FastFail, Goto
<1>7. \A u \in Threads : u # t => Runs(u)' = Runs(u)
  BY <1>6 DEF Runs, IInv, TypeInv
<1>8. CASE pc' = [pc EXCEPT ![t] = "stopped"]
  <2>1. Runs(t)' = Runs(t)
    BY <1>1, <1>8 DEF Runs, InVm, IInv, TypeInv
  <2> QED
    BY <1>2, <1>7, <2>1 DEF Runners
<1>9. CASE pc' = [pc EXCEPT ![t] = "vm"] /\ cip[pointer[t]] # 0
  <2>1. Runs(t)' = [vm |-> vm[t], cip |-> f]
    BY <1>6, <1>9 DEF Runs, InVm, IInv, TypeInv
  <2>2. Runners' = [Runners EXCEPT ![t] = [vm |-> vm[t], cip |-> f]]
    BY <1>7, <2>1 DEF Runners
  <2>3. CASE t \in stale
    BY <1>1, <1>2, <1>3, <1>4, <1>5, <2>2, <2>3
       DEF Table!Enter, Table!RunsIn, Entries, Runners
  <2>4. CASE t \notin stale
    <3>1. /\ pointer[t] \in Slots
          /\ ctx[pointer[t]] = granted[pointer[t]].vm
          /\ ctx[pointer[t]] # NULL
      BY <1>1, <2>4, Called
    <3>2. vm[t] = ctx[pointer[t]]
      BY <1>1, <2>4, <3>1 DEF IInv, PointerInv
    <3>3. cip[pointer[t]] \in Cips
      BY <1>9, <3>1 DEF IInv, TypeInv
    <3>4. /\ Entries[pointer[t]] = [vm |-> vm[t], cip |-> f]
          /\ Entries[pointer[t]] # NULL
      BY <1>1, <1>5, <1>9, <2>4, <3>1, <3>2, <3>3, NotARecord DEF Entries, Entry
    <3>5. Entries[pointer[t]].vm = vm[t]
      BY <3>4
    <3>6. Runners' = [Runners EXCEPT ![t] = Entries[pointer[t]]]
      BY <2>2, <3>4
    <3> QED
      BY <1>2, <1>3, <1>4, <3>4, <3>5, <3>6
         DEF Table!Invoke, Table!RunsIn, Entries, Runners
  <2> QED
    BY <2>3, <2>4
<1> QED
  BY <1>6, <1>8, <1>9

(***************************************************************************)
(* The slots implement a table of function pointers: alloc and free take   *)
(* effect at one instant, and a call within its grant runs what the table  *)
(* says (vm.cpp:449-532).                                                  *)
(***************************************************************************)
THEOREM SlotsAreATable == Spec => IsTable
<1>1. Init => Table!Init
  BY DEF Init, Table!Init, Entry, Runs, InVm
<1>2. IInv /\ [Next]_vars => [Table!Next]_(Table!vars)
  <2> SUFFICES ASSUME IInv, [Next]_vars
               PROVE  UNCHANGED <<Entries, Runners>> \/ Table!Next
    BY DEF Table!vars, Entries, Runners
  <2>1. CASE \E v \in Vms : Load(v) \/ Destroy(v)
    BY <2>1, SameEntries, SameRunners DEF Load, Destroy, data, thread
  <2>2. CASE UNCHANGED vars
    BY <2>2, SameEntries, SameRunners DEF vars, data, thread
  <2>3. ASSUME NEW t \in Threads, \E v \in Vms : Enter(t, v) PROVE Table!Next
    BY <2>3, EnterStep DEF Table!Next
  <2>4. ASSUME NEW t \in Threads,
               Exit(t) \/ Return(t) \/ CallFails(t) \/ FreeUnknown(t)
        PROVE  Table!Next
    <3>1. /\ pc[t] = "vm" /\ ctx' = ctx /\ cip' = cip
          /\ \/ pc' = [pc EXCEPT ![t] = "idle"]
             \/ pc' = [pc EXCEPT ![t] = "stopped"]
      BY <2>4 DEF Exit, Return, CallFails, FreeUnknown, Unlock, FastFail, Goto,
                  Native, data
    <3>2. \A u \in Threads : u # t => vm'[u] = vm[u] /\ fn'[u] = fn[u]
      BY <2>4 DEF Exit, Return, CallFails, FreeUnknown, Unlock, FastFail, Goto,
                  Native, data, IInv, TypeInv
    <3>3. Table!Leave(t)
      BY <3>1, <3>2, LeaveStep
    <3> QED
      BY <3>3 DEF Table!Next
  <2>5. ASSUME NEW t \in Threads, SetCip(t)
        PROVE  UNCHANGED <<Entries, Runners>> \/ Table!Next
    <3>1. at[t] \in Slots /\ arg[t] \in Cips
      BY <2>5 DEF SetCip, IInv, LabelInv
    <3>2. \/ UNCHANGED <<Entries, Runners>>
          \/ arg[t] # 0 /\ Table!Alloc(t, at[t], arg[t])
      BY <2>5, AllocStep
    <3> QED
      BY <3>1, <3>2 DEF Table!Next
  <2>6. ASSUME NEW t \in Threads, NEW s \in Slots, Free(t, s)
        PROVE  UNCHANGED <<Entries, Runners>> \/ Table!Next
    <3>1. CASE ctx[s] = vm[t]
      BY <2>6, <3>1, FreeStep DEF Table!Next
    <3>2. CASE ctx[s] # vm[t]
      <4>1. /\ pc[t] = "vm" /\ ctx' = ctx /\ cip' = cip /\ vm' = vm /\ fn' = fn
            /\ pc' = [pc EXCEPT ![t] = "stopped"]
        BY <2>6, <3>2 DEF Free, FastFail, Goto, Native
      <4>2. Table!Leave(t)
        BY <4>1, LeaveStep
      <4> QED
        BY <4>2 DEF Table!Next
    <3> QED
      BY <3>1, <3>2
  <2>7. ASSUME NEW t \in Threads, Precall(t)
        PROVE  UNCHANGED <<Entries, Runners>> \/ Table!Next
    <3>1. pointer[t] \in Slots /\ vm[t] \in Vms
      BY <2>7 DEF Precall, IInv, TypeInv, LabelInv, InVm
    <3> QED
      BY <2>7, <3>1, InvokeStep DEF Table!Next
  <2>8. ASSUME NEW t \in Threads,
               \/ \E c \in Cips : Alloc(t, c)
               \/ Scan(t) \/ Claim(t) \/ Full(t) \/ ClearCtx(t)
               \/ \E s \in Slots : Dispatch(t, s)
               \/ ReadCtx(t) \/ Lock(t)
        PROVE  UNCHANGED <<Entries, Runners>>
    BY <2>8, UnseenSteps
  <2> QED
    BY <2>1, <2>2, <2>3, <2>4, <2>5, <2>6, <2>7, <2>8
       DEF Next, Run, Stopped, Serve, Begin
<1> QED
  BY <1>1, <1>2, Invariance, PTL DEF Spec, IsTable, Table!Spec
=============================================================================
