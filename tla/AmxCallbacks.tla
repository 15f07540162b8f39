---------------------------- MODULE AmxCallbacks ----------------------------
(***************************************************************************)
(* The callback slots of vm.cpp: natives callback_alloc and callback_free  *)
(* hand out kernel function pointers, one per slot, that run a function of *)
(* a VM.  Modules allocate from any VM at once, and the kernel calls the   *)
(* pointers from threads of its own.                                       *)
(*                                                                         *)
(* Nothing is assumed of modules: any pointer is called at any time, also  *)
(* before alloc returned it, after free and after its VM is gone; any      *)
(* value is freed, by any VM, also while a call is at work; a VM ends with *)
(* pointers left, and another comes at its address.  Histories record what *)
(* was granted, and which calls are stale, that is, outside their grant.   *)
(***************************************************************************)
EXTENDS Naturals, FiniteSets

CONSTANTS
  Threads,
  Vms,          \* addresses of VM contexts
  SlotCount,    \* k_to_amx_callback_count, 256 in the code
  Cips,         \* entry points modules ask for, 0 as well
  NULL

ASSUME SlotsAssumption == SlotCount \in Nat \ {0}
Slots == 0 .. SlotCount - 1

\* Why a thread stops the machine: the fast fails, and freed memory touched.
Causes == {"empty", "freed", "veto", "failed", "foreign", "unknown"}

ASSUME CipsAssumption ==
  /\ NULL \notin Cips \cup Vms \cup Threads \cup Slots
  /\ NULL \notin Causes
  /\ NULL \notin [vm : Vms, cip : Cips \cup {0, NULL}]

VARIABLES
  alive,      \* contexts that vm_load_binary made and vm_destroy left
  ctx, cip,   \* s_to_amx_callback_data, per slot
  mutex,      \* owner of the mutex of every context
  pc, vm,     \* where every thread is, and the VM it runs or waits for
  pointer,    \* slot whose pointer a thread of the kernel calls, or NULL
  fn,         \* history: function a thread runs within a grant, or NULL
  at, arg,    \* slot and function that callback_alloc or _free works on
  granted,    \* history: what every slot was returned for and stands for
  leaked,     \* history: slots that a VM had when it was destroyed
  stale,      \* history: threads that call a pointer outside its grant
  free,       \* history: slots free since the scan of a thread began
  stop,       \* why the machine has stopped, or NULL
  open        \* history: VMs of which clients heard a pre- but no post-call

data == <<ctx, cip>>
thread == <<pc, vm, pointer, fn, at, arg>>
grants == <<granted, leaked, stale>>
vars == <<alive, data, mutex, thread, grants, free, stop, open>>

Goto(t, s) == pc' = [pc EXCEPT ![t] = s]
FastFail(t, why) == stop' = why /\ Goto(t, "stopped")

Init ==
  /\ alive = {}
  /\ ctx = [s \in Slots |-> NULL]
  /\ cip = [s \in Slots |-> 0]
  /\ mutex = [v \in Vms |-> NULL]
  /\ pc = [t \in Threads |-> "idle"]
  /\ vm = [t \in Threads |-> NULL]
  /\ pointer = [t \in Threads |-> NULL]
  /\ fn = [t \in Threads |-> NULL]
  /\ at = [t \in Threads |-> 0]
  /\ arg = [t \in Threads |-> 0]
  /\ granted = [s \in Slots |-> NULL]
  /\ leaked = {}
  /\ stale = {}
  /\ free = [t \in Threads |-> {}]
  /\ stop = NULL
  /\ open = {}

-----------------------------------------------------------------------------
(***************************************************************************)
(* VMs come and go, and ioctls run them under their mutex (see Driver).    *)
(***************************************************************************)
Load(v) ==
  /\ v \notin alive
  /\ alive' = alive \cup {v}
  /\ UNCHANGED <<data, mutex, thread, grants, free, stop, open>>

(***************************************************************************)
(* vm_destroy_internal frees the context whatever its slots say.  IRPs are *)
(* done with it by then, but a call by a pointer may be at work or wait    *)
(* for the mutex: it is bound to touch freed memory, and the model stops.  *)
(***************************************************************************)
GrantedTo(v) == {s \in Slots : granted[s] # NULL /\ granted[s].vm = v}
Callers(S) == {t \in Threads : pointer[t] \in S}

Destroy(v) ==
  /\ v \in alive
  /\ \A t \in Threads : vm[t] = v => pointer[t] # NULL
  /\ granted' = [s \in Slots |-> IF s \in GrantedTo(v) THEN NULL ELSE granted[s]]
  /\ leaked' = leaked \cup GrantedTo(v)
  /\ stale' = stale \cup Callers(GrantedTo(v))
  /\ alive' = alive \ {v}
  /\ open' = open \ {v}
  /\ stop' = IF \E t \in Threads : vm[t] = v THEN "freed" ELSE stop
  /\ UNCHANGED <<data, mutex, thread, free>>

Enter(t, v) ==
  /\ pc[t] = "idle"
  /\ v \in alive
  /\ mutex[v] = NULL
  /\ mutex' = [mutex EXCEPT ![v] = t]
  /\ vm' = [vm EXCEPT ![t] = v]
  /\ open' = open \cup {v}
  /\ Goto(t, "vm")
  /\ UNCHANGED <<alive, data, pointer, fn, at, arg, grants, free, stop>>

Unlock(t) ==
  /\ mutex' = [mutex EXCEPT ![vm[t]] = NULL]
  /\ vm' = [vm EXCEPT ![t] = NULL]
  /\ pointer' = [pointer EXCEPT ![t] = NULL]
  /\ fn' = [fn EXCEPT ![t] = NULL]
  /\ stale' = stale \ {t}
  /\ Goto(t, "idle")
  /\ UNCHANGED <<alive, data, at, arg, granted, leaked, free, stop>>

Exit(t) ==
  /\ pc[t] = "vm" /\ pointer[t] = NULL
  /\ open' = open \ {vm[t]}
  /\ Unlock(t)

-----------------------------------------------------------------------------
(***************************************************************************)
(* to_amx_callback_alloc: scan for a slot without a context, claim it by a *)
(* compare-and-exchange, then set its function.                            *)
(***************************************************************************)
Alloc(t, c) ==
  /\ pc[t] = "vm"
  /\ Goto(t, "scan")
  /\ at' = [at EXCEPT ![t] = 0]
  /\ arg' = [arg EXCEPT ![t] = c]
  /\ free' = [free EXCEPT ![t] = {s \in Slots : ctx[s] = NULL}]
  /\ UNCHANGED <<alive, data, mutex, vm, pointer, fn, grants, stop, open>>

Native == <<alive, mutex, vm, pointer, fn, open>>

MutantNextSlot(s) == s + 16   \* a stride in bytes
NextSlot(s) == s + 1

Scan(t) ==
  /\ pc[t] = "scan" /\ at[t] \in Slots
  /\ IF ctx[at[t]] = NULL
       THEN Goto(t, "claim") /\ UNCHANGED at
       ELSE at' = [at EXCEPT ![t] = NextSlot(@)] /\ UNCHANGED pc
  /\ UNCHANGED <<Native, data, arg, grants, free, stop>>

MutantClaimed(s) == TRUE
Claimed(s) == ctx[s] = NULL

Claim(t) ==
  /\ pc[t] = "claim"
  /\ IF Claimed(at[t])
       THEN /\ ctx' = [ctx EXCEPT ![at[t]] = vm[t]]
            /\ free' = [u \in Threads |-> free[u] \ {at[t]}]
            /\ Goto(t, "set")
            /\ UNCHANGED at
       ELSE /\ at' = [at EXCEPT ![t] = NextSlot(@)]
            /\ Goto(t, "scan")
            /\ UNCHANGED <<ctx, free>>
  /\ UNCHANGED <<Native, cip, arg, grants, stop>>

Done(t) ==
  /\ Goto(t, "vm")
  /\ at' = [at EXCEPT ![t] = 0]
  /\ arg' = [arg EXCEPT ![t] = 0]
  /\ free' = [free EXCEPT ![t] = {}]

SetCip(t) ==
  /\ pc[t] = "set"
  /\ cip' = [cip EXCEPT ![at[t]] = arg[t]]
  /\ granted' = [granted EXCEPT ![at[t]] = [vm |-> vm[t], cip |-> arg[t]]]
  /\ Done(t)
  /\ UNCHANGED <<Native, ctx, leaked, stale, stop>>

(***************************************************************************)
(* No slot was free: the native returns 0.                                 *)
(***************************************************************************)
Full(t) ==
  /\ pc[t] = "scan" /\ at[t] \notin Slots
  /\ Done(t)
  /\ UNCHANGED <<Native, data, grants, stop>>

(***************************************************************************)
(* to_amx_callback_free: of a value that is no callback pointer, of one    *)
(* whose slot is free or another VM's, or of an own one.  The function of  *)
(* the slot goes first, then the context, which makes the slot free.       *)
(***************************************************************************)
FreeUnknown(t) ==
  /\ pc[t] = "vm"
  /\ FastFail(t, "unknown")
  /\ UNCHANGED <<Native, data, at, arg, grants, free>>

Free(t, s) ==
  /\ pc[t] = "vm"
  /\ at' = [at EXCEPT ![t] = s]
  /\ \/ /\ ctx[s] # vm[t]
        /\ FastFail(t, "foreign")
        /\ UNCHANGED <<cip, grants>>
     \/ /\ ctx[s] = vm[t]
        /\ cip' = [cip EXCEPT ![s] = 0]
        /\ Goto(t, "clear")
        /\ granted' = [granted EXCEPT ![s] = NULL]
        /\ leaked' = leaked \ {s}
        /\ stale' = stale \cup Callers({s})
        /\ UNCHANGED stop
  /\ UNCHANGED <<Native, ctx, arg, free>>

MutantCleared(v) == v
Cleared(v) == NULL

ClearCtx(t) ==
  /\ pc[t] = "clear"
  /\ ctx' = [ctx EXCEPT ![at[t]] = Cleared(vm[t])]
  /\ Done(t)
  /\ UNCHANGED <<Native, cip, grants, stop>>

-----------------------------------------------------------------------------
(***************************************************************************)
(* to_amx_callback_dispatch, on a thread of the kernel: the context is     *)
(* read before its mutex is taken, the function after it.  The context in  *)
(* the slot may be gone by now: the mutex is then in freed memory.         *)
(***************************************************************************)
Dispatch(t, s) ==
  /\ pc[t] = "idle"
  /\ pointer' = [pointer EXCEPT ![t] = s]
  /\ stale' = IF granted[s] = NULL THEN stale \cup {t} ELSE stale
  /\ Goto(t, "read")
  /\ UNCHANGED <<alive, data, mutex, vm, fn, at, arg, granted, leaked, free,
                 stop, open>>

ReadCtx(t) ==
  LET v == ctx[pointer[t]] IN
  /\ pc[t] = "read"
  /\ vm' = [vm EXCEPT ![t] = v]
  /\ \/ v = NULL /\ FastFail(t, "empty")
     \/ v \notin alive \cup {NULL} /\ FastFail(t, "freed")
     \/ v \in alive /\ Goto(t, "lock") /\ UNCHANGED stop
  /\ UNCHANGED <<alive, data, mutex, pointer, fn, at, arg, grants, free, open>>

MutantMayLock(t) == TRUE
MayLock(t) == mutex[vm[t]] = NULL

Lock(t) ==
  /\ pc[t] = "lock"
  /\ MayLock(t)
  /\ mutex' = [mutex EXCEPT ![vm[t]] = t]
  /\ Goto(t, "check")
  /\ UNCHANGED <<alive, data, vm, pointer, fn, at, arg, grants, free, stop, open>>

(***************************************************************************)
(* Clients are asked, and then the function runs.  A veto, like a call     *)
(* that fails, stops the machine.                                          *)
(***************************************************************************)
Precall(t) ==
  /\ pc[t] = "check"
  /\ fn' = [fn EXCEPT ![t] = IF t \in stale THEN NULL ELSE cip[pointer[t]]]
  /\ \/ cip[pointer[t]] = 0 /\ FastFail(t, "empty") /\ UNCHANGED open
     \/ cip[pointer[t]] # 0 /\ FastFail(t, "veto") /\ UNCHANGED open
     \/ /\ cip[pointer[t]] # 0
        /\ open' = open \cup {vm[t]}
        /\ Goto(t, "vm")
        /\ UNCHANGED stop
  /\ UNCHANGED <<alive, data, mutex, vm, pointer, at, arg, grants, free>>

CallFails(t) ==
  /\ pc[t] = "vm" /\ pointer[t] # NULL
  /\ FastFail(t, "failed")
  /\ UNCHANGED <<Native, data, at, arg, grants, free>>

Return(t) ==
  /\ pc[t] = "vm" /\ pointer[t] # NULL
  /\ Unlock(t)
  /\ UNCHANGED open

-----------------------------------------------------------------------------
(***************************************************************************)
(* What a thread does by itself once a call has begun, and what begins at  *)
(* the will of a module, an application or the kernel.                     *)
(***************************************************************************)
Serve(t) ==
  \/ Scan(t) \/ Claim(t) \/ SetCip(t) \/ Full(t) \/ ClearCtx(t)
  \/ ReadCtx(t) \/ Lock(t) \/ Precall(t)
  \/ Exit(t) \/ CallFails(t) \/ Return(t)

Begin(t) ==
  \/ \E v \in Vms : Enter(t, v)
  \/ \E c \in Cips : Alloc(t, c)
  \/ \E s \in Slots : Free(t, s) \/ Dispatch(t, s)
  \/ FreeUnknown(t)

Run ==
  /\ stop = NULL
  /\ \/ \E v \in Vms : Load(v) \/ Destroy(v)
     \/ \E t \in Threads : Serve(t) \/ Begin(t)

Stopped == stop # NULL /\ UNCHANGED vars

Next == Run \/ Stopped

Spec == Init /\ [][Next]_vars

-----------------------------------------------------------------------------
(***************************************************************************)
(* A granted slot holds what its VM asked for; a slot that outlived its VM *)
(* stays taken; every other slot that is taken is in the hands of one      *)
(* thread of the VM it is taken for.  Two VMs that allocate at once never  *)
(* share a slot (vm.cpp:505), nor does a free of a pointer that is not the *)
(* VM's own take a slot from another (vm.cpp:522).                         *)
(***************************************************************************)
InHand(s) == {t \in Threads : pc[t] \in {"set", "clear"} /\ at[t] = s}

SlotsExclusive ==
  \A s \in Slots :
    IF granted[s] # NULL
      THEN [vm |-> ctx[s], cip |-> cip[s]] = granted[s] /\ InHand(s) = {}
      ELSE IF s \in leaked
        THEN ctx[s] # NULL /\ InHand(s) = {}
        ELSE IF ctx[s] # NULL
          THEN \E t \in Threads : InHand(s) = {t} /\ vm[t] = ctx[s]
          ELSE InHand(s) = {}

(***************************************************************************)
(* Whatever is called and freed besides, a call within its grant runs the  *)
(* function the pointer was allocated for, in its VM, and nothing else     *)
(* runs in a VM while any call does, stale or not (vm.cpp:461-469).        *)
(***************************************************************************)
InVm == {"vm", "scan", "claim", "set", "clear", "check"}

PointerRunsItsFunction ==
  \A t \in Threads :
    pc[t] \in InVm =>
      /\ \A u \in Threads : pc[u] \in InVm /\ vm[u] = vm[t] => u = t
      /\ t \notin stale => vm[t] \in alive
      /\ pointer[t] # NULL /\ pc[t] # "check" /\ t \notin stale =>
           granted[pointer[t]] = [vm |-> vm[t], cip |-> fn[t]]

(***************************************************************************)
(* Who stops the machine is at fault.  A dispatch finds no context, no     *)
(* function or a freed context only if its call is stale, or its module    *)
(* asked for entry point 0: the window in which alloc has set the context  *)
(* but not the function is never seen by a call within its grant, nor what *)
(* others do to the slot before and after (vm.cpp:459-463).  And a free is *)
(* refused only if the pointer is not the VM's own (vm.cpp:522).           *)
(***************************************************************************)
StopsForCause ==
  \A t \in Threads :
    /\ vm[t] \notin alive \cup {NULL} => t \in stale
    /\ pc[t] = "stopped" /\ stop = "empty" =>
         \/ t \in stale
         \/ granted[pointer[t]] # NULL /\ granted[pointer[t]].cip = 0
    /\ pc[t] = "stopped" /\ stop = "foreign" => at[t] \notin GrantedTo(vm[t])

(***************************************************************************)
(* callback_alloc returns 0 only if every slot was taken at some moment of *)
(* its scan, whatever other VMs freed and took meanwhile (vm.cpp:502-511). *)
(***************************************************************************)
FullOnlyIfFull ==
  \A t \in Threads : pc[t] = "scan" /\ at[t] \notin Slots => free[t] = {}

(***************************************************************************)
(* The slots implement a table of function pointers: alloc and free take   *)
(* effect at one instant, and a call within its grant runs what the table  *)
(* says.  A stale call enters some VM at some function, as an ioctl does,  *)
(* and entry point 0 is no function.                                       *)
(***************************************************************************)
Entry(s) ==
  IF ctx[s] # NULL /\ cip[s] # 0 THEN [vm |-> ctx[s], cip |-> cip[s]] ELSE NULL
Runs(t) ==
  IF pc[t] \in InVm \ {"check"} THEN [vm |-> vm[t], cip |-> fn[t]] ELSE NULL

Table ==
  INSTANCE AmxCallbackSpec WITH
    Cips <- Cips \ {0},
    table <- [s \in Slots |-> Entry(s)], running <- [t \in Threads |-> Runs(t)]
IsTable == Table!Spec

(***************************************************************************)
(* What public.h:108 says of the post-call callback, "gets called after a  *)
(* VM function is executed": when no function runs in a VM, clients have   *)
(* heard the end of every function they heard the beginning of.            *)
(***************************************************************************)
PostcallFollows == \A v \in open : mutex[v] # NULL
=============================================================================
