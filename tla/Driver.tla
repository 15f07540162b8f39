------------------------------- MODULE Driver -------------------------------
(***************************************************************************)
(* The device side of PawnIO: DriverEntry / driver_unload, the IRP         *)
(* dispatcher dispatch_irp (driver.cpp) and the virtual machine life cycle *)
(* it drives, vm_load_binary, vm_execute_function and vm_destroy (vm.cpp). *)
(*                                                                         *)
(* Every IRP is served by a thread, and the threads interleave at each     *)
(* point where the code touches state another thread can reach: the        *)
(* FsContext of a file object, the fast mutex of a context, the kernel     *)
(* pool, and the vm_callback_* notifications other drivers listen to.      *)
(***************************************************************************)
EXTENDS Naturals, FiniteSets

CONSTANTS
  Threads,      \* threads that carry IRPs
  Files,        \* file objects opened on \Device\PawnIO
  Ctxs,         \* addresses a `context` can be allocated at
  NULL          \* the null pointer / nobody

ASSUME NullAssumption == NULL \notin Ctxs \cup Threads \cup Files

Lists   == {"created", "precall", "postcall", "destroyed"}
Blocks  == {"copy", "context", "image"}       \* pool blocks of one VM
Buffers == {"data", "in", "out"}              \* buffers mapped in the VM
Publics == {"main", "ioctl", "unload"}        \* entry points of a module
Statuses == {"success", "already_initialized", "invalid_parameter",
             "not_implemented", "object_name_not_found", "no_memory",
             "bad_signature", "unsuccessful", "refused"}

(***************************************************************************)
(* Where a thread stands.  A label names the step the thread takes next.   *)
(***************************************************************************)
LoadLabels == {"parse", "alloc_copy", "alloc_context", "load_image",
               "created", "cas"}
HeldLabels == {"map_in", "map_out", "precall", "run", "postcall",
               "unmap_out", "unmap_in", "release"}   \* mutex held
DestroyLabels == {"destroyed", "free"}
Labels == {"idle", "lock", "complete"} \cup LoadLabels \cup HeldLabels
            \cup DestroyLabels

VARIABLES
  driver,       \* "absent", "starting", "unwinding" or "running"
  lists,        \* the callback lists that are initialised
  file,         \* file object: "none", "open" or "closing"
  fsctx,        \* FileObject->FsContext
  pool,         \* the live pool blocks of each context
  exports,      \* entry points of the module loaded in a context
  mutex,        \* holder of context::mutex
  mapped,       \* buffers mapped in the data memory of a context
  told,         \* what vm callback clients make of their notifications
  booted,       \* history: contexts whose main, if any, returned success
  pointed,      \* addresses of contexts that callback slots may hold
  pc, irp, obj, \* per thread: label, kind of IRP, file object
  ctx, fn,      \* per thread: context at hand, entry point being called
  status        \* per thread: status the IRP will be completed with

driverVars == <<driver, lists>>
fileVars   == <<file, fsctx>>
vmVars     == <<pool, exports, mutex, mapped, told, booted, pointed>>
threadVars == <<pc, irp, obj, ctx, fn, status>>
vars       == <<driver, lists, file, fsctx, pool, exports, mutex, mapped,
                told, booted, pointed, pc, irp, obj, ctx, fn, status>>

(***************************************************************************)
(* The type invariant: every variable stays in the domain declared for it. *)
(***************************************************************************)
TypeOK ==
  /\ driver \in {"absent", "starting", "unwinding", "running"}
  /\ lists \in SUBSET Lists
  /\ file \in [Files -> {"none", "open", "closing"}]
  /\ fsctx \in [Files -> Ctxs \cup {NULL}]
  /\ pool \in [Ctxs -> SUBSET Blocks]
  /\ exports \in [Ctxs -> SUBSET Publics]
  /\ mutex \in [Ctxs -> Threads \cup {NULL}]
  /\ mapped \in [Ctxs -> SUBSET Buffers]
  /\ told \in [Ctxs -> {"gone", "missed", "alive", "silent", "in_call",
                        "confused"}]
  /\ booted \in SUBSET Ctxs
  /\ pointed \in SUBSET Ctxs
  /\ pc \in [Threads -> Labels]
  /\ irp \in [Threads -> {"none", "load", "execute", "other", "close"}]
  /\ obj \in [Threads -> Files \cup {NULL}]
  /\ ctx \in [Threads -> Ctxs \cup {NULL}]
  /\ fn \in [Threads -> Publics]
  /\ status \in [Threads -> Statuses]

Init ==
  /\ driver = "absent"
  /\ lists = {}
  /\ file = [f \in Files |-> "none"]
  /\ fsctx = [f \in Files |-> NULL]
  /\ pool = [v \in Ctxs |-> {}]
  /\ exports = [v \in Ctxs |-> {}]
  /\ mutex = [v \in Ctxs |-> NULL]
  /\ mapped = [v \in Ctxs |-> {}]
  /\ told = [v \in Ctxs |-> "gone"]
  /\ booted = {}
  /\ pointed = {}
  /\ pc = [t \in Threads |-> "idle"]
  /\ irp = [t \in Threads |-> "none"]
  /\ obj = [t \in Threads |-> NULL]
  /\ ctx = [t \in Threads |-> NULL]
  /\ fn = [t \in Threads |-> "main"]
  /\ status = [t \in Threads |-> "success"]

-----------------------------------------------------------------------------
(***************************************************************************)
(* Start and stop of the driver.  vm_callback_init initialises the four    *)
(* lists in order; a failure destroys the ones before it, last one first.  *)
(***************************************************************************)
DriverEntry ==
  /\ driver = "absent"
  /\ driver' = "starting"
  /\ UNCHANGED <<lists, fileVars, vmVars, threadVars>>

NextList ==
  CASE lists = {} -> "created"
    [] lists = {"created"} -> "precall"
    [] lists = {"created", "precall"} -> "postcall"
    [] OTHER -> "destroyed"

vm_callback_init ==
  /\ driver = "starting"
  /\ lists # Lists
  /\ \/ /\ lists' = lists \cup {NextList}
        /\ driver' = driver
     \/ /\ driver' = "unwinding"
        /\ lists' = lists
  /\ UNCHANGED <<fileVars, vmVars, threadVars>>

LastList ==
  CASE "postcall" \in lists -> "postcall"
    [] "precall" \in lists -> "precall"
    [] OTHER -> "created"

vm_callback_unwind ==
  /\ driver = "unwinding"
  /\ IF lists = {}
       THEN driver' = "absent" /\ lists' = lists
       ELSE lists' = lists \ {LastList} /\ driver' = driver
  /\ UNCHANGED <<fileVars, vmVars, threadVars>>

MutantForgetLists == lists
vm_callback_destroy == {}     \* the lists left initialised

CreateDevice ==
  /\ driver = "starting"
  /\ lists = Lists
  /\ \/ driver' = "running" /\ lists' = lists
     \/ driver' = "absent" /\ lists' = vm_callback_destroy
  /\ UNCHANGED <<fileVars, vmVars, threadVars>>

(***************************************************************************)
(* The I/O manager unloads a driver once no file object refers to it.      *)
(***************************************************************************)
driver_unload ==
  /\ driver = "running"
  /\ \A f \in Files : file[f] = "none"
  /\ \A t \in Threads : pc[t] = "idle"
  /\ driver' = "absent"
  /\ lists' = vm_callback_destroy
  /\ UNCHANGED <<fileVars, vmVars, threadVars>>

-----------------------------------------------------------------------------
(***************************************************************************)
(* dispatch_irp.  An IRP reaches an idle thread; `Begin` records what the  *)
(* dispatcher decides before it first touches state shared with others.    *)
(***************************************************************************)
Goto(t, label) == pc' = [pc EXCEPT ![t] = label]
SetStatus(t, s) == status' = [status EXCEPT ![t] = s]

Begin(t, f, kind, v, label, s) ==
  /\ pc[t] = "idle"
  /\ Goto(t, label)
  /\ irp' = [irp EXCEPT ![t] = kind]
  /\ obj' = [obj EXCEPT ![t] = f]
  /\ ctx' = [ctx EXCEPT ![t] = v]
  /\ SetStatus(t, s)

IrpCreate(f) ==
  /\ driver = "running"
  /\ file[f] = "none"
  /\ file' = [file EXCEPT ![f] = "open"]
  /\ UNCHANGED <<driverVars, fsctx, vmVars, threadVars>>

IrpLoad(t, f) ==
  /\ file[f] = "open"
  /\ IF fsctx[f] # NULL
       THEN Begin(t, f, "load", NULL, "complete", "already_initialized")
       ELSE Begin(t, f, "load", NULL, "parse", "success")
  /\ UNCHANGED <<driverVars, fileVars, vmVars, fn>>

(***************************************************************************)
(* A short or badly named request is refused before the context is used;   *)
(* get_public reads the loader, which never changes once it is published.  *)
(***************************************************************************)
IrpExecute(t, f) ==
  /\ file[f] = "open"
  /\ \/ /\ Begin(t, f, "execute", NULL, "complete", "invalid_parameter")
        /\ fn' = fn
     \/ /\ fsctx[f] # NULL
        /\ "ioctl" \notin exports[fsctx[f]]
        /\ Begin(t, f, "execute", NULL, "complete", "object_name_not_found")
        /\ fn' = fn
     \/ /\ fsctx[f] # NULL
        /\ "ioctl" \in exports[fsctx[f]]
        /\ Begin(t, f, "execute", fsctx[f], "lock", "success")
        /\ fn' = [fn EXCEPT ![t] = "ioctl"]
  /\ UNCHANGED <<driverVars, fileVars, vmVars>>

IrpOther(t, f) ==
  /\ file[f] = "open"
  /\ \E s \in {"success", "invalid_parameter", "not_implemented"} :
        Begin(t, f, "other", NULL, "complete", s)
  /\ UNCHANGED <<driverVars, fileVars, vmVars, fn>>

MutantDestroyEntry(v) == IF "unload" \in exports[v] THEN "lock" ELSE "free"
DestroyEntry(v) == IF "unload" \in exports[v] THEN "lock" ELSE "destroyed"

CloseEntry(v) == IF v = NULL THEN "complete" ELSE DestroyEntry(v)

(***************************************************************************)
(* The I/O manager sends IRP_MJ_CLOSE when the last reference to the file  *)
(* object is gone: no other IRP on it is in flight and none will follow.   *)
(***************************************************************************)
IrpClose(t, f) ==
  /\ file[f] = "open"
  /\ \A u \in Threads : obj[u] # f
  /\ Begin(t, f, "close", fsctx[f], CloseEntry(fsctx[f]), "success")
  /\ fn' = [fn EXCEPT ![t] = "unload"]
  /\ file' = [file EXCEPT ![f] = "closing"]
  /\ UNCHANGED <<driverVars, fsctx, vmVars>>

IoCompleteRequest(t) ==
  /\ pc[t] = "complete"
  /\ Goto(t, "idle")
  /\ irp' = [irp EXCEPT ![t] = "none"]
  /\ obj' = [obj EXCEPT ![t] = NULL]
  /\ ctx' = [ctx EXCEPT ![t] = NULL]
  /\ fn' = [fn EXCEPT ![t] = "main"]
  /\ SetStatus(t, "success")
  /\ IF irp[t] = "close"
       THEN /\ file' = [file EXCEPT ![obj[t]] = "none"]
            /\ fsctx' = [fsctx EXCEPT ![obj[t]] = NULL]
       ELSE UNCHANGED fileVars
  /\ UNCHANGED <<driverVars, vmVars>>

-----------------------------------------------------------------------------
(***************************************************************************)
(* What a client that registered all four callbacks makes of what it hears *)
(* about the context at an address, which may be reused.  When a client    *)
(* vetoes, those before it in the list have heard the notification and     *)
(* those after it have not: the monitored client may be either, and hears  *)
(* of a created VM ("alive"), misses it, or hears the pre-call of a call   *)
(* that stays blocked, after which there is silence.  So there is after    *)
(* the pre-call of a call by a pointer, which may even come when it knows  *)
(* of no context.  What makes no sense leaves the client "confused".       *)
(***************************************************************************)
Known == {"alive", "silent"}

Hear(told0, event) ==
  CASE event = "created" /\ told0 = "gone" -> "alive"
    [] event = "missed" /\ told0 = "gone" -> "missed"
    [] event = "precall" /\ told0 \in Known -> "in_call"
    [] event \in {"blocked", "pointer"} /\ told0 \in Known -> "silent"
    [] event = "pointer" /\ told0 \in {"gone", "missed"} -> told0
    [] event = "postcall" /\ told0 = "in_call" -> "alive"
    [] event = "destroyed" /\ told0 \in Known \cup {"missed"} -> "gone"
    [] OTHER -> "confused"

Notify(v, event) == told' = [told EXCEPT ![v] = Hear(told[v], event)]

(***************************************************************************)
(* vm_load_binary_internal: length and signature checks, then the copy of  *)
(* the module, the context, and the image built by the loader.             *)
(***************************************************************************)
Parse(t) ==
  /\ pc[t] = "parse"
  /\ \/ Goto(t, "alloc_copy") /\ status' = status
     \/ /\ Goto(t, "complete")
        /\ \E s \in {"invalid_parameter", "bad_signature"} : SetStatus(t, s)
  /\ UNCHANGED <<driverVars, fileVars, vmVars, irp, obj, ctx, fn>>

OutOfMemory(t) == Goto(t, "complete") /\ SetStatus(t, "no_memory")

AllocCopy(t) ==
  /\ pc[t] = "alloc_copy"
  /\ \/ \E v \in Ctxs :
          /\ pool[v] = {}
          /\ pool' = [pool EXCEPT ![v] = {"copy"}]
          /\ ctx' = [ctx EXCEPT ![t] = v]
          /\ Goto(t, "alloc_context")
          /\ status' = status
     \/ OutOfMemory(t) /\ UNCHANGED <<pool, ctx>>
  /\ UNCHANGED <<driverVars, fileVars, exports, mutex, mapped, told, booted,
                 pointed, irp, obj, fn>>

MutantKeptOnOom(v) == {"copy"}
KeptOnOom(v) == {}

AllocContext(t) ==
  /\ pc[t] = "alloc_context"
  /\ \/ /\ pool' = [pool EXCEPT ![ctx[t]] = @ \cup {"context"}]
        /\ Goto(t, "load_image")
        /\ UNCHANGED <<ctx, status>>
     \/ /\ pool' = [pool EXCEPT ![ctx[t]] = KeptOnOom(ctx[t])]
        /\ ctx' = [ctx EXCEPT ![t] = NULL]
        /\ OutOfMemory(t)
  /\ UNCHANGED <<driverVars, fileVars, exports, mutex, mapped, told, booted,
                 pointed, irp, obj, fn>>

LoadImage(t) ==
  LET v == ctx[t] IN
  /\ pc[t] = "load_image"
  /\ \/ /\ pool' = [pool EXCEPT ![v] = @ \cup {"image"}]
        /\ \E e \in SUBSET Publics : exports' = [exports EXCEPT ![v] = e]
        /\ mapped' = [mapped EXCEPT ![v] = {"data"}]
        /\ Goto(t, "created")
        /\ UNCHANGED <<ctx, status>>
     \/ /\ pool' = [pool EXCEPT ![v] = {}]
        /\ ctx' = [ctx EXCEPT ![t] = NULL]
        /\ Goto(t, "complete")
        /\ SetStatus(t, "unsuccessful")
        /\ UNCHANGED <<exports, mapped>>
  /\ UNCHANGED <<driverVars, fileVars, mutex, told, booted, pointed, irp,
                 obj, fn>>

(***************************************************************************)
(* vm_callback_created runs under the mutex of a context nobody else can   *)
(* reach yet.  A client may veto; otherwise main runs, if there is one.    *)
(***************************************************************************)
Created(t) ==
  LET v == ctx[t] IN
  /\ pc[t] = "created"
  /\ mutex[v] = NULL
  /\ \/ /\ "main" \in exports[v]
        /\ Notify(v, "created")
        /\ Goto(t, "lock")
        /\ fn' = [fn EXCEPT ![t] = "main"]
        /\ UNCHANGED <<status, booted>>
     \/ /\ "main" \notin exports[v]
        /\ Notify(v, "created")
        /\ Goto(t, "cas")
        /\ booted' = booted \cup {v}
        /\ UNCHANGED <<status, fn>>
     \/ /\ Notify(v, "created") \/ Notify(v, "missed")
        /\ Goto(t, "destroyed")
        /\ SetStatus(t, "refused")
        /\ UNCHANGED <<booted, fn>>
  /\ UNCHANGED <<driverVars, fileVars, pool, exports, mutex, mapped, pointed,
                 irp, obj, ctx>>

(***************************************************************************)
(* The winner of the interlocked exchange gives its context to the file    *)
(* object; a loser destroys its own, running its unload entry point.       *)
(***************************************************************************)
MutantWins(t) == TRUE
Wins(t) == fsctx[obj[t]] = NULL

MutantLoser(t) == fsctx[obj[t]]
Loser(t) == ctx[t]

Cas(t) ==
  /\ pc[t] = "cas"
  /\ IF Wins(t)
       THEN /\ fsctx' = [fsctx EXCEPT ![obj[t]] = ctx[t]]
            /\ ctx' = [ctx EXCEPT ![t] = NULL]
            /\ Goto(t, "complete")
            /\ UNCHANGED <<status, fn>>
       ELSE /\ Goto(t, DestroyEntry(Loser(t)))
            /\ ctx' = [ctx EXCEPT ![t] = Loser(t)]
            /\ fn' = [fn EXCEPT ![t] = "unload"]
            /\ SetStatus(t, "unsuccessful")
            /\ UNCHANGED fsctx
  /\ UNCHANGED <<driverVars, file, vmVars, irp, obj>>

-----------------------------------------------------------------------------
(***************************************************************************)
(* A call of main, of an ioctl_ function or of unload: the same steps      *)
(* under the mutex, with the two buffers of an ioctl mapped around them.   *)
(***************************************************************************)
Lockable(t) == mutex[ctx[t]] = NULL

Lock(t) ==
  /\ pc[t] = "lock"
  /\ Lockable(t)
  /\ mutex' = [mutex EXCEPT ![ctx[t]] = t]
  /\ Goto(t, IF fn[t] = "ioctl" THEN "map_in" ELSE "precall")
  /\ UNCHANGED <<driverVars, fileVars, pool, exports, mapped, told, booted,
                 pointed, irp, obj, ctx, fn, status>>

(***************************************************************************)
(* `map` takes one more entry of the VM's table of buffers, or fails.      *)
(***************************************************************************)
Map(t, label, buffer, next, undo) ==
  /\ pc[t] = label
  /\ \/ /\ mapped' = [mapped EXCEPT ![ctx[t]] = @ \cup {buffer}]
        /\ Goto(t, next)
        /\ status' = status
     \/ /\ Goto(t, undo)
        /\ SetStatus(t, "unsuccessful")
        /\ mapped' = mapped
  /\ UNCHANGED <<driverVars, fileVars, pool, exports, mutex, told, booted,
                 pointed, irp, obj, ctx, fn>>

MutantMapOut(t) == Map(t, "map_out", "out", "precall", "release")
MapIn(t)  == Map(t, "map_in", "in", "map_out", "release")
MapOut(t) == Map(t, "map_out", "out", "precall", "unmap_in")

AfterCall(t) == IF fn[t] = "ioctl" THEN "unmap_out" ELSE "release"

(***************************************************************************)
(* vm_destroy keeps the status of its pre-call and of unload to itself.    *)
(***************************************************************************)
KeepStatus(t, s) == IF fn[t] = "unload" THEN status' = status
                                        ELSE SetStatus(t, s)

Precall(t) ==
  /\ pc[t] = "precall"
  /\ \/ /\ Notify(ctx[t], "precall")
        /\ Goto(t, "run")
        /\ status' = status
     \/ /\ Goto(t, AfterCall(t))
        /\ told' = told \/ Notify(ctx[t], "blocked")
        /\ KeepStatus(t, "refused")
  /\ UNCHANGED <<driverVars, fileVars, pool, exports, mutex, mapped, booted,
                 pointed, irp, obj, ctx, fn>>

(***************************************************************************)
(* amx.call: the function returns success, an NTSTATUS of its own, or the  *)
(* interpreter stops it.  It may have allocated callback pointers, and may *)
(* leave them behind.                                                      *)
(***************************************************************************)
Run(t) ==
  /\ pc[t] = "run"
  /\ Goto(t, "postcall")
  /\ \E s \in {"success", "refused", "unsuccessful"} : KeepStatus(t, s)
  /\ pointed' = pointed \cup {ctx[t]}
  /\ UNCHANGED <<driverVars, fileVars, pool, exports, mutex, mapped, told,
                 booted, irp, obj, ctx, fn>>

Postcall(t) ==
  /\ pc[t] = "postcall"
  /\ Notify(ctx[t], "postcall")
  /\ Goto(t, AfterCall(t))
  /\ UNCHANGED <<driverVars, fileVars, pool, exports, mutex, mapped, booted,
                 pointed, irp, obj, ctx, fn, status>>

Unmap(t, label, buffer, next) ==
  /\ pc[t] = label
  /\ mapped' = [mapped EXCEPT ![ctx[t]] = @ \ {buffer}]
  /\ Goto(t, next)
  /\ UNCHANGED <<driverVars, fileVars, pool, exports, mutex, told, booted,
                 pointed, irp, obj, ctx, fn, status>>

UnmapOut(t) == Unmap(t, "unmap_out", "out", "unmap_in")
UnmapIn(t)  == Unmap(t, "unmap_in", "in", "release")

MutantUnlocked(t) == IF status[t] = "success" THEN NULL ELSE t
Unlocked(t) == NULL

MutantAccepted(t) == TRUE
Accepted(t) == status[t] = "success"

AfterRelease(t) ==
  CASE fn[t] = "ioctl" -> "complete"
    [] fn[t] = "main" /\ Accepted(t) -> "cas"
    [] OTHER -> "destroyed"

Release(t) ==
  LET v == ctx[t] IN
  /\ pc[t] = "release"
  /\ mutex' = [mutex EXCEPT ![v] = Unlocked(t)]
  /\ Goto(t, AfterRelease(t))
  /\ ctx' = [ctx EXCEPT ![t] = IF fn[t] = "ioctl" THEN NULL ELSE v]
  /\ booted' = IF fn[t] = "main" /\ status[t] = "success"
                  THEN booted \cup {v} ELSE booted
  /\ UNCHANGED <<driverVars, fileVars, pool, exports, mapped, told, pointed,
                 irp, obj, fn, status>>

(***************************************************************************)
(* vm_callback_destroyed under the mutex, then vm_destroy_internal.        *)
(***************************************************************************)
Destroyed(t) ==
  /\ pc[t] = "destroyed"
  /\ mutex[ctx[t]] = NULL
  /\ Notify(ctx[t], "destroyed")
  /\ Goto(t, "free")
  /\ UNCHANGED <<driverVars, fileVars, pool, exports, mutex, mapped, booted,
                 pointed, irp, obj, ctx, fn, status>>

Free(t) ==
  LET v == ctx[t] IN
  /\ pc[t] = "free"
  /\ pool' = [pool EXCEPT ![v] = {}]
  /\ exports' = [exports EXCEPT ![v] = {}]
  /\ mapped' = [mapped EXCEPT ![v] = {}]
  /\ booted' = booted \ {v}
  /\ ctx' = [ctx EXCEPT ![t] = NULL]
  /\ Goto(t, "complete")
  /\ UNCHANGED <<driverVars, fileVars, mutex, told, pointed, irp, obj, fn,
                 status>>

-----------------------------------------------------------------------------
(***************************************************************************)
(* to_amx_callback_dispatch: the kernel calls a pointer, on a thread of    *)
(* its own, and a function runs in the VM of the slot under its mutex.     *)
(* Free leaves slots alone, so this may be a later VM at the same address. *)
(* All it shares with IRPs happens under the mutex, and is one step here;  *)
(* vetoes, failures and calls that find freed memory stop the machine and  *)
(* are left to AmxCallbacks.                                               *)
(***************************************************************************)
MutantDispatchable(v) == TRUE
Dispatchable(v) == mutex[v] = NULL

to_amx_callback_dispatch(v) ==
  /\ v \in pointed
  /\ "image" \in pool[v]
  /\ Dispatchable(v)
  /\ Notify(v, "pointer")
  /\ UNCHANGED <<driverVars, fileVars, pool, exports, mutex, mapped, booted,
                 pointed, threadVars>>

-----------------------------------------------------------------------------
vm_load_binary(t) == Parse(t) \/ AllocCopy(t) \/ AllocContext(t)
                       \/ LoadImage(t) \/ Created(t) \/ Cas(t)
Call(t) == Lock(t) \/ MapIn(t) \/ MapOut(t) \/ Precall(t) \/ Run(t)
             \/ Postcall(t) \/ UnmapOut(t) \/ UnmapIn(t) \/ Release(t)
vm_destroy(t) == Destroyed(t) \/ Free(t)

\* The steps a thread takes by itself once it carries an IRP.
Step(t) == vm_load_binary(t) \/ Call(t) \/ vm_destroy(t)
             \/ IoCompleteRequest(t)

\* What the I/O manager starts.
Arrival == \E f \in Files :
             \/ IrpCreate(f)
             \/ \E t \in Threads : \/ IrpLoad(t, f)
                                   \/ IrpExecute(t, f)
                                   \/ IrpOther(t, f)
                                   \/ IrpClose(t, f)

StartStop == DriverEntry \/ vm_callback_init \/ vm_callback_unwind
               \/ CreateDevice \/ driver_unload

Next ==
  \/ StartStop \/ Arrival
  \/ \E t \in Threads : Step(t)
  \/ \E v \in Ctxs : to_amx_callback_dispatch(v)

Spec == Init /\ [][Next]_vars

(***************************************************************************)
(* The scheduler runs every thread that can run, and a fast mutex that is  *)
(* released over and over is handed to each thread waiting for it.  That   *)
(* Run takes a step at all is the modules' obligation: amx.call has no     *)
(* limit of its own.                                                       *)
(***************************************************************************)
Fairness == \A t \in Threads : WF_vars(Step(t)) /\ SF_vars(Lock(t))

FairSpec == Spec /\ Fairness
-----------------------------------------------------------------------------
(***************************************************************************)
(* A thread never touches a pool block of a VM that has been freed: the    *)
(* blocks each label works on are allocated.  dispatch_irp holds no        *)
(* reference count; it leans on the order of vm_load_binary's and          *)
(* vm_destroy's steps and on one owner per context.                        *)
(***************************************************************************)
Needs(t) ==
  CASE pc[t] \in {"idle", "complete", "parse", "alloc_copy"} -> {}
    [] pc[t] = "alloc_context" -> {"copy"}
    [] pc[t] = "load_image" -> {"copy", "context"}
    [] OTHER -> Blocks

NoUseAfterFree ==
  \A t \in Threads : \A b \in Needs(t) : b \in pool[ctx[t]]

(***************************************************************************)
(* No pool block is lost or owned twice: a live block belongs to exactly   *)
(* one loading or closing thread, or to exactly one open file object.      *)
(* Error paths of vm_load_binary and the loser of the exchange included.   *)
(***************************************************************************)
Owners(v) ==
  {t \in Threads : irp[t] \in {"load", "close"} /\ ctx[t] = v}
    \cup {f \in Files : file[f] = "open" /\ fsctx[f] = v}

OneOwner ==
  \A v \in Ctxs : pool[v] # {} => \E o \in Owners(v) : Owners(v) = {o}

(***************************************************************************)
(* What a client of the four callbacks hears about a context is in order,  *)
(* also when loads race and addresses are used again.  Created comes first *)
(* (unless another client's veto kept the client from hearing it) and      *)
(* destroyed last, once.  The functions that IRPs run are announced only   *)
(* in between, and every post-call ends the pre-call just before it.  The  *)
(* pre-calls that stay open are those of vetoed calls and of calls by      *)
(* pointers; only the latter also come outside created and destroyed.      *)
(***************************************************************************)
ClientProtocol == \A v \in Ctxs : told[v] # "confused"

(***************************************************************************)
(* A client is told of the end of a context before the context is freed,   *)
(* and never believes in a context that is not there.                      *)
(***************************************************************************)
NoGhostContext ==
  \A v \in Ctxs : told[v] # "gone" => "context" \in pool[v]

(***************************************************************************)
(* Both together: what clients of the four lists may rely on.  (That every *)
(* function has its post-call is not so: AmxCallbacks, PostcallFollows.)   *)
(***************************************************************************)
ClientsInformed == ClientProtocol /\ NoGhostContext

(***************************************************************************)
(* Whoever takes the mutex of a published context finds only the module's  *)
(* own data mapped: vm_execute_function unmaps its buffers on every path.  *)
(***************************************************************************)
MapsBalanced ==
  \A f \in Files :
    fsctx[f] # NULL /\ file[f] = "open" /\ mutex[fsctx[f]] = NULL
      => mapped[fsctx[f]] = {"data"}

(***************************************************************************)
(* An ioctl_ function runs only in a VM whose creation no client vetoed    *)
(* and whose main returned success, and never beside another call.         *)
(***************************************************************************)
Inside(t) == pc[t] \in {"run", "postcall"}

IoctlsAreAdmitted ==
  \A t \in Threads : Inside(t) /\ fn[t] = "ioctl" =>
    /\ ctx[t] \in booted
    /\ told[ctx[t]] = "in_call"
    /\ mapped[ctx[t]] = Buffers
    /\ \A u \in Threads \ {t} : Inside(u) => ctx[u] # ctx[t]

(***************************************************************************)
(* Two loads on one file object never both report success, and the one     *)
(* that does has installed its VM.                                         *)
(***************************************************************************)
LoadedOk(t) == irp[t] = "load" /\ pc[t] = "complete" /\ status[t] = "success"

OneLoadWins ==
  \A t \in Threads : LoadedOk(t) =>
    /\ fsctx[obj[t]] # NULL
    /\ \A u \in Threads \ {t} : LoadedOk(u) => obj[u] # obj[t]

(***************************************************************************)
(* Once the FsContext of a file object is set it stays, until the file     *)
(* object itself is gone: dispatch_irp may test it and read it again.      *)
(***************************************************************************)
FsContextSticky ==
  [][\A f \in Files : fsctx[f] # NULL /\ fsctx'[f] # fsctx[f]
                         => file[f] = "closing" /\ file'[f] = "none"]_vars

(***************************************************************************)
(* A driver that is not running keeps no pool memory and, once absent, no  *)
(* initialised list; while it runs every list is there to be notified.     *)
(***************************************************************************)
NothingOutlivesDriver ==
  /\ driver = "running" => lists = Lists
  /\ driver # "running" => \A v \in Ctxs : pool[v] = {}
  /\ driver = "absent" => lists = {}

(***************************************************************************)
(* Every IRP handed to dispatch_irp is eventually completed.               *)
(***************************************************************************)
IrpCompletes == \A t \in Threads : pc[t] # "idle" ~> pc[t] = "idle"
=============================================================================
