---------------------------- MODULE DriverProofs ----------------------------
(***************************************************************************)
(* Proofs that the properties of Driver hold for any number of threads,    *)
(* file objects and contexts.                                              *)
(***************************************************************************)
EXTENDS Driver, TLAPS

(***************************************************************************)
(* The inductive invariant, in parts.  First: which label goes with which  *)
(* kind of IRP, file object, context and entry point.                      *)
(***************************************************************************)
CallLabels == {"lock"} \cup HeldLabels

Shape(t) ==
  /\ irp[t] = "none" <=> pc[t] = "idle"
  /\ irp[t] = "none" <=> obj[t] = NULL
  /\ ctx[t] = NULL <=> pc[t] \in {"idle", "parse", "alloc_copy", "complete"}
  /\ pc[t] \in LoadLabels => irp[t] = "load"
  /\ pc[t] \in DestroyLabels => irp[t] \in {"load", "close"}
  /\ pc[t] \in {"map_in", "map_out", "unmap_out", "unmap_in"}
       => fn[t] = "ioctl"
  /\ pc[t] \in CallLabels =>
       \/ irp[t] = "execute" /\ fn[t] = "ioctl"
       \/ irp[t] = "close" /\ fn[t] = "unload"
       \/ irp[t] = "load" /\ fn[t] \in {"main", "unload"}

ShapeInv == \A t \in Threads : Shape(t)

\* An IRP keeps its file object; a close has it alone.
FileInv ==
  /\ \A t \in Threads : irp[t] \in {"load", "execute", "other"}
       => file[obj[t]] = "open"
  /\ \A t \in Threads : irp[t] = "close" => file[obj[t]] = "closing"
  /\ \A t, u \in Threads : irp[t] = "close" /\ u # t => obj[u] # obj[t]
  /\ \A f \in Files : file[f] = "none" => fsctx[f] = NULL
  /\ driver # "running" => /\ \A f \in Files : file[f] = "none"
                           /\ \A t \in Threads : pc[t] = "idle"
  /\ driver = "running" => lists = Lists
  /\ driver = "absent" => lists = {}

\* A context has one owner: a thread loading or closing, or an open file.
Owns(t, v)  == irp[t] \in {"load", "close"} /\ ctx[t] = v
Holds(f, v) == file[f] = "open" /\ fsctx[f] = v

OneThread == \A v \in Ctxs : \A t, u \in Threads :
               Owns(t, v) /\ Owns(u, v) => t = u
ThreadOrFile == \A v \in Ctxs : \A t \in Threads : \A f \in Files :
                  ~(Owns(t, v) /\ Holds(f, v))
OneFile == \A v \in Ctxs : \A f, g \in Files :
             Holds(f, v) /\ Holds(g, v) => f = g
ExecutesOwn == \A t \in Threads : irp[t] = "execute" /\ ctx[t] # NULL
                 => fsctx[obj[t]] = ctx[t]

OwnerInv == OneThread /\ ThreadOrFile /\ OneFile /\ ExecutesOwn

\* Blocks are there for as long as somebody needs them, and no longer.
ThreadBlocks ==
  \A t \in Threads : ctx[t] # NULL =>
    /\ "copy" \in pool[ctx[t]]
    /\ pc[t] # "alloc_context" => "context" \in pool[ctx[t]]
    /\ pc[t] \notin {"alloc_context", "load_image"}
         => "image" \in pool[ctx[t]]
FileBlocks == \A f \in Files : \A v \in Ctxs : Holds(f, v) =>
                "copy" \in pool[v] /\ "context" \in pool[v]
                  /\ "image" \in pool[v]
BlockOwned == \A v \in Ctxs : \A b \in pool[v] :
                \/ \E t \in Threads : Owns(t, v)
                \/ \E f \in Files : Holds(f, v)

PoolInv == ThreadBlocks /\ FileBlocks /\ BlockOwned

\* The mutex of a context is held by the thread inside it.
LockInv ==
  /\ \A t \in Threads : pc[t] \in HeldLabels => mutex[ctx[t]] = t
  /\ \A v \in Ctxs : \A t \in Threads : mutex[v] = t
       => pc[t] \in HeldLabels /\ ctx[t] = v

\* What clients believe, against what the threads are doing.
CallHasThread == \A v \in Ctxs : told[v] = "in_call"
                   => \E t \in Threads : Inside(t) /\ ctx[t] = v
ThreadInCall == \A t \in Threads : Inside(t) => told[ctx[t]] = "in_call"
NotYetTold == \A t \in Threads :
                pc[t] \in {"alloc_context", "load_image", "created", "free"}
                  => told[ctx[t]] = "gone"
ToldAlive == \A t \in Threads :
               pc[t] \in CallLabels \cup {"cas", "destroyed"}
                 => told[ctx[t]] # "gone"
ToldKnown == \A t \in Threads :
               pc[t] \in CallLabels \cup {"cas"} => told[ctx[t]] # "missed"
ToldOfFile == \A f \in Files : \A v \in Ctxs : Holds(f, v)
                => told[v] \notin {"gone", "missed"}

ToldInv == ClientProtocol /\ CallHasThread /\ ThreadInCall /\ NotYetTold
             /\ ToldAlive /\ ToldKnown /\ ToldOfFile /\ NoGhostContext

\* What is mapped at each point of a call.
InMapped(t)  == /\ fn[t] = "ioctl"
                /\ pc[t] \notin {"map_in", "release"}
OutMapped(t) == /\ fn[t] = "ioctl"
                /\ pc[t] \in {"precall", "run", "postcall", "unmap_out"}

HeldMaps == \A t \in Threads : pc[t] \in HeldLabels =>
              /\ "in" \in mapped[ctx[t]] <=> InMapped(t)
              /\ "out" \in mapped[ctx[t]] <=> OutMapped(t)
FreeMaps == \A v \in Ctxs : "image" \in pool[v] =>
              /\ "data" \in mapped[v]
              /\ mutex[v] = NULL => "in" \notin mapped[v]
                                      /\ "out" \notin mapped[v]

MapInv == HeldMaps /\ FreeMaps

\* Only a module that started is published, and a success says so.
BootedAtCas  == \A t \in Threads : pc[t] = "cas" => ctx[t] \in booted
BootedOfFile == \A f \in Files : \A v \in Ctxs : Holds(f, v) => v \in booted
FailedLoads  == \A t \in Threads :
                  /\ irp[t] = "load"
                  /\ \/ pc[t] \in DestroyLabels
                     \/ pc[t] \in CallLabels /\ fn[t] = "unload"
                  => status[t] # "success"
LoadInstalled == \A t \in Threads : LoadedOk(t) => fsctx[obj[t]] # NULL
LoadsDiffer   == \A t, u \in Threads : LoadedOk(t) /\ LoadedOk(u) /\ t # u
                   => obj[t] # obj[u]

AnswerInv == BootedAtCas /\ BootedOfFile /\ FailedLoads /\ LoadInstalled
               /\ LoadsDiffer

IInv == /\ TypeOK
        /\ ShapeInv
        /\ FileInv
        /\ OwnerInv
        /\ PoolInv
        /\ LockInv
        /\ ToldInv
        /\ MapInv
        /\ AnswerInv

USE NullAssumption
USE DEF driverVars, fileVars, vmVars, threadVars, Goto, SetStatus, Known

-----------------------------------------------------------------------------
(***************************************************************************)
(* A thread that loads or closes has its context for itself.               *)
(***************************************************************************)
LEMMA Alone ==
  ASSUME IInv, NEW t \in Threads, NEW u \in Threads, u # t,
         irp[t] \in {"load", "close"}, ctx[t] # NULL
  PROVE  ctx[u] # ctx[t]
<1> USE DEF IInv, TypeOK, ShapeInv, Shape, FileInv, OwnerInv
<1> SUFFICES ASSUME ctx[u] = ctx[t] PROVE FALSE
  OBVIOUS
<1>1. ctx[t] \in Ctxs /\ Owns(t, ctx[t])
  BY DEF Owns
<1>2. CASE irp[u] = "execute"
  <2>1. Holds(obj[u], ctx[t]) /\ obj[u] \in Files
    BY <1>2 DEF ExecutesOwn, Holds
  <2> QED
    BY <1>1, <2>1 DEF ThreadOrFile
<1>3. CASE irp[u] \in {"load", "close"}
  BY <1>1, <1>3 DEF OneThread, Owns
<1>4. irp[u] \in {"execute", "load", "close"}
  BY <1>1, ZenonT(20)
     DEF LoadLabels, DestroyLabels, CallLabels, HeldLabels, Labels
<1> QED
  BY <1>2, <1>3, <1>4

(***************************************************************************)
(* Clients know of a context that is about to be called or destroyed, and  *)
(* know of no call in progress: the mutex keeps the calls apart.           *)
(***************************************************************************)
LEMMA Alive ==
  ASSUME IInv, NEW t \in Threads,
         \/ pc[t] = "precall"
         \/ pc[t] = "destroyed" /\ mutex[ctx[t]] = NULL
  PROVE  /\ told[ctx[t]] \in {"missed", "alive", "silent"}
         /\ pc[t] = "precall" => told[ctx[t]] # "missed"
<1> USE DEF IInv, TypeOK, ShapeInv, Shape, LockInv, ToldInv, HeldLabels
<1>1. ctx[t] \in Ctxs
  OBVIOUS
<1>2. told[ctx[t]] \notin {"gone", "confused"}
  BY <1>1 DEF ToldAlive, ClientProtocol, CallLabels
<1>3. told[ctx[t]] # "in_call"
  <2> SUFFICES ASSUME told[ctx[t]] = "in_call" PROVE FALSE
    OBVIOUS
  <2>1. PICK u \in Threads : Inside(u) /\ ctx[u] = ctx[t]
    BY <1>1 DEF CallHasThread
  <2>2. mutex[ctx[t]] = u
    BY <2>1 DEF Inside
  <2> QED
    BY <2>1, <2>2 DEF Inside
<1> QED
  BY <1>1, <1>2, <1>3 DEF ToldKnown, CallLabels

(***************************************************************************)
(* A call by a pointer changes only what clients have heard, and finds no  *)
(* other call in its VM: it holds the mutex.                               *)
(***************************************************************************)
LEMMA PointerHeard ==
  ASSUME IInv, NEW v \in Ctxs, to_amx_callback_dispatch(v)
  PROVE  /\ UNCHANGED <<driverVars, fileVars, pool, exports, mutex, mapped,
                        booted, pointed, threadVars>>
         /\ told' = [told EXCEPT ![v] = IF told[v] \in Known THEN "silent"
                                                            ELSE told[v]]
         /\ \A w \in Ctxs : \/ told'[w] = told[w]
                            \/ (told[w] \in Known /\ told'[w] = "silent")
<1> USE DEF IInv, TypeOK, ShapeInv, Shape, LockInv, ToldInv, HeldLabels
<1>1. told[v] # "in_call"
  <2> SUFFICES ASSUME told[v] = "in_call" PROVE FALSE
    OBVIOUS
  <2>1. PICK u \in Threads : Inside(u) /\ ctx[u] = v
    BY DEF CallHasThread
  <2>2. mutex[v] = u
    BY <2>1 DEF Inside
  <2> QED
    BY <2>1, <2>2 DEF Inside, to_amx_callback_dispatch, Dispatchable
<1>2. told[v] \in {"gone", "missed", "alive", "silent"}
  BY <1>1 DEF ClientProtocol
<1>3. told' = [told EXCEPT ![v] = Hear(told[v], "pointer")]
  BY DEF to_amx_callback_dispatch, Notify
<1>4. Hear(told[v], "pointer") = IF told[v] \in Known THEN "silent" ELSE told[v]
  BY <1>2 DEF Hear
<1>5. told' = [told EXCEPT ![v] = IF told[v] \in Known THEN "silent"
                                                     ELSE told[v]]
  BY <1>3, <1>4
<1>6. \A w \in Ctxs : \/ told'[w] = told[w]
                    \/ (told[w] \in Known /\ told'[w] = "silent")
  BY <1>5
<1>7. UNCHANGED <<driverVars, fileVars, pool, exports, mutex, mapped, booted,
                  pointed, threadVars>>
  BY DEF to_amx_callback_dispatch
<1> QED
  BY <1>5, <1>6, <1>7

\* Types are preserved by every step of Driver's Next.
LEMMA TypeOKStep == IInv /\ [Next]_vars => TypeOK'
<1> SUFFICES ASSUME IInv, [Next]_vars PROVE TypeOK'
  OBVIOUS
<1> USE DEF IInv, TypeOK, Labels, LoadLabels, HeldLabels, DestroyLabels,
            Blocks, Buffers, Publics, Statuses, ShapeInv, Shape, CallLabels
<1>1. CASE StartStop
  BY <1>1 DEF StartStop, DriverEntry, vm_callback_init, NextList, Lists,
         vm_callback_unwind, LastList, CreateDevice, vm_callback_destroy,
         driver_unload
<1>2. CASE Arrival
  <2>1. ASSUME NEW f \in Files, IrpCreate(f) PROVE TypeOK'
    BY <2>1 DEF IrpCreate
  <2>2. ASSUME NEW f \in Files, NEW t \in Threads, IrpLoad(t, f) PROVE TypeOK'
    BY <2>2 DEF IrpLoad, Begin
  <2>3. ASSUME NEW f \in Files, NEW t \in Threads, IrpExecute(t, f)
        PROVE  TypeOK'
    BY <2>3 DEF IrpExecute, Begin
  <2>4. ASSUME NEW f \in Files, NEW t \in Threads, IrpOther(t, f) PROVE TypeOK'
    BY <2>4 DEF IrpOther, Begin
  <2>5. ASSUME NEW f \in Files, NEW t \in Threads, IrpClose(t, f) PROVE TypeOK'
    BY <2>5 DEF IrpClose, Begin, CloseEntry, DestroyEntry
  <2> QED
    BY <1>2, <2>1, <2>2, <2>3, <2>4, <2>5 DEF Arrival
<1>3. ASSUME NEW t \in Threads, vm_load_binary(t) PROVE TypeOK'
  BY <1>3 DEF vm_load_binary, Parse, AllocCopy, OutOfMemory, AllocContext,
         KeptOnOom, LoadImage, Created, Notify, Hear, Cas, Wins, Loser,
         DestroyEntry
<1>4. ASSUME NEW t \in Threads, Call(t) PROVE TypeOK'
  BY <1>4 DEF Call, Lock, Lockable, MapIn, Map, MapOut, Precall, Notify, Hear,
         AfterCall, KeepStatus, Run, Postcall, UnmapOut, Unmap, UnmapIn,
         Release, AfterRelease, Unlocked, Accepted
<1>5. ASSUME NEW t \in Threads, vm_destroy(t) PROVE TypeOK'
  BY <1>5 DEF vm_destroy, Destroyed, Notify, Hear, Free
<1>6. ASSUME NEW t \in Threads, IoCompleteRequest(t) PROVE TypeOK'
  BY <1>6 DEF IoCompleteRequest
<1>7. CASE UNCHANGED vars
  BY <1>7 DEF vars
<1>8. ASSUME NEW v \in Ctxs, to_amx_callback_dispatch(v)
      PROVE  TypeOK'
  BY <1>8, PointerHeard
<1> QED
  BY <1>1, <1>2, <1>3, <1>4, <1>5, <1>6, <1>7, <1>8 DEF Next, Step

\* Every step of dispatch_irp keeps label, IRP and context together.
LEMMA ShapeInvStep == IInv /\ [Next]_vars => ShapeInv'
<1> SUFFICES ASSUME IInv, [Next]_vars PROVE ShapeInv'
  OBVIOUS
<1> USE DEF IInv, TypeOK, ShapeInv, Shape, CallLabels, Labels, LoadLabels,
            HeldLabels, DestroyLabels
<1>1. CASE StartStop
  BY <1>1 DEF StartStop, DriverEntry, vm_callback_init, NextList, Lists,
         vm_callback_unwind, LastList, CreateDevice, vm_callback_destroy,
         driver_unload
<1>2. CASE Arrival
  <2>1. ASSUME NEW f \in Files, IrpCreate(f) PROVE ShapeInv'
    BY <2>1 DEF IrpCreate
  <2>2. ASSUME NEW f \in Files, NEW t \in Threads, IrpLoad(t, f) PROVE ShapeInv'
    BY <2>2 DEF IrpLoad, Begin
  <2>3. ASSUME NEW f \in Files, NEW t \in Threads, IrpExecute(t, f)
        PROVE  ShapeInv'
    BY <2>3 DEF IrpExecute, Begin
  <2>4. ASSUME NEW f \in Files, NEW t \in Threads, IrpOther(t, f) PROVE ShapeInv'
    BY <2>4 DEF IrpOther, Begin
  <2>5. ASSUME NEW f \in Files, NEW t \in Threads, IrpClose(t, f) PROVE ShapeInv'
    BY <2>5 DEF IrpClose, Begin, CloseEntry, DestroyEntry
  <2> QED
    BY <1>2, <2>1, <2>2, <2>3, <2>4, <2>5 DEF Arrival
<1>3. ASSUME NEW t \in Threads, vm_load_binary(t) PROVE ShapeInv'
  BY <1>3 DEF vm_load_binary, Parse, AllocCopy, OutOfMemory, AllocContext,
         KeptOnOom, LoadImage, Created, Notify, Hear, Cas, Wins, Loser,
         DestroyEntry
<1>4. ASSUME NEW t \in Threads, Call(t) PROVE ShapeInv'
  BY <1>4 DEF Call, Lock, Lockable, MapIn, Map, MapOut, Precall, Notify, Hear,
         AfterCall, KeepStatus, Run, Postcall, UnmapOut, Unmap, UnmapIn,
         Release, AfterRelease, Unlocked, Accepted
<1>5. ASSUME NEW t \in Threads, vm_destroy(t) PROVE ShapeInv'
  BY <1>5 DEF vm_destroy, Destroyed, Notify, Hear, Free
<1>6. ASSUME NEW t \in Threads, IoCompleteRequest(t) PROVE ShapeInv'
  BY <1>6 DEF IoCompleteRequest
<1>7. CASE UNCHANGED vars
  BY <1>7 DEF vars
<1>8. ASSUME NEW v \in Ctxs, to_amx_callback_dispatch(v)
      PROVE  ShapeInv'
  BY <1>8, PointerHeard
<1> QED
  BY <1>1, <1>2, <1>3, <1>4, <1>5, <1>6, <1>7, <1>8 DEF Next, Step

\* Every step keeps the file object of an IRP open, or its close alone.
LEMMA FileInvStep == IInv /\ [Next]_vars => FileInv'
<1> SUFFICES ASSUME IInv, [Next]_vars PROVE FileInv'
  OBVIOUS
<1> USE DEF IInv, TypeOK, ShapeInv, Shape, CallLabels, Labels, LoadLabels,
            HeldLabels, DestroyLabels, FileInv
<1>1. CASE StartStop
  BY <1>1 DEF StartStop, DriverEntry, vm_callback_init, NextList, Lists,
         vm_callback_unwind, LastList, CreateDevice, vm_callback_destroy,
         driver_unload
<1>2. CASE Arrival
  BY <1>2, SMTT(40) DEF Arrival, IrpCreate, IrpLoad, Begin, IrpExecute,
         IrpOther, IrpClose, CloseEntry, DestroyEntry
<1>3. ASSUME NEW t \in Threads, vm_load_binary(t) PROVE FileInv'
  BY <1>3 DEF vm_load_binary, Parse, AllocCopy, OutOfMemory, AllocContext,
         KeptOnOom, LoadImage, Created, Notify, Hear, Cas, Wins, Loser,
         DestroyEntry
<1>4. ASSUME NEW t \in Threads, Call(t) PROVE FileInv'
  BY <1>4 DEF Call, Lock, Lockable, MapIn, Map, MapOut, Precall, Notify, Hear,
         AfterCall, KeepStatus, Run, Postcall, UnmapOut, Unmap, UnmapIn,
         Release, AfterRelease, Unlocked, Accepted
<1>5. ASSUME NEW t \in Threads, vm_destroy(t) PROVE FileInv'
  BY <1>5 DEF vm_destroy, Destroyed, Notify, Hear, Free
<1>6. ASSUME NEW t \in Threads, IoCompleteRequest(t) PROVE FileInv'
  BY <1>6 DEF IoCompleteRequest
<1>7. CASE UNCHANGED vars
  BY <1>7 DEF vars
<1>8. ASSUME NEW v \in Ctxs, to_amx_callback_dispatch(v)
      PROVE  FileInv'
  BY <1>8, PointerHeard
<1> QED
  BY <1>1, <1>2, <1>3, <1>4, <1>5, <1>6, <1>7, <1>8 DEF Next, Step

\* A context returned by the pool is nobody else's (vm.cpp, the allocations).
LEMMA OneThreadStep == IInv /\ [Next]_vars => OneThread'
<1> SUFFICES ASSUME IInv, [Next]_vars PROVE OneThread'
  OBVIOUS
<1> USE DEF IInv, TypeOK, ShapeInv, Shape, CallLabels, Labels, LoadLabels,
            HeldLabels, DestroyLabels, OwnerInv, OneThread, Owns
<1>1. CASE StartStop
  BY <1>1 DEF StartStop, DriverEntry, vm_callback_init, NextList, Lists,
         vm_callback_unwind, LastList, CreateDevice, vm_callback_destroy,
         driver_unload
<1>2. CASE Arrival
  BY <1>2 DEF Arrival, IrpCreate, IrpLoad, Begin, IrpExecute, IrpOther,
         IrpClose, CloseEntry, DestroyEntry, ThreadOrFile, Holds
<1>3. ASSUME NEW t \in Threads, vm_load_binary(t) PROVE OneThread'
  BY <1>3 DEF vm_load_binary, Parse, AllocCopy, OutOfMemory, PoolInv,
         ThreadBlocks, AllocContext, KeptOnOom, LoadImage, Created, Notify,
         Hear, Cas, Wins, Loser, DestroyEntry
<1>4. ASSUME NEW t \in Threads, Call(t) PROVE OneThread'
  BY <1>4 DEF Call, Lock, Lockable, MapIn, Map, MapOut, Precall, Notify, Hear,
         AfterCall, KeepStatus, Run, Postcall, UnmapOut, Unmap, UnmapIn,
         Release, AfterRelease, Unlocked, Accepted
<1>5. ASSUME NEW t \in Threads, vm_destroy(t) PROVE OneThread'
  BY <1>5 DEF vm_destroy, Destroyed, Notify, Hear, Free
<1>6. ASSUME NEW t \in Threads, IoCompleteRequest(t) PROVE OneThread'
  BY <1>6 DEF IoCompleteRequest
<1>7. CASE UNCHANGED vars
  BY <1>7 DEF vars
<1>8. ASSUME NEW v \in Ctxs, to_amx_callback_dispatch(v)
      PROVE  OneThread'
  BY <1>8, PointerHeard
<1> QED
  BY <1>1, <1>2, <1>3, <1>4, <1>5, <1>6, <1>7, <1>8 DEF Next, Step

\* The exchange of dispatch_irp hands a context over, never shares it.
LEMMA ThreadOrFileStep == IInv /\ [Next]_vars => ThreadOrFile'
<1> SUFFICES ASSUME IInv, [Next]_vars PROVE ThreadOrFile'
  OBVIOUS
<1> USE DEF IInv, TypeOK, ShapeInv, Shape, CallLabels, Labels, LoadLabels,
            HeldLabels, DestroyLabels, OwnerInv, ThreadOrFile, Owns, Holds
<1>1. CASE StartStop
  BY <1>1 DEF StartStop, DriverEntry, vm_callback_init, NextList, Lists,
         vm_callback_unwind, LastList, CreateDevice, vm_callback_destroy,
         driver_unload
<1>2. CASE Arrival
  BY <1>2 DEF Arrival, IrpCreate, FileInv, IrpLoad, Begin, IrpExecute,
         IrpOther, IrpClose, CloseEntry, DestroyEntry, OneFile
<1>3. ASSUME NEW t \in Threads, vm_load_binary(t) PROVE ThreadOrFile'
  BY <1>3 DEF vm_load_binary, Parse, AllocCopy, OutOfMemory, PoolInv,
         FileBlocks, AllocContext, KeptOnOom, LoadImage, Created, Notify,
         Hear, Cas, Wins, Loser, DestroyEntry, OneThread
<1>4. ASSUME NEW t \in Threads, Call(t) PROVE ThreadOrFile'
  BY <1>4 DEF Call, Lock, Lockable, MapIn, Map, MapOut, Precall, Notify, Hear,
         AfterCall, KeepStatus, Run, Postcall, UnmapOut, Unmap, UnmapIn,
         Release, AfterRelease, Unlocked, Accepted
<1>5. ASSUME NEW t \in Threads, vm_destroy(t) PROVE ThreadOrFile'
  BY <1>5 DEF vm_destroy, Destroyed, Notify, Hear, Free
<1>6. ASSUME NEW t \in Threads, IoCompleteRequest(t) PROVE ThreadOrFile'
  <2> SUFFICES ASSUME NEW v \in Ctxs, NEW u \in Threads, NEW f \in Files,
                      Owns(u, v)', Holds(f, v)'
               PROVE  FALSE
    BY DEF ThreadOrFile
  <2>1. u # t /\ Owns(u, v)
    BY <1>6 DEF IoCompleteRequest
  <2>2. Holds(f, v)
    BY <1>6 DEF IoCompleteRequest
  <2> QED
    BY <2>1, <2>2
<1>7. CASE UNCHANGED vars
  BY <1>7 DEF vars
<1>8. ASSUME NEW v \in Ctxs, to_amx_callback_dispatch(v)
      PROVE  ThreadOrFile'
  BY <1>8, PointerHeard
<1> QED
  BY <1>1, <1>2, <1>3, <1>4, <1>5, <1>6, <1>7, <1>8 DEF Next, Step

\* The exchange installs a context in one file object only.
LEMMA OneFileStep == IInv /\ [Next]_vars => OneFile'
<1> SUFFICES ASSUME IInv, [Next]_vars PROVE OneFile'
  OBVIOUS
<1> USE DEF IInv, TypeOK, ShapeInv, Shape, CallLabels, Labels, LoadLabels,
            HeldLabels, DestroyLabels, OwnerInv, OneFile, Holds
<1>1. CASE StartStop
  BY <1>1 DEF StartStop, DriverEntry, vm_callback_init, NextList, Lists,
         vm_callback_unwind, LastList, CreateDevice, vm_callback_destroy,
         driver_unload
<1>2. CASE Arrival
  BY <1>2 DEF Arrival, IrpCreate, FileInv, IrpLoad, Begin, IrpExecute,
         IrpOther, IrpClose, CloseEntry, DestroyEntry
<1>3. ASSUME NEW t \in Threads, vm_load_binary(t) PROVE OneFile'
  BY <1>3 DEF vm_load_binary, Parse, AllocCopy, OutOfMemory, AllocContext,
         KeptOnOom, LoadImage, Created, Notify, Hear, Cas, Wins, Loser,
         DestroyEntry, ThreadOrFile, Owns
<1>4. ASSUME NEW t \in Threads, Call(t) PROVE OneFile'
  BY <1>4 DEF Call, Lock, Lockable, MapIn, Map, MapOut, Precall, Notify, Hear,
         AfterCall, KeepStatus, Run, Postcall, UnmapOut, Unmap, UnmapIn,
         Release, AfterRelease, Unlocked, Accepted
<1>5. ASSUME NEW t \in Threads, vm_destroy(t) PROVE OneFile'
  BY <1>5 DEF vm_destroy, Destroyed, Notify, Hear, Free
<1>6. ASSUME NEW t \in Threads, IoCompleteRequest(t) PROVE OneFile'
  <2>1. \A v \in Ctxs : \A f \in Files : Holds(f, v)' => Holds(f, v)
    BY <1>6 DEF IoCompleteRequest
  <2> QED
    BY <2>1
<1>7. CASE UNCHANGED vars
  BY <1>7 DEF vars
<1>8. ASSUME NEW v \in Ctxs, to_amx_callback_dispatch(v)
      PROVE  OneFile'
  BY <1>8, PointerHeard
<1> QED
  BY <1>1, <1>2, <1>3, <1>4, <1>5, <1>6, <1>7, <1>8 DEF Next, Step

\* The FsContext an execute IRP read is still there while it runs.
LEMMA ExecutesOwnStep == IInv /\ [Next]_vars => ExecutesOwn'
<1> SUFFICES ASSUME IInv, [Next]_vars PROVE ExecutesOwn'
  OBVIOUS
<1> USE DEF IInv, TypeOK, ShapeInv, Shape, CallLabels, Labels, LoadLabels,
            HeldLabels, DestroyLabels, OwnerInv, ExecutesOwn, FileInv
<1>1. CASE StartStop
  BY <1>1 DEF StartStop, DriverEntry, vm_callback_init, NextList, Lists,
         vm_callback_unwind, LastList, CreateDevice, vm_callback_destroy,
         driver_unload
<1>2. CASE Arrival
  BY <1>2 DEF Arrival, IrpCreate, IrpLoad, Begin, IrpExecute, IrpOther,
         IrpClose, CloseEntry, DestroyEntry
<1>3. ASSUME NEW t \in Threads, vm_load_binary(t) PROVE ExecutesOwn'
  BY <1>3 DEF vm_load_binary, Parse, AllocCopy, OutOfMemory, AllocContext,
         KeptOnOom, LoadImage, Created, Notify, Hear, Cas, Wins, Loser,
         DestroyEntry
<1>4. ASSUME NEW t \in Threads, Call(t) PROVE ExecutesOwn'
  BY <1>4 DEF Call, Lock, Lockable, MapIn, Map, MapOut, Precall, Notify, Hear,
         AfterCall, KeepStatus, Run, Postcall, UnmapOut, Unmap, UnmapIn,
         Release, AfterRelease, Unlocked, Accepted
<1>5. ASSUME NEW t \in Threads, vm_destroy(t) PROVE ExecutesOwn'
  BY <1>5 DEF vm_destroy, Destroyed, Notify, Hear, Free
<1>6. ASSUME NEW t \in Threads, IoCompleteRequest(t) PROVE ExecutesOwn'
  BY <1>6 DEF IoCompleteRequest
<1>7. CASE UNCHANGED vars
  BY <1>7 DEF vars
<1>8. ASSUME NEW v \in Ctxs, to_amx_callback_dispatch(v)
      PROVE  ExecutesOwn'
  BY <1>8, PointerHeard
<1> QED
  BY <1>1, <1>2, <1>3, <1>4, <1>5, <1>6, <1>7, <1>8 DEF Next, Step

\* vm_destroy_internal never frees what another thread works on.
LEMMA ThreadBlocksStep == IInv /\ [Next]_vars => ThreadBlocks'
<1> SUFFICES ASSUME IInv, [Next]_vars PROVE ThreadBlocks'
  OBVIOUS
<1> USE DEF IInv, TypeOK, ShapeInv, Shape, CallLabels, Labels, LoadLabels,
            HeldLabels, DestroyLabels, OwnerInv, ExecutesOwn, FileInv, Holds,
            PoolInv, ThreadBlocks, FileBlocks
<1>1. CASE StartStop
  BY <1>1 DEF StartStop, DriverEntry, vm_callback_init, NextList, Lists,
         vm_callback_unwind, LastList, CreateDevice, vm_callback_destroy,
         driver_unload
<1>2. CASE Arrival
  BY <1>2 DEF Arrival, IrpCreate, IrpLoad, Begin, IrpExecute, IrpOther,
         IrpClose, CloseEntry, DestroyEntry
<1>3. ASSUME NEW t \in Threads, vm_load_binary(t) PROVE ThreadBlocks'
  BY <1>3, Alone DEF vm_load_binary, Parse, AllocCopy, OutOfMemory,
         AllocContext, KeptOnOom, LoadImage, Created, Notify, Hear, Cas, Wins,
         Loser, DestroyEntry
<1>4. ASSUME NEW t \in Threads, Call(t) PROVE ThreadBlocks'
  BY <1>4 DEF Call, Lock, Lockable, MapIn, Map, MapOut, Precall, Notify, Hear,
         AfterCall, KeepStatus, Run, Postcall, UnmapOut, Unmap, UnmapIn,
         Release, AfterRelease, Unlocked, Accepted
<1>5. ASSUME NEW t \in Threads, vm_destroy(t) PROVE ThreadBlocks'
  BY <1>5, Alone DEF vm_destroy, Destroyed, Notify, Hear, Free
<1>6. ASSUME NEW t \in Threads, IoCompleteRequest(t) PROVE ThreadBlocks'
  BY <1>6 DEF IoCompleteRequest
<1>7. CASE UNCHANGED vars
  BY <1>7 DEF vars
<1>8. ASSUME NEW v \in Ctxs, to_amx_callback_dispatch(v)
      PROVE  ThreadBlocks'
  BY <1>8, PointerHeard
<1> QED
  BY <1>1, <1>2, <1>3, <1>4, <1>5, <1>6, <1>7, <1>8 DEF Next, Step

\* An installed context keeps all of its blocks.
LEMMA FileBlocksStep == IInv /\ [Next]_vars => FileBlocks'
<1> SUFFICES ASSUME IInv, [Next]_vars PROVE FileBlocks'
  OBVIOUS
<1> USE DEF IInv, TypeOK, ShapeInv, Shape, CallLabels, Labels, LoadLabels,
            HeldLabels, DestroyLabels, OwnerInv, OneThread, ThreadOrFile,
            OneFile, Owns, Holds, FileInv, PoolInv, ThreadBlocks, FileBlocks
<1>1. CASE StartStop
  BY <1>1 DEF StartStop, DriverEntry, vm_callback_init, NextList, Lists,
         vm_callback_unwind, LastList, CreateDevice, vm_callback_destroy,
         driver_unload
<1>2. CASE Arrival
  BY <1>2 DEF Arrival, IrpCreate, IrpLoad, Begin, IrpExecute, IrpOther,
         IrpClose, CloseEntry, DestroyEntry
<1>3. ASSUME NEW t \in Threads, vm_load_binary(t) PROVE FileBlocks'
  <2>1. CASE Parse(t)
    BY <2>1 DEF Parse
  <2>2. CASE AllocCopy(t)
    <3> SUFFICES ASSUME NEW g \in Files, NEW v \in Ctxs, Holds(g, v)'
                 PROVE  /\ "copy" \in pool'[v]
                        /\ "context" \in pool'[v]
                        /\ "image" \in pool'[v]
      OBVIOUS
    <3>1. CASE v = ctx'[t]
      BY <2>2, <3>1 DEF AllocCopy, OutOfMemory
    <3>2. CASE v # ctx'[t]
      BY <2>2, <3>2 DEF AllocCopy, OutOfMemory
    <3> QED
      BY <3>1, <3>2
  <2>3. CASE AllocContext(t)
    BY <2>3 DEF AllocContext, OutOfMemory, KeptOnOom
  <2>4. CASE LoadImage(t)
    BY <2>4 DEF LoadImage
  <2>5. CASE Created(t)
    BY <2>5 DEF Created, Notify, Hear
  <2>6. CASE Cas(t)
    <3> SUFFICES ASSUME NEW g \in Files, NEW v \in Ctxs, Holds(g, v)'
                 PROVE  /\ "copy" \in pool'[v]
                        /\ "context" \in pool'[v]
                        /\ "image" \in pool'[v]
      OBVIOUS
    <3>1. CASE g = obj[t]
      BY <2>6, <3>1 DEF Cas, Wins, Loser, DestroyEntry
    <3>2. CASE g # obj[t]
      BY <2>6, <3>2 DEF Cas, Wins, Loser, DestroyEntry
    <3> QED
      BY <3>1, <3>2
  <2> QED
    BY <1>3, <2>1, <2>2, <2>3, <2>4, <2>5, <2>6 DEF vm_load_binary
<1>4. ASSUME NEW t \in Threads, Call(t) PROVE FileBlocks'
  BY <1>4 DEF Call, Lock, Lockable, MapIn, Map, MapOut, Precall, Notify, Hear,
         AfterCall, KeepStatus, Run, Postcall, UnmapOut, Unmap, UnmapIn,
         Release, AfterRelease, Unlocked, Accepted
<1>5. ASSUME NEW t \in Threads, vm_destroy(t) PROVE FileBlocks'
  BY <1>5 DEF vm_destroy, Destroyed, Notify, Hear, Free
<1>6. ASSUME NEW t \in Threads, IoCompleteRequest(t) PROVE FileBlocks'
  <2> SUFFICES ASSUME NEW g \in Files, NEW v \in Ctxs, Holds(g, v)'
           PROVE  /\ "copy" \in pool'[v]
                  /\ "context" \in pool'[v]
                  /\ "image" \in pool'[v]
    OBVIOUS
  <2>1. CASE g = obj[t]
    BY <1>6, <2>1 DEF IoCompleteRequest
  <2>2. CASE g # obj[t]
    BY <1>6, <2>2 DEF IoCompleteRequest
  <2> QED
    BY <2>1, <2>2
<1>7. CASE UNCHANGED vars
  BY <1>7 DEF vars
<1>8. ASSUME NEW v \in Ctxs, to_amx_callback_dispatch(v)
      PROVE  FileBlocks'
  BY <1>8, PointerHeard
<1> QED
  BY <1>1, <1>2, <1>3, <1>4, <1>5, <1>6, <1>7, <1>8 DEF Next, Step

\* A thread keeps its context, frees it, or installs it in its file object.
LEMMA ThreadKeepsStep ==
  ASSUME IInv, [Next]_vars, NEW v \in Ctxs, pool'[v] # {},
         NEW u \in Threads, Owns(u, v), NEW f, f = obj[u]
  PROVE  Owns(u, v)' \/ Holds(f, v)'
<1> USE DEF IInv, TypeOK, ShapeInv, Shape, CallLabels, Labels, LoadLabels,
            HeldLabels, DestroyLabels, Owns, Holds, OwnerInv, OneThread,
            FileInv
<1>1. CASE StartStop
  BY <1>1 DEF StartStop, DriverEntry, vm_callback_init, NextList, Lists,
         vm_callback_unwind, LastList, CreateDevice, vm_callback_destroy,
         driver_unload
<1>2. CASE Arrival
  BY <1>2 DEF Arrival, IrpCreate, IrpLoad, Begin, IrpExecute, IrpOther,
         IrpClose, CloseEntry, DestroyEntry
<1>3. ASSUME NEW t \in Threads, vm_load_binary(t)
      PROVE  Owns(u, v)' \/ Holds(f, v)'
  BY <1>3 DEF vm_load_binary, Parse, AllocCopy, OutOfMemory, AllocContext,
         KeptOnOom, LoadImage, Created, Notify, Hear, Cas, Wins, Loser,
         DestroyEntry
<1>4. ASSUME NEW t \in Threads, Call(t) PROVE Owns(u, v)' \/ Holds(f, v)'
  BY <1>4 DEF Call, Lock, Lockable, MapIn, Map, MapOut, Precall, Notify, Hear,
         AfterCall, KeepStatus, Run, Postcall, UnmapOut, Unmap, UnmapIn,
         Release, AfterRelease, Unlocked, Accepted
<1>5. ASSUME NEW t \in Threads, vm_destroy(t) PROVE Owns(u, v)' \/ Holds(f, v)'
  BY <1>5 DEF vm_destroy, Destroyed, Notify, Hear, Free
<1>6. ASSUME NEW t \in Threads, IoCompleteRequest(t)
      PROVE  Owns(u, v)' \/ Holds(f, v)'
  BY <1>6 DEF IoCompleteRequest
<1>7. CASE UNCHANGED vars
  BY <1>7 DEF vars
<1>8. ASSUME NEW x \in Ctxs, to_amx_callback_dispatch(x)
      PROVE  Owns(u, v)' \/ Holds(f, v)'
  BY <1>8, PointerHeard
<1> QED
  BY <1>1, <1>2, <1>3, <1>4, <1>5, <1>6, <1>7, <1>8 DEF Next, Step

\* A file object keeps its context until a closing thread takes it over.
LEMMA FileKeepsStep ==
  ASSUME IInv, [Next]_vars, NEW v \in Ctxs, pool'[v] # {},
         NEW g \in Files, Holds(g, v)
  PROVE  Holds(g, v)' \/ \E w \in Threads : Owns(w, v)'
<1> USE DEF IInv, TypeOK, ShapeInv, Shape, CallLabels, Labels, LoadLabels,
            HeldLabels, DestroyLabels, Owns, Holds, FileInv
<1>1. CASE StartStop
  BY <1>1 DEF StartStop, DriverEntry, vm_callback_init, NextList, Lists,
         vm_callback_unwind, LastList, CreateDevice, vm_callback_destroy,
         driver_unload
<1>2. CASE Arrival
  BY <1>2 DEF Arrival, IrpCreate, IrpLoad, Begin, IrpExecute, IrpOther,
         IrpClose, CloseEntry, DestroyEntry
<1>3. ASSUME NEW t \in Threads, vm_load_binary(t)
      PROVE  Holds(g, v)' \/ \E w \in Threads : Owns(w, v)'
  BY <1>3 DEF vm_load_binary, Parse, AllocCopy, OutOfMemory, AllocContext,
         KeptOnOom, LoadImage, Created, Notify, Hear, Cas, Wins, Loser,
         DestroyEntry
<1>4. ASSUME NEW t \in Threads, Call(t)
      PROVE  Holds(g, v)' \/ \E w \in Threads : Owns(w, v)'
  BY <1>4 DEF Call, Lock, Lockable, MapIn, Map, MapOut, Precall, Notify, Hear,
         AfterCall, KeepStatus, Run, Postcall, UnmapOut, Unmap, UnmapIn,
         Release, AfterRelease, Unlocked, Accepted
<1>5. ASSUME NEW t \in Threads, vm_destroy(t)
      PROVE  Holds(g, v)' \/ \E w \in Threads : Owns(w, v)'
  BY <1>5 DEF vm_destroy, Destroyed, Notify, Hear, Free
<1>6. ASSUME NEW t \in Threads, IoCompleteRequest(t)
      PROVE  Holds(g, v)' \/ \E w \in Threads : Owns(w, v)'
  BY <1>6 DEF IoCompleteRequest
<1>7. CASE UNCHANGED vars
  BY <1>7 DEF vars
<1>8. ASSUME NEW x \in Ctxs, to_amx_callback_dispatch(x)
      PROVE  Holds(g, v)' \/ \E w \in Threads : Owns(w, v)'
  BY <1>8, PointerHeard
<1> QED
  BY <1>1, <1>2, <1>3, <1>4, <1>5, <1>6, <1>7, <1>8 DEF Next, Step

\* A block comes into the pool with a loading thread as its owner.
LEMMA FreshOwnedStep ==
  ASSUME IInv, [Next]_vars, NEW v \in Ctxs, pool'[v] # {}, pool[v] = {}
  PROVE  \E w \in Threads : Owns(w, v)'
<1> USE DEF IInv, TypeOK, ShapeInv, Shape, CallLabels, Labels, LoadLabels,
            HeldLabels, DestroyLabels, Owns, PoolInv, ThreadBlocks
<1>1. CASE StartStop
  BY <1>1 DEF StartStop, DriverEntry, vm_callback_init, NextList, Lists,
         vm_callback_unwind, LastList, CreateDevice, vm_callback_destroy,
         driver_unload
<1>2. CASE Arrival
  BY <1>2 DEF Arrival, IrpCreate, IrpLoad, Begin, IrpExecute, IrpOther,
         IrpClose, CloseEntry, DestroyEntry
<1>3. ASSUME NEW t \in Threads, vm_load_binary(t)
      PROVE  \E w \in Threads : Owns(w, v)'
  BY <1>3 DEF vm_load_binary, Parse, AllocCopy, OutOfMemory, AllocContext,
         KeptOnOom, LoadImage, Created, Notify, Hear, Cas, Wins, Loser,
         DestroyEntry
<1>4. ASSUME NEW t \in Threads, Call(t)
      PROVE  \E w \in Threads : Owns(w, v)'
  BY <1>4 DEF Call, Lock, Lockable, MapIn, Map, MapOut, Precall, Notify, Hear,
         AfterCall, KeepStatus, Run, Postcall, UnmapOut, Unmap, UnmapIn,
         Release, AfterRelease, Unlocked, Accepted
<1>5. ASSUME NEW t \in Threads, vm_destroy(t)
      PROVE  \E w \in Threads : Owns(w, v)'
  BY <1>5 DEF vm_destroy, Destroyed, Notify, Hear, Free
<1>6. ASSUME NEW t \in Threads, IoCompleteRequest(t)
      PROVE  \E w \in Threads : Owns(w, v)'
  BY <1>6 DEF IoCompleteRequest
<1>7. CASE UNCHANGED vars
  BY <1>7 DEF vars
<1>8. ASSUME NEW x \in Ctxs, to_amx_callback_dispatch(x)
      PROVE  \E w \in Threads : Owns(w, v)'
  BY <1>8, PointerHeard
<1> QED
  BY <1>1, <1>2, <1>3, <1>4, <1>5, <1>6, <1>7, <1>8 DEF Next, Step

\* No error path of vm_load_binary and no close forgets a block.
LEMMA BlockOwnedStep == IInv /\ [Next]_vars => BlockOwned'
<1> SUFFICES ASSUME IInv, [Next]_vars, NEW v \in Ctxs, NEW b \in pool'[v]
             PROVE  \/ \E t \in Threads : Owns(t, v)'
                    \/ \E f \in Files : Holds(f, v)'
  BY DEF BlockOwned
<1> pool'[v] # {}
  OBVIOUS
<1>1. CASE pool[v] = {}
  BY <1>1, FreshOwnedStep
<1>2. CASE pool[v] # {}
  <2>1. \/ \E u \in Threads : Owns(u, v)
        \/ \E g \in Files : Holds(g, v)
    BY <1>2 DEF IInv, PoolInv, BlockOwned
  <2>2. ASSUME NEW u \in Threads, Owns(u, v)
        PROVE  Owns(u, v)' \/ \E g \in Files : Holds(g, v)'
    <3>1. obj[u] \in Files
      BY <2>2 DEF IInv, TypeOK, ShapeInv, Shape, Owns
    <3> QED
      BY <2>2, <3>1, ThreadKeepsStep
  <2> QED
    BY <2>1, <2>2, FileKeepsStep
<1> QED
  BY <1>1, <1>2

\* unique_lock: the mutex of a context is held exactly over a call.
LEMMA LockInvStep == IInv /\ [Next]_vars => LockInv'
<1> SUFFICES ASSUME IInv, [Next]_vars PROVE LockInv'
  OBVIOUS
<1> USE DEF IInv, TypeOK, ShapeInv, Shape, CallLabels, Labels, LoadLabels,
            HeldLabels, DestroyLabels, LockInv
<1>1. CASE StartStop
  BY <1>1 DEF StartStop, DriverEntry, vm_callback_init, NextList, Lists,
         vm_callback_unwind, LastList, CreateDevice, vm_callback_destroy,
         driver_unload
<1>2. CASE Arrival
  BY <1>2 DEF Arrival, IrpCreate, IrpLoad, Begin, IrpExecute, IrpOther,
         IrpClose, CloseEntry, DestroyEntry
<1>3. ASSUME NEW t \in Threads, vm_load_binary(t) PROVE LockInv'
  BY <1>3 DEF vm_load_binary, Parse, AllocCopy, OutOfMemory, AllocContext,
         KeptOnOom, LoadImage, Created, Notify, Hear, Cas, Wins, Loser,
         DestroyEntry
<1>4. ASSUME NEW t \in Threads, Call(t) PROVE LockInv'
  BY <1>4 DEF Call, Lock, Lockable, MapIn, Map, MapOut, Precall, Notify, Hear,
         AfterCall, KeepStatus, Run, Postcall, UnmapOut, Unmap, UnmapIn,
         Release, AfterRelease, Unlocked, Accepted
<1>5. ASSUME NEW t \in Threads, vm_destroy(t) PROVE LockInv'
  BY <1>5 DEF vm_destroy, Destroyed, Notify, Hear, Free
<1>6. ASSUME NEW t \in Threads, IoCompleteRequest(t) PROVE LockInv'
  BY <1>6 DEF IoCompleteRequest
<1>7. CASE UNCHANGED vars
  BY <1>7 DEF vars
<1>8. ASSUME NEW v \in Ctxs, to_amx_callback_dispatch(v)
      PROVE  LockInv'
  BY <1>8, PointerHeard
<1> QED
  BY <1>1, <1>2, <1>3, <1>4, <1>5, <1>6, <1>7, <1>8 DEF Next, Step

\* Notifications stay in order: every caller holds the mutex.
LEMMA ClientProtocolStep == IInv /\ [Next]_vars => ClientProtocol'
<1> SUFFICES ASSUME IInv, [Next]_vars PROVE ClientProtocol'
  OBVIOUS
<1> USE DEF IInv, TypeOK, ShapeInv, Shape, CallLabels, Labels, LoadLabels,
            HeldLabels, DestroyLabels, LockInv, ToldInv, ClientProtocol,
            CallHasThread, ThreadInCall, NotYetTold, ToldAlive, Inside
<1>1. CASE StartStop
  BY <1>1 DEF StartStop, DriverEntry, vm_callback_init, NextList, Lists,
         vm_callback_unwind, LastList, CreateDevice, vm_callback_destroy,
         driver_unload
<1>2. CASE Arrival
  BY <1>2 DEF Arrival, IrpCreate, IrpLoad, Begin, IrpExecute, IrpOther,
         IrpClose, CloseEntry, DestroyEntry
<1>3. ASSUME NEW t \in Threads, vm_load_binary(t) PROVE ClientProtocol'
  BY <1>3 DEF vm_load_binary, Parse, AllocCopy, OutOfMemory, AllocContext,
         KeptOnOom, LoadImage, Created, Notify, Hear, Cas, Wins, Loser,
         DestroyEntry
<1>4. ASSUME NEW t \in Threads, Call(t) PROVE ClientProtocol'
  <2>1. CASE Precall(t)
    BY <2>1, Alive DEF Precall, Notify, Hear
  <2>2. CASE Postcall(t)
    BY <2>2 DEF Postcall, Notify, Hear
  <2>3. CASE UNCHANGED told
    BY <2>3
  <2> QED
    BY <1>4, <2>1, <2>2, <2>3
       DEF Call, Lock, MapIn, Map, MapOut, Run, UnmapOut, Unmap, UnmapIn,
           Release
<1>5. ASSUME NEW t \in Threads, vm_destroy(t) PROVE ClientProtocol'
  BY <1>5, Alive DEF vm_destroy, Destroyed, Notify, Hear, Free
<1>6. ASSUME NEW t \in Threads, IoCompleteRequest(t) PROVE ClientProtocol'
  BY <1>6 DEF IoCompleteRequest
<1>7. CASE UNCHANGED vars
  BY <1>7 DEF vars
<1>8. ASSUME NEW v \in Ctxs, to_amx_callback_dispatch(v)
      PROVE  ClientProtocol'
  BY <1>8, PointerHeard
<1> QED
  BY <1>1, <1>2, <1>3, <1>4, <1>5, <1>6, <1>7, <1>8 DEF Next, Step

\* An announced call is in progress on some thread.
LEMMA CallHasThreadStep == IInv /\ [Next]_vars => CallHasThread'
<1> SUFFICES ASSUME IInv, [Next]_vars PROVE CallHasThread'
  OBVIOUS
<1> USE DEF IInv, TypeOK, ShapeInv, Shape, CallLabels, Labels, LoadLabels,
            HeldLabels, DestroyLabels, LockInv, ToldInv, CallHasThread,
            ThreadInCall, NotYetTold, ToldAlive, Inside
<1>1. CASE StartStop
  BY <1>1 DEF StartStop, DriverEntry, vm_callback_init, NextList, Lists,
         vm_callback_unwind, LastList, CreateDevice, vm_callback_destroy,
         driver_unload
<1>2. CASE Arrival
  BY <1>2 DEF Arrival, IrpCreate, IrpLoad, Begin, IrpExecute, IrpOther,
         IrpClose, CloseEntry, DestroyEntry
<1>3. ASSUME NEW t \in Threads, vm_load_binary(t) PROVE CallHasThread'
  BY <1>3 DEF vm_load_binary, Parse, AllocCopy, OutOfMemory, AllocContext,
         KeptOnOom, LoadImage, Created, Notify, Hear, Cas, Wins, Loser,
         DestroyEntry
<1>4. ASSUME NEW t \in Threads, Call(t) PROVE CallHasThread'
  BY <1>4 DEF Call, Lock, Lockable, MapIn, Map, MapOut, Precall, Notify, Hear,
         AfterCall, KeepStatus, Run, Postcall, UnmapOut, Unmap, UnmapIn,
         Release, AfterRelease, Unlocked, Accepted
<1>5. ASSUME NEW t \in Threads, vm_destroy(t) PROVE CallHasThread'
  BY <1>5 DEF vm_destroy, Destroyed, Notify, Hear, Free
<1>6. ASSUME NEW t \in Threads, IoCompleteRequest(t) PROVE CallHasThread'
  BY <1>6 DEF IoCompleteRequest
<1>7. CASE UNCHANGED vars
  BY <1>7 DEF vars
<1>8. ASSUME NEW v \in Ctxs, to_amx_callback_dispatch(v)
      PROVE  CallHasThread'
  BY <1>8, PointerHeard
<1> QED
  BY <1>1, <1>2, <1>3, <1>4, <1>5, <1>6, <1>7, <1>8 DEF Next, Step

\* A call in progress was announced.
LEMMA ThreadInCallStep == IInv /\ [Next]_vars => ThreadInCall'
<1> SUFFICES ASSUME IInv, [Next]_vars PROVE ThreadInCall'
  OBVIOUS
<1> USE DEF IInv, TypeOK, ShapeInv, Shape, CallLabels, Labels, LoadLabels,
            HeldLabels, DestroyLabels, LockInv, ToldInv, CallHasThread,
            ThreadInCall, ToldAlive, Inside
<1>1. CASE StartStop
  BY <1>1 DEF StartStop, DriverEntry, vm_callback_init, NextList, Lists,
         vm_callback_unwind, LastList, CreateDevice, vm_callback_destroy,
         driver_unload
<1>2. CASE Arrival
  BY <1>2 DEF Arrival, IrpCreate, IrpLoad, Begin, IrpExecute, IrpOther,
         IrpClose, CloseEntry, DestroyEntry
<1>3. ASSUME NEW t \in Threads, vm_load_binary(t) PROVE ThreadInCall'
  BY <1>3 DEF vm_load_binary, Parse, AllocCopy, OutOfMemory, AllocContext,
         KeptOnOom, LoadImage, Created, Notify, Hear, Cas, Wins, Loser,
         DestroyEntry
<1>4. ASSUME NEW t \in Threads, Call(t) PROVE ThreadInCall'
  BY <1>4, Alive DEF Call, Lock, Lockable, MapIn, Map, MapOut, Precall,
         Notify, Hear, AfterCall, KeepStatus, Run, Postcall, UnmapOut, Unmap,
         UnmapIn, Release, AfterRelease, Unlocked, Accepted
<1>5. ASSUME NEW t \in Threads, vm_destroy(t) PROVE ThreadInCall'
  BY <1>5 DEF vm_destroy, Destroyed, Notify, Hear, Free
<1>6. ASSUME NEW t \in Threads, IoCompleteRequest(t) PROVE ThreadInCall'
  BY <1>6 DEF IoCompleteRequest
<1>7. CASE UNCHANGED vars
  BY <1>7 DEF vars
<1>8. ASSUME NEW v \in Ctxs, to_amx_callback_dispatch(v)
      PROVE  ThreadInCall'
  BY <1>8, PointerHeard
<1> QED
  BY <1>1, <1>2, <1>3, <1>4, <1>5, <1>6, <1>7, <1>8 DEF Next, Step

\* Clients do not know a context before vm_callback_created.
LEMMA NotYetToldStep == IInv /\ [Next]_vars => NotYetTold'
<1> SUFFICES ASSUME IInv, [Next]_vars PROVE NotYetTold'
  OBVIOUS
<1> USE DEF IInv, TypeOK, ShapeInv, Shape, CallLabels, Labels, LoadLabels,
            HeldLabels, DestroyLabels, ToldInv, NotYetTold
<1>1. CASE StartStop
  BY <1>1 DEF StartStop, DriverEntry, vm_callback_init, NextList, Lists,
         vm_callback_unwind, LastList, CreateDevice, vm_callback_destroy,
         driver_unload
<1>2. CASE Arrival
  BY <1>2 DEF Arrival, IrpCreate, IrpLoad, Begin, IrpExecute, IrpOther,
         IrpClose, CloseEntry, DestroyEntry
<1>3. ASSUME NEW t \in Threads, vm_load_binary(t) PROVE NotYetTold'
  BY <1>3, Alone DEF vm_load_binary, Parse, AllocCopy, OutOfMemory,
         NoGhostContext, AllocContext, KeptOnOom, LoadImage, Created, Notify,
         Hear, Cas, Wins, Loser, DestroyEntry
<1>4. ASSUME NEW t \in Threads, Call(t) PROVE NotYetTold'
  BY <1>4, Alone DEF Call, Lock, Lockable, MapIn, Map, MapOut, Precall,
         Notify, Hear, AfterCall, KeepStatus, Run, Postcall, UnmapOut, Unmap,
         UnmapIn, Release, AfterRelease, Unlocked, Accepted
<1>5. ASSUME NEW t \in Threads, vm_destroy(t) PROVE NotYetTold'
  <2>1. CASE Destroyed(t)
    <3> SUFFICES ASSUME NEW u \in Threads,
                   pc'[u] \in {"alloc_context", "load_image", "created", "free"}
             PROVE  told'[ctx'[u]] = "gone"
      OBVIOUS
    <3>1. CASE u = t
      BY <2>1, <3>1, Alive, Alone DEF Destroyed, Notify, Hear
    <3>2. CASE u # t
      BY <2>1, <3>2, Alive, Alone DEF Destroyed, Notify, Hear
    <3> QED
      BY <3>1, <3>2
  <2>2. CASE Free(t)
    BY <2>2 DEF Free
  <2> QED
    BY <1>5, <2>1, <2>2 DEF vm_destroy
<1>6. ASSUME NEW t \in Threads, IoCompleteRequest(t) PROVE NotYetTold'
  BY <1>6 DEF IoCompleteRequest
<1>7. CASE UNCHANGED vars
  BY <1>7 DEF vars
<1>8. ASSUME NEW v \in Ctxs, to_amx_callback_dispatch(v)
      PROVE  NotYetTold'
  BY <1>8, PointerHeard
<1> QED
  BY <1>1, <1>2, <1>3, <1>4, <1>5, <1>6, <1>7, <1>8 DEF Next, Step

\* Clients know a context from creation to destruction.
LEMMA ToldAliveStep == IInv /\ [Next]_vars => ToldAlive'
<1> SUFFICES ASSUME IInv, [Next]_vars PROVE ToldAlive'
  OBVIOUS
<1> USE DEF IInv, TypeOK, ShapeInv, Shape, CallLabels, Labels, LoadLabels,
            HeldLabels, DestroyLabels, OwnerInv, OneThread, ThreadOrFile,
            OneFile, Owns, Holds, ExecutesOwn, FileInv, LockInv, ToldInv,
            ToldAlive, ToldOfFile, ThreadInCall, NotYetTold, Inside
<1>1. CASE StartStop
  BY <1>1 DEF StartStop, DriverEntry, vm_callback_init, NextList, Lists,
         vm_callback_unwind, LastList, CreateDevice, vm_callback_destroy,
         driver_unload
<1>2. CASE Arrival
  BY <1>2 DEF Arrival, IrpCreate, IrpLoad, Begin, IrpExecute, IrpOther,
         IrpClose, CloseEntry, DestroyEntry
<1>3. ASSUME NEW t \in Threads, vm_load_binary(t) PROVE ToldAlive'
  BY <1>3 DEF vm_load_binary, Parse, AllocCopy, OutOfMemory, AllocContext,
         KeptOnOom, LoadImage, Created, Notify, Hear, Cas, Wins, Loser,
         DestroyEntry
<1>4. ASSUME NEW t \in Threads, Call(t) PROVE ToldAlive'
  BY <1>4 DEF Call, Lock, Lockable, MapIn, Map, MapOut, Precall, Notify, Hear,
         AfterCall, KeepStatus, Run, Postcall, UnmapOut, Unmap, UnmapIn,
         Release, AfterRelease, Unlocked, Accepted
<1>5. ASSUME NEW t \in Threads, vm_destroy(t) PROVE ToldAlive'
  <2>1. CASE Destroyed(t)
    BY <2>1 DEF Destroyed, Notify, Hear
  <2>2. CASE Free(t)
    BY <2>2 DEF Free
  <2> QED
    BY <1>5, <2>1, <2>2 DEF vm_destroy
<1>6. ASSUME NEW t \in Threads, IoCompleteRequest(t) PROVE ToldAlive'
  BY <1>6 DEF IoCompleteRequest
<1>7. CASE UNCHANGED vars
  BY <1>7 DEF vars
<1>8. ASSUME NEW v \in Ctxs, to_amx_callback_dispatch(v)
      PROVE  ToldAlive'
  BY <1>8, PointerHeard
<1> QED
  BY <1>1, <1>2, <1>3, <1>4, <1>5, <1>6, <1>7, <1>8 DEF Next, Step

\* A VM whose creation a client missed is never called nor installed.
LEMMA ToldKnownStep == IInv /\ [Next]_vars => ToldKnown'
<1> SUFFICES ASSUME IInv, [Next]_vars PROVE ToldKnown'
  OBVIOUS
<1> USE DEF IInv, TypeOK, ShapeInv, Shape, CallLabels, Labels, LoadLabels,
            HeldLabels, DestroyLabels, OwnerInv, OneThread, ThreadOrFile,
            OneFile, Owns, Holds, ExecutesOwn, FileInv, LockInv, ToldInv,
            ToldAlive, ToldKnown, ToldOfFile, ThreadInCall, NotYetTold, Inside
<1>1. CASE StartStop
  BY <1>1 DEF StartStop, DriverEntry, vm_callback_init, NextList, Lists,
         vm_callback_unwind, LastList, CreateDevice, vm_callback_destroy,
         driver_unload
<1>2. CASE Arrival
  BY <1>2 DEF Arrival, IrpCreate, IrpLoad, Begin, IrpExecute, IrpOther,
         IrpClose, CloseEntry, DestroyEntry
<1>3. ASSUME NEW t \in Threads, vm_load_binary(t) PROVE ToldKnown'
  BY <1>3 DEF vm_load_binary, Parse, AllocCopy, OutOfMemory, AllocContext,
         KeptOnOom, LoadImage, Created, Notify, Hear, Cas, Wins, Loser,
         DestroyEntry
<1>4. ASSUME NEW t \in Threads, Call(t) PROVE ToldKnown'
  BY <1>4 DEF Call, Lock, Lockable, MapIn, Map, MapOut, Precall, Notify, Hear,
         AfterCall, KeepStatus, Run, Postcall, UnmapOut, Unmap, UnmapIn,
         Release, AfterRelease, Unlocked, Accepted
<1>5. ASSUME NEW t \in Threads, vm_destroy(t) PROVE ToldKnown'
  <2>1. CASE Destroyed(t)
    BY <2>1 DEF Destroyed, Notify, Hear
  <2>2. CASE Free(t)
    BY <2>2 DEF Free
  <2> QED
    BY <1>5, <2>1, <2>2 DEF vm_destroy
<1>6. ASSUME NEW t \in Threads, IoCompleteRequest(t) PROVE ToldKnown'
  BY <1>6 DEF IoCompleteRequest
<1>7. CASE UNCHANGED vars
  BY <1>7 DEF vars
<1>8. ASSUME NEW v \in Ctxs, to_amx_callback_dispatch(v)
      PROVE  ToldKnown'
  <2>1. pc' = pc /\ ctx' = ctx
    BY <1>8, PointerHeard DEF threadVars
  <2>2. \A w \in Ctxs : told'[w] = told[w] \/ told'[w] = "silent"
    BY <1>8, PointerHeard
  <2>3. \A t \in Threads : pc[t] \in CallLabels \cup {"cas"} =>
          ctx[t] \in Ctxs /\ told[ctx[t]] # "missed"
    OBVIOUS
  <2> QED
    BY <2>1, <2>2, <2>3 DEF ToldKnown
<1> QED
  BY <1>1, <1>2, <1>3, <1>4, <1>5, <1>6, <1>7, <1>8 DEF Next, Step

\* Clients know every installed context.
LEMMA ToldOfFileStep == IInv /\ [Next]_vars => ToldOfFile'
<1> SUFFICES ASSUME IInv, [Next]_vars PROVE ToldOfFile'
  OBVIOUS
<1> USE DEF IInv, TypeOK, ShapeInv, Shape, CallLabels, Labels, LoadLabels,
            HeldLabels, DestroyLabels, OwnerInv, OneThread, ThreadOrFile,
            OneFile, Owns, Holds, FileInv, ToldInv, ToldOfFile, ToldAlive,
            ToldKnown,
            NotYetTold, ThreadInCall
<1>1. CASE StartStop
  BY <1>1 DEF StartStop, DriverEntry, vm_callback_init, NextList, Lists,
         vm_callback_unwind, LastList, CreateDevice, vm_callback_destroy,
         driver_unload
<1>2. CASE Arrival
  BY <1>2 DEF Arrival, IrpCreate, IrpLoad, Begin, IrpExecute, IrpOther,
         IrpClose, CloseEntry, DestroyEntry
<1>3. ASSUME NEW t \in Threads, vm_load_binary(t) PROVE ToldOfFile'
  BY <1>3 DEF vm_load_binary, Parse, AllocCopy, OutOfMemory, AllocContext,
         KeptOnOom, LoadImage, Created, Notify, Hear, Cas, Wins, Loser,
         DestroyEntry
<1>4. ASSUME NEW t \in Threads, Call(t) PROVE ToldOfFile'
  BY <1>4 DEF Call, Lock, Lockable, MapIn, Map, MapOut, Precall, Notify, Hear,
         AfterCall, KeepStatus, Run, Postcall, UnmapOut, Unmap, UnmapIn,
         Release, AfterRelease, Unlocked, Accepted
<1>5. ASSUME NEW t \in Threads, vm_destroy(t) PROVE ToldOfFile'
  BY <1>5 DEF vm_destroy, Destroyed, Notify, Hear, Free
<1>6. ASSUME NEW t \in Threads, IoCompleteRequest(t) PROVE ToldOfFile'
  <2> SUFFICES ASSUME NEW g \in Files, NEW v \in Ctxs, Holds(g, v)'
           PROVE  told'[v] \notin {"gone", "missed"}
    OBVIOUS
  <2>1. CASE g = obj[t]
    BY <1>6, <2>1 DEF IoCompleteRequest
  <2>2. CASE g # obj[t]
    BY <1>6, <2>2 DEF IoCompleteRequest
  <2> QED
    BY <2>1, <2>2
<1>7. CASE UNCHANGED vars
  BY <1>7 DEF vars
<1>8. ASSUME NEW v \in Ctxs, to_amx_callback_dispatch(v)
      PROVE  ToldOfFile'
  BY <1>8, PointerHeard
<1> QED
  BY <1>1, <1>2, <1>3, <1>4, <1>5, <1>6, <1>7, <1>8 DEF Next, Step

\* vm_callback_destroyed comes before vm_destroy_internal.
LEMMA NoGhostContextStep == IInv /\ [Next]_vars => NoGhostContext'
<1> SUFFICES ASSUME IInv, [Next]_vars PROVE NoGhostContext'
  OBVIOUS
<1> USE DEF IInv, TypeOK, ShapeInv, Shape, CallLabels, Labels, LoadLabels,
            HeldLabels, DestroyLabels, PoolInv, ThreadBlocks, ToldInv,
            NoGhostContext, NotYetTold, Owns
<1>1. CASE StartStop
  BY <1>1 DEF StartStop, DriverEntry, vm_callback_init, NextList, Lists,
         vm_callback_unwind, LastList, CreateDevice, vm_callback_destroy,
         driver_unload
<1>2. CASE Arrival
  BY <1>2 DEF Arrival, IrpCreate, IrpLoad, Begin, IrpExecute, IrpOther,
         IrpClose, CloseEntry, DestroyEntry
<1>3. ASSUME NEW t \in Threads, vm_load_binary(t) PROVE NoGhostContext'
  BY <1>3 DEF vm_load_binary, Parse, AllocCopy, OutOfMemory, AllocContext,
         KeptOnOom, LoadImage, Created, Notify, Hear, Cas, Wins, Loser,
         DestroyEntry
<1>4. ASSUME NEW t \in Threads, Call(t) PROVE NoGhostContext'
  BY <1>4 DEF Call, Lock, Lockable, MapIn, Map, MapOut, Precall, Notify, Hear,
         AfterCall, KeepStatus, Run, Postcall, UnmapOut, Unmap, UnmapIn,
         Release, AfterRelease, Unlocked, Accepted
<1>5. ASSUME NEW t \in Threads, vm_destroy(t) PROVE NoGhostContext'
  BY <1>5 DEF vm_destroy, Destroyed, Notify, Hear, Free
<1>6. ASSUME NEW t \in Threads, IoCompleteRequest(t) PROVE NoGhostContext'
  BY <1>6 DEF IoCompleteRequest
<1>7. CASE UNCHANGED vars
  BY <1>7 DEF vars
<1>8. ASSUME NEW v \in Ctxs, to_amx_callback_dispatch(v)
      PROVE  NoGhostContext'
  BY <1>8, PointerHeard
<1> QED
  BY <1>1, <1>2, <1>3, <1>4, <1>5, <1>6, <1>7, <1>8 DEF Next, Step

\* vm_execute_function maps and unmaps in matching order.
LEMMA HeldMapsStep == IInv /\ [Next]_vars => HeldMaps'
<1> SUFFICES ASSUME IInv, [Next]_vars PROVE HeldMaps'
  OBVIOUS
<1> USE DEF IInv, TypeOK, ShapeInv, Shape, CallLabels, Labels, LoadLabels,
            HeldLabels, DestroyLabels, LockInv, PoolInv, ThreadBlocks, MapInv,
            HeldMaps, FreeMaps, InMapped, OutMapped
<1>1. CASE StartStop
  BY <1>1 DEF StartStop, DriverEntry, vm_callback_init, NextList, Lists,
         vm_callback_unwind, LastList, CreateDevice, vm_callback_destroy,
         driver_unload
<1>2. CASE Arrival
  BY <1>2 DEF Arrival, IrpCreate, IrpLoad, Begin, IrpExecute, IrpOther,
         IrpClose, CloseEntry, DestroyEntry
<1>3. ASSUME NEW t \in Threads, vm_load_binary(t) PROVE HeldMaps'
  BY <1>3, Alone DEF vm_load_binary, Parse, AllocCopy, OutOfMemory,
         AllocContext, KeptOnOom, LoadImage, Created, Notify, Hear, Cas, Wins,
         Loser, DestroyEntry
<1>4. ASSUME NEW t \in Threads, Call(t) PROVE HeldMaps'
  BY <1>4 DEF Call, Lock, Lockable, MapIn, Map, MapOut, Precall, Notify, Hear,
         AfterCall, KeepStatus, Run, Postcall, UnmapOut, Unmap, UnmapIn,
         Release, AfterRelease, Unlocked, Accepted
<1>5. ASSUME NEW t \in Threads, vm_destroy(t) PROVE HeldMaps'
  BY <1>5, Alone DEF vm_destroy, Destroyed, Notify, Hear, Free
<1>6. ASSUME NEW t \in Threads, IoCompleteRequest(t) PROVE HeldMaps'
  BY <1>6 DEF IoCompleteRequest
<1>7. CASE UNCHANGED vars
  BY <1>7 DEF vars
<1>8. ASSUME NEW v \in Ctxs, to_amx_callback_dispatch(v)
      PROVE  HeldMaps'
  BY <1>8, PointerHeard
<1> QED
  BY <1>1, <1>2, <1>3, <1>4, <1>5, <1>6, <1>7, <1>8 DEF Next, Step

\* vm_execute_function leaves only the module's data mapped.
LEMMA FreeMapsStep == IInv /\ [Next]_vars => FreeMaps'
<1> SUFFICES ASSUME IInv, [Next]_vars PROVE FreeMaps'
  OBVIOUS
<1> USE DEF IInv, TypeOK, ShapeInv, Shape, CallLabels, Labels, LoadLabels,
            HeldLabels, DestroyLabels, LockInv, PoolInv, ThreadBlocks, MapInv,
            HeldMaps, FreeMaps, InMapped, OutMapped
<1>1. CASE StartStop
  BY <1>1 DEF StartStop, DriverEntry, vm_callback_init, NextList, Lists,
         vm_callback_unwind, LastList, CreateDevice, vm_callback_destroy,
         driver_unload
<1>2. CASE Arrival
  BY <1>2 DEF Arrival, IrpCreate, IrpLoad, Begin, IrpExecute, IrpOther,
         IrpClose, CloseEntry, DestroyEntry
<1>3. ASSUME NEW t \in Threads, vm_load_binary(t) PROVE FreeMaps'
  BY <1>3 DEF vm_load_binary, Parse, AllocCopy, OutOfMemory, AllocContext,
         KeptOnOom, LoadImage, Created, Notify, Hear, Cas, Wins, Loser,
         DestroyEntry
<1>4. ASSUME NEW t \in Threads, Call(t) PROVE FreeMaps'
  BY <1>4 DEF Call, Lock, Lockable, MapIn, Map, MapOut, Precall, Notify, Hear,
         AfterCall, KeepStatus, Run, Postcall, UnmapOut, Unmap, UnmapIn,
         Release, AfterRelease, Unlocked, Accepted
<1>5. ASSUME NEW t \in Threads, vm_destroy(t) PROVE FreeMaps'
  BY <1>5 DEF vm_destroy, Destroyed, Notify, Hear, Free
<1>6. ASSUME NEW t \in Threads, IoCompleteRequest(t) PROVE FreeMaps'
  BY <1>6 DEF IoCompleteRequest
<1>7. CASE UNCHANGED vars
  BY <1>7 DEF vars
<1>8. ASSUME NEW v \in Ctxs, to_amx_callback_dispatch(v)
      PROVE  FreeMaps'
  BY <1>8, PointerHeard
<1> QED
  BY <1>1, <1>2, <1>3, <1>4, <1>5, <1>6, <1>7, <1>8 DEF Next, Step

\* vm_load_binary returns success only after main did.
LEMMA BootedAtCasStep == IInv /\ [Next]_vars => BootedAtCas'
<1> SUFFICES ASSUME IInv, [Next]_vars PROVE BootedAtCas'
  OBVIOUS
<1> USE DEF IInv, TypeOK, ShapeInv, Shape, CallLabels, Labels, LoadLabels,
            HeldLabels, DestroyLabels, AnswerInv, BootedAtCas
<1>1. CASE StartStop
  BY <1>1 DEF StartStop, DriverEntry, vm_callback_init, NextList, Lists,
         vm_callback_unwind, LastList, CreateDevice, vm_callback_destroy,
         driver_unload
<1>2. CASE Arrival
  BY <1>2 DEF Arrival, IrpCreate, IrpLoad, Begin, IrpExecute, IrpOther,
         IrpClose, CloseEntry, DestroyEntry
<1>3. ASSUME NEW t \in Threads, vm_load_binary(t) PROVE BootedAtCas'
  BY <1>3 DEF vm_load_binary, Parse, AllocCopy, OutOfMemory, AllocContext,
         KeptOnOom, LoadImage, Created, Notify, Hear, Cas, Wins, Loser,
         DestroyEntry
<1>4. ASSUME NEW t \in Threads, Call(t) PROVE BootedAtCas'
  BY <1>4 DEF Call, Lock, Lockable, MapIn, Map, MapOut, Precall, Notify, Hear,
         AfterCall, KeepStatus, Run, Postcall, UnmapOut, Unmap, UnmapIn,
         Release, AfterRelease, Unlocked, Accepted
<1>5. ASSUME NEW t \in Threads, vm_destroy(t) PROVE BootedAtCas'
  BY <1>5, Alone DEF vm_destroy, Destroyed, Notify, Hear, Free
<1>6. ASSUME NEW t \in Threads, IoCompleteRequest(t) PROVE BootedAtCas'
  BY <1>6 DEF IoCompleteRequest
<1>7. CASE UNCHANGED vars
  BY <1>7 DEF vars
<1>8. ASSUME NEW v \in Ctxs, to_amx_callback_dispatch(v)
      PROVE  BootedAtCas'
  BY <1>8, PointerHeard
<1> QED
  BY <1>1, <1>2, <1>3, <1>4, <1>5, <1>6, <1>7, <1>8 DEF Next, Step

\* Only a context whose main succeeded is installed.
LEMMA BootedOfFileStep == IInv /\ [Next]_vars => BootedOfFile'
<1> SUFFICES ASSUME IInv, [Next]_vars PROVE BootedOfFile'
  OBVIOUS
<1> USE DEF IInv, TypeOK, ShapeInv, Shape, CallLabels, Labels, LoadLabels,
            HeldLabels, DestroyLabels, OwnerInv, OneThread, ThreadOrFile,
            OneFile, Owns, Holds, FileInv, AnswerInv, BootedAtCas,
            BootedOfFile
<1>1. CASE StartStop
  BY <1>1 DEF StartStop, DriverEntry, vm_callback_init, NextList, Lists,
         vm_callback_unwind, LastList, CreateDevice, vm_callback_destroy,
         driver_unload
<1>2. CASE Arrival
  BY <1>2 DEF Arrival, IrpCreate, IrpLoad, Begin, IrpExecute, IrpOther,
         IrpClose, CloseEntry, DestroyEntry
<1>3. ASSUME NEW t \in Threads, vm_load_binary(t) PROVE BootedOfFile'
  BY <1>3 DEF vm_load_binary, Parse, AllocCopy, OutOfMemory, AllocContext,
         KeptOnOom, LoadImage, Created, Notify, Hear, Cas, Wins, Loser,
         DestroyEntry
<1>4. ASSUME NEW t \in Threads, Call(t) PROVE BootedOfFile'
  BY <1>4 DEF Call, Lock, Lockable, MapIn, Map, MapOut, Precall, Notify, Hear,
         AfterCall, KeepStatus, Run, Postcall, UnmapOut, Unmap, UnmapIn,
         Release, AfterRelease, Unlocked, Accepted
<1>5. ASSUME NEW t \in Threads, vm_destroy(t) PROVE BootedOfFile'
  BY <1>5 DEF vm_destroy, Destroyed, Notify, Hear, Free
<1>6. ASSUME NEW t \in Threads, IoCompleteRequest(t) PROVE BootedOfFile'
  <2> SUFFICES ASSUME NEW g \in Files, NEW v \in Ctxs, Holds(g, v)'
           PROVE  v \in booted'
    OBVIOUS
  <2>1. CASE g = obj[t]
    BY <1>6, <2>1 DEF IoCompleteRequest
  <2>2. CASE g # obj[t]
    BY <1>6, <2>2 DEF IoCompleteRequest
  <2> QED
    BY <2>1, <2>2
<1>7. CASE UNCHANGED vars
  BY <1>7 DEF vars
<1>8. ASSUME NEW v \in Ctxs, to_amx_callback_dispatch(v)
      PROVE  BootedOfFile'
  BY <1>8, PointerHeard
<1> QED
  BY <1>1, <1>2, <1>3, <1>4, <1>5, <1>6, <1>7, <1>8 DEF Next, Step

\* A load that destroys its context reports a failure.
LEMMA FailedLoadsStep == IInv /\ [Next]_vars => FailedLoads'
<1> SUFFICES ASSUME IInv, [Next]_vars PROVE FailedLoads'
  OBVIOUS
<1> USE DEF IInv, TypeOK, ShapeInv, Shape, CallLabels, Labels, LoadLabels,
            HeldLabels, DestroyLabels, AnswerInv, FailedLoads
<1>1. CASE StartStop
  BY <1>1 DEF StartStop, DriverEntry, vm_callback_init, NextList, Lists,
         vm_callback_unwind, LastList, CreateDevice, vm_callback_destroy,
         driver_unload
<1>2. CASE Arrival
  BY <1>2 DEF Arrival, IrpCreate, IrpLoad, Begin, IrpExecute, IrpOther,
         IrpClose, CloseEntry, DestroyEntry
<1>3. ASSUME NEW t \in Threads, vm_load_binary(t) PROVE FailedLoads'
  BY <1>3 DEF vm_load_binary, Parse, AllocCopy, OutOfMemory, AllocContext,
         KeptOnOom, LoadImage, Created, Notify, Hear, Cas, Wins, Loser,
         DestroyEntry
<1>4. ASSUME NEW t \in Threads, Call(t) PROVE FailedLoads'
  BY <1>4 DEF Call, Lock, Lockable, MapIn, Map, MapOut, Precall, Notify, Hear,
         AfterCall, KeepStatus, Run, Postcall, UnmapOut, Unmap, UnmapIn,
         Release, AfterRelease, Unlocked, Accepted
<1>5. ASSUME NEW t \in Threads, vm_destroy(t) PROVE FailedLoads'
  BY <1>5 DEF vm_destroy, Destroyed, Notify, Hear, Free
<1>6. ASSUME NEW t \in Threads, IoCompleteRequest(t) PROVE FailedLoads'
  BY <1>6 DEF IoCompleteRequest
<1>7. CASE UNCHANGED vars
  BY <1>7 DEF vars
<1>8. ASSUME NEW v \in Ctxs, to_amx_callback_dispatch(v)
      PROVE  FailedLoads'
  BY <1>8, PointerHeard
<1> QED
  BY <1>1, <1>2, <1>3, <1>4, <1>5, <1>6, <1>7, <1>8 DEF Next, Step

\* A load that reports success has installed a context.
LEMMA LoadInstalledStep == IInv /\ [Next]_vars => LoadInstalled'
<1> SUFFICES ASSUME IInv, [Next]_vars PROVE LoadInstalled'
  OBVIOUS
<1> USE DEF IInv, TypeOK, ShapeInv, Shape, CallLabels, Labels, LoadLabels,
            HeldLabels, DestroyLabels, FileInv, AnswerInv, LoadInstalled,
            FailedLoads, LoadedOk
<1>1. CASE StartStop
  BY <1>1 DEF StartStop, DriverEntry, vm_callback_init, NextList, Lists,
         vm_callback_unwind, LastList, CreateDevice, vm_callback_destroy,
         driver_unload
<1>2. CASE Arrival
  BY <1>2 DEF Arrival, IrpCreate, IrpLoad, Begin, IrpExecute, IrpOther,
         IrpClose, CloseEntry, DestroyEntry
<1>3. ASSUME NEW t \in Threads, vm_load_binary(t) PROVE LoadInstalled'
  BY <1>3 DEF vm_load_binary, Parse, AllocCopy, OutOfMemory, AllocContext,
         KeptOnOom, LoadImage, Created, Notify, Hear, Cas, Wins, Loser,
         DestroyEntry
<1>4. ASSUME NEW t \in Threads, Call(t) PROVE LoadInstalled'
  BY <1>4 DEF Call, Lock, Lockable, MapIn, Map, MapOut, Precall, Notify, Hear,
         AfterCall, KeepStatus, Run, Postcall, UnmapOut, Unmap, UnmapIn,
         Release, AfterRelease, Unlocked, Accepted
<1>5. ASSUME NEW t \in Threads, vm_destroy(t) PROVE LoadInstalled'
  BY <1>5 DEF vm_destroy, Destroyed, Notify, Hear, Free
<1>6. ASSUME NEW t \in Threads, IoCompleteRequest(t) PROVE LoadInstalled'
  BY <1>6 DEF IoCompleteRequest
<1>7. CASE UNCHANGED vars
  BY <1>7 DEF vars
<1>8. ASSUME NEW v \in Ctxs, to_amx_callback_dispatch(v)
      PROVE  LoadInstalled'
  BY <1>8, PointerHeard
<1> QED
  BY <1>1, <1>2, <1>3, <1>4, <1>5, <1>6, <1>7, <1>8 DEF Next, Step

\* Two loads that report success are on different file objects.
LEMMA LoadsDifferStep == IInv /\ [Next]_vars => LoadsDiffer'
<1> SUFFICES ASSUME IInv, [Next]_vars PROVE LoadsDiffer'
  OBVIOUS
<1> USE DEF IInv, TypeOK, ShapeInv, Shape, CallLabels, Labels, LoadLabels,
            HeldLabels, DestroyLabels, FileInv, AnswerInv, LoadInstalled,
            LoadsDiffer, FailedLoads, LoadedOk
<1>1. CASE StartStop
  BY <1>1 DEF StartStop, DriverEntry, vm_callback_init, NextList, Lists,
         vm_callback_unwind, LastList, CreateDevice, vm_callback_destroy,
         driver_unload
<1>2. CASE Arrival
  BY <1>2 DEF Arrival, IrpCreate, IrpLoad, Begin, IrpExecute, IrpOther,
         IrpClose, CloseEntry, DestroyEntry
<1>3. ASSUME NEW t \in Threads, vm_load_binary(t) PROVE LoadsDiffer'
  BY <1>3 DEF vm_load_binary, Parse, AllocCopy, OutOfMemory, AllocContext,
         KeptOnOom, LoadImage, Created, Notify, Hear, Cas, Wins, Loser,
         DestroyEntry
<1>4. ASSUME NEW t \in Threads, Call(t) PROVE LoadsDiffer'
  BY <1>4 DEF Call, Lock, Lockable, MapIn, Map, MapOut, Precall, Notify, Hear,
         AfterCall, KeepStatus, Run, Postcall, UnmapOut, Unmap, UnmapIn,
         Release, AfterRelease, Unlocked, Accepted
<1>5. ASSUME NEW t \in Threads, vm_destroy(t) PROVE LoadsDiffer'
  BY <1>5 DEF vm_destroy, Destroyed, Notify, Hear, Free
<1>6. ASSUME NEW t \in Threads, IoCompleteRequest(t) PROVE LoadsDiffer'
  BY <1>6 DEF IoCompleteRequest
<1>7. CASE UNCHANGED vars
  BY <1>7 DEF vars
<1>8. ASSUME NEW v \in Ctxs, to_amx_callback_dispatch(v)
      PROVE  LoadsDiffer'
  BY <1>8, PointerHeard
<1> QED
  BY <1>1, <1>2, <1>3, <1>4, <1>5, <1>6, <1>7, <1>8 DEF Next, Step

-----------------------------------------------------------------------------
(***************************************************************************)
(* The parts together: IInv is an inductive invariant of Driver.           *)
(***************************************************************************)
LEMMA InitIInv == Init => IInv
<1> SUFFICES ASSUME Init PROVE IInv
  OBVIOUS
<1> USE DEF Init, Labels, LoadLabels, HeldLabels, DestroyLabels, CallLabels
<1>1. TypeOK
  BY DEF TypeOK, Publics, Statuses, Blocks, Buffers
<1>2. ShapeInv /\ FileInv /\ LockInv
  BY DEF ShapeInv, Shape, FileInv, LockInv
<1>3. OwnerInv /\ PoolInv
  BY DEF OwnerInv, OneThread, ThreadOrFile, OneFile, ExecutesOwn, PoolInv,
         ThreadBlocks, FileBlocks, BlockOwned, Owns, Holds
<1>4. ToldInv
  BY DEF ToldInv, ClientProtocol, CallHasThread, ThreadInCall, NotYetTold,
         ToldAlive, ToldKnown, ToldOfFile, NoGhostContext, Inside, Holds
<1>5. MapInv /\ AnswerInv
  BY DEF MapInv, HeldMaps, FreeMaps, AnswerInv, BootedAtCas, BootedOfFile,
         FailedLoads, LoadInstalled, LoadsDiffer, LoadedOk, Holds
<1> QED
  BY <1>1, <1>2, <1>3, <1>4, <1>5 DEF IInv

LEMMA IInvStep == IInv /\ [Next]_vars => IInv'
<1> SUFFICES ASSUME IInv, [Next]_vars PROVE IInv'
  OBVIOUS
<1>1. TypeOK' /\ ShapeInv' /\ FileInv' /\ LockInv'
  BY TypeOKStep, ShapeInvStep, FileInvStep, LockInvStep
<1>2. OwnerInv'
  BY OneThreadStep, ThreadOrFileStep, OneFileStep, ExecutesOwnStep
     DEF OwnerInv
<1>3. PoolInv'
  BY ThreadBlocksStep, FileBlocksStep, BlockOwnedStep DEF PoolInv
<1>4. ToldInv'
  BY ClientProtocolStep, CallHasThreadStep, ThreadInCallStep, NotYetToldStep,
     ToldAliveStep, ToldKnownStep, ToldOfFileStep, NoGhostContextStep
     DEF ToldInv
<1>5. MapInv' /\ AnswerInv'
  BY HeldMapsStep, FreeMapsStep, BootedAtCasStep, BootedOfFileStep,
     FailedLoadsStep, LoadInstalledStep, LoadsDifferStep
     DEF MapInv, AnswerInv
<1> QED
  BY <1>1, <1>2, <1>3, <1>4, <1>5 DEF IInv

LEMMA Invariance == Spec => []IInv
  BY InitIInv, IInvStep, PTL DEF Spec

(***************************************************************************)
(* Type correctness of the device: every variable keeps its domain.        *)
(***************************************************************************)
THEOREM TypeCorrect == Spec => []TypeOK
<1>1. IInv => TypeOK
  BY DEF IInv
<1> QED
  BY <1>1, Invariance, PTL

(***************************************************************************)
(* vm_destroy_internal never frees a block another IRP still works on.     *)
(***************************************************************************)
THEOREM MemorySafe == Spec => []NoUseAfterFree
<1>1. IInv => NoUseAfterFree
  <2> SUFFICES ASSUME IInv, NEW t \in Threads, NEW b \in Needs(t)
               PROVE  b \in pool[ctx[t]]
    BY DEF NoUseAfterFree
  <2> USE DEF IInv, TypeOK, ShapeInv, Shape, PoolInv, ThreadBlocks
  <2>1. CASE pc[t] = "alloc_context"
    BY <2>1 DEF Needs
  <2>2. CASE pc[t] = "load_image"
    BY <2>2 DEF Needs
  <2>3. CASE /\ pc[t] \notin {"idle", "complete", "parse", "alloc_copy"}
             /\ pc[t] \notin {"alloc_context", "load_image"}
    <3>1. b \in Blocks
      BY <2>3 DEF Needs
    <3> QED
      BY <2>3, <3>1 DEF Blocks
  <2>4. CASE pc[t] \in {"idle", "complete", "parse", "alloc_copy"}
    BY <2>4 DEF Needs
  <2> QED
    BY <2>1, <2>2, <2>3, <2>4
<1> QED
  BY <1>1, Invariance, PTL

(***************************************************************************)
(* Each block vm_load_binary allocates has exactly one owner, until it is  *)
(* freed: nothing leaks and nothing is freed twice.                        *)
(***************************************************************************)
LEMMA SingleOwner == IInv => OneOwner
<1> SUFFICES ASSUME IInv, NEW v \in Ctxs, pool[v] # {}
             PROVE  \E o \in Owners(v) : Owners(v) = {o}
  BY DEF OneOwner
<1> USE DEF IInv, OwnerInv
<1>1. (\E t \in Threads : Owns(t, v)) \/ (\E f \in Files : Holds(f, v))
  BY DEF PoolInv, BlockOwned
<1>2. CASE \E t \in Threads : Owns(t, v)
  <2>1. PICK t \in Threads : Owns(t, v)
    BY <1>2
  <2>2. Owners(v) = {t}
    BY <2>1 DEF Owners, OneThread, ThreadOrFile, Owns, Holds
  <2> QED
    BY <2>2
<1>3. CASE \E f \in Files : Holds(f, v)
  <2>1. PICK f \in Files : Holds(f, v)
    BY <1>3
  <2>2. Owners(v) = {f}
    BY <2>1 DEF Owners, OneFile, ThreadOrFile, Owns, Holds
  <2> QED
    BY <2>2
<1> QED
  BY <1>1, <1>2, <1>3

THEOREM NoLeak == Spec => []OneOwner
  BY SingleOwner, Invariance, PTL

(***************************************************************************)
(* The clients of the vm_callback_ notifications see one life after        *)
(* another at each address, and none after its context is freed.  In a     *)
(* life every post-call ends the pre-call just before it; pre-calls that   *)
(* stay open come from vetoes and from calls by pointers (vm.cpp:466), and *)
(* only the latter come outside a life.                                    *)
(***************************************************************************)
THEOREM ClientsInStep == Spec => []ClientsInformed
<1>1. IInv => ClientsInformed
  BY DEF IInv, ToldInv, ClientsInformed
<1> QED
  BY <1>1, Invariance, PTL

(***************************************************************************)
(* vm_execute_function leaves the buffer table of a VM as it found it, on  *)
(* its error paths too.                                                    *)
(***************************************************************************)
THEOREM BuffersBalanced == Spec => []MapsBalanced
<1>1. IInv => MapsBalanced
  <2> SUFFICES ASSUME IInv, NEW f \in Files, fsctx[f] # NULL,
                      file[f] = "open", mutex[fsctx[f]] = NULL
               PROVE  mapped[fsctx[f]] = {"data"}
    BY DEF MapsBalanced
  <2>1. fsctx[f] \in Ctxs /\ mapped[fsctx[f]] \subseteq Buffers
    BY DEF IInv, TypeOK
  <2>2. "image" \in pool[fsctx[f]]
    BY <2>1 DEF IInv, PoolInv, FileBlocks, Holds
  <2>3. /\ "data" \in mapped[fsctx[f]]
        /\ "in" \notin mapped[fsctx[f]]
        /\ "out" \notin mapped[fsctx[f]]
    BY <2>1, <2>2 DEF IInv, MapInv, FreeMaps
  <2> QED
    BY <2>1, <2>3 DEF Buffers
<1> QED
  BY <1>1, Invariance, PTL

(***************************************************************************)
(* An ioctl_ function runs in a started VM, announced to the clients, with *)
(* its buffers mapped, and alone.                                          *)
(***************************************************************************)
THEOREM IoctlsAdmitted == Spec => []IoctlsAreAdmitted
<1>1. IInv => IoctlsAreAdmitted
  <2> SUFFICES ASSUME IInv, NEW t \in Threads, Inside(t), fn[t] = "ioctl"
               PROVE  /\ ctx[t] \in booted
                      /\ told[ctx[t]] = "in_call"
                      /\ mapped[ctx[t]] = Buffers
                      /\ \A u \in Threads \ {t} : Inside(u) => ctx[u] # ctx[t]
    BY DEF IoctlsAreAdmitted
  <2> USE DEF IInv, TypeOK, ShapeInv, Shape
  <2>1. pc[t] \in HeldLabels /\ irp[t] = "execute" /\ ctx[t] \in Ctxs
    BY DEF Inside, HeldLabels, CallLabels
  <2>2. obj[t] \in Files /\ Holds(obj[t], ctx[t])
    BY <2>1 DEF FileInv, OwnerInv, ExecutesOwn, Holds
  <2>3. ctx[t] \in booted
    BY <2>1, <2>2 DEF AnswerInv, BootedOfFile
  <2>4. told[ctx[t]] = "in_call"
    BY DEF ToldInv, ThreadInCall
  <2>5. mapped[ctx[t]] = Buffers
    <3>1. "in" \in mapped[ctx[t]] /\ "out" \in mapped[ctx[t]]
      BY <2>1 DEF MapInv, HeldMaps, InMapped, OutMapped, Inside
    <3>2. "data" \in mapped[ctx[t]]
      BY <2>1, <2>2 DEF PoolInv, FileBlocks, MapInv, FreeMaps
    <3> QED
      BY <2>1, <3>1, <3>2 DEF Buffers
  <2>6. \A u \in Threads \ {t} : Inside(u) => ctx[u] # ctx[t]
    BY <2>1 DEF LockInv, Inside, HeldLabels
  <2> QED
    BY <2>3, <2>4, <2>5, <2>6
<1> QED
  BY <1>1, Invariance, PTL

(***************************************************************************)
(* The interlocked exchange of dispatch_irp lets one load per file object  *)
(* succeed.                                                                *)
(***************************************************************************)
THEOREM LoadsExclusive == Spec => []OneLoadWins
<1>1. IInv => OneLoadWins
  BY DEF IInv, AnswerInv, LoadInstalled, LoadsDiffer, OneLoadWins
<1> QED
  BY <1>1, Invariance, PTL

(***************************************************************************)
(* driver_unload, and every failure of DriverEntry, leave nothing behind.  *)
(***************************************************************************)
THEOREM CleanUnload == Spec => []NothingOutlivesDriver
<1>1. IInv => NothingOutlivesDriver
  <2> SUFFICES ASSUME IInv PROVE NothingOutlivesDriver
    OBVIOUS
  <2>1. driver # "running" => \A v \in Ctxs : pool[v] = {}
    BY DEF IInv, FileInv, ShapeInv, Shape, PoolInv, BlockOwned, Owns, Holds
  <2> QED
    BY <2>1 DEF IInv, FileInv, NothingOutlivesDriver
<1> QED
  BY <1>1, Invariance, PTL

(***************************************************************************)
(* FsContext is written once in the life of a file object, so the second   *)
(* read of it in dispatch_irp finds what the first one found.              *)
(***************************************************************************)
THEOREM FsContextStable == Spec => FsContextSticky
<1> DEFINE A == \A f \in Files : fsctx[f] # NULL /\ fsctx'[f] # fsctx[f]
                  => file[f] = "closing" /\ file'[f] = "none"
<1>1. IInv /\ [Next]_vars => [A]_vars
  <2> SUFFICES ASSUME IInv, [Next]_vars, NEW f \in Files, fsctx[f] # NULL,
                      fsctx'[f] # fsctx[f]
               PROVE  file[f] = "closing" /\ file'[f] = "none"
    OBVIOUS
  <2> USE DEF IInv, TypeOK, ShapeInv, Shape, FileInv
  <2>1. ASSUME NEW t \in Threads, Cas(t) PROVE FALSE
    BY <2>1 DEF Cas, Wins, LoadLabels
  <2>2. ASSUME NEW t \in Threads, IoCompleteRequest(t)
        PROVE  file[f] = "closing" /\ file'[f] = "none"
    BY <2>2 DEF IoCompleteRequest
  <2>3. fsctx' # fsctx
    OBVIOUS
  <2>4. (\E t \in Threads : Cas(t) \/ IoCompleteRequest(t))
    <3>1. ~StartStop
      BY <2>3 DEF StartStop, DriverEntry, vm_callback_init,
         vm_callback_unwind, CreateDevice, driver_unload
    <3>2. ~Arrival
      BY <2>3 DEF Arrival, IrpCreate, IrpLoad, IrpExecute, IrpOther, IrpClose
    <3>3. ASSUME NEW t \in Threads, Call(t) PROVE FALSE
      BY <2>3, <3>3 DEF Call, Lock, MapIn, MapOut, Map, Precall, Run,
         Postcall, UnmapOut, UnmapIn, Unmap, Release
    <3>4. ASSUME NEW t \in Threads, vm_destroy(t) PROVE FALSE
      BY <2>3, <3>4 DEF vm_destroy, Destroyed, Free
    <3>5. ASSUME NEW t \in Threads, vm_load_binary(t) PROVE Cas(t)
      BY <2>3, <3>5 DEF vm_load_binary, Parse, AllocCopy, AllocContext,
         LoadImage, Created
    <3>6. ~UNCHANGED vars
      BY <2>3 DEF vars
    <3>7. ASSUME NEW v \in Ctxs, to_amx_callback_dispatch(v) PROVE FALSE
      BY <2>3, <3>7 DEF to_amx_callback_dispatch
    <3> QED
      BY <3>1, <3>2, <3>3, <3>4, <3>5, <3>6, <3>7 DEF Next, Step
  <2> QED
    BY <2>1, <2>2, <2>4
<1> QED
  BY <1>1, Invariance, PTL DEF Spec, FsContextSticky
=============================================================================
