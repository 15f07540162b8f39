# PawnIO, specified

PawnIO is a Windows driver.  An application opens `\Device\PawnIO`, loads a
signed, compiled Pawn module (AMX) into the file object it got, and then calls
the module's `ioctl_` functions; the module reaches the hardware through the
driver's native functions.  Other drivers can watch: they register callbacks
for the creation, the calls and the destruction of virtual machines.

This directory holds TLA+ modules of that program, configurations with which
TLC checks them on small instances, and proofs that TLAPS checks for every
instance.  `PROJECT.json` ties every definition to the lines of the source it
stands for.  Source paths below are relative to `src/PawnIO/`.

    tlc -workers 2 -config MCDriver.cfg MCDriver     # a model checking run
    tlapm DriverProofs.tla                           # a proof module


## 1. Inventory

| Part | Source | State it keeps | Operations |
|---|---|---|---|
| Device, VM life cycle | `driver.cpp`, `vm.cpp` 711-932 | `FsContext` of a file object; a `context` per VM: loader, AMX, fast mutex | DriverEntry, unload; create, close, load, execute, other IRPs; `vm_load_binary`, `vm_execute_function`, `vm_destroy` |
| Module loader | `amx_loader.h` | one pool block with code, data, publics, pubvars, natives, names; registers | `loader::init`, `~loader`, `get_public` |
| VM event callbacks | `callbacks.cpp`, `public.h` | four lists of callbacks, an ERESOURCE each | register, unregister, announce (vetoable or not), init, destroy |
| Intrusive lists | `klist.h`, `kallocator.h` | rings of LIST_ENTRY | insert, erase, clear, move, swap |
| AMX callback slots | `vm.cpp` 428-558 | 256 slots (context, function), compiled stubs that call into them | `callback_alloc`, `callback_free`, `to_amx_callback_dispatch` |
| Native calls | `vm.cpp` 71-426 | wrappers on the stack, VM data memory | argument wrappers, `debug_print`, `get_proc_address`, `get_public` |
| Signature check | `signature.cpp`, `vm.cpp` 702-738 | handles of the cryptographic provider, a digest on the stack | SHA-256, RSA verification against the trusted keys |
| Native functions | `natives_impl_windows.cpp`, `msrmrs.cpp` | the machine | memory access, compare-and-exchange, CPU affinity, PCI configuration, control and debug registers; others of one instruction or kernel call each |
| Kernel runtime stubs | `kernel_stubs.c`, `kernel_api_wrappers.c`, `stdafx.cpp` | none | string and memory routines, forwarders |
| AMX interpreter | a git submodule, not in the tree | | `call`, memory translation |
| Assembly, build | `x64.asm`, `x86.asm`, project files | none | `_crdr`: one stub per register and direction |

How they interact:

* `dispatch_irp` (driver.cpp) runs on the thread of the caller, any number of
  times at once.  It reads and writes `FsContext`, and calls the three entry
  points of `vm.cpp`.  There is no lock on the file object and no reference
  count on a context: loads race by a compare-and-exchange of `FsContext`,
  executes rely on the I/O manager not to close a file object under them.
* The entry points of `vm.cpp` take the fast mutex of a context around every
  call of module code and every announcement to other drivers.  The mutex is
  released between the steps of a load (announce, `main`, publish) and of a
  destruction (`unload`, announce, free).
* An announcement walks a `klist` under the shared side of an ERESOURCE.
  Registering and unregistering take the exclusive side.  The callbacks are
  code of other drivers; created and pre-call callbacks can veto.
* Module code calls natives while its mutex is held.  `callback_alloc` gives a
  module a kernel function pointer; the kernel may call it from any thread,
  which then takes the mutex of the VM for itself.
* `vm_load_binary` copies the file, checks the signature on the copy and hands
  the loader a pointer to the module's code within that same copy
  (vm.cpp:736-772).  The copy and the loader's block live as long as the
  context.

What is hard here: interleavings of IRPs on one file object; half-way vetoes;
every error path of a load that has already allocated, announced or run
something; reuse of pool addresses; unregistration against an announcement
under way; lock-free claiming of slots; two passes over a file where the
second trusts the first; results written back by destructors, on error paths
too.  There is no persistent state, no network and no timeout, so crash
recovery, message loss and retries do not occur.  `PROJECT.json` lists each
hazard at its line.

What makes each part correct:

* Device and VMs: no access to freed memory, one owner of every allocation,
  at most one load wins, clients hear a sensible story about every VM,
  mappings balance, an ioctl runs only in an admitted VM and alone, IRPs
  complete, an unloaded driver leaves nothing behind.
* Signature check: the loader sees only code that a trusted key signed, a
  signed module is refused only for a failure of the provider, every handle
  is closed on every path.
* Loader: writes stay in the block and in their region, names keep their
  terminator, the VM gets the tables of the file, the stack starts on the last
  cell of the data region, if there is one.
* Callbacks: no iterator on a freed node, no call after unregister returned,
  no cookie for what is not a node (NULL instead, which unregister ignores),
  announcements atomic to registrations.
* Lists: links agree both ways, lists do not merge, nothing leaks, operations
  are those of sequences.
* Slots: no slot has two owners; a call between alloc and free of its pointer
  runs its own function in its own VM and alone there, and never sees a
  half-made slot; "full" means full.
* Native calls: a native sees the arguments the module passed, writes only
  where they point, and a message prints the arguments it was given.
* Native functions: a status is right about what was done; a write stays in
  its width; pairs of set and restore nest, as far as restore can tell which
  sets failed; what a module is told of a device
  was true during the call; a register is the one that was named.
* Runtime stubs: the functions do what C says of them.


## 2. Modules

| Module | Stands for | |
|---|---|---|
| `Driver` | driver.cpp; vm.cpp 456-473, 711-932; callbacks.cpp 134-175 | composes the device, the VM life cycle, the mutex and the four announcements |
| `DriverProofs` | | proofs about `Driver` |
| `Signature` | signature.cpp; vm.cpp 702-738 | |
| `AmxLoader` | amx_loader.h | |
| `AmxLoaderProofs` | | proofs about `AmxLoader` |
| `LoadBinary` | vm.cpp 726-798 | composes `Signature`, the pool blocks and `AmxLoader` |
| `LoadBinaryProofs` | | proofs about `LoadBinary`, with those of the loader |
| `ListSpec` | | abstract: sequences |
| `KList` | klist.h | implements `ListSpec` |
| `KListProofs` | | proofs about `KList` |
| `CallbackSpec` | public.h 60-140 | abstract: a registry and atomic announcements |
| `CallbackList` | callbacks.cpp | implements `CallbackSpec` |
| `CallbackListProofs` | | proofs about `CallbackList` |
| `AmxCallbackSpec` | | abstract: a table of function pointers |
| `AmxCallbacks` | vm.cpp 428-558 | implements `AmxCallbackSpec` |
| `AmxCallbacksProofs` | | proofs about `AmxCallbacks` |
| `NativeCall` | vm.cpp 71-426 | |
| `NativeCallProofs` | | proofs about `NativeCall` |
| `HostMemory` | natives_impl_windows.cpp 105-214 | |
| `Affinity` | natives_impl_windows.cpp 61-100 | |
| `PciConfig` | natives_impl_windows.cpp 227-335 | |
| `Registers` | natives_impl_windows.cpp 531-541; `_crdr` of x64.asm | |
| `KernelCrt` | kernel_stubs.c | |
| `NativesProofs` | | proofs about `HostMemory`, `Affinity`, `PciConfig`, `Registers`, `KernelCrt` |
| `MC...` | | instances for TLC |

A definition `MutantX` next to `X` is X with one plausible mistake.  It is
never used by the specification; it is there to be put in the place of `X`, to
see that a property notices.

### Driver

A thread carries one IRP at a time.  `pc` names the step it takes next, `irp`,
`obj`, `ctx`, `fn` and `status` are the local variables of `dispatch_irp` and
of the functions it calls.  A step runs from one access to shared state to the
next: reading `FsContext` at the start of a load or an execute, each pool
allocation, the announcement of created, the exchange, taking the mutex,
mapping and unmapping each buffer, the pre-call, the module's code, the
post-call, releasing the mutex, the announcement of destroyed, freeing.

* `IrpLoad`, `Parse`, `AllocCopy`, `AllocContext`, `LoadImage`, `Created`,
  `Lock` ... `Release`, `Cas` are `vm_load_binary` and the load branch of
  `dispatch_irp`.  Each allocation can fail, the signature and the loader can
  refuse, a client can veto, `main` can be absent, fail, or return an error.
* `IrpExecute`, `Lock`, `MapIn`, `MapOut`, `Precall`, `Run`, `Postcall`,
  `UnmapOut`, `UnmapIn`, `Release` are `vm_execute_function`.
* `IrpClose`, `Lock` ... `Release`, `Destroyed`, `Free` are `vm_destroy`, also
  used by the loser of the exchange and by a load that was refused late.
* `vm_callback_init`, `vm_callback_unwind`, `CreateDevice`, `driver_unload`
  start and stop the driver, failures of each list and of the device included.

* `to_amx_callback_dispatch` is a call of a callback pointer by the kernel, at
  any time and on a thread of its own, as clients see it: a pre-call on the
  same contexts, and no post-call.  The mutex of the VM is held throughout, so
  that it is one step here.  `pointed` are the addresses whose modules have
  run and may have left a pointer in a slot; addresses stay in it, also when
  the VM there is gone and another one is being loaded.  What becomes of the
  slots is the subject of `AmxCallbacks`, also the calls that end in freed
  memory or are vetoed (they stop the machine) and are no step here.

`pool[v]` are the live blocks of the VM at address `v`; addresses are chosen
by the pool among those without blocks, so a freed address comes back at
once.  `told[v]` is what one monitored client believes of `v`: an automaton
that is `"confused"` by an event that makes no sense.  Pre-calls that no
post-call ends are no confusion: those of vetoed calls and of calls by
pointers make `"alive"` `"silent"`, and the latter may come before created and
after destroyed.  A veto ends an
announcement half-way, and the monitored client may stand before or behind
the one that vetoed; both are tried.  `booted` records the VMs whose `main`
succeeded.

Assumed of the I/O manager: a close comes after every other IRP on its file
object has been completed, none follows, and a driver is unloaded when no file
object is left.  Contents of buffers, names of functions and IRP codes are
left out.

### Signature, LoadBinary

`at` names the call of the cryptographic provider that `check_signature` makes
next; every call may fail, and `faults` records that one did.  `OpenSha256`
... `CloseSha256` are `calculate_sha256`, `OpenRsa` ... `CloseRsa`
`verify_sig`, `Hashed`, `TryKey`, `Tried`, `NoMoreKeys` the loop over the
trusted keys; `ReadHeader` splits the file.  A digest is represented by the
code it is the digest of.  The digest buffer is not initialised in the code,
so that it starts as anything, also as the digest of a module that was checked
before on the same stack.  The code has one trusted key; the model takes any
list of them, since the loop is written for one.

`calculate_sha256` reports success and writes no digest when the provider says
that its length property has a size other than 4.  No provider does, and
`ParsesOnlySigned` excepts that case by name.  A build with
`PAWNIO_UNRESTRICTED` ignores the verdict on purpose and is not modelled.

`LoadBinary` runs the check, the two allocations and the loader one after the
other.  Its properties speak of all three: whether what reaches the loader is
what was signed.  (`Driver` keeps the whole of it as one step with every
outcome.)

### AmxLoader

One loader and one file.  The file is a record of its header fields, the
offsets of its zero bytes, and what the words of table entries read; so a
table, a name or a section can lie anywhere, overlap or run off the end.
`CheckHeader`, `CountSections`, `CountEntry`, `CountRefused`, `CountNext` are
the first pass, `Allocate` the pool block, `Copy` and `Map` its regions,
`FillEntry` and `FillNext` the second pass, `Finish` the last check and the
registers, `Destroy` the destructor.  `written` collects the byte ranges of
the block that are written, with the region they are meant for.  The 32-bit
arithmetic of `stp - hea` wraps at `U32`.

### KList, ListSpec

`flink` and `blink` of heads and nodes, exactly as the LIST_ENTRY routines
assign them.  `clear` erases one node per step, as the code does; the move
assignment is a clear that then takes the other list.  `owner` is a history
variable: the list a node was put in.  `ListSpec` has one sequence per list;
the refinement mapping walks the ring.

### CallbackList, CallbackSpec

Register (`add`, `emplace_front`, `ReturnCookie`), unregister (`remove`,
`erase`, `Unlock`) and announce (`call`, `begin`, `Invoke`, `Continue`,
`Veto`, `end`), with every point at which another thread can act.  The
ERESOURCE is outside the repository and modelled from its contract: shared
requests wait behind exclusive ones, a release by the exclusive owner admits
all shared waiters, the last shared release the next exclusive one.  An
iterator that rests on a freed node may continue anywhere (`Successors`): the
properties would show it.  `KList` justifies taking the list as a sequence.

Assumed: clients unregister only cookies they got, each once, or the `NULL` of
a registration that failed (which `remove` ignores); callbacks return, and do not register or unregister (the resource is not recursive in
that direction: the thread would wait for itself, see the hazards); nobody
calls into a driver that is being unloaded.

### AmxCallbacks, AmxCallbackSpec

`Alloc`, `Scan`, `Claim`, `SetCip`, `Full` are `to_amx_callback_alloc`:
reading a slot, claiming it and setting its function are three steps.  `Free`,
`ClearCtx` are `to_amx_callback_free`, `Dispatch`, `ReadCtx`, `Lock`,
`Precall`, `Return`, `CallFails` are `to_amx_callback_dispatch`.  `stop` is a
`__fastfail`.  Module code that runs by an ioctl is `Enter` ... `Exit`.

Nothing is assumed of modules and of the kernel: any pointer is called at any
time, also before alloc returns it, after free, and after its VM is gone;
`Free` and `FreeUnknown` are given any value, the own pointers, those of other
VMs, freed ones and what is no pointer; entry points may be 0; a VM is
destroyed with pointers left (`Destroy`), and another may come at its address.
Three histories say what of this is in order.  `granted[s]` is what slot `s`
was returned for, from alloc to free or the end of the VM.  `leaked` are the
slots that outlived their VM.  `stale` are the threads whose call is, or has
come to be, outside a grant.  `stop` is why the machine has stopped: a fast
fail (`"empty"`, `"veto"`, `"failed"`, `"foreign"`, `"unknown"`), or
`"freed"` where a thread reads or holds a context that is freed, after which
anything may happen.  The table of `AmxCallbackSpec` has an entry of a slot
while its context and function are set; calls within a grant must run what it
says, calls outside one are only kept from running beside others.

A pointer is called on threads that are not in a VM.  That of a thread inside
one waits for the mutex its own thread holds (see the hazards).

### NativeCall

A module calls a native with `argc` and `argv`.  `InitArg` is one wrapper's
`init`, `RunNative` the native, which may leave anything in its references,
`WriteBack` one destructor.  Destructors run from the first argument to the
last, which is what `std::tuple` of the compiler the project is built with
does.  A refused call goes to the destructors as well.  `CallString`,
`FormatChar`, `FetchArgs` are `debug_print` character by character, with the
message as a sequence of tokens, since the properties are about which tokens
fit and which arguments they take; `it` is the code's pointer into the
message, that is, how many characters have been printed.  `LookUp` is the two
natives that copy a name.  A cell's value is an address and a character at
once.  Return values are left out.

### HostMemory, Affinity, PciConfig, Registers

These are native functions behind the wrappers of `NativeCall`.

* `HostMemory`: two modules, in two threads, increment a byte each of one word
  of memory.  A module goes at its byte by `virtual_read_byte` and
  `virtual_write_byte` (or the physical ones), or at the word by
  `virtual_read_word` and a loop of `virtual_cmpxchg_word2`.  `(T)v` and the
  signed comparison of `virtual_cmpxchg` are modelled at both widths; an
  access may raise an exception, in which case nothing has been done.
* `Affinity`: `cpu_set_affinity` and `cpu_restore_affinity`, nested, with
  indices beyond the processors and beyond a ULONG.  It is assumed, as the
  code does, that `KeSetSystemGroupAffinityThread` gives zeros only when it
  fails.  When there is no such processor the native returns before it writes
  its output, and the wrapper gives the module back what was in its array:
  `arrays` is what that may be, zeros or the output of an earlier set.  A
  module calls restore for every set.  `astray` is a history: the threads that
  were moved last by restoring what such a failed set had left.
* `PciConfig`: `pci_config_read` and `pci_config_write` with the two HAL calls
  apart, and a device that comes and goes at any time.  What the HAL returns
  is modelled from how the code reads it: 0 without a bus, 2 without a device,
  else the bytes transferred.
* `Registers`: `crdr_wrap`, the offset it composes, the jump into `_crdr`, and
  the 64 stubs with opcode, REX prefix and operand byte.  A register that does
  not exist stops the machine: these natives have no exception handler.

### KernelCrt

The memory and string functions that the x86 build links in place of the C
library, one step per byte.  `Defined` says which calls C defines (buffers
within memory, strings terminated, no overlap but for `memmove`); only those
are made.  `strncpy` has a run of its own, see the findings.


## 3. Runs

| Run | Instance | Shows |
|---|---|---|
| `driver` | 2 threads, 2 file objects, 2 contexts; 761,232 states | `ClientsInformed`, `MapsBalanced`, `IoctlsAreAdmitted`, `OneLoadWins`, `NoUseAfterFree`, `OneOwner`, `NothingOutlivesDriver`, `FsContextSticky` |
| `driver_live` | 2 threads, 1 file object, fairness; 468,036 states | `IrpCompletes` |
| `load` | 4 keys, signed, forged and malformed files; every intact image of the shapes below, and damaged ones; 110,287 states | `ParsesOnlySigned`, `SignedIsAccepted`, `HandlesBalanced`, `WritesInRegion`, `TablesComplete`, `StackPlaced` |
| `loader_natives`, `loader_order` | the same images | two findings |
| `klist` | 2 lists, 4 nodes, and beside them 3 threads and 1 callback, fairness; 51,880 states | `DoublyLinked`, `RingsApart`, `NoLeak`, `ClearEnds`, implements `ListSpec`; `CallsReturn` |
| `callbacks` | 3 threads, 2 nodes; 631,896 states | `IteratorsLive`, `NoLateCall`, `CookiesAreNodes`, implements `CallbackSpec` |
| `slots` | 2 threads, 2 VMs, 2 slots, entry point 0 and two others; 1,225,525 states | `SlotsExclusive`, `FullOnlyIfFull`, `PointerRunsItsFunction`, `StopsForCause`, implements `AmxCallbackSpec` |
| `slots_postcall` | 2 threads, 2 VMs, 1 slot | a finding |
| `natives` | six kinds of native side by side; 1,747,985 states | `ArgsAreMeant`, `OutputsLand`, `RefusedOnlyZeroes`, `FaultsOnlyIfRefused`, `ShowsItsArguments`, `BytesAreTheirOwners`, `AffinityFollowsSets`, `ToldOfTheDevice`, `RegistersAsNamed`, `MeetsC` |
| `affinity`, `strncpy` | the same | two findings |

Types are part of the inductive invariants, which are proved for every
instance (see 4.), and are in no run.  The kinds of `natives` share no state:
a behaviour of `MCNatives` is about one of them, and the run explores the
union; so does `klist` of the lists and of one list of callbacks.

Why the bounds are enough:

* `Driver`: two racing loads need two threads and two contexts; an execute
  meets a load, an execute or a close of the other thread.  Contexts of
  different file objects share only the pool, hence two file objects with
  addresses that are reused.  The proofs then drop the bounds: they hold of
  every safety property of this run, for any number of threads.
* `Signature`: four keys, of which one is too short, one of another algorithm,
  and two are good; files signed by each of them and by a stranger, with the
  digest of their own or of other code, too short for a header, or with a
  signature length beyond the file or the word.
* `AmxLoader`: up to 2 publics, 3 natives and 1 pubvar, 0 to 2 cells of code
  and 0 to 3 of data, two sizes of table entries, each shape intact; and, for
  a part of the shapes, damaged in one of 26 ways, one per check and per sum
  the loader makes.  Alignment (16) and pair, pointer and cell size are those
  of x64; a third native is what makes the excess of `alloc_size` exceed a
  step of the alignment.  `U32` is 4096, above every size that occurs, so
  that a wrap still is one; `U64` is 65536, above every sum of two such sizes,
  as 2^64 is above those of two 32-bit fields.
* `KList`: both ends of a ring, a middle node, and swap and move between
  empty, single and longer lists.
* `CallbackList`: one reader, one writer and one waiter of the resource; two
  nodes, so that an erased node comes back while another is in the list.
  Whether calls return depends on who waits for the resource and not on how
  many nodes there are, so that one is enough for `CallsReturn`.
* `AmxCallbacks`: two threads compete for two slots, in two VMs; full,
  freed-behind-the-scan, freed-by-another, left-by-a-VM and a call that finds
  its slot in other hands all happen: none of them needs a third thread, and
  the proofs hold for any number.
* `NativeCall`: arguments, strings and their targets overlap in five cells in
  every way.  The buffers are small (6 characters, 1 argument) so that both
  limits are met; 1002 and 64 in the code.
* `HostMemory`: two bytes of two bits: the carry, the upper half of a signed
  type and the wrap of a counter all occur.  The counters wrap as bytes do,
  so no bound cuts the run short.
* `Affinity`: three processors in two groups, three sets deep, indices up to
  twice the width (2 bits), so that a truncated index names a processor.
* `PciConfig`: every length, offsets inside, across and behind the end of the
  configuration space, one thread: calls share nothing but the device.
* `Registers`: registers of both kinds with and without the REX prefix,
  indices above 15, existing and not.
* `KernelCrt`: every memory of five bytes with three values, every call that C
  defines there; every overlap of up to four bytes occurs.

Deadlock is checked except in `load`, which is done when the verdict is no or
the block is freed, and in `natives`, where a register that does not exist
stops the machine.  After a fault in `NativeCall` and a fast fail in
`AmxCallbacks` the model stutters.

### Fairness

* `Driver!FairSpec`: weak fairness of each thread's own steps, since the
  scheduler runs what can run, and strong fairness of `Lock`, since a fast
  mutex hands itself to a waiting thread (it is a synchronization event that
  wakes a waiter on every release).  `Run`, the module's code, is a step
  like others: the interpreter has no limit of its own, so that IRPs complete
  is a promise under the condition that module code ends.
* `CallbackList!FairSpec`: weak fairness of each thread once a call has
  begun, callbacks of clients included.  No strong fairness: the queue of the
  ERESOURCE is in the model, and `CallsReturn` follows from it.
* `KList!Spec`: weak fairness of the loop of `clear`.
* The arrival of IRPs, registrations, calls by pointers and module actions is
  never fair.

### Findings

1. `loader_natives`: `alloc_size` is exact except that it counts natives as
   pairs while their table holds pointers; the check behind the comment
   "something went very very wrong" (amx_loader.h:575) needs slack, and so
   refuses well formed files with fewer than two natives on x64.
2. `loader_order`: the byte order loop over the data runs over
   `_code_count` (amx_loader.h:468), although the comment above it says "safe
   since it was checked when counting".  On little endian targets the
   conversion changes nothing.
3. `slots_postcall`: a function run through a callback pointer is announced
   by a pre-call and never by a post-call, which public.h:108 promises.
   (`ClientsInformed` allows for such calls, and promises post-calls of none.)
4. `affinity`: a `cpu_set_affinity` of a processor that does not exist leaves
   its array as it was.  In an array that a set has used before,
   `cpu_restore_affinity` takes what is left for the output of a set that
   succeeded, and moves the thread to a stale affinity; the comment at
   natives_impl_windows.cpp:97 has restore recognise "the output of a failed
   cpu_set_affinity".
5. `strncpy`: a source shorter than the count makes `strncpy` write one byte
   beyond the count (kernel_stubs.c:232 copies the terminator without counting
   it), although the comment above it speaks of a length limit.  Nothing in
   the tree calls it; it is there for the x86 linker.

Two more facts that a reader of `NativeCall` should know, and that no text in
the repository contradicts: a call that is refused because of a later argument
sets the variables passed by reference before it to 0 (`RefusedOnlyZeroes`),
and a native with an array passed by reference faults on a null pointer
whenever one of its arguments is refused (`FaultsOnlyIfRefused` says that it
is only then): the destructor at vm.cpp:142 lacks the test the one at
vm.cpp:93 has.


## 4. Proofs

`DriverProofs` proves of `Driver`, for any sets of threads, file objects and
contexts and from `NullAssumption` alone: type correctness, `NoUseAfterFree`,
`OneOwner`, `ClientsInformed`, `MapsBalanced`,
`IoctlsAreAdmitted`, `OneLoadWins`, `NothingOutlivesDriver` and
`FsContextSticky`, that is, every safety property the runs check.

None of them is inductive.  The invariant `IInv` adds what the code relies on
without saying so:

* `ShapeInv`: which label goes with which IRP, context and function;
* `FileInv`: an IRP in flight keeps its file object open, a close is alone;
* `OwnerInv`: a context belongs to one loading or closing thread or one open
  file, and an execute uses the context of its own file.  That no reference
  count is needed rests on this part;
* `PoolInv`: owners have the blocks their label needs, blocks have owners;
* `LockInv`: holder of a mutex and label of the thread agree;
* `ToldInv`, `MapInv`, `AnswerInv`: what clients believe, which buffers are
  mapped and what a load will answer, per label and per open file.

One lemma per part shows that every step preserves it; `Alone` and `Alive`
are the two facts most of them use (a thread that acts on a context is the
only one to own it; its context is allocated).  `Invariance` puts them
together, and each theorem follows from it.

`KListProofs` proves of `KList`, from `ListsAssumption` and `NodesAssumption`
(heads are no nodes; there are finitely many addresses): types,
`DoublyLinked`, `RingsApart`, `NoLeak` and the refinement `IsSequences`.
`DoublyLinked` and `RingsApart` are inductive together with "a live node has a
list it was put in" (`Owned`): without it the neighbours of an erased node
could be unknown entries.  One lemma each for insertion, erasure, taking a
ring and exchanging two.  For the refinement, `RingInv` says that the walk
from each head is a sequence `s` with `RingOf(l, s)`: `flink` leads through it
and back to the head, no node is met twice, and its nodes are exactly the live
ones that were put in `l`.  `WalkIsChain` is the lemma that makes this usable:
such a sequence is the one the recursive function in `Walk` computes, since a
first step at which they differ would have to follow one at which they agree.
`InsertedRing`, `ErasedRing` and `SameRing` (a ring that stays, or changes its
head) then say what the assignments to four links do to the sequence, and
`StepsOfSequences` that each step inserts, removes, exchanges or stutters.

`AmxCallbacksProofs` proves of `AmxCallbacks`, for any threads, VMs, functions
and number of slots, the four invariants of the run `slots` and the refinement
`IsTable`.  It uses `SlotsAssumption` and `CipsAssumption`
(there is a slot; `NULL` is none of the values it is told from).
The invariant says of every slot that it is free, granted with exactly the
context and function it was granted for (`GrantedInv`), left over from a VM
that is gone (`LeakInv`), or in the hands of one thread that has not set its
function yet or has cleared it (`HandInv`, `TakenInv`); of every thread that
calls a pointer within its grant that the context it has read is the one the
slot was granted to (`PointerInv`); of every thread in a VM that it holds its
mutex and, as long as the machine runs, that the VM is alive (`LockInv`,
`AliveInv`, `GrantInv`).  `StopsForCause` is part of the invariant: who stops
the machine must be at fault in the step that does (`CauseStep`).  `ScanInv`
is about the scan: a slot that stayed free since it began is one the scan has
not passed.  `SlotsAreATable` then shows that alloc takes effect in `SetCip`,
free in its first write and a call in `Precall` (one outside a grant enters
its VM like an ioctl), that `Enter`, `Exit` and `Return` enter and leave, and
that every other step is a stutter of the table.
`CallbackListProofs` proves of `CallbackList`, for any threads and addresses
and from `CookiesAssumption` (`NULL` is neither,
and the list head is no node), `IteratorsLive`,
`NoLateCall`, `CookiesAreNodes` and the refinement `IsRegistry`.
`ResourceInv` and `HoldingInv` say who may own or wait for the ERESOURCE at
which label, so that nobody walks the list while another changes it.
`CookieInv`, `OwnerInv` and `NodesInv` give each node one owner: the client
that holds its cookie, or the thread that brings it to or from that client.
`HeardInv` says that an announcement has reached exactly the nodes before its
iterator, in order: it is what makes an announcement one step of the registry,
taken where it ends (`AnnouncementEnds`).

`AmxLoaderProofs` proves of `AmxLoader`, for every file, every set of natives
and all sizes (`SizesAssumption`: positive, a pointer no larger than a pair, and
`U64` large enough for two 32-bit sizes and a cell;
`ImagesAssumption`: header fields have 32 bits), `WritesInRegion`,
`TablesComplete` and `StackPlaced`.  The point of the argument is that the
second pass needs no checks because of what the first has seen.  `CountInv`
says that every entry counted so far lies in its table and has a name that
ends, and a native one that is known; `StringsInv` that there is a table of
partial sums, the room that names took before each entry, by which the first
pass has counted and by which the second pass advances (it exists in every
state, no state variable holds it); `FilledInv` and `RowsInv` that the second
pass has filled the entries before its position with what the file says;
`SpansInv` that every range written lies in its region and that a name ends
before the next one begins; `BlockInv`, `RegsInv` and `ResultInv` tie block,
registers and result to the phase.

`LoadBinaryProofs` proves of `LoadBinary` that handles are closed
(`HandlesBalanced`), that the loader parses only what a trusted key signed
(`ParsesOnlySigned`) and that a signed module is refused only for a failure
(`SignedIsAccepted`), for any files and word width and any list of keys that is
not empty (with no key at all, the loop of `check_signature` never runs and
the status of the hashing is its verdict).  `HandleInv` ties the open handles
to the call made next, `KeyInv` says that the key under trial is in the list
and usable, `FileInv` that the file was split as its header says, `DigestInv`
where a success comes from, `RefusalInv` that without a failing call every key
already tried did not sign the file, `ParseInv` that blocks come after the
verdict.  `LoaderRuns` shows that a behaviour of `LoadBinary` is one of the
loader, and `VmLoadsRight` that the loader's three properties hold there.

`NativeCallProofs` proves of `NativeCall`, for any natives, arguments and
memory, `ArgsAreMeant`, `OutputsLand`, `RefusedOnlyZeroes` and
`FaultsOnlyIfRefused` from the assumptions of the module (the natives are
sequences of the four kinds, values are natural numbers with 0, `NULL` is no
address).  What an argument stands for is said in terms of the memory at the
beginning of the call, `entry`; the invariant says of every argument that it
has been found there or has no place (`Resolved`, `Missing`), and of every
cell that it is as it was or holds what the last destructor that names it has
written (`Ran`).  A call that was refused has instead set cells of plain
references to 0 and no others (`OnlyZeroes`).  `ShowsItsArguments` is proved
where a conversion prints as many bytes as a cell has, as on x64; on x86 it
has twice as many (see the hazards).

`NativesProofs` proves one theorem for each of the five modules of native
functions.

* `BytesAreTheirOwners`, for any even byte size above 1 and two different
  users: a module that goes at its byte finds there what it has read
  (`MemoryInv`), and a compare-and-exchange of the word that succeeds has the
  other byte as it was (`ByteBumped`).
* `AffinityFollowsSets`, for any processors, width and nesting: `RunsAfter`
  says where a thread runs after the sets it has not undone, and `Follows`
  that it does so unless it is astray, and that the old affinity each set
  returned is where it ran after the sets before it unless it was astray
  then.  From
  `ProcessorsAssumption`: there is a processor, not more than a ULONG counts,
  and the process may run somewhere.
* `ToldOfTheDevice`, for any offsets, size and threads: what is kept between
  the two calls of the HAL (`Attentive`, `ToldTruly`).
* `RegistersAsNamed`, for any registers that exist and any index and value:
  `StubsInOrder` computes for every index that the offset it composes is the
  one of the stub with that number.
* `MeetsC`, for any memory and every call that C defines (it says nothing of
  `strncpy`, which has its own run): `CallInv` says per
  function how far its loop has come, as the part that is copied, filled,
  compared or counted.  `memmove` has two of these, one per direction; what
  is still to be copied has not been overwritten in either.  That a string
  has an end, and only one, is `FirstZero`.

Only model-checked are the liveness properties (`IrpCompletes`, `CallsReturn`,
`ClearEnds`), as the prover does not reason about fairness, and the five
findings, which are counterexamples.  Every other property of the runs is a
theorem.


## 5. Not modelled, and the plan

Not modelled:

* the AMX interpreter, absent from the tree: running module code is one
  external step;
* natives that are one instruction or one kernel call and keep nothing:
  ports, MSRs, descriptor tables, `cpuid`, random numbers, mapping of I/O
  space, pool allocation, delays, `get_proc_address` of the kernel.  What
  they do is what the processor or the kernel does.  `invoke` and
  `query_dell_smm` run code of somebody else;
* the x86 and arm64 forms of natives: `_crdr` of x86.asm is called by nothing
  in the table of natives of that build, and `arm_mrs` and `arm_msr` are one
  generated instruction.  On x86 a cell has 4 bytes, so that the natives of
  eight bytes drop the upper half;
* `malloc`, `ceil`, `floor`, the C++ runtime stubs, `kernel_api_wrappers.c`:
  one call, floating point, or a stop of the machine;
* build and installation files;
* contents of buffers and messages, names of functions, status values beyond
  the ones that decide something;
* fixed size faults of the x86 build: `Driver` abstracts the offset of an
  ioctl's input (vm.cpp:866), `AmxLoader` and `NativeCall` run with the sizes
  of x64.

What is left to do, in this order:

1. The atomicity that `Driver` takes from its parts.  An announcement is one
   step there, and parsing another; `ListIsRegistry` and `VmLoadsRight` say
   why this is right, but no theorem puts them together with `Driver`.
2. `ClearEnds`: the number of nodes in a list falls with every turn of the
   loop, which is provable as an action property; that the loop is fair stays
   with TLC.
