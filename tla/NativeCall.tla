----------------------------- MODULE NativeCall -----------------------------
(***************************************************************************)
(* How a module calls the driver: the argument wrappers of vm.cpp, which   *)
(* most natives go through, and the natives that take a string themselves  *)
(* (debug_print, get_proc_address, get_public).  The mutex of the VM is    *)
(* held throughout, so that nothing else touches its memory.               *)
(*                                                                         *)
(* A value of a cell is an address, a number and a character at once:      *)
(* NUL is the character 0, Percent is '%', Conversion any of "diuoxX".     *)
(***************************************************************************)
EXTENDS Integers, SequencesExt

CONSTANTS
  Cells,        \* size of the data memory of the VM
  Values,       \* what a cell may hold
  Results,      \* what a native may compute
  Natives,      \* parameter lists of the wrapped natives
  N,            \* elements of an array parameter
  CellSize,     \* sizeof(cell)
  MessageRoom,  \* what the prefix leaves of message, 1002 in the code
  MaxArgs,      \* size of args, 64 in the code
  NameRoom,     \* size of func_name, 33 or 1024 in the code
  MaxParams,    \* the most arguments a module passes
  NULL

Percent == 1
Conversion == 2
Kinds == {"cell", "cell&", "array", "array&"}

ASSUME CellsAssumption == Cells \in Nat \ {0} /\ N \in Nat \ {0}
ASSUME ValuesAssumption ==
  0 \in Values /\ Values \subseteq Nat /\ Results \subseteq Values
ASSUME NativesAssumption == Natives \subseteq Seq(Kinds)
ASSUME RoomAssumption == MessageRoom \in Nat \ {0}
ASSUME NullAssumption == NULL \notin Int

VARIABLES
  mem,          \* data memory of the VM
  pc,
  params,       \* parameter list of the native being called
  argc, argv,
  next,         \* argument that init or a destructor is at
  args,         \* the arg_wrappers, or the cells debug_print fetched
  status,       \* amx::error
  entry,        \* history: mem when the call began
  vit,          \* next character of a format string
  message,      \* what debug_print has composed: "char", "%%" and "conv"
  it,           \* characters of it
  arg_count,
  in_escape

text == <<vit, message, it, arg_count, in_escape>>
call == <<params, argc, argv, entry>>
vars == <<mem, pc, call, next, args, status, text>>

Address == 0 .. Cells - 1
Mapped(a) == a \in Address

Idle ==
  /\ pc = "vm" /\ params = <<>> /\ argc = 0 /\ argv = 0 /\ next = 1 /\ args = <<>>
  /\ status = "success" /\ entry = <<>>
  /\ vit = 0 /\ message = <<>> /\ it = 0 /\ arg_count = 0 /\ in_escape = FALSE

Init == mem \in [Address -> Values] /\ Idle

Leave(s) == status' = s /\ pc' = "return"

-----------------------------------------------------------------------------
(***************************************************************************)
(* arg_wrapper: at is where its destructor writes back, if anywhere.       *)
(***************************************************************************)
MutantIsRef(kind) == kind = "array&"
IsRef(kind) == kind \in {"cell&", "array&"}
Width(kind) == IF kind \in {"array", "array&"} THEN N ELSE 1

Wrapper(kind) == [at |-> [k \in 1 .. Width(kind) |-> NULL],
                  value |-> [k \in 1 .. Width(kind) |-> 0]]

MutantParam(i) == argv + i
Param(i) == argv + i - 1

\* The cells argument i stands for.
Names(i) ==
  [k \in 1 .. Width(params[i]) |->
     IF params[i] = "cell" THEN Param(i) ELSE mem[Param(i)] + k - 1]

Reached(i) == Mapped(Param(i)) /\ \A k \in DOMAIN Names(i) : Mapped(Names(i)[k])

MutantRefused(i) == ~Mapped(Param(i))
Refused(i) == ~Reached(i)

MutantTarget(i) ==
  IF IsRef(params[i]) /\ Mapped(Param(i)) /\ ~Reached(i)
    THEN [k \in DOMAIN Names(i) |-> Param(i)]
    ELSE IF IsRef(params[i]) /\ Reached(i) THEN Names(i) ELSE Wrapper(params[i]).at
Target(i) ==
  IF IsRef(params[i]) /\ Reached(i) THEN Names(i) ELSE Wrapper(params[i]).at

\* A reference to a cell is not read; an array is, up to its first cell
\* outside the memory.
Read(i) ==
  [k \in 1 .. Width(params[i]) |->
     IF params[i] # "cell&" /\ Mapped(Param(i))
          /\ \A j \in 1 .. k : Mapped(Names(i)[j])
       THEN mem[Names(i)[k]] ELSE 0]

CallNative(sig, n, a) ==
  /\ pc = "vm"
  /\ argc' = n /\ argv' = a /\ params' = sig /\ entry' = mem
  /\ IF n # Len(sig)
       THEN Leave("invalid_operand") /\ UNCHANGED args
       ELSE /\ args' = [i \in 1 .. n |-> Wrapper(sig[i])]
            /\ pc' = "init"
            /\ UNCHANGED status
  /\ UNCHANGED <<mem, next, text>>

(***************************************************************************)
(* init_wtuple, one argument at a time.                                    *)
(***************************************************************************)
InitArg ==
  /\ pc = "init" /\ next \in DOMAIN params
  /\ args' = [args EXCEPT ![next] = [at |-> Target(next), value |-> Read(next)]]
  /\ IF Refused(next)
       THEN pc' = "unwind" /\ status' = "access_violation" /\ next' = 1
       ELSE next' = next + 1 /\ UNCHANGED <<pc, status>>
  /\ UNCHANGED <<mem, call, text>>

(***************************************************************************)
(* The native: what it leaves in its references is its own affair.  A cell *)
(* of an array that it does not set keeps what was read from it.           *)
(***************************************************************************)
Outputs == {i \in DOMAIN params : IsRef(params[i])}

RunNative ==
  /\ pc = "init" /\ next \notin DOMAIN params
  /\ \E out \in [Outputs \X (1 .. N) -> Results \cup {NULL}] :
       args' = [i \in DOMAIN args |-> [args[i] EXCEPT !.value =
                  [k \in DOMAIN @ |->
                     IF i \in Outputs /\ out[<<i, k>>] # NULL
                       THEN out[<<i, k>>] ELSE @[k]]]]
  /\ pc' = "unwind"
  /\ next' = 1
  /\ UNCHANGED <<mem, call, status, text>>

(***************************************************************************)
(* The destructors, of the first argument first.  A reference to a cell    *)
(* writes only where init found one; one to an array has no such test.     *)
(***************************************************************************)
WriteBack ==
  /\ pc = "unwind" /\ next \in DOMAIN params
  /\ LET at == args[next].at
         Writes(a) == {k \in DOMAIN at : at[k] = a}
     IN  /\ mem' = [a \in Address |->
                      IF Writes(a) = {} THEN mem[a]
                        ELSE args[next].value[CHOOSE k \in Writes(a) : TRUE]]
         /\ pc' = IF params[next] = "array&" /\ at[1] = NULL THEN "fault" ELSE pc
  /\ next' = next + 1
  /\ UNCHANGED <<call, args, status, text>>

Unwound ==
  /\ pc = "unwind" /\ next \notin DOMAIN params
  /\ pc' = "return"
  /\ UNCHANGED <<mem, call, next, args, status, text>>

-----------------------------------------------------------------------------
(***************************************************************************)
(* The natives that take a string.  A conversion of the format goes to the *)
(* message as "%lld".                                                      *)
(***************************************************************************)
Size(token) == CASE token = "char" -> 1 [] token = "%%" -> 2 [] token = "conv" -> 4

Fits(token) == it + Size(token) < MessageRoom

CallString(native, n, a) ==
  /\ pc = "vm"
  /\ argc' = n /\ argv' = a /\ entry' = mem
  /\ IF n = 0 THEN Leave("invalid_operand") /\ UNCHANGED vit
     ELSE IF ~Mapped(a) THEN Leave("access_violation") /\ UNCHANGED vit
     ELSE pc' = native /\ vit' = mem[a] /\ UNCHANGED status
  /\ UNCHANGED <<mem, params, next, args, message, it, arg_count, in_escape>>

\* A token that does not fit ends the message.
Compose(token) ==
  IF Fits(token)
    THEN message' = Append(message, token) /\ it' = it + Size(token) /\ UNCHANGED pc
    ELSE pc' = "fetch" /\ UNCHANGED <<message, it>>

OutOfText ==
  /\ ~Mapped(vit)
  /\ Leave("access_violation")
  /\ UNCHANGED <<message, it, arg_count, in_escape>>

Directive ==
  /\ Mapped(vit) /\ in_escape
  /\ \/ /\ mem[vit] = Percent
        /\ Compose("%%") /\ in_escape' = FALSE
        /\ UNCHANGED <<status, arg_count>>
     \/ /\ mem[vit] = Conversion
        /\ Compose("conv") /\ in_escape' = FALSE
        /\ arg_count' = arg_count + 1
        /\ UNCHANGED status
     \/ /\ mem[vit] \notin {Percent, Conversion}
        /\ Leave("invalid_operand")
        /\ UNCHANGED <<message, it, arg_count, in_escape>>

Literal ==
  /\ Mapped(vit) /\ ~in_escape
  /\ \/ mem[vit] = Percent /\ in_escape' = TRUE /\ UNCHANGED <<pc, message, it>>
     \/ mem[vit] = 0 /\ pc' = "fetch" /\ UNCHANGED <<message, it, in_escape>>
     \/ mem[vit] \notin {Percent, 0} /\ Compose("char") /\ UNCHANGED in_escape
  /\ UNCHANGED <<status, arg_count>>

FormatChar ==
  /\ pc = "debug_print"
  /\ vit' = vit + 1
  /\ OutOfText \/ Directive \/ Literal
  /\ UNCHANGED <<mem, call, next, args>>

MutantTooMany(n) == n > argc \/ n > MaxArgs
TooMany(n) == n > argc - 1 \/ n > MaxArgs

\* The address of the i-th argument after the format, each a reference.
Fetched(i) == mem[argv + i]

FetchArgs ==
  /\ pc = "fetch"
  /\ IF \/ TooMany(arg_count)
        \/ \E i \in 1 .. arg_count : ~Mapped(argv + i) \/ ~Mapped(Fetched(i))
       THEN Leave("invalid_operand") /\ UNCHANGED args
       ELSE Leave("success") /\ args' = [i \in 1 .. arg_count |-> mem[Fetched(i)]]
  /\ UNCHANGED <<mem, call, next, text>>

(***************************************************************************)
(* amx_strcpy into a buffer of zeros: up to a NUL, or to the last place,   *)
(* which then becomes NUL.  Its result is the length, or -1.               *)
(***************************************************************************)
Stops(a) == {k \in 0 .. NameRoom - 1 : ~Mapped(a + k) \/ mem[a + k] = 0}

CopiedLength(a) ==
  IF Stops(a) = {} THEN NameRoom - 1
    ELSE LET k == Min(Stops(a)) IN IF Mapped(a + k) THEN k ELSE -1

LookUp ==
  /\ pc = "look_up"
  /\ Leave(CASE CopiedLength(vit) = 0 -> "invalid_operand"
             [] CopiedLength(vit) = -1 -> "access_violation"
             [] OTHER -> "success")
  /\ UNCHANGED <<mem, call, next, args, text>>

\* Back to the module: the frame of the native is gone.
Return ==
  /\ pc = "return"
  /\ pc' = "vm" /\ params' = <<>> /\ argc' = 0 /\ argv' = 0 /\ next' = 1
  /\ args' = <<>> /\ status' = "success" /\ entry' = <<>>
  /\ vit' = 0 /\ message' = <<>> /\ it' = 0 /\ arg_count' = 0 /\ in_escape' = FALSE
  /\ UNCHANGED mem

Fault == pc = "fault" /\ UNCHANGED vars

Next ==
  \/ \E n \in 0 .. MaxParams, a \in 0 .. Cells :
       \/ \E sig \in Natives : CallNative(sig, n, a)
       \/ \E native \in {"debug_print", "look_up"} : CallString(native, n, a)
  \/ InitArg \/ RunNative \/ WriteBack \/ Unwound
  \/ FormatChar \/ FetchArgs \/ LookUp
  \/ Return \/ Fault

Spec == Init /\ [][Next]_vars

-----------------------------------------------------------------------------
Wrapped == params # <<>>
At(kind) == {i \in DOMAIN params : params[i] = kind}
References == At("cell&") \cup At("array&")

\* What the cells of argument i held, and where they are, when the call began.
Meant(i, k) ==
  IF params[i] = "cell" THEN argv + i - 1 ELSE entry[argv + i - 1] + k - 1

(***************************************************************************)
(* A native runs on the values its arguments had when the module called it *)
(* and writes to the cells they named; a call that is refused anywhere     *)
(* never gets there.  (init_wtuple before Fn, vm.cpp:222-242.)             *)
(***************************************************************************)
ArgsAreMeant ==
  pc = "init" /\ next \notin DOMAIN params =>
    \A i \in DOMAIN params : \A k \in 1 .. Width(params[i]) :
      /\ i \in References => args[i].at[k] = Meant(i, k)
      /\ params[i] # "cell&" => args[i].value[k] = entry[Meant(i, k)]

\* The cells of references that are cell a: an argument, a place in it.
Naming(a) ==
  {ik \in (DOMAIN params) \X (1 .. N) :
     /\ ik[1] \in References /\ ik[2] <= Width(params[ik[1]])
     /\ Meant(ik[1], ik[2]) = a}

(***************************************************************************)
(* When a native returns, a cell holds what the last reference to it was   *)
(* left with, and a cell no reference names is as it was.                  *)
(***************************************************************************)
OutputsLand ==
  pc = "return" /\ Wrapped /\ status = "success" =>
    \A a \in Address :
      IF Naming(a) = {} THEN mem[a] = entry[a]
        ELSE LET i == Max({ik[1] : ik \in Naming(a)})
                 k == CHOOSE k \in 1 .. N : <<i, k>> \in Naming(a)
             IN  mem[a] = args[i].value[k]

(***************************************************************************)
(* A refused call still runs the destructors of the references it had      *)
(* made: the memory differs from before in cells these named, now 0.       *)
(***************************************************************************)
RefusedOnlyZeroes ==
  pc = "return" /\ status # "success" =>
    \A a \in Address : mem[a] # entry[a] =>
      /\ mem[a] = 0
      /\ \E i \in At("cell&") : argv + i - 1 \in Address /\ Meant(i, 1) = a

(***************************************************************************)
(* The destructor of a reference to an array never finds its cells missing *)
(* in a call that was not refused (vm.cpp:142-145 has no test of its own). *)
(***************************************************************************)
FaultsOnlyIfRefused ==
  pc = "fault" => status = "access_violation" /\ At("array&") # {}

(***************************************************************************)
(* vDbgPrintEx reads 8 bytes of args for every "%lld" of the message.      *)
(* They are one cell, the argument that stands in its place in the call.   *)
(* The message and its terminator fit the array they are built in.         *)
(***************************************************************************)
ConvSize == 8
CellsRead(j) ==
  {k \in 1 .. j * ConvSize : /\ k * CellSize > (j - 1) * ConvSize
                             /\ (k - 1) * CellSize < j * ConvSize}

Conversions == {k \in DOMAIN message : message[k] = "conv"}

ShowsItsArguments ==
  /\ it < MessageRoom
  /\ pc = "return" /\ status = "success" /\ ~Wrapped =>
    \A j \in 1 .. Cardinality(Conversions) :
      /\ j \in DOMAIN args /\ j < argc
      /\ CellsRead(j) = {j}
      /\ args[j] = entry[entry[argv + j]]
=============================================================================
