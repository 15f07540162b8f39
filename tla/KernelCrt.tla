------------------------------ MODULE KernelCrt ------------------------------
(***************************************************************************)
(* The memory and string functions of kernel_stubs.c, which the x86 build  *)
(* links in place of the C library: a call, one step for every turn of a   *)
(* loop, and the return.                                                   *)
(***************************************************************************)
EXTENDS Integers

CONSTANTS
  LastAddress,   \* the memory is 0 .. LastAddress
  ByteRange      \* values of a byte, from 0

ASSUME MemoryAssumption ==
  LastAddress \in Nat /\ ByteRange \in Nat \ {0}

CrtAddress == 0 .. LastAddress

VARIABLES
  bytes,     \* the memory
  crt        \* the call: its local variables, its arguments, what it found

crtVars == <<bytes, crt>>

Quiet == [at |-> "idle"]
Blank == [a \in CrtAddress |-> 0]

Call(fn, dest, src, count, memory) ==
  [at |-> "entry", fn |-> fn, d |-> dest, s |-> src, n |-> count,
   dest |-> dest, src |-> src, count |-> count, found |-> memory, ret |-> 0]

(***************************************************************************)
(* The calls that C defines.  No buffer holds the last address.            *)
(***************************************************************************)
InMemory(a, n) == a + n <= LastAddress
Apart(a, n, b, m) == a + n <= b \/ b + m <= a
Terminated(m, a) == \E z \in a .. LastAddress : m[z] = 0
End(m, a) ==
  CHOOSE z \in a .. LastAddress : m[z] = 0 /\ \A y \in a .. z - 1 : m[y] # 0
StringSize(m, a) == End(m, a) - a + 1

Defined(c, m) ==
  CASE c.fn = "memset" -> InMemory(c.d, c.n)
    [] c.fn \in {"memmove", "memcmp"} -> InMemory(c.d, c.n) /\ InMemory(c.s, c.n)
    [] c.fn = "memcpy" -> /\ InMemory(c.d, c.n) /\ InMemory(c.s, c.n)
                          /\ Apart(c.d, c.n, c.s, c.n)
    [] c.fn = "strlen" -> c.d = 0 /\ c.n = 0 /\ Terminated(m, c.s)
    [] c.fn = "strcmp" -> c.n = 0 /\ Terminated(m, c.d) /\ Terminated(m, c.s)
    [] c.fn = "strcpy" -> /\ c.n = 0 /\ Terminated(m, c.s)
                          /\ InMemory(c.d, StringSize(m, c.s))
                          /\ Apart(c.d, StringSize(m, c.s), c.s, StringSize(m, c.s))
    [] c.fn = "strncpy" -> /\ InMemory(c.d, c.n) /\ Terminated(m, c.s)
                           /\ Apart(c.d, c.n + 1, c.s, StringSize(m, c.s))

CrtFunctions == {"memcpy", "memmove", "memset", "memcmp", "strlen", "strcmp",
                 "strcpy", "strncpy"}
-----------------------------------------------------------------------------
CrtInit == bytes = Blank /\ crt = Quiet

Enter ==
  /\ crt = Quiet
  /\ bytes' \in [CrtAddress -> 0 .. ByteRange - 1]
  /\ \E fn \in CrtFunctions, d, s, n \in CrtAddress :
       LET c == Call(fn, d, s, n, bytes')
       IN  Defined(c, bytes') /\ crt' = c

In(fn, at) == crt.at = at /\ crt.fn = fn
Finish(value) ==
  crt' = [crt EXCEPT !.at = "returned", !.ret = value] /\ UNCHANGED bytes
Goto(at) == crt' = [crt EXCEPT !.at = at] /\ UNCHANGED bytes

Put(a, value) == bytes' = [bytes EXCEPT ![a] = value]
Advance(at, by, n) ==
  crt' = [crt EXCEPT !.at = at, !.d = @ + by, !.s = @ + by, !.n = n]

\* One turn of *d++ = *s++ and one of *--d = *--s.
Forward  == Put(crt.d, bytes[crt.s]) /\ Advance(crt.at, 1, crt.n - 1)
Backward == Put(crt.d - 1, bytes[crt.s - 1]) /\ Advance(crt.at, -1, crt.n - 1)

memcpy ==
  /\ In("memcpy", "entry")
  /\ IF crt.n = 0 THEN Finish(crt.dest) ELSE Forward

MutantCopiesForward == crt.d < crt.s + crt.n
CopiesForward == crt.d < crt.s

memmove ==
  \/ /\ In("memmove", "entry")
     /\ IF crt.d = crt.s \/ crt.n = 0 THEN Finish(crt.dest)
        ELSE IF CopiesForward THEN Goto("forward")
        ELSE /\ crt' = [crt EXCEPT !.at = "backward",
                                   !.d = @ + crt.n, !.s = @ + crt.n]
             /\ UNCHANGED bytes
  \/ /\ In("memmove", "forward")
     /\ IF crt.n = 0 THEN Finish(crt.dest) ELSE Forward
  \/ /\ In("memmove", "backward")
     /\ IF crt.n = 0 THEN Finish(crt.dest) ELSE Backward

\* The second argument of memset is an int, of which one byte is kept.
memset ==
  /\ In("memset", "entry")
  /\ IF crt.n = 0 THEN Finish(crt.dest)
     ELSE /\ Put(crt.d, crt.s % ByteRange)
          /\ crt' = [crt EXCEPT !.d = @ + 1, !.n = @ - 1]

memcmp ==
  /\ In("memcmp", "entry")
  /\ IF crt.n = 0 THEN Finish(0)
     ELSE IF bytes[crt.d] # bytes[crt.s]
       THEN Finish(IF bytes[crt.d] < bytes[crt.s] THEN -1 ELSE 1)
     ELSE Advance("entry", 1, crt.n - 1) /\ UNCHANGED bytes

strlen ==
  /\ In("strlen", "entry")
  /\ IF bytes[crt.s] = 0 THEN Finish(crt.s - crt.src)
     ELSE Advance("entry", 1, 0) /\ UNCHANGED bytes

strcmp ==
  /\ In("strcmp", "entry")
  /\ IF bytes[crt.d] # 0 /\ bytes[crt.d] = bytes[crt.s]
       THEN Advance("entry", 1, 0) /\ UNCHANGED bytes
     ELSE Finish(bytes[crt.d] - bytes[crt.s])

strcpy ==
  \/ /\ In("strcpy", "entry")
     /\ Put(crt.d, bytes[crt.s])
     /\ Advance(IF bytes[crt.s] = 0 THEN "copied" ELSE "entry", 1, 0)
  \/ In("strcpy", "copied") /\ Finish(crt.dest)

(***************************************************************************)
(* The first loop takes the count down after a byte that is not the        *)
(* terminator; the second writes as many zeros as are left of it.          *)
(***************************************************************************)
strncpy ==
  \/ /\ In("strncpy", "entry")
     /\ IF crt.n = 0 THEN Goto("zeros")
        ELSE /\ Put(crt.d, bytes[crt.s])
             /\ IF bytes[crt.s] = 0 THEN Advance("zeros", 1, crt.n)
                ELSE Advance("entry", 1, crt.n - 1)
  \/ /\ In("strncpy", "zeros")
     /\ IF crt.n = 0 THEN Finish(crt.dest)
        ELSE Put(crt.d, 0) /\ Advance("zeros", 1, crt.n - 1)

\* The caller goes on; what it does with the memory is its own affair.
GoOn == crt.at = "returned" /\ crt' = Quiet /\ bytes' = Blank

CrtNext ==
  \/ Enter \/ GoOn
  \/ memcpy \/ memmove \/ memset \/ memcmp
  \/ strlen \/ strcmp \/ strcpy \/ strncpy

CrtSpec == CrtInit /\ [][CrtNext]_crtVars
-----------------------------------------------------------------------------
(***************************************************************************)
(* What C says of these functions: the destination holds what the source   *)
(* held before the call, also where the two overlap, and nothing else      *)
(* changed; a comparison has the sign of the first difference.             *)
(***************************************************************************)
Copied(c, n) ==
  [a \in CrtAddress |-> IF c.dest <= a /\ a < c.dest + n
                         THEN c.found[c.src + a - c.dest] ELSE c.found[a]]
SetTo(c) ==
  [a \in CrtAddress |-> IF c.dest <= a /\ a < c.dest + c.count
                         THEN c.src % ByteRange ELSE c.found[a]]

Sign(x) == IF x < 0 THEN -1 ELSE IF x > 0 THEN 1 ELSE 0
Order(c, n) ==
  LET differ == {i \in 0 .. n - 1 : c.found[c.dest + i] # c.found[c.src + i]}
      first  == CHOOSE i \in differ : \A j \in differ : i <= j
  IN  IF differ = {} THEN 0
      ELSE Sign(c.found[c.dest + first] - c.found[c.src + first])

Shorter(c) ==
  LET a == StringSize(c.found, c.dest)
      b == StringSize(c.found, c.src)
  IN  IF a < b THEN a ELSE b

MeetsC ==
  crt.at = "returned" =>
    CASE crt.fn \in {"memcpy", "memmove"} -> bytes = Copied(crt, crt.count)
      [] crt.fn = "memset" -> bytes = SetTo(crt)
      [] crt.fn = "strcpy" -> bytes = Copied(crt, StringSize(crt.found, crt.src))
      [] crt.fn = "memcmp" -> crt.ret = Order(crt, crt.count)
      [] crt.fn = "strlen" -> crt.ret = StringSize(crt.found, crt.src) - 1
      [] crt.fn = "strcmp" -> Sign(crt.ret) = Order(crt, Shorter(crt))
      [] OTHER -> TRUE

(***************************************************************************)
(* "String copy with length limit" (kernel_stubs.c:229): strncpy changes   *)
(* no byte beyond the count it is given.                                   *)
(***************************************************************************)
StrncpyLimit ==
  crt.at = "returned" /\ crt.fn = "strncpy" =>
    \A a \in CrtAddress :
      bytes[a] # crt.found[a] => crt.dest <= a /\ a < crt.dest + crt.count
=============================================================================
