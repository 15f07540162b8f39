-------------------------- MODULE NativeCallProofs --------------------------
(***************************************************************************)
(* Proofs about NativeCall, for any natives, arguments and memories.       *)
(***************************************************************************)
EXTENDS NativeCall, SequenceTheorems, FiniteSetTheorems, TLAPS

-----------------------------------------------------------------------------
(***************************************************************************)
(* The invariant.  What an argument of the call stands for is said in      *)
(* terms of the memory at its beginning; the memory now follows from it    *)
(* and from how many destructors have run.                                 *)
(***************************************************************************)
Places(i) == 1 .. Width(params[i])

Found(i) ==
  /\ argv + i - 1 \in Address
  /\ \A k \in Places(i) : Meant(i, k) \in Address /\ args[i].at[k] = Meant(i, k)
Missing(i) == \A k \in Places(i) : args[i].at[k] = NULL

\* What init leaves of an argument that it can reach.
Resolved(i) ==
  /\ argv + i - 1 \in Address /\ \A k \in Places(i) : Meant(i, k) \in Address
  /\ IF IsRef(params[i]) THEN Found(i) ELSE Missing(i)
  /\ \A k \in Places(i) : args[i].value[k] =
       IF params[i] = "cell&" THEN 0 ELSE entry[Meant(i, k)]

Types ==
  /\ mem \in [Address -> Values]
  /\ pc = "vm" => Idle
  /\ pc # "vm" => /\ params \in Seq(Kinds) /\ entry \in [Address -> Values]
                  /\ argc \in Nat /\ argv \in Nat

\* Every argument has its wrapper.
Wrappers ==
  /\ next \in 1 .. Len(params) + 1 /\ DOMAIN args = 1 .. Len(params)
  /\ \A i \in 1 .. Len(params) :
       args[i] \in [at : [Places(i) -> Address \cup {NULL}],
                    value : [Places(i) -> Values]]

Resolving ==
  /\ Wrappers /\ mem = entry /\ status = "success"
  /\ \A i \in 1 .. Len(params) : IF i < next THEN Resolved(i) ELSE Missing(i)

\* Reference i, which a destructor has written back, names the cell.
NamedBy(i, a) ==
  i < next /\ IsRef(params[i]) /\ \E k \in Places(i) : Meant(i, k) = a

Ran ==
  /\ Wrappers
  /\ \A i \in 1 .. Len(params) : IF IsRef(params[i]) THEN Found(i) ELSE Missing(i)
  /\ \A a \in Address :
       \/ mem[a] = entry[a] /\ \A i \in 1 .. Len(params) : ~NamedBy(i, a)
       \/ \E i \in 1 .. Len(params) :
            /\ NamedBy(i, a)
            /\ \A k \in Places(i) : Meant(i, k) = a => mem[a] = args[i].value[k]
            /\ \A j \in i + 1 .. Len(params) : ~NamedBy(j, a)

OnlyZeroes ==
  \A a \in Address : mem[a] # entry[a] =>
    /\ mem[a] = 0
    /\ \E i \in 1 .. Len(params) : /\ params[i] = "cell&" /\ argv + i - 1 \in Address
                                   /\ Meant(i, 1) = a

Unwinding ==
  /\ Wrappers /\ OnlyZeroes
  /\ \A i \in 1 .. Len(params) : Missing(i) \/ Resolved(i)

NativeInv ==
  /\ Types
  /\ pc \in {"debug_print", "look_up", "fetch"} => mem = entry /\ params = <<>>
  /\ pc = "init" => Resolving
  /\ pc = "unwind" => \/ status = "success" /\ Ran
                      \/ status = "access_violation" /\ Unwinding
  /\ pc = "fault" => /\ status = "access_violation"
                     /\ \E i \in 1 .. Len(params) : params[i] = "array&"
  /\ pc = "return" =>
       /\ ~Wrapped => mem = entry
       /\ Wrapped /\ status = "success" => Ran /\ next = Len(params) + 1
       /\ Wrapped /\ status # "success" => OnlyZeroes

(***************************************************************************)
(* debug_print.  A conversion that no longer fits is counted, not kept.    *)
(***************************************************************************)
Shown(j) == j \in DOMAIN args /\ j < argc /\ args[j] = entry[entry[argv + j]]

TextInv ==
  /\ it \in Nat /\ it < MessageRoom /\ arg_count \in Nat
  /\ message \in Seq({"char", "%%", "conv"})
  /\ Cardinality(Conversions) <= arg_count
  /\ pc \notin {"debug_print", "fetch", "return"} => message = <<>>
  /\ pc = "return" /\ status = "success" =>
       message = <<>> \/ \A j \in 1 .. arg_count : Shown(j)

-----------------------------------------------------------------------------
LEMMA Widths ==
  ASSUME NEW kind
  PROVE  /\ Width(kind) \in Nat /\ 1 \in 1 .. Width(kind)
         /\ Width(kind) <= N
         /\ kind \in {"cell", "cell&"} => Width(kind) = 1
BY CellsAssumption DEF Width

\* A wrapper that init has not reached.
LEMMA NewWrapper ==
  ASSUME NEW kind
  PROVE  /\ Wrapper(kind) \in [at : [1 .. Width(kind) -> Address \cup {NULL}],
                               value : [1 .. Width(kind) -> Values]]
         /\ \A k \in 1 .. Width(kind) : Wrapper(kind).at[k] = NULL
BY ValuesAssumption DEF Wrapper

\* The cells of an argument: where they are, and that no two of them are one.
LEMMA Cellwise ==
  ASSUME Types, pc # "vm", NEW i \in 1 .. Len(params), argv + i - 1 \in Address
  PROVE  /\ \A k \in Places(i) : Meant(i, k) \in Nat
         /\ \A j, k \in Places(i) : Meant(i, j) = Meant(i, k) => j = k
<1>1. entry[argv + i - 1] \in Nat /\ argv + i - 1 \in Nat
  <2>1. PICK x \in Address : x = argv + i - 1
    OBVIOUS
  <2>2. entry[x] \in Nat
    BY ValuesAssumption DEF Types
  <2>3. x \in Nat
    BY CellsAssumption DEF Address
  <2> QED
    BY <2>1, <2>2, <2>3
<1>2. CASE params[i] = "cell"
  <2>1. \A k \in Places(i) : Meant(i, k) = argv + i - 1 /\ k = 1
    BY <1>2, Widths DEF Meant, Places
  <2> QED
    BY <1>1, <2>1
<1>3. CASE params[i] # "cell"
  <2>1. PICK e \in Nat : e = entry[argv + i - 1]
    BY <1>1
  <2>2. \A k \in Places(i) : k \in Nat \ {0} /\ Meant(i, k) = e + k - 1
    BY <1>3, <2>1, Widths DEF Meant, Places
  <2>3. \A j, k \in Nat \ {0} : e + k - 1 \in Nat /\ (e + j - 1 = e + k - 1 => j = k)
    BY <2>1
  <2> QED
    BY <2>2, <2>3
<1> QED
  BY <1>2, <1>3

\* init of one argument, which it can reach or cannot.
LEMMA OneArgument ==
  ASSUME NativeInv, pc = "init", NEW n \in 1 .. Len(params), n = next
  PROVE  /\ Target(n) \in [Places(n) -> Address \cup {NULL}]
         /\ Read(n) \in [Places(n) -> Values]
         /\ Refused(n) => \A k \in Places(n) : Target(n)[k] = NULL
         /\ ~Refused(n) =>
              /\ argv + n - 1 \in Address
              /\ \A k \in Places(n) :
                   /\ Meant(n, k) \in Address
                   /\ Target(n)[k] = IF IsRef(params[n]) THEN Meant(n, k) ELSE NULL
                   /\ Read(n)[k] = IF params[n] = "cell&" THEN 0
                                     ELSE entry[Meant(n, k)]
<1>1. /\ Resolving /\ mem = entry /\ mem \in [Address -> Values]
      /\ Types /\ pc # "vm"
  BY DEF NativeInv, Resolving, Types
<1>2. /\ DOMAIN Names(n) = Places(n)
      /\ \A k \in Places(n) : Names(n)[k] = Meant(n, k)
  BY <1>1 DEF Names, Places, Meant, Param
<1>3. Param(n) = argv + n - 1
  BY DEF Param
<1>4. Reached(n) <=> /\ argv + n - 1 \in Address
                     /\ \A k \in Places(n) : Meant(n, k) \in Address
  BY <1>2, <1>3 DEF Reached, Mapped
<1>5. /\ Wrapper(params[n]).at \in [Places(n) -> Address \cup {NULL}]
      /\ \A k \in Places(n) : Wrapper(params[n]).at[k] = NULL
  BY NewWrapper DEF Places
<1>6. CASE Refused(n)
  <2>1. Target(n) = Wrapper(params[n]).at
    BY <1>6 DEF Target, Refused
  <2>2. Read(n) \in [Places(n) -> Values]
    <3>1. ASSUME NEW k \in Places(n)
          PROVE  (IF params[n] # "cell&" /\ Mapped(Param(n))
                     /\ \A j \in 1 .. k : Mapped(Names(n)[j])
                    THEN mem[Names(n)[k]] ELSE 0) \in Values
      <4>1. k \in 1 .. k
        BY Widths DEF Places
      <4> QED
        BY <1>1, <4>1, ValuesAssumption DEF Mapped
    <3> QED
      BY <3>1 DEF Read, Places
  <2> QED
    BY <1>5, <1>6, <2>1, <2>2
<1>7. CASE ~Refused(n)
  <2>1. /\ Reached(n) /\ argv + n - 1 \in Address
        /\ \A k \in Places(n) : Meant(n, k) \in Address
    BY <1>4, <1>7 DEF Refused
  <2>2. ASSUME IsRef(params[n])
        PROVE  /\ Target(n) \in [Places(n) -> Address \cup {NULL}]
               /\ \A k \in Places(n) : Target(n)[k] = Meant(n, k)
    <3>1. Target(n) = Names(n)
      BY <2>1, <2>2 DEF Target
    <3>2. Names(n) = [k \in Places(n) |-> Meant(n, k)]
      BY <1>1 DEF Names, Places, Meant, Param
    <3> QED
      BY <2>1, <3>1, <3>2
  <2>3. ~IsRef(params[n]) => Target(n) = Wrapper(params[n]).at
    BY DEF Target
  <2>4. ASSUME NEW k \in Places(n)
        PROVE  (IF params[n] # "cell&" /\ Mapped(Param(n))
                   /\ \A j \in 1 .. k : Mapped(Names(n)[j])
                  THEN mem[Names(n)[k]] ELSE 0)
                 = IF params[n] = "cell&" THEN 0 ELSE entry[Meant(n, k)]
    <3>1. \A j \in 1 .. k : j \in Places(n)
      BY Widths DEF Places
    <3> QED
      BY <1>1, <1>2, <1>3, <2>1, <3>1 DEF Mapped
  <2>5. Read(n) = [k \in Places(n) |-> IF params[n] = "cell&" THEN 0
                                         ELSE entry[Meant(n, k)]]
    BY <2>4 DEF Read, Places
  <2>6. Read(n) \in [Places(n) -> Values]
    BY <1>1, <2>1, <2>5, ValuesAssumption
  <2> QED
    BY <1>5, <1>7, <2>1, <2>2, <2>3, <2>5, <2>6
<1> QED
  BY <1>6, <1>7

LEMMA CallStep ==
  ASSUME NativeInv, NEW sig \in Natives, NEW n \in 0 .. MaxParams,
         NEW a \in 0 .. Cells, CallNative(sig, n, a)
  PROVE  NativeInv'
<1>1. /\ mem \in [Address -> Values] /\ mem' = mem /\ entry' = mem
      /\ params' = sig /\ argc' = n /\ argv' = a
      /\ sig \in Seq(Kinds) /\ n \in Nat /\ a \in Nat
      /\ pc = "vm" /\ next' = 1 /\ status = "success"
  BY NativesAssumption DEF NativeInv, Types, CallNative, Idle
<1>2. pc' # "vm" /\ Types'
  BY <1>1 DEF CallNative, Leave, Types
<1>3. CASE n # Len(sig)
  BY <1>1, <1>2, <1>3 DEF CallNative, Leave, NativeInv, OnlyZeroes, Wrapped
<1>4. CASE n = Len(sig)
  <2>1. args' = [i \in 1 .. n |-> Wrapper(sig[i])] /\ pc' = "init"
        /\ status' = "success"
    BY <1>1, <1>4 DEF CallNative
  <2>2. Wrappers'
    BY <1>1, <1>4, <2>1, NewWrapper DEF Wrappers, Places
  <2>3. Resolving'
    BY <1>1, <1>4, <2>1, <2>2, NewWrapper DEF Resolving, Missing, Places
  <2> QED
    BY <1>2, <2>1, <2>3 DEF NativeInv
<1> QED
  BY <1>3, <1>4

LEMMA InitStep ==
  ASSUME NativeInv, InitArg
  PROVE  NativeInv'
<1>1. /\ pc = "init" /\ Resolving /\ Wrappers /\ Types
      /\ mem = entry /\ status = "success"
      /\ next \in DOMAIN params /\ params \in Seq(Kinds)
  BY DEF NativeInv, InitArg, Resolving, Types
<1>2. /\ mem' = mem /\ params' = params /\ argc' = argc /\ argv' = argv
      /\ entry' = entry
  BY DEF InitArg, call
<1>3. PICK n \in 1 .. Len(params) : n = next
  BY <1>1, LenProperties
<1>4. PICK w : w = [at |-> Target(n), value |-> Read(n)]
  OBVIOUS
<1>5. args' = [args EXCEPT ![n] = w]
  BY <1>3, <1>4 DEF InitArg
<1>6. DOMAIN args = 1 .. Len(params)
  BY <1>1 DEF Wrappers
<1>7. /\ args'[n] = w /\ DOMAIN args' = 1 .. Len(params)
      /\ \A i \in 1 .. Len(params) : i # n => args'[i] = args[i]
  BY <1>5, <1>6
<1>8. /\ w \in [at : [Places(n) -> Address \cup {NULL}],
                value : [Places(n) -> Values]]
      /\ w.at = Target(n) /\ w.value = Read(n)
  BY <1>1, <1>3, <1>4, OneArgument
<1>9. pc' # "vm" /\ Types'
  BY <1>1, <1>2 DEF InitArg, Types
<1>10. ASSUME NEW i \in 1 .. Len(params)
       PROVE  args'[i] \in [at : [Places(i) -> Address \cup {NULL}],
                            value : [Places(i) -> Values]]
  BY <1>1, <1>7, <1>8 DEF Wrappers
<1>11. ASSUME NEW i \in 1 .. Len(params), i < n
       PROVE  Resolved(i)'
  <2>1. args'[i] = args[i] /\ Resolved(i)
    BY <1>1, <1>3, <1>7, <1>11 DEF Resolving
  <2> QED
    BY <1>2, <2>1 DEF Resolved, Found, Missing, Places, Meant
<1>12. ASSUME NEW i \in 1 .. Len(params), i > n
       PROVE  Missing(i)'
  <2>1. args'[i] = args[i] /\ Missing(i)
    BY <1>1, <1>3, <1>7, <1>12 DEF Resolving
  <2> QED
    BY <1>2, <2>1 DEF Missing, Places
<1>13. CASE Refused(n)
  <2>1. pc' = "unwind" /\ status' = "access_violation" /\ next' = 1
    BY <1>3, <1>13 DEF InitArg
  <2>2. Missing(n)'
    BY <1>1, <1>2, <1>3, <1>7, <1>8, <1>13, OneArgument DEF Missing, Places
  <2>3. Wrappers'
    BY <1>2, <1>7, <1>10, <2>1 DEF Wrappers, Places
  <2>4. Unwinding'
    <3>1. OnlyZeroes'
      BY <1>1, <1>2 DEF OnlyZeroes
    <3>2. \A i \in 1 .. Len(params) : Missing(i)' \/ Resolved(i)'
      BY <1>11, <1>12, <2>2
    <3> QED
      BY <1>2, <2>3, <3>1, <3>2 DEF Unwinding
  <2> QED
    BY <1>9, <2>1, <2>4 DEF NativeInv
<1>14. CASE ~Refused(n)
  <2>1. pc' = "init" /\ status' = "success" /\ next' = n + 1
    BY <1>1, <1>3, <1>14 DEF InitArg
  <2>2. Resolved(n)'
    BY <1>1, <1>2, <1>3, <1>7, <1>8, <1>14, OneArgument
       DEF Resolved, Found, Missing, Places, Meant
  <2>3. Wrappers'
    BY <1>2, <1>7, <1>10, <2>1 DEF Wrappers, Places
  <2>4. \A i \in 1 .. Len(params) : IF i < n + 1 THEN Resolved(i)' ELSE Missing(i)'
    BY <1>11, <1>12, <2>2
  <2>5. Resolving'
    BY <1>1, <1>2, <2>1, <2>3, <2>4 DEF Resolving
  <2> QED
    BY <1>9, <2>1, <2>5 DEF NativeInv
<1> QED
  BY <1>13, <1>14

LEMMA RunStep ==
  ASSUME NativeInv, RunNative
  PROVE  NativeInv'
<1>1. /\ pc = "init" /\ Resolving /\ Wrappers /\ Types
      /\ mem = entry /\ status = "success"
      /\ next \notin DOMAIN params /\ params \in Seq(Kinds)
  BY DEF NativeInv, RunNative, Resolving, Types
<1>2. /\ mem' = mem /\ params' = params /\ argc' = argc /\ argv' = argv
      /\ entry' = entry /\ status' = "success" /\ pc' = "unwind" /\ next' = 1
  BY <1>1 DEF RunNative, call
<1>3. PICK out \in [Outputs \X (1 .. N) -> Results \cup {NULL}] :
        args' = [i \in DOMAIN args |-> [args[i] EXCEPT !.value =
                   [k \in DOMAIN args[i].value |->
                      IF i \in Outputs /\ out[<<i, k>>] # NULL
                        THEN out[<<i, k>>] ELSE args[i].value[k]]]]
  BY Zenon DEF RunNative
<1>4. /\ DOMAIN args = 1 .. Len(params) /\ DOMAIN params = 1 .. Len(params)
      /\ \A i \in 1 .. Len(params) : i < next
  BY <1>1, LenProperties DEF Wrappers
<1>5. pc' # "vm" /\ Types'
  BY <1>1, <1>2 DEF Types
<1>6. ASSUME NEW i \in 1 .. Len(params)
      PROVE  /\ args'[i] \in [at : [Places(i) -> Address \cup {NULL}],
                              value : [Places(i) -> Values]]
             /\ args'[i].at = args[i].at
  <2>1. PICK w : w = args[i]
    OBVIOUS
  <2>2. w \in [at : [Places(i) -> Address \cup {NULL}],
               value : [Places(i) -> Values]]
    BY <1>1, <2>1 DEF Wrappers
  <2>3. PICK v : v = [k \in Places(i) |->
            IF i \in Outputs /\ out[<<i, k>>] # NULL THEN out[<<i, k>>] ELSE w.value[k]]
    OBVIOUS
  <2>4. args'[i] = [w EXCEPT !.value = v]
    BY <1>3, <1>4, <2>1, <2>2, <2>3
  <2>5. v \in [Places(i) -> Values]
    <3>1. ASSUME NEW k \in Places(i), i \in Outputs, out[<<i, k>>] # NULL
          PROVE  out[<<i, k>>] \in Values
      <4>1. k \in 1 .. N
        BY Widths, CellsAssumption DEF Places
      <4>2. <<i, k>> \in Outputs \X (1 .. N)
        BY <3>1, <4>1
      <4>3. out[<<i, k>>] \in Results \cup {NULL}
        BY <4>2
      <4> QED
        BY <3>1, <4>3, ValuesAssumption
    <3> QED
      BY <2>2, <2>3, <3>1
  <2> QED
    BY <2>1, <2>2, <2>4, <2>5
<1>7. Wrappers'
  <2>1. DOMAIN args' = 1 .. Len(params)
    BY <1>3, <1>4
  <2>2. 1 \in 1 .. Len(params) + 1
    BY <1>1, LenProperties
  <2> QED
    BY <1>2, <1>6, <2>1, <2>2 DEF Wrappers, Places
<1>8. ASSUME NEW i \in 1 .. Len(params)
      PROVE  (IF IsRef(params[i]) THEN Found(i) ELSE Missing(i))'
  <2>1. IF IsRef(params[i]) THEN Found(i) ELSE Missing(i)
    BY <1>1, <1>4 DEF Resolving, Resolved
  <2>2. args'[i].at = args[i].at
    BY <1>6
  <2> QED
    BY <1>2, <2>1, <2>2 DEF Found, Missing, Places, Meant
<1>9. ASSUME NEW a \in Address
      PROVE  mem'[a] = entry'[a] /\ \A i \in 1 .. Len(params) : ~NamedBy(i, a)'
  BY <1>1, <1>2 DEF NamedBy
<1>10. Ran'
  BY <1>2, <1>7, <1>8, <1>9 DEF Ran
<1> QED
  BY <1>2, <1>5, <1>10 DEF NativeInv

\* A destructor writes every cell it has found, and no other.
LEMMA Written ==
  ASSUME NativeInv, WriteBack, NEW n \in 1 .. Len(params), n = next,
         Missing(n) \/ Found(n)
  PROVE  /\ mem' \in [Address -> Values]
         /\ \A a \in Address :
              (\A k \in Places(n) : args[n].at[k] # a) => mem'[a] = mem[a]
         /\ Found(n) =>
              \A k \in Places(n) : mem'[Meant(n, k)] = args[n].value[k]
<1>1. Types /\ Wrappers /\ pc # "vm" /\ mem \in [Address -> Values]
  BY DEF NativeInv, WriteBack, Ran, Unwinding, Types
<1>2. PICK at, value : at = args[n].at /\ value = args[n].value
  OBVIOUS
<1>3. /\ at \in [Places(n) -> Address \cup {NULL}]
      /\ value \in [Places(n) -> Values]
  BY <1>1, <1>2 DEF Wrappers
<1>4. mem' = [a \in Address |->
               IF {k \in DOMAIN at : at[k] = a} = {} THEN mem[a]
                 ELSE value[CHOOSE k \in {k \in DOMAIN at : at[k] = a} : TRUE]]
  <2>1. mem' = [a \in Address |->
                 IF {k \in DOMAIN args[next].at : args[next].at[k] = a} = {}
                   THEN mem[a]
                   ELSE args[next].value[CHOOSE k \in
                     {k \in DOMAIN args[next].at : args[next].at[k] = a} : TRUE]]
    BY Zenon DEF WriteBack
  <2>2. at = args[next].at /\ value = args[next].value
    BY <1>2
  <2> QED
    BY <2>1, <2>2
<1>5. ASSUME NEW a \in Address
      PROVE  /\ mem'[a] \in Values
             /\ (\A k \in Places(n) : at[k] # a) => mem'[a] = mem[a]
  <2>1. CASE {k \in DOMAIN at : at[k] = a} = {}
    BY <1>1, <1>3, <1>4, <2>1
  <2>2. CASE {k \in DOMAIN at : at[k] = a} # {}
    <3>1. PICK x : x = CHOOSE k \in {k \in DOMAIN at : at[k] = a} : TRUE
      OBVIOUS
    <3>2. x \in {k \in DOMAIN at : at[k] = a}
      BY <2>2, <3>1, Zenon
    <3>3. mem'[a] = value[x]
      BY <1>4, <2>2, <3>1, Zenon
    <3> QED
      BY <1>3, <3>2, <3>3
  <2> QED
    BY <2>1, <2>2
<1>6. ASSUME Found(n), NEW k \in Places(n)
      PROVE  mem'[Meant(n, k)] = value[k]
  <2>1. PICK a \in Address : a = Meant(n, k) /\ at[k] = a
    BY <1>2, <1>6 DEF Found
  <2>2. \A j \in Places(n) : at[j] = a => j = k
    BY <1>1, <1>2, <1>6, <2>1, Cellwise DEF Found
  <2>3. {j \in DOMAIN at : at[j] = a} = {k}
    BY <1>3, <2>1, <2>2
  <2>4. mem'[a] = value[CHOOSE j \in {k} : TRUE]
    BY <1>4, <2>3
  <2>5. (CHOOSE j \in {k} : TRUE) = k
    OBVIOUS
  <2> QED
    BY <2>1, <2>4, <2>5
<1>7. mem' \in [Address -> Values]
  <2>1. \A a \in Address : mem'[a] \in Values
    BY <1>5
  <2> QED
    BY <1>4, <2>1
<1> QED
  BY <1>2, <1>5, <1>6, <1>7

LEMMA WriteStep ==
  ASSUME NativeInv, WriteBack
  PROVE  NativeInv'
<1>1. /\ pc = "unwind" /\ Wrappers /\ Types /\ params \in Seq(Kinds)
      /\ \/ status = "success" /\ Ran
         \/ status = "access_violation" /\ Unwinding
  BY DEF NativeInv, WriteBack, Ran, Unwinding, Types
<1>2. /\ params' = params /\ argc' = argc /\ argv' = argv /\ args' = args
      /\ entry' = entry /\ status' = status
  BY DEF WriteBack, call
<1>3. PICK n \in 1 .. Len(params) : n = next
  BY <1>1, LenProperties DEF WriteBack
<1>4. next' = n + 1
  BY <1>3 DEF WriteBack
<1>5. Missing(n) \/ Found(n)
  BY <1>1 DEF Ran, Unwinding, Resolved
<1>6. mem' \in [Address -> Values]
  BY <1>3, <1>5, Written
<1>7. ASSUME NEW a \in Address, Missing(n) \/ \A k \in Places(n) : Meant(n, k) # a
      PROVE  mem'[a] = mem[a]
  <2>1. NULL # a
    BY NullAssumption DEF Address
  <2>2. \A k \in Places(n) : args[n].at[k] # a
    BY <1>5, <1>7, <2>1 DEF Missing, Found
  <2> QED
    BY <1>3, <1>5, <2>2, Written
<1>8. Found(n) => \A k \in Places(n) : mem'[Meant(n, k)] = args[n].value[k]
  BY <1>3, <1>5, Written
<1>9. pc' # "vm" /\ Types'
  BY <1>1, <1>2, <1>6 DEF WriteBack, Types
<1>10. Wrappers'
  <2>1. n + 1 \in 1 .. Len(params) + 1
    BY <1>1, LenProperties
  <2> QED
    BY <1>1, <1>2, <1>4, <2>1 DEF Wrappers, Places
<1>11. \A a, i : NamedBy(i, a)' <=> i < n + 1 /\ IsRef(params[i])
                                    /\ \E k \in Places(i) : Meant(i, k) = a
  BY <1>2, <1>4 DEF NamedBy, Places, Meant
<1>12. CASE status = "success" /\ Ran
  <2>1. IF IsRef(params[n]) THEN Found(n) ELSE Missing(n)
    BY <1>12 DEF Ran
  <2>2. pc' = "unwind"
    <3>1. ASSUME params[n] = "array&"
          PROVE  args[n].at[1] # NULL
      <4>1. Found(n)
        BY <2>1, <3>1 DEF IsRef
      <4>2. 1 \in Places(n)
        BY Widths DEF Places
      <4>3. args[n].at[1] \in Address
        BY <4>1, <4>2 DEF Found
      <4> QED
        BY <4>3, NullAssumption DEF Address
    <3> QED
      BY <1>1, <1>3, <3>1 DEF WriteBack
  <2>3. ASSUME NEW a \in Address
        PROVE  \/ mem'[a] = entry[a] /\ \A i \in 1 .. Len(params) : ~NamedBy(i, a)'
               \/ \E i \in 1 .. Len(params) :
                    /\ NamedBy(i, a)'
                    /\ \A k \in Places(i) : Meant(i, k) = a => mem'[a] = args[i].value[k]
                    /\ \A j \in i + 1 .. Len(params) : ~NamedBy(j, a)'
    <3>1. CASE IsRef(params[n]) /\ \E k \in Places(n) : Meant(n, k) = a
      <4>1. NamedBy(n, a)'
        BY <1>11, <3>1
      <4>2. \A k \in Places(n) : Meant(n, k) = a => mem'[a] = args[n].value[k]
        BY <1>8, <2>1, <3>1
      <4>3. \A j \in n + 1 .. Len(params) : ~NamedBy(j, a)'
        BY <1>11
      <4> QED
        BY <4>1, <4>2, <4>3
    <3>2. CASE ~(IsRef(params[n]) /\ \E k \in Places(n) : Meant(n, k) = a)
      <4>1. mem'[a] = mem[a]
        BY <1>7, <2>1, <3>2
      <4>2. \A i \in 1 .. Len(params) : NamedBy(i, a)' <=> NamedBy(i, a)
        <5> SUFFICES ASSUME NEW i \in 1 .. Len(params)
                     PROVE  NamedBy(i, a)' <=> NamedBy(i, a)
          OBVIOUS
        <5>1. i < n + 1 <=> (i < n \/ i = n)
          OBVIOUS
        <5>2. NamedBy(i, a) <=> /\ i < n /\ IsRef(params[i])
                                /\ \E k \in Places(i) : Meant(i, k) = a
          BY <1>3 DEF NamedBy
        <5> QED
          BY <1>11, <3>2, <5>1, <5>2
      <4>3. CASE mem[a] = entry[a] /\ \A i \in 1 .. Len(params) : ~NamedBy(i, a)
        BY <4>1, <4>2, <4>3
      <4>4. CASE \E i \in 1 .. Len(params) :
                   /\ NamedBy(i, a)
                   /\ \A k \in Places(i) : Meant(i, k) = a => mem[a] = args[i].value[k]
                   /\ \A j \in i + 1 .. Len(params) : ~NamedBy(j, a)
        <5>1. PICK i \in 1 .. Len(params) :
                /\ NamedBy(i, a)
                /\ \A k \in Places(i) : Meant(i, k) = a => mem[a] = args[i].value[k]
                /\ \A j \in i + 1 .. Len(params) : ~NamedBy(j, a)
          BY <4>4
        <5>2. \A j \in i + 1 .. Len(params) : j \in 1 .. Len(params)
          OBVIOUS
        <5> QED
          BY <4>1, <4>2, <5>1, <5>2
      <4> QED
        BY <1>12, <4>3, <4>4 DEF Ran
    <3> QED
      BY <3>1, <3>2
  <2>4. \A i \in 1 .. Len(params) :
          (IF IsRef(params[i]) THEN Found(i) ELSE Missing(i))'
    BY <1>2, <1>12 DEF Ran, Found, Missing, Places, Meant
  <2>5. Ran'
    BY <1>2, <1>10, <2>3, <2>4 DEF Ran, Places, Meant
  <2> QED
    BY <1>2, <1>9, <1>12, <2>2, <2>5 DEF NativeInv
<1>13. CASE status = "access_violation" /\ Unwinding
  <2>1. Missing(n) \/ Resolved(n)
    BY <1>13 DEF Unwinding
  <2>2. ASSUME NEW a \in Address, mem'[a] # entry[a]
        PROVE  /\ mem'[a] = 0
               /\ \E i \in 1 .. Len(params) :
                    /\ params[i] = "cell&" /\ argv + i - 1 \in Address
                    /\ Meant(i, 1) = a
    <3>1. CASE Missing(n) \/ \A k \in Places(n) : Meant(n, k) # a
      <4>1. mem'[a] = mem[a]
        BY <1>7, <3>1
      <4> QED
        BY <1>13, <2>2, <4>1 DEF Unwinding, OnlyZeroes
    <3>2. CASE ~Missing(n) /\ \E k \in Places(n) : Meant(n, k) = a
      <4>1. PICK k \in Places(n) : Meant(n, k) = a
        BY <3>2
      <4>2. Resolved(n) /\ Found(n)
        BY <2>1, <3>2 DEF Resolved
      <4>3. mem'[a] = IF params[n] = "cell&" THEN 0 ELSE entry[a]
        BY <1>8, <4>1, <4>2 DEF Resolved
      <4>4. params[n] = "cell&" /\ mem'[a] = 0
        BY <2>2, <4>3
      <4>5. k = 1
        BY <4>4, Widths DEF Places
      <4> QED
        BY <4>1, <4>2, <4>4, <4>5 DEF Found
    <3> QED
      BY <3>1, <3>2
  <2>3. OnlyZeroes'
    BY <1>2, <2>2 DEF OnlyZeroes, Meant
  <2>4. \A i \in 1 .. Len(params) : (Missing(i) \/ Resolved(i))'
    BY <1>2, <1>13 DEF Unwinding, Resolved, Found, Missing, Places, Meant
  <2>5. Unwinding'
    BY <1>2, <1>10, <2>3, <2>4 DEF Unwinding
  <2>6. pc' = "unwind" \/ (pc' = "fault" /\ params[n] = "array&")
    BY <1>1, <1>3 DEF WriteBack
  <2> QED
    BY <1>2, <1>9, <1>13, <2>5, <2>6 DEF NativeInv
<1> QED
  BY <1>1, <1>12, <1>13

LEMMA UnwoundStep ==
  ASSUME NativeInv, Unwound
  PROVE  NativeInv'
<1>1. /\ pc = "unwind" /\ Wrappers /\ Types /\ params \in Seq(Kinds)
      /\ \/ status = "success" /\ Ran
         \/ status = "access_violation" /\ Unwinding
  BY DEF NativeInv, Unwound, Ran, Unwinding, Types
<1>2. /\ params' = params /\ argc' = argc /\ argv' = argv /\ args' = args
      /\ entry' = entry /\ status' = status /\ mem' = mem /\ next' = next
      /\ pc' = "return"
  BY DEF Unwound, call
<1>3. next = Len(params) + 1
  <2>1. Len(params) \in Nat /\ DOMAIN params = 1 .. Len(params)
    BY <1>1, LenProperties
  <2> QED
    BY <1>1, <2>1 DEF Unwound, Wrappers
<1>4. Types'
  BY <1>1, <1>2 DEF Types
<1>5. ~Wrapped => mem = entry
  <2> SUFFICES ASSUME params = <<>>
               PROVE  \A a \in Address : mem[a] = entry[a]
    BY <1>1 DEF Wrapped, Types
  <2>1. 1 .. Len(params) = {}
    OBVIOUS
  <2> QED
    BY <1>1, <2>1 DEF Ran, Unwinding, OnlyZeroes
<1>6. Ran => Ran'
  BY <1>2 DEF Ran, Wrappers, Found, Missing, NamedBy, Places, Meant
<1>7. Unwinding => OnlyZeroes'
  BY <1>2 DEF Unwinding, OnlyZeroes, Meant
<1> QED
  BY <1>1, <1>2, <1>3, <1>4, <1>5, <1>6, <1>7 DEF NativeInv, Wrapped

\* The natives that take a string read the memory and write none of it.
LEMMA TextStep ==
  ASSUME NativeInv,
         \/ \E native \in {"debug_print", "look_up"}, n \in 0 .. MaxParams,
               a \in 0 .. Cells : CallString(native, n, a)
         \/ FormatChar \/ FetchArgs \/ LookUp
  PROVE  NativeInv'
<1>1. CASE \E native \in {"debug_print", "look_up"}, n \in 0 .. MaxParams,
              a \in 0 .. Cells : CallString(native, n, a)
  <2>1. PICK native \in {"debug_print", "look_up"}, n \in 0 .. MaxParams,
             a \in 0 .. Cells : CallString(native, n, a)
    BY <1>1
  <2>2. /\ mem \in [Address -> Values] /\ mem' = mem /\ entry' = mem
        /\ params' = <<>> /\ argc' = n /\ argv' = a /\ n \in Nat /\ a \in Nat
    BY <2>1 DEF NativeInv, Types, Idle, CallString
  <2>3. pc' \in {"debug_print", "look_up", "return"}
    BY <2>1 DEF CallString, Leave
  <2> QED
    BY <2>2, <2>3 DEF NativeInv, Types, Wrapped
<1>2. CASE FormatChar \/ FetchArgs \/ LookUp
  <2>1. /\ pc \in {"debug_print", "look_up", "fetch"} /\ Types
        /\ mem = entry /\ params = <<>>
        /\ mem' = mem /\ entry' = entry /\ params' = params
        /\ argc' = argc /\ argv' = argv
    BY <1>2 DEF NativeInv, FormatChar, FetchArgs, LookUp, call
  <2>2. pc' \in {"debug_print", "fetch", "return"}
    BY <1>2 DEF FormatChar, OutOfText, Directive, Literal, Compose, Leave,
                FetchArgs, LookUp
  <2> QED
    BY <2>1, <2>2 DEF NativeInv, Types, Wrapped
<1> QED
  BY <1>1, <1>2

-----------------------------------------------------------------------------
LEMMA NativePreserved == NativeInv /\ [Next]_vars => NativeInv'
<1> SUFFICES ASSUME NativeInv, [Next]_vars
             PROVE  NativeInv'
  OBVIOUS
<1>1. CASE \E n \in 0 .. MaxParams, a \in 0 .. Cells, sig \in Natives :
             CallNative(sig, n, a)
  BY <1>1, CallStep
<1>2. CASE Return
  BY <1>2 DEF Return, NativeInv, Types, Idle
<1>3. CASE UNCHANGED vars
  <2>1. /\ mem' = mem /\ pc' = pc /\ params' = params /\ argc' = argc
        /\ argv' = argv /\ entry' = entry /\ next' = next /\ args' = args
        /\ status' = status /\ vit' = vit /\ message' = message /\ it' = it
        /\ arg_count' = arg_count /\ in_escape' = in_escape
    BY <1>3 DEF vars, call, text
  <2>2. /\ Wrappers' <=> Wrappers
        /\ Types' <=> Types
        /\ OnlyZeroes' <=> OnlyZeroes
    <3>1. Idle' <=> Idle
      BY <2>1 DEF Idle
    <3>2. Types' <=> Types
      BY <2>1, <3>1 DEF Types
    <3>3. Wrappers' <=> Wrappers
      BY <2>1 DEF Wrappers, Places
    <3> QED
      BY <2>1, <3>2, <3>3 DEF OnlyZeroes, Meant
  <2>3. \A i : /\ Found(i)' <=> Found(i)
               /\ Missing(i)' <=> Missing(i)
               /\ Resolved(i)' <=> Resolved(i)
               /\ \A a : NamedBy(i, a)' <=> NamedBy(i, a)
    BY <2>1 DEF Resolved, Found, Missing, NamedBy, Places, Meant
  <2>4. Resolving' <=> Resolving
    BY <2>1, <2>2, <2>3 DEF Resolving
  <2>5. Ran' <=> Ran
    BY <2>1, <2>2, <2>3 DEF Ran, Places, Meant
  <2>6. Unwinding' <=> Unwinding
    BY <2>1, <2>2, <2>3 DEF Unwinding
  <2> QED
    BY <2>1, <2>2, <2>4, <2>5, <2>6 DEF NativeInv, Wrapped
<1> QED
  BY <1>1, <1>2, <1>3, InitStep, RunStep, WriteStep, UnwoundStep, TextStep
     DEF Next, Fault

\* Every call is as far as its wrappers and its memory say.
THEOREM NativeInvariance == Spec => []NativeInv
<1>1. Init => NativeInv
  BY DEF Init, Idle, NativeInv, Types
<1> QED
  BY <1>1, NativePreserved, PTL DEF Spec

(***************************************************************************)
(* A native runs on the values that its arguments had when the module      *)
(* called it, for every list of parameters and every memory.               *)
(***************************************************************************)
THEOREM NativesGetWhatIsMeant == Spec => []ArgsAreMeant
<1>1. NativeInv => ArgsAreMeant
  <2> SUFFICES ASSUME NativeInv, pc = "init", next \notin DOMAIN params,
                      NEW i \in DOMAIN params, NEW k \in 1 .. Width(params[i])
               PROVE  /\ i \in References => args[i].at[k] = Meant(i, k)
                      /\ params[i] # "cell&" => args[i].value[k] = entry[Meant(i, k)]
    BY DEF ArgsAreMeant
  <2>1. Resolving /\ Wrappers /\ params \in Seq(Kinds)
    BY DEF NativeInv, Resolving, Types
  <2>2. i \in 1 .. Len(params) /\ i < next
    BY <2>1, LenProperties DEF Wrappers
  <2>3. Resolved(i)
    BY <2>1, <2>2 DEF Resolving
  <2>4. i \in References => IsRef(params[i])
    BY DEF References, At, IsRef
  <2> QED
    BY <2>3, <2>4 DEF Resolved, Found, Places
<1> QED
  BY <1>1, NativeInvariance, PTL

(***************************************************************************)
(* A call that init refused anywhere leaves the memory as it was, except   *)
(* for cells that its references to cells named, which are 0.              *)
(***************************************************************************)
THEOREM RefusalWritesZeroes == Spec => []RefusedOnlyZeroes
<1>1. NativeInv => RefusedOnlyZeroes
  <2> SUFFICES ASSUME NativeInv, pc = "return", status # "success",
                      NEW a \in Address, mem[a] # entry[a]
               PROVE  /\ mem[a] = 0
                      /\ \E i \in At("cell&") :
                           argv + i - 1 \in Address /\ Meant(i, 1) = a
    BY DEF RefusedOnlyZeroes
  <2>1. OnlyZeroes /\ DOMAIN params = 1 .. Len(params)
    BY LenProperties DEF NativeInv, Types
  <2> QED
    BY <2>1 DEF OnlyZeroes, At
<1> QED
  BY <1>1, NativeInvariance, PTL

(***************************************************************************)
(* The destructor of a reference to an array, which writes without asking  *)
(* where, never runs into nothing in a call that ran.                      *)
(***************************************************************************)
THEOREM OnlyRefusalsFault == Spec => []FaultsOnlyIfRefused
<1>1. NativeInv => FaultsOnlyIfRefused
  <2>1. NativeInv /\ pc = "fault" => DOMAIN params = 1 .. Len(params)
    BY LenProperties DEF NativeInv, Types
  <2> QED
    BY <2>1 DEF NativeInv, FaultsOnlyIfRefused, At
<1> QED
  BY <1>1, NativeInvariance, PTL

(***************************************************************************)
(* When a native returns, a cell that references name holds what the last  *)
(* of them was left with, however they overlap; the others are untouched.  *)
(***************************************************************************)
THEOREM LastReferenceWins == Spec => []OutputsLand
<1>1. NativeInv => OutputsLand
  <2> SUFFICES ASSUME NativeInv, pc = "return", Wrapped, status = "success",
                      NEW a \in Address
               PROVE  IF Naming(a) = {} THEN mem[a] = entry[a]
                        ELSE LET i == Max({ik[1] : ik \in Naming(a)})
                                 k == CHOOSE k \in 1 .. N : <<i, k>> \in Naming(a)
                             IN  mem[a] = args[i].value[k]
    BY DEF OutputsLand
  <2>1. /\ Ran /\ next = Len(params) + 1 /\ Types /\ pc # "vm"
        /\ DOMAIN params = 1 .. Len(params) /\ Len(params) \in Nat
    BY LenProperties DEF NativeInv, Types
  <2>2. \A i \in 1 .. Len(params) :
          /\ i \in References <=> IsRef(params[i])
          /\ i < next
    BY <2>1 DEF References, At, IsRef
  <2>3. \A i, k : <<i, k>> \in Naming(a) <=>
          /\ i \in 1 .. Len(params) /\ IsRef(params[i]) /\ k \in Places(i)
          /\ Meant(i, k) = a
    <3>1. \A i, k : k \in Places(i) <=> k \in 1 .. N /\ k <= Width(params[i])
      BY Widths, CellsAssumption DEF Places
    <3> QED
      BY <2>1, <2>2, <3>1 DEF Naming
  <2>4. \A i \in 1 .. Len(params) : NamedBy(i, a) <=> \E k : <<i, k>> \in Naming(a)
    BY <2>2, <2>3 DEF NamedBy
  <2>5. \A x \in Naming(a) : x = <<x[1], x[2]>>
    BY DEF Naming
  <2>6. CASE Naming(a) = {}
    <3>1. \A i \in 1 .. Len(params) : ~NamedBy(i, a)
      BY <2>4, <2>6
    <3> QED
      BY <2>1, <2>6, <3>1 DEF Ran
  <2>7. CASE Naming(a) # {}
    <3>1. PICK first \in 1 .. Len(params) : NamedBy(first, a)
      <4>1. PICK x : x \in Naming(a)
        BY <2>7, Zenon
      <4>2. PICK i, k : i = x[1] /\ k = x[2]
        OBVIOUS
      <4>3. <<i, k>> \in Naming(a)
        BY <2>5, <4>1, <4>2
      <4>4. i \in 1 .. Len(params)
        BY <2>3, <4>3
      <4>5. NamedBy(i, a)
        BY <2>4, <4>3, <4>4
      <4> QED
        BY <4>4, <4>5
    <3>2. PICK i \in 1 .. Len(params) :
            /\ NamedBy(i, a)
            /\ \A k \in Places(i) : Meant(i, k) = a => mem[a] = args[i].value[k]
            /\ \A j \in i + 1 .. Len(params) : ~NamedBy(j, a)
      BY <2>1, <3>1 DEF Ran
    <3>3. Max({ik[1] : ik \in Naming(a)}) = i
      <4> DEFINE firsts == {ik[1] : ik \in Naming(a)}
      <4>1. i \in firsts
        <5>1. PICK x \in Naming(a) : x[1] = i
          <6>1. PICK k : <<i, k>> \in Naming(a)
            BY <2>4, <3>2
          <6>2. <<i, k>>[1] = i
            OBVIOUS
          <6> QED
            BY <6>1, <6>2
        <5> QED
          BY <5>1
      <4>2. \A j \in firsts : j \in 1 .. Len(params) /\ NamedBy(j, a)
        <5> SUFFICES ASSUME NEW x \in Naming(a)
                     PROVE  x[1] \in 1 .. Len(params) /\ NamedBy(x[1], a)
          OBVIOUS
        <5>1. <<x[1], x[2]>> \in Naming(a)
          BY <2>5
        <5> QED
          BY <2>3, <2>4, <5>1
      <4>3. \A j \in firsts : j \in Int /\ i >= j
        <5>1. \A j \in 1 .. Len(params) : i >= j \/ j \in i + 1 .. Len(params)
          OBVIOUS
        <5> QED
          BY <3>2, <4>2, <5>1
      <4> HIDE DEF firsts
      <4>4. \A j \in firsts : (\A y \in firsts : j >= y) => j = i
        BY <4>1, <4>3
      <4>5. Max(firsts) = i
        BY <4>1, <4>3, <4>4 DEF Max
      <4> QED
        BY <4>5 DEF firsts
    <3>4. PICK k \in 1 .. N : k = CHOOSE j \in 1 .. N : <<i, j>> \in Naming(a)
      <4>1. \E j \in 1 .. N : <<i, j>> \in Naming(a)
        <5>1. PICK j : <<i, j>> \in Naming(a)
          BY <2>4, <3>2
        <5>2. j \in 1 .. N
          BY <5>1 DEF Naming
        <5> QED
          BY <5>1, <5>2
      <4> QED
        BY <4>1
    <3>5. <<i, k>> \in Naming(a)
      <4>1. \E j \in 1 .. N : <<i, j>> \in Naming(a)
        <5>1. PICK j : <<i, j>> \in Naming(a)
          BY <2>4, <3>2
        <5>2. j \in 1 .. N
          BY <5>1 DEF Naming
        <5> QED
          BY <5>1, <5>2
      <4> QED
        BY <3>4, <4>1
    <3>6. mem[a] = args[i].value[k]
      BY <2>3, <3>2, <3>5
    <3> QED
      BY <2>7, <3>3, <3>4, <3>6
  <2> QED
    BY <2>6, <2>7
<1> QED
  BY <1>1, NativeInvariance, PTL

-----------------------------------------------------------------------------
LEMMA ConversionsAreFinite ==
  ASSUME NEW S, NEW s \in Seq(S)
  PROVE  /\ IsFiniteSet({k \in DOMAIN s : s[k] = "conv"})
         /\ Cardinality({k \in DOMAIN s : s[k] = "conv"}) \in Nat
<1>1. Len(s) \in Nat /\ DOMAIN s = 1 .. Len(s)
  BY LenProperties
<1>2. IsFiniteSet(1 .. Len(s))
  BY <1>1, FS_Interval
<1>3. {k \in DOMAIN s : s[k] = "conv"} \subseteq 1 .. Len(s)
  BY <1>1
<1> QED
  BY <1>2, <1>3, FS_Subset, FS_CardinalityType

\* A token more, and one conversion more if it is one.
LEMMA OneToken ==
  ASSUME NEW S, NEW s \in Seq(S), NEW token \in S, NEW r, r = Append(s, token)
  PROVE  LET old == {k \in DOMAIN s : s[k] = "conv"}
             new == {k \in DOMAIN r : r[k] = "conv"}
         IN  Cardinality(new) <=
               IF token = "conv" THEN Cardinality(old) + 1 ELSE Cardinality(old)
<1> DEFINE old == {k \in DOMAIN s : s[k] = "conv"}
           new == {k \in DOMAIN r : r[k] = "conv"}
<1>1. PICK n \in Nat : n = Len(s)
  BY LenProperties
<1>2. /\ DOMAIN s = 1 .. n /\ DOMAIN r = 1 .. n + 1 /\ r[n + 1] = token
      /\ \A k \in 1 .. n : r[k] = s[k]
  <2>1. DOMAIN s = 1 .. n /\ r \in Seq(S) /\ Len(r) = n + 1
    BY <1>1, LenProperties, AppendProperties
  <2> QED
    BY <1>1, <2>1, LenProperties, AppendProperties
<1>3. new = IF token = "conv" THEN old \cup {n + 1} ELSE old
  <2>1. \A k : k \in 1 .. n + 1 <=> k \in 1 .. n \/ k = n + 1
    BY <1>1
  <2> QED
    BY <1>2, <2>1
<1>4. IsFiniteSet(old) /\ Cardinality(old) \in Nat /\ n + 1 \notin old
  <2>1. IsFiniteSet(old) /\ Cardinality(old) \in Nat
    BY ConversionsAreFinite
  <2>2. n + 1 \notin 1 .. n
    BY <1>1
  <2> QED
    BY <1>2, <2>1, <2>2
<1> HIDE DEF old, new
<1>5. Cardinality(old \cup {n + 1}) = Cardinality(old) + 1
  BY <1>4, FS_AddElement
<1>6. Cardinality(new) <= IF token = "conv" THEN Cardinality(old) + 1
                                            ELSE Cardinality(old)
  BY <1>3, <1>4, <1>5
<1> QED
  BY <1>6 DEF old, new

LEMMA TextInitially == Init => TextInv
<1> SUFFICES ASSUME Init
             PROVE  TextInv
  OBVIOUS
<1>1. Conversions = {} /\ message = <<>> /\ pc = "vm" /\ it = 0 /\ arg_count = 0
  BY DEF Init, Idle, Conversions
<1> QED
  BY <1>1, EmptySeq, FS_EmptySet, RoomAssumption DEF TextInv

\* No step but those of debug_print touches what it has composed.
LEMMA TextKeeps ==
  ASSUME TextInv, UNCHANGED <<message, it, arg_count>>,
         pc' \notin {"debug_print", "fetch", "return"} => message = <<>>,
         pc' = "return" /\ status' = "success" =>
           message = <<>> \/ \A j \in 1 .. arg_count : Shown(j)'
  PROVE  TextInv'
<1>1. Conversions' = Conversions
  BY DEF Conversions
<1> QED
  BY <1>1 DEF TextInv

LEMMA ComposeStep ==
  ASSUME TextInv, NEW token \in {"char", "%%", "conv"}, Compose(token),
         pc = "debug_print", status' = status,
         arg_count' = IF token = "conv" THEN arg_count + 1 ELSE arg_count
  PROVE  TextInv'
<1>1. /\ it \in Nat /\ it < MessageRoom /\ arg_count \in Nat /\ arg_count' \in Nat
      /\ message \in Seq({"char", "%%", "conv"})
      /\ Cardinality(Conversions) <= arg_count /\ Cardinality(Conversions) \in Nat
  <2>1. /\ it \in Nat /\ it < MessageRoom /\ arg_count \in Nat
        /\ message \in Seq({"char", "%%", "conv"})
        /\ Cardinality(Conversions) <= arg_count
    BY DEF TextInv
  <2>2. Cardinality(Conversions) \in Nat
    BY <2>1, ConversionsAreFinite DEF Conversions
  <2>3. arg_count' \in Nat
    BY <2>1
  <2> QED
    BY <2>1, <2>2, <2>3
<1>2. pc' \in {"debug_print", "fetch"}
  BY DEF Compose
<1>3. CASE Fits(token)
  <2>1. /\ message' = Append(message, token) /\ it' = it + Size(token)
        /\ it + Size(token) < MessageRoom
    BY <1>3 DEF Compose, Fits
  <2>2. Size(token) \in Nat
    BY DEF Size
  <2>3. message' \in Seq({"char", "%%", "conv"})
    BY <1>1, <2>1, AppendProperties
  <2>4. Cardinality(Conversions') <=
          IF token = "conv" THEN Cardinality(Conversions) + 1
                            ELSE Cardinality(Conversions)
    <3>1. PICK s, r : s = message /\ r = message'
      OBVIOUS
    <3>2. /\ Conversions = {k \in DOMAIN s : s[k] = "conv"}
          /\ Conversions' = {k \in DOMAIN r : r[k] = "conv"}
      BY <3>1 DEF Conversions
    <3>3. s \in Seq({"char", "%%", "conv"}) /\ r = Append(s, token)
      BY <1>1, <2>1, <3>1
    <3> HIDE <3>1
    <3> QED
      BY <3>2, <3>3, OneToken
  <2>5. Cardinality(Conversions') <= arg_count'
    <3>1. Cardinality(Conversions') \in Nat
      BY <2>3, ConversionsAreFinite DEF Conversions
    <3> QED
      BY <1>1, <2>4, <3>1
  <2>6. it' \in Nat /\ it' < MessageRoom
    BY <1>1, <2>1, <2>2
  <2> QED
    BY <1>1, <1>2, <2>3, <2>5, <2>6 DEF TextInv
<1>4. CASE ~Fits(token)
  <2>1. message' = message /\ it' = it
    BY <1>4 DEF Compose
  <2>2. Conversions' = Conversions
    BY <2>1 DEF Conversions
  <2>3. Cardinality(Conversions) <= arg_count'
    BY <1>1
  <2> QED
    BY <1>1, <1>2, <2>1, <2>2, <2>3 DEF TextInv
<1> QED
  BY <1>3, <1>4

LEMMA FormatStep ==
  ASSUME TextInv, FormatChar
  PROVE  TextInv'
<1>1. pc = "debug_print"
  BY DEF FormatChar
<1>2. CASE OutOfText
  BY <1>1, <1>2, TextKeeps DEF OutOfText, Leave
<1>3. CASE Directive
  <2>1. CASE mem[vit] = Percent
    BY <1>1, <1>3, <2>1, ComposeStep DEF Directive, Percent, Conversion
  <2>2. CASE mem[vit] = Conversion
    BY <1>1, <1>3, <2>2, ComposeStep DEF Directive, Percent, Conversion
  <2>3. CASE mem[vit] \notin {Percent, Conversion}
    BY <1>1, <1>3, <2>3, TextKeeps DEF Directive, Leave
  <2> QED
    BY <2>1, <2>2, <2>3
<1>4. CASE Literal
  <2>1. CASE mem[vit] \in {Percent, 0}
    BY <1>1, <1>4, <2>1, TextKeeps DEF Literal, Percent
  <2>2. CASE mem[vit] \notin {Percent, 0}
    BY <1>1, <1>4, <2>2, ComposeStep DEF Literal
  <2> QED
    BY <2>1, <2>2
<1> QED
  BY <1>2, <1>3, <1>4 DEF FormatChar

LEMMA FetchStep ==
  ASSUME NativeInv, TextInv, FetchArgs
  PROVE  TextInv'
<1>1. /\ pc = "fetch" /\ mem = entry /\ argc \in Nat /\ arg_count \in Nat
      /\ message' = message /\ it' = it /\ arg_count' = arg_count
      /\ argc' = argc /\ argv' = argv /\ entry' = entry
  BY DEF FetchArgs, NativeInv, Types, TextInv, call, text
<1>2. pc' = "return"
  BY DEF FetchArgs, Leave
<1>3. ASSUME status' = "success", NEW j \in 1 .. arg_count
      PROVE  Shown(j)'
  <2>1. /\ ~TooMany(arg_count)
        /\ args' = [i \in 1 .. arg_count |-> mem[Fetched(i)]]
    BY <1>3 DEF FetchArgs, Leave
  <2>2. arg_count <= argc - 1
    BY <1>1, <2>1 DEF TooMany
  <2>3. j < argc
    BY <1>1, <2>2
  <2> QED
    BY <1>1, <2>1, <2>3 DEF Shown, Fetched
<1> QED
  BY <1>1, <1>2, <1>3, TextKeeps

LEMMA TextPreserved == NativeInv /\ TextInv /\ [Next]_vars => TextInv'
<1> SUFFICES ASSUME NativeInv, TextInv, [Next]_vars
             PROVE  TextInv'
  OBVIOUS
<1>1. CASE \E n \in 0 .. MaxParams, a \in 0 .. Cells :
             \/ \E sig \in Natives : CallNative(sig, n, a)
             \/ \E native \in {"debug_print", "look_up"} : CallString(native, n, a)
  <2>1. pc = "vm" /\ UNCHANGED <<message, it, arg_count>>
    BY <1>1 DEF CallNative, CallString, text
  <2>2. message = <<>>
    BY <2>1 DEF TextInv
  <2> QED
    BY <2>1, <2>2, TextKeeps
<1>2. CASE InitArg \/ RunNative \/ WriteBack \/ Unwound \/ LookUp
  <2>1. /\ pc \in {"init", "unwind", "look_up"}
        /\ UNCHANGED <<message, it, arg_count>>
    BY <1>2 DEF InitArg, RunNative, WriteBack, Unwound, LookUp, text
  <2>2. message = <<>>
    BY <2>1 DEF TextInv
  <2> QED
    BY <2>1, <2>2, TextKeeps
<1>3. CASE Return
  <2>1. /\ message' = <<>> /\ it' = 0 /\ arg_count' = 0 /\ pc' = "vm"
        /\ Conversions' = {}
    BY <1>3 DEF Return, Conversions
  <2> QED
    BY <2>1, EmptySeq, FS_EmptySet, RoomAssumption DEF TextInv
<1>4. CASE UNCHANGED vars
  <2>1. /\ UNCHANGED <<message, it, arg_count>> /\ pc' = pc /\ status' = status
        /\ \A j : Shown(j)' <=> Shown(j)
    BY <1>4 DEF vars, call, text, Shown
  <2> QED
    BY <2>1, TextKeeps DEF TextInv
<1> QED
  BY <1>1, <1>2, <1>3, <1>4, FormatStep, FetchStep DEF Next, Fault

(***************************************************************************)
(* What debug_print composes fits its array; with cells of 8 bytes, every  *)
(* conversion it announces shows the argument that stands in its place.    *)
(***************************************************************************)
THEOREM ConversionsHaveArguments ==
  ASSUME CellSize = ConvSize
  PROVE  Spec => []ShowsItsArguments
<1>1. \A j \in Nat \ {0} : CellsRead(j) = {j}
  <2> SUFFICES ASSUME NEW j \in Nat \ {0}
               PROVE  CellsRead(j) = {j}
    OBVIOUS
  <2>1. \A k \in 1 .. j * 8 : k * 8 > (j - 1) * 8 /\ (k - 1) * 8 < j * 8 <=> k = j
    OBVIOUS
  <2>2. j \in 1 .. j * 8
    OBVIOUS
  <2> QED
    BY <2>1, <2>2 DEF CellsRead, ConvSize
<1>2. TextInv => ShowsItsArguments
  <2> SUFFICES ASSUME TextInv, pc = "return", status = "success", ~Wrapped,
                      NEW j \in 1 .. Cardinality(Conversions)
               PROVE  /\ j \in DOMAIN args /\ j < argc
                      /\ CellsRead(j) = {j}
                      /\ args[j] = entry[entry[argv + j]]
    BY DEF ShowsItsArguments, TextInv
  <2>1. Cardinality(Conversions) \in Nat /\ Cardinality(Conversions) <= arg_count
    BY ConversionsAreFinite DEF TextInv, Conversions
  <2>2. message # <<>>
    <3>1. message = <<>> => Conversions = {}
      BY DEF Conversions
    <3> QED
      BY <2>1, <3>1, FS_EmptySet
  <2>3. j \in 1 .. arg_count /\ j \in Nat \ {0}
    BY <2>1 DEF TextInv
  <2>4. Shown(j)
    BY <2>2, <2>3 DEF TextInv
  <2> QED
    BY <1>1, <2>3, <2>4 DEF Shown
<1> QED
  BY <1>2, NativeInvariance, TextInitially, TextPreserved, PTL DEF Spec
=============================================================================
