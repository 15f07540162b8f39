---------------------------- MODULE MCAmxLoader ----------------------------
(***************************************************************************)
(* Small files for the loader: well formed ones of every shape, and each   *)
(* of them damaged in one place.                                           *)
(***************************************************************************)
EXTENDS AmxLoader

(***************************************************************************)
(* A well formed file: header, the three tables, the names, code, data.    *)
(* `lens` are the lengths of the names, in the order of the tables.        *)
(***************************************************************************)
File(np, nn, nv, code, data, room, entry) ==
  LET n      == np + nn + nv
      tables == 60
      names  == tables + n * entry
      ofs    == [k \in 1 .. n + 1 |-> names + 3 * (k - 1) - (k \div 2)]
      cod    == ofs[n + 1]
      dat    == cod + 8 * code
      hea    == dat + 8 * data
  IN  [bufSize |-> hea, size |-> hea, magic |-> "own",
       fileVersionOk |-> TRUE, amxVersionOk |-> TRUE,
       overlay |-> FALSE, sleep |-> FALSE, defsize |-> entry,
       cod |-> cod, dat |-> dat, hea |-> hea, stp |-> hea + room,
       cip |-> U32 - 1,
       publics |-> tables, natives |-> tables + np * entry,
       libraries |-> tables + (np + nn) * entry,
       pubvars |-> tables + (np + nn) * entry, tags |-> names,
       zeros |-> {ofs[k + 1] - 1 : k \in 1 .. n},
       text |-> [o \in {ofs[k] : k \in 1 .. n} |-> "known"],
       nameofs |-> [p \in {tables + k * entry : k \in 0 .. n - 1} |->
                      ofs[(p - tables) \div entry + 1]],
       address |-> [p \in {tables + k * entry : k \in 0 .. n - 1} |-> p]]

Damaged(m) ==
  {m,
   [m EXCEPT !.bufSize = 59],
   [m EXCEPT !.magic = "other_width"],
   [m EXCEPT !.magic = "none"],
   [m EXCEPT !.size = @ + 1],
   [m EXCEPT !.fileVersionOk = FALSE],
   [m EXCEPT !.amxVersionOk = FALSE],
   [m EXCEPT !.overlay = TRUE],
   [m EXCEPT !.defsize = 7],
   [m EXCEPT !.cod = @ + 1],
   [m EXCEPT !.dat = @ + 4],
   [m EXCEPT !.dat = @ - 8],
   [m EXCEPT !.hea = @ + 8],
   [m EXCEPT !.hea = m.dat - 8],
   [m EXCEPT !.stp = m.hea],
   [m EXCEPT !.stp = m.hea - 17],
   [m EXCEPT !.cip = 16],
   [m EXCEPT !.publics = @ + 1],
   [m EXCEPT !.natives = m.libraries],
   [m EXCEPT !.natives = m.publics - 1],
   [m EXCEPT !.pubvars = @ + m.defsize],
   [m EXCEPT !.libraries = m.natives, !.pubvars = m.natives],
   [m EXCEPT !.tags = m.bufSize + m.defsize],
   [m EXCEPT !.zeros = {}],
   [m EXCEPT !.zeros = IF @ = {} THEN @ ELSE {CHOOSE z \in @ : \A y \in @ : z >= y}],
   [m EXCEPT !.text = [o \in DOMAIN @ |-> IF o % 2 = 0 THEN "known" ELSE "unknown"]],
   [m EXCEPT !.nameofs = [p \in DOMAIN @ |-> m.bufSize + p]]}

Intact ==
  {File(np, nn, nv, code, data, room, entry) :
     np \in 0 .. 2, nn \in 0 .. 3, nv \in 0 .. 1, code \in {0, 2},
     data \in {0, 1}, room \in {1, 9}, entry \in {8, 11}}

Files == Intact \cup
  UNION {Damaged(File(np, nn, 1, 2, data, 1, 11)) :
           np \in 0 .. 2, nn \in {0, 2}, data \in {0, 3}}
=============================================================================
