---------------------------- MODULE MCLoadBinary ----------------------------
(***************************************************************************)
(* Files for vm_load_binary: the images of MCAmxLoader, each with a valid  *)
(* signature, and one of them with every other signature and header.       *)
(***************************************************************************)
EXTENDS LoadBinary, MCAmxLoader

Keys == <<[id |-> "short", size |-> 7,  rsa |-> TRUE],
          [id |-> "dsa",   size |-> 24, rsa |-> FALSE],
          [id |-> "old",   size |-> 24, rsa |-> TRUE],
          [id |-> "new",   size |-> 24, rsa |-> TRUE]>>

Sealed(m, by, of) ==
  [size |-> 4 + 2 + m.bufSize, sigLen |-> 2, code |-> m,
   sig |-> [by |-> by, of |-> of]]

Sample == File(1, 2, 1, 2, 1, 9, 11)
Other  == File(2, 2, 1, 2, 1, 9, 11)

SignedFiles == {Sealed(m, "old", m) : m \in Files}
OddFiles ==
  {Sealed(Sample, by, of) : by \in {"short", "dsa", "old", "new", "stranger"},
                            of \in {Sample, Other}}
  \cup {[Sealed(Sample, "new", Sample) EXCEPT !.size = n] : n \in {0, 3, 5}}
  \cup {[Sealed(Sample, "new", Sample) EXCEPT !.sigLen = n] : n \in {2 ^ 12}}

AllFiles == SignedFiles \cup OddFiles
MCCode == {f.code : f \in AllFiles}
=============================================================================
