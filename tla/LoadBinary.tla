------------------------------ MODULE LoadBinary ------------------------------
(***************************************************************************)
(* vm_load_binary_internal (vm.cpp): the signature check, the pool blocks  *)
(* of the VM and the loader, one after the other on the same buffer.       *)
(***************************************************************************)
EXTENDS Signature, AmxLoader

VARIABLE
  blocks     \* the copy of the file and the context: "none", "held", "freed"

loadVars == <<sigVars, vars, blocks>>

LoadInit ==
  /\ SignatureInit
  /\ Init /\ img = file.code
  /\ blocks = "none"

CheckSignature == SignatureNext /\ UNCHANGED <<vars, blocks>>

MayParse == at = "accepted"

\* The second allocation may fail after the first, which is then undone.
AllocBlocks ==
  /\ MayParse
  /\ blocks = "none"
  /\ blocks' \in {"held", "freed"}
  /\ UNCHANGED <<sigVars, vars>>

\* ~loader comes before the blocks are freed, of a failed load or of a VM.
RunLoader ==
  /\ blocks = "held"
  /\ Next
  /\ blocks' = IF phase' = "destroyed" THEN "freed" ELSE "held"
  /\ UNCHANGED sigVars

LoadNext == CheckSignature \/ AllocBlocks \/ RunLoader

LoadSpec == LoadInit /\ [][LoadNext]_loadVars
-----------------------------------------------------------------------------
(***************************************************************************)
(* The loader, which trusts its input to be well meant, is given only code *)
(* that a trusted key has signed, from inside the buffer and apart from    *)
(* the signature -- whatever the digest buffer held before, and whichever  *)
(* provider calls failed.  A provider that reports a length of an odd size *)
(* is the exception: its digest is not written at all.                     *)
(***************************************************************************)
ParsesOnlySigned ==
  blocks = "held" =>
    /\ Signed(file) \/ "odd_length" \in faults
    /\ read.sig[1] = 4 /\ read.sig[2] = read.code[1]
    /\ read.code[1] <= read.code[2] /\ read.code[2] = file.size
=============================================================================
