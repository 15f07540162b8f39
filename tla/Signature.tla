------------------------------ MODULE Signature ------------------------------
(***************************************************************************)
(* The check a module passes before it is parsed: the header of the file   *)
(* and check_signature (vm.cpp), with calculate_sha256 and verify_sig      *)
(* (signature.cpp), one step per call of the cryptographic provider.  Any  *)
(* of those calls may fail.                                                *)
(*                                                                         *)
(* The digest lives in an uninitialised stack buffer: until it is written  *)
(* it may hold anything, the digest of an earlier module included.         *)
(***************************************************************************)
EXTENDS Integers, Sequences

CONSTANTS
  Binaries,      \* the buffers given to vm_load_binary
  TrustedKeys,   \* k_trusted_keys up to its terminator
  SizeT,         \* one more than the largest size_t
  BlobSize,      \* sizeof(BCRYPT_KEY_BLOB)
  Junk           \* a digest of nothing in particular

(***************************************************************************)
(* A file of `size` bytes is a length word, a signature of that many bytes *)
(* and the code.  A digest is represented by the code it is the digest of; *)
(* `sig` tells whose key signed the digest of which code.                  *)
(***************************************************************************)
IsFile(f) ==
  /\ f.size \in 0 .. SizeT - 1 /\ f.sigLen \in 0 .. SizeT - 1
  /\ f.sig = [by |-> f.sig.by, of |-> f.sig.of]
  /\ f.code # Junk /\ f.sig.of # Junk

IsKey(k) == k.size \in Nat /\ k.rsa \in BOOLEAN

ASSUME FilesAssumption == \A f \in Binaries : IsFile(f)
ASSUME KeysAssumption ==
  /\ Len(TrustedKeys) \in Nat \ {0}
  /\ DOMAIN TrustedKeys = 1 .. Len(TrustedKeys)
  /\ \A i \in DOMAIN TrustedKeys : IsKey(TrustedKeys[i])
ASSUME WidthAssumption == SizeT \in Nat /\ SizeT > 4 /\ BlobSize \in Nat

VARIABLES
  file,
  at,        \* the call to make next, or the verdict
  keyNo,     \* position in TrustedKeys
  digest,    \* the sha256 buffer of check_signature
  open,      \* handles open, of each kind
  status,
  read,      \* parts of the buffer handed on: first byte and end of each
  faults     \* what the provider has done wrong so far

sigVars == <<file, at, keyNo, digest, open, status, read, faults>>

Handles == {"sha256", "hash", "rsa", "key"}
Verdicts == {"accepted", "refused"}
-----------------------------------------------------------------------------
SignatureInit ==
  /\ file \in Binaries
  /\ at = "header"
  /\ keyNo = 1
  /\ digest \in {Junk, file.code, file.sig.of}
  /\ open = [h \in Handles |-> 0]
  /\ status = "none"
  /\ read = [sig |-> <<0, 0>>, code |-> <<0, 0>>]
  /\ faults = {}

Opens(h)  == open' = [open EXCEPT ![h] = @ + 1]
Closes(h) == open' = [open EXCEPT ![h] = @ - 1]

Succeed(next) == at' = next /\ status' = "success" /\ faults' = faults
Fail(next) ==
  /\ at' = next /\ status' = "failed"
  /\ faults' = faults \cup {"failed"}

Opening(from, handle, next, failed) ==
  /\ at = from
  /\ \/ Succeed(next) /\ Opens(handle)
     \/ Fail(failed) /\ UNCHANGED open
  /\ UNCHANGED <<file, keyNo, digest, read>>

Closing(from, handle, next) ==
  /\ at = from
  /\ at' = next
  /\ Closes(handle)
  /\ UNCHANGED <<file, keyNo, digest, status, read, faults>>

(***************************************************************************)
(* The header.  size - 4 is a size_t, and wraps when the file is shorter.  *)
(***************************************************************************)
WellFormed == file.size >= 4 /\ file.sigLen <= (file.size - 4) % SizeT

ReadHeader ==
  /\ at = "header"
  /\ IF WellFormed
       THEN /\ at' = "open_sha256" /\ status' = status
            /\ read' = [sig |-> <<4, 4 + file.sigLen>>,
                        code |-> <<4 + file.sigLen, file.size>>]
       ELSE at' = "refused" /\ status' = "invalid_parameter" /\ read' = read
  /\ UNCHANGED <<file, keyNo, digest, open, faults>>

(***************************************************************************)
(* calculate_sha256                                                        *)
(***************************************************************************)
OpenSha256 == Opening("open_sha256", "sha256", "get_length", "hashed")

\* A length property of an odd size skips the hashing and keeps the status.
GetLength ==
  /\ at = "get_length"
  /\ \/ Succeed("create_hash")
     \/ /\ at' = "close_sha256" /\ status' = "success"
        /\ faults' = faults \cup {"odd_length"}
     \/ Fail("close_sha256")
  /\ UNCHANGED <<file, keyNo, digest, open, read>>

MutantNoHash == "destroy_hash"
NoHash == "close_sha256"

CreateHash == Opening("create_hash", "hash", "hash_data", NoHash)

HashData ==
  /\ at = "hash_data"
  /\ Succeed("finish_hash") \/ Fail("destroy_hash")
  /\ UNCHANGED <<file, keyNo, digest, open, read>>

FinishHash ==
  /\ at = "finish_hash"
  /\ \/ Succeed("destroy_hash") /\ digest' = file.code
     \/ Fail("destroy_hash") /\ digest' = digest
  /\ UNCHANGED <<file, keyNo, open, read>>

DestroyHash == Closing("destroy_hash", "hash", "close_sha256")
CloseSha256 == Closing("close_sha256", "sha256", "hashed")

(***************************************************************************)
(* check_signature: the keys in turn, until one of them verifies.          *)
(***************************************************************************)
Decide(verdict) == at' = verdict /\ digest' = Junk  \* its frame is gone

MutantHashFailed == FALSE
HashFailed == status # "success"

Hashed ==
  /\ at = "hashed"
  /\ IF HashFailed THEN Decide("refused")
     ELSE at' = "try_key" /\ digest' = digest
  /\ UNCHANGED <<file, keyNo, open, status, read, faults>>

Usable(key) == key.size >= BlobSize /\ key.rsa

TryKey ==
  /\ at = "try_key"
  /\ keyNo <= Len(TrustedKeys)
  /\ IF Usable(TrustedKeys[keyNo])
       THEN at' = "open_rsa" /\ status' = status
       ELSE at' = "tried" /\ status' = "invalid_parameter"
  /\ UNCHANGED <<file, keyNo, digest, open, read, faults>>

MutantVerified == FALSE
Verified == status = "success"

Tried ==
  /\ at = "tried"
  /\ IF Verified
       THEN Decide("accepted") /\ keyNo' = keyNo
       ELSE at' = "try_key" /\ digest' = digest /\ keyNo' = keyNo + 1
  /\ UNCHANGED <<file, open, status, read, faults>>

NoMoreKeys ==
  /\ at = "try_key"
  /\ keyNo > Len(TrustedKeys)
  /\ Decide(IF status = "success" THEN "accepted" ELSE "refused")
  /\ UNCHANGED <<file, keyNo, open, status, read, faults>>

(***************************************************************************)
(* verify_sig                                                              *)
(***************************************************************************)
OpenRsa == Opening("open_rsa", "rsa", "import_key", "tried")
ImportKey == Opening("import_key", "key", "verify", "close_rsa")

VerifySignature ==
  /\ at = "verify"
  /\ \/ /\ file.sig = [by |-> TrustedKeys[keyNo].id, of |-> digest]
        /\ Succeed("destroy_key")
     \/ /\ file.sig # [by |-> TrustedKeys[keyNo].id, of |-> digest]
        /\ at' = "destroy_key" /\ status' = "invalid_signature"
        /\ faults' = faults
     \/ Fail("destroy_key")
  /\ UNCHANGED <<file, keyNo, digest, open, read>>

DestroyKey == Closing("destroy_key", "key", "close_rsa")
CloseRsa == Closing("close_rsa", "rsa", "tried")

SignatureNext ==
  \/ ReadHeader
  \/ OpenSha256 \/ GetLength \/ CreateHash \/ HashData \/ FinishHash
  \/ DestroyHash \/ CloseSha256 \/ Hashed
  \/ TryKey \/ Tried \/ NoMoreKeys
  \/ OpenRsa \/ ImportKey \/ VerifySignature \/ DestroyKey \/ CloseRsa
-----------------------------------------------------------------------------
Trusts(key) == \E i \in DOMAIN TrustedKeys :
                 TrustedKeys[i].id = key /\ Usable(TrustedKeys[i])
Signed(f) == Trusts(f.sig.by) /\ f.sig.of = f.code

(***************************************************************************)
(* A well formed module that a trusted key has signed is refused only if a *)
(* call of the provider failed: no other key, tried earlier or later, and  *)
(* no odd size of the file takes the verdict back.                         *)
(***************************************************************************)
SignedIsAccepted ==
  at = "refused" /\ file.size >= 4 + file.sigLen /\ Signed(file) =>
    faults # {}

(***************************************************************************)
(* Every path through the nested calls closes the handles it opened, each  *)
(* once and only when it is open, and none is left when the check returns. *)
(***************************************************************************)
HandlesBalanced ==
  /\ \A h \in Handles : open[h] \in {0, 1}
  /\ open["hash"] <= open["sha256"] /\ open["key"] <= open["rsa"]
  /\ at \in Verdicts => \A h \in Handles : open[h] = 0
=============================================================================
