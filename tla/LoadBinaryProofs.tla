--------------------------- MODULE LoadBinaryProofs ---------------------------
(***************************************************************************)
(* Proofs about LoadBinary, for any files, keys and provider.              *)
(***************************************************************************)
EXTENDS LoadBinary, AmxLoaderProofs

(***************************************************************************)
(* Where in the nested calls a handle of each kind is open.                *)
(***************************************************************************)
InHash == {"hash_data", "finish_hash", "destroy_hash"}
InSha256 == InHash \cup {"get_length", "create_hash", "close_sha256"}
InKey == {"verify", "destroy_key"}
InRsa == InKey \cup {"import_key", "close_rsa"}
Verifying == InRsa \cup {"open_rsa"}
Hashing == InSha256 \cup {"open_sha256", "hashed"}
Trying == Verifying \cup {"try_key", "tried"}

OpenAt(h) == CASE h = "sha256" -> InSha256 [] h = "hash" -> InHash
               [] h = "rsa" -> InRsa [] h = "key" -> InKey

HandleInv ==
  /\ DOMAIN open = Handles
  /\ \A h \in Handles : open[h] = IF at \in OpenAt(h) THEN 1 ELSE 0

(***************************************************************************)
(* Which key the loop is at, and that it is one verify_sig can use.        *)
(***************************************************************************)
KeyInv ==
  /\ keyNo \in Nat \ {0}
  /\ at \in Hashing \cup {"header"} => keyNo = 1
  /\ at \in Verifying => /\ keyNo <= Len(TrustedKeys)
                         /\ Usable(TrustedKeys[keyNo])
  /\ at = "tried" => keyNo <= Len(TrustedKeys)
  /\ at = "try_key" /\ status = "success" => keyNo = 1

FileInv ==
  /\ file \in Binaries
  /\ at \notin {"header", "refused"} =>
       /\ file.size >= 4 /\ file.sigLen <= file.size - 4
       /\ read = [sig |-> <<4, 4 + file.sigLen>>,
                  code |-> <<4 + file.sigLen, file.size>>]

(***************************************************************************)
(* A success is that of the call it came from: of the whole chain of       *)
(* hashing, and then of the verification with the digest of this file.     *)
(***************************************************************************)
Digested == digest = file.code \/ "odd_length" \in faults
MayLoad == Signed(file) \/ "odd_length" \in faults

DigestInv ==
  /\ at \in {"destroy_hash", "close_sha256", "hashed"} /\ status = "success" =>
       Digested
  /\ at \in Trying => Digested
  /\ at \in {"destroy_key", "close_rsa", "tried"} /\ status = "success" => MayLoad
  /\ at = "accepted" => MayLoad

(***************************************************************************)
(* As long as no call has failed, every key before the current one is not  *)
(* the one that signed the digest, and a verdict of no has its reason.     *)
(***************************************************************************)
NotSignedBy(key) == ~(Usable(key) /\ key.id = file.sig.by)

RefusalInv ==
  faults = {} =>
    /\ at \in {"destroy_hash", "close_sha256", "hashed"} => status = "success"
    /\ file.sig.of = file.code =>
         /\ at \in Trying =>
              \A i \in 1 .. keyNo - 1 : NotSignedBy(TrustedKeys[i])
         /\ at \in {"destroy_key", "close_rsa", "tried"} /\ status # "success" =>
              NotSignedBy(TrustedKeys[keyNo])
    /\ at = "refused" => file.size < 4 + file.sigLen \/ ~Signed(file)

ParseInv == blocks \in {"held", "freed"} => at = "accepted"

IInv ==
  HandleInv /\ KeyInv /\ FileInv /\ DigestInv /\ RefusalInv /\ ParseInv

-----------------------------------------------------------------------------
\* Sizes are of type size_t, and size - 4 does not wrap once the size has been tested.
LEMMA FileSizes ==
  ASSUME NEW f \in Binaries
  PROVE  f.size \in Nat /\ f.size < SizeT /\ f.sigLen \in Nat
<1>1. IsFile(f)
  BY FilesAssumption
<1>2. f.size \in 0 .. SizeT - 1 /\ f.sigLen \in 0 .. SizeT - 1
  BY <1>1 DEF IsFile
<1> QED
  BY <1>2, WidthAssumption

LEMMA HeaderSizes ==
  ASSUME NEW f \in Binaries, f.size >= 4
  PROVE  (f.size - 4) % SizeT = f.size - 4
<1>1. f.size - 4 \in Nat /\ f.size - 4 < SizeT /\ SizeT \in Nat
  BY FileSizes, WidthAssumption
<1>2. ASSUME NEW x \in Nat, NEW n \in Nat, x < n PROVE x % n = x
  BY <1>2
<1> QED
  BY <1>1, <1>2

LEMMA Initially == LoadInit => IInv
  BY KeysAssumption DEF LoadInit, SignatureInit, Init, IInv, HandleInv, KeyInv,
     FileInv, DigestInv, RefusalInv, ParseInv, Handles, OpenAt, InHash, InSha256, InKey,
     InRsa, Verifying, Hashing, Trying

\* Each call opens the handle of its label or closes it, and only that one.
LEMMA HandleStep == IInv /\ SignatureNext => HandleInv'
<1> SUFFICES ASSUME IInv, SignatureNext PROVE HandleInv'
  OBVIOUS
<1> USE DEF IInv, HandleInv, Handles, OpenAt, InHash, InSha256, InKey, InRsa
<1>1. CASE ReadHeader
  BY <1>1 DEF ReadHeader
<1>2. CASE OpenSha256 \/ CreateHash \/ OpenRsa \/ ImportKey
  BY <1>2 DEF OpenSha256, CreateHash, OpenRsa, ImportKey, Opening, Opens,
     Succeed, Fail, NoHash
<1>3. CASE GetLength \/ HashData \/ FinishHash \/ VerifySignature
  BY <1>3 DEF GetLength, HashData, FinishHash, VerifySignature, Succeed, Fail
<1>4. CASE DestroyHash \/ CloseSha256 \/ DestroyKey \/ CloseRsa
  BY <1>4 DEF DestroyHash, CloseSha256, DestroyKey, CloseRsa, Closing, Closes
<1>5. CASE Hashed \/ TryKey \/ Tried \/ NoMoreKeys
  BY <1>5 DEF Hashed, TryKey, Tried, NoMoreKeys, Decide
<1> QED
  BY <1>1, <1>2, <1>3, <1>4, <1>5 DEF SignatureNext

\* The loop tries usable keys of the list, and leaves it after a success.
LEMMA KeyStep == IInv /\ SignatureNext => KeyInv'
<1> SUFFICES ASSUME IInv, SignatureNext PROVE KeyInv'
  OBVIOUS
<1> USE DEF IInv, KeyInv, Hashing, Verifying, InHash, InSha256, InKey, InRsa
<1>1. CASE ReadHeader
  BY <1>1 DEF ReadHeader
<1>2. CASE OpenSha256 \/ CreateHash \/ OpenRsa \/ ImportKey
  BY <1>2 DEF OpenSha256, CreateHash, OpenRsa, ImportKey, Opening,
     Succeed, Fail, NoHash
<1>3. CASE GetLength \/ HashData \/ FinishHash \/ VerifySignature
  BY <1>3 DEF GetLength, HashData, FinishHash, VerifySignature, Succeed, Fail
<1>4. CASE DestroyHash \/ CloseSha256 \/ DestroyKey \/ CloseRsa
  BY <1>4 DEF DestroyHash, CloseSha256, DestroyKey, CloseRsa, Closing
<1>5. CASE Hashed \/ TryKey \/ Tried \/ NoMoreKeys
  BY <1>5, KeysAssumption DEF Hashed, TryKey, Tried, Verified, NoMoreKeys, Decide
<1> QED
  BY <1>1, <1>2, <1>3, <1>4, <1>5 DEF SignatureNext

\* The parts handed on are those the header gives, and nothing moves them.
LEMMA FileStep == IInv /\ SignatureNext => FileInv'
<1> SUFFICES ASSUME IInv, SignatureNext PROVE FileInv'
  OBVIOUS
<1> USE DEF IInv, FileInv
<1>1. CASE ReadHeader
  BY <1>1, HeaderSizes DEF ReadHeader, WellFormed
<1>2. CASE OpenSha256 \/ CreateHash \/ OpenRsa \/ ImportKey
  BY <1>2 DEF OpenSha256, CreateHash, OpenRsa, ImportKey, Opening, Succeed, Fail
<1>3. CASE GetLength \/ HashData \/ FinishHash \/ VerifySignature
  BY <1>3 DEF GetLength, HashData, FinishHash, VerifySignature, Succeed, Fail
<1>4. CASE DestroyHash \/ CloseSha256 \/ DestroyKey \/ CloseRsa
  BY <1>4 DEF DestroyHash, CloseSha256, DestroyKey, CloseRsa, Closing
<1>5. CASE Hashed \/ TryKey \/ Tried \/ NoMoreKeys
  BY <1>5 DEF Hashed, TryKey, Tried, NoMoreKeys, Decide
<1> QED
  BY <1>1, <1>2, <1>3, <1>4, <1>5 DEF SignatureNext

\* A digest is used once it is written, and a key's word is about it.
LEMMA DigestStep == IInv /\ SignatureNext => DigestInv'
<1> SUFFICES ASSUME IInv, SignatureNext PROVE DigestInv'
  OBVIOUS
<1> USE DEF IInv, DigestInv, Digested, MayLoad, Trying, Verifying, InKey, InRsa,
            Signed, Trusts
<1>1. CASE ReadHeader
  BY <1>1 DEF ReadHeader
<1>2. CASE OpenSha256 \/ CreateHash \/ OpenRsa \/ ImportKey
  BY <1>2 DEF OpenSha256, CreateHash, OpenRsa, ImportKey, Opening, Succeed,
     Fail, NoHash
<1>3. CASE GetLength \/ HashData \/ FinishHash
  BY <1>3 DEF GetLength, HashData, FinishHash, Succeed, Fail
<1>4. CASE VerifySignature
  <2>1. keyNo \in DOMAIN TrustedKeys /\ Usable(TrustedKeys[keyNo])
    BY <1>4, KeysAssumption DEF VerifySignature, KeyInv
  <2>2. ASSUME file.sig = [by |-> TrustedKeys[keyNo].id, of |-> digest]
        PROVE  MayLoad
    <3>1. file.sig.by = TrustedKeys[keyNo].id /\ file.sig.of = digest
      BY <2>2
    <3>2. Digested
      BY <1>4 DEF VerifySignature
    <3> QED
      BY <2>1, <3>1, <3>2
  <2> QED
    BY <1>4, <2>2 DEF VerifySignature, Succeed, Fail
<1>5. CASE DestroyHash \/ CloseSha256 \/ DestroyKey \/ CloseRsa
  BY <1>5 DEF DestroyHash, CloseSha256, DestroyKey, CloseRsa, Closing
<1>6. CASE Hashed \/ TryKey \/ Tried
  BY <1>6 DEF Hashed, HashFailed, TryKey, Tried, Verified, Decide
<1>7. CASE NoMoreKeys
  BY <1>7, KeysAssumption DEF NoMoreKeys, Decide, KeyInv
<1> QED
  BY <1>1, <1>2, <1>3, <1>4, <1>5, <1>6, <1>7 DEF SignatureNext

\* A key that signed the digest verifies it, or a call has failed.
LEMMA RefusalStep == IInv /\ SignatureNext => RefusalInv'
<1> SUFFICES ASSUME IInv, SignatureNext, faults' = {} PROVE RefusalInv'
  BY DEF RefusalInv
<1> USE DEF IInv, RefusalInv, Trying, Verifying, InKey, InRsa, NotSignedBy, Signed
<1>1. CASE ReadHeader
  <2>1. file \in Binaries
    BY DEF FileInv
  <2>2. ~WellFormed => file.size < 4 + file.sigLen
    BY <2>1, FileSizes, HeaderSizes DEF WellFormed
  <2> QED
    BY <1>1, <2>2 DEF ReadHeader
<1>2. CASE OpenSha256 \/ CreateHash \/ OpenRsa \/ ImportKey
  BY <1>2 DEF OpenSha256, CreateHash, OpenRsa, ImportKey, Opening, Succeed,
     Fail, NoHash
<1>3. CASE GetLength \/ HashData \/ FinishHash
  BY <1>3 DEF GetLength, HashData, FinishHash, Succeed, Fail
<1>4. CASE VerifySignature
  <2>1. file.sig = [by |-> file.sig.by, of |-> file.sig.of]
    BY FilesAssumption DEF IsFile, FileInv
  <2>2. faults = {} /\ digest = file.code
    BY <1>4 DEF VerifySignature, Succeed, Fail, DigestInv, Digested
  <2>3. ASSUME file.sig # [by |-> TrustedKeys[keyNo].id, of |-> digest],
               file.sig.of = file.code
        PROVE  NotSignedBy(TrustedKeys[keyNo])
    BY <2>1, <2>2, <2>3
  <2> QED
    BY <1>4, <2>2, <2>3 DEF VerifySignature, Succeed, Fail
<1>5. CASE DestroyHash \/ CloseSha256 \/ DestroyKey \/ CloseRsa
  BY <1>5 DEF DestroyHash, CloseSha256, DestroyKey, CloseRsa, Closing
<1>6. CASE Hashed
  BY <1>6 DEF Hashed, HashFailed, Decide, KeyInv, Hashing
<1>7. CASE TryKey
  BY <1>7 DEF TryKey
<1>8. CASE Tried
  BY <1>8 DEF Tried, Verified, Decide, KeyInv
<1>9. CASE NoMoreKeys
  <2>1. \A i \in DOMAIN TrustedKeys : i \in 1 .. keyNo - 1
    BY <1>9, KeysAssumption DEF NoMoreKeys, KeyInv
  <2>2. ~Signed(file)
    BY <1>9, <2>1 DEF NoMoreKeys, Trusts
  <2> QED
    BY <1>9, <2>2 DEF NoMoreKeys, Decide
<1> QED
  BY <1>1, <1>2, <1>3, <1>4, <1>5, <1>6, <1>7, <1>8, <1>9 DEF SignatureNext

\* No call of the provider is made once the verdict is there.
LEMMA VerdictStays == SignatureNext => at # "accepted"
  BY DEF SignatureNext, ReadHeader, OpenSha256, GetLength, CreateHash, HashData,
     FinishHash, DestroyHash, CloseSha256, Hashed, TryKey, Tried, NoMoreKeys,
     OpenRsa, ImportKey, VerifySignature, DestroyKey, CloseRsa, Opening, Closing

LEMMA Inductive == IInv /\ [LoadNext]_loadVars => IInv'
<1> SUFFICES ASSUME IInv, [LoadNext]_loadVars PROVE IInv'
  OBVIOUS
<1>1. CASE CheckSignature
  <2>1. ParseInv'
    BY <1>1, VerdictStays DEF CheckSignature, IInv, ParseInv
  <2> QED
    BY <1>1, <2>1, HandleStep, KeyStep, FileStep, DigestStep,
       RefusalStep DEF CheckSignature, IInv
<1>2. CASE AllocBlocks \/ RunLoader \/ UNCHANGED loadVars
  <2>1. UNCHANGED sigVars
    BY <1>2 DEF AllocBlocks, RunLoader, loadVars
  <2>2. (HandleInv /\ KeyInv /\ FileInv /\ DigestInv /\ RefusalInv)'
    BY <2>1 DEF sigVars, IInv, HandleInv, KeyInv, FileInv, DigestInv, Digested,
       MayLoad, RefusalInv, NotSignedBy, Signed
  <2>3. ParseInv'
    BY <1>2, <2>1 DEF sigVars, AllocBlocks, MayParse, RunLoader, loadVars, IInv,
       ParseInv
  <2> QED
    BY <2>2, <2>3 DEF IInv
<1> QED
  BY <1>1, <1>2 DEF LoadNext

LEMMA Invariance == LoadSpec => []IInv
  BY Initially, Inductive, PTL DEF LoadSpec

-----------------------------------------------------------------------------
(***************************************************************************)
(* calculate_sha256 and verify_sig close every handle they open on each    *)
(* path, whichever calls of the provider fail.                             *)
(***************************************************************************)
THEOREM HandlesClosed == LoadSpec => []HandlesBalanced
<1>1. IInv => HandlesBalanced
  BY DEF IInv, HandleInv, HandlesBalanced, Handles, Verdicts, OpenAt, InHash,
     InSha256, InKey, InRsa
<1> QED
  BY <1>1, Invariance, PTL

(***************************************************************************)
(* vm_load_binary gives the loader only what a trusted key has signed.     *)
(***************************************************************************)
THEOREM LoadsOnlySigned == LoadSpec => []ParsesOnlySigned
<1>1. IInv => ParsesOnlySigned
  <2> SUFFICES ASSUME IInv, blocks = "held"
               PROVE  /\ Signed(file) \/ "odd_length" \in faults
                      /\ read.sig[1] = 4 /\ read.sig[2] = read.code[1]
                      /\ read.code[1] <= read.code[2]
                      /\ read.code[2] = file.size
    BY DEF ParsesOnlySigned
  <2>1. at = "accepted"
    BY DEF IInv, ParseInv
  <2>2. /\ file.size \in Nat /\ file.sigLen \in Nat
        /\ file.sigLen <= file.size - 4
        /\ read = [sig |-> <<4, 4 + file.sigLen>>,
                   code |-> <<4 + file.sigLen, file.size>>]
    BY <2>1, FileSizes DEF IInv, FileInv
  <2>3. Signed(file) \/ "odd_length" \in faults
    BY <2>1 DEF IInv, DigestInv, MayLoad
  <2>4. /\ read.sig = <<4, 4 + file.sigLen>>
        /\ read.code = <<4 + file.sigLen, file.size>>
    BY <2>2
  <2> QED
    BY <2>2, <2>3, <2>4
<1> QED
  BY <1>1, Invariance, PTL

(***************************************************************************)
(* check_signature finds the key that signed a module, wherever it stands  *)
(* among the trusted keys, unless a call of the provider fails.            *)
(***************************************************************************)
THEOREM SignedNotRefused == LoadSpec => []SignedIsAccepted
<1>1. IInv => SignedIsAccepted
  <2> SUFFICES ASSUME IInv, at = "refused", file.size >= 4 + file.sigLen,
                      faults = {}
               PROVE  ~Signed(file)
    BY DEF SignedIsAccepted
  <2>1. file.size \in Nat /\ file.sigLen \in Nat
    BY FileSizes DEF IInv, FileInv
  <2> QED
    BY <2>1 DEF IInv, RefusalInv
<1> QED
  BY <1>1, Invariance, PTL

-----------------------------------------------------------------------------
(***************************************************************************)
(* Behind the signature check the loader is the loader: each step of       *)
(* vm_load_binary_internal is one of amx_loader's or none of its business, *)
(* so what holds of init for any file holds of it here.                    *)
(***************************************************************************)
THEOREM LoaderRuns == LoadSpec => Spec
<1>1. LoadInit => Init
  BY DEF LoadInit
<1>2. [LoadNext]_loadVars => [Next]_vars
  BY DEF LoadNext, CheckSignature, AllocBlocks, RunLoader, loadVars
<1> QED
  BY <1>1, <1>2, PTL DEF LoadSpec, Spec

(***************************************************************************)
(* The three guarantees of the loader, of every load of a VM.              *)
(***************************************************************************)
THEOREM VmLoadsRight ==
  LoadSpec => [](WritesInRegion /\ TablesComplete /\ StackPlaced)
BY LoaderRuns, SecondPassFits, SecondPassCompletes, StackStart, PTL
=============================================================================
