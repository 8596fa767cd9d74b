---------------------------- MODULE HmacOperation ----------------------------
(***************************************************************************)
(* HMAC operations (src/hmac_operation.cpp): HmacOperationFactory::        *)
(* CreateOperation and HmacOperation's Begin, Update, Finish and Abort,    *)
(* for the operations clients run at once on one HMAC key.                 *)
(*                                                                         *)
(* Data abstraction: the input is the sequence of Update chunks; the       *)
(* digest HMAC_Final computes is identified by that input; a MAC value is  *)
(* [mac |-> input it was computed over, len |-> bytes].  CRYPTO_memcmp of  *)
(* the first n bytes of two such values is 0 when n = 0 or both come from  *)
(* the same input.  A client ends an operation with Finish or Abort, or    *)
(* loses it to an Update error (the table deletes it); it is then idle.    *)
(***************************************************************************)
EXTENDS Naturals, Sequences, FiniteSets

CONSTANTS
  Clients,      \* clients each holding at most one HMAC operation
  KeyDigests,   \* DIGEST values the key's authorizations may carry
  MacLengths,   \* MAC_LENGTH values (bits) a client may pass to Begin
  Chunks,       \* input chunks a client may feed to Update
  SigLengths,   \* lengths (bytes) of the signatures a verifier may invent
  MaxChunks,    \* bound: Update calls per operation
  MaxSigns      \* bound: distinct MACs signers return

NoValue == "absent"
Forged == <<"forged">>   \* the input of a MAC nobody computed

\* Output length of each digest HMAC supports (bytes).
DigestLen == [SHA1 |-> 20, SHA_2_224 |-> 28, SHA_2_256 |-> 32,
              SHA_2_384 |-> 48, SHA_2_512 |-> 64]

ASSUME /\ MacLengths \subseteq Nat
       /\ SigLengths \subseteq Nat
       /\ MaxChunks \in Nat
       /\ MaxSigns \in Nat

VARIABLES
  digest,   \* the key's DIGEST as CreateOperation reads it
  ops,      \* client -> its operation (state "idle" when it has none)
  issued,   \* MACs SIGN operations have returned
  resp      \* the last answer: call, purpose, input, signature, error

vars == <<digest, ops, issued, resp>>

Idle == [state |-> "idle", purpose |-> "none", tag_length |-> 0, input |-> <<>>]

\* The signatures a verifier may present: any MAC a signer returned, or an
\* invented one over no input of this key.
Signatures == issued \cup {[mac |-> Forged, len |-> n] : n \in SigLengths}

\* CRYPTO_memcmp(signature, digest of input, signature length) == 0.
PrefixMatches(sig, input) == sig.len = 0 \/ sig.mac = input

(***************************************************************************)
(* Mutants: each is the definition after it with one plausible bug.        *)
(***************************************************************************)
VerifyFinishFullDigest(sig, input) ==
  IF sig.len > DigestLen[digest] THEN "INVALID_INPUT_LENGTH"
  ELSE IF sig.len # DigestLen[digest] \/ ~PrefixMatches(sig, input)
       THEN "VERIFICATION_FAILED" ELSE "OK"

CreateOperationBits(c, purpose, macParam) ==
  LET tag_length == IF macParam = {} THEN 0 ELSE CHOOSE m \in macParam : TRUE IN
  /\ ops[c].state = "idle"
  /\ \/ /\ tag_length % 8 # 0
        /\ resp' = [resp EXCEPT !.call = "begin", !.purpose = purpose,
                                !.err = "UNSUPPORTED_MAC_LENGTH"]
        /\ UNCHANGED ops
     \/ /\ tag_length % 8 = 0
        /\ ops' = [ops EXCEPT ![c] = [state |-> "begun", purpose |-> purpose,
                                       tag_length |-> tag_length, input |-> <<>>]]
        /\ resp' = [resp EXCEPT !.call = "begin", !.purpose = purpose, !.err = "OK"]
  /\ UNCHANGED <<digest, issued>>

(***************************************************************************)
(* The operation.                                                          *)
(***************************************************************************)

\* The purposes of the two concrete factories registered with
\* OperationFactoryRegistry: HmacSignOperationFactory and
\* HmacVerifyOperationFactory.
HmacPurposes == {"SIGN", "VERIFY"}

\* HmacOperation constructor: error_ for a digest it has no EVP_MD for.
ConstructorError(d) ==
  IF d \in DOMAIN DigestLen THEN "OK" ELSE "UNSUPPORTED_DIGEST"

\* HmacOperation::Finish, VERIFY branch, after HMAC_Final succeeded.
VerifyFinish(sig, input) ==
  IF sig.len > DigestLen[digest] THEN "INVALID_INPUT_LENGTH"
  ELSE IF ~PrefixMatches(sig, input) THEN "VERIFICATION_FAILED" ELSE "OK"

\* The key's DIGEST; without one CreateOperation keeps KM_DIGEST_NONE.
Init ==
  /\ \E d \in KeyDigests : digest = IF d = NoValue THEN "NONE" ELSE d
  /\ ops = [c \in Clients |-> Idle]
  /\ issued = {}
  /\ resp = [call |-> "none", purpose |-> "none", input |-> <<>>,
             sig |-> [mac |-> Forged, len |-> 0], err |-> "OK"]

\* HmacOperationFactory::CreateOperation, then Operation::Begin (which
\* returns error_, OK for every operation the factory hands out).
\* macParam is the MAC_LENGTH of the begin parameters, {} when absent,
\* which leaves tag_length at 0.
CreateOperation(c, purpose, macParam) ==
  LET tag_length == IF macParam = {} THEN 0 ELSE CHOOSE m \in macParam : TRUE
      Fail(err) == /\ resp' = [resp EXCEPT !.call = "begin", !.purpose = purpose,
                                           !.err = err]
                   /\ UNCHANGED ops
  IN
  /\ ops[c].state = "idle"
  /\ \/ /\ tag_length % 8 # 0
        /\ Fail("UNSUPPORTED_MAC_LENGTH")
     \/ /\ tag_length % 8 = 0
        /\ ConstructorError(digest) # "OK"
        /\ Fail(ConstructorError(digest))
     \/ /\ tag_length % 8 = 0
        /\ ConstructorError(digest) = "OK"
        /\ ops' = [ops EXCEPT ![c] = [state |-> "begun", purpose |-> purpose,
                                       tag_length |-> tag_length \div 8, input |-> <<>>]]
        /\ resp' = [resp EXCEPT !.call = "begin", !.purpose = purpose, !.err = "OK"]
  /\ UNCHANGED <<digest, issued>>

\* HmacOperation::Update: HMAC_Update either absorbs the chunk or fails,
\* and BeginOperation's caller then deletes the operation.
Update(c, chunk) ==
  /\ ops[c].state = "begun"
  /\ Len(ops[c].input) < MaxChunks
  /\ \/ /\ ops' = [ops EXCEPT ![c].input = Append(@, chunk)]
        /\ resp' = [resp EXCEPT !.call = "update", !.purpose = ops[c].purpose, !.err = "OK"]
     \/ /\ ops' = [ops EXCEPT ![c] = Idle]
        /\ resp' = [resp EXCEPT !.call = "update", !.purpose = ops[c].purpose,
                                !.err = "UNKNOWN_ERROR"]
  /\ UNCHANGED <<digest, issued>>

\* HmacOperation::Finish; the operation is deleted whatever it returns.
Finish(c, sig) ==
  LET op == ops[c]
      Record(err) == resp' = [call |-> "finish", purpose |-> op.purpose, input |-> op.input,
                              sig |-> sig, err |-> err]
  IN
  /\ op.state = "begun"
  /\ ops' = [ops EXCEPT ![c] = Idle]
  /\ \/ /\ Record("UNKNOWN_ERROR")                  \* HMAC_Final fails
        /\ UNCHANGED issued
     \/ /\ op.purpose = "SIGN"
        /\ op.tag_length > DigestLen[digest]
        /\ Record("UNSUPPORTED_MAC_LENGTH")
        /\ UNCHANGED issued
     \/ /\ op.purpose = "SIGN"
        /\ op.tag_length <= DigestLen[digest]
        /\ Cardinality(issued) < MaxSigns
        /\ issued' = issued \cup {[mac |-> op.input, len |-> op.tag_length]}
        /\ Record("OK")
     \/ /\ op.purpose = "VERIFY"
        /\ Record(VerifyFinish(sig, op.input))
        /\ UNCHANGED issued
  /\ UNCHANGED digest

\* HmacOperation::Abort returns OK; the operation is deleted.
Abort(c) ==
  /\ ops[c].state = "begun"
  /\ ops' = [ops EXCEPT ![c] = Idle]
  /\ UNCHANGED <<digest, issued, resp>>

Next ==
  \E c \in Clients :
    \/ \E p \in HmacPurposes, m \in {{}} \cup {{l} : l \in MacLengths} : CreateOperation(c, p, m)
    \/ \E chunk \in Chunks : Update(c, chunk)
    \/ \E sig \in Signatures : Finish(c, sig)
    \/ Abort(c)

Spec == Init /\ [][Next]_vars


(***************************************************************************)
(* Properties.                                                             *)
(***************************************************************************)

Inputs == UNION {[1 .. n -> Chunks] : n \in 0 .. MaxChunks}
Macs == [mac : Inputs \cup {Forged}, len : Nat]

\* Type of the state; an operation holds MAC_LENGTH in bytes.
TypeOK ==
  /\ ops \in [Clients -> [state : {"idle", "begun"}, purpose : {"none", "SIGN", "VERIFY"},
                          tag_length : {m \div 8 : m \in MacLengths \cup {0}},
                          input : Inputs]]
  /\ issued \subseteq Macs
  /\ resp.sig \in Macs

\* A MAC a SIGN operation returned verifies: a VERIFY Finish over the same
\* input, given that MAC, reports neither VERIFICATION_FAILED nor
\* INVALID_INPUT_LENGTH, whatever MAC_LENGTH truncated it to and whatever
\* other operations ran in between.
SignedMacVerifies ==
  resp.call = "finish" /\ resp.purpose = "VERIFY" /\ resp.sig \in issued
    /\ resp.sig.mac = resp.input
    => resp.err \in {"OK", "UNKNOWN_ERROR"}

\* VERIFY succeeds only for a MAC some SIGN operation of this key returned
\* for exactly this input.
VerifyNeedsIssuedMac ==
  resp.call = "finish" /\ resp.purpose = "VERIFY" /\ resp.err = "OK"
    => resp.sig \in issued /\ resp.sig.mac = resp.input

=============================================================================
