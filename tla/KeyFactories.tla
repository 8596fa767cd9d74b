----------------------------- MODULE KeyFactories -----------------------------
(***************************************************************************)
(* The asymmetric key factories behind GoogleKeymaster::GenerateKey and    *)
(* ::ImportKey: RsaKey::GenerateKey / ::ImportKey (src/rsa_key.cpp),       *)
(* EcdsaKeyFactory (src/unnamed/part_000) and DsaKey::GenerateKey          *)
(* (src/asymmetric_key.cpp, the only DSA code in the repository).  The     *)
(* façade picks the factory by the first ALGORITHM of the description;     *)
(* the factory checks the description, fills in what it leaves out, and   *)
(* produces the key.  Each request is one step; resp records its outcome.  *)
(*                                                                         *)
(* Data abstraction: an AuthorizationSet is a sequence of [tag, val]       *)
(* entries (GetTagValue reads the first, push_back appends); algorithms    *)
(* carry their keymaster_algorithm_t codes.  A key is what the properties  *)
(* tell apart: its algorithm, size in bits, RSA public exponent, EC curve  *)
(* and DSA parameters.  A DSA parameter blob is named by the bit length    *)
(* of the number it holds; 0 stands for a parameter OpenSSL generated.     *)
(* Whether OpenSSL allocates, generates or checks a key successfully is a  *)
(* nondeterministic choice: each factory is a set of possible outcomes.    *)
(***************************************************************************)
EXTENDS Naturals, Sequences, FiniteSets, SequencesExt

CONSTANTS
  Descriptions,  \* key descriptions clients send (AuthorizationSets)
  ImportKeys,    \* private keys clients import, as records [alg, bits, e, curve]
  KeyFormats,    \* key_format values of ImportKeyRequest
  Registry,      \* algorithms KeyFactoryRegistry holds a factory for
  MaxKeyOps,     \* CreateOperation calls modelled on one Key object
  EcdsaBuilds    \* the ECDSA generators builds may hold: "EcdsaKeyFactory"
                 \* (unnamed/part_000) and "EcdsaKey" (asymmetric_key.cpp)

KM_ALGORITHM_RSA == 1
KM_ALGORITHM_DSA == 2
KM_ALGORITHM_ECDSA == 3

RSA_DEFAULT_KEY_SIZE == 2048
RSA_DEFAULT_EXPONENT == 65537
DSA_DEFAULT_KEY_SIZE == 2048
ECDSA_DEFAULT_KEY_SIZE == 224

DsaParamTags == <<"DSA_GENERATOR", "DSA_P", "DSA_Q">>
Generated == 0

VARIABLES
  resp,  \* the last request and what the factory answered
  keyObj, \* the Key object the last request returned (NULL on an error):
          \* its algorithm, authorizations, and whether it still owns its
          \* OpenSSL key (rsa_key_, dsa_key_, ecdsa_key_)
  ops     \* the CreateOperation calls on that Key: purpose, error, and
          \* whether the Operation got the OpenSSL key
vars == <<resp, keyObj, ops>>

NoKey == [alg |-> 0, bits |-> 0, e |-> 0, curve |-> "none", params |-> <<>>]
Outcome(err, auths, key) == [err |-> err, auths |-> auths, key |-> key]
Fail(err) == Outcome(err, <<>>, NoKey)

\* AuthorizationSet::GetTagValue and push_back.
HasTag(set, t) == SelectInSeq(set, LAMBDA p : p.tag = t) # 0
TagValue(set, t) == set[SelectInSeq(set, LAMBDA p : p.tag = t)].val
\* "if (!GetTagValue(tag, &v)) push_back(tag, v)" with v's initial value.
WithDefault(set, t, v) ==
  IF HasTag(set, t) THEN set ELSE Append(set, [tag |-> t, val |-> v])

\* RSA_size: the modulus length in bytes.
RSA_size(key) == (key.bits + 7) \div 8

\* EcdsaKeyFactory::choose_group and ::get_group_size.
ChooseGroup == (224 :> "secp224r1") @@ (256 :> "prime256v1")
                 @@ (384 :> "secp384r1") @@ (521 :> "secp521r1")
GroupSize == ("secp224r1" :> 224) @@ ("prime256v1" :> 256)
               @@ ("secp384r1" :> 384) @@ ("secp521r1" :> 521)

\* AsymmetricKeyFactory::ExtractEvpKey: only PKCS#8 is parsed, and the
\* parsed key must be of the factory's algorithm.
ExtractEvpKeyError(format, alg, pkey) ==
  IF format # "PKCS8" THEN "UNSUPPORTED_KEY_FORMAT"
  ELSE IF pkey.alg # alg THEN "INVALID_KEY_BLOB" ELSE "OK"

(***************************************************************************)
(* Mutants: each is the definition after it with one plausible bug.        *)
(***************************************************************************)
RsaImportKeySizeInBytes(desc, pkey) ==
  LET a1 == WithDefault(desc, "RSA_PUBLIC_EXPONENT", pkey.e)
      a2 == WithDefault(a1, "KEY_SIZE", RSA_size(pkey))
      a3 == WithDefault(a2, "ALGORITHM", KM_ALGORITHM_RSA)
  IN (IF HasTag(desc, "RSA_PUBLIC_EXPONENT") THEN {Fail("UNKNOWN_ERROR")} ELSE {})
     \cup
     IF HasTag(desc, "RSA_PUBLIC_EXPONENT") /\ TagValue(desc, "RSA_PUBLIC_EXPONENT") # pkey.e
       THEN {Fail("IMPORT_PARAMETER_MISMATCH")}
     ELSE IF HasTag(a1, "KEY_SIZE") /\ RSA_size(pkey) # TagValue(a1, "KEY_SIZE")
       THEN {Fail("IMPORT_PARAMETER_MISMATCH")}
     ELSE IF HasTag(a2, "ALGORITHM") /\ TagValue(a2, "ALGORITHM") # KM_ALGORITHM_RSA
       THEN {Fail("IMPORT_PARAMETER_MISMATCH")}
     ELSE {Outcome("OK", a3, pkey)}

EcdsaGenerateKeyFieldError(desc) ==
  LET auths == WithDefault(desc, "KEY_SIZE", ECDSA_DEFAULT_KEY_SIZE)
      size == TagValue(auths, "KEY_SIZE")
  IN IF size \notin DOMAIN ChooseGroup
     THEN {Fail("MEMORY_ALLOCATION_FAILED"), Fail("UNSUPPORTED_EC_FIELD")}
     ELSE {Fail("MEMORY_ALLOCATION_FAILED"), Fail("UNKNOWN_ERROR"),
           Outcome("OK", auths, [NoKey EXCEPT !.alg = KM_ALGORITHM_ECDSA, !.bits = size,
                                               !.curve = ChooseGroup[size]])}

(***************************************************************************)
(* The factories.                                                          *)
(***************************************************************************)

\* RsaKey::GenerateKey: defaults for the exponent, then the size; then
\* allocation and RSA_generate_key_ex may fail.
RsaGenerateKey(desc) ==
  LET auths == WithDefault(WithDefault(desc, "RSA_PUBLIC_EXPONENT", RSA_DEFAULT_EXPONENT),
                           "KEY_SIZE", RSA_DEFAULT_KEY_SIZE)
  IN {Fail("MEMORY_ALLOCATION_FAILED"), Fail("UNKNOWN_ERROR"),
      Outcome("OK", auths, [NoKey EXCEPT !.alg = KM_ALGORITHM_RSA,
                                          !.bits = TagValue(auths, "KEY_SIZE"),
                                          !.e = TagValue(auths, "RSA_PUBLIC_EXPONENT")])}

\* RsaKey::ImportKey on the key ExtractEvpKey parsed (so EVP_PKEY_get1_RSA
\* succeeds).  Exponent, then size, then algorithm: each is checked when
\* stated and appended from the key when not.  The size is compared with
\* RSA_size, in bytes, and appended as RSA_size * 8.  BN_get_word's
\* overflow value 0xffffffff is beyond the exponents modelled.
RsaImportKey(desc, pkey) ==
  LET a1 == WithDefault(desc, "RSA_PUBLIC_EXPONENT", pkey.e)
      a2 == WithDefault(a1, "KEY_SIZE", RSA_size(pkey) * 8)
      a3 == WithDefault(a2, "ALGORITHM", KM_ALGORITHM_RSA)
  IN \* BN_set_word of a stated exponent may fail before the comparison
     (IF HasTag(desc, "RSA_PUBLIC_EXPONENT") THEN {Fail("UNKNOWN_ERROR")} ELSE {})
     \cup
     IF HasTag(desc, "RSA_PUBLIC_EXPONENT") /\ TagValue(desc, "RSA_PUBLIC_EXPONENT") # pkey.e
       THEN {Fail("IMPORT_PARAMETER_MISMATCH")}
     ELSE IF HasTag(a1, "KEY_SIZE") /\ RSA_size(pkey) # TagValue(a1, "KEY_SIZE")
       THEN {Fail("IMPORT_PARAMETER_MISMATCH")}
     ELSE IF HasTag(a2, "ALGORITHM") /\ TagValue(a2, "ALGORITHM") # KM_ALGORITHM_RSA
       THEN {Fail("IMPORT_PARAMETER_MISMATCH")}
     ELSE {Outcome("OK", a3, pkey)}

\* EcdsaKeyFactory::GenerateKey: default size, allocation, choose_group,
\* then key generation and check.
EcdsaGenerateKey(desc) ==
  LET auths == WithDefault(desc, "KEY_SIZE", ECDSA_DEFAULT_KEY_SIZE)
      size == TagValue(auths, "KEY_SIZE")
  IN IF size \notin DOMAIN ChooseGroup
     THEN {Fail("MEMORY_ALLOCATION_FAILED"), Fail("UNSUPPORTED_KEY_SIZE")}
     ELSE {Fail("MEMORY_ALLOCATION_FAILED"), Fail("UNKNOWN_ERROR"),
           Outcome("OK", auths, [NoKey EXCEPT !.alg = KM_ALGORITHM_ECDSA, !.bits = size,
                                               !.curve = ChooseGroup[size]])}

\* EcdsaKeyFactory::ImportKey: ExtractEvpKey, get_group_size of the key's
\* curve, then the size and algorithm checks.
EcdsaImportKey(desc, format, pkey) ==
  LET extract == ExtractEvpKeyError(format, KM_ALGORITHM_ECDSA, pkey)
      a1 == WithDefault(desc, "KEY_SIZE", GroupSize[pkey.curve])
  IN IF extract # "OK" THEN {Fail(extract)}
     ELSE IF pkey.curve \notin DOMAIN GroupSize THEN {Fail("UNSUPPORTED_EC_FIELD")}
     ELSE IF HasTag(desc, "KEY_SIZE") /\ TagValue(desc, "KEY_SIZE") # GroupSize[pkey.curve]
       THEN {Fail("IMPORT_PARAMETER_MISMATCH")}
     ELSE IF HasTag(a1, "ALGORITHM") /\ TagValue(a1, "ALGORITHM") # KM_ALGORITHM_ECDSA
       THEN {Fail("IMPORT_PARAMETER_MISMATCH")}
     ELSE {Outcome("OK", WithDefault(a1, "ALGORITHM", KM_ALGORITHM_ECDSA),
                   [pkey EXCEPT !.bits = GroupSize[pkey.curve]])}

\* DsaKey::GenerateKey: all of g, p, q or none.  With none, OpenSSL
\* generates them for the size and they are appended; with all three the
\* key uses them as they are.
DsaGenerateKey(desc) ==
  LET given == {i \in 1 .. 3 : HasTag(desc, DsaParamTags[i])}
      auths == WithDefault(desc, "KEY_SIZE", DSA_DEFAULT_KEY_SIZE)
      size == TagValue(auths, "KEY_SIZE")
      generated == auths \o [i \in 1 .. 3 |-> [tag |-> DsaParamTags[i], val |-> Generated]]
      Key(ps, bits) == [NoKey EXCEPT !.alg = KM_ALGORITHM_DSA, !.bits = bits, !.params = ps]
  IN {Fail("MEMORY_ALLOCATION_FAILED"), Fail("INVALID_DSA_PARAMS")}
     \cup IF given = {}
          THEN {Fail("UNKNOWN_ERROR"), Outcome("OK", generated, Key(<<0, 0, 0>>, size))}
          ELSE IF given # 1 .. 3 THEN {}
          ELSE LET ps == [i \in 1 .. 3 |-> TagValue(desc, DsaParamTags[i])]
               IN {Fail("UNKNOWN_ERROR"), Outcome("OK", auths, Key(ps, ps[2]))}

(***************************************************************************)
(* The older revision in asymmetric_key.cpp.  Its RsaKey::GenerateKey and  *)
(* ::ImportKey are line for line those of rsa_key.cpp; its ECDSA          *)
(* generation differs.                                                     *)
(***************************************************************************)

ECDSA_DEFAULT_KEY_SIZE_V1 == 192

\* EcdsaKey::choose_group: prime192v1 besides the curves of ChooseGroup.
ChooseGroupV1 == (192 :> "prime192v1") @@ ChooseGroup

\* EcdsaKey::GenerateKey: EcdsaKeyFactory::GenerateKey with the default
\* and the groups above.  As there, a NULL from EC_GROUP_new_by_curve_name
\* for a listed size (an allocation failure) is not modelled.
EcdsaKeyGenerateKey(desc) ==
  LET auths == WithDefault(desc, "KEY_SIZE", ECDSA_DEFAULT_KEY_SIZE_V1)
      size == TagValue(auths, "KEY_SIZE")
  IN IF size \notin DOMAIN ChooseGroupV1
     THEN {Fail("MEMORY_ALLOCATION_FAILED"), Fail("UNSUPPORTED_KEY_SIZE")}
     ELSE {Fail("MEMORY_ALLOCATION_FAILED"), Fail("UNKNOWN_ERROR"),
           Outcome("OK", auths, [NoKey EXCEPT !.alg = KM_ALGORITHM_ECDSA, !.bits = size,
                                               !.curve = ChooseGroupV1[size]])}

(***************************************************************************)
(* The façade's dispatch and the requests.                                 *)
(***************************************************************************)

\* KeyFactoryRegistry::Get(algorithm)->GenerateKey.  For ECDSA, the
\* generator of either revision in EcdsaBuilds.
FactoryGenerateKey(alg, desc) ==
  CASE alg = KM_ALGORITHM_RSA -> RsaGenerateKey(desc)
    [] alg = KM_ALGORITHM_ECDSA ->
         (IF "EcdsaKeyFactory" \in EcdsaBuilds THEN EcdsaGenerateKey(desc) ELSE {})
         \cup (IF "EcdsaKey" \in EcdsaBuilds THEN EcdsaKeyGenerateKey(desc) ELSE {})
    [] alg = KM_ALGORITHM_DSA -> DsaGenerateKey(desc)

\* KeyFactoryRegistry::Get(algorithm)->ImportKey; the RSA factory runs
\* ExtractEvpKey before RsaKey::ImportKey.
FactoryImportKey(alg, desc, format, pkey) ==
  CASE alg = KM_ALGORITHM_ECDSA -> EcdsaImportKey(desc, format, pkey)
    [] alg = KM_ALGORITHM_RSA ->
         IF ExtractEvpKeyError(format, alg, pkey) # "OK"
         THEN {Fail(ExtractEvpKeyError(format, alg, pkey))}
         ELSE RsaImportKey(desc, pkey)

\* The algorithm GenerateKey/ImportKey dispatch on: the description's first
\* ALGORITHM when the registry has a factory for it.
FactoryFor(desc) ==
  IF HasTag(desc, "ALGORITHM") /\ TagValue(desc, "ALGORITHM") \in Registry
  THEN {TagValue(desc, "ALGORITHM")} ELSE {}

Record(call, desc, format, pkey, o) ==
  resp' = [call |-> call, desc |-> desc, format |-> format, pkey |-> pkey] @@ o

NoObject == [alg |-> 0, auths |-> <<>>, internal |-> "none"]

\* A factory that answered OK returned a new Key (new RsaKey(rsa_key.release(),
\* ...)) owning the OpenSSL key it built; on an error it returned NULL.
Produce(o) ==
  /\ keyObj' = IF o.err = "OK"
               THEN [alg |-> o.key.alg, auths |-> o.auths, internal |-> "owned"]
               ELSE NoObject
  /\ ops' = <<>>

Init ==
  /\ resp = [call |-> "none", desc |-> <<>>, format |-> "none", pkey |-> NoKey] @@ Fail("OK")
  /\ keyObj = NoObject
  /\ ops = <<>>

\* GoogleKeymaster::GenerateKey up to the factory's answer.
GenerateKey(desc) ==
  \/ /\ FactoryFor(desc) = {}
     /\ Record("generate", desc, "none", NoKey, Fail("UNSUPPORTED_ALGORITHM"))
     /\ Produce(Fail("UNSUPPORTED_ALGORITHM"))
  \/ \E alg \in FactoryFor(desc) : \E o \in FactoryGenerateKey(alg, desc) :
       Record("generate", desc, "none", NoKey, o) /\ Produce(o)

\* GoogleKeymaster::ImportKey up to the factory's answer.
ImportKey(desc, format, pkey) ==
  \/ /\ FactoryFor(desc) = {}
     /\ Record("import", desc, format, pkey, Fail("UNSUPPORTED_ALGORITHM"))
     /\ Produce(Fail("UNSUPPORTED_ALGORITHM"))
  \/ \E alg \in FactoryFor(desc) : \E o \in FactoryImportKey(alg, desc, format, pkey) :
       Record("import", desc, format, pkey, o) /\ Produce(o)

\* src/ holds no DSA import code (DsaKey has GenerateKey only).
ImportDescriptions ==
  {d \in Descriptions : ~HasTag(d, "ALGORITHM") \/ TagValue(d, "ALGORITHM") # KM_ALGORITHM_DSA}

(***************************************************************************)
(* The Key object and CreateOperation (src/asymmetric_key.cpp, and         *)
(* RsaKey::CreateOperation of src/rsa_key.cpp, of the same shape).         *)
(***************************************************************************)

\* AsymmetricKey::LoadKey, run by the RsaKey, DsaKey and EcdsaKey
\* constructors from a blob: EVP_PKEY_new, d2i_PrivateKey of the key
\* material, then EvpToInternal, each failing with its own error.  Only on
\* success does the Key own an OpenSSL key.
LoadKeyErrors == {"MEMORY_ALLOCATION_FAILED", "INVALID_KEY_BLOB", "UNKNOWN_ERROR"}

\* Mutant of TypedCreateOperation: the Operation is given key_.get().
TypedCreateOperationShared(k, purpose) ==
  IF purpose \in {"SIGN", "VERIFY"}
  THEN [err |-> "OK", owns |-> k.internal = "owned", internal |-> k.internal]
  ELSE [err |-> "UNIMPLEMENTED", owns |-> FALSE, internal |-> k.internal]

\* RsaKey, DsaKey and EcdsaKey::CreateOperation(purpose, digest, padding):
\* SIGN and VERIFY construct the Operation on key_.release(), whatever it
\* holds; under -fno-exceptions `new` aborts rather than return NULL, so
\* the answer is OK.  Any other purpose is UNIMPLEMENTED.
TypedCreateOperation(k, purpose) ==
  IF purpose \in {"SIGN", "VERIFY"}
  THEN [err |-> "OK", owns |-> k.internal = "owned", internal |-> "released"]
  ELSE [err |-> "UNIMPLEMENTED", owns |-> FALSE, internal |-> k.internal]

\* AsymmetricKey::CreateOperation(purpose): the key's DIGEST and PADDING
\* must be stated and NONE.
KeyCreateResult(k, purpose) ==
  LET Refuse(err) == [err |-> err, owns |-> FALSE, internal |-> k.internal]
  IN CASE ~HasTag(k.auths, "DIGEST") \/ TagValue(k.auths, "DIGEST") # "NONE"
            -> Refuse("UNSUPPORTED_DIGEST")
       [] ~HasTag(k.auths, "PADDING") \/ TagValue(k.auths, "PADDING") # "NONE"
            -> Refuse("UNSUPPORTED_PADDING_MODE")
       [] OTHER -> TypedCreateOperation(k, purpose)

\* The holder reloads its Key from the key's blob (RsaKey(blob, logger,
\* &error) and its DSA and ECDSA twins); the new Key has no Operations.
LoadKey ==
  /\ keyObj # NoObject
  /\ \E err \in {"OK"} \cup LoadKeyErrors :
       keyObj' = [keyObj EXCEPT !.internal = IF err = "OK" THEN "owned" ELSE "none"]
  /\ ops' = <<>>
  /\ UNCHANGED resp

\* The holder calls CreateOperation(purpose, &error) on its Key.
CreateOperation(purpose) ==
  /\ keyObj # NoObject
  /\ Len(ops) < MaxKeyOps
  /\ LET r == KeyCreateResult(keyObj, purpose)
     IN /\ keyObj' = [keyObj EXCEPT !.internal = r.internal]
        /\ ops' = Append(ops, [purpose |-> purpose, err |-> r.err, owns |-> r.owns])
  /\ UNCHANGED resp

KeyPurposes == {"SIGN", "VERIFY", "ENCRYPT"}

Next ==
  \/ \E desc \in Descriptions : GenerateKey(desc)
  \/ \E desc \in ImportDescriptions, format \in KeyFormats, pkey \in ImportKeys :
       ImportKey(desc, format, pkey)
  \/ LoadKey
  \/ \E purpose \in KeyPurposes : CreateOperation(purpose)

Spec == Init /\ [][Next]_vars


(***************************************************************************)
(* Properties.                                                             *)
(***************************************************************************)

Errors ==
  {"OK", "UNSUPPORTED_ALGORITHM", "MEMORY_ALLOCATION_FAILED", "UNKNOWN_ERROR",
   "UNSUPPORTED_KEY_SIZE", "INVALID_DSA_PARAMS", "UNSUPPORTED_KEY_FORMAT",
   "INVALID_KEY_BLOB", "UNSUPPORTED_EC_FIELD", "IMPORT_PARAMETER_MISMATCH"}
\* Errors that only parsing or checking an imported key can produce.
ImportOnlyErrors ==
  {"UNSUPPORTED_KEY_FORMAT", "INVALID_KEY_BLOB", "UNSUPPORTED_EC_FIELD",
   "IMPORT_PARAMETER_MISMATCH"}

\* Type of the state: a generate request never answers an import error,
\* and only a successful request carries a key and authorizations.
TypeOK ==
  /\ resp.call \in {"none", "generate", "import"}
  /\ resp.err \in Errors
  /\ resp.call = "generate" => resp.err \notin ImportOnlyErrors
  /\ (resp.err = "OK") = (resp.key # NoKey) \/ resp.call = "none"
  /\ keyObj.internal \in {"none", "owned", "released"}
  /\ Len(ops) <= MaxKeyOps
  /\ \A i \in DOMAIN ops : ops[i].owns => ops[i].err = "OK"

\* Spec, Ownership: on Begin the backend key handle moves from the Key
\* into the Operation.  The CreateOperation methods hand over
\* key_.release(), so the OpenSSL key is never owned by the Key and an
\* Operation at once, nor by two Operations (each of which frees it in its
\* destructor), however CreateOperation and reloading are interleaved.
KeyHandleSingleOwner ==
  (IF keyObj.internal = "owned" THEN 1 ELSE 0)
    + Cardinality({i \in DOMAIN ops : ops[i].owns}) <= 1

\* The named curves of spec 4.5.3 and their sizes in bits.
NamedCurveBits == ("prime192v1" :> 192) @@ ("secp224r1" :> 224) @@ ("prime256v1" :> 256)
                    @@ ("secp384r1" :> 384) @@ ("secp521r1" :> 521)

\* A key that GenerateKey or ImportKey produces is described truthfully by
\* its authorizations: ALGORITHM is the key's algorithm, RSA_PUBLIC_EXPONENT
\* is its exponent, an EC key's curve is the one of its size, a DSA key
\* records the g, p and q it uses, and KEY_SIZE is its size in bits
\* wherever the factory generates the key or derives KEY_SIZE from it
\* (RsaKey::ImportKey appends RSA_size * 8, the EC import the group size).
\* A KEY_SIZE an import states is only compared with the key, and
\* RsaKey::ImportKey compares it with bytes: that case is the finding of
\* ImportKeySizeIsModulusBits, and is left out here.
KeyCharacterised ==
  LET a == resp.auths
      k == resp.key
      derivedSize == resp.call = "generate" \/ ~HasTag(resp.desc, "KEY_SIZE")
  IN resp.err = "OK" /\ resp.call # "none" =>
       /\ HasTag(a, "ALGORITHM") /\ TagValue(a, "ALGORITHM") = k.alg
       /\ derivedSize /\ (k.alg # KM_ALGORITHM_DSA \/ k.params = <<0, 0, 0>>)
            => HasTag(a, "KEY_SIZE") /\ TagValue(a, "KEY_SIZE") = k.bits
       /\ k.alg = KM_ALGORITHM_RSA =>
            HasTag(a, "RSA_PUBLIC_EXPONENT") /\ TagValue(a, "RSA_PUBLIC_EXPONENT") = k.e
       /\ k.alg = KM_ALGORITHM_ECDSA => NamedCurveBits[k.curve] = k.bits
       /\ k.alg = KM_ALGORITHM_DSA =>
            \A i \in 1 .. 3 : HasTag(a, DsaParamTags[i]) /\ TagValue(a, DsaParamTags[i]) = k.params[i]

\* Spec 4.5.1: an RSA import whose description states KEY_SIZE succeeds
\* only if it is the modulus size in bits, and (all else stated truly)
\* does succeed then.  RsaKey::ImportKey compares it with RSA_size.
ImportKeySizeIsModulusBits ==
  LET d == resp.desc IN
  resp.call = "import" /\ resp.pkey.alg = KM_ALGORITHM_RSA /\ resp.format = "PKCS8"
    /\ HasTag(d, "KEY_SIZE") /\ resp.err \notin {"UNKNOWN_ERROR", "MEMORY_ALLOCATION_FAILED"}
    /\ (HasTag(d, "RSA_PUBLIC_EXPONENT") => TagValue(d, "RSA_PUBLIC_EXPONENT") = resp.pkey.e)
    /\ HasTag(d, "ALGORITHM") /\ TagValue(d, "ALGORITHM") = KM_ALGORITHM_RSA
    => (resp.err = "OK" <=> TagValue(d, "KEY_SIZE") = resp.pkey.bits)

\* Spec 8.2: ECDSA generation with KEY_SIZE 192, 224, 256, 384 or 521
\* never answers UNSUPPORTED_KEY_SIZE (EcdsaKeyFactory::choose_group).
EcdsaNamedCurveSizes ==
  resp.call = "generate" /\ HasTag(resp.desc, "KEY_SIZE")
    /\ TagValue(resp.desc, "KEY_SIZE") \in {192, 224, 256, 384, 521}
    => resp.err # "UNSUPPORTED_KEY_SIZE"

=============================================================================
