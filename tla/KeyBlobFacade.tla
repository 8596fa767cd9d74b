---------------------------- MODULE KeyBlobFacade ----------------------------
(***************************************************************************)
(* The key half of the GoogleKeymaster facade (src/rsa_key.cpp from line   *)
(* 340): GenerateKey and ImportKey seal a key into a blob (SerializeKey,   *)
(* SetAuthorizations, BuildHiddenAuthorizations); GetKeyCharacteristics    *)
(* and ExportKey unseal it again (LoadKeyBlob, LoadKey) under the hidden   *)
(* authorizations the client supplies.  AndroidSoftKeymaster supplies the  *)
(* root of trust, the master key and the nonce.                            *)
(*                                                                         *)
(* An AuthorizationSet is a sequence of [tag, val] entries; GetTagValue    *)
(* reads the first entry with the tag.  Key material is the number of the *)
(* key.  The AEAD (UnencryptedKeyBlob, not in src/) is modelled from the   *)
(* specification: a blob opens exactly when its policy, ciphertext and     *)
(* nonce are those of a sealed key and the hidden set rebuilt from the     *)
(* client's parameters equals the one it was sealed with.                  *)
(***************************************************************************)
EXTENDS Naturals, Sequences, SequencesExt

CONSTANTS
  Algorithms,     \* algorithms KeyFactoryRegistry has a factory for
  Descriptions,   \* key descriptions clients send: sequences of [tag, val]
  AppIds,         \* APPLICATION_ID values a client may send
  AppDatas,       \* APPLICATION_DATA values a client may send
  FactoryErrors,  \* errors a factory's GenerateKey / ImportKey may return
  EnforcedTags,   \* tags is_enforced() answers TRUE for
  RootOfTrust,    \* value of RootOfTrustTag()
  GenerateOrigin, \* origin(): the ORIGIN GenerateKey stamps
  ExportFormats,  \* formats formatted_key_material accepts
  Formats,        \* formats a client may ask ExportKey for
  Times,          \* values time(NULL) may return
  MaxKeys         \* bound: keys sealed in one behaviour

NoValue == "absent"

ASSUME /\ MaxKeys \in Nat
       /\ ExportFormats \subseteq Formats
       /\ NoValue \notin AppIds \cup AppDatas
       /\ "OK" \notin FactoryErrors

VARIABLES
  keys,     \* blobs sealed so far: [enforced, unenforced, hidden, material, nonce]
  history,  \* for each key: the description, origin and time it was made with
  resp      \* response to the last request

vars == <<keys, history, resp>>

Param(t, v) == [tag |-> t, val |-> v]
HiddenTags == {"APPLICATION_ID", "APPLICATION_DATA"}
ServiceTags == {"ROOT_OF_TRUST", "ORIGIN", "ROLLBACK_RESISTANT"}

\* AuthorizationSet::GetTagValue: does the set carry the tag, and the value
\* of its first entry with that tag.
HasTag(set, t) == \E i \in 1 .. Len(set) : set[i].tag = t
TagValue(set, t) == set[SelectInSeq(set, LAMBDA p : p.tag = t)].val

Respond(call, err, k, params, chars) ==
  resp' = [call |-> call, err |-> err, key |-> k, params |-> params,
           unenforced |-> chars]

\* The client parameters carrying an optional APPLICATION_ID and
\* APPLICATION_DATA.
ClientParams(id, data) ==
  (IF id = NoValue THEN <<>> ELSE <<Param("APPLICATION_ID", id)>>)
  \o (IF data = NoValue THEN <<>> ELSE <<Param("APPLICATION_DATA", data)>>)

\* The part of a sealed key the client holds: everything but the hidden set.
Public(r) == [enforced |-> r.enforced, unenforced |-> r.unenforced,
              material |-> r.material, nonce |-> r.nonce]

\* AddAuthorization over a whole set: is_enforced decides the side.
EnforcedPart(set) == SelectSeq(set, LAMBDA p : p.tag \in EnforcedTags)
UnenforcedPart(set) == SelectSeq(set, LAMBDA p : p.tag \notin EnforcedTags)

(***************************************************************************)
(* Mutants: each is the definition after it with one plausible bug.        *)
(***************************************************************************)
SetAuthorizationsAcceptsOrigin(desc, time, origin) ==
  LET bad == SelectInSeq(desc, LAMBDA p : p.tag \in {"ROOT_OF_TRUST", "ROLLBACK_RESISTANT"})
      kept == SelectSeq(desc, LAMBDA p : p.tag \notin HiddenTags)
                \o <<Param("CREATION_DATETIME", time), Param("ORIGIN", origin)>>
  IN [err |-> IF bad = 0 THEN "OK"
              ELSE IF desc[bad].tag = "ROLLBACK_RESISTANT" THEN "UNSUPPORTED_TAG"
              ELSE "INVALID_TAG",
      enforced |-> EnforcedPart(kept), unenforced |-> UnenforcedPart(kept)]

BuildHiddenRootFirst(set) ==
  <<Param("ROOT_OF_TRUST", RootOfTrust)>>
  \o (IF HasTag(set, "APPLICATION_ID")
        THEN <<Param("APPLICATION_ID", TagValue(set, "APPLICATION_ID"))>> ELSE <<>>)
  \o (IF HasTag(set, "APPLICATION_DATA")
        THEN <<Param("APPLICATION_DATA", TagValue(set, "APPLICATION_DATA"))>> ELSE <<>>)

BuildHiddenNoRootOfTrust(set) ==
  (IF HasTag(set, "APPLICATION_ID")
     THEN <<Param("APPLICATION_ID", TagValue(set, "APPLICATION_ID"))>> ELSE <<>>)
  \o (IF HasTag(set, "APPLICATION_DATA")
        THEN <<Param("APPLICATION_DATA", TagValue(set, "APPLICATION_DATA"))>> ELSE <<>>)

(***************************************************************************)
(* The facade's helpers.                                                   *)
(***************************************************************************)

\* SetAuthorizations: the first ROOT_OF_TRUST or ORIGIN entry is
\* INVALID_TAG, the first ROLLBACK_RESISTANT is UNSUPPORTED_TAG (the loop
\* returns at whichever comes first); APPLICATION_ID/DATA are skipped, all
\* else copied; then CREATION_DATETIME and ORIGIN are appended.
SetAuthorizations(desc, time, origin) ==
  LET bad == SelectInSeq(desc, LAMBDA p : p.tag \in ServiceTags)
      kept == SelectSeq(desc, LAMBDA p : p.tag \notin HiddenTags)
                \o <<Param("CREATION_DATETIME", time), Param("ORIGIN", origin)>>
  IN [err |-> IF bad = 0 THEN "OK"
              ELSE IF desc[bad].tag = "ROLLBACK_RESISTANT" THEN "UNSUPPORTED_TAG"
              ELSE "INVALID_TAG",
      enforced |-> EnforcedPart(kept), unenforced |-> UnenforcedPart(kept)]

\* BuildHiddenAuthorizations: APPLICATION_ID and APPLICATION_DATA if the
\* input carries them, then the root of trust.
BuildHiddenAuthorizations(set) ==
  (IF HasTag(set, "APPLICATION_ID")
     THEN <<Param("APPLICATION_ID", TagValue(set, "APPLICATION_ID"))>> ELSE <<>>)
  \o (IF HasTag(set, "APPLICATION_DATA")
        THEN <<Param("APPLICATION_DATA", TagValue(set, "APPLICATION_DATA"))>> ELSE <<>>)
  \o <<Param("ROOT_OF_TRUST", RootOfTrust)>>

\* TranslateAuthorizationSetError: an AuthorizationSet's validity as the
\* keymaster error a handler returns.
TranslateAuthorizationSetError(valid) ==
  CASE valid = "OK" -> "OK"
    [] valid = "ALLOCATION_FAILURE" -> "MEMORY_ALLOCATION_FAILED"
    [] valid = "MALFORMED_DATA" -> "UNKNOWN_ERROR"

\* What BuildHiddenAuthorizations leaves in `hidden`, with the validity it
\* returns: the whole set, or, when a push_back cannot allocate the copy of
\* a blob value, the entries appended before it (the set is then
\* ALLOCATION_FAILURE and takes no further entries, spec 3.3).
HiddenOutcomes(set) ==
  LET full == BuildHiddenAuthorizations(set) IN
  {[valid |-> "OK", hidden |-> full]}
  \cup {[valid |-> "ALLOCATION_FAILURE", hidden |-> p] : p \in Prefixes(full) \ {full}}

\* AndroidSoftKeymaster::GenerateNonce writes zeros into every byte.
GenerateNonce == "all-zero"

\* UnencryptedKeyBlob(blob, hidden, master_key): the keys the AEAD opens
\* the blob as (at most one; empty means INVALID_KEY_BLOB).
UnencryptedKeyBlob(blob, hidden) ==
  {k \in 1 .. Len(keys) : Public(keys[k]) = blob /\ keys[k].hidden = hidden}

\* LoadKeyBlob: rebuild the hidden set from the client's parameters, with
\* BuildHiddenAuthorizations' error ignored, and open the blob under the
\* master key.  Each element is one possible result: the keys the blob
\* opens as under one outcome of BuildHiddenAuthorizations.
LoadKeyBlob(blob, params) ==
  {UnencryptedKeyBlob(blob, o.hidden) : o \in HiddenOutcomes(params)}

\* Blobs a client may present: any sealed key's policy in front of any
\* sealed key's ciphertext (the genuine blobs are the diagonal).
PresentedBlobs ==
  {[Public(keys[i]) EXCEPT !.material = keys[j].material] : i, j \in 1 .. Len(keys)}

(***************************************************************************)
(* Request handlers.                                                       *)
(***************************************************************************)

Init ==
  /\ keys = <<>>
  /\ history = <<>>
  /\ resp = [call |-> "none", err |-> "OK", key |-> 0, params |-> <<>>, unenforced |-> <<>>]

\* AsymmetricKey::key_material: EVP_PKEY_new returning NULL, then
\* InternalToEvp or i2d_PrivateKey failing.
KeyMaterialErrors == {"MEMORY_ALLOCATION_FAILED", "UNKNOWN_ERROR"}

\* SerializeKey(key, origin): the key's authorizations are the description
\* (the defaults a factory appends are modelled with the factories).
SerializeKey(call, desc, origin) ==
  \E time \in Times :
    LET auths == SetAuthorizations(desc, time, origin) IN
    \/ /\ auths.err # "OK"
       /\ Respond(call, auths.err, 0, <<>>, <<>>)
       /\ UNCHANGED <<keys, history>>
    \/ /\ auths.err = "OK"
       /\ \E o \in HiddenOutcomes(desc) :
            o.valid # "OK" /\ Respond(call, TranslateAuthorizationSetError(o.valid), 0, <<>>, <<>>)
       /\ UNCHANGED <<keys, history>>
    \/ /\ auths.err = "OK"
       /\ \E err \in KeyMaterialErrors : Respond(call, err, 0, <<>>, <<>>)
       /\ UNCHANGED <<keys, history>>
    \/ /\ auths.err = "OK"
       /\ Len(keys) < MaxKeys
       /\ keys' = Append(keys, [enforced |-> auths.enforced,
                                unenforced |-> auths.unenforced,
                                hidden |-> BuildHiddenAuthorizations(desc),
                                material |-> Len(keys) + 1,
                                nonce |-> GenerateNonce])
       /\ history' = Append(history, [desc |-> desc, origin |-> origin, time |-> time])
       /\ Respond(call, "OK", Len(keys) + 1, <<>>, auths.unenforced)

\* GenerateKey and ImportKey differ only in the factory call and the origin.
NewKey(call, desc, origin) ==
  LET alg == IF HasTag(desc, "ALGORITHM") THEN TagValue(desc, "ALGORITHM") ELSE NoValue IN
  \/ /\ alg \notin Algorithms
     /\ Respond(call, "UNSUPPORTED_ALGORITHM", 0, <<>>, <<>>)
     /\ UNCHANGED <<keys, history>>
  \/ /\ alg \in Algorithms
     /\ \/ /\ \E err \in FactoryErrors : Respond(call, err, 0, <<>>, <<>>)
           /\ UNCHANGED <<keys, history>>
        \/ SerializeKey(call, desc, origin)

GenerateKey(desc) == NewKey("generate", desc, GenerateOrigin)

ImportKey(desc) == NewKey("import", desc, "IMPORTED")

GetKeyCharacteristics(blob, params) ==
  /\ \E opened \in LoadKeyBlob(blob, params) :
       \/ /\ opened = {}
          /\ Respond("characteristics", "INVALID_KEY_BLOB", 0, params, <<>>)
       \/ \E k \in opened : Respond("characteristics", "OK", k, params, blob.unenforced)
  /\ UNCHANGED <<keys, history>>

\* AsymmetricKey::formatted_key_material: only X.509 is produced;
\* InternalToEvp or i2d_PUBKEY failing gives UNKNOWN_ERROR.  new[] throws
\* rather than returning NULL.
formatted_key_material(format) ==
  IF format \in ExportFormats THEN {"OK", "UNKNOWN_ERROR"} ELSE {"UNSUPPORTED_KEY_FORMAT"}

\* ExportKey: LoadKey (LoadKeyBlob, then the factory of the blob's algorithm
\* parses the material), then formatted_key_material(format).  A blob that
\* opens was sealed by a registered factory, so LoadKey's
\* UNSUPPORTED_ALGORITHM branch is never taken and is left out.
ExportKey(blob, params, format) ==
  /\ \E opened \in LoadKeyBlob(blob, params) :
       \/ /\ opened = {}
          /\ Respond("export", "INVALID_KEY_BLOB", 0, params, <<>>)
       \/ \E k \in opened : \E err \in formatted_key_material(format) :
            Respond("export", err, k, params, <<>>)
  /\ UNCHANGED <<keys, history>>

Next ==
  \/ \E desc \in Descriptions : GenerateKey(desc) \/ ImportKey(desc)
  \/ \E blob \in PresentedBlobs, id \in AppIds \cup {NoValue},
        data \in AppDatas \cup {NoValue} :
       \/ GetKeyCharacteristics(blob, ClientParams(id, data))
       \/ \E format \in Formats : ExportKey(blob, ClientParams(id, data), format)

Spec == Init /\ [][Next]_vars

(***************************************************************************)
(* Properties.                                                             *)
(***************************************************************************)

Params == [tag : STRING, val : STRING]

\* Type of the state; every hidden set BuildHiddenAuthorizations builds
\* ends with the root of trust, which binds every blob to this keymaster.
TypeOK ==
  /\ keys \in Seq([enforced : Seq(Params), unenforced : Seq(Params),
                    hidden : Seq(Params), material : Nat, nonce : STRING])
  /\ \A k \in 1 .. Len(keys) :
       /\ Len(keys[k].hidden) > 0
       /\ keys[k].hidden[Len(keys[k].hidden)] = Param("ROOT_OF_TRUST", RootOfTrust)
  /\ Len(history) = Len(keys)

\* Policy preservation (SetAuthorizations): the characteristics of every
\* sealed key are its description without APPLICATION_ID, APPLICATION_DATA
\* and ROOT_OF_TRUST, plus the CREATION_DATETIME stamped and exactly one
\* ORIGIN, the one of the path (generate or import) that made the key.
PolicyPreserved ==
  \A k \in 1 .. Len(keys) :
    LET chars == keys[k].enforced \o keys[k].unenforced
        made == history[k]
        kept == SelectSeq(made.desc,
                          LAMBDA p : p.tag \notin HiddenTags \cup {"ROOT_OF_TRUST"})
    IN /\ ToSet(chars) = ToSet(kept) \cup {Param("CREATION_DATETIME", made.time),
                                          Param("ORIGIN", made.origin)}
       /\ Len(SelectSeq(chars, LAMBDA p : p.tag = "ORIGIN")) = 1

\* Blob binding (LoadKeyBlob with BuildHiddenAuthorizations): a request
\* that opens a blob, genuine or with its policy spliced onto another key,
\* was sent with exactly the APPLICATION_ID and APPLICATION_DATA the key was
\* created with, and GetKeyCharacteristics returns the policy sealed with
\* that key's material.  This holds even though LoadKeyBlob ignores an
\* allocation failure inside BuildHiddenAuthorizations: a truncated hidden
\* set lacks the trailing root of trust every sealed set ends with.
LoadBoundToCreation ==
  resp.err = "OK" /\ resp.call \in {"characteristics", "export"} =>
    LET made == history[resp.key].desc IN
    /\ \A t \in HiddenTags :
         /\ HasTag(resp.params, t) <=> HasTag(made, t)
         /\ HasTag(made, t) => TagValue(resp.params, t) = TagValue(made, t)
    /\ resp.call = "characteristics" => resp.unenforced = keys[resp.key].unenforced

\* Every blob is sealed under a nonce no other blob used (KeyBlob codec:
\* the caller supplies a fresh nonce).
NoncesUnique ==
  \A i, j \in 1 .. Len(keys) : i # j => keys[i].nonce # keys[j].nonce

\* The CREATION_DATETIME a reader of the characteristics gets (the first
\* entry, as GetTagValue returns it) is the time the keymaster stamped.
CreationDatetimeStamped ==
  \A k \in 1 .. Len(keys) :
    TagValue(keys[k].enforced \o keys[k].unenforced, "CREATION_DATETIME") = history[k].time

=============================================================================
