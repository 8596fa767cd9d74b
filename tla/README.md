# TLA+ models of the software keymaster

This directory holds TLA+ specifications of the keymaster in `src/` and the TLC
configurations that check them. It also holds `PROJECT.json`, which records:

* for every definition, the source lines it translates;
* every run and what it shows;
* a mutant for every checked property;
* the findings, and the hazards of the code.

Run a check from this directory with `tlc -workers 2 -config X.cfg MCModule`.

## The system

The repository is an early software implementation of the Android keymaster.
Its parts, and how they interact:

* **GoogleKeymaster façade** (`google_keymaster.cpp`, which the repository
  carries inside `src/rsa_key.cpp` from line 158). It holds the request
  handlers.
  * *Key handlers* (GenerateKey, ImportKey, GetKeyCharacteristics,
    ExportKey) seal key material into an AEAD-encrypted blob (`SerializeKey`)
    and unseal it again (`LoadKeyBlob`, `LoadKey`). A blob is bound to
    *hidden* authorizations that are never stored in it: APPLICATION_ID,
    APPLICATION_DATA and the root of trust.
  * *Operation handlers* (BeginOperation, UpdateOperation, FinishOperation,
    AbortOperation) keep live operations in `operation_table_`. This is a
    fixed array of `{handle, operation}` entries, indexed by random 64-bit
    handles drawn from `RAND_bytes`.
  * *Query handlers* (SupportedAlgorithms, SupportedBlockModes,
    SupportedPaddingModes, SupportedDigests, SupportedImportFormats,
    SupportedExportFormats, GetVersion) answer from two registries:
    `KeyFactoryRegistry`, keyed by algorithm, and `OperationFactoryRegistry`,
    keyed by algorithm and purpose. BeginOperation uses the same two
    registries.
* **Key factories**: RSA is in `rsa_key.cpp`, ECDSA in `unnamed/part_000`,
  and DSA in `asymmetric_key.cpp`. They check generation and import
  parameters, fill in defaults, and produce a Key object that owns an
  OpenSSL key. A Key can also be loaded from a blob (`AsymmetricKey::LoadKey`),
  and `CreateOperation` on it moves the OpenSSL key into a new sign or
  verify Operation (`key_.release()`). `asymmetric_key.cpp`
  also holds the key base class `AsymmetricKey` (`key_material`,
  `formatted_key_material`). It also holds a different revision of the
  RsaKey and EcdsaKey methods.
* **Operations**: HMAC is in `hmac_operation.cpp`. The RSA and ECDSA sign
  and verify operations are outside `src/`. AES has declarations only.
* **AndroidSoftKeymaster** (`android_softkeymaster.h`) supplies the root of
  trust ("SW"), an `is_enforced` that answers FALSE for every tag, a constant
  all-zero master key and an all-zero nonce.
* **Buffer** (`google_keymaster_utils.cpp`) is a byte buffer with a read and
  a write position. Every message uses it to serialize and deserialize.
* **Messages** (`unnamed/part_002`): the request and response structs,
  MessageVersion, and the OpenSSL error translation. A client maps the
  version GetVersion reports to a message version with MessageVersion.

Two kinds of state live across requests: the operation table, and the blobs
clients hold. The façade serves one request at a time, so each handler is
one atomic step. The concurrency that matters is the interleaving of
*clients' sessions*: many operations begun, updated, finished and aborted in
any order, with blobs presented with any hidden inputs.

## Modules

| Module | Models | State | Actions |
|---|---|---|---|
| `OperationSessions` | what sessions promise, with no table | `sessions` (live handle → operation), `resp`, `nextOp`, `retired` | BeginOk, BeginFails, Update, Finish, Abort |
| `OperationTable` | `operation_table_`: AddOperation, FindOperation, DeleteOperation, the four operation handlers, GetOperationFactory, the Supported* queries and GetVersion, the constructor and destructor (`rsa_key.cpp` 198-209, 225-338, 377-452, 539-572, 645-681) | `table` (slot → `[handle, op]`), `nextOp`, `resp`, `retired`, `answer`, `freed` (deletes of each operation object), `alive` | BeginOperation, UpdateOperation, FinishOperation, AbortOperation, Supported, Destroy |
| `KeyBlobFacade` | the key handlers: SerializeKey, SetAuthorizations, BuildHiddenAuthorizations, LoadKeyBlob, key_material, formatted_key_material (`rsa_key.cpp` 340-375, 454-537, 555-643; `asymmetric_key.cpp` 54-105) | `keys` (sealed blobs), `history` (what each was made from), `resp` | GenerateKey, ImportKey, GetKeyCharacteristics, ExportKey |
| `KeyFactories` | RsaKey::GenerateKey/ImportKey, EcdsaKeyFactory::GenerateKey/ImportKey, choose_group, get_group_size, DsaKey::GenerateKey, the older EcdsaKey::GenerateKey and its choose_group (`asymmetric_key.cpp` 35, 368-430), the façade's dispatch by ALGORITHM; the Key a factory returns: AsymmetricKey::LoadKey and CreateOperation (`asymmetric_key.cpp` 37-52, 107-121, 226-242; `rsa_key.cpp` 124-146) | `resp` (request, key, authorizations, error), `keyObj` (the returned Key and whether it still owns its OpenSSL key), `ops` (CreateOperation calls on it) | GenerateKey, ImportKey, LoadKey, CreateOperation |
| `AndroidSoftKeymaster` | the constructor's root of trust and `is_enforced` (`android_softkeymaster.h` 30-36); MCKeyBlobFacade gives KeyBlobFacade's `RootOfTrust` and `EnforcedTags` these values | | |
| `KeymasterMessages` | MAX_MESSAGE_VERSION and MessageVersion (`unnamed/part_002` 57-69), as operators used by OperationTable | | |
| `HmacOperation` | HmacOperationFactory::CreateOperation, and HmacOperation's constructor, Begin, Update, Finish and Abort (`hmac_operation.cpp` 44-179) | `digest` (the key's), `ops` (client → operation), `issued` (MACs returned), `resp` | CreateOperation, Update, Finish, Abort |
| `ByteQueue` | what a Buffer promises: a FIFO of bytes | `queue`, `last` | Put, Take, Refill, Keep |
| `Buffer` | every state-changing Buffer method (`google_keymaster_utils.cpp` 28-111) | `exists`, `storage` (null/owned/deleted), `mem`, `size`, `rpos`, `wpos`, `last` | Construct, Destroy, reserve, ReinitializeSize, ReinitializeData, write, read, Deserialize |
| `MC*` | constants and definitions that instantiate the above for TLC | | |

How the models correspond to the code:

* **Every action is one whole handler.** That includes the helpers it calls
  that change state: DeleteOperation inside Update/Finish/Abort, and
  AddOperation inside Begin.
* **Guards and branches follow the code's early returns, in the code's
  order.**
* **What OpenSSL and the allocator answer is a nondeterministic choice.**
  Key generation, parsing, HMAC_Update and HMAC_Final can each succeed or
  fail, and `RAND_bytes` can fail, yield 0, or yield a value. `new[]` throws
  instead of returning NULL, so the NULL checks after it are dead code and
  are left out.
* **Data is abstracted.**
  * An authorization set is a sequence of `[tag, val]`: GetTagValue reads
    the first entry, push_back appends.
  * An operation object is its creation number.
  * A key blob in OperationTable is its algorithm and whether it unseals.
  * A MAC is the input it was computed over, plus its length.
  * A byte is a member of `Bytes`, or `"?"` for bytes `new[]` has not
    initialised.
* **The AEAD of UnencryptedKeyBlob is modelled from the specification**
  (`spec_modelled` in the map), because that code is not in `src/`.

There are two refinements. `OperationTable` implements `OperationSessions`
through `AbsSessions`, which maps each live handle to the operation
FindOperation reaches. `Buffer` implements `ByteQueue` through `AbsQueue`,
the unread bytes `buffer_[rpos, wpos)`. Each is checked as a temporal
property (`Refinement`).

## Runs

| Run | Config | Expect | What it shows |
|---|---|---|---|
| `op_table` | `MCOperationTable.cfg` | pass | See below. |
| `version_negotiation` | `MCOperationTableVersion.cfg` | violation | VersionNegotiates fails: GetVersion reports 1.0.0, which MessageVersion maps to -1, not to the message version 1 the implementation speaks. |
| `key_blobs` | `MCKeyBlobFacade.cfg` | pass | See below. |
| `key_blob_nonce` | `MCKeyBlobFacadeNonce.cfg` | violation | NoncesUnique fails: every blob is sealed under the same all-zero nonce and constant master key. |
| `key_blob_datetime` | `MCKeyBlobFacadeDatetime.cfg` | violation | CreationDatetimeStamped fails. A client's CREATION_DATETIME is copied ahead of the stamped one, so GetTagValue returns the client's value. |
| `hmac` | `MCHmacOperation.cfg` | pass | TypeOK; SignedMacVerifies: a MAC a SIGN operation returned verifies over the same input, whatever MAC_LENGTH truncated it to and whatever the other client did in between. |
| `hmac_forgery` | `MCHmacOperationForgery.cfg` | violation | VerifyNeedsIssuedMac fails: a 0-byte signature verifies any input. |
| `key_factories` | `MCKeyFactories.cfg` | pass | TypeOK; KeyCharacterised: every key generated or imported through the RSA, ECDSA and DSA factories carries authorizations that state its algorithm, exponent, curve and DSA parameters truly, and its size wherever the factory generates the key or derives KEY_SIZE from it (a KEY_SIZE an import states is only compared, in bytes for RSA: that is `key_import_size`); KeyHandleSingleOwner: however CreateOperation and LoadKey interleave on a Key, its OpenSSL key never has two owners (the Key and an Operation, or two Operations), each of which would free it. |
| `key_import_size` | `MCKeyFactoriesImportSize.cfg` | violation | ImportKeySizeIsModulusBits fails. A 1024-bit RSA key imports with KEY_SIZE=128, and is refused with KEY_SIZE=1024. |
| `ecdsa_curve_sizes` | `MCKeyFactoriesEcdsaSizes.cfg` | violation | EcdsaNamedCurveSizes fails: ECDSA generation with KEY_SIZE=192 answers UNSUPPORTED_KEY_SIZE. |
| `buffer` | `MCBuffer.cfg` | pass | See below. |
| `buffer_double_delete` | `MCBufferDoubleDelete.cfg` | violation | NoDoubleDelete fails. A failed Deserialize leaves `buffer_` pointing at a deleted array, and the destructor deletes it again. |

The `op_table` run checks these properties:

* TypeOK.
* FailedBeginLeavesTable: a failed Begin stores nothing.
* OperationsFreedOnce: every operation object Begin creates is deleted
  exactly once. A failed Begin and each early return of AddOperation delete
  it through UniquePtr; Update errors, Finish and Abort delete it through
  DeleteOperation; the destructor deletes those still in the table. After
  `Destroy` the keymaster serves nothing and the behaviour stutters
  (`Destroyed`), so deadlock checking stays on. The mutant AddOperation that
  drops the pointer on its early returns leaks, and TLC reports it.
* Refinement: the table implements OperationSessions. Bindings are stable,
  released handles stay dead, and TOO_MANY_OPERATIONS comes only from a full
  table. It also shows that no request reaches an empty entry: a FindOperation
  without the handle-0 check breaks it.

The `key_blobs` run checks these properties:

* TypeOK: every hidden set ends with the root of trust.
* PolicyPreserved: the characteristics are the description minus the hidden
  tags, plus the stamp and exactly one ORIGIN.
* LoadBoundToCreation: a blob opens only with the hidden inputs it was
  sealed with, and a blob whose policy was spliced onto another key's
  material never opens. This includes the case where BuildHiddenAuthorizations
  runs out of memory part-way (`HiddenOutcomes`: any proper prefix of the
  hidden set). SerializeKey then answers the translated error, but
  LoadKeyBlob ignores the error and opens the blob with the truncated set.
  That is harmless only because ROOT_OF_TRUST is appended last, so a
  truncated set never matches the sealed one; the mutant that appends it
  first (`BuildHiddenRootFirst`) breaks the property.

The `buffer` run checks these properties:

* TypeOK: `rpos ≤ wpos ≤ size`, and the array holds `size` bytes.
* ReserveMakesRoom: reserve(k) leaves k bytes free.
* Refinement: the Buffer implements the byte FIFO.

Each property of a passing run has a mutant in `PROJECT.json`: a plausible
bug in the definition the property is about, which TLC then reports as a
violation. Examples are an AddOperation that drops the operation on its
early returns, a reserve that does not move the unread bytes to the front,
a CreateOperation that shares the OpenSSL key instead of releasing it, and
an RSA import that records RSA_size without `* 8`.

### Bounds, and why they are enough

**`op_table`**

* A table of 2 entries fills after two Begins. So the run reaches
  TOO_MANY_OPERATIONS, the reuse of a freed entry, and an operation sitting
  in a second entry behind a first one. The last is the case a short scan or
  a stale handle gets wrong.
* 3 handles and 3 operation objects let a Begin come after a release and
  after the table fills. Handles are drawn fresh, so three handles serve
  three operations.
* The destructor may run in any state, so it meets tables with zero, one
  and two live operations, some of them behind an entry already freed.
* There are three algorithms:
  * HMAC has a key factory and a SIGN operation factory.
  * AES has a key factory and an ENCRYPT factory.
  * RSA has neither.

  So Begin and the queries reach every branch: no key factory, no operation
  factory, and success.
* The version run has one table entry and two queries, algorithms and
  version: one GetVersion step shows the mismatch.

**`key_blobs`**

* Two keys, and two application ids with one application data. These give a
  blob with and without each hidden input, plus a wrong id.
* Blobs whose policy is spliced onto the other key's material.
* Descriptions that carry an ORIGIN, a ROOT_OF_TRUST or a CREATION_DATETIME,
  an unregistered algorithm, and no algorithm.

**`hmac`**

* Two clients, so that a sign and a verify interleave.
* MAC_LENGTH values 12 (not a multiple of 8), 128 (truncated) and 256 (too
  long for SHA1), plus an absent MAC_LENGTH.
* Key digests SHA1, MD5 (unsupported) and none.
* Invented signatures of 0, 16 and 21 bytes. 21 is longer than a SHA1
  digest.
* Symmetry over the clients is sound: nothing in the code tells two clients
  apart.

**`key_factories`**

* Descriptions of up to three tags over algorithms {RSA, ECDSA, 7
  (unregistered)}, sizes {128, 192, 224, 256, 1024, 2048} and exponents {3, 65537}.
  128 and 256 are the byte lengths of the RSA keys imported, which
  RsaKey::ImportKey accepts as KEY_SIZE.
* DSA descriptions with none, some or all of g, p and q.
* Five importable keys, one of which is an algorithm mismatch.
* Both key formats.
* Both ECDSA generators (`EcdsaBuilds`): EcdsaKeyFactory from `unnamed/part_000`,
  whose default size is 224 and which has no 192-bit curve, and the older
  EcdsaKey from `asymmetric_key.cpp`, whose default is 192 and which maps 192
  to prime192v1. KeyCharacterised compares the curve with the bits of the
  named curve (`NamedCurveBits`), not with the code's own get_group_size.
  The two violation runs keep only EcdsaKeyFactory, the one the
  `unnamed/part_000` build uses.
* RSA and ECDSA descriptions with and without DIGEST (NONE or SHA_2_256)
  and PADDING NONE, so CreateOperation reaches both refusals and success.
* `MaxKeyOps = 2` CreateOperation calls per Key: the second call on one Key
  is the one where the OpenSSL key has already been handed over, and a
  LoadKey between two calls restores it.

These are enough to reach every default, every comparison with the imported
key, and each OpenSSL failure.

**`buffer`**

* `MaxSize = 3` and two byte values. Reads, writes and reserves then
  interleave so that `rpos > 0` when reserve moves the unread bytes to the
  front.
* Wire inputs of length prefix 0-2 with 0-2 bytes after them. This includes
  short inputs.

### Fairness

No run assumes fairness, and no run checks liveness.

* The façade does nothing on its own: each step is a client's request.
  Whether a client ever finishes its operation is up to the client. A
  client that never calls Finish holds its table entry forever, and that is
  the intended behaviour, so no liveness property follows from the code.
* Buffer and the factories are called synchronously and cannot block.
* Deadlock is checked in every run, because requests are always enabled.
  In `op_table` the destructor ends service; the destroyed keymaster then
  stutters, as a finished program does.

## Findings

* **Version negotiation** (`unnamed/part_002:59`, `version_negotiation`).
  GetVersion reports 1.0.0 (composite 0x10000), but MessageVersion maps only
  0x100 to message version 1, so a client following the documented protocol
  gets -1, and KeymasterMessage's constructor asserts `ver >= 0`. The
  specification (4.8) says 1.0.0 is message version 1.
* **Constant nonce** (`android_softkeymaster.h:54`, `key_blob_nonce`).
  GenerateNonce returns all zeros and the master key is constant, so every
  blob reuses one AEAD key and nonce. The specification asks for a fresh
  nonce.
* **Client-supplied creation time** (`rsa_key.cpp:612`,
  `key_blob_datetime`). SetAuthorizations rejects a client's ORIGIN and
  ROOT_OF_TRUST, but keeps its CREATION_DATETIME ahead of the stamped one.
* **Empty HMAC signature** (`hmac_operation.cpp:173`, `hmac_forgery`).
  VERIFY compares only as many bytes as the signature has, so an empty
  signature verifies any input.
* **RSA import size in bytes** (`rsa_key.cpp:98`, `key_import_size`).
  RsaKey::ImportKey compares a stated KEY_SIZE with RSA_size(), which is in
  bytes, although when KEY_SIZE is absent it records RSA_size()*8 (bits).
* **No 192-bit curve** (`unnamed/part_000:147`, `ecdsa_curve_sizes`).
  EcdsaKeyFactory::choose_group has no 192-bit case. The specification and
  the older test EcdsaAllValidSizes (`unnamed/part_003`) expect prime192v1;
  the newer copy of that test (`unnamed/part_004`) lists only 224-521.
* **Double delete** (`google_keymaster_utils.cpp:105`,
  `buffer_double_delete`). A truncated input makes Buffer::Deserialize leave
  a dangling `buffer_`, which the destructor deletes a second time. Only a
  Buffer that already holds an array is exposed (a new one holds NULL), and
  the failing copy is assumed to leave `buffer_` alone: that helper is not
  in `src/`.

## Plan

In order of importance:

1. **Compose** the façade's key and operation halves. Begin would load the
   blobs KeyBlobFacade seals, so a property could relate a Begin's success
   to the hidden inputs of the key's creation.
2. **Messages**: the response deserialization built on Buffer, once the
   serialization code is in the repository.
3. **Liveness** under client fairness (every begun operation is eventually
   finished or aborted), if a client model is added.

## Not modelled

* **OpenSSL itself.** Every crypto result is a nondeterministic choice.
* **Message serialization layout, and logging.**
* **The OpenSSL error translation table**, a pure mapping with no state.
* **The handle collision** of AddOperation (`rsa_key.cpp:655`): a
  repeated 64-bit RAND_bytes value would give two live operations one
  handle. The model draws fresh handles; the hazard is listed in
  `PROJECT.json`, as are a Key's second CreateOperation (an OK Operation on a
  NULL key) and the leak of the old array in Buffer::reserve, which no
  property states.
* **AES**, which has no implementation in `src/`.
* **The RSA and ECDSA sign and verify operations**, which are not in `src/`.
* **The RsaKey half of the revision in `asymmetric_key.cpp`.** Its
  RsaKey::GenerateKey and ImportKey are line for line those of `rsa_key.cpp`,
  which are modelled; its EcdsaKey generator is modelled beside the newer
  factory. Its DsaKey and EcdsaKey constructors and CreateOperation have the
  shape of the RsaKey ones already modelled.
* **AddRngEntropy and MasterKey** of AndroidSoftKeymaster: the first only
  feeds OpenSSL's pool, the second is a constant the AEAD model abstracts.
* **`aes_operation.h`, `google_keymaster.h` and `logger.h`**: declarations
  and macros. The one body in them, AesOcbOperation::Abort, returns OK and
  has no implementation behind it in `src/`.
* **The Key base constructor** (`key.cpp`): it copies a blob's two sets into
  `authorizations_`, which the KeyFactories Key does not carry.
* **Tests and build files.**
