---------------------------- MODULE OperationTable ----------------------------
(***************************************************************************)
(* The operation table of GoogleKeymaster (google_keymaster.cpp, which the *)
(* repository carries inside src/rsa_key.cpp): a fixed array of            *)
(* OpTableEntry {handle, operation}, with the four request handlers that   *)
(* use it.                                                                 *)
(*                                                                         *)
(* Data abstraction: an operation object is its creation number (0 is the *)
(* NULL pointer); a key blob is its algorithm and whether it unseals; what *)
(* the crypto back end answers is a choice over CryptoErrors and OK.  The  *)
(* random handle drawn by RAND_bytes is a choice over Handles and 0.  When *)
(* FreshHandles is TRUE the draw never repeats a live or released handle,  *)
(* which is what 64 random bits give in practice; when FALSE it may.       *)
(***************************************************************************)
EXTENDS Integers, FiniteSets, KeymasterMessages

CONSTANTS
  TableSize,          \* operation_table_size given to the constructor
  Handles,            \* non-zero values RAND_bytes may produce
  MaxOps,             \* bound: operation objects created in one behaviour
  FreshHandles,       \* TRUE: the draw repeats no live or released handle
  CryptoErrors,       \* errors CreateOperation / Begin / Update / Finish return
  Algorithms,         \* algorithms a key blob may carry
  Purposes,           \* purposes a client may request
  OperationFactories, \* OperationFactoryRegistry: <<algorithm, purpose>> pairs
  KeyFactories,       \* KeyFactoryRegistry: algorithms with a key factory
  Queries             \* the Supported* requests a client may send

ASSUME /\ TableSize \in Nat \ {0}
       /\ MaxOps \in Nat
       /\ 0 \notin Handles
       /\ FreshHandles \in BOOLEAN
       /\ "OK" \notin CryptoErrors
       /\ OperationFactories \subseteq Algorithms \X Purposes
       /\ KeyFactories \subseteq Algorithms

VARIABLES
  table,     \* operation_table_: slot -> [handle, op]
  nextOp,    \* number the next operation object will carry
  resp,      \* response of the last request handled
  retired,   \* history: handles released by Update, Finish or Abort
  answer,    \* response of the last query: query, alg, purpose, err, ver
  freed,     \* operation object -> how many times it has been deleted
  alive      \* FALSE once the GoogleKeymaster has been destroyed

vars == <<table, nextOp, resp, retired, answer, freed, alive>>

Slots == 0 .. TableSize - 1
NoOp == 0
NotFound == -1
EmptyEntry == [handle |-> 0, op |-> NoOp]
KeyBlobs == [alg : Algorithms, intact : BOOLEAN]
BeginErrors ==
  {"INVALID_KEY_BLOB", "UNSUPPORTED_ALGORITHM", "UNSUPPORTED_PURPOSE", "UNKNOWN_ERROR"}
    \cup CryptoErrors
\* The version GetVersion reports: MAJOR_VER, MINOR_VER, SUBMINOR_VER.
KeymasterVersion == <<1, 0, 0>>

\* Queries that name a purpose and go through GetSupported.
PurposeQueries == {"block_modes", "padding_modes", "digests"}
\* The arguments a query takes: SupportedAlgorithms none, the format
\* queries an algorithm, the others an algorithm and a purpose.
QueryAlgs(q) == IF q \in {"algorithms", "version"} THEN {"none"} ELSE Algorithms
QueryPurposes(q) == IF q \in PurposeQueries THEN Purposes ELSE {"none"}

OccupiedSlots == {s \in Slots : table[s].op # NoOp}
FreeSlots == Slots \ OccupiedSlots
LiveHandles == {table[s].handle : s \in OccupiedSlots}
FirstOf(S) == CHOOSE s \in S : \A t \in S : s <= t
Ops == 1 .. MaxOps
TableOps == {table[s].op : s \in OccupiedSlots}

\* delete of an operation object (UniquePtr going out of scope included).
Release(o) == freed' = [freed EXCEPT ![o] = @ + 1]

Respond(call, err, h, target) ==
  resp' = [call |-> call, err |-> err, handle |-> h, target |-> target]

\* The value RAND_bytes writes into the handle.
HandleDraws ==
  {0} \cup IF FreshHandles THEN Handles \ (LiveHandles \cup retired) ELSE Handles

(***************************************************************************)
(* Mutants: each is the definition after it with one plausible bug.        *)
(***************************************************************************)
DeleteOperationKeepsHandle(s) ==
  [table EXCEPT ![s].op = NoOp]

AddOperationScanShort(op) ==
  LET scanned == {s \in FreeSlots : s < TableSize - 1} IN
  \/ /\ Respond("begin", "UNKNOWN_ERROR", 0, NoOp)
     /\ UNCHANGED table /\ Release(op)
  \/ \E h \in HandleDraws :
       \/ /\ h = 0
          /\ Respond("begin", "UNKNOWN_ERROR", h, NoOp)
          /\ UNCHANGED table /\ Release(op)
       \/ /\ h # 0 /\ scanned = {}
          /\ Respond("begin", "TOO_MANY_OPERATIONS", h, NoOp)
          /\ UNCHANGED table /\ Release(op)
       \/ /\ h # 0 /\ scanned # {}
          /\ table' = [table EXCEPT ![FirstOf(scanned)] = [handle |-> h, op |-> op]]
          /\ Respond("begin", "OK", h, op)
          /\ UNCHANGED freed

\* AddOperation taking a raw pointer: the early returns drop the operation
\* without deleting it.
AddOperationLeaks(op) ==
  /\ \/ /\ Respond("begin", "UNKNOWN_ERROR", 0, NoOp)
        /\ UNCHANGED table
     \/ \E h \in HandleDraws :
          \/ /\ h = 0
             /\ Respond("begin", "UNKNOWN_ERROR", h, NoOp)
             /\ UNCHANGED table
          \/ /\ h # 0 /\ FreeSlots = {}
             /\ Respond("begin", "TOO_MANY_OPERATIONS", h, NoOp)
             /\ UNCHANGED table
          \/ /\ h # 0 /\ FreeSlots # {}
             /\ table' = [table EXCEPT ![FirstOf(FreeSlots)] = [handle |-> h, op |-> op]]
             /\ Respond("begin", "OK", h, op)
  /\ UNCHANGED freed

AddOperationFillsFirst(op) ==
  \/ /\ Respond("begin", "UNKNOWN_ERROR", 0, NoOp)
     /\ UNCHANGED table /\ Release(op)
  \/ \E h \in HandleDraws :
       \/ /\ FreeSlots = {}
          /\ Respond("begin", "TOO_MANY_OPERATIONS", h, NoOp)
          /\ UNCHANGED table /\ Release(op)
       \/ /\ FreeSlots # {}
          /\ table' = [table EXCEPT ![FirstOf(FreeSlots)] = [handle |-> h, op |-> op]]
          /\ Respond("begin", IF h = 0 THEN "UNKNOWN_ERROR" ELSE "OK", h, op)
          /\ UNCHANGED freed

(***************************************************************************)
(* The table and its helpers.                                              *)
(***************************************************************************)

\* GoogleKeymaster(operation_table_size): every entry {0, NULL}.
Init ==
  /\ table = [s \in Slots |-> EmptyEntry]
  /\ nextOp = 1
  /\ resp = [call |-> "none", err |-> "OK", handle |-> 0, target |-> NoOp]
  /\ retired = {}
  /\ answer = [query |-> "none", alg |-> "none", purpose |-> "none", err |-> "OK",
               ver |-> <<>>]
  /\ freed = [o \in Ops |-> 0]
  /\ alive = TRUE

\* FindOperation: handle 0 is never found; otherwise the first entry whose
\* handle matches.
FindOperation(h) ==
  LET hits == {s \in Slots : table[s].handle = h}
  IN IF h = 0 \/ hits = {} THEN NotFound ELSE FirstOf(hits)

\* DeleteOperation: destroy the operation and zero the entry.
DeleteOperation(s) ==
  [table EXCEPT ![s] = EmptyEntry]

\* AddOperation: draw the handle (RAND_bytes may fail, or yield 0), then
\* store the operation in the first free entry.  The drawn value is written
\* to the response before the table is scanned.  The operation is held in a
\* UniquePtr, so every early return deletes it.
AddOperation(op) ==
  \/ /\ Respond("begin", "UNKNOWN_ERROR", 0, NoOp)
     /\ UNCHANGED table /\ Release(op)
  \/ \E h \in HandleDraws :
       \/ /\ h = 0
          /\ Respond("begin", "UNKNOWN_ERROR", h, NoOp)
          /\ UNCHANGED table /\ Release(op)
       \/ /\ h # 0 /\ FreeSlots = {}
          /\ Respond("begin", "TOO_MANY_OPERATIONS", h, NoOp)
          /\ UNCHANGED table /\ Release(op)
       \/ /\ h # 0 /\ FreeSlots # {}
          /\ table' = [table EXCEPT ![FirstOf(FreeSlots)] = [handle |-> h, op |-> op]]
          /\ Respond("begin", "OK", h, op)
          /\ UNCHANGED freed

\* LoadKey / LoadKeyBlob: the blob unseals only if its AEAD tag verifies
\* under the hidden authorizations the client supplies, and its algorithm
\* needs a key factory to become a Key.
LoadKeyError(blob) ==
  CASE ~blob.intact -> "INVALID_KEY_BLOB"
    [] blob.alg \notin KeyFactories -> "UNSUPPORTED_ALGORITHM"
    [] OTHER -> "OK"

\* GetOperationFactory / OperationFactoryRegistry::Get: a factory exists
\* for the <<algorithm, purpose>> pair.
GetOperationFactory(alg, purpose) == <<alg, purpose>> \in OperationFactories

\* The error a Supported* query answers with.  SupportedAlgorithms lists
\* the key factories and cannot fail; the format queries only run
\* check_supported; the others run GetSupported, which also needs an
\* operation factory.  SetResults copies with new[], which throws rather
\* than returning NULL.
SupportedError(query, alg, purpose) ==
  CASE query \in {"algorithms", "version"} -> "OK"
    [] alg \notin KeyFactories -> "UNSUPPORTED_ALGORITHM"
    [] query \in PurposeQueries /\ ~GetOperationFactory(alg, purpose) -> "UNSUPPORTED_PURPOSE"
    [] OTHER -> "OK"

(***************************************************************************)
(* Request handlers.                                                       *)
(***************************************************************************)

BeginOperation(blob, purpose) ==
  /\ \/ /\ LoadKeyError(blob) # "OK"
        /\ Respond("begin", LoadKeyError(blob), 0, NoOp)
        /\ UNCHANGED <<table, nextOp, freed>>
     \/ /\ LoadKeyError(blob) = "OK"
        /\ ~GetOperationFactory(blob.alg, purpose)
        /\ Respond("begin", "UNSUPPORTED_PURPOSE", 0, NoOp)
        /\ UNCHANGED <<table, nextOp, freed>>
     \/ /\ LoadKeyError(blob) = "OK"
        /\ GetOperationFactory(blob.alg, purpose)
        /\ \E err \in CryptoErrors : Respond("begin", err, 0, NoOp)
        /\ UNCHANGED <<table, nextOp, freed>>
     \/ /\ LoadKeyError(blob) = "OK"
        /\ GetOperationFactory(blob.alg, purpose)
        /\ nextOp <= MaxOps
        /\ nextOp' = nextOp + 1
        /\ \/ /\ \E err \in CryptoErrors : Respond("begin", err, 0, NoOp)
              /\ UNCHANGED table
              /\ Release(nextOp)
           \/ AddOperation(nextOp)
  /\ UNCHANGED <<retired, answer, alive>>

UpdateOperation(h) ==
  LET s == FindOperation(h) IN
  /\ \/ /\ s = NotFound
        /\ Respond("update", "INVALID_OPERATION_HANDLE", h, NoOp)
        /\ UNCHANGED <<table, retired, freed>>
     \/ /\ s # NotFound
        /\ Respond("update", "OK", h, table[s].op)
        /\ UNCHANGED <<table, retired, freed>>
     \/ /\ s # NotFound
        /\ \E err \in CryptoErrors : Respond("update", err, h, table[s].op)
        /\ table' = DeleteOperation(s)
        /\ Release(table[s].op)
        /\ retired' = retired \cup {h}
  /\ UNCHANGED <<nextOp, answer, alive>>

FinishOperation(h) ==
  LET s == FindOperation(h) IN
  /\ \/ /\ s = NotFound
        /\ Respond("finish", "INVALID_OPERATION_HANDLE", h, NoOp)
        /\ UNCHANGED <<table, retired, freed>>
     \/ /\ s # NotFound
        /\ \E err \in CryptoErrors \cup {"OK"} : Respond("finish", err, h, table[s].op)
        /\ table' = DeleteOperation(s)
        /\ Release(table[s].op)
        /\ retired' = retired \cup {h}
  /\ UNCHANGED <<nextOp, answer, alive>>

\* Every Operation::Abort in the repository returns KM_ERROR_OK.
AbortOperation(h) ==
  LET s == FindOperation(h) IN
  /\ \/ /\ s = NotFound
        /\ Respond("abort", "INVALID_OPERATION_HANDLE", h, NoOp)
        /\ UNCHANGED <<table, retired, freed>>
     \/ /\ s # NotFound
        /\ Respond("abort", "OK", h, table[s].op)
        /\ table' = DeleteOperation(s)
        /\ Release(table[s].op)
        /\ retired' = retired \cup {h}
  /\ UNCHANGED <<nextOp, answer, alive>>

\* SupportedAlgorithms, SupportedBlockModes, SupportedPaddingModes,
\* SupportedDigests, SupportedImportFormats, SupportedExportFormats: read
\* the registries, touch no operation.  GetVersion answers the version
\* constants.
Supported(query, alg, purpose) ==
  /\ answer' = [query |-> query, alg |-> alg, purpose |-> purpose,
                err |-> SupportedError(query, alg, purpose),
                ver |-> IF query = "version" THEN KeymasterVersion ELSE <<>>]
  /\ UNCHANGED <<table, nextOp, resp, retired, freed, alive>>

\* ~GoogleKeymaster: delete the operation of every entry that holds one.
\* The entries themselves are not cleared; the object is gone.
Destroy ==
  /\ alive
  /\ alive' = FALSE
  /\ freed' = [o \in Ops |-> IF o \in TableOps THEN freed[o] + 1 ELSE freed[o]]
  /\ UNCHANGED <<table, nextOp, resp, retired, answer>>

\* Nothing is served by a destroyed keymaster: the behaviour stutters.
Destroyed ==
  /\ ~alive
  /\ UNCHANGED vars

Next ==
  \/ /\ alive
     /\ \/ \E blob \in KeyBlobs, p \in Purposes : BeginOperation(blob, p)
        \/ \E h \in Handles \cup {0} :
             UpdateOperation(h) \/ FinishOperation(h) \/ AbortOperation(h)
        \/ \E q \in Queries :
             \E a \in QueryAlgs(q) : \E p \in QueryPurposes(q) : Supported(q, a, p)
  \/ Destroy
  \/ Destroyed

Spec == Init /\ [][Next]_vars

(***************************************************************************)
(* Properties.                                                             *)
(***************************************************************************)

\* Type of the state, with the representation invariant of the table the
\* data model states: an entry has handle 0 exactly when it holds no
\* operation (DeleteOperation must clear both).
TypeOK ==
  /\ table \in [Slots -> [handle : Handles \cup {0}, op : 0 .. MaxOps]]
  /\ \A s \in Slots : (table[s].op = NoOp) <=> (table[s].handle = 0)
  /\ nextOp \in 1 .. MaxOps + 1
  /\ retired \subseteq Handles
  /\ freed \in [Ops -> Nat]
  /\ alive \in BOOLEAN
  /\ answer.err \in {"OK", "UNSUPPORTED_ALGORITHM", "UNSUPPORTED_PURPOSE"}

\* Every operation object BeginOperation created is deleted exactly once
\* over the keymaster's life: while the keymaster lives, an operation is
\* either held by a table entry and never yet deleted, or deleted once
\* (failed Begin, an AddOperation early return, an Update error, Finish,
\* Abort); once ~GoogleKeymaster has run, every one has been deleted once.
\* A leak (an early return that drops the pointer) or a double delete (an
\* entry freed but still reachable) breaks it.
OperationsFreedOnce ==
  \A o \in 1 .. nextOp - 1 :
    freed[o] + (IF alive /\ o \in TableOps THEN 1 ELSE 0) = 1

\* A Begin that fails leaves the table exactly as it was: no entry is
\* filled by an operation the client was told does not exist.
FailedBeginLeavesTable ==
  [][resp'.call = "begin" /\ resp'.err # "OK" => table' = table]_vars

\* Version negotiation (the comment above MessageVersion: the client asks
\* GET_VERSION and constructs its requests for that version; spec 4.8:
\* 1.0.0 is message version 1): the version GetVersion reports maps to the
\* message version the implementation speaks, MAX_MESSAGE_VERSION.
VersionNegotiates ==
  answer.query = "version" =>
    MessageVersion(answer.ver[1], answer.ver[2], answer.ver[3]) = MAX_MESSAGE_VERSION

\* The table implements OperationSessions: a live handle is bound to the
\* operation its Begin created, released handles stay invalid, and
\* TOO_MANY_OPERATIONS is reported only when every entry is in use.
AbsSessions == [h \in LiveHandles |-> table[FindOperation(h)].op]

Abs == INSTANCE OperationSessions
         WITH sessions <- AbsSessions, Capacity <- TableSize,
              FailErrors <- BeginErrors

Refinement == Abs!Spec

=============================================================================
