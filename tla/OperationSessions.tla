-------------------------- MODULE OperationSessions --------------------------
(***************************************************************************)
(* What the keymaster's operation sessions promise a client, with no table *)
(* in sight: a set of live handles, each bound to the operation its Begin  *)
(* created.                                                                *)
(*                                                                         *)
(*  - Begin binds a handle that is not live and was never released, and  *)
(*    may report TOO_MANY_OPERATIONS only when Capacity sessions are live; *)
(*  - Update, Finish and Abort on a live handle act on that handle's own  *)
(*    operation; on any other handle they report INVALID_OPERATION_HANDLE *)
(*    and change nothing;                                                  *)
(*  - Finish and Abort always release the handle, Update releases it      *)
(*    exactly when it fails.                                               *)
(*                                                                         *)
(* OperationTable implements this specification (see its Refinement).     *)
(***************************************************************************)
EXTENDS Naturals, FiniteSets

CONSTANTS
  Handles,     \* the non-zero handle values the random source can yield
  Capacity,    \* how many sessions may be live at once
  MaxOps,      \* bound on the number of operation objects ever created
  FailErrors   \* the errors other than the two the session layer decides

ASSUME Capacity \in Nat /\ MaxOps \in Nat /\ 0 \notin Handles

VARIABLES
  sessions,    \* live handle -> id of the operation bound to it
  resp,        \* the response to the last request
  nextOp,      \* id the next operation object will get
  retired      \* handles released so far (history)

vars == <<sessions, resp, nextOp, retired>>

NoOp == 0
Calls == {"none", "begin", "update", "finish", "abort"}
Errors == {"OK", "INVALID_OPERATION_HANDLE", "TOO_MANY_OPERATIONS"} \cup FailErrors

Live == DOMAIN sessions

Respond(call, err, h, target) ==
  resp' = [call |-> call, err |-> err, handle |-> h, target |-> target]

Release(h) ==
  /\ sessions' = [x \in Live \ {h} |-> sessions[x]]
  /\ retired' = retired \cup {h}

Init ==
  /\ sessions = [x \in {} |-> NoOp]
  /\ resp = [call |-> "none", err |-> "OK", handle |-> 0, target |-> NoOp]
  /\ nextOp = 1
  /\ retired = {}

BeginOk ==
  \E h \in Handles \ (Live \cup retired) :
    /\ Cardinality(Live) < Capacity
    /\ nextOp <= MaxOps
    /\ sessions' = [x \in Live \cup {h} |-> IF x = h THEN nextOp ELSE sessions[x]]
    /\ nextOp' = nextOp + 1
    /\ Respond("begin", "OK", h, nextOp)
    /\ UNCHANGED retired

\* A failed Begin may have built (and destroyed) an operation object; the
\* handle it reports is meaningless.
BeginFails ==
  \E err \in FailErrors \cup {"TOO_MANY_OPERATIONS"}, h \in Handles \cup {0},
    n \in {nextOp, nextOp + 1} :
    /\ err = "TOO_MANY_OPERATIONS" => Cardinality(Live) = Capacity
    /\ n <= MaxOps + 1
    /\ nextOp' = n
    /\ Respond("begin", err, h, NoOp)
    /\ UNCHANGED <<sessions, retired>>

Unknown(call, h) ==
  /\ h \notin Live
  /\ Respond(call, "INVALID_OPERATION_HANDLE", h, NoOp)
  /\ UNCHANGED <<sessions, nextOp, retired>>

Update(h) ==
  \/ Unknown("update", h)
  \/ /\ h \in Live
     /\ Respond("update", "OK", h, sessions[h])
     /\ UNCHANGED <<sessions, nextOp, retired>>
  \/ /\ h \in Live
     /\ \E err \in FailErrors : Respond("update", err, h, sessions[h])
     /\ Release(h)
     /\ UNCHANGED nextOp

Finish(h) ==
  \/ Unknown("finish", h)
  \/ /\ h \in Live
     /\ \E err \in FailErrors \cup {"OK"} : Respond("finish", err, h, sessions[h])
     /\ Release(h)
     /\ UNCHANGED nextOp

Abort(h) ==
  \/ Unknown("abort", h)
  \/ /\ h \in Live
     /\ Respond("abort", "OK", h, sessions[h])
     /\ Release(h)
     /\ UNCHANGED nextOp

Next ==
  \/ BeginOk
  \/ BeginFails
  \/ \E h \in Handles \cup {0} : Update(h) \/ Finish(h) \/ Abort(h)

Spec == Init /\ [][Next]_vars

=============================================================================
