--------------------------- MODULE MCOperationTable ---------------------------
(***************************************************************************)
(* Model-checking instance of OperationTable: a table of two entries, so   *)
(* that a third concurrent Begin meets a full table, and an operation      *)
(* factory registry in which one <<algorithm, purpose>> pair is missing.   *)
(***************************************************************************)
EXTENDS OperationTable

\* HMAC keys sign (hmac_operation.cpp registers SIGN and VERIFY factories);
\* AES keys encrypt; neither registry holds HMAC/ENCRYPT or AES/SIGN.
MCOperationFactories == {<<"HMAC", "SIGN">>, <<"AES", "ENCRYPT">>}

=============================================================================
