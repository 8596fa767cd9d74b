-------------------------- MODULE KeymasterMessages --------------------------
(***************************************************************************)
(* The version arithmetic of the keymaster messages (src/unnamed/part_002, *)
(* google_keymaster_messages.h).  A client asks GET_VERSION, maps the      *)
(* major.minor.subminor it gets to a message version with MessageVersion,  *)
(* and constructs its requests with that version; the implementation       *)
(* always speaks MAX_MESSAGE_VERSION.  The serialization of the messages   *)
(* (google_keymaster_messages.cpp) is not in the repository.               *)
(***************************************************************************)
EXTENDS Integers, Bitwise

MAX_MESSAGE_VERSION == 1

\* MessageVersion: the composite (major << 16) | (minor << 8) | subminor,
\* then 0x000 is version 0, 0x100 version 1, anything else -1.  The
\* arguments are uint8_t, so the three fields never overlap.
MessageVersion(major_ver, minor_ver, subminor_ver) ==
  LET composite_ver == (major_ver * 2^16) | ((minor_ver * 2^8) | subminor_ver)
  IN CASE composite_ver = 0 -> 0
       [] composite_ver = 256 -> 1
       [] OTHER -> -1

=============================================================================
