------------------------- MODULE AndroidSoftKeymaster -------------------------
(***************************************************************************)
(* What AndroidSoftKeymaster (src/android_softkeymaster.h) supplies to the *)
(* GoogleKeymaster façade: the root of trust its constructor builds and    *)
(* the is_enforced policy.  MCKeyBlobFacade gives KeyBlobFacade's          *)
(* RootOfTrust and EnforcedTags these values; GenerateNonce is modelled in *)
(* KeyBlobFacade.                                                          *)
(***************************************************************************)

\* The constructor: root_of_trust is ROOT_OF_TRUST with the 2 bytes "SW".
root_of_trust == "SW"

\* is_enforced answers FALSE for every tag: a software keymaster enforces
\* nothing, so every authorization is reported as unenforced.
is_enforced(tag) == FALSE

\* The tags of a set of tags that is_enforced answers TRUE for.
EnforcedOf(tags) == {t \in tags : is_enforced(t)}

=============================================================================
