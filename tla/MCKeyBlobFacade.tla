--------------------------- MODULE MCKeyBlobFacade ---------------------------
(***************************************************************************)
(* Key descriptions for checking KeyBlobFacade: keys bound to an           *)
(* application id (with and without application data), a key with no      *)
(* hidden inputs, one with a client-supplied CREATION_DATETIME, and the    *)
(* descriptions SetAuthorizations or the registry must reject.             *)
(***************************************************************************)
EXTENDS KeyBlobFacade, AndroidSoftKeymaster

MCDescriptions == {
  <<Param("ALGORITHM", "RSA"), Param("APPLICATION_ID", "a1")>>,
  <<Param("ALGORITHM", "RSA"), Param("APPLICATION_ID", "a1"),
    Param("APPLICATION_DATA", "d1")>>,
  <<Param("ALGORITHM", "EC"), Param("PURPOSE", "SIGN")>>,
  <<Param("ALGORITHM", "EC"), Param("CREATION_DATETIME", "t0")>>,
  <<Param("ALGORITHM", "RSA"), Param("ORIGIN", "SOFTWARE")>>,
  <<Param("ALGORITHM", "EC"), Param("ROLLBACK_RESISTANT", "true"),
    Param("ROOT_OF_TRUST", "SW")>>,
  <<Param("ALGORITHM", "DSA")>>,
  <<Param("APPLICATION_ID", "a1")>>
}

\* AndroidSoftKeymaster's is_enforced over every tag the descriptions use.
MCEnforcedTags ==
  EnforcedOf({p.tag : p \in UNION {ToSet(d) : d \in MCDescriptions}})

=============================================================================
