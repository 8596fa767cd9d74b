---------------------------- MODULE MCKeyFactories ----------------------------
(***************************************************************************)
(* Key descriptions and imported keys for checking KeyFactories.  A        *)
(* description states ALGORITHM, KEY_SIZE and RSA_PUBLIC_EXPONENT or       *)
(* leaves each out, and a DSA description states any of g, p and q.        *)
(***************************************************************************)
EXTENDS KeyFactories

Entry(t, vs) == IF vs = {} THEN <<>> ELSE <<[tag |-> t, val |-> CHOOSE v \in vs : TRUE]>>
Opt(S) == {{}} \cup {{v} : v \in S}

Described(Algs, Sizes, Exps) ==
  {Entry("ALGORITHM", a) \o Entry("KEY_SIZE", s) \o Entry("RSA_PUBLIC_EXPONENT", e) :
     a \in Opt(Algs), s \in Opt(Sizes), e \in Opt(Exps)}

\* DSA descriptions with every subset of g (1024 bits), p (1024 bits) and
\* q (160 bits).
DsaDescribed(Sizes) ==
  {<<[tag |-> "ALGORITHM", val |-> KM_ALGORITHM_DSA]>> \o Entry("KEY_SIZE", s)
     \o Entry("DSA_GENERATOR", g) \o Entry("DSA_P", p) \o Entry("DSA_Q", q) :
     s \in Opt(Sizes), g \in Opt({1024}), p \in Opt({1024}), q \in Opt({160})}

\* RSA and ECDSA descriptions with and without DIGEST and PADDING, for
\* the Key's CreateOperation.
OpDescribed ==
  {<<[tag |-> "ALGORITHM", val |-> a]>> \o Entry("DIGEST", d) \o Entry("PADDING", p) :
     a \in {KM_ALGORITHM_RSA, KM_ALGORITHM_ECDSA}, d \in Opt({"NONE", "SHA_2_256"}),
     p \in Opt({"NONE"})}

\* KEY_SIZE values are bit lengths clients use, and 128 and 256, the byte
\* lengths of the RSA keys below (RsaKey::ImportKey compares KEY_SIZE with
\* bytes, so those imports succeed).
MCDescriptions ==
  Described({KM_ALGORITHM_RSA, KM_ALGORITHM_ECDSA, 7}, {128, 192, 224, 256, 1024, 2048}, {3, 65537})
  \cup DsaDescribed({1024}) \cup OpDescribed

MCImportKeys ==
  {[NoKey EXCEPT !.alg = KM_ALGORITHM_RSA, !.bits = 1024, !.e = 65537],
   [NoKey EXCEPT !.alg = KM_ALGORITHM_RSA, !.bits = 2048, !.e = 3],
   [NoKey EXCEPT !.alg = KM_ALGORITHM_ECDSA, !.curve = "secp224r1"],
   [NoKey EXCEPT !.alg = KM_ALGORITHM_ECDSA, !.curve = "prime192v1"],
   [NoKey EXCEPT !.alg = KM_ALGORITHM_DSA, !.params = <<1024, 1024, 160>>]}

\* The import of spec scenario 8.3.2: a 1024-bit RSA key, with KEY_SIZE
\* stated in bits or in bytes.
MCRsaImportDescriptions ==
  Described({KM_ALGORITHM_RSA}, {1024, 128}, {65537})
MCRsaImportKeys ==
  {[NoKey EXCEPT !.alg = KM_ALGORITHM_RSA, !.bits = 1024, !.e = 65537]}

\* Spec 8.2: every named-curve size, and 190.
MCEcdsaDescriptions ==
  Described({KM_ALGORITHM_ECDSA}, {190, 192, 224, 256, 384, 521}, {})

=============================================================================
