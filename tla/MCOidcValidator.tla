--------------------------- MODULE MCOidcValidator ---------------------------
(***************************************************************************)
(* Instances of OidcValidator: one issuer whose key set is rotated while   *)
(* backends validate tokens of the new key and of one that stays.          *)
(***************************************************************************)
EXTENDS OidcValidator, MCHttpClient, MCJson

CONSTANTS tInfo, tBare, tKeys2, tBroken, tError

MCUrls == {"iss/info", "iss/keys"}
MCRotation == [u \in MCUrls |-> IF u = "iss/info" THEN <<tInfo, tBare>> ELSE <<tKeys1>>]
MCInfoUrls == {"iss/info"}
MCWithInfoEnd == [i \in {"iss"} |-> "iss/info"]

\* tBare names no key set; the error page is a key set, with the key that is
\* to come.
MCDiscoveryOf ==
  [t \in Bodies |-> [object |-> t # tError,
                     jwks_uri |-> IF t = tInfo THEN Str("iss/keys") ELSE Absent]]

SigningKey(kid, m) ==
  [type |-> "object", use |-> Str("sig"), kid |-> Str(kid), kty |-> Str("RSA"),
   alg |-> Absent, complete |-> TRUE, crv |-> "none", material |-> m]

MCJwksOf ==
  [t \in Bodies |->
     [valid |-> t \notin {tInfo, tBare},
      keys |-> CASE t = tKeys1 -> <<SigningKey("k1", "m1"), SigningKey("k0", "m0")>>
                 [] t = tKeys2 -> <<SigningKey("k0", "m0"), SigningKey("k2", "m2")>>
                 [] OTHER -> <<SigningKey("k2", "m2")>>]]

MCOneWord == [s \in {"db"} |-> {s}]
MCNone == [s \in {} |-> s]

\* The address of the discovery document given as override; or made from the
\* issuer.
MCHbas == [issuer : {"iss"}, override : {"iss/info"}, scope : {"db"}, authn_field : {"sub"}]
MCPlainHbas == [issuer : {"iss"}, override : {""}, scope : {"db"}, authn_field : {"sub"}]

PlainClaims ==
  [iss : {Str("iss")}, exp : {Absent}, iat : {Absent}, nbf : {Absent},
   sub : {Str("alice")}, scp : {Absent}, scope : {Str("db")}]

\* The tokens signed with one key.
TokensSignedBy(kid, m) ==
  [decodes : {TRUE}, kid : {Str(kid)}, alg : {"RS256"}, signer : {m}, claims : PlainClaims]

MCTokens == TokensSignedBy("k0", "m0") \cup TokensSignedBy("k2", "m2")
MCOneToken == TokensSignedBy("k0", "m0")

\* The clock stands still: a lookup can meet no expired entry, after which
\* ValidationEnds would claim nothing.
LiveNext ==
  \/ (\E u \in Urls : Publish(u)) /\ UNCHANGED session
  \/ \E b \in Backends :
       \/ ValidatorStep(b)
       \/ ValidatorShutdown(b)
       \/ \E hba \in Hbas, token \in Tokens : ValidateToken(b, hba, token)

LiveSpec == ValidatorInit /\ [][LiveNext]_validatorVars /\ ValidatorFairness
=============================================================================
