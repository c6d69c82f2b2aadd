----------------------------- MODULE TokenCheck -----------------------------
(***************************************************************************)
(* What the validator computes from a token, a key set and the settings:   *)
(* the functions of src/jwk.cpp, the checks of jwt-cpp's verifier that     *)
(* they configure, and the part of validate_token that has everything      *)
(* fetched (src/pg_oidc_validator.cpp, from jwt::decode on).               *)
(*                                                                         *)
(* A JSON value is a tuple that starts with its type: <<"string", s>>,     *)
(* <<"number", n>>, <<"array", seq>>, <<"true">>, ...; a missing member is *)
(* Absent.  Strings are atoms; how they split is given by the constants.   *)
(* A signature is the algorithm and the key material that made it.         *)
(***************************************************************************)
EXTENDS Integers, Sequences

CONSTANTS
  Words,         \* string -> the set of its blank-separated words
  Slashed,       \* strings with text after their last '/'
  AfterSlash,    \* ... and that text
  LoginIssuers,  \* issuers with "login.microsoftonline.com" in them
  StsIssuers,    \* issuers with "sts.windows.net" in them
  TenantOf,      \* the tenant id, for the issuers that have one
  StsIssuerOf,   \* tenant id -> "https://sts.windows.net/<tenant>/"
  NumberText     \* number -> the digits printf writes for it

Absent == <<"absent">>

\* picojson::value::to_str: a string itself, the digits of a number, "true" or
\* "false", and of null, an array or an object the name of its type.
ToStr(v) ==
  IF v[1] = "string" THEN v[2] ELSE IF v[1] = "number" THEN NumberText[v[2]] ELSE v[1]

-----------------------------------------------------------------------------
(* jwk.cpp: keys *)

RsaAlgorithms  == {"RS256", "RS384", "RS512", "PS256", "PS384", "PS512"}
EcCombinations == {<<"ES256", "P-256">>, <<"ES384", "P-384">>, <<"ES512", "P-521">>}
HmacAlgorithms == {"HS256", "HS384", "HS512"}

KeyAlg(key) == IF key.alg = Absent THEN "" ELSE ToStr(key.alg)

\* The algorithm that configure_rsa_key, configure_ec_key or configure_hmac_key
\* allows for a key; none if they throw.  A key without alg is taken for RS256
\* if it is an RSA key and is unsupported otherwise.
ConfigureRsaKey(key) ==
  {a \in RsaAlgorithms : KeyAlg(key) = a \/ (KeyAlg(key) = "" /\ a = "RS256")}

ConfigureEcKey(key) ==
  {c[1] : c \in {d \in EcCombinations : d = <<KeyAlg(key), key.crv>>}}

ConfigureHmacKey(key) == HmacAlgorithms \cap {KeyAlg(key)}

ConfigureKey(key) ==
  IF ~key.complete \/ key.kty = Absent
  THEN {}  \* a component is missing or not decodable
  ELSE {a \in ConfigureRsaKey(key) : ToStr(key.kty) = "RSA"}
         \cup {a \in ConfigureEcKey(key) : ToStr(key.kty) = "EC"}
         \cup {a \in ConfigureHmacKey(key) : ToStr(key.kty) = "oct"}

\* The loop over the keys stops at the first that is malformed or that is a
\* signing key with the token's kid.
StopsAnyUse(key, kid) ==  \* faulty: takes keys that are not for signatures
  \/ key.type # "object"
  \/ key.use = Absent
  \/ key.kid = Absent \/ ToStr(key.kid) = kid

StopsAtFirst(key, kid) ==  \* faulty: does not compare kids
  \/ key.type # "object"
  \/ key.use = Absent
  \/ ToStr(key.use) = "sig"

StopsUnsupported(key, kid) ==  \* faulty: minds keys it does not need
  \/ key.type # "object"
  \/ key.use = Absent
  \/ ToStr(key.use) = "sig" /\ (key.kid = Absent \/ ToStr(key.kid) = kid)
  \/ ConfigureKey(key) = {}

Stops(key, kid) ==
  \/ key.type # "object"
  \/ key.use = Absent
  \/ ToStr(key.use) = "sig" /\ (key.kid = Absent \/ ToStr(key.kid) = kid)

\* The key at which it stops; none if it comes to the end.
StopKey(keys, kid) ==
  {keys[i] : i \in {n \in DOMAIN keys : /\ Stops(keys[n], kid)
                                        /\ \A m \in 1..n - 1 : ~Stops(keys[m], kid)}}

-----------------------------------------------------------------------------
(* jwk.cpp: issuers and the verifier *)

IssuerIsAzure(issuer) == issuer \in LoginIssuers \cup StsIssuers

\* convert_azure_issuer_to_jwt_format, where extract_azure_tenant_id succeeds.
ConvertAzureIssuer(issuer) ==
  IF issuer \in LoginIssuers THEN StsIssuerOf[TenantOf[issuer]] ELSE issuer

ExpectedIssuer(issuer) ==
  IF IssuerIsAzure(issuer) THEN ConvertAzureIssuer(issuer) ELSE issuer

NoVerifier == [ok |-> FALSE, iss |-> "", algs |-> {}]  \* an exception

ConfigureVerifier(issuer, jwks, kid) ==
  IF (IssuerIsAzure(issuer) /\ issuer \notin DOMAIN TenantOf) \/ ~jwks.valid
  THEN NoVerifier
  ELSE LET iss  == ExpectedIssuer(issuer)
           stop == StopKey(jwks.keys, kid)
       IN  IF stop = {}
           THEN [ok |-> TRUE, iss |-> iss, algs |-> {}]
           ELSE LET key == CHOOSE k \in stop : TRUE
                IN  IF \/ key.type # "object"
                       \/ key.use = Absent
                       \/ key.kid = Absent
                       \/ ConfigureKey(key) = {}
                    THEN NoVerifier
                    ELSE [ok |-> TRUE, iss |-> iss,
                          algs |-> {[name |-> a, material |-> key.material] : a \in ConfigureKey(key)}]

\* The claim checks every jwt::verifier starts with: dates count only when
\* present, and an ill-typed one throws.
DatesValid(claims, now) ==
  /\ claims.exp = Absent \/ (claims.exp[1] = "number" /\ now <= claims.exp[2])
  /\ \A d \in {"iat", "nbf"} :
       claims[d] = Absent \/ (claims[d][1] = "number" /\ now >= claims[d][2])

\* jwt::verifier::verify: the algorithm, the signature, then the claims.
Verify(verifier, token, now) ==
  /\ \E a \in verifier.algs : a.name = token.alg /\ a.material = token.signer
  /\ token.claims.iss = <<"string", verifier.iss>>
  /\ DatesValid(token.claims, now)

-----------------------------------------------------------------------------
(* jwk.cpp: scopes *)

ParseJwtScopes(v) ==
  CASE v[1] = "array"  -> {ToStr(v[2][i]) : i \in DOMAIN v[2]}
    [] v[1] = "string" -> Words[v[2]]
    [] OTHER -> {}

ReceivedScopes(token) ==
  ParseJwtScopes(token.claims.scp) \cup ParseJwtScopes(token.claims.scope)

AzureScopesMatch(required, received) ==
  \A s \in required :
    \/ s = "openid"
    \/ s \in received
    \/ s \in Slashed => AfterSlash[s] \in received

-----------------------------------------------------------------------------
(* validate_token, from jwt::decode on *)

Denied == [returned |-> FALSE, authorized |-> FALSE, authn |-> Absent]

Authorized(hba, token) ==
  LET required == Words[hba.scope]
      received == ReceivedScopes(token)
  IN  \/ required = {}
      \/ IF IssuerIsAzure(hba.issuer) THEN AzureScopesMatch(required, received)
                                      ELSE required \subseteq received

Decide(hba, jwks, token, now) ==
  IF ~token.decodes \/ token.kid[1] # "string"
  THEN Denied
  ELSE LET verifier == ConfigureVerifier(hba.issuer, jwks, token.kid[2])
           claim    == token.claims[hba.authn_field]
       IN  IF ~verifier.ok \/ ~Verify(verifier, token, now) \/ claim = Absent
           THEN Denied
           ELSE [returned |-> TRUE, authorized |-> Authorized(hba, token),
                 authn |-> <<"string", ToStr(claim)>>]
=============================================================================
