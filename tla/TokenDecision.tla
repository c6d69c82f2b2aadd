---------------------------- MODULE TokenDecision ----------------------------
(***************************************************************************)
(* One evaluation of a token against a key set, for every combination of   *)
(* the settings, key sets and tokens given, and what its result must mean. *)
(* The properties describe a correct decision without the loop, the early  *)
(* exits and the tables of TokenCheck.                                     *)
(***************************************************************************)
EXTENDS TokenCheck, Functions

CONSTANTS
  Settings,   \* [issuer, scope, authn_field]
  KeySets,    \* [valid, keys]
  Presented,  \* tokens: [decodes, kid, alg, signer, claims]
  Now         \* the current time

\* A member of a key: a string, a number, or a value told by its type.
Member == {<<t>> : t \in {"absent", "null", "true", "false", "array", "object"}}
            \cup ({"string"} \X STRING)
            \cup ({"number"} \X DOMAIN NumberText)

Key == [type : STRING, use : Member, kid : Member, kty : Member, alg : Member,
        complete : BOOLEAN, crv : STRING, material : STRING]

Supported == RsaAlgorithms \cup HmacAlgorithms \cup {c[1] : c \in EcCombinations}

\* No digits spell a name that the validator looks for.
ASSUME DecisionAssumption ==
  /\ KeySets \subseteq [valid : BOOLEAN, keys : Seq(Key)]
  /\ Now \in Nat
  /\ \A n \in DOMAIN NumberText :
       NumberText[n] \notin {"", "sig", "RSA", "EC", "oct"} \cup Supported

VARIABLES hba, jwks, token, result

decisionVars == <<hba, jwks, token, result>>

Pending == [Denied EXCEPT !.authn = <<"pending">>]

DecisionInit ==
  /\ hba \in Settings
  /\ jwks \in KeySets
  /\ token \in Presented
  /\ result = Pending

DecideToken ==
  /\ result = Pending
  /\ result' = Decide(hba, jwks, token, Now)
  /\ UNCHANGED <<hba, jwks, token>>

DecisionSpec == DecisionInit /\ [][DecideToken]_decisionVars

-----------------------------------------------------------------------------
(* The reference *)

Done == result # Pending

\* The family of keys an algorithm belongs to, and its curve.
KeyTypeOf(alg) ==
  IF alg \in RsaAlgorithms THEN "RSA"
  ELSE IF alg \in HmacAlgorithms THEN "oct" ELSE "EC"

CurveOf(alg) ==
  CHOOSE c \in {"P-256", "P-384", "P-521", "none"} :
    IF \E d \in EcCombinations : d[1] = alg THEN <<alg, c>> \in EcCombinations
                                            ELSE c = "none"

WellFormed(key) == key.type = "object" /\ key.use # Absent /\ key.kid # Absent

\* The key is published for signatures under the token's kid, and it is made
\* for the token's algorithm.
Vouches(key, t) ==
  /\ WellFormed(key)
  /\ key.complete
  /\ t.alg \in Supported
  /\ key.use = <<"string", "sig">>
  /\ ToStr(key.kid) = ToStr(t.kid)
  /\ key.kty = <<"string", KeyTypeOf(t.alg)>>
  /\ \/ key.alg = <<"string", t.alg>>
     \/ t.alg = "RS256" /\ key.alg \in {Absent, <<"string", "">>}
  /\ key.kty = <<"string", "EC">> => key.crv = CurveOf(t.alg)

SignedBy(key, t) == Vouches(key, t) /\ key.material = t.signer

\* A missing date excludes nothing, a date that is not a number everything.
InTime(t) ==
  LET Times(d) == IF t.claims[d] = Absent THEN {Now}
                  ELSE IF t.claims[d][1] = "number" THEN {t.claims[d][2]} ELSE {}
  IN  \E from \in Times("nbf"), issued \in Times("iat"), to \in Times("exp") :
        from <= Now /\ issued <= Now /\ Now <= to

Keys == {jwks.keys[i] : i \in DOMAIN jwks.keys}

\* Every scope of pg_hba.conf is granted by the token; with Entra ID by its
\* short name, and "openid" without being named.
Granted(s) ==
  \/ s \in ReceivedScopes(token)
  \/ /\ IssuerIsAzure(hba.issuer)
     /\ s = "openid" \/ (s \in Slashed /\ AfterSlash[s] \in ReceivedScopes(token))

-----------------------------------------------------------------------------
(* Properties *)

\* validate_token sets authorized only for a token that decodes, whose signature
\* a key published for its kid and its algorithm made, that the configured
\* issuer issued, that is within its dates and that carries the claim given as
\* the user's name; and, except for scopes without a short name under Entra ID,
\* every configured scope is granted.
AuthorizedMeansVerified ==
  result.authorized =>
    /\ result.returned
    /\ token.decodes /\ token.kid[1] = "string"
    /\ \E key \in Keys : SignedBy(key, token)
    /\ token.claims.iss = <<"string", ExpectedIssuer(hba.issuer)>>
    /\ InTime(token)
    /\ token.claims[hba.authn_field] # Absent
    /\ result.authn = <<"string", ToStr(token.claims[hba.authn_field])>>
    /\ \A s \in Words[hba.scope] :
         ~IssuerIsAzure(hba.issuer) \/ s \in Slashed => Granted(s)

\* Conversely a good token is accepted whatever else the key set holds behind
\* the token's key, and whatever well-formed keys stand before it.
GoodTokenAccepted ==
  /\ Done
  /\ jwks.valid
  /\ token.decodes /\ token.kid[1] = "string"
  /\ ~IssuerIsAzure(hba.issuer) \/ hba.issuer \in DOMAIN TenantOf
  /\ token.claims.iss = <<"string", ExpectedIssuer(hba.issuer)>>
  /\ InTime(token)
  /\ token.claims[hba.authn_field] # Absent
  /\ \A s \in Words[hba.scope] : Granted(s)
  /\ \E i \in DOMAIN jwks.keys :
       /\ SignedBy(jwks.keys[i], token)
       /\ \A j \in 1..i - 1 :
            /\ WellFormed(jwks.keys[j])
            /\ jwks.keys[j].use # <<"string", "sig">> \/ ToStr(jwks.keys[j].kid) # ToStr(token.kid)
  => result.authorized

\* The order in which a provider lists its keys does not matter, as long as
\* they are well-formed and signing keys have different kids.
KeyOrderIrrelevant ==
  /\ Done
  /\ \A key \in Keys : WellFormed(key)
  /\ \A i, j \in DOMAIN jwks.keys :
       /\ jwks.keys[i].use = <<"string", "sig">>
       /\ jwks.keys[j].use = <<"string", "sig">>
       /\ ToStr(jwks.keys[i].kid) = ToStr(jwks.keys[j].kid)
       => i = j
  => \A p \in Bijection(DOMAIN jwks.keys, DOMAIN jwks.keys) :
       Decide(hba, [jwks EXCEPT !.keys = [i \in DOMAIN jwks.keys |-> jwks.keys[p[i]]]],
              token, Now) = result

\* Unless pg_hba.conf says scope="", authorized means that every configured
\* scope is granted (README.md:101-102, jwk.cpp:224-225).
ScopesGranted ==
  result.authorized => \A s \in Words[hba.scope] : Granted(s)
=============================================================================
