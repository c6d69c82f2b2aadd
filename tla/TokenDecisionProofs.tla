------------------------- MODULE TokenDecisionProofs -------------------------
(***************************************************************************)
(* Proofs about the decision of validate_token, for key sets of any length *)
(* with any keys, and any tokens, settings and times.                      *)
(*                                                                         *)
(* The specification takes one step, so the invariant is simply that the   *)
(* result is still pending or is what Decide computes.  The work is in     *)
(* what Decide computes: that the loop over the keys finds the one key     *)
(* which matters, and that the tables of algorithms, types and curves      *)
(* agree with the reference.                                               *)
(***************************************************************************)
EXTENDS TokenDecision, TLAPS, WellFoundedInduction

DInv ==
  /\ jwks \in KeySets
  /\ result \in {Pending, Decide(hba, jwks, token, Now)}

\* The invariant holds.
LEMMA DecisionInductive == DecisionSpec => []DInv
<1>1. DecisionInit => DInv
  BY DEF DecisionInit, DInv
<1>2. DInv /\ [DecideToken]_decisionVars => DInv'
  BY DEF DInv, DecideToken, decisionVars
<1> QED
  BY <1>1, <1>2, PTL DEF DecisionSpec

\* Nothing that is pending is authorized, and Denied is nothing else.
LEMMA Outcomes == Pending.authorized = FALSE /\ Denied.authorized = FALSE /\ Pending # Denied
BY DEF Pending, Denied, Absent

-----------------------------------------------------------------------------
(* Keys                                                                     *)

\* No algorithm is called like a type.
LEMMA AlgorithmNames ==
  ASSUME NEW a \in Supported
  PROVE  a # "" /\ a \notin {"absent", "null", "true", "false", "array", "object"}
<1>1. \A c \in EcCombinations : c[1] \in {"ES256", "ES384", "ES512"}
  BY DEF EcCombinations
<1>2. a \in RsaAlgorithms \/ a \in HmacAlgorithms \/ a \in {"ES256", "ES384", "ES512"}
  BY <1>1 DEF Supported
<1> QED
  BY <1>2 DEF RsaAlgorithms, HmacAlgorithms

\* The parts of a pair.
LEMMA PairParts ==
  ASSUME NEW S, NEW T, NEW v \in S \X T
  PROVE  v[1] \in S /\ v[2] \in T /\ v = <<v[1], v[2]>>
OBVIOUS

\* to_str by the type of the value.
LEMMA ToStrByType ==
  /\ \A v : v[1] = "string" => ToStr(v) = v[2]
  /\ \A v : v[1] = "number" => ToStr(v) = NumberText[v[2]]
  /\ \A v : v[1] \notin {"string", "number"} => ToStr(v) = v[1]
BY DEF ToStr

\* A string is there, and to_str gives it.
LEMMA StringMember ==
  ASSUME NEW s
  PROVE  /\ <<"string", s>> # Absent /\ ToStr(<<"string", s>>) = s
         /\ \A r : <<"string", r>> = <<"string", s>> => r = s
<1>1. <<"string", s>>[1] = "string" /\ <<"string", s>>[2] = s /\ Absent[1] = "absent"
  BY DEF Absent
<1>2. \A r : <<"string", r>>[2] = r
  OBVIOUS
<1> QED
  BY <1>1, <1>2 DEF ToStr

\* to_str of a member gives a name the validator looks for only if the member
\* is that string.
LEMMA MemberString ==
  ASSUME NEW v \in Member, NEW s \in {"", "sig", "RSA", "EC", "oct"} \cup Supported,
         ToStr(v) = s
  PROVE  v = <<"string", s>>
<1>1. s \notin {"absent", "null", "true", "false", "array", "object"}
  BY AlgorithmNames
<1>2. CASE v \in {"string"} \X STRING
  <2>1. v = <<"string", v[2]>>
    BY <1>2, PairParts, Zenon
  <2>2. ToStr(<<"string", v[2]>>) = v[2]
    BY StringMember
  <2> QED
    BY <2>1, <2>2, Zenon
<1>3. CASE v \in {"number"} \X DOMAIN NumberText
  <2>1. v[1] = "number" /\ v[2] \in DOMAIN NumberText
    BY <1>3, PairParts, Zenon
  <2>2. ToStr(v) = NumberText[v[2]]
    BY <2>1, ToStrByType
  <2> QED
    BY <2>1, <2>2, DecisionAssumption
<1>4. CASE v \in {<<t>> : t \in {"absent", "null", "true", "false", "array", "object"}}
  <2> PICK t \in {"absent", "null", "true", "false", "array", "object"} : v = <<t>>
    BY <1>4
  <2>1. v[1] = t
    OBVIOUS
  <2> QED
    BY <1>1, <2>1, ToStrByType
<1> QED
  BY <1>2, <1>3, <1>4 DEF Member

\* The algorithm of a key that is to be used with a given one.
LEMMA KeyAlgIs ==
  ASSUME NEW key \in Key, NEW a \in Supported, KeyAlg(key) = a
  PROVE  key.alg = <<"string", a>>
<1>1. a # ""
  BY AlgorithmNames
<1>2. key.alg \in Member /\ ToStr(key.alg) = a
  BY <1>1 DEF Key, KeyAlg
<1> QED
  BY <1>1, <1>2, MemberString

\* A key without algorithm.
LEMMA KeyAlgEmpty ==
  ASSUME NEW key \in Key, KeyAlg(key) = ""
  PROVE  key.alg \in {Absent, <<"string", "">>}
<1>1. key.alg \in Member
  BY DEF Key
<1> QED
  BY <1>1, MemberString DEF KeyAlg

\* The families of algorithms do not overlap, and every curve has its own.
LEMMA Families ==
  /\ \A a \in RsaAlgorithms : KeyTypeOf(a) = "RSA" /\ a \in Supported
  /\ \A a \in HmacAlgorithms : KeyTypeOf(a) = "oct" /\ a \in Supported
  /\ \A c \in EcCombinations :
       KeyTypeOf(c[1]) = "EC" /\ CurveOf(c[1]) = c[2] /\ c[1] \in Supported
<1>1. \A a \in RsaAlgorithms : KeyTypeOf(a) = "RSA" /\ a \in Supported
  BY DEF KeyTypeOf, Supported
<1>2. \A a \in HmacAlgorithms : KeyTypeOf(a) = "oct" /\ a \in Supported
  BY DEF KeyTypeOf, Supported, RsaAlgorithms, HmacAlgorithms
<1>3. \A c \in EcCombinations : KeyTypeOf(c[1]) = "EC" /\ c[1] \in Supported
  BY DEF KeyTypeOf, Supported, RsaAlgorithms, HmacAlgorithms, EcCombinations
<1>4. ASSUME NEW c \in EcCombinations PROVE CurveOf(c[1]) = c[2]
  <2>1. c = <<c[1], c[2]>> /\ c[2] \in {"P-256", "P-384", "P-521", "none"}
    BY DEF EcCombinations
  <2>2. \A e \in {"P-256", "P-384", "P-521", "none"} :
          <<c[1], e>> \in EcCombinations => e = c[2]
    BY DEF EcCombinations
  <2>3. CurveOf(c[1]) = CHOOSE e \in {"P-256", "P-384", "P-521", "none"} :
                          <<c[1], e>> \in EcCombinations
    BY DEF CurveOf
  <2> QED
    BY <2>1, <2>2, <2>3
<1> QED
  BY <1>1, <1>2, <1>3, <1>4

\* A well-formed signing key with the token's kid is configured for an
\* algorithm exactly if it vouches for tokens of that algorithm.
LEMMA ConfiguredVouches ==
  ASSUME NEW key \in Key, NEW t, WellFormed(key), ToStr(key.use) = "sig",
         ToStr(key.kid) = ToStr(t.kid)
  PROVE  t.alg \in ConfigureKey(key) <=> Vouches(key, t)
<1>1. key.use = <<"string", "sig">>
  BY MemberString DEF Key
<1>2. ASSUME t.alg \in ConfigureKey(key) PROVE Vouches(key, t)
  <2>1. key.complete /\ key.kty # Absent /\ key.kty \in Member
    BY <1>2 DEF ConfigureKey, Key
  <2>2. CASE ToStr(key.kty) = "RSA" /\ t.alg \in ConfigureRsaKey(key)
    <3>1. key.kty = <<"string", "RSA">> /\ t.alg \in RsaAlgorithms
      BY <2>1, <2>2, MemberString DEF ConfigureRsaKey
    <3>2. \/ key.alg = <<"string", t.alg>>
          \/ t.alg = "RS256" /\ key.alg \in {Absent, <<"string", "">>}
      BY <2>2, <3>1, Families, KeyAlgIs, KeyAlgEmpty DEF ConfigureRsaKey
    <3>3. key.kty # <<"string", "EC">>
      BY <3>1, StringMember
    <3> QED
      BY <1>1, <2>1, <3>1, <3>2, <3>3, Families DEF Vouches
  <2>3. CASE ToStr(key.kty) = "EC" /\ t.alg \in ConfigureEcKey(key)
    <3>1. PICK c \in EcCombinations : c = <<KeyAlg(key), key.crv>> /\ t.alg = c[1]
      BY <2>3 DEF ConfigureEcKey
    <3>2. c[1] = KeyAlg(key) /\ c[2] = key.crv
      BY <3>1
    <3>3. key.kty = <<"string", "EC">>
      BY <2>1, <2>3, MemberString
    <3>4. key.alg = <<"string", t.alg>>
      BY <3>1, <3>2, Families, KeyAlgIs
    <3> QED
      BY <1>1, <2>1, <3>1, <3>2, <3>3, <3>4, Families DEF Vouches
  <2>4. CASE ToStr(key.kty) = "oct" /\ t.alg \in ConfigureHmacKey(key)
    <3>1. key.kty = <<"string", "oct">> /\ t.alg \in HmacAlgorithms /\ KeyAlg(key) = t.alg
      BY <2>1, <2>4, MemberString DEF ConfigureHmacKey
    <3>2. key.alg = <<"string", t.alg>>
      BY <3>1, Families, KeyAlgIs
    <3> QED
      BY <1>1, <2>1, <3>1, <3>2, Families DEF Vouches
  <2> QED
    BY <1>2, <2>1, <2>2, <2>3, <2>4 DEF ConfigureKey
<1>3. ASSUME Vouches(key, t) PROVE t.alg \in ConfigureKey(key)
  <2>1. /\ key.complete /\ key.kty = <<"string", KeyTypeOf(t.alg)>> /\ t.alg \in Supported
        /\ \/ key.alg = <<"string", t.alg>>
           \/ t.alg = "RS256" /\ key.alg \in {Absent, <<"string", "">>}
        /\ key.kty = <<"string", "EC">> => key.crv = CurveOf(t.alg)
    BY <1>3 DEF Vouches
  <2>2. key.kty # Absent /\ ToStr(key.kty) = KeyTypeOf(t.alg)
    BY <2>1, StringMember
  <2>3. KeyAlg(key) = t.alg \/ (t.alg = "RS256" /\ KeyAlg(key) = "")
    BY <2>1, StringMember DEF KeyAlg
  <2>4. CASE t.alg \in RsaAlgorithms
    BY <2>1, <2>2, <2>3, <2>4, Families DEF ConfigureKey, ConfigureRsaKey
  <2>5. CASE t.alg \in HmacAlgorithms
    <3>1. t.alg # "RS256"
      BY <2>5 DEF HmacAlgorithms
    <3> QED
      BY <2>1, <2>2, <2>3, <2>5, <3>1, Families DEF ConfigureKey, ConfigureHmacKey
  <2>6. CASE t.alg \in {c[1] : c \in EcCombinations}
    <3>1. PICK c \in EcCombinations : c[1] = t.alg
      BY <2>6
    <3>2. t.alg # "RS256" /\ c = <<c[1], c[2]>>
      BY <3>1 DEF EcCombinations
    <3>3. KeyTypeOf(t.alg) = "EC" /\ CurveOf(t.alg) = c[2]
      BY <3>1, Families
    <3>4. c = <<KeyAlg(key), key.crv>>
      BY <2>1, <2>3, <3>1, <3>2, <3>3
    <3>5. t.alg \in ConfigureEcKey(key)
      BY <3>1, <3>4 DEF ConfigureEcKey
    <3> QED
      BY <2>1, <2>2, <3>3, <3>5 DEF ConfigureKey
  <2> QED
    BY <2>1, <2>4, <2>5, <2>6 DEF Supported
<1> QED
  BY <1>2, <1>3

-----------------------------------------------------------------------------
(* The verifier                                                             *)

JwksType == [valid : BOOLEAN, keys : Seq(Key)]

\* The key stands for this algorithm of a verifier for kid.
StandsFor(key, kid, a) ==
  /\ key \in Key
  /\ WellFormed(key)
  /\ ToStr(key.use) = "sig" /\ ToStr(key.kid) = kid
  /\ a.name \in ConfigureKey(key) /\ a.material = key.material

\* A verifier allows only what one key of the set, a signing key with the
\* token's kid, is configured for.
LEMMA VerifierAllows ==
  ASSUME NEW issuer, NEW set \in JwksType, NEW kid,
         ConfigureVerifier(issuer, set, kid).ok,
         NEW a \in ConfigureVerifier(issuer, set, kid).algs
  PROVE  /\ ConfigureVerifier(issuer, set, kid).iss = ExpectedIssuer(issuer)
         /\ \E i \in DOMAIN set.keys : StandsFor(set.keys[i], kid, a)
<1> DEFINE stop == StopKey(set.keys, kid)
           key == CHOOSE k \in stop : TRUE
<1>1. NoVerifier.ok = FALSE
  BY DEF NoVerifier
<1>2. ~((IssuerIsAzure(issuer) /\ issuer \notin DOMAIN TenantOf) \/ ~set.valid)
  BY <1>1 DEF ConfigureVerifier
<1>3. stop # {}
  BY <1>2 DEF ConfigureVerifier
<1>4. ~(key.type # "object" \/ key.use = Absent \/ key.kid = Absent \/ ConfigureKey(key) = {})
  BY <1>1, <1>2, <1>3 DEF ConfigureVerifier
<1>5. ConfigureVerifier(issuer, set, kid) =
        [ok |-> TRUE, iss |-> ExpectedIssuer(issuer),
         algs |-> {[name |-> n, material |-> key.material] : n \in ConfigureKey(key)}]
  BY <1>2, <1>3, <1>4 DEF ConfigureVerifier
<1>6. key \in stop
  BY <1>3
<1> HIDE DEF key
<1>7. PICK i \in DOMAIN set.keys : key = set.keys[i] /\ Stops(set.keys[i], kid)
  BY <1>6 DEF StopKey
<1>8. set.keys[i] \in Key
  BY DEF JwksType
<1>9. ToStr(key.use) = "sig" /\ ToStr(key.kid) = kid
  BY <1>4, <1>7 DEF Stops
<1>10. a.name \in ConfigureKey(key) /\ a.material = key.material
  BY <1>5
<1> QED
  BY <1>4, <1>5, <1>7, <1>8, <1>9, <1>10 DEF StandsFor, WellFormed

\* The verifier's checks of dates are those of the reference.
LEMMA DatesInTime == ASSUME NEW t PROVE DatesValid(t.claims, Now) <=> InTime(t)
<1> DEFINE Times(d) == IF t.claims[d] = Absent THEN {Now}
                       ELSE IF t.claims[d][1] = "number" THEN {t.claims[d][2]} ELSE {}
           Before(d) == t.claims[d] = Absent \/ (t.claims[d][1] = "number" /\ t.claims[d][2] <= Now)
           After(d) == t.claims[d] = Absent \/ (t.claims[d][1] = "number" /\ Now <= t.claims[d][2])
<1>1. InTime(t) <=> \E from \in Times("nbf"), issued \in Times("iat"), to \in Times("exp") :
                      from <= Now /\ issued <= Now /\ Now <= to
  BY DEF InTime
<1>2. Now <= Now
  <2>1. Now \in Nat
    BY DecisionAssumption
  <2> QED
    BY <2>1
<1>3. \A d : Before(d) <=> \E x \in Times(d) : x <= Now
  BY <1>2
<1>4. \A d : After(d) <=> \E x \in Times(d) : Now <= x
  BY <1>2
<1>5. DatesValid(t.claims, Now) <=> Before("nbf") /\ Before("iat") /\ After("exp")
  BY DEF DatesValid
<1> HIDE DEF Times, Before, After
<1> QED
  BY <1>1, <1>3, <1>4, <1>5

\* A key that the loop stops at and that is configured is the only one.
LEMMA StopKeyUnique ==
  ASSUME NEW keys \in Seq(Key), NEW kid, NEW i \in DOMAIN keys, Stops(keys[i], kid),
         \A j \in 1..i - 1 : ~Stops(keys[j], kid)
  PROVE  StopKey(keys, kid) = {keys[i]}
<1>1. DOMAIN keys \subseteq Nat \ {0}
  OBVIOUS
<1>2. ASSUME NEW n \in DOMAIN keys, Stops(keys[n], kid), \A m \in 1..n - 1 : ~Stops(keys[m], kid)
      PROVE  n = i
  <2>1. ~(n < i) /\ ~(i < n)
    BY <1>1, <1>2
  <2> QED
    BY <1>1, <2>1
<1>3. i \in {n \in DOMAIN keys : Stops(keys[n], kid) /\ \A m \in 1..n - 1 : ~Stops(keys[m], kid)}
  OBVIOUS
<1> QED
  BY <1>2, <1>3 DEF StopKey

-----------------------------------------------------------------------------
(* What follows                                                             *)

\* validate_token authorizes only what it verified (pg_oidc_validator.cpp:
\* 96-168, jwk.cpp:124-183): the signature by a key published for the token's
\* kid and algorithm, the issuer, the dates, the user's claim and the scopes.
THEOREM VerifiedWhenAuthorized == DecisionSpec => []AuthorizedMeansVerified
<1>1. ASSUME DInv PROVE AuthorizedMeansVerified
  <2> SUFFICES ASSUME result.authorized
               PROVE  /\ result.returned
                      /\ token.decodes /\ token.kid[1] = "string"
                      /\ \E key \in Keys : SignedBy(key, token)
                      /\ token.claims.iss = <<"string", ExpectedIssuer(hba.issuer)>>
                      /\ InTime(token)
                      /\ token.claims[hba.authn_field] # Absent
                      /\ result.authn = <<"string", ToStr(token.claims[hba.authn_field])>>
                      /\ \A s \in Words[hba.scope] :
                           ~IssuerIsAzure(hba.issuer) \/ s \in Slashed => Granted(s)
    BY DEF AuthorizedMeansVerified
  <2> DEFINE verifier == ConfigureVerifier(hba.issuer, jwks, token.kid[2])
             claim == token.claims[hba.authn_field]
  <2>1. result = Decide(hba, jwks, token, Now) /\ result # Denied /\ jwks \in JwksType
    BY <1>1, Outcomes, DecisionAssumption DEF DInv, JwksType
  <2>2. token.decodes /\ token.kid[1] = "string"
    BY <2>1 DEF Decide
  <2>3. verifier.ok /\ Verify(verifier, token, Now) /\ claim # Absent
    BY <2>1, <2>2 DEF Decide
  <2>4. result = [returned |-> TRUE, authorized |-> Authorized(hba, token),
                  authn |-> <<"string", ToStr(claim)>>]
    BY <2>1, <2>2, <2>3 DEF Decide
  <2>5. result.returned /\ result.authn = <<"string", ToStr(claim)>> /\ Authorized(hba, token)
    BY <2>4
  <2> HIDE DEF verifier
  <2>6. PICK a \in verifier.algs : a.name = token.alg /\ a.material = token.signer
    BY <2>3 DEF Verify
  <2>7. PICK i \in DOMAIN jwks.keys : StandsFor(jwks.keys[i], token.kid[2], a)
    BY <2>1, <2>3, <2>6, VerifierAllows DEF verifier
  <2>8. SignedBy(jwks.keys[i], token)
    <3>1. ToStr(token.kid) = token.kid[2]
      BY <2>2 DEF ToStr
    <3> QED
      BY <2>6, <2>7, <3>1, ConfiguredVouches DEF SignedBy, StandsFor
  <2>9. verifier.iss = ExpectedIssuer(hba.issuer)
    BY <2>1, <2>3, <2>6, VerifierAllows DEF verifier
  <2>10. token.claims.iss = <<"string", ExpectedIssuer(hba.issuer)>> /\ DatesValid(token.claims, Now)
    BY <2>3, <2>9 DEF Verify
  <2>11. InTime(token)
    BY <2>10, DatesInTime
  <2>12. ASSUME NEW s \in Words[hba.scope], ~IssuerIsAzure(hba.issuer) \/ s \in Slashed
         PROVE  Granted(s)
    BY <2>5, <2>12 DEF Authorized, AzureScopesMatch, Granted
  <2> QED
    BY <2>2, <2>3, <2>5, <2>7, <2>8, <2>10, <2>11, <2>12 DEF Keys
<1> QED
  BY <1>1, DecisionInductive, PTL

\* Nothing but the first key that matters decides: a good token is accepted
\* whatever keys follow its own, and whatever well-formed ones precede it
\* (jwk.cpp:145-180).
THEOREM GoodTokens == DecisionSpec => []GoodTokenAccepted
<1>1. ASSUME DInv PROVE GoodTokenAccepted
  <2> SUFFICES ASSUME Done, jwks.valid, token.decodes, token.kid[1] = "string",
                      ~IssuerIsAzure(hba.issuer) \/ hba.issuer \in DOMAIN TenantOf,
                      token.claims.iss = <<"string", ExpectedIssuer(hba.issuer)>>,
                      InTime(token), token.claims[hba.authn_field] # Absent,
                      \A s \in Words[hba.scope] : Granted(s),
                      NEW i \in DOMAIN jwks.keys, SignedBy(jwks.keys[i], token),
                      \A j \in 1..i - 1 :
                        /\ WellFormed(jwks.keys[j])
                        /\ \/ jwks.keys[j].use # <<"string", "sig">>
                           \/ ToStr(jwks.keys[j].kid) # ToStr(token.kid)
               PROVE  result.authorized
    BY DEF GoodTokenAccepted
  <2> DEFINE key == jwks.keys[i]
             kid == token.kid[2]
             verifier == ConfigureVerifier(hba.issuer, jwks, kid)
  <2>1. result = Decide(hba, jwks, token, Now) /\ jwks \in JwksType /\ jwks.keys \in Seq(Key)
    BY <1>1, DecisionAssumption DEF DInv, JwksType, Done
  <2>2. DOMAIN jwks.keys \subseteq Nat /\ (\A j \in 1..i - 1 : j \in DOMAIN jwks.keys)
    BY <2>1
  <2>3. key \in Key /\ \A j \in 1..i - 1 : jwks.keys[j] \in Key
    BY <2>1, <2>2
  <2>4. ToStr(token.kid) = kid
    BY DEF ToStr
  <2>5. /\ WellFormed(key) /\ Vouches(key, token) /\ key.material = token.signer
        /\ ToStr(key.use) = "sig" /\ ToStr(key.kid) = kid
    BY <2>4, StringMember DEF SignedBy, Vouches
  <2>6. Stops(key, kid)
    BY <2>5 DEF Stops
  <2>7. \A j \in 1..i - 1 : ~Stops(jwks.keys[j], kid)
    <3> SUFFICES ASSUME NEW j \in 1..i - 1 PROVE ~Stops(jwks.keys[j], kid)
      OBVIOUS
    <3>1. jwks.keys[j].use \in Member
      BY <2>3 DEF Key
    <3>2. ToStr(jwks.keys[j].use) = "sig" => jwks.keys[j].use = <<"string", "sig">>
      BY <3>1, MemberString
    <3> QED
      BY <2>4, <3>2 DEF Stops, WellFormed
  <2>8. StopKey(jwks.keys, kid) = {key}
    BY <2>1, <2>6, <2>7, StopKeyUnique
  <2>9. token.alg \in ConfigureKey(key)
    BY <2>3, <2>4, <2>5, ConfiguredVouches
  <2>10. (CHOOSE k \in {key} : TRUE) = key
    OBVIOUS
  <2> HIDE DEF key, kid
  <2>11. verifier = [ok |-> TRUE, iss |-> ExpectedIssuer(hba.issuer),
                     algs |-> {[name |-> a, material |-> key.material] : a \in ConfigureKey(key)}]
    BY <2>5, <2>8, <2>9, <2>10 DEF ConfigureVerifier, WellFormed
  <2> HIDE DEF verifier
  <2>12. verifier.ok /\ verifier.iss = ExpectedIssuer(hba.issuer)
    BY <2>11
  <2>13. \E a \in verifier.algs : a.name = token.alg /\ a.material = token.signer
    <3>1. [name |-> token.alg, material |-> key.material] \in verifier.algs
      BY <2>9, <2>11
    <3> QED
      BY <2>5, <3>1
  <2>14. Verify(verifier, token, Now)
    BY <2>12, <2>13, DatesInTime DEF Verify
  <2>15. Authorized(hba, token)
    BY DEF Authorized, AzureScopesMatch, Granted
  <2>16. result = [returned |-> TRUE, authorized |-> Authorized(hba, token),
                   authn |-> <<"string", ToStr(token.claims[hba.authn_field])>>]
    BY <2>1, <2>12, <2>14 DEF Decide, verifier, kid
  <2> QED
    BY <2>15, <2>16
<1> QED
  BY <1>1, DecisionInductive, PTL

-----------------------------------------------------------------------------
(* The order of the keys                                                    *)

\* Every set of natural numbers that is not empty has a least element.
LEMMA LeastNatural ==
  ASSUME NEW S \in SUBSET Nat, S # {}
  PROVE  \E n \in S : \A m \in S : n <= m
<1>1. PICK n \in S : \A m \in S : ~(<<m, n>> \in OpToRel(<, Nat))
  BY NatLessThanWellFounded, WFMin
<1>2. \A m \in S : ~(m < n)
  BY <1>1 DEF OpToRel
<1> QED
  BY <1>2

\* If all the places where the loop could stop hold the same key, it stops at
\* that key, whichever of them comes first.
LEMMA StopKeyAnywhere ==
  ASSUME NEW keys \in Seq(Key), NEW kid, NEW i \in DOMAIN keys, Stops(keys[i], kid),
         \A n \in DOMAIN keys : Stops(keys[n], kid) => keys[n] = keys[i]
  PROVE  StopKey(keys, kid) = {keys[i]}
<1> DEFINE S == {n \in DOMAIN keys : Stops(keys[n], kid)}
<1>1. S \in SUBSET Nat /\ S # {}
  OBVIOUS
<1>2. PICK n \in S : \A m \in S : n <= m
  BY <1>1, LeastNatural
<1>3. \A m \in 1..n - 1 : m \in DOMAIN keys /\ ~Stops(keys[m], kid)
  BY <1>2
<1>4. StopKey(keys, kid) = {keys[n]}
  BY <1>2, <1>3, StopKeyUnique
<1> QED
  BY <1>2, <1>4

\* The loop runs through.
LEMMA StopKeyNone ==
  ASSUME NEW keys, NEW kid, \A n \in DOMAIN keys : ~Stops(keys[n], kid)
  PROVE  StopKey(keys, kid) = {}
BY DEF StopKey

\* The order in which a provider lists well-formed keys makes no difference
\* to the decision (jwk.cpp:145-180), if signing keys have different kids.
THEOREM OrderOfKeys == DecisionSpec => []KeyOrderIrrelevant
<1>1. ASSUME DInv PROVE KeyOrderIrrelevant
  <2> DEFINE K == jwks.keys
  <2> SUFFICES ASSUME Done, \A key \in Keys : WellFormed(key),
                      \A i, j \in DOMAIN K :
                        /\ K[i].use = <<"string", "sig">>
                        /\ K[j].use = <<"string", "sig">>
                        /\ ToStr(K[i].kid) = ToStr(K[j].kid)
                        => i = j,
                      NEW p \in Bijection(DOMAIN K, DOMAIN K)
               PROVE  Decide(hba, [jwks EXCEPT !.keys = [i \in DOMAIN K |-> K[p[i]]]], token, Now)
                        = result
    BY DEF KeyOrderIrrelevant
  <2> DEFINE L == [i \in DOMAIN K |-> K[p[i]]]
             moved == [jwks EXCEPT !.keys = L]
             kid == token.kid[2]
  <2>1. result = Decide(hba, jwks, token, Now) /\ jwks \in JwksType /\ K \in Seq(Key)
    BY <1>1, DecisionAssumption DEF DInv, JwksType, Done
  <2>2. /\ p \in [DOMAIN K -> DOMAIN K]
        /\ \A w \in DOMAIN K : \E v \in DOMAIN K : p[v] = w
    BY DEF Bijection, Surjection
  <2>3. L \in Seq(Key) /\ DOMAIN L = DOMAIN K /\ \A i \in DOMAIN K : L[i] = K[p[i]]
    <3>1. DOMAIN K = 1..Len(K) /\ Len(K) \in Nat /\ \A i \in DOMAIN K : K[p[i]] \in Key
      BY <2>1, <2>2
    <3>2. L = [i \in 1..Len(K) |-> K[p[i]]]
      BY <3>1
    <3>3. \A i \in 1..Len(K) : K[p[i]] \in Key
      BY <3>1
    <3> HIDE DEF K, L
    <3>4. L \in Seq(Key)
      BY <3>1, <3>2, <3>3
    <3> QED
      BY <3>1, <3>2, <3>4
  <2>4. moved.keys = L /\ moved.valid = jwks.valid
    BY <2>1 DEF JwksType
  <2> HIDE DEF K, L, moved, kid
  <2>5. \A i, j \in DOMAIN K : Stops(K[i], kid) /\ Stops(K[j], kid) => i = j
    <3> SUFFICES ASSUME NEW i \in DOMAIN K, NEW j \in DOMAIN K,
                        Stops(K[i], kid), Stops(K[j], kid)
                 PROVE  i = j
      OBVIOUS
    <3>1. WellFormed(K[i]) /\ WellFormed(K[j]) /\ K[i].use \in Member /\ K[j].use \in Member
      <4>1. WellFormed(K[i]) /\ WellFormed(K[j])
        BY DEF Keys, K
      <4>2. K[i] \in Key /\ K[j] \in Key
        BY <2>1
      <4> QED
        BY <4>1, <4>2 DEF Key
    <3>2. /\ ToStr(K[i].use) = "sig" /\ ToStr(K[j].use) = "sig"
          /\ ToStr(K[i].kid) = kid /\ ToStr(K[j].kid) = kid
      BY <3>1 DEF Stops, WellFormed
    <3>3. K[i].use = <<"string", "sig">> /\ K[j].use = <<"string", "sig">>
      BY <3>1, <3>2, MemberString
    <3> QED
      BY <3>2, <3>3
  <2>6. StopKey(K, kid) = StopKey(L, kid)
    <3>1. CASE \A i \in DOMAIN K : ~Stops(K[i], kid)
      <4>1. \A i \in DOMAIN L : ~Stops(L[i], kid)
        BY <2>2, <2>3, <3>1
      <4> QED
        BY <3>1, <4>1, StopKeyNone
    <3>2. ASSUME NEW i \in DOMAIN K, Stops(K[i], kid)
          PROVE  StopKey(K, kid) = StopKey(L, kid)
      <4>1. PICK v \in DOMAIN L : L[v] = K[i]
        BY <2>2, <2>3
      <4>2. \A n \in DOMAIN L : Stops(L[n], kid) => L[n] = L[v]
        BY <2>2, <2>3, <2>5, <3>2, <4>1
      <4>3. StopKey(L, kid) = {L[v]}
        BY <2>3, <3>2, <4>1, <4>2, StopKeyAnywhere
      <4>4. StopKey(K, kid) = {K[i]}
        BY <2>1, <2>5, <3>2, StopKeyAnywhere DEF K
      <4> QED
        BY <4>1, <4>3, <4>4
    <3> QED
      BY <3>1, <3>2
  <2>7. ConfigureVerifier(hba.issuer, moved, kid) = ConfigureVerifier(hba.issuer, jwks, kid)
    BY <2>4, <2>6 DEF ConfigureVerifier, K
  <2>8. Decide(hba, moved, token, Now) = Decide(hba, jwks, token, Now)
    BY <2>7 DEF Decide, kid
  <2> QED
    BY <2>1, <2>8 DEF moved, L, K
<1> QED
  BY <1>1, DecisionInductive, PTL
=============================================================================
