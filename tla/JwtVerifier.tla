----------------------------- MODULE JwtVerifier -----------------------------
(***************************************************************************)
(* jwt::verifier: a program sets it up call by call and then hands it      *)
(* tokens.  verify takes the checks in the order of an unordered_map, one  *)
(* step each here, while the clock runs.                                   *)
(***************************************************************************)
EXTENDS JwtClaims

CONSTANTS
  Texts,        \* the tokens that are handed in
  Algorithms,   \* the algorithms that can be allowed, records [name, key]
  Settings,     \* the other calls that set the verifier up, <<method, argument>>
  MaxSettings,  \* bound: calls that set the verifier up
  MaxClock      \* bound: ticks the clock makes

\* A number of a decoded token is a number of halves or of seconds.
NumbersWhole(jwt) ==
  \A name \in DOMAIN jwt.payload :
    jwt.payload[name][1] \in {"integer", "number"} => jwt.payload[name][2] \in Int

ASSUME VerifierAssumption ==
  /\ Ticks \in Nat \ {0}
  /\ MaxDate \in Nat
  /\ \A s \in Settings : s[1] \in {"leeway", "exp", "iat", "nbf"} => s[2] \in Nat
  /\ \A text \in Texts : Decode(text) # Thrown => NumbersWhole(Decode(text)[2])

VARIABLES
  clock,      \* system_clock::now()
  verifier,   \* claims: name -> check; leeway: default_leeway; algs: name -> key
  history,    \* the calls that set the verifier up, in order
  call        \* the call of verify: where it is, its token, its context

verifierVars == <<clock, verifier, history, call>>

Idle == [at |-> "idle", result |-> "none"]

\* The constructor's checks of dates, which count only if present.
DefaultDateCheck(claims, name, now, leeway) ==
  LET date == AsDate(claims[name])
  IN IF ~HasClaim(claims, name) THEN "ok"
     ELSE IF date = Thrown THEN "thrown"
     ELSE IF name = "exp" THEN IF ExpiredAt(now, date[2], leeway) THEN "token_expired" ELSE "ok"
     ELSE IF TooEarlyAt(now, date[2], leeway) THEN "token_expired" ELSE "ok"

VerifierInit ==
  /\ clock = 0
  /\ verifier = [claims |-> [name \in {"exp", "iat", "nbf"} |-> <<"default", 0>>],
                 leeway |-> 0,
                 algs   |-> <<>>]
  /\ history = <<>>
  /\ call = Idle

-----------------------------------------------------------------------------
(* Setting up                                                               *)

\* claims[name] = check
WithCheck(name, check) ==
  [verifier EXCEPT !.claims = [n \in DOMAIN verifier.claims \cup {name} |->
                                 IF n = name THEN check ELSE verifier.claims[n]]]

SettingUp(method) ==
  /\ call.at = "idle" /\ Len(history) < MaxSettings
  /\ method \in Settings
  /\ history' = Append(history, method)
  /\ UNCHANGED <<clock, call>>

LeewayForAll(l) ==                     \* faulty: makes the checks anew
  /\ SettingUp(<<"leeway", l>>)
  /\ verifier' = [verifier EXCEPT !.leeway = l,
                                  !.claims = [name \in {"exp", "iat", "nbf"} |-> <<"default", 0>>]]
Leeway(l) ==
  /\ SettingUp(<<"leeway", l>>)
  /\ verifier' = [verifier EXCEPT !.leeway = l]

\* expires_at_leeway, not_before_leeway and issued_at_leeway
DateLeeway(name, l) ==
  /\ SettingUp(<<name, l>>)
  /\ verifier' = WithCheck(name, <<IF name = "exp" THEN "date_before" ELSE "date_after", l>>)

\* with_type; its operation's constructor may throw
WithType(type) ==
  /\ SettingUp(<<"typ", type>>)
  /\ verifier' = IF ToLowerUnicode(type) = Thrown THEN verifier
                 ELSE WithCheck("typ", <<"insensitive", ToLowerUnicode(type)[2]>>)

WithAudience(aud) ==
  /\ SettingUp(<<"aud", aud>>)
  /\ verifier' = WithCheck("aud", <<"subset", aud>>)

\* with_claim for equality; with_issuer, with_subject, with_id
WithClaim(name, expected) ==
  /\ SettingUp(<<"claim", name, expected>>)
  /\ verifier' = WithCheck(name, <<"equals", expected>>)

KeepsFirstKey(a) ==                    \* faulty: insert, not assign
  /\ call.at = "idle" /\ Len(history) < MaxSettings
  /\ history' = Append(history, <<"allow", a>>)
  /\ verifier' = [verifier EXCEPT !.algs = [n \in DOMAIN verifier.algs \cup {a.name} |->
                    IF n \in DOMAIN verifier.algs THEN verifier.algs[n] ELSE a.key]]
  /\ UNCHANGED <<clock, call>>
AllowAlgorithm(a) ==
  /\ call.at = "idle" /\ Len(history) < MaxSettings
  /\ history' = Append(history, <<"allow", a>>)
  /\ verifier' = [verifier EXCEPT !.algs = [n \in DOMAIN verifier.algs \cup {a.name} |->
                    IF n = a.name THEN a.key ELSE verifier.algs[n]]]
  /\ UNCHANGED <<clock, call>>

SetUp ==
  \/ \E s \in Settings :
       \/ s[1] = "leeway" /\ Leeway(s[2])
       \/ s[1] \in {"exp", "nbf", "iat"} /\ DateLeeway(s[1], s[2])
       \/ s[1] = "typ" /\ WithType(s[2])
       \/ s[1] = "aud" /\ WithAudience(s[2])
       \/ s[1] = "claim" /\ WithClaim(s[2], s[3])
  \/ \E a \in Algorithms : AllowAlgorithm(a)

-----------------------------------------------------------------------------
(* verify                                                                   *)

\* jwt::decode, and verify up to the signature
VerifyStart(text) ==
  LET decoded == Decode(text)
      jwt     == decoded[2]
      alg     == As("string", GetClaim(jwt.header, "alg"))
      Return(result) == call' = [at |-> "returned", result |-> result, text |-> text,
                                 begun |-> clock, now |-> clock]
  IN /\ call.at = "idle"
     /\ \/ decoded = Thrown /\ Return("thrown")
        \/ decoded # Thrown /\ alg = Thrown /\ Return("thrown")
        \/ /\ decoded # Thrown /\ alg # Thrown
           /\ alg[2] \notin DOMAIN verifier.algs /\ Return("wrong_algorithm")
        \/ /\ decoded # Thrown /\ alg # Thrown /\ alg[2] \in DOMAIN verifier.algs
           /\ IF jwt.signature = SignatureOf([name |-> alg[2], key |-> verifier.algs[alg[2]]], jwt.data)
              THEN call' = [at |-> "signed", result |-> "none", text |-> text, jwt |-> jwt,
                            begun |-> clock]
              ELSE Return("signature")
     /\ UNCHANGED <<clock, verifier, history>>

\* The context caches the time.
VerifyContext ==
  /\ call.at = "signed"
  /\ call' = [at |-> "checking", result |-> "none", text |-> call.text, jwt |-> call.jwt,
              begun |-> call.begun, now |-> clock, left |-> DOMAIN verifier.claims]
  /\ UNCHANGED <<clock, verifier, history>>

\* What verifier.claims[name] reports
CheckResult(name, jwt, now) ==
  LET check == verifier.claims[name]
  IN CASE check[1] = "default"     -> DefaultDateCheck(jwt.payload, name, now, verifier.leeway)
       [] check[1] = "date_before" -> DateBeforeClaim(jwt.payload, name, now, check[2])
       [] check[1] = "date_after"  -> DateAfterClaim(jwt.payload, name, now, check[2])
       [] check[1] = "subset"      -> IsSubsetClaim(jwt.payload, name, check[2])
       [] check[1] = "insensitive" -> InsensitiveStringClaim(jwt.header, name, check[2])
       [] check[1] = "equals"      -> EqualsClaim(jwt.payload, name, check[2])

CheckAtClock(name) ==                  \* faulty: asks the clock again
  LET result == CheckResult(name, call.jwt, clock)
  IN /\ call.at = "checking" /\ name \in call.left
     /\ call' = IF result = "ok" THEN [call EXCEPT !.left = @ \ {name}]
                ELSE [call EXCEPT !.at = "returned", !.result = result]
     /\ UNCHANGED <<clock, verifier, history>>
CheckClaim(name) ==
  LET result == CheckResult(name, call.jwt, call.now)
  IN /\ call.at = "checking" /\ name \in call.left
     /\ call' = IF result = "ok" THEN [call EXCEPT !.left = @ \ {name}]
                ELSE [call EXCEPT !.at = "returned", !.result = result]
     /\ UNCHANGED <<clock, verifier, history>>

Accept ==
  /\ call.at = "checking" /\ call.left = {}
  /\ call' = [call EXCEPT !.at = "returned", !.result = "accepted"]
  /\ UNCHANGED <<clock, verifier, history>>

\* The caller has the result.
Done ==
  /\ call.at = "returned"
  /\ call' = Idle
  /\ UNCHANGED <<clock, verifier, history>>

Verify(texts) ==
  \/ \E text \in texts : VerifyStart(text)
  \/ VerifyContext
  \/ \E name \in DOMAIN verifier.claims : CheckClaim(name)
  \/ Accept
  \/ Done

Tick == clock < MaxClock /\ clock' = clock + 1 /\ UNCHANGED <<verifier, history, call>>

VerifierNext == SetUp \/ Verify(Texts) \/ Tick

VerifierSpec == VerifierInit /\ [][VerifierNext]_verifierVars

-----------------------------------------------------------------------------
(* Properties                                                               *)

Returned == call.at = "returned"
Accepted == Returned /\ call.result = "accepted"

Jwt == Decode(call.text)[2]

\* The last call with the given beginning, 0 if there is none
LastSetting(IsIt(_)) ==
  LET those == {i \in DOMAIN history : IsIt(history[i])}
  IN IF those = {} THEN 0 ELSE CHOOSE i \in those : \A j \in those : j <= i

\* An accepted token was signed, as it stands, with the algorithm that its
\* header names and the key that the last allow_algorithm gave for that name:
\* no part of it comes from another token.
SignedWithAllowedKey ==
  Accepted =>
    LET alg  == Jwt.header["alg"][2]
        last == LastSetting(LAMBDA h : h[1] = "allow" /\ h[2].name = alg)
    IN /\ last # 0
       /\ IF alg = "none" THEN call.text[3] = <<"text", "">>
          ELSE call.text[3] = <<"sig", [name |-> alg, key |-> history[last][2].key,
                                        data |-> SubSeq(call.text, 1, 2)]>>

\* The whole second nearest to a date claim, in halves; of two that are as near
\* the one further from zero
Halves(v) == IF v[1] = "integer" THEN 2 * v[2]
             ELSE IF v[2] % 2 = 0 THEN v[2]
             ELSE IF v[2] > 0 THEN v[2] + 1 ELSE v[2] - 1

\* The leeway that the calls ask for: that of the claim's own method if it was
\* called, the default leeway otherwise.
LeewayAsked(name) ==
  LET own == LastSetting(LAMBDA h : h[1] = name)
      all == LastSetting(LAMBDA h : h[1] = "leeway")
  IN IF own # 0 THEN history[own][2] ELSE IF all # 0 THEN history[all][2] ELSE 0

\* The token was valid at one single instant of the call, however the clock
\* ran meanwhile and in whichever order the checks were made.  (Dates that the
\* clock can represent; those of a claim that was checked for equality
\* instead have given up this check.)
ValidAtOneInstant ==
  Accepted =>
    \E now \in call.begun..clock :
      \A name \in {"exp", "iat", "nbf"} \cap DOMAIN Jwt.payload :
        LET at     == Halves(Jwt.payload[name]) * Ticks
            leeway == LeewayAsked(name) * 2 * Ticks
        IN \/ LastSetting(LAMBDA h : h[1] = "claim" /\ h[2] = name) # 0
           \/ at \notin 0..2*MaxDate
           \/ IF name = "exp" THEN 2 * now <= at + leeway ELSE 2 * now >= at - leeway

\* A date, if the token has it, is a number and good at an instant.
DateFits(name, jwt, now, leeway) ==
  name \in DOMAIN jwt.payload =>
    LET v    == jwt.payload[name]
        date == Wrap((Halves(v) \div 2) * Ticks)
    IN /\ v[1] \in {"integer", "number"}
       /\ IF name = "exp" THEN now <= Wrap(date + leeway * Ticks)
          ELSE now >= Wrap(date - leeway * Ticks)

\* What the comments say that a setting asks of a token: a claim is "equal (both
\* type & value)", the check of typ "is case sensitive", a string is "a set with
\* a single element", and a date with a leeway of its own is checked as any other.
Meets(setting, jwt, now) ==
  CASE setting[1] = "claim" ->
         setting[2] \in DOMAIN jwt.payload /\ jwt.payload[setting[2]] = setting[3]
    [] setting[1] = "typ" ->
         /\ "typ" \in DOMAIN jwt.header
         /\ jwt.header["typ"][1] = "string" /\ jwt.header["typ"][2] = setting[2]
    [] setting[1] = "aud" ->
         /\ "aud" \in DOMAIN jwt.payload
         /\ LET v == jwt.payload["aud"]
            IN \/ v[1] = "string" /\ setting[2] \subseteq {v[2]}
               \/ /\ v[1] = "array" /\ \A i \in DOMAIN v[2] : v[2][i][1] = "string"
                  /\ \A a \in setting[2] : \E i \in DOMAIN v[2] : v[2][i][2] = a
    [] setting[1] \in {"exp", "iat", "nbf"} -> DateFits(setting[1], jwt, now, setting[2])

\* Where the code does something else: it takes a typ in other letters, refuses
\* a string for the empty set, a date that is missing or no integer if it has
\* a leeway of its own, and a claim that has to be null; and it compares arrays
\* and objects as they are written.
Disputed(setting, jwt) ==
  LET name == setting[1]
      p    == jwt.payload
  IN CASE name = "claim" ->
            /\ setting[2] \in DOMAIN p
            /\ LET v == p[setting[2]]
                   e == setting[3]
               IN \/ v = e /\ GetType(e) = "thrown"
                  \/ v # e /\ v[1] = e[1] /\ v[1] \in {"array", "object"} /\ Serialized(v) = Serialized(e)
       [] name = "typ" ->
            /\ "typ" \in DOMAIN jwt.header /\ jwt.header["typ"][1] = "string"
            /\ LET v == jwt.header["typ"][2]
               IN v # setting[2] /\ v \notin Undecodable /\ Lowered[v] = Lowered[setting[2]]
       [] name = "aud" -> setting[2] = {} /\ "aud" \in DOMAIN p /\ p["aud"][1] = "string"
       [] name \in {"exp", "iat", "nbf"} -> name \in DOMAIN p => p[name][1] = "number"

\* The settings that count: for each name the last one made for it.
Subject(setting) == IF setting[1] = "claim" THEN setting[2] ELSE setting[1]
InForce ==
  LET about == {i \in DOMAIN history : history[i][1] \notin {"allow", "leeway"}
                  /\ ~(history[i][1] = "typ" /\ history[i][2] \in Undecodable)}
  IN {i \in about : \A j \in about : Subject(history[j]) = Subject(history[i]) => j <= i}

\* verify got as far as the claims.
ClaimsChecked == Returned /\ "jwt" \in DOMAIN call

\* The dates for which no setting has been made fit, with the default leeway.
DefaultDatesFit ==
  LET all == LastSetting(LAMBDA h : h[1] = "leeway")
  IN \A name \in {"exp", "iat", "nbf"} \ {Subject(history[i]) : i \in InForce} :
       DateFits(name, Jwt, call.now, IF all = 0 THEN 0 ELSE history[all][2])

\* An accepted token meets, at the cached time, the last setting made for every
\* name and the default checks of the dates for which there is none; and one
\* that meets them all is accepted: no order of the calls, and no order of the
\* checks, lets a setting be lost or an earlier one come back.  (Nothing is said
\* of a setting about which comments and code disagree for this token.)
LastSettingsDecide ==
  ClaimsChecked =>
    /\ call.result = "accepted" =>
         /\ \A i \in InForce : Disputed(history[i], Jwt) \/ Meets(history[i], Jwt, call.now)
         /\ DefaultDatesFit
    /\ /\ \A i \in InForce : ~Disputed(history[i], Jwt) /\ Meets(history[i], Jwt, call.now)
       /\ DefaultDatesFit
       => call.result = "accepted"

\* What the comments of the verifier's checks say, with no exception: a token is
\* accepted exactly if it meets the settings in force and the default checks.
\* ("Check is case sensitive.", "If the token value is a string it is treated as
\* a set with a single element.", "This is identical to how the "exp" check
\* works.", "to check for equality (both type & value)")
ChecksAsDocumented ==
  ClaimsChecked =>
    (call.result = "accepted" <=>
       (\A i \in InForce : Meets(history[i], Jwt, call.now)) /\ DefaultDatesFit)

=============================================================================
