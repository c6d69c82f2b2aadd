----------------------------- MODULE JwtBuilder -----------------------------
(***************************************************************************)
(* jwt::builder and, composed with it, the verifier that is handed the     *)
(* tokens it signed.  One builder is used again and again.                 *)
(***************************************************************************)
EXTENDS JwtVerifier

CONSTANTS
  HeaderClaims,   \* <<name, value>>: for set_algorithm, set_type, set_key_id, ...
  PayloadClaims,  \* <<name, value>>: for set_issuer, set_audience, set_id, ...
  Dates,          \* ticks: for set_expires_at, set_not_before, set_issued_at
  Lifetimes,      \* ticks: for set_expires_in
  Unable,         \* algorithms that have no private key
  MaxIssued       \* bound: tokens signed

\* Dates are counts of ticks, and the clock can represent its own time.
ASSUME BuilderAssumption ==
  /\ \A c \in PayloadClaims : c[2][1] \in {"integer", "number"} => c[2][2] \in Int
  /\ Dates \subseteq Int /\ Lifetimes \subseteq Int
  /\ MaxClock \in 0..MaxDate

VARIABLES
  builder,   \* header_claims and payload_claims
  asked,     \* what was asked for: whether alg was set by hand; when set_expires_in
             \* and set_issued_now were called, and for how long
  issued     \* what the calls of sign returned

builderVars == <<builder, asked, issued>>

Never == [at |-> -1, for |-> 0]

BuilderInit ==
  /\ VerifierInit
  /\ builder = [header |-> <<>>, payload |-> <<>>]
  /\ asked = [alg |-> FALSE, exp |-> Never, iat |-> Never]
  /\ issued = <<>>

\* claims[id] = value
With(claims, id, value) ==
  [n \in DOMAIN claims \cup {id} |-> IF n = id THEN value ELSE claims[n]]

-----------------------------------------------------------------------------
(* The setters.  A claim of a date is its number of full seconds.           *)

SetHeaderClaim(id, value) ==
  /\ builder' = [builder EXCEPT !.header = With(@, id, value)]
  /\ asked' = [asked EXCEPT !.alg = @ \/ id = "alg"]
  /\ UNCHANGED issued

SetPayloadClaim(id, value) ==
  /\ builder' = [builder EXCEPT !.payload = With(@, id, value)]
  /\ asked' = [asked EXCEPT !.exp = IF id = "exp" THEN Never ELSE @,
                             !.iat = IF id = "iat" THEN Never ELSE @]
  /\ UNCHANGED issued

DateClaim(date) == <<"integer", ToTimeT(Wrap(date))>>

\* set_expires_at, set_not_before, set_issued_at
SetDate(id, date) == SetPayloadClaim(id, DateClaim(date))

SetExpiresIn(d) ==
  /\ builder' = [builder EXCEPT !.payload = With(@, "exp", DateClaim(clock + d))]
  /\ asked' = [asked EXCEPT !.exp = [at |-> clock, for |-> d]]
  /\ UNCHANGED issued

SetIssuedNow ==
  /\ builder' = [builder EXCEPT !.payload = With(@, "iat", DateClaim(clock))]
  /\ asked' = [asked EXCEPT !.iat = [at |-> clock, for |-> 0]]
  /\ UNCHANGED issued

-----------------------------------------------------------------------------
(* sign                                                                     *)

\* obj_header: a copy, with the algorithm's name unless one was set
ObjHeader(algo) ==
  IF HasClaim(builder.header, "alg") THEN builder.header
  ELSE With(builder.header, "alg", <<"string", algo.name>>)

TokenOf(algo) ==
  LET header  == <<"json", <<"object", ObjHeader(algo)>>>>
      payload == <<"json", <<"object", builder.payload>>>>
  IN <<header, payload, SignatureOf(algo, <<header, payload>>)>>

Issue(algo) ==
  issued' = Append(issued, [text  |-> IF algo \in Unable THEN <<>> ELSE TokenOf(algo),
                            algo  |-> algo,
                            asked |-> asked])

SignsIntoBuilder(algo) ==             \* faulty: no copy of header_claims
  /\ Len(issued) < MaxIssued
  /\ Issue(algo)
  /\ builder' = [builder EXCEPT !.header = ObjHeader(algo)]
  /\ UNCHANGED asked
Sign(algo) ==
  /\ Len(issued) < MaxIssued
  /\ Issue(algo)
  /\ UNCHANGED <<builder, asked>>

BuilderStep ==
  \/ \E c \in HeaderClaims : SetHeaderClaim(c[1], c[2])
  \/ \E c \in PayloadClaims : SetPayloadClaim(c[1], c[2])
  \/ \E id \in {"exp", "nbf", "iat"}, date \in Dates : SetDate(id, date)
  \/ \E d \in Lifetimes : SetExpiresIn(d)
  \/ SetIssuedNow
  \/ \E a \in Algorithms : Sign(a)

BuilderNext ==
  \/ call.at = "idle" /\ BuilderStep /\ UNCHANGED verifierVars
  \/ SetUp /\ UNCHANGED builderVars
  \/ Verify({issued[i].text : i \in DOMAIN issued}) /\ UNCHANGED builderVars
  \/ Tick /\ UNCHANGED builderVars

BuilderSpec == BuilderInit /\ [][BuilderNext]_<<builderVars, verifierVars>>

-----------------------------------------------------------------------------
(* Properties                                                               *)

\* The calls of sign that returned the token which verify looked at
Origins == {i \in DOMAIN issued : issued[i].text = call.text}

\* A token that sign made for an algorithm, with no other algorithm set by
\* hand, passes every verifier that allows this algorithm with this key as far
\* as its claims, no matter what the builder signed before with which
\* algorithm.  Where signing failed there is no token.
SignedTokenIsRecognized ==
  Returned =>
    \A i \in Origins :
      LET last == LastSetting(LAMBDA h : h[1] = "allow" /\ h[2].name = issued[i].algo.name)
      IN /\ (~issued[i].asked.alg /\ last # 0 /\ history[last][2] = issued[i].algo
               /\ issued[i].algo \notin Unable)
               => "jwt" \in DOMAIN call
         /\ issued[i].algo \in Unable => call.result = "thrown"

\* A token with set_expires_in(d) is good for d from that call on, longer only
\* by the leeway, unless with_claim replaces the check; and the rounding to
\* seconds takes less than one off.  One with set_issued_now is good at once.
\* (Dates from 1970 on.  A sum that the clock cannot represent may end the
\* token early, and never late.)
GoodForItsLifetime ==
  (Returned /\ "jwt" \in DOMAIN call) =>
    \A i \in Origins :
      LET exp == issued[i].asked.exp
          iat == issued[i].asked.iat
          has == DOMAIN Jwt.payload
          end == exp.at + exp.for + LeewayAsked("exp") * Ticks
      IN /\ ( /\ call.result = "accepted"
              /\ exp # Never /\ exp.at + exp.for >= 0
              /\ LastSetting(LAMBDA h : h[1] = "claim" /\ h[2] = "exp") = 0 )
            => call.now <= end
         /\ ( /\ call.result = "token_expired"
              /\ "nbf" \notin has
              /\ "iat" \in has => iat # Never /\ LeewayAsked("iat") * Ticks <= MaxDate
              /\ "exp" \in has => exp # Never /\ exp.at + exp.for >= 0 /\ end <= MaxDate )
            => exp # Never /\ call.now > end - Ticks

=============================================================================
