------------------------------ MODULE JwtClaims ------------------------------
(***************************************************************************)
(* Claims, tokens and key sets as jwt-cpp reads them (jwt-cpp/jwt.h), with *)
(* the JSON traits of picojson.                                            *)
(*                                                                         *)
(* A JSON value is <<type, contents>>: an array's contents are a sequence, *)
(* an object's a function of names, a number's counts halves.  A token is  *)
(* the sequence of its parts between the dots; a part is <<"json", value>>,*)
(* <<"text", s>> (bytes that are no JSON), <<"sig", signature>>, or        *)
(* <<"broken", s>>, which is not base64url.  An operation that throws      *)
(* returns Thrown.                                                         *)
(***************************************************************************)
EXTENDS Integers, Sequences, FiniteSets

CONSTANTS
  Ticks,        \* ticks of system_clock in a second
  MaxDate,      \* the largest system_clock::time_point, in ticks
  Lowered,      \* string -> the string in lower case
  Undecodable   \* strings that are not valid in the locale's encoding

Thrown == <<"thrown", "exception">>

-----------------------------------------------------------------------------
(* json_traits and basic_claim                                              *)

\* get_type; a null is none of the types it knows
GetType(v) == IF v[1] = "null" THEN "thrown" ELSE v[1]

\* as_string, as_array, as_object, as_boolean, ...: the value itself, if it
\* has the type.
As(type, v) == IF v[1] = type THEN v ELSE Thrown

AsSet(v) ==
  IF v[1] # "array" \/ \E i \in DOMAIN v[2] : v[2][i][1] # "string" THEN Thrown
  ELSE <<"set", {v[2][i][2] : i \in DOMAIN v[2]}>>

\* What a signed 64-bit count of ticks makes of d
Wrap(d) == ((d + MaxDate + 1) % (2 * MaxDate + 2)) - MaxDate - 1

FromTimeT(seconds) == Wrap(seconds * Ticks)

RoundsUp(date) == (date + Ticks - 1) \div Ticks  \* faulty: the next full second
\* Division in C++ rounds towards zero.
ToTimeT(date) == IF date >= 0 THEN date \div Ticks ELSE -((-date) \div Ticks)

\* std::round: half a second counts as one, away from zero.
Round(halves) == IF halves >= 0 THEN (halves + 1) \div 2 ELSE -((1 - halves) \div 2)

\* as_date: a time point <<"date", ticks>>
AsDate(v) ==
  IF v[1] = "number" THEN <<"date", FromTimeT(Round(v[2]))>>
  ELSE IF v[1] = "integer" THEN <<"date", FromTimeT(v[2])>>
  ELSE Thrown

\* serialize of an array or an object: a number that is whole looks like an integer.
SerializedItem(v) ==
  IF v[1] = "number" /\ v[2] % 2 = 0 THEN <<"integer", v[2] \div 2>> ELSE v
Serialized(v) == [i \in DOMAIN v[2] |-> SerializedItem(v[2][i])]

-----------------------------------------------------------------------------
(* map_of_claims, decoded_jwt                                               *)

GetClaim(claims, name) == IF name \in DOMAIN claims THEN claims[name] ELSE Thrown

\* parse_claims
ParseClaims(part) == IF part[1] = "json" THEN As("object", part[2]) ELSE Thrown

\* decoded_jwt's constructor.  What follows the second dot is the signature, and a
\* third dot in it is not base64url.
Decode(text) ==
  IF \/ Len(text) # 3
     \/ \E i \in 1..3 : text[i][1] = "broken"
     \/ ParseClaims(text[1]) = Thrown \/ ParseClaims(text[2]) = Thrown
  THEN Thrown
  ELSE <<"jwt", [header |-> text[1][2][2], payload |-> text[2][2][2],
                 data |-> SubSeq(text, 1, 2), signature |-> text[3]]>>

HasClaim(claims, name) == name \in DOMAIN claims

-----------------------------------------------------------------------------
(* Signatures: an algorithm is [name, key]; "none" signs with nothing       *)

SignatureOf(algo, data) ==
  IF algo.name = "none" THEN <<"text", "">>
  ELSE <<"sig", [name |-> algo.name, key |-> algo.key, data |-> data]>>

-----------------------------------------------------------------------------
(* verify_ops: the error of a check, or "ok"                                *)

\* verify_context::get_claim with a type
TypedClaimError(claims, name, type) ==
  IF ~HasClaim(claims, name) THEN "missing_claim"
  ELSE IF GetType(claims[name]) = "thrown" THEN "thrown"
  ELSE IF GetType(claims[name]) # type THEN "claim_type_missmatch"
  ELSE "ok"

EqualsClaim(claims, name, expected) ==
  LET error   == TypedClaimError(claims, name, expected[1])
      matches == IF expected[1] \in {"array", "object"}
                 THEN Serialized(expected) = Serialized(claims[name])
                 ELSE expected = claims[name]
  IN IF GetType(expected) = "thrown" THEN "thrown"
     ELSE IF error # "ok" THEN error
     ELSE IF matches THEN "ok" ELSE "claim_value_missmatch"

\* The comparisons with the time; leeway is in seconds.
ExpiredAt(now, date, leeway)  == now > Wrap(date + leeway * Ticks)
TooEarlyAt(now, date, leeway) == now < Wrap(date - leeway * Ticks)

DateBeforeClaim(claims, name, now, leeway) ==
  LET error == TypedClaimError(claims, name, "integer")
  IN IF error # "ok" THEN error
     ELSE IF ExpiredAt(now, AsDate(claims[name])[2], leeway) THEN "token_expired" ELSE "ok"

DateAfterClaim(claims, name, now, leeway) ==
  LET error == TypedClaimError(claims, name, "integer")
  IN IF error # "ok" THEN error
     ELSE IF TooEarlyAt(now, AsDate(claims[name])[2], leeway) THEN "token_expired" ELSE "ok"

IsSubsetClaim(claims, name, expected) ==
  LET c == GetClaim(claims, name)
  IN IF ~HasClaim(claims, name) THEN "missing_claim"
     ELSE IF c[1] = "string" THEN IF expected = {c[2]} THEN "ok" ELSE "audience_missmatch"
     ELSE IF c[1] = "array"
     THEN IF AsSet(c) = Thrown THEN "thrown"
          ELSE IF expected \subseteq AsSet(c)[2] THEN "ok" ELSE "audience_missmatch"
     ELSE IF GetType(c) = "thrown" THEN "thrown" ELSE "claim_type_missmatch"

\* to_lower_unicode
ToLowerUnicode(s) == IF s \in Undecodable THEN Thrown ELSE <<"string", Lowered[s]>>

\* expected has been lowered by the constructor
InsensitiveStringClaim(claims, name, expected) ==
  LET error == TypedClaimError(claims, name, "string")
  IN IF error # "ok" THEN error
     ELSE IF ToLowerUnicode(claims[name][2]) = Thrown THEN "thrown"
     ELSE IF ToLowerUnicode(claims[name][2]) = <<"string", expected>> THEN "ok"
     ELSE "claim_value_missmatch"

=============================================================================
