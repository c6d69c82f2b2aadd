---------------------------- MODULE MCJwtVerifier ----------------------------
(***************************************************************************)
(* An instance of JwtVerifier.  Two ticks make a second, the clock's range *)
(* is 7.5 seconds.                                                         *)
(***************************************************************************)
EXTENDS JwtVerifier, MCJson, TLC

Alg1    == [name |-> "HS256", key |-> "k1"]
Alg2    == [name |-> "HS256", key |-> "k2"]
AlgNone == [name |-> "none", key |-> ""]

VerifierAlgorithms == {Alg1, Alg2, AlgNone}
OneAlgorithm       == {Alg1}

InvalidStrings == {"\\xff"}
LowerCase == [s \in {"JWT", "jwt", "at+jwt"} |-> IF s = "at+jwt" THEN s ELSE "jwt"]

Header(alg, typ) == TokenPart("alg" :> Str(alg) @@ "typ" :> Str(typ))
Signature(algo, data) == <<"sig", [name |-> algo.name, key |-> algo.key, data |-> data]>>
Signed(algo, header, payload) == <<header, payload, Signature(algo, <<header, payload>>)>>

Payloads == {TokenPart(<<>>),
             TokenPart("exp" :> <<"integer", 1>>),
             TokenPart("exp" :> <<"number", 3>>),
             TokenPart("exp" :> Str("1")),
             TokenPart("exp" :> <<"integer", 9>>),
             TokenPart("exp" :> <<"integer", 0>> @@ "nbf" :> <<"integer", 1>>),
             TokenPart("exp" :> <<"number", -1>> @@ "nbf" :> <<"number", -3>>),
             TokenPart("iat" :> <<"integer", 1>> @@ "aud" :> Str("a")),
             TokenPart("aud" :> List(<<Str("a"), Str("b")>>)),
             TokenPart("aud" :> List(<<Str("a"), <<"null", 0>>>>)),
             TokenPart("aud" :> <<"null", 0>>)}

OddTokens ==
  LET h == Header("HS256", "jwt")
      p == TokenPart("exp" :> <<"integer", 1>>)
  IN {<<h, p>>, Signed(Alg2, h, p), <<h, TokenPart(<<>>), Signature(Alg1, <<h, p>>)>>,
      <<h, p, <<"text", "">>, <<"text", "">>>>, <<h, <<"text", "x">>, <<"text", "">>>>,
      <<<<"broken", "!">>, p, <<"text", "">>>>, Signed(Alg1, Header("none", "jwt"), p),
      <<Header("none", "at+jwt"), p, <<"text", "">>>>,
      Signed(Alg1, TokenPart(<<>>), p), Signed(Alg1, TokenPart("alg" :> <<"integer", 1>>), p)}

Tokens == {Signed(Alg1, Header("HS256", "JWT"), p) : p \in Payloads} \cup OddTokens

AllSettings == {<<"leeway", 1>>, <<"exp", 1>>, <<"nbf", 1>>,
                <<"typ", "jwt">>, <<"typ", "\\xff">>, <<"aud", {"a", "b"}>>,
                <<"claim", "exp", <<"integer", 1>>>>, <<"claim", "exp", <<"null", 0>>>>,
                <<"claim", "aud", List(<<Str("a"), Str("b")>>)>>}

\* Settings about which comments and code disagree
DisputedSettings == {<<"typ", "jwt">>, <<"aud", {}>>, <<"exp", 0>>, <<"nbf", 0>>,
                     <<"claim", "aud", <<"null", 0>>>>}

=============================================================================
