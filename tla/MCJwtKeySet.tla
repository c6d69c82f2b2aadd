----------------------------- MODULE MCJwtKeySet -----------------------------
(***************************************************************************)
(* An instance of JwtKeySet: lists of up to three keys that differ in what *)
(* a lookup and a getter can meet, and documents that are no key sets.     *)
(***************************************************************************)
EXTENDS JwtKeySet, MCJson

Jwks == {Object("kid" :> Str("k1") @@ "kty" :> Str("RSA") @@ "x5c" :> List(<<Str("cert")>>)),
         Object("kid" :> Str("k1") @@ "kty" :> Str("EC") @@ "key_ops" :> List(<<Str("verify"), Str("sign")>>)),
         Object("kid" :> Str("k2") @@ "kty" :> <<"integer", 1>> @@ "x5c" :> List(<<>>)),
         Object("kid" :> <<"integer", 7>>),
         Object("kty" :> Str("oct") @@ "x5c" :> List(<<<<"null", 0>>>>))}

AllDocuments ==
  {TokenPart("keys" :> List(l)) : l \in UNION {[1..n -> Jwks] : n \in 0..3}}
    \cup {<<"text", "x">>, <<"json", List(<<>>)>>, TokenPart(<<>>),
          TokenPart("keys" :> Str("k1")), TokenPart("keys" :> List(<<Str("k1")>>))}

=============================================================================
