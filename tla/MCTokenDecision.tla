--------------------------- MODULE MCTokenDecision ---------------------------
(***************************************************************************)
(* Settings, key sets and tokens for TokenDecision.  Each key and each     *)
(* token differs from a good one in one respect; key sets are all          *)
(* sequences of at most two keys.                                          *)
(***************************************************************************)
EXTENDS TokenDecision, MCJson

\* The strings that occur as a scope setting or claim.
MCWords ==
  [s \in {"", "db", "openid", "openid db", "api/db", "openid api/db", "admin"} |->
     CASE s = ""              -> {}
       [] s = "openid db"     -> {"openid", "db"}
       [] s = "openid api/db" -> {"openid", "api/db"}
       [] OTHER -> {s}]

MCSlashed == {"api/db"}
MCAfterSlash == [s \in MCSlashed |-> "db"]

\* login has a tenant id in it, login-bare does not.
MCLoginIssuers == {"login", "login-bare"}
MCStsIssuers   == {"sts"}
MCTenantOf     == [i \in {"login", "sts"} |-> "tenant"]
MCStsIssuerOf  == [t \in {"tenant"} |-> "sts"]

MCNumberText == [n \in {7} |-> "7"]

MCSettings ==
  [issuer : {"plain", "login", "login-bare", "sts"},
   scope : {"", "db", "openid api/db"}, authn_field : {"sub"}]
    \cup [issuer : {"plain"}, scope : {"openid db"}, authn_field : {"email"}]

RsaKey == [type |-> "object", use |-> Str("sig"), kid |-> Str("k1"), kty |-> Str("RSA"),
           alg |-> Str("RS256"), complete |-> TRUE, crv |-> "none", material |-> "m1"]
EcKey  == [RsaKey EXCEPT !.kty = Str("EC"), !.alg = Str("ES256"), !.crv = "P-256"]

MCKeys ==
  {RsaKey,
   [RsaKey EXCEPT !.alg = Absent],
   [RsaKey EXCEPT !.alg = Str("PS256")],
   [RsaKey EXCEPT !.alg = Str("HS256")],
   [RsaKey EXCEPT !.use = Str("enc")],
   [RsaKey EXCEPT !.use = Absent],
   [RsaKey EXCEPT !.kid = Absent],
   [RsaKey EXCEPT !.kid = <<"null">>],
   [RsaKey EXCEPT !.kid = <<"number", 7>>],
   [RsaKey EXCEPT !.kty = Absent],
   [RsaKey EXCEPT !.complete = FALSE],
   [RsaKey EXCEPT !.type = "string"],
   [RsaKey EXCEPT !.kid = Str("k2"), !.material = "m2"],
   EcKey,
   [EcKey EXCEPT !.crv = "P-384"],
   [RsaKey EXCEPT !.kty = Str("oct"), !.alg = Str("HS256")]}

MCKeySets ==
  [valid : {TRUE}, keys : UNION {[1..n -> MCKeys] : n \in 0..2}]
    \cup {[valid |-> FALSE, keys |-> <<>>]}

GoodClaims == [iss |-> Str("plain"), exp |-> <<"number", 2>>, iat |-> <<"number", 1>>,
               nbf |-> Absent, sub |-> Str("alice"), email |-> Str("mail"),
               scp |-> Absent, scope |-> Str("openid db")]

GoodToken == [decodes |-> TRUE, kid |-> Str("k1"), alg |-> "RS256", signer |-> "m1",
              claims |-> GoodClaims]

MCClaims ==
  {[GoodClaims EXCEPT !.iss = Str("sts")],
   [GoodClaims EXCEPT !.iss = Str("sts"), !.scp = Str("api/db"), !.scope = Absent],
   [GoodClaims EXCEPT !.iss = Str("login")],
   [GoodClaims EXCEPT !.iss = Absent],
   [GoodClaims EXCEPT !.exp = <<"number", 0>>],
   [GoodClaims EXCEPT !.exp = <<"number", 1>>],
   [GoodClaims EXCEPT !.exp = Str("never")],
   [GoodClaims EXCEPT !.exp = Absent],
   [GoodClaims EXCEPT !.nbf = <<"number", 2>>],
   [GoodClaims EXCEPT !.iat = <<"number", 2>>],
   [GoodClaims EXCEPT !.sub = Absent],
   [GoodClaims EXCEPT !.sub = <<"number", 7>>],
   [GoodClaims EXCEPT !.sub = <<"null">>, !.email = Absent],
   [GoodClaims EXCEPT !.scp = <<"array", <<Str("db"), <<"null">>>>>>, !.scope = <<"null">>],
   [GoodClaims EXCEPT !.scope = Str("admin")]}

MCPresented ==
  [decodes : {TRUE}, kid : {Str("k1"), Str("k2"), Str("null"), Str("7"), <<"null">>, Absent},
   alg : {"RS256", "PS256", "ES256", "HS256"}, signer : {"m1", "m2"}, claims : {GoodClaims}]
    \cup {[GoodToken EXCEPT !.claims = c] : c \in MCClaims}
    \cup {[GoodToken EXCEPT !.decodes = FALSE]}

\* Entra ID and a scope without a slash.
MCAzureSettings == [issuer : {"login"}, scope : {"db", "openid api/db", "admin"},
                    authn_field : {"sub"}]
=============================================================================
