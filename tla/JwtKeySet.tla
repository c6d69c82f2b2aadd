------------------------------ MODULE JwtKeySet ------------------------------
(***************************************************************************)
(* jwt::jwks and jwt::jwk: a program parses a key set, looks keys up by    *)
(* their id and reads their members.                                       *)
(***************************************************************************)
EXTENDS JwtClaims, SequencesExt

CONSTANTS
  Documents,  \* parts as in JwtClaims: the texts that are parsed
  KeyIds,     \* the ids that are looked up
  Members     \* the members that are read

VARIABLES
  document,  \* the text that was parsed
  keys,      \* what parse_jwks returned
  answer     \* what the last call returned: <<call, argument, result>>

keySetVars == <<document, keys, answer>>

\* parse_jwks: every element of "keys" must be an object.
ParseJwks(part) ==
  LET claims == ParseClaims(part)
      list   == IF claims = Thrown THEN Thrown ELSE As("array", GetClaim(claims[2], "keys"))
  IN IF list = Thrown \/ \E i \in DOMAIN list[2] : list[2][i][1] # "object" THEN Thrown
     ELSE <<"jwks", [i \in DOMAIN list[2] |-> list[2][i][2]]>>

\* The contents of an array are a sequence; "value" stands for get_x5c_key_value.
ASSUME KeySetAssumption ==
  /\ \A d \in Documents :
       LET jwks == ParseJwks(d)[2]
       IN ParseJwks(d) # Thrown => Len(jwks) \in Nat /\ DOMAIN jwks = 1..Len(jwks)
  /\ "value" \notin Members

\* find_by_kid: the first that matches.  It is noexcept: a kid that is no
\* string, met before the match, ends the process.
LastByKid(jwks, kid) ==                  \* faulty: the last one
  SelectLastInSeq(jwks, LAMBDA jwk : HasClaim(jwk, "kid") /\ jwk["kid"] = <<"string", kid>>)
FindByKid(jwks, kid) ==
  SelectInSeq(jwks, LAMBDA jwk : HasClaim(jwk, "kid") /\
                                 (jwk["kid"] = <<"string", kid>> \/ jwk["kid"][1] # "string"))

Terminates(jwks, kid) ==
  LET i == FindByKid(jwks, kid) IN i # 0 /\ jwks[i]["kid"][1] # "string"

\* get_x5c_key_value
GetX5cKeyValue(jwk) ==
  LET x5c == As("array", GetClaim(jwk, "x5c"))
  IN IF x5c = Thrown \/ Len(x5c[2]) = 0 THEN Thrown ELSE As("string", x5c[2][1])

\* get_key_type, get_use, get_algorithm, get_key_id, get_curve, get_x5u, get_x5t,
\* get_x5t_sha256; get_key_operations; get_x5c
GetMember(jwk, name) ==
  LET claim == GetClaim(jwk, name)
  IN IF name = "key_ops" THEN AsSet(claim)
     ELSE IF name = "x5c" THEN As("array", claim) ELSE As("string", claim)

KeySetInit == document = <<"text", "">> /\ keys = Thrown /\ answer = <<"none">>

Parse ==
  /\ answer[1] # "terminated"
  /\ \E d \in Documents : document' = d /\ keys' = ParseJwks(d)
  /\ answer' = <<"none">>

HasJwk(kid) ==
  /\ keys # Thrown /\ answer[1] # "terminated"
  /\ answer' = IF Terminates(keys[2], kid) THEN <<"terminated", kid>>
               ELSE <<"has_jwk", kid, FindByKid(keys[2], kid) # 0>>
  /\ UNCHANGED <<document, keys>>

GetJwk(kid) ==
  LET i == FindByKid(keys[2], kid)
  IN /\ keys # Thrown /\ answer[1] # "terminated"
     /\ answer' = IF Terminates(keys[2], kid) THEN <<"terminated", kid>>
                  ELSE <<"get_jwk", kid, IF i = 0 THEN Thrown ELSE <<"jwk", keys[2][i]>>>>
     /\ UNCHANGED <<document, keys>>

ReadMember(name) ==
  /\ answer[1] = "get_jwk" /\ answer[3] # Thrown
  /\ answer' = <<"member", name, GetMember(answer[3][2], name), answer[2]>>
  /\ UNCHANGED <<document, keys>>

ReadKeyValue ==
  /\ answer[1] = "get_jwk" /\ answer[3] # Thrown
  /\ answer' = <<"member", "value", GetX5cKeyValue(answer[3][2]), answer[2]>>
  /\ UNCHANGED <<document, keys>>

KeySetNext ==
  \/ Parse
  \/ \E kid \in KeyIds : HasJwk(kid) \/ GetJwk(kid)
  \/ \E name \in Members : ReadMember(name)
  \/ ReadKeyValue

KeySetSpec == KeySetInit /\ [][KeySetNext]_keySetVars

-----------------------------------------------------------------------------
(* Properties                                                               *)

\* The elements of the document's key set that have the id
Listed(kid) ==
  LET list == document[2][2]["keys"][2]
  IN {i \in DOMAIN list : "kid" \in DOMAIN list[i][2] /\ list[i][2]["kid"] = <<"string", kid>>}

\* The strings that a key lists as its operations
Operations(jwk) == {jwk["key_ops"][2][i][2] : i \in DOMAIN jwk["key_ops"][2]}

\* A lookup answers from the document that was parsed last: has_jwk says
\* whether some key there has the id, get_jwk gives the first of those, and a
\* member that is read is that key's own.  (Nothing is said of a call that ends
\* the process.)
LookupIsFirstListed ==
  LET list  == document[2][2]["keys"][2]
      First(kid) == list[Min(Listed(kid))][2]
  IN /\ answer[1] = "has_jwk" => (answer[3] <=> Listed(answer[2]) # {})
     /\ answer[1] = "get_jwk" =>
          IF Listed(answer[2]) = {} THEN answer[3] = Thrown
          ELSE answer[3] = <<"jwk", First(answer[2])>>
     /\ (answer[1] = "member" /\ answer[3] # Thrown) =>
          LET jwk == First(answer[4])
          IN /\ Listed(answer[4]) # {}
             /\ IF answer[2] = "value" THEN jwk["x5c"][2][1] = answer[3]
                ELSE IF answer[2] = "key_ops"
                THEN answer[3][2] = Operations(jwk)
                ELSE jwk[answer[2]] = answer[3]

\* What the comments say of a lookup: has_jwk returns "true if jwk was present,
\* false otherwise", get_jwk throws "std::runtime_error If jwk was not present".
\* Neither ends the process.
LookupAnswers == answer[1] # "terminated"

=============================================================================
