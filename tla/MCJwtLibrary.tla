---------------------------- MODULE MCJwtLibrary ----------------------------
(***************************************************************************)
(* Instances of the modules for jwt-cpp and picojson, side by side.  They  *)
(* share no state: part says which of them a behaviour exercises, and the  *)
(* variables of the others stay as they are.                               *)
(***************************************************************************)
EXTENDS MCJwtVerifier, MCJwtKeySet, JwtBuilder, KeyHandle, PicoValue, PicoEscape, Encodings,
        OpenSslCalls

VARIABLES part,
  text, parsed   \* JSON texts

tokenVars == <<verifierVars, builderVars>>
textVars  == <<text, parsed>>
jsonVars  == <<valueVars, escapeVars, textVars>>

-----------------------------------------------------------------------------
(* Tokens: those of MCJwtVerifier, and those that builders make             *)

AlgRsa     == [name |-> "RS256", key |-> "k2"]
PublicOnly == [name |-> "ES256", key |-> "public"]

\* A builder signs with several algorithms,
Keyless     == {PublicOnly}
NamedAlgs   == {<<"alg", Str("RS256")>>}
NamedClaims == {<<"aud", Str("a")>>}

Signing == INSTANCE JwtBuilder WITH
       Undecodable <- {}, Texts <- {}, Algorithms <- {Alg1, AlgRsa, PublicOnly},
       Settings <- {<<"leeway", 1>>}, MaxSettings <- 2, MaxClock <- 0,
       Dates <- {}, Lifetimes <- {}

\* and one signs tokens that expire.
Expiring == INSTANCE JwtBuilder WITH
       Undecodable <- {}, Texts <- {}, Algorithms <- {Alg1},
       Settings <- {<<"leeway", 1>>}, MaxSettings <- 2, MaxIssued <- 1,
       HeaderClaims <- {}, PayloadClaims <- {}

TokenNext ==
  \/ part = "verify" /\ VerifierNext /\ UNCHANGED builderVars
  \/ part = "sign" /\ Signing!BuilderNext
  \/ part = "lifetime" /\ Expiring!BuilderNext

-----------------------------------------------------------------------------
(* JSON values: 1 is an integer between two doubles.                        *)

NearestDoubles == [c \in 0..2 |-> IF c = 1 THEN 2 ELSE c]

-----------------------------------------------------------------------------
(* JSON texts                                                               *)

Upto(S, n) == UNION {[1..k -> S] : k \in 0..n}

Characters == {"[", "]", "{", "}", ",", ":", "q", "b", "n", "a", "1", "-", ".", "e", "null", "ws", "nl"}

Null       == <<"null", <<>>>>
Leaves     == {Null, <<"boolean", <<"true">>>>, <<"int64", <<"-", "1">>>>}
                \cup {<<"string", s>> : s \in {<<>>, <<"a">>, <<"q">>, <<"b", "nl">>}}
UptoTwo(S) == {<<>>} \cup {<<x>> : x \in S} \cup {<<x, y>> : x, y \in S}
Arrays(S)  == {<<"array", s>> : s \in UptoTwo(S)}
Objects(N, S) == {<<"object", s>> : s \in UptoTwo({<<k, v>> : k \in N, v \in S})}

\* Flat documents, nested ones, and some around the limit of the depth
Flat   == Leaves \cup Arrays(Leaves) \cup Objects({<<"a">>, <<"q">>}, Leaves)
Small  == {Null, <<"array", <<>>>>, <<"array", <<Null>>>>, <<"object", <<>>>>,
           <<"object", <<<<<<"a">>, Null>>>>>>, <<"string", <<"b">>>>}
Nested == Arrays(Small) \cup Objects({<<>>, <<"a">>}, Small)
In(S)  == {<<"array", <<t>>>> : t \in S} \cup {<<"object", <<<<<<"a">>, t>>>>>> : t \in S}

\* Texts of documents, and what one edit makes of them
Seeds == {<<"[", "null", ",", "1", "]">>,
          <<"{", "q", "a", "q", ":", "[", "]", ",", "q", "b", "b", "q", ":", "ws", "null", "}">>,
          <<"[", "{", "}", "nl", ",", "q", "b", "q", "q", "]">>}
Cut(t, i, new) == SubSeq(t, 1, i - 1) \o new \o SubSeq(t, i + 1, Len(t))
Edits(t) == UNION {{Cut(t, i, <<>>)} \cup {Cut(t, i, <<c>>) : c \in Characters}
                     \cup {Cut(t, i, <<c, t[i]>>) : c \in Characters} : i \in 1..Len(t)}

JsonTexts == INSTANCE PicoJson WITH
       asked <- text, got <- parsed, MaxDepths <- 3,
       Words <- Upto(Characters, 3) \cup Upto({"[", "]", "{", "}", ",", ":", "q", "1"}, 5)
                  \cup Upto({"-", "1", ".", "e"}, 5) \cup UNION {Edits(t) : t \in Seeds},
       Trees <- Flat \cup Nested \cup In(In(In(Nested)))

\* Escapes at the edges of every form, alone and in pairs, with digits in both
\* cases; and what is no escape: cut off, or with a character just off a digit
Units == {0, 65, 127, 128, 2047, 2048, 55295, 55296, 56319, 56320, 57343, 57344, 65535}
Digits(u, ten) == [i \in 1..4 |-> LET d == (u \div 16^(4 - i)) % 16
                                  IN IF d < 10 THEN 48 + d ELSE ten + d - 10]
Singles == {Digits(u, ten) : u \in Units, ten \in {65, 97}}
Pairs   == {Digits(u, 97) \o <<92, c>> \o Digits(v, 65) : u, v \in Units, c \in {117, 110}}
AllEscapes ==
  LET t == Digits(55357, 97) \o <<92, 117>> \o Digits(56832, 97)
  IN Singles \cup Pairs \cup {SubSeq(t, 1, n) : n \in 0..10}
       \cup {[t EXCEPT ![n] = c] : n \in 1..10, c \in {47, 58, 64, 71, 96, 103, 255}}

-----------------------------------------------------------------------------
(* Encodings: every byte alone, bytes at their edges in up to four places;  *)
(* characters of all classes, and the pieces of the percent-encoded fill.   *)

AllBinaries == [1..1 -> 0..255] \cup Upto({0, 1, 127, 128, 255}, 4)
AllEncoded  == Upto({65, 122, 57, 47, 95, 61, 42}, 5)
                 \cup {s \o f \o g \o h : s \in Upto({65, 45}, 4),
                                          f, g, h \in {<<>>, <<37, 51, 100>>, <<37, 51, 68>>}}
AllNumbers  == {<<>>, <<1>>, <<127>>, <<255>>, <<0, 1>>, <<1, 1>>, <<0, 128>>, <<255, 255>>, <<0, 0, 1>>}

-----------------------------------------------------------------------------

Init ==
  /\ part \in {"verify", "sign", "lifetime", "keys", "calls", "handles", "values",
               "escapes", "texts", "codes"}
  /\ BuilderInit /\ KeySetInit /\ CallInit /\ HandleInit /\ ValueInit
  /\ IF part = "escapes" THEN EscapeInit
     ELSE escape = <<>> /\ utf8 = [state |-> "unread", bytes |-> <<>>]
  /\ IF part = "texts" THEN JsonTexts!Init ELSE text = <<"none">> /\ parsed = <<"none">>
  /\ IF part = "codes" THEN CodeInit ELSE query = Unanswered /\ reply = Unanswered

\* A step of one part leaves the variables of the others, and part, alone.
Next ==
  \/ TokenNext
       /\ UNCHANGED <<part, keySetVars, callVars, handleVars, jsonVars, codeVars>>
  \/ part = "keys" /\ KeySetNext
       /\ UNCHANGED <<part, tokenVars, callVars, handleVars, jsonVars, codeVars>>
  \/ part = "calls" /\ CallNext
       /\ UNCHANGED <<part, tokenVars, keySetVars, handleVars, jsonVars, codeVars>>
  \/ part = "handles" /\ HandleNext
       /\ UNCHANGED <<part, tokenVars, keySetVars, callVars, jsonVars, codeVars>>
  \/ part = "values" /\ ValueNext
       /\ UNCHANGED <<part, tokenVars, keySetVars, callVars, handleVars, escapeVars, textVars, codeVars>>
  \/ part = "escapes" /\ EscapeNext
       /\ UNCHANGED <<part, tokenVars, keySetVars, callVars, handleVars, valueVars, textVars, codeVars>>
  \/ part = "texts" /\ JsonTexts!Next
       /\ UNCHANGED <<part, tokenVars, keySetVars, callVars, handleVars, valueVars, escapeVars, codeVars>>
  \/ part = "codes" /\ CodeNext
       /\ UNCHANGED <<part, tokenVars, keySetVars, callVars, handleVars, jsonVars>>

Spec == Init /\ [][Next]_<<part, tokenVars, keySetVars, callVars, handleVars, jsonVars,
                           codeVars>>

-----------------------------------------------------------------------------
(* Properties; those of the modules extended hold in all parts.             *)

\* picojson accepts exactly the texts that begin with a JSON value.
AcceptsGrammar == part = "texts" => JsonTexts!AcceptsGrammar

\* picojson reads a document as what it means, and so what it wrote itself.
ReadsMeaning == part = "texts" => JsonTexts!ReadsMeaning

=============================================================================
