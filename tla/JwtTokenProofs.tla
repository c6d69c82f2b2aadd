---------------------------- MODULE JwtTokenProofs ----------------------------
(***************************************************************************)
(* Proofs about jwt::verifier (JwtVerifier) and jwt::builder (JwtBuilder), *)
(* for any algorithms, settings, tokens, clock and length of the set-up.   *)
(*                                                                         *)
(* Verifier.  The invariant ties the verifier's maps to the history of the *)
(* calls that filled them (SetUpInv: what is stored for a name is what the *)
(* last call about it gave) and a call of verify to what it has found out  *)
(* so far (CallOK).  The theorems then need only facts about the checks:   *)
(* which result each gives, and what 64-bit counts do to dates and         *)
(* leeways.                                                                *)
(*                                                                         *)
(* Builder.  Its invariant says of every token issued what the program had *)
(* asked for when it was signed, and of a verification of such a token     *)
(* which of its checks are past; that a check cannot refuse it then        *)
(* follows from the leeway and the clock.                                  *)
(***************************************************************************)
EXTENDS JwtBuilder, WellFoundedInduction, TLAPS

-----------------------------------------------------------------------------
(* The verifier: the inductive invariant                                    *)

DateNames == {"exp", "iat", "nbf"}

\* What can stand in the history: the calls that set the verifier up
Methods == DateNames \cup {"leeway", "typ", "aud", "claim"}
Setups == {s \in Settings : s[1] \in Methods} \cup {<<"allow", a>> : a \in Algorithms}

\* i is the last allow_algorithm in hs for the algorithm name.
Allows(h, name) == h[1] = "allow" /\ h[2].name = name
LastAllow(hs, i, name) ==
  /\ i \in DOMAIN hs /\ Allows(hs[i], name)
  /\ \A j \in DOMAIN hs : Allows(hs[j], name) => j <= i

\* The types, as far as the proofs need them
SetUpOK ==
  /\ history \in Seq(Setups)
  /\ verifier = [claims |-> verifier.claims, leeway |-> verifier.leeway, algs |-> verifier.algs]

\* algs holds for a name the key of the last allow_algorithm, and a key for
\* every name that was allowed.
KeysAsAllowed ==
  /\ \A name \in DOMAIN verifier.algs :
       \E i \in DOMAIN history : LastAllow(history, i, name) /\ history[i][2].key = verifier.algs[name]
  /\ \A i \in DOMAIN history : history[i][1] = "allow" => history[i][2].name \in DOMAIN verifier.algs

\* The settings that install a check, and the check that each installs
About(h) == h[1] \notin {"allow", "leeway"} /\ ~(h[1] = "typ" /\ h[2] \in Undecodable)
Concerns(h, name) == About(h) /\ Subject(h) = name
CheckFor(h) ==
  IF h[1] = "claim" THEN <<"equals", h[3]>>
  ELSE IF h[1] = "aud" THEN <<"subset", h[2]>>
  ELSE IF h[1] = "typ" THEN <<"insensitive", Lowered[h[2]]>>
  ELSE IF h[1] = "exp" THEN <<"date_before", h[2]>>
  ELSE <<"date_after", h[2]>>

\* i is the last setting in hs about the claim name.
LastAbout(hs, i, name) ==
  /\ i \in DOMAIN hs /\ Concerns(hs[i], name)
  /\ \A j \in DOMAIN hs : Concerns(hs[j], name) => j <= i

\* claims holds for a name the check of the last setting about it, or the
\* constructor's check of a date if there was none.
ChecksInForce ==
  /\ DateNames \subseteq DOMAIN verifier.claims
  /\ \A i \in DOMAIN history : About(history[i]) => Subject(history[i]) \in DOMAIN verifier.claims
  /\ \A name \in DOMAIN verifier.claims :
       \/ \E i \in DOMAIN history : LastAbout(history, i, name) /\ verifier.claims[name] = CheckFor(history[i])
       \/ /\ name \in DateNames /\ verifier.claims[name] = <<"default", 0>>
          /\ \A i \in DOMAIN history : ~Concerns(history[i], name)

LastLeeway(hs, i) ==
  /\ i \in DOMAIN hs /\ hs[i][1] = "leeway"
  /\ \A j \in DOMAIN hs : hs[j][1] = "leeway" => j <= i

\* default_leeway is that of the last call of leeway, 0 if there was none.
LeewayInForce ==
  \/ verifier.leeway = 0 /\ \A i \in DOMAIN history : history[i][1] # "leeway"
  \/ \E i \in DOMAIN history : LastLeeway(history, i) /\ verifier.leeway = history[i][2]

SetUpInv == SetUpOK /\ KeysAsAllowed /\ ChecksInForce /\ LeewayInForce

\* The token in text, which decodes to jwt, has the signature it needs.
Vouched(text, jwt) ==
  /\ Decode(text) = <<"jwt", jwt>> /\ NumbersWhole(jwt)
  /\ HasClaim(jwt.header, "alg") /\ jwt.header["alg"][1] = "string"
  /\ jwt.header["alg"][2] \in DOMAIN verifier.algs
  /\ text[3] = SignatureOf([name |-> jwt.header["alg"][2], key |-> verifier.algs[jwt.header["alg"][2]]],
                           SubSeq(text, 1, 2))

\* Why verify returns before the claims: the token or its algorithm cannot be
\* read, the algorithm is not allowed, or the signature is another one.
Refused(text, result) ==
  LET decoded == Decode(text)
      jwt     == decoded[2]
      alg     == As("string", GetClaim(jwt.header, "alg"))
  IN \/ result = "thrown" /\ (decoded = Thrown \/ alg = Thrown)
     \/ /\ result = "wrong_algorithm" /\ decoded # Thrown
        /\ alg[2] \notin DOMAIN verifier.algs
     \/ /\ result = "signature" /\ decoded # Thrown
        /\ jwt.signature # SignatureOf([name |-> alg[2], key |-> verifier.algs[alg[2]]], jwt.data)

\* The shapes of call: back before the claims, after the signature, and while
\* and after the claims are checked
Returns == [at |-> "returned", result |-> call.result, text |-> call.text,
            begun |-> call.begun, now |-> call.now]
SignedCall == [at |-> "signed", result |-> "none", text |-> call.text, jwt |-> call.jwt,
               begun |-> call.begun]
Checking(at, result) ==
  [at |-> at, result |-> result, text |-> call.text, jwt |-> call.jwt,
   begun |-> call.begun, now |-> call.now, left |-> call.left]

Passed(name) == CheckResult(name, call.jwt, call.now) = "ok"

\* What a call of verify has established where it stands: from the signature
\* on the token is vouched for, the time of the context was read during the
\* call, the checks that are no longer left have passed, and the result is
\* acceptance only if all have, the error of a failed check otherwise.
CallOK ==
  \/ call = Idle
  \/ /\ call = Returns /\ call.result \in {"thrown", "wrong_algorithm", "signature"}
     /\ Refused(call.text, call.result)
  \/ /\ call = SignedCall
     /\ Vouched(call.text, call.jwt)
     /\ call.begun \in Nat /\ call.begun <= clock
  \/ /\ call = Checking(call.at, call.result)
     /\ Vouched(call.text, call.jwt)
     /\ call.begun <= call.now /\ call.now <= clock
     /\ call.begun \in Nat /\ call.now \in Nat
     /\ \/ /\ call.at = "checking" /\ call.result = "none"
           /\ \A name \in DOMAIN verifier.claims \ call.left : Passed(name)
        \/ /\ call.at = "returned"
           /\ \/ /\ call.result = "accepted"
                 /\ \A name \in DOMAIN verifier.claims : Passed(name)
              \/ \E name \in DOMAIN verifier.claims :
                   call.result = CheckResult(name, call.jwt, call.now) /\ ~Passed(name)

-----------------------------------------------------------------------------
(* verify keeps CallOK                                                      *)

\* The last element of a set of numbers is the one that CHOOSE finds.
LEMMA Last ==
  ASSUME NEW S, S \subseteq Nat, NEW i \in S, \A j \in S : j <= i
  PROVE  S # {} /\ (CHOOSE k \in S : \A j \in S : j <= k) = i
<1> DEFINE c == CHOOSE k \in S : \A j \in S : j <= k
<1>1. c \in S /\ \A j \in S : j <= c
  OBVIOUS
<1> HIDE DEF c
<1>2. c = i
  BY <1>1
<1> QED BY <1>2 DEF c

\* What jwt::decode returns if it does not throw
LEMMA DecodeStarts ==
  ASSUME NEW text, Decode(text) # Thrown
  PROVE  /\ Decode(text) = <<"jwt", Decode(text)[2]>>
         /\ Decode(text)[2].data = SubSeq(text, 1, 2) /\ Decode(text)[2].signature = text[3]
  BY DEF Decode

\* as_string throws unless the claim is there and a string.
LEMMA AsString ==
  ASSUME NEW claims, NEW name, As("string", GetClaim(claims, name)) # Thrown
  PROVE  /\ HasClaim(claims, name) /\ claims[name][1] = "string"
         /\ As("string", GetClaim(claims, name)) = claims[name]
<1>1. Thrown[1] # "string"
  BY DEF Thrown
<1> QED BY <1>1 DEF As, GetClaim, HasClaim

\* jwt::decode, the look-up of the algorithm and the signature: a call that
\* goes on has a token that is vouched for.
LEMMA StartInv ==
  ASSUME SetUpOK, KeysAsAllowed, CallOK, clock \in Nat, NEW text, VerifyStart(text),
         Decode(text) # Thrown => NumbersWhole(Decode(text)[2])
  PROVE  SetUpOK' /\ KeysAsAllowed' /\ CallOK'
<1>1. verifier' = verifier /\ history' = history /\ clock' = clock
  BY DEF VerifyStart
<1>2. SetUpOK' /\ KeysAsAllowed'
  BY <1>1 DEF SetUpOK, KeysAsAllowed, LastAllow
<1> DEFINE jwt == Decode(text)[2]
           alg == As("string", GetClaim(jwt.header, "alg"))
<1>3. CASE call' = [at |-> "signed", result |-> "none", text |-> text, jwt |-> jwt, begun |-> clock]
           /\ Decode(text) # Thrown /\ alg # Thrown /\ alg[2] \in DOMAIN verifier.algs
           /\ jwt.signature = SignatureOf([name |-> alg[2], key |-> verifier.algs[alg[2]]], jwt.data)
  <2>1. Vouched(text, jwt)
    BY <1>3, DecodeStarts, AsString DEF Vouched
  <2>2. Vouched(text, jwt)'
    BY <1>1, <2>1 DEF Vouched
  <2> HIDE DEF jwt
  <2>3. call'.text = text /\ call'.jwt = jwt /\ call'.begun = clock
    BY <1>3
  <2>4. (call = SignedCall)'
    BY <1>3, <2>3 DEF SignedCall
  <2> QED BY <1>1, <1>2, <2>2, <2>3, <2>4 DEF CallOK
<1>4. ASSUME NEW r \in {"thrown", "wrong_algorithm", "signature"}, Refused(text, r),
             call' = [at |-> "returned", result |-> r, text |-> text, begun |-> clock, now |-> clock]
      PROVE  CallOK'
  <2>1. (call = Returns /\ call.result \in {"thrown", "wrong_algorithm", "signature"})'
    BY <1>4 DEF Returns
  <2>2. Refused(text, r)'
    BY <1>1, <1>4 DEF Refused
  <2>3. call'.text = text /\ call'.result = r
    BY <1>4
  <2> QED BY <2>1, <2>2, <2>3 DEF CallOK
<1> QED BY <1>2, <1>3, <1>4 DEF VerifyStart, Refused

\* The verifier and its history stay; what a call relies on stays with them.
LEMMA SameVerifier ==
  ASSUME SetUpOK, KeysAsAllowed, verifier' = verifier, history' = history
  PROVE  /\ SetUpOK' /\ KeysAsAllowed'
         /\ \A text, jwt : Vouched(text, jwt) => Vouched(text, jwt)'
         /\ \A name, jwt, now : CheckResult(name, jwt, now)' = CheckResult(name, jwt, now)
  BY DEF SetUpOK, KeysAsAllowed, LastAllow, Vouched, CheckResult

\* The context takes the time during the call.
LEMMA ContextInv ==
  ASSUME SetUpOK, KeysAsAllowed, CallOK, clock \in Nat, VerifyContext
  PROVE  CallOK'
<1>1. call = SignedCall /\ Vouched(call.text, call.jwt) /\ call.begun \in Nat /\ call.begun <= clock
  BY DEF CallOK, VerifyContext, Idle, Returns, Checking
<1>2. /\ call'.at = "checking" /\ call'.result = "none" /\ call'.text = call.text
      /\ call'.jwt = call.jwt /\ call'.begun = call.begun /\ call'.now = clock
      /\ call'.left = DOMAIN verifier.claims
      /\ (call = Checking(call.at, call.result))'
      /\ verifier' = verifier /\ history' = history /\ clock' = clock
  BY DEF VerifyContext, Checking
<1>3. Vouched(call.text, call.jwt)'
  BY <1>1, <1>2 DEF Vouched
<1> QED BY <1>1, <1>2, <1>3 DEF CallOK

\* A check that passes is no longer left, one that fails gives the result.
LEMMA CheckInv ==
  ASSUME SetUpOK, KeysAsAllowed, CallOK, clock \in Nat,
         NEW name \in DOMAIN verifier.claims, CheckClaim(name)
  PROVE  CallOK'
<1> DEFINE result == CheckResult(name, call.jwt, call.now)
<1>1. /\ call = Checking("checking", "none") /\ Vouched(call.text, call.jwt)
      /\ call.begun \in Nat /\ call.now \in Nat /\ call.begun <= call.now /\ call.now <= clock
      /\ \A n \in DOMAIN verifier.claims \ call.left : Passed(n)
  BY DEF CallOK, CheckClaim, Idle, Returns, SignedCall, Checking
<1>2. verifier' = verifier /\ history' = history /\ clock' = clock
  BY DEF CheckClaim
<1>3. \A n, jwt, now : CheckResult(n, jwt, now)' = CheckResult(n, jwt, now)
  BY <1>2, SameVerifier
<1>4. CASE result = "ok"
  <2>1. call' = [call EXCEPT !.left = @ \ {name}]
    BY <1>4 DEF CheckClaim
  <2>2. /\ call'.at = "checking" /\ call'.result = "none" /\ call'.text = call.text
        /\ call'.jwt = call.jwt /\ call'.begun = call.begun /\ call'.now = call.now
        /\ call'.left = call.left \ {name} /\ (call = Checking(call.at, call.result))'
    BY <1>1, <2>1 DEF Checking
  <2>3. Vouched(call.text, call.jwt)'
    BY <1>1, <1>2, <2>2 DEF Vouched
  <2>4. \A n \in DOMAIN verifier.claims \ call'.left : Passed(n)'
    BY <1>1, <1>3, <1>4, <2>2 DEF Passed
  <2> QED BY <1>1, <1>2, <2>2, <2>3, <2>4 DEF CallOK
<1>5. CASE result # "ok"
  <2>1. call' = [call EXCEPT !.at = "returned", !.result = result]
    BY <1>5 DEF CheckClaim
  <2> HIDE DEF result
  <2>2. /\ call'.at = "returned" /\ call'.result = result /\ call'.text = call.text
        /\ call'.jwt = call.jwt /\ call'.begun = call.begun /\ call'.now = call.now
        /\ call'.left = call.left /\ (call = Checking(call.at, call.result))'
    BY <1>1, <2>1 DEF Checking
  <2>3. Vouched(call.text, call.jwt)'
    BY <1>1, <1>2, <2>2 DEF Vouched
  <2>4. (call.result = CheckResult(name, call.jwt, call.now) /\ ~Passed(name))'
    BY <1>3, <1>5, <2>2 DEF Passed, result
  <2> QED BY <1>1, <1>2, <2>2, <2>3, <2>4 DEF CallOK
<1> QED BY <1>4, <1>5

\* Acceptance, once no check is left
LEMMA AcceptInv ==
  ASSUME SetUpOK, KeysAsAllowed, CallOK, clock \in Nat, Accept
  PROVE  CallOK'
<1>1. /\ call = Checking("checking", "none") /\ Vouched(call.text, call.jwt)
      /\ call.begun \in Nat /\ call.now \in Nat /\ call.begun <= call.now /\ call.now <= clock
      /\ \A n \in DOMAIN verifier.claims : Passed(n)
  BY DEF CallOK, Accept, Idle, Returns, SignedCall, Checking
<1>2. verifier' = verifier /\ history' = history /\ clock' = clock
  BY DEF Accept
<1>3. \A n, jwt, now : CheckResult(n, jwt, now)' = CheckResult(n, jwt, now)
  BY <1>2, SameVerifier
<1>4. call' = [call EXCEPT !.at = "returned", !.result = "accepted"]
  BY DEF Accept
<1>5. /\ call'.at = "returned" /\ call'.result = "accepted" /\ call'.text = call.text
      /\ call'.jwt = call.jwt /\ call'.begun = call.begun /\ call'.now = call.now
      /\ call'.left = call.left /\ (call = Checking(call.at, call.result))'
  BY <1>1, <1>4 DEF Checking
<1>6. Vouched(call.text, call.jwt)'
  BY <1>1, <1>2, <1>5 DEF Vouched
<1>7. \A n \in DOMAIN verifier'.claims : Passed(n)'
  BY <1>1, <1>2, <1>3, <1>5 DEF Passed
<1> QED BY <1>1, <1>2, <1>5, <1>6, <1>7 DEF CallOK

-----------------------------------------------------------------------------
(* Setting up keeps SetUpInv                                                *)

\* The history with one call more
LEMMA Appended ==
  ASSUME SetUpOK, NEW h \in Setups, history' = Append(history, h)
  PROVE  /\ history' \in Seq(Setups)
         /\ Len(history) \in Nat
         /\ DOMAIN history = 1..Len(history)
         /\ DOMAIN history' = 1..(Len(history) + 1)
         /\ \A i \in DOMAIN history : history'[i] = history[i]
         /\ history'[Len(history) + 1] = h
  BY DEF SetUpOK

\* The new call is the last of its kind; the last calls of other kinds stay
\* the last.
LEMMA KeptByAppend ==
  ASSUME SetUpOK, NEW h \in Setups, history' = Append(history, h)
  PROVE  /\ \A i, name : LastAllow(history, i, name) /\ ~Allows(h, name) => LastAllow(history', i, name)
         /\ \A i, name : LastAbout(history, i, name) /\ ~Concerns(h, name) => LastAbout(history', i, name)
         /\ \A i : LastLeeway(history, i) /\ h[1] # "leeway" => LastLeeway(history', i)
         /\ \A name : Allows(h, name) => LastAllow(history', Len(history) + 1, name)
         /\ \A name : Concerns(h, name) => LastAbout(history', Len(history) + 1, name)
         /\ h[1] = "leeway" => LastLeeway(history', Len(history) + 1)
<1> DEFINE n == Len(history)
<1>1. /\ n \in Nat /\ DOMAIN history = 1..n /\ DOMAIN history' = 1..(n + 1)
      /\ \A i \in DOMAIN history : history'[i] = history[i]
      /\ history'[n + 1] = h
  BY Appended
<1> HIDE DEF n
<1>2. /\ \A i \in 1..n : i \in 1..(n + 1) /\ i <= n + 1
      /\ \A i \in 1..(n + 1) : i \in 1..n \/ i = n + 1
      /\ n + 1 \in 1..(n + 1) /\ n + 1 <= n + 1
  BY <1>1
<1>3. /\ \A i, name : LastAllow(history, i, name) /\ ~Allows(h, name) => LastAllow(history', i, name)
      /\ \A name : Allows(h, name) => LastAllow(history', n + 1, name)
  BY <1>1, <1>2 DEF LastAllow
<1>4. /\ \A i, name : LastAbout(history, i, name) /\ ~Concerns(h, name) => LastAbout(history', i, name)
      /\ \A name : Concerns(h, name) => LastAbout(history', n + 1, name)
  BY <1>1, <1>2 DEF LastAbout
<1>5. /\ \A i : LastLeeway(history, i) /\ h[1] # "leeway" => LastLeeway(history', i)
      /\ h[1] = "leeway" => LastLeeway(history', n + 1)
  BY <1>1, <1>2 DEF LastLeeway
<1> QED BY <1>3, <1>4, <1>5 DEF n

\* A setting that installs a check
LEMMA CheckSet ==
  ASSUME SetUpInv, NEW h \in Setups, About(h), history' = Append(history, h),
         verifier' = WithCheck(Subject(h), CheckFor(h))
  PROVE  SetUpInv'
<1> DEFINE n == Len(history)
<1>1. /\ n \in Nat /\ DOMAIN history = 1..n /\ DOMAIN history' = 1..(n + 1)
      /\ \A i \in DOMAIN history : history'[i] = history[i]
      /\ history'[n + 1] = h /\ history' \in Seq(Setups)
  BY Appended DEF SetUpInv
<1>2. /\ \A i \in 1..n : i \in 1..(n + 1)
      /\ \A i \in 1..(n + 1) : i \in 1..n \/ i = n + 1
      /\ n + 1 \in 1..(n + 1)
  BY <1>1
<1>3. /\ h[1] # "allow" /\ h[1] # "leeway" /\ Concerns(h, Subject(h))
      /\ \A name : Concerns(h, name) => name = Subject(h)
  BY DEF About, Concerns
<1>4. /\ \A i, name : LastAllow(history, i, name) => LastAllow(history', i, name)
      /\ \A i, name : LastAbout(history, i, name) /\ name # Subject(h) => LastAbout(history', i, name)
      /\ \A i : LastLeeway(history, i) => LastLeeway(history', i)
      /\ LastAbout(history', n + 1, Subject(h))
  BY <1>3, KeptByAppend DEF SetUpInv, Allows
<1> HIDE DEF n
<1>5. /\ verifier'.leeway = verifier.leeway /\ verifier'.algs = verifier.algs
      /\ DOMAIN verifier'.claims = DOMAIN verifier.claims \cup {Subject(h)}
      /\ verifier'.claims[Subject(h)] = CheckFor(h)
      /\ \A name \in DOMAIN verifier.claims :
           name # Subject(h) => verifier'.claims[name] = verifier.claims[name]
      /\ verifier' = [claims |-> verifier'.claims, leeway |-> verifier'.leeway, algs |-> verifier'.algs]
  BY DEF SetUpInv, SetUpOK, WithCheck
<1>6. SetUpOK'
  BY <1>1, <1>5 DEF SetUpOK
<1>7. KeysAsAllowed'
  BY <1>1, <1>2, <1>3, <1>4, <1>5 DEF KeysAsAllowed, SetUpInv
<1>8. LeewayInForce'
  BY <1>1, <1>2, <1>3, <1>4, <1>5 DEF LeewayInForce, SetUpInv
<1>9. ChecksInForce'
  <2>1. (DateNames \subseteq DOMAIN verifier.claims)'
    BY <1>5 DEF ChecksInForce, SetUpInv
  <2>2. \A i \in DOMAIN history' : About(history'[i]) => Subject(history'[i]) \in DOMAIN verifier'.claims
    BY <1>1, <1>2, <1>5 DEF ChecksInForce, SetUpInv
  <2>3. ASSUME NEW name \in DOMAIN verifier'.claims, name # Subject(h)
        PROVE  \/ \E i \in DOMAIN history' : LastAbout(history', i, name) /\ verifier'.claims[name] = CheckFor(history'[i])
               \/ /\ name \in DateNames /\ verifier'.claims[name] = <<"default", 0>>
                  /\ \A i \in DOMAIN history' : ~Concerns(history'[i], name)
    BY <1>1, <1>2, <1>3, <1>4, <1>5, <2>3 DEF ChecksInForce, SetUpInv
  <2>4. \E i \in DOMAIN history' : LastAbout(history', i, Subject(h)) /\ verifier'.claims[Subject(h)] = CheckFor(history'[i])
    BY <1>1, <1>2, <1>4, <1>5
  <2> QED BY <2>1, <2>2, <2>3, <2>4 DEF ChecksInForce
<1> QED BY <1>6, <1>7, <1>8, <1>9 DEF SetUpInv

\* A call that installs none: leeway, allow_algorithm, or a with_type that throws
LEMMA OtherSet ==
  ASSUME SetUpInv, NEW h \in Setups, ~About(h), history' = Append(history, h),
         verifier' = [claims |-> verifier.claims, leeway |-> verifier'.leeway, algs |-> verifier'.algs],
         IF h[1] = "leeway" THEN verifier'.leeway = h[2] ELSE verifier'.leeway = verifier.leeway,
         IF h[1] = "allow"
         THEN verifier'.algs = [n \in DOMAIN verifier.algs \cup {h[2].name} |->
                                  IF n = h[2].name THEN h[2].key ELSE verifier.algs[n]]
         ELSE verifier'.algs = verifier.algs
  PROVE  SetUpInv'
<1> DEFINE n == Len(history)
<1>1. /\ n \in Nat /\ DOMAIN history = 1..n /\ DOMAIN history' = 1..(n + 1)
      /\ \A i \in DOMAIN history : history'[i] = history[i]
      /\ history'[n + 1] = h /\ history' \in Seq(Setups)
  BY Appended DEF SetUpInv
<1>2. /\ \A i \in 1..n : i \in 1..(n + 1)
      /\ \A i \in 1..(n + 1) : i \in 1..n \/ i = n + 1
      /\ n + 1 \in 1..(n + 1)
  BY <1>1
<1>3. /\ \A name : ~Concerns(h, name)
      /\ \A i, name : LastAllow(history, i, name) /\ ~Allows(h, name) => LastAllow(history', i, name)
      /\ \A i, name : LastAbout(history, i, name) => LastAbout(history', i, name)
      /\ \A i : LastLeeway(history, i) /\ h[1] # "leeway" => LastLeeway(history', i)
      /\ \A name : Allows(h, name) => LastAllow(history', n + 1, name)
      /\ h[1] = "leeway" => LastLeeway(history', n + 1)
  BY KeptByAppend DEF SetUpInv, Concerns
<1> HIDE DEF n
<1>4. verifier'.claims = verifier.claims
  OBVIOUS
<1>5. SetUpOK'
  BY <1>1, <1>4 DEF SetUpOK
<1>6. KeysAsAllowed'
  <2>1. CASE h[1] = "allow"
    <3>1. /\ DOMAIN verifier'.algs = DOMAIN verifier.algs \cup {h[2].name}
          /\ verifier'.algs[h[2].name] = h[2].key
          /\ \A m \in DOMAIN verifier.algs : m # h[2].name => verifier'.algs[m] = verifier.algs[m]
      BY <2>1
    <3>2. \A m : Allows(h, m) <=> m = h[2].name
      BY <2>1 DEF Allows
    <3> QED BY <1>1, <1>2, <1>3, <3>1, <3>2 DEF KeysAsAllowed, SetUpInv
  <2>2. CASE h[1] # "allow"
    BY <1>1, <1>2, <1>3, <2>2 DEF KeysAsAllowed, SetUpInv, Allows
  <2> QED BY <2>1, <2>2
<1>7. LeewayInForce'
  BY <1>1, <1>2, <1>3 DEF LeewayInForce, SetUpInv
<1>8. ChecksInForce'
  BY <1>1, <1>2, <1>3, <1>4 DEF ChecksInForce, SetUpInv, Concerns
<1> QED BY <1>5, <1>6, <1>7, <1>8 DEF SetUpInv

\* Every call that sets the verifier up keeps the invariant, between two
\* calls of verify.
LEMMA SetUpStep ==
  ASSUME SetUpInv, SetUp
  PROVE  SetUpInv' /\ call' = call /\ call.at = "idle" /\ clock' = clock
<1>1. ASSUME NEW s \in Settings, s[1] = "leeway", Leeway(s[2])
      PROVE  SetUpInv' /\ call' = call /\ call.at = "idle" /\ clock' = clock
  <2> DEFINE h == <<"leeway", s[2]>>
  <2>1. /\ h \in Settings /\ history' = Append(history, h) /\ call' = call /\ clock' = clock
        /\ call.at = "idle" /\ verifier' = [verifier EXCEPT !.leeway = s[2]]
    BY <1>1 DEF Leeway, SettingUp
  <2>2. h[1] = "leeway" /\ h[2] = s[2]
    OBVIOUS
  <2> HIDE DEF h
  <2>3. h \in Setups /\ ~About(h)
    BY <2>1, <2>2 DEF Setups, Methods, About
  <2>4. /\ verifier' = [claims |-> verifier.claims, leeway |-> verifier'.leeway, algs |-> verifier'.algs]
        /\ verifier'.leeway = h[2] /\ verifier'.algs = verifier.algs
    BY <2>1, <2>2 DEF SetUpInv, SetUpOK
  <2> QED BY <2>1, <2>2, <2>3, <2>4, OtherSet
<1>2. ASSUME NEW s \in Settings, s[1] \in {"exp", "nbf", "iat"}, DateLeeway(s[1], s[2])
      PROVE  SetUpInv' /\ call' = call /\ call.at = "idle" /\ clock' = clock
  <2> DEFINE h == <<s[1], s[2]>>
  <2>1. /\ h \in Settings /\ history' = Append(history, h) /\ call' = call /\ clock' = clock
        /\ call.at = "idle"
        /\ verifier' = WithCheck(s[1], <<IF s[1] = "exp" THEN "date_before" ELSE "date_after", s[2]>>)
    BY <1>2 DEF DateLeeway, SettingUp
  <2>2. h[1] = s[1] /\ h[2] = s[2]
    OBVIOUS
  <2> HIDE DEF h
  <2>3. h \in Setups /\ About(h) /\ Subject(h) = s[1]
    BY <1>2, <2>1, <2>2 DEF Setups, Methods, DateNames, About, Subject
  <2>4. CheckFor(h) = <<IF s[1] = "exp" THEN "date_before" ELSE "date_after", s[2]>>
    BY <1>2, <2>2 DEF CheckFor
  <2> QED BY <2>1, <2>3, <2>4, CheckSet
<1>3. ASSUME NEW s \in Settings, s[1] = "typ", WithType(s[2])
      PROVE  SetUpInv' /\ call' = call /\ call.at = "idle" /\ clock' = clock
  <2> DEFINE h == <<"typ", s[2]>>
  <2>1. /\ h \in Settings /\ history' = Append(history, h) /\ call' = call /\ clock' = clock
        /\ call.at = "idle"
        /\ verifier' = IF ToLowerUnicode(s[2]) = Thrown THEN verifier
                       ELSE WithCheck("typ", <<"insensitive", ToLowerUnicode(s[2])[2]>>)
    BY <1>3 DEF WithType, SettingUp
  <2>2. h[1] = "typ" /\ h[2] = s[2]
    OBVIOUS
  <2> HIDE DEF h
  <2>3. h \in Setups
    BY <2>1, <2>2 DEF Setups, Methods
  <2>4. CASE s[2] \in Undecodable
    <3>1. verifier' = verifier /\ ~About(h)
      BY <2>1, <2>2, <2>4 DEF ToLowerUnicode, About
    <3>2. verifier' = [claims |-> verifier.claims, leeway |-> verifier'.leeway, algs |-> verifier'.algs]
      BY <3>1 DEF SetUpInv, SetUpOK
    <3> QED BY <2>1, <2>2, <2>3, <3>1, <3>2, OtherSet
  <2>5. CASE s[2] \notin Undecodable
    <3>1. ToLowerUnicode(s[2]) # Thrown /\ ToLowerUnicode(s[2])[2] = Lowered[s[2]]
      BY <2>5 DEF ToLowerUnicode, Thrown
    <3>2. About(h) /\ Subject(h) = "typ" /\ CheckFor(h) = <<"insensitive", Lowered[s[2]]>>
      BY <2>2, <2>5 DEF About, Subject, CheckFor
    <3> QED BY <2>1, <2>3, <3>1, <3>2, CheckSet
  <2> QED BY <2>4, <2>5
<1>4. ASSUME NEW s \in Settings, s[1] = "aud", WithAudience(s[2])
      PROVE  SetUpInv' /\ call' = call /\ call.at = "idle" /\ clock' = clock
  <2> DEFINE h == <<"aud", s[2]>>
  <2>1. /\ h \in Settings /\ history' = Append(history, h) /\ call' = call /\ clock' = clock
        /\ call.at = "idle" /\ verifier' = WithCheck("aud", <<"subset", s[2]>>)
    BY <1>4 DEF WithAudience, SettingUp
  <2>2. h[1] = "aud" /\ h[2] = s[2]
    OBVIOUS
  <2> HIDE DEF h
  <2>3. h \in Setups /\ About(h) /\ Subject(h) = "aud" /\ CheckFor(h) = <<"subset", s[2]>>
    BY <2>1, <2>2 DEF Setups, Methods, About, Subject, CheckFor
  <2> QED BY <2>1, <2>3, CheckSet
<1>5. ASSUME NEW s \in Settings, s[1] = "claim", WithClaim(s[2], s[3])
      PROVE  SetUpInv' /\ call' = call /\ call.at = "idle" /\ clock' = clock
  <2> DEFINE h == <<"claim", s[2], s[3]>>
  <2>1. /\ h \in Settings /\ history' = Append(history, h) /\ call' = call /\ clock' = clock
        /\ call.at = "idle" /\ verifier' = WithCheck(s[2], <<"equals", s[3]>>)
    BY <1>5 DEF WithClaim, SettingUp
  <2>2. h[1] = "claim" /\ h[2] = s[2] /\ h[3] = s[3]
    OBVIOUS
  <2> HIDE DEF h
  <2>3. h \in Setups /\ About(h) /\ Subject(h) = s[2] /\ CheckFor(h) = <<"equals", s[3]>>
    BY <2>1, <2>2 DEF Setups, Methods, About, Subject, CheckFor
  <2> QED BY <2>1, <2>3, CheckSet
<1>6. ASSUME NEW a \in Algorithms, AllowAlgorithm(a)
      PROVE  SetUpInv' /\ call' = call /\ call.at = "idle" /\ clock' = clock
  <2> DEFINE h == <<"allow", a>>
  <2>1. /\ history' = Append(history, h) /\ call' = call /\ clock' = clock /\ call.at = "idle"
        /\ verifier' = [verifier EXCEPT !.algs = [n \in DOMAIN verifier.algs \cup {a.name} |->
                          IF n = a.name THEN a.key ELSE verifier.algs[n]]]
    BY <1>6 DEF AllowAlgorithm
  <2>2. h[1] = "allow" /\ h[2] = a /\ h \in Setups
    BY DEF Setups
  <2> HIDE DEF h
  <2>3. ~About(h)
    BY <2>2 DEF About
  <2>4. /\ verifier' = [claims |-> verifier.claims, leeway |-> verifier'.leeway, algs |-> verifier'.algs]
        /\ verifier'.leeway = verifier.leeway
        /\ verifier'.algs = [n \in DOMAIN verifier.algs \cup {a.name} |->
                               IF n = a.name THEN a.key ELSE verifier.algs[n]]
    BY <2>1 DEF SetUpInv, SetUpOK
  <2> QED BY <2>1, <2>2, <2>3, <2>4, OtherSet
<1> QED BY <1>1, <1>2, <1>3, <1>4, <1>5, <1>6 DEF SetUp

-----------------------------------------------------------------------------
(* The invariant                                                            *)

VerifierInv == SetUpInv /\ CallOK /\ clock \in Nat

\* The constructor's verifier: the checks of dates, no algorithm
LEMMA VerifierInitInv == ASSUME VerifierInit PROVE VerifierInv
<1>1. history = <<>> /\ call = Idle /\ clock = 0
  BY DEF VerifierInit
<1>2. /\ verifier.claims = [name \in DateNames |-> <<"default", 0>>]
      /\ verifier.leeway = 0 /\ verifier.algs = <<>>
      /\ verifier = [claims |-> verifier.claims, leeway |-> verifier.leeway, algs |-> verifier.algs]
  BY DEF VerifierInit, DateNames
<1>3. history \in Seq(Setups) /\ DOMAIN history = {} /\ DOMAIN verifier.algs = {}
  BY <1>1, <1>2
<1>4. \A name \in DateNames : name \in DOMAIN verifier.claims /\ verifier.claims[name] = <<"default", 0>>
  BY <1>2
<1>5. DOMAIN verifier.claims = DateNames
  BY <1>2
<1> QED BY <1>1, <1>2, <1>3, <1>4, <1>5
        DEF VerifierInv, SetUpInv, SetUpOK, KeysAsAllowed, ChecksInForce, LeewayInForce, CallOK

\* Nothing but the call or the clock changes.
LEMMA SameSetUp ==
  ASSUME SetUpInv, verifier' = verifier, history' = history
  PROVE  SetUpInv'
  BY DEF SetUpInv, SetUpOK, KeysAsAllowed, ChecksInForce, LeewayInForce

\* The clock runs on.
LEMMA TickInv ==
  ASSUME VerifierInv, clock' \in Nat, clock <= clock',
         verifier' = verifier, history' = history, call' = call
  PROVE  VerifierInv'
<1>1. SetUpInv'
  BY SameSetUp DEF VerifierInv
<1>2. /\ \A text, jwt : Vouched(text, jwt) => Vouched(text, jwt)'
      /\ \A name, jwt, now : CheckResult(name, jwt, now)' = CheckResult(name, jwt, now)
  BY SameVerifier DEF VerifierInv, SetUpInv
<1>3. CASE call = Idle
  BY <1>1, <1>3 DEF CallOK, VerifierInv, Idle
<1>4. CASE call = Returns /\ call.result \in {"thrown", "wrong_algorithm", "signature"}
           /\ Refused(call.text, call.result)
  <2>1. Refused(call.text, call.result)'
    BY <1>4 DEF Refused
  <2>2. (call = Returns)'
    BY <1>4 DEF Returns
  <2> QED BY <1>1, <1>4, <2>1, <2>2 DEF CallOK, VerifierInv
<1>5. CASE call = SignedCall /\ Vouched(call.text, call.jwt) /\ call.begun \in Nat /\ call.begun <= clock
  <2>1. (call = SignedCall)' /\ Vouched(call.text, call.jwt)' /\ call'.begun <= clock'
    BY <1>2, <1>5 DEF SignedCall, VerifierInv
  <2> QED BY <1>1, <1>5, <2>1 DEF CallOK, VerifierInv
<1>6. CASE /\ call = Checking(call.at, call.result) /\ Vouched(call.text, call.jwt)
           /\ call.begun <= call.now /\ call.now <= clock /\ call.begun \in Nat /\ call.now \in Nat
           /\ \/ /\ call.at = "checking" /\ call.result = "none"
                 /\ \A name \in DOMAIN verifier.claims \ call.left : Passed(name)
              \/ /\ call.at = "returned"
                 /\ \/ /\ call.result = "accepted"
                       /\ \A name \in DOMAIN verifier.claims : Passed(name)
                    \/ \E name \in DOMAIN verifier.claims :
                         call.result = CheckResult(name, call.jwt, call.now) /\ ~Passed(name)
  <2>1. (call = Checking(call.at, call.result))' /\ Vouched(call.text, call.jwt)' /\ call.now <= clock'
    BY <1>2, <1>6 DEF Checking, VerifierInv
  <2>2. \A name : Passed(name)' = Passed(name)
    BY <1>2 DEF Passed
  <2> QED BY <1>1, <1>2, <1>6, <2>1, <2>2 DEF CallOK, VerifierInv
<1> QED BY <1>3, <1>4, <1>5, <1>6 DEF VerifierInv, CallOK

\* So does every step of verify, whichever tokens are handed in.
LEMMA VerifyStep ==
  ASSUME VerifierInv, NEW texts, Verify(texts),
         \A text \in texts : Decode(text) # Thrown => NumbersWhole(Decode(text)[2])
  PROVE  VerifierInv' /\ UNCHANGED <<verifier, history, clock>>
<1>0. SetUpInv /\ CallOK /\ clock \in Nat /\ SetUpOK /\ KeysAsAllowed
  BY DEF VerifierInv, SetUpInv
<1>1. verifier' = verifier /\ history' = history /\ clock' = clock
  BY DEF Verify, VerifyStart, VerifyContext, CheckClaim, Accept, Done
<1>2. SetUpInv'
  BY <1>0, <1>1, SameSetUp
<1>3. ASSUME NEW text \in texts, VerifyStart(text) PROVE CallOK'
  BY <1>0, <1>3, StartInv
<1>4. ASSUME VerifyContext PROVE CallOK'
  BY <1>0, <1>4, ContextInv
<1>5. ASSUME NEW name \in DOMAIN verifier.claims, CheckClaim(name) PROVE CallOK'
  BY <1>0, <1>5, CheckInv
<1>6. ASSUME Accept PROVE CallOK'
  BY <1>0, <1>6, AcceptInv
<1>7. ASSUME Done PROVE CallOK'
  BY <1>7 DEF Done, CallOK, Idle
<1> QED BY <1>0, <1>1, <1>2, <1>3, <1>4, <1>5, <1>6, <1>7 DEF Verify, VerifierInv

\* So does every call that sets the verifier up.
LEMMA SetUpKeeps ==
  ASSUME VerifierInv, SetUp
  PROVE  VerifierInv' /\ call = Idle /\ call' = Idle /\ clock' = clock
<1>1. SetUpInv' /\ call' = call /\ call.at = "idle" /\ clock' = clock
  BY SetUpStep DEF VerifierInv
<1>2. call = Idle
  BY <1>1 DEF VerifierInv, CallOK, Returns, SignedCall, Checking
<1> QED BY <1>1, <1>2 DEF VerifierInv, CallOK, Idle

\* Every step keeps the invariant.
LEMMA VerifierStep == ASSUME VerifierInv, [VerifierNext]_verifierVars PROVE VerifierInv'
<1>1. CASE SetUp
  BY <1>1, SetUpKeeps
<1>2. CASE Verify(Texts)
  BY <1>2, VerifyStep, VerifierAssumption
<1>3. CASE Tick
  BY <1>3, TickInv DEF Tick, VerifierInv
<1>4. CASE UNCHANGED verifierVars
  BY <1>4, TickInv DEF verifierVars, VerifierInv
<1> QED BY <1>1, <1>2, <1>3, <1>4 DEF VerifierNext

\* The inductive invariant holds throughout.
LEMMA VerifierInvariant == VerifierSpec => []VerifierInv
<1>1. VerifierInit => VerifierInv
  BY VerifierInitInv
<1>2. VerifierInv /\ [VerifierNext]_verifierVars => VerifierInv'
  BY VerifierStep
<1> QED BY <1>1, <1>2, PTL DEF VerifierSpec

-----------------------------------------------------------------------------
(* Signatures                                                               *)

\* A token that verify (jwt.h) accepts carries the signature, over the two
\* parts that stand in it, of the algorithm that its header names with the key
\* that the last allow_algorithm gave for that name: no earlier key for the
\* name, no key of another algorithm, and no unsigned part ever counts.
THEOREM KeysDecide == VerifierSpec => []SignedWithAllowedKey
<1>1. ASSUME VerifierInv PROVE SignedWithAllowedKey
  <2> SUFFICES ASSUME Accepted
               PROVE LET alg  == Jwt.header["alg"][2]
                         last == LastSetting(LAMBDA h : h[1] = "allow" /\ h[2].name = alg)
                     IN /\ last # 0
                        /\ IF alg = "none" THEN call.text[3] = <<"text", "">>
                           ELSE call.text[3] = <<"sig", [name |-> alg, key |-> history[last][2].key,
                                                         data |-> SubSeq(call.text, 1, 2)]>>
    BY DEF SignedWithAllowedKey
  <2>1. Vouched(call.text, call.jwt)
    BY <1>1 DEF VerifierInv, CallOK, Accepted, Returned, Idle, SignedCall
  <2>2. Jwt = call.jwt
    BY <2>1 DEF Vouched, Jwt
  <2> DEFINE alg == Jwt.header["alg"][2]
             those == {i \in DOMAIN history : history[i][1] = "allow" /\ history[i][2].name = alg}
  <2>3. PICK i \in DOMAIN history : LastAllow(history, i, alg) /\ history[i][2].key = verifier.algs[alg]
    BY <1>1, <2>1, <2>2 DEF VerifierInv, SetUpInv, KeysAsAllowed, Vouched
  <2>4. those \subseteq Nat /\ i \in those /\ \A j \in those : j <= i
    BY <1>1, <2>3 DEF LastAllow, Allows, VerifierInv, SetUpInv, SetUpOK
  <2>5. LastSetting(LAMBDA h : h[1] = "allow" /\ h[2].name = alg) = i /\ i # 0
    <3>1. those # {} /\ (CHOOSE k \in those : \A j \in those : j <= k) = i
      BY <2>4, Last
    <3>2. i # 0
      BY <1>1, <2>3 DEF VerifierInv, SetUpInv, SetUpOK
    <3> QED BY <3>1, <3>2 DEF LastSetting
  <2>6. call.text[3] = SignatureOf([name |-> alg, key |-> verifier.algs[alg]], SubSeq(call.text, 1, 2))
    BY <2>1, <2>2 DEF Vouched
  <2> QED BY <2>3, <2>5, <2>6 DEF SignatureOf
<1> QED BY <1>1, VerifierInvariant, PTL

-----------------------------------------------------------------------------
(* Dates: what counts of clock ticks that wrap round make of them           *)

\* A date in the clock's range stays as it is.
LEMMA WrapSmall ==
  ASSUME NEW d \in Int, -MaxDate - 1 <= d, d <= MaxDate
  PROVE  Wrap(d) = d
<1>0. MaxDate \in Nat
  BY VerifierAssumption
<1>1. d + MaxDate + 1 \in Nat /\ d + MaxDate + 1 < 2 * MaxDate + 2
  BY <1>0
<1>2. (d + MaxDate + 1) % (2 * MaxDate + 2) = d + MaxDate + 1
  BY <1>0, <1>1
<1> QED BY <1>0, <1>2 DEF Wrap

\* Whatever is computed ends up in the clock's range.
LEMMA WrapRange ==
  ASSUME NEW d \in Int
  PROVE  Wrap(d) \in -MaxDate - 1 .. MaxDate
<1>0. MaxDate \in Nat
  BY VerifierAssumption
<1>1. (d + MaxDate + 1) % (2 * MaxDate + 2) \in 0..(2 * MaxDate + 1)
  BY <1>0, 2 * MaxDate + 2 > 0
<1> QED BY <1>0, <1>1 DEF Wrap

\* Rounding a number of halves
LEMMA RoundHalves ==
  ASSUME NEW v, v[1] = "number", v[2] \in Int
  PROVE  Round(v[2]) \in Int /\ Halves(v) = 2 * Round(v[2])
<1>0. PICK n \in Int : n = v[2]
  OBVIOUS
<1>1. PICK q \in Int : n = 2 * q \/ n = 2 * q + 1
  <2>1. n % 2 \in 0..1 /\ n = 2 * (n \div 2) + (n % 2) /\ n \div 2 \in Int
    OBVIOUS
  <2> QED BY <2>1
<1>2. Halves(v) = IF n % 2 = 0 THEN n ELSE IF n > 0 THEN n + 1 ELSE n - 1
  BY <1>0 DEF Halves
<1>3. Round(n) = IF n >= 0 THEN (n + 1) \div 2 ELSE -((1 - n) \div 2)
  BY DEF Round
<1>4. ASSUME n = 2 * q PROVE Round(n) \in Int /\ Halves(v) = 2 * Round(n)
  <2>1. n % 2 = 0 /\ (n + 1) \div 2 = q /\ (1 - n) \div 2 = -q
    BY <1>4
  <2> QED BY <1>2, <1>3, <1>4, <2>1
<1>5. ASSUME n = 2 * q + 1 PROVE Round(n) \in Int /\ Halves(v) = 2 * Round(n)
  <2>1. n % 2 = 1 /\ (n + 1) \div 2 = q + 1 /\ (1 - n) \div 2 = -q
    BY <1>5
  <2> QED BY <1>2, <1>3, <1>5, <2>1
<1>6. Round(n) \in Int /\ Halves(v) = 2 * Round(n)
  BY <1>1, <1>4, <1>5
<1> QED BY <1>0, <1>6

\* The seconds that as_date makes of a date claim
LEMMA DateSeconds ==
  ASSUME NEW v, v[1] \in {"integer", "number"}, v[2] \in Int
  PROVE  /\ Halves(v) \div 2 \in Int /\ Halves(v) = 2 * (Halves(v) \div 2)
         /\ AsDate(v) = <<"date", FromTimeT(Halves(v) \div 2)>> /\ AsDate(v) # Thrown
<1>1. PICK seconds \in Int : Halves(v) = 2 * seconds /\ AsDate(v) = <<"date", FromTimeT(seconds)>>
  <2>1. CASE v[1] = "integer"
    BY <2>1 DEF Halves, AsDate
  <2>2. CASE v[1] = "number"
    BY <2>2, RoundHalves DEF AsDate
  <2> QED BY <2>1, <2>2
<1>2. (2 * seconds) \div 2 = seconds
  OBVIOUS
<1> QED BY <1>1, <1>2 DEF Thrown

\* Dates in the clock's range and leeways of any size: a wrap round never makes
\* a check weaker than it is meant to be.
LEMMA DateMeant ==
  ASSUME NEW seconds \in Int, NEW leeway \in Nat, NEW now \in Nat,
         2 * seconds * Ticks \in 0..2 * MaxDate
  PROVE  /\ ~ExpiredAt(now, FromTimeT(seconds), leeway)
              => 2 * now <= 2 * seconds * Ticks + leeway * 2 * Ticks
         /\ ~TooEarlyAt(now, FromTimeT(seconds), leeway)
              => 2 * now >= 2 * seconds * Ticks - leeway * 2 * Ticks
<1>0. MaxDate \in Nat /\ Ticks \in Nat
  BY VerifierAssumption
<1> DEFINE d == seconds * Ticks
           l == leeway * Ticks
<1>1. d \in Int /\ l \in Nat /\ 2 * seconds * Ticks = 2 * d /\ leeway * 2 * Ticks = 2 * l
  BY <1>0
<1>2. d \in 0..MaxDate
  BY <1>0, <1>1
<1>3. FromTimeT(seconds) = Wrap(d)
  BY DEF FromTimeT
<1>4. /\ ~ExpiredAt(now, FromTimeT(seconds), leeway) => ~(now > Wrap(FromTimeT(seconds) + l))
      /\ ~TooEarlyAt(now, FromTimeT(seconds), leeway) => ~(now < Wrap(FromTimeT(seconds) - l))
  BY DEF ExpiredAt, TooEarlyAt
<1> HIDE DEF d, l
<1>5. FromTimeT(seconds) = d
  BY <1>0, <1>2, <1>3, WrapSmall
<1>6. ASSUME now <= Wrap(d + l) PROVE now <= d + l
  <2>1. CASE d + l <= MaxDate
    <3>1. Wrap(d + l) = d + l
      BY <1>0, <1>1, <1>2, <2>1, WrapSmall
    <3> QED BY <1>6, <3>1
  <2>2. CASE d + l > MaxDate
    <3>1. Wrap(d + l) \in -MaxDate - 1 .. MaxDate
      BY <1>1, WrapRange
    <3> QED BY <1>0, <1>1, <1>6, <2>2, <3>1
  <2> QED BY <1>0, <1>1, <2>1, <2>2
<1>7. ASSUME now >= Wrap(d - l) PROVE now >= d - l
  <2>1. CASE d - l >= -MaxDate - 1
    <3>1. Wrap(d - l) = d - l
      BY <1>0, <1>1, <1>2, <2>1, WrapSmall
    <3> QED BY <1>7, <3>1
  <2>2. CASE d - l < -MaxDate - 1
    BY <1>0, <1>1, <2>2
  <2> QED BY <1>0, <1>1, <2>1, <2>2
<1>8. Wrap(d + l) \in Int /\ Wrap(d - l) \in Int
  BY <1>0, <1>1, WrapRange
<1>9. /\ ~ExpiredAt(now, FromTimeT(seconds), leeway) => now <= d + l
      /\ ~TooEarlyAt(now, FromTimeT(seconds), leeway) => now >= d - l
  BY <1>4, <1>5, <1>6, <1>7, <1>8
<1>10. now <= d + l => 2 * now <= 2 * d + 2 * l
  BY <1>1
<1>11. now >= d - l => 2 * now >= 2 * d - 2 * l
  BY <1>1
<1> QED BY <1>1, <1>9, <1>10, <1>11

\* The leeway asked for is that of the setting whose check is in place,
LEMMA OwnLeeway ==
  ASSUME SetUpOK, NEW name \in DateNames, NEW i, LastAbout(history, i, name),
         history[i][1] = name
  PROVE  LeewayAsked(name) = history[i][2]
<1> DEFINE those == {j \in DOMAIN history : history[j][1] = name}
<1>1. DOMAIN history \subseteq Nat \ {0}
  BY DEF SetUpOK
<1>2. \A j \in those : Concerns(history[j], name)
  BY DEF Concerns, About, Subject, DateNames
<1>3. those \subseteq Nat /\ i \in those /\ i # 0 /\ \A j \in those : j <= i
  BY <1>1, <1>2 DEF LastAbout
<1>4. LastSetting(LAMBDA h : h[1] = name) = i
  <2>1. those # {} /\ (CHOOSE k \in those : \A j \in those : j <= k) = i
    BY <1>3, Last
  <2> QED BY <2>1 DEF LastSetting
<1> QED BY <1>3, <1>4 DEF LeewayAsked

\* default_leeway is the last leeway for all,
LEMMA LeewayOfAll ==
  ASSUME SetUpOK, LeewayInForce
  PROVE  verifier.leeway = IF LastSetting(LAMBDA h : h[1] = "leeway") = 0 THEN 0
                           ELSE history[LastSetting(LAMBDA h : h[1] = "leeway")][2]
<1> DEFINE those == {j \in DOMAIN history : history[j][1] = "leeway"}
<1>1. DOMAIN history \subseteq Nat \ {0}
  BY DEF SetUpOK
<1>2. CASE verifier.leeway = 0 /\ \A i \in DOMAIN history : history[i][1] # "leeway"
  <2>1. those = {}
    BY <1>2
  <2> QED BY <1>2, <2>1 DEF LastSetting
<1>3. CASE \E i \in DOMAIN history : LastLeeway(history, i) /\ verifier.leeway = history[i][2]
  <2>1. PICK i \in DOMAIN history : LastLeeway(history, i) /\ verifier.leeway = history[i][2]
    BY <1>3
  <2>2. those \subseteq Nat /\ i \in those /\ i # 0 /\ \A j \in those : j <= i
    BY <1>1, <2>1 DEF LastLeeway
  <2>3. those # {} /\ (CHOOSE k \in those : \A j \in those : j <= k) = i
    BY <2>2, Last
  <2>4. LastSetting(LAMBDA h : h[1] = "leeway") = i
    BY <2>3 DEF LastSetting
  <2> QED BY <2>1, <2>2, <2>4
<1> QED BY <1>2, <1>3 DEF LeewayInForce

\* and it is the one asked for where the constructor's check is in place.
LEMMA DefaultLeeway ==
  ASSUME SetUpOK, LeewayInForce, NEW name \in DateNames,
         \A i \in DOMAIN history : ~Concerns(history[i], name)
  PROVE  LeewayAsked(name) = verifier.leeway
<1> DEFINE those == {j \in DOMAIN history : history[j][1] = name}
<1>1. those = {}
  BY DEF Concerns, About, Subject, DateNames
<1>2. LastSetting(LAMBDA h : h[1] = name) = 0
  BY <1>1 DEF LastSetting
<1> QED BY <1>2, LeewayOfAll DEF LeewayAsked

\* A leeway is a natural number, whoever gave it.
LEMMA LeewayNat ==
  ASSUME SetUpInv
  PROVE  /\ verifier.leeway \in Nat
         /\ \A i \in DOMAIN history : history[i][1] \in DateNames => history[i][2] \in Nat
<1>1. ASSUME NEW i \in DOMAIN history, history[i][1] \in DateNames \cup {"leeway"}
      PROVE  history[i][2] \in Nat
  <2>1. history[i] \in Setups
    BY DEF SetUpInv, SetUpOK
  <2>2. history[i] \in Settings
    BY <1>1, <2>1 DEF Setups, DateNames
  <2> QED BY <1>1, <2>2, VerifierAssumption DEF DateNames
<1> QED BY <1>1 DEF SetUpInv, LeewayInForce, LastLeeway

\* A set of numbers up to n has a last one.
LEMMA LastExists ==
  ASSUME NEW n \in Nat, NEW S, S \subseteq 1..n, S # {}
  PROVE  \E i \in S : \A j \in S : j <= i
<1> DEFINE T == {n - j : j \in S}
           R == OpToRel(<, Nat)
<1>1. T \subseteq Nat /\ T # {}
  <2>1. \A j \in S : n - j \in Nat
    OBVIOUS
  <2> QED BY <2>1
<1>2. IsWellFoundedOn(R, Nat)
  BY NatLessThanWellFounded
<1>3. PICK x \in T : \A y \in T : ~(<<y, x>> \in R)
  BY <1>1, <1>2, WFMin
<1>4. PICK i \in S : x = n - i
  BY <1>3
<1>5. ASSUME NEW j \in S PROVE j <= i
  <2>1. n - j \in T /\ n - j \in Nat /\ x \in Nat
    BY <1>1, <1>3
  <2>2. ~(<<n - j, x>> \in R)
    BY <1>3, <2>1
  <2>3. ~(n - j < x)
    BY <2>1, <2>2 DEF OpToRel
  <2> QED BY <1>4, <2>3
<1> QED BY <1>5

\* No check reports acceptance.
LEMMA NeverAccepted ==
  ASSUME SetUpInv, NEW name \in DOMAIN verifier.claims, NEW jwt, NEW now
  PROVE  CheckResult(name, jwt, now) # "accepted"
<1> DEFINE kinds == {"default", "date_before", "date_after", "subset", "insensitive", "equals"}
<1>1. verifier.claims[name][1] \in kinds
  <2>1. \A h : CheckFor(h)[1] \in kinds
    BY DEF CheckFor
  <2>2. <<"default", 0>>[1] \in kinds
    OBVIOUS
  <2> QED BY <2>1, <2>2 DEF SetUpInv, ChecksInForce
<1>2. \A claims, type : TypedClaimError(claims, name, type) # "accepted"
  BY DEF TypedClaimError
<1>3. \A claims, l : /\ DefaultDateCheck(claims, name, now, l) # "accepted"
                     /\ DateBeforeClaim(claims, name, now, l) # "accepted"
                     /\ DateAfterClaim(claims, name, now, l) # "accepted"
  BY <1>2 DEF DefaultDateCheck, DateBeforeClaim, DateAfterClaim
<1>4. \A claims, e : /\ IsSubsetClaim(claims, name, e) # "accepted"
                     /\ InsensitiveStringClaim(claims, name, e) # "accepted"
                     /\ EqualsClaim(claims, name, e) # "accepted"
  BY <1>2 DEF IsSubsetClaim, InsensitiveStringClaim, EqualsClaim
<1> QED BY <1>1, <1>3, <1>4 DEF CheckResult

\* What a check of a date that came out well says.
LEMMA DatePassed ==
  ASSUME NEW jwt, NumbersWhole(jwt), NEW name \in DateNames, HasClaim(jwt.payload, name),
         NEW now, NEW leeway,
         \/ DefaultDateCheck(jwt.payload, name, now, leeway) = "ok"
         \/ name = "exp" /\ DateBeforeClaim(jwt.payload, name, now, leeway) = "ok"
         \/ name # "exp" /\ DateAfterClaim(jwt.payload, name, now, leeway) = "ok"
  PROVE  /\ jwt.payload[name][1] \in {"integer", "number"} /\ jwt.payload[name][2] \in Int
         /\ IF name = "exp" THEN ~ExpiredAt(now, AsDate(jwt.payload[name])[2], leeway)
                            ELSE ~TooEarlyAt(now, AsDate(jwt.payload[name])[2], leeway)
<1> DEFINE v == jwt.payload[name]
<1>1. CASE DefaultDateCheck(jwt.payload, name, now, leeway) = "ok"
  <2>1. AsDate(v) # Thrown
    BY <1>1 DEF DefaultDateCheck
  <2>2. v[1] \in {"integer", "number"}
    BY <2>1 DEF AsDate
  <2>3. v[2] \in Int
    BY <2>2 DEF NumbersWhole, HasClaim
  <2>4. IF name = "exp" THEN ~ExpiredAt(now, AsDate(v)[2], leeway)
                        ELSE ~TooEarlyAt(now, AsDate(v)[2], leeway)
    BY <1>1, <2>1 DEF DefaultDateCheck
  <2> QED BY <2>2, <2>3, <2>4
<1>2. CASE \/ name = "exp" /\ DateBeforeClaim(jwt.payload, name, now, leeway) = "ok"
           \/ name # "exp" /\ DateAfterClaim(jwt.payload, name, now, leeway) = "ok"
  <2>1. TypedClaimError(jwt.payload, name, "integer") = "ok"
    BY <1>2 DEF DateBeforeClaim, DateAfterClaim
  <2>2. v[1] = "integer"
    BY <2>1 DEF TypedClaimError, GetType
  <2>3. v[2] \in Int
    BY <2>2 DEF NumbersWhole, HasClaim
  <2>4. IF name = "exp" THEN ~ExpiredAt(now, AsDate(v)[2], leeway)
                        ELSE ~TooEarlyAt(now, AsDate(v)[2], leeway)
    BY <1>2, <2>1 DEF DateBeforeClaim, DateAfterClaim
  <2> QED BY <2>2, <2>3, <2>4
<1> QED BY <1>1, <1>2

\* A date is checked with the leeway that was asked for, unless with_claim
\* compares it instead.
LEMMA DateChecked ==
  ASSUME SetUpInv, NEW name \in DateNames, NEW jwt, NEW now,
         CheckResult(name, jwt, now) = "ok",
         \A i \in DOMAIN history : ~(history[i][1] = "claim" /\ history[i][2] = name)
  PROVE  /\ LeewayAsked(name) \in Nat
         /\ \/ DefaultDateCheck(jwt.payload, name, now, LeewayAsked(name)) = "ok"
            \/ name = "exp" /\ DateBeforeClaim(jwt.payload, name, now, LeewayAsked(name)) = "ok"
            \/ name # "exp" /\ DateAfterClaim(jwt.payload, name, now, LeewayAsked(name)) = "ok"
<1>0. name \in DOMAIN verifier.claims
  BY DEF SetUpInv, ChecksInForce
<1>1. CASE \E i \in DOMAIN history :
             LastAbout(history, i, name) /\ verifier.claims[name] = CheckFor(history[i])
  <2>1. PICK i \in DOMAIN history :
          LastAbout(history, i, name) /\ verifier.claims[name] = CheckFor(history[i])
    BY <1>1
  <2>2. history[i][1] = name
    BY <2>1 DEF LastAbout, Concerns, Subject
  <2>3. LeewayAsked(name) = history[i][2] /\ history[i][2] \in Nat
    BY <2>1, <2>2, OwnLeeway, LeewayNat DEF SetUpInv
  <2>4. verifier.claims[name]
          = IF name = "exp" THEN <<"date_before", history[i][2]>> ELSE <<"date_after", history[i][2]>>
    BY <2>1, <2>2 DEF CheckFor, DateNames
  <2>5. CASE name = "exp"
    <3>1. verifier.claims[name][1] = "date_before" /\ verifier.claims[name][2] = history[i][2]
      BY <2>4, <2>5
    <3>2. CheckResult(name, jwt, now) = DateBeforeClaim(jwt.payload, name, now, history[i][2])
      BY <3>1 DEF CheckResult
    <3> QED BY <2>3, <2>5, <3>2
  <2>6. CASE name # "exp"
    <3>1. verifier.claims[name][1] = "date_after" /\ verifier.claims[name][2] = history[i][2]
      BY <2>4, <2>6
    <3>2. CheckResult(name, jwt, now) = DateAfterClaim(jwt.payload, name, now, history[i][2])
      BY <3>1 DEF CheckResult
    <3> QED BY <2>3, <2>6, <3>2
  <2> QED BY <2>5, <2>6
<1>2. CASE /\ verifier.claims[name] = <<"default", 0>>
           /\ \A i \in DOMAIN history : ~Concerns(history[i], name)
  <2>1. LeewayAsked(name) = verifier.leeway /\ verifier.leeway \in Nat
    BY <1>2, DefaultLeeway, LeewayNat DEF SetUpInv
  <2>2. verifier.claims[name][1] = "default"
    BY <1>2
  <2>3. CheckResult(name, jwt, now) = DefaultDateCheck(jwt.payload, name, now, verifier.leeway)
    BY <2>2 DEF CheckResult
  <2> QED BY <2>1, <2>3
<1> QED BY <1>0, <1>1, <1>2 DEF SetUpInv, ChecksInForce

\* A token that verify accepts was valid, in every date it has and with the
\* leeway that was asked for that date, at one single instant between the
\* beginning of the call and now: the time that verify_context has cached, in
\* whatever order the unordered_map gives the checks and however the clock
\* runs between them.  Leeways of any size are covered: a sum that wraps round
\* makes a token be refused, never accepted too late.
THEOREM OneInstant == VerifierSpec => []ValidAtOneInstant
<1>1. ASSUME VerifierInv PROVE ValidAtOneInstant
  <2> SUFFICES ASSUME Accepted
               PROVE  \E now \in call.begun..clock :
                        \A name \in {"exp", "iat", "nbf"} \cap DOMAIN Jwt.payload :
                          LET at     == Halves(Jwt.payload[name]) * Ticks
                              leeway == LeewayAsked(name) * 2 * Ticks
                          IN \/ LastSetting(LAMBDA h : h[1] = "claim" /\ h[2] = name) # 0
                             \/ at \notin 0..2*MaxDate
                             \/ IF name = "exp" THEN 2 * now <= at + leeway ELSE 2 * now >= at - leeway
    BY DEF ValidAtOneInstant
  <2>1. /\ Vouched(call.text, call.jwt) /\ call.now \in call.begun..clock /\ call.now \in Nat
        /\ \A name \in DOMAIN verifier.claims : Passed(name)
    <3>1. call.at = "returned" /\ call.result = "accepted" /\ SetUpInv /\ clock \in Nat
      BY <1>1 DEF VerifierInv, Accepted, Returned
    <3>2. /\ Vouched(call.text, call.jwt) /\ call.begun <= call.now /\ call.now <= clock
          /\ call.begun \in Nat /\ call.now \in Nat
          /\ \/ \A name \in DOMAIN verifier.claims : Passed(name)
             \/ \E name \in DOMAIN verifier.claims : call.result = CheckResult(name, call.jwt, call.now)
      BY <1>1, <3>1 DEF VerifierInv, CallOK, Idle, SignedCall
    <3> QED BY <3>1, <3>2, NeverAccepted
  <2>2. Jwt = call.jwt
    BY <2>1 DEF Vouched, Jwt
  <2>3. ASSUME NEW name \in DateNames, name \in DOMAIN Jwt.payload,
               LastSetting(LAMBDA h : h[1] = "claim" /\ h[2] = name) = 0,
               Halves(Jwt.payload[name]) * Ticks \in 0..2*MaxDate
        PROVE  IF name = "exp"
               THEN 2 * call.now <= Halves(Jwt.payload[name]) * Ticks + LeewayAsked(name) * 2 * Ticks
               ELSE 2 * call.now >= Halves(Jwt.payload[name]) * Ticks - LeewayAsked(name) * 2 * Ticks
    <3> DEFINE v == Jwt.payload[name]
               those == {i \in DOMAIN history : history[i][1] = "claim" /\ history[i][2] = name}
    <3>1. \A i \in DOMAIN history : ~(history[i][1] = "claim" /\ history[i][2] = name)
      <4> SUFFICES ASSUME those # {} PROVE FALSE
        OBVIOUS
      <4>1. DOMAIN history = 1..Len(history) /\ Len(history) \in Nat
        BY <1>1 DEF VerifierInv, SetUpInv, SetUpOK
      <4>2. PICK i \in those : \A j \in those : j <= i
        BY <4>1, LastExists
      <4>3. (CHOOSE k \in those : \A j \in those : j <= k) = i /\ i # 0
        BY <4>1, <4>2, Last
      <4>4. LastSetting(LAMBDA h : h[1] = "claim" /\ h[2] = name) = i
        BY <4>3 DEF LastSetting
      <4> QED BY <2>3, <4>3, <4>4
    <3>2. CheckResult(name, Jwt, call.now) = "ok"
      BY <1>1, <2>1, <2>2 DEF Passed, VerifierInv, SetUpInv, ChecksInForce
    <3>3. /\ LeewayAsked(name) \in Nat
          /\ \/ DefaultDateCheck(Jwt.payload, name, call.now, LeewayAsked(name)) = "ok"
             \/ name = "exp" /\ DateBeforeClaim(Jwt.payload, name, call.now, LeewayAsked(name)) = "ok"
             \/ name # "exp" /\ DateAfterClaim(Jwt.payload, name, call.now, LeewayAsked(name)) = "ok"
      BY <1>1, <3>1, <3>2, DateChecked DEF VerifierInv
    <3>4. /\ v[1] \in {"integer", "number"} /\ v[2] \in Int
          /\ IF name = "exp" THEN ~ExpiredAt(call.now, AsDate(v)[2], LeewayAsked(name))
                             ELSE ~TooEarlyAt(call.now, AsDate(v)[2], LeewayAsked(name))
      BY <2>1, <2>2, <2>3, <3>3, DatePassed DEF HasClaim, Vouched
    <3> DEFINE seconds == Halves(v) \div 2
    <3>5. seconds \in Int /\ Halves(v) = 2 * seconds /\ AsDate(v)[2] = FromTimeT(seconds)
      BY <3>4, DateSeconds
    <3> HIDE DEF seconds
    <3>6. 2 * seconds * Ticks \in 0..2 * MaxDate
      BY <2>3, <3>5
    <3>7. /\ ~ExpiredAt(call.now, FromTimeT(seconds), LeewayAsked(name))
               => 2 * call.now <= 2 * seconds * Ticks + LeewayAsked(name) * 2 * Ticks
          /\ ~TooEarlyAt(call.now, FromTimeT(seconds), LeewayAsked(name))
               => 2 * call.now >= 2 * seconds * Ticks - LeewayAsked(name) * 2 * Ticks
      BY <2>1, <3>3, <3>5, <3>6, DateMeant
    <3> QED BY <3>4, <3>5, <3>7
  <2> QED BY <2>1, <2>3 DEF DateNames
<1> QED BY <1>1, VerifierInvariant, PTL

-----------------------------------------------------------------------------
(* A check comes out well exactly if its setting is met, unless code and    *)
(* comments disagree about it.                                              *)

\* verify_context::get_claim with a type: there, and of the type
LEMMA TypedOk ==
  ASSUME NEW claims, NEW name, NEW type, type \notin {"null", "thrown"}
  PROVE  TypedClaimError(claims, name, type) = "ok" <=> HasClaim(claims, name) /\ claims[name][1] = type
  BY DEF TypedClaimError, GetType

\* with_claim, with_issuer, with_subject, with_id
LEMMA EqualsMeets ==
  ASSUME NEW h, h[1] = "claim", NEW jwt, NEW now, ~Disputed(h, jwt)
  PROVE  EqualsClaim(jwt.payload, h[2], h[3]) = "ok" <=> Meets(h, jwt, now)
<1> DEFINE p == jwt.payload
           v == p[h[2]]
           e == h[3]
<1>1. Meets(h, jwt, now) <=> h[2] \in DOMAIN p /\ v = e
  BY DEF Meets
<1>2. h[2] \in DOMAIN p =>
        /\ ~(v = e /\ GetType(e) = "thrown")
        /\ ~(v # e /\ v[1] = e[1] /\ v[1] \in {"array", "object"} /\ Serialized(v) = Serialized(e))
  BY DEF Disputed
<1>3. CASE GetType(e) = "thrown"
  <2>1. EqualsClaim(p, h[2], e) = "thrown"
    BY <1>3 DEF EqualsClaim
  <2> QED BY <1>1, <1>2, <1>3, <2>1
<1>4. CASE GetType(e) # "thrown"
  <2>1. TypedClaimError(p, h[2], e[1]) = "ok" <=> h[2] \in DOMAIN p /\ v[1] = e[1]
    BY <1>4, TypedOk DEF GetType, HasClaim
  <2>2. EqualsClaim(p, h[2], e) = "ok" <=>
          /\ h[2] \in DOMAIN p /\ v[1] = e[1]
          /\ IF e[1] \in {"array", "object"} THEN Serialized(e) = Serialized(v) ELSE e = v
    BY <1>4, <2>1 DEF EqualsClaim
  <2> QED BY <1>1, <1>2, <1>4, <2>2
<1> QED BY <1>3, <1>4

\* with_type
LEMMA TypeMeets ==
  ASSUME NEW h, h[1] = "typ", NEW jwt, NEW now, ~Disputed(h, jwt),
         h[2] \notin Undecodable
  PROVE  InsensitiveStringClaim(jwt.header, "typ", Lowered[h[2]]) = "ok" <=> Meets(h, jwt, now)
<1> DEFINE v == jwt.header["typ"]
           there == "typ" \in DOMAIN jwt.header
<1>1. Meets(h, jwt, now) <=> there /\ v[1] = "string" /\ v[2] = h[2]
  BY DEF Meets
<1>2. there /\ v[1] = "string" => ~(v[2] # h[2] /\ v[2] \notin Undecodable /\ Lowered[v[2]] = Lowered[h[2]])
  BY DEF Disputed
<1>3. TypedClaimError(jwt.header, "typ", "string") = "ok" <=> there /\ v[1] = "string"
  BY TypedOk DEF HasClaim
<1>4. ToLowerUnicode(v[2]) = Thrown <=> v[2] \in Undecodable
  BY DEF ToLowerUnicode, Thrown
<1>5. v[2] \notin Undecodable =>
        (ToLowerUnicode(v[2]) = <<"string", Lowered[h[2]]>> <=> Lowered[v[2]] = Lowered[h[2]])
  BY DEF ToLowerUnicode
<1>6. InsensitiveStringClaim(jwt.header, "typ", Lowered[h[2]]) = "ok" <=>
        there /\ v[1] = "string" /\ v[2] \notin Undecodable /\ Lowered[v[2]] = Lowered[h[2]]
  BY <1>3, <1>4, <1>5 DEF InsensitiveStringClaim
<1> QED BY <1>1, <1>2, <1>6

\* with_audience
LEMMA AudienceMeets ==
  ASSUME NEW h, h[1] = "aud", NEW jwt, NEW now, ~Disputed(h, jwt)
  PROVE  IsSubsetClaim(jwt.payload, "aud", h[2]) = "ok" <=> Meets(h, jwt, now)
<1> DEFINE v == jwt.payload["aud"]
           strings == \A i \in DOMAIN v[2] : v[2][i][1] = "string"
<1>1. Meets(h, jwt, now) <=>
        /\ "aud" \in DOMAIN jwt.payload
        /\ \/ v[1] = "string" /\ h[2] \subseteq {v[2]}
           \/ /\ v[1] = "array" /\ strings
              /\ \A a \in h[2] : \E i \in DOMAIN v[2] : v[2][i][2] = a
  BY DEF Meets
<1>5. ~(h[2] = {} /\ "aud" \in DOMAIN jwt.payload /\ v[1] = "string")
  BY DEF Disputed
<1>2. CASE "aud" \notin DOMAIN jwt.payload
  BY <1>1, <1>2 DEF IsSubsetClaim, HasClaim
<1>3. CASE "aud" \in DOMAIN jwt.payload
  <2>1. GetClaim(jwt.payload, "aud") = v
    BY <1>3 DEF GetClaim
  <2>2. CASE v[1] = "string"
    <3>1. h[2] \subseteq {v[2]} <=> h[2] = {v[2]}
      BY <1>3, <1>5, <2>2
    <3> QED BY <1>1, <1>3, <2>1, <2>2, <3>1 DEF IsSubsetClaim, HasClaim
  <2>3. CASE v[1] = "array"
    <3>1. AsSet(v) = Thrown <=> ~strings
      BY <2>3 DEF AsSet, Thrown
    <3>2. strings => AsSet(v)[2] = {v[2][i][2] : i \in DOMAIN v[2]}
      BY <2>3 DEF AsSet
    <3>3. IsSubsetClaim(jwt.payload, "aud", h[2]) = "ok" <=> strings /\ h[2] \subseteq AsSet(v)[2]
      BY <1>3, <2>1, <2>3, <3>1 DEF IsSubsetClaim, HasClaim
    <3>4. strings => (h[2] \subseteq AsSet(v)[2] <=> \A a \in h[2] : \E i \in DOMAIN v[2] : v[2][i][2] = a)
      BY <3>2
    <3> QED BY <1>1, <1>3, <2>3, <3>3, <3>4
  <2>4. CASE v[1] \notin {"string", "array"}
    BY <1>1, <1>3, <2>1, <2>4 DEF IsSubsetClaim, HasClaim
  <2> QED BY <2>2, <2>3, <2>4
<1> QED BY <1>2, <1>3

\* What the comparisons of a date that the token has come to
LEMMA DateCompared ==
  ASSUME NEW jwt, NEW name \in DOMAIN jwt.payload, NumbersWhole(jwt),
         jwt.payload[name][1] \in {"integer", "number"}, NEW now \in Nat, NEW leeway \in Nat
  PROVE  LET date == AsDate(jwt.payload[name])
         IN /\ date # Thrown
            /\ DateFits(name, jwt, now, leeway) <=>
                 IF name = "exp" THEN ~ExpiredAt(now, date[2], leeway)
                 ELSE ~TooEarlyAt(now, date[2], leeway)
<1> DEFINE v == jwt.payload[name]
           date == Wrap((Halves(v) \div 2) * Ticks)
           l == leeway * Ticks
<1>1. v[2] \in Int
  BY DEF NumbersWhole
<1>2. AsDate(v) # Thrown /\ AsDate(v)[2] = date
  BY <1>1, DateSeconds DEF FromTimeT
<1>3. Halves(v) \div 2 \in Int /\ Ticks \in Nat /\ MaxDate \in Nat
  BY <1>1, DateSeconds, VerifierAssumption
<1>4. date \in Int /\ l \in Int
  BY <1>3, WrapRange
<1>5. /\ ExpiredAt(now, date, leeway) <=> now > Wrap(date + l)
      /\ TooEarlyAt(now, date, leeway) <=> now < Wrap(date - l)
      /\ DateFits(name, jwt, now, leeway) <=>
           IF name = "exp" THEN now <= Wrap(date + l) ELSE now >= Wrap(date - l)
  BY DEF ExpiredAt, TooEarlyAt, DateFits
<1> HIDE DEF date, l
<1>6. Wrap(date + l) \in Int /\ Wrap(date - l) \in Int
  BY <1>3, <1>4, WrapRange
<1> QED BY <1>2, <1>5, <1>6

\* expires_at_leeway, issued_at_leeway, not_before_leeway
LEMMA DateMeets ==
  ASSUME NEW h, h[1] \in DateNames, h[2] \in Nat, NEW jwt, NumbersWhole(jwt), NEW now \in Nat,
         ~Disputed(h, jwt)
  PROVE  /\ h[1] = "exp" =>
              (DateBeforeClaim(jwt.payload, h[1], now, h[2]) = "ok" <=> Meets(h, jwt, now))
         /\ h[1] # "exp" =>
              (DateAfterClaim(jwt.payload, h[1], now, h[2]) = "ok" <=> Meets(h, jwt, now))
<1> DEFINE name == h[1]
           v == jwt.payload[name]
<1>1. name \in DOMAIN jwt.payload /\ v[1] # "number"
  BY DEF Disputed, DateNames
<1>2. Meets(h, jwt, now) <=> DateFits(name, jwt, now, h[2])
  BY DEF Meets, DateNames
<1>3. TypedClaimError(jwt.payload, name, "integer") = "ok" <=> v[1] = "integer"
  BY <1>1, TypedOk DEF HasClaim
<1>4. CASE v[1] # "integer"
  <2>1. DateBeforeClaim(jwt.payload, name, now, h[2]) # "ok" /\ DateAfterClaim(jwt.payload, name, now, h[2]) # "ok"
    BY <1>3, <1>4 DEF DateBeforeClaim, DateAfterClaim
  <2>2. ~DateFits(name, jwt, now, h[2])
    BY <1>1, <1>4 DEF DateFits
  <2> QED BY <1>2, <2>1, <2>2
<1>5. CASE v[1] = "integer"
  <2>1. /\ DateBeforeClaim(jwt.payload, name, now, h[2]) = "ok" <=> ~ExpiredAt(now, AsDate(v)[2], h[2])
        /\ DateAfterClaim(jwt.payload, name, now, h[2]) = "ok" <=> ~TooEarlyAt(now, AsDate(v)[2], h[2])
    BY <1>3, <1>5 DEF DateBeforeClaim, DateAfterClaim
  <2>2. DateFits(name, jwt, now, h[2]) <=> IF name = "exp" THEN ~ExpiredAt(now, AsDate(v)[2], h[2])
                                           ELSE ~TooEarlyAt(now, AsDate(v)[2], h[2])
    BY <1>1, <1>5, DateCompared
  <2> QED BY <1>2, <2>1, <2>2
<1> QED BY <1>4, <1>5

\* The check that a setting has installed comes out well exactly if the
\* setting is met.
LEMMA InstalledMeets ==
  ASSUME SetUpInv, NEW i \in DOMAIN history, NEW name, LastAbout(history, i, name),
         verifier.claims[name] = CheckFor(history[i]),
         NEW jwt, NumbersWhole(jwt), NEW now \in Nat, ~Disputed(history[i], jwt)
  PROVE  CheckResult(name, jwt, now) = "ok" <=> Meets(history[i], jwt, now)
<1> DEFINE h == history[i]
<1>1. About(h) /\ Subject(h) = name
  BY DEF LastAbout, Concerns
<1>2. h \in Setups
  BY DEF SetUpInv, SetUpOK
<1>3. h[1] \in DateNames \cup {"typ", "aud", "claim"}
  BY <1>1, <1>2 DEF About, Setups, Methods
<1>4. h[1] \in DateNames => h[2] \in Nat
  BY LeewayNat
<1>5. verifier.claims[name] = CheckFor(h)
  OBVIOUS
<1> HIDE DEF h
<1>6. CASE h[1] = "claim"
  <2>1. name = h[2] /\ verifier.claims[name][1] = "equals" /\ verifier.claims[name][2] = h[3]
    BY <1>1, <1>5, <1>6 DEF Subject, CheckFor
  <2>2. CheckResult(name, jwt, now) = EqualsClaim(jwt.payload, h[2], h[3])
    BY <2>1 DEF CheckResult
  <2> QED BY <1>6, <2>2, EqualsMeets DEF h
<1>7. CASE h[1] = "aud"
  <2>1. name = "aud" /\ verifier.claims[name][1] = "subset" /\ verifier.claims[name][2] = h[2]
    BY <1>1, <1>5, <1>7 DEF Subject, CheckFor
  <2>2. CheckResult(name, jwt, now) = IsSubsetClaim(jwt.payload, "aud", h[2])
    BY <2>1 DEF CheckResult
  <2> QED BY <1>7, <2>2, AudienceMeets DEF h
<1>8. CASE h[1] = "typ"
  <2>1. /\ name = "typ" /\ verifier.claims[name][1] = "insensitive"
        /\ verifier.claims[name][2] = Lowered[h[2]]
    BY <1>1, <1>5, <1>8 DEF Subject, CheckFor
  <2>2. CheckResult(name, jwt, now) = InsensitiveStringClaim(jwt.header, "typ", Lowered[h[2]])
    BY <2>1 DEF CheckResult
  <2>3. h[2] \notin Undecodable
    BY <1>1, <1>8 DEF About
  <2> QED BY <1>8, <2>2, <2>3, TypeMeets DEF h
<1>9. CASE h[1] = "exp"
  <2>1. name = h[1] /\ verifier.claims[name][1] = "date_before" /\ verifier.claims[name][2] = h[2]
    BY <1>1, <1>5, <1>9 DEF Subject, CheckFor
  <2>2. CheckResult(name, jwt, now) = DateBeforeClaim(jwt.payload, h[1], now, h[2])
    BY <2>1 DEF CheckResult
  <2>3. h[1] \in DateNames
    BY <1>9 DEF DateNames
  <2> QED BY <1>4, <1>9, <2>2, <2>3, DateMeets DEF h
<1>10. CASE h[1] \in {"iat", "nbf"}
  <2>1. name = h[1] /\ verifier.claims[name][1] = "date_after" /\ verifier.claims[name][2] = h[2]
    BY <1>1, <1>5, <1>10 DEF Subject, CheckFor
  <2>2. CheckResult(name, jwt, now) = DateAfterClaim(jwt.payload, h[1], now, h[2])
    BY <2>1 DEF CheckResult
  <2>3. h[1] \in DateNames /\ h[1] # "exp"
    BY <1>10 DEF DateNames
  <2> QED BY <1>4, <2>2, <2>3, DateMeets DEF h
<1> QED BY <1>3, <1>6, <1>7, <1>8, <1>9, <1>10 DEF DateNames

\* A check of the constructor's comes out well exactly if the date fits.
LEMMA DefaultMeets ==
  ASSUME SetUpInv, NEW name \in DateNames, verifier.claims[name] = <<"default", 0>>,
         NEW jwt, NumbersWhole(jwt), NEW now \in Nat
  PROVE  CheckResult(name, jwt, now) = "ok" <=> DateFits(name, jwt, now, verifier.leeway)
<1> DEFINE v == jwt.payload[name]
<1>1. verifier.claims[name][1] = "default"
  OBVIOUS
<1>2. CheckResult(name, jwt, now) = DefaultDateCheck(jwt.payload, name, now, verifier.leeway)
  BY <1>1 DEF CheckResult
<1>3. CASE name \notin DOMAIN jwt.payload
  BY <1>2, <1>3 DEF DefaultDateCheck, HasClaim, DateFits
<1>4. CASE name \in DOMAIN jwt.payload /\ v[1] \notin {"integer", "number"}
  <2>1. AsDate(v) = Thrown
    BY <1>4 DEF AsDate
  <2>2. DefaultDateCheck(jwt.payload, name, now, verifier.leeway) = "thrown"
    BY <1>4, <2>1 DEF DefaultDateCheck, HasClaim
  <2>3. ~DateFits(name, jwt, now, verifier.leeway)
    BY <1>4 DEF DateFits
  <2> QED BY <1>2, <2>2, <2>3
<1>5. CASE name \in DOMAIN jwt.payload /\ v[1] \in {"integer", "number"}
  <2>1. verifier.leeway \in Nat
    BY LeewayNat
  <2>2. AsDate(v) # Thrown /\
        (DateFits(name, jwt, now, verifier.leeway) <=>
           IF name = "exp" THEN ~ExpiredAt(now, AsDate(v)[2], verifier.leeway)
           ELSE ~TooEarlyAt(now, AsDate(v)[2], verifier.leeway))
    BY <1>5, <2>1, DateCompared
  <2> QED BY <1>2, <1>5, <2>2 DEF DefaultDateCheck, HasClaim
<1> QED BY <1>3, <1>4, <1>5

\* The settings in force are the last ones about their names, and the checks
\* that they installed are in place.
LEMMA InForceLast ==
  ASSUME SetUpInv
  PROVE  /\ \A i \in InForce :
              /\ i \in DOMAIN history /\ LastAbout(history, i, Subject(history[i]))
              /\ Subject(history[i]) \in DOMAIN verifier.claims
              /\ verifier.claims[Subject(history[i])] = CheckFor(history[i])
         /\ \A i, name : LastAbout(history, i, name) => i \in InForce /\ Subject(history[i]) = name
<1> DEFINE about == {i \in DOMAIN history : history[i][1] \notin {"allow", "leeway"}
                       /\ ~(history[i][1] = "typ" /\ history[i][2] \in Undecodable)}
<1>1. \A i : i \in about <=> i \in DOMAIN history /\ About(history[i])
  BY DEF About
<1>2. InForce = {i \in about : \A j \in about : Subject(history[j]) = Subject(history[i]) => j <= i}
  BY DEF InForce
<1> HIDE DEF about
<1>3. \A i \in InForce : i \in DOMAIN history /\ LastAbout(history, i, Subject(history[i]))
  BY <1>1, <1>2 DEF LastAbout, Concerns
<1>4. \A i, name : LastAbout(history, i, name) => i \in InForce /\ Subject(history[i]) = name
  BY <1>1, <1>2 DEF LastAbout, Concerns
<1>5. ASSUME NEW i \in InForce
      PROVE  /\ Subject(history[i]) \in DOMAIN verifier.claims
             /\ verifier.claims[Subject(history[i])] = CheckFor(history[i])
  <2> DEFINE name == Subject(history[i])
  <2>1. i \in DOMAIN history /\ Concerns(history[i], name) /\ About(history[i])
    BY <1>3 DEF LastAbout, Concerns
  <2>2. name \in DOMAIN verifier.claims
    BY <2>1 DEF SetUpInv, ChecksInForce
  <2>3. PICK j \in DOMAIN history :
          LastAbout(history, j, name) /\ verifier.claims[name] = CheckFor(history[j])
    BY <2>1, <2>2 DEF SetUpInv, ChecksInForce
  <2>4. DOMAIN history \subseteq Nat
    BY DEF SetUpInv, SetUpOK
  <2>5. i <= j /\ j <= i
    BY <1>3, <2>1, <2>3 DEF LastAbout
  <2>6. i = j
    BY <2>1, <2>4, <2>5
  <2> QED BY <2>2, <2>3, <2>6
<1> QED BY <1>3, <1>4, <1>5

\* A token with a good signature that verify (jwt.h) accepts meets, at the
\* cached time and as the comments say, the last setting made for every name
\* and the constructor's check, with the last default leeway, of every date for
\* which there is no setting; and one that meets them all is accepted (nothing
\* is said of a setting about which comments and code disagree).  Any number of
\* set-up calls in any order, between any calls of verify, leaves no setting
\* lost and none come back, and the order in which the checks are made decides
\* nothing.
THEOREM SettingsDecide == VerifierSpec => []LastSettingsDecide
<1>1. ASSUME VerifierInv PROVE LastSettingsDecide
  <2> DEFINE all == LastSetting(LAMBDA h : h[1] = "leeway")
             leeway == IF all = 0 THEN 0 ELSE history[all][2]
             open == {"exp", "iat", "nbf"} \ {Subject(history[i]) : i \in InForce}
             Fits(name, l) == DateFits(name, Jwt, call.now, l)
             clear(i) == ~Disputed(history[i], Jwt)
             met(i) == Meets(history[i], Jwt, call.now)
  <2> SUFFICES ASSUME Returned, "jwt" \in DOMAIN call
               PROVE  /\ call.result = "accepted" =>
                           (\A i \in InForce : clear(i) => met(i)) /\ \A name \in open : Fits(name, leeway)
                      /\ ((\A i \in InForce : clear(i) /\ met(i)) /\ \A name \in open : Fits(name, leeway))
                           => call.result = "accepted"
    BY DEF LastSettingsDecide, ClaimsChecked, DefaultDatesFit
  <2>0. SetUpInv
    BY <1>1 DEF VerifierInv
  <2>1. /\ Vouched(call.text, call.jwt) /\ call.now \in Nat
        /\ call.result = "accepted" <=> \A name \in DOMAIN verifier.claims : Passed(name)
    <3>1. call.at = "returned" /\ call # Idle /\ call # SignedCall
      BY DEF Returned, Idle, SignedCall
    <3>2. call # Returns
      <4>1. "jwt" \notin DOMAIN Returns
        BY DEF Returns
      <4> QED BY <4>1
    <3>3. /\ Vouched(call.text, call.jwt) /\ call.now \in Nat
          /\ \/ /\ call.result = "accepted"
                /\ \A name \in DOMAIN verifier.claims : Passed(name)
             \/ \E name \in DOMAIN verifier.claims :
                  call.result = CheckResult(name, call.jwt, call.now) /\ ~Passed(name)
      BY <1>1, <3>1, <3>2 DEF VerifierInv, CallOK
    <3>4. \A name \in DOMAIN verifier.claims : CheckResult(name, call.jwt, call.now) # "accepted"
      BY <2>0, NeverAccepted
    <3> QED BY <3>3, <3>4
  <2>2. Jwt = call.jwt /\ NumbersWhole(Jwt)
    BY <2>1 DEF Vouched, Jwt
  <2>3. leeway = verifier.leeway
    BY <2>0, LeewayOfAll DEF SetUpInv
  <2>4. \A i \in InForce :
          /\ Subject(history[i]) \in DOMAIN verifier.claims
          /\ clear(i) => (Passed(Subject(history[i])) <=> met(i))
    BY <2>0, <2>1, <2>2, InForceLast, InstalledMeets DEF Passed
  <2>5. ASSUME NEW name \in DateNames, verifier.claims[name] = <<"default", 0>>
        PROVE  Passed(name) <=> Fits(name, verifier.leeway)
    BY <2>0, <2>1, <2>2, <2>5, DefaultMeets DEF Passed
  <2>6. ASSUME NEW name \in DOMAIN verifier.claims
        PROVE  \/ \E i \in InForce : Subject(history[i]) = name
               \/ name \in DateNames /\ verifier.claims[name] = <<"default", 0>>
    BY <2>0, InForceLast DEF SetUpInv, ChecksInForce
  <2>7. ASSUME NEW name, name \in {Subject(history[i]) : i \in InForce}
        PROVE  verifier.claims[name] # <<"default", 0>>
    <3>1. PICK i \in InForce : name = Subject(history[i])
      BY <2>7
    <3>2. CheckFor(history[i])[1] # "default"
      BY DEF CheckFor
    <3> QED BY <2>0, <3>1, <3>2, InForceLast
  <2>8. DateNames \subseteq DOMAIN verifier.claims
    BY <2>0 DEF SetUpInv, ChecksInForce
  <2> HIDE DEF Fits, leeway, all, clear, met
  <2>9. ASSUME \A name \in DOMAIN verifier.claims : Passed(name)
        PROVE  (\A i \in InForce : clear(i) => met(i)) /\ \A name \in open : Fits(name, leeway)
    <3>1. \A i \in InForce : clear(i) => met(i)
      BY <2>4, <2>9
    <3>2. ASSUME NEW name \in open PROVE Fits(name, leeway)
      <4>1. name \in DateNames
        BY DEF DateNames
      <4>2. verifier.claims[name] = <<"default", 0>>
        BY <2>6, <2>8, <4>1
      <4> QED BY <2>3, <2>5, <2>8, <2>9, <4>1, <4>2
    <3> QED BY <3>1, <3>2
  <2>10. ASSUME \A i \in InForce : clear(i) /\ met(i), \A name \in open : Fits(name, leeway),
                NEW name \in DOMAIN verifier.claims
         PROVE  Passed(name)
    <3>1. CASE \E i \in InForce : Subject(history[i]) = name
      BY <2>4, <2>10, <3>1
    <3>2. CASE name \in DateNames /\ verifier.claims[name] = <<"default", 0>>
      <4>1. name \in open
        BY <2>7, <3>2 DEF DateNames
      <4> QED BY <2>3, <2>5, <2>10, <3>2, <4>1
    <3> QED BY <2>6, <3>1, <3>2
  <2> QED BY <2>1, <2>9, <2>10
<1> QED BY <1>1, VerifierInvariant, PTL

-----------------------------------------------------------------------------
(* The builder: the inductive invariant                                     *)

\* The dates in a payload are those that were asked for.
AsAsked(p, a) ==
  /\ NumbersWhole([payload |-> p])
  /\ a.exp # Never => /\ a.exp.at \in Nat /\ a.exp.for \in Int
                      /\ "exp" \in DOMAIN p /\ p["exp"] = DateClaim(a.exp.at + a.exp.for)
  /\ a.iat # Never => a.iat.at \in Nat /\ "iat" \in DOMAIN p /\ p["iat"] = DateClaim(a.iat.at)

\* The header has an algorithm only if it was set by hand.
BuilderOK ==
  /\ builder = [header |-> builder.header, payload |-> builder.payload]
  /\ asked = [alg |-> asked.alg, exp |-> asked.exp, iat |-> asked.iat]
  /\ "alg" \in DOMAIN builder.header => asked.alg
  /\ AsAsked(builder.payload, asked)
  /\ asked.iat.at \in Int /\ asked.iat.at <= clock

\* The token that sign makes of two JSON objects
Json(f) == <<"json", <<"object", f>>>>
Token(h, p, algo) == <<Json(h), Json(p), SignatureOf(algo, <<Json(h), Json(p)>>)>>

Made(text, algo, a) ==
  IF algo \in Unable THEN text = <<>>
  ELSE \E h, p : /\ text = Token(h, p, algo) /\ AsAsked(p, a)
                 /\ a.alg \/ ("alg" \in DOMAIN h /\ h["alg"] = <<"string", algo.name>>)

\* What sign returned, and that it did so before the verification under way
IssuedOK ==
  /\ \E T : issued \in Seq(T)
  /\ \A k \in DOMAIN issued :
       /\ Made(issued[k].text, issued[k].algo, issued[k].asked)
       /\ issued[k].asked.iat.at \in Int /\ issued[k].asked.iat.at <= clock
       /\ call.at # "idle" => issued[k].asked.iat.at <= call.begun

BuilderInv == VerifierInv /\ clock <= MaxClock /\ BuilderOK /\ IssuedOK

-----------------------------------------------------------------------------
(* Tokens                                                                   *)

\* A signature is never text that is not base64url.
LEMMA SignatureReadable ==
  ASSUME NEW algo, NEW data
  PROVE  SignatureOf(algo, data)[1] # "broken"
  BY DEF SignatureOf

\* The part of a token that is signed
LEMMA FirstTwo ==
  ASSUME NEW a, NEW b, NEW c, NEW t, t = <<a, b, c>>
  PROVE  SubSeq(t, 1, 2) = <<a, b>>
<1>1. SubSeq(t, 1, 2) = [i \in 1..2 |-> t[i]]
  OBVIOUS
<1>2. t[1] = a /\ t[2] = b
  OBVIOUS
<1>3. [i \in 1..2 |-> t[i]] = <<t[1], t[2]>>
  OBVIOUS
<1> QED BY <1>1, <1>2, <1>3

\* decode takes apart what sign put together.
LEMMA DecodeToken ==
  ASSUME NEW h, NEW p, NEW algo
  PROVE  Decode(Token(h, p, algo)) =
           <<"jwt", [header |-> h, payload |-> p, data |-> <<Json(h), Json(p)>>,
                     signature |-> SignatureOf(algo, <<Json(h), Json(p)>>)]>>
<1> DEFINE text == Token(h, p, algo)
           sig  == SignatureOf(algo, <<Json(h), Json(p)>>)
<1>1. text = <<Json(h), Json(p), sig>>
  BY DEF Token
<1>2. sig[1] # "broken"
  BY SignatureReadable
<1> HIDE DEF sig, text
<1>3. Len(text) = 3 /\ text[1] = Json(h) /\ text[2] = Json(p) /\ text[3] = sig
  BY <1>1
<1>4. SubSeq(text, 1, 2) = <<Json(h), Json(p)>>
  BY <1>1, FirstTwo
<1>5. \A f : /\ Json(f)[1] = "json" /\ Json(f)[2] = <<"object", f>>
             /\ Json(f)[2][1] = "object" /\ Json(f)[2][2] = f
  BY DEF Json
<1>6. \A f : ParseClaims(Json(f)) # Thrown
  <2>1. Thrown[1] = "thrown"
    BY DEF Thrown
  <2> QED BY <1>5, <2>1 DEF ParseClaims, As
<1>7. \A k \in 1..3 : text[k][1] # "broken"
  <2>1. \A k \in 1..3 : k = 1 \/ k = 2 \/ k = 3
    OBVIOUS
  <2> QED BY <1>2, <1>3, <1>5, <2>1
<1>8. Decode(text) = <<"jwt", [header |-> h, payload |-> p,
                               data |-> <<Json(h), Json(p)>>, signature |-> sig]>>
  BY <1>3, <1>4, <1>5, <1>6, <1>7 DEF Decode
<1> QED BY <1>8 DEF sig, text

\* A number of a token that sign made is a whole number of seconds or halves.
LEMMA MadeWhole ==
  ASSUME NEW text, NEW algo, NEW a, Made(text, algo, a), Decode(text) # Thrown
  PROVE  NumbersWhole(Decode(text)[2])
<1>1. CASE algo \in Unable
  <2>1. Len(text) = 0
    BY <1>1 DEF Made
  <2> QED BY <2>1 DEF Decode
<1>2. CASE algo \notin Unable
  <2>1. PICK h, p : text = Token(h, p, algo) /\ AsAsked(p, a)
    BY <1>2 DEF Made
  <2>2. Decode(text) = <<"jwt", [header |-> h, payload |-> p, data |-> <<Json(h), Json(p)>>,
                                 signature |-> SignatureOf(algo, <<Json(h), Json(p)>>)]>>
    BY <2>1, DecodeToken
  <2>3. Decode(text)[2].payload = p
    BY <2>2
  <2> QED BY <2>1, <2>3 DEF AsAsked, NumbersWhole
<1> QED BY <1>1, <1>2

-----------------------------------------------------------------------------
(* The setters keep the invariant                                           *)

\* A date becomes a number of seconds.
LEMMA DateWhole ==
  ASSUME NEW d \in Int
  PROVE  DateClaim(d)[1] = "integer" /\ DateClaim(d)[2] = ToTimeT(Wrap(d)) /\ DateClaim(d)[2] \in Int
<1>1. Ticks \in Nat \ {0} /\ MaxDate \in Nat
  BY VerifierAssumption
<1>2. Wrap(d) \in Int
  BY <1>1, WrapRange
<1>3. ToTimeT(Wrap(d)) \in Int
  BY <1>1, <1>2 DEF ToTimeT
<1> QED BY <1>3 DEF DateClaim

\* Whatever is set, the verifier and the tokens are as they were.
LEMMA SetterInv ==
  ASSUME BuilderInv, UNCHANGED verifierVars, issued' = issued, BuilderOK'
  PROVE  BuilderInv'
<1>1. clock' = clock /\ call' = call /\ verifier' = verifier /\ history' = history
  BY DEF verifierVars
<1>2. VerifierInv'
  BY <1>1, TickInv DEF BuilderInv, VerifierInv
<1>3. IssuedOK'
  BY <1>1 DEF BuilderInv, IssuedOK
<1> QED BY <1>1, <1>2, <1>3 DEF BuilderInv

\* set_header_claim and its special forms
LEMMA SetHeaderClaimInv ==
  ASSUME BuilderInv, UNCHANGED verifierVars, NEW id, NEW value, SetHeaderClaim(id, value)
  PROVE  BuilderInv'
<1>1. BuilderOK
  BY DEF BuilderInv
<1>2. /\ builder'.header = With(builder.header, id, value) /\ builder'.payload = builder.payload
      /\ builder' = [header |-> builder'.header, payload |-> builder'.payload]
  BY <1>1 DEF BuilderOK, SetHeaderClaim
<1>3. /\ asked'.alg = (asked.alg \/ id = "alg") /\ asked'.exp = asked.exp /\ asked'.iat = asked.iat
      /\ asked' = [alg |-> asked'.alg, exp |-> asked'.exp, iat |-> asked'.iat]
  BY <1>1 DEF BuilderOK, SetHeaderClaim
<1>4. "alg" \in DOMAIN builder'.header => asked'.alg
  BY <1>1, <1>2, <1>3 DEF BuilderOK, With
<1>5. AsAsked(builder'.payload, asked')
  BY <1>1, <1>2, <1>3 DEF BuilderOK, AsAsked
<1>6. clock' = clock
  BY DEF verifierVars
<1>7. BuilderOK'
  BY <1>1, <1>2, <1>3, <1>4, <1>5, <1>6 DEF BuilderOK
<1> QED BY <1>7, SetterInv DEF SetHeaderClaim

\* A payload with a claim more is what was asked for with it.
LEMMA PayloadSet ==
  ASSUME BuilderInv, UNCHANGED verifierVars, NEW id, NEW value,
         value[1] \in {"integer", "number"} => value[2] \in Int,
         builder' = [builder EXCEPT !.payload = With(@, id, value)],
         asked' = [alg |-> asked.alg, exp |-> asked'.exp, iat |-> asked'.iat],
         id # "exp" => asked'.exp = asked.exp,
         id # "iat" => asked'.iat = asked.iat,
         id = "exp" => \/ asked'.exp = Never
                       \/ /\ asked'.exp.at \in Nat /\ asked'.exp.for \in Int
                          /\ value = DateClaim(asked'.exp.at + asked'.exp.for),
         id = "iat" => \/ asked'.iat = Never
                       \/ asked'.iat.at \in Nat /\ value = DateClaim(asked'.iat.at),
         asked'.iat.at \in Int, asked'.iat.at <= clock, issued' = issued
  PROVE  BuilderInv'
<1>1. BuilderOK
  BY DEF BuilderInv
<1> DEFINE p == builder.payload
           q == builder'.payload
<1>2. /\ builder'.header = builder.header /\ q = With(p, id, value)
      /\ builder' = [header |-> builder'.header, payload |-> builder'.payload]
  BY <1>1 DEF BuilderOK
<1>3. /\ DOMAIN q = DOMAIN p \cup {id} /\ q[id] = value
      /\ \A n \in DOMAIN p : n # id => q[n] = p[n]
  BY <1>2 DEF With
<1>4. asked'.alg = asked.alg
  OBVIOUS
<1>5. NumbersWhole([payload |-> p])
  BY <1>1 DEF BuilderOK, AsAsked
<1>6. NumbersWhole([payload |-> q])
  <2>1. \A n \in DOMAIN p : p[n][1] \in {"integer", "number"} => p[n][2] \in Int
    BY <1>5 DEF NumbersWhole
  <2> HIDE DEF p, q
  <2>2. \A n \in DOMAIN q : q[n][1] \in {"integer", "number"} => q[n][2] \in Int
    BY <1>3, <2>1
  <2> QED BY <2>2 DEF NumbersWhole
<1>7. asked'.exp # Never =>
        /\ asked'.exp.at \in Nat /\ asked'.exp.for \in Int
        /\ "exp" \in DOMAIN q /\ q["exp"] = DateClaim(asked'.exp.at + asked'.exp.for)
  BY <1>1, <1>3 DEF BuilderOK, AsAsked
<1>8. asked'.iat # Never =>
        asked'.iat.at \in Nat /\ "iat" \in DOMAIN q /\ q["iat"] = DateClaim(asked'.iat.at)
  BY <1>1, <1>3 DEF BuilderOK, AsAsked
<1>9. AsAsked(q, asked')
  BY <1>6, <1>7, <1>8 DEF AsAsked
<1>10. clock' = clock
  BY DEF verifierVars
<1>11. BuilderOK'
  BY <1>1, <1>2, <1>4, <1>9, <1>10 DEF BuilderOK
<1> QED BY <1>11, SetterInv

\* set_payload_claim and its special forms; a date set by hand is no lifetime.
LEMMA SetPayloadClaimInv ==
  ASSUME BuilderInv, UNCHANGED verifierVars, NEW id, NEW value, SetPayloadClaim(id, value),
         value[1] \in {"integer", "number"} => value[2] \in Int
  PROVE  BuilderInv'
<1>1. BuilderOK /\ clock \in Nat
  BY DEF BuilderInv, VerifierInv
<1>2. /\ asked'.exp = (IF id = "exp" THEN Never ELSE asked.exp)
      /\ asked'.iat = (IF id = "iat" THEN Never ELSE asked.iat)
      /\ asked' = [alg |-> asked.alg, exp |-> asked'.exp, iat |-> asked'.iat]
  BY <1>1 DEF BuilderOK, SetPayloadClaim
<1>3. asked'.iat.at \in Int /\ asked'.iat.at <= clock
  BY <1>1, <1>2 DEF BuilderOK, Never
<1> QED BY <1>2, <1>3, PayloadSet DEF SetPayloadClaim

\* set_expires_in
LEMMA SetExpiresInInv ==
  ASSUME BuilderInv, UNCHANGED verifierVars, NEW d \in Int, SetExpiresIn(d)
  PROVE  BuilderInv'
<1>1. BuilderOK /\ clock \in Nat
  BY DEF BuilderInv, VerifierInv
<1>2. /\ asked'.exp = [at |-> clock, for |-> d] /\ asked'.iat = asked.iat
      /\ asked' = [alg |-> asked.alg, exp |-> asked'.exp, iat |-> asked'.iat]
  BY <1>1 DEF BuilderOK, SetExpiresIn
<1>3. asked'.exp.at = clock /\ asked'.exp.for = d
  BY <1>2
<1>4. DateClaim(clock + d)[2] \in Int
  BY <1>1, DateWhole
<1>5. asked.iat.at \in Int /\ asked.iat.at <= clock
  BY <1>1 DEF BuilderOK
<1> QED BY <1>1, <1>2, <1>3, <1>4, <1>5, PayloadSet DEF SetExpiresIn

\* set_issued_now
LEMMA SetIssuedNowInv ==
  ASSUME BuilderInv, UNCHANGED verifierVars, SetIssuedNow
  PROVE  BuilderInv'
<1>1. BuilderOK /\ clock \in Nat
  BY DEF BuilderInv, VerifierInv
<1>2. /\ asked'.iat = [at |-> clock, for |-> 0] /\ asked'.exp = asked.exp
      /\ asked' = [alg |-> asked.alg, exp |-> asked'.exp, iat |-> asked'.iat]
  BY <1>1 DEF BuilderOK, SetIssuedNow
<1>3. asked'.iat.at = clock /\ clock \in Int /\ clock <= clock
  BY <1>1, <1>2
<1>4. DateClaim(clock)[2] \in Int
  BY <1>1, DateWhole
<1> QED BY <1>1, <1>2, <1>3, <1>4, PayloadSet DEF SetIssuedNow

-----------------------------------------------------------------------------
(* sign and the verifier keep it too                                        *)

\* What sign returns
LEMMA SignMakes ==
  ASSUME BuilderOK, NEW algo
  PROVE  Made(IF algo \in Unable THEN <<>> ELSE TokenOf(algo), algo, asked)
<1>1. CASE algo \in Unable
  BY <1>1 DEF Made
<1>2. CASE algo \notin Unable
  <2> DEFINE h == ObjHeader(algo)
  <2>1. TokenOf(algo) = Token(h, builder.payload, algo)
    BY DEF TokenOf, Token, Json
  <2>2. asked.alg \/ ("alg" \in DOMAIN h /\ h["alg"] = <<"string", algo.name>>)
    BY DEF BuilderOK, ObjHeader, HasClaim, With
  <2>3. AsAsked(builder.payload, asked)
    BY DEF BuilderOK
  <2> HIDE DEF h
  <2> QED BY <1>2, <2>1, <2>2, <2>3 DEF Made
<1> QED BY <1>1, <1>2

\* A sequence with one element more
LEMMA OneMore ==
  ASSUME NEW s, NEW T, s \in Seq(T), NEW x
  PROVE  /\ Append(s, x) \in Seq(T \cup {x})
         /\ \A k \in DOMAIN Append(s, x) : (k \in DOMAIN s /\ Append(s, x)[k] = s[k]) \/ Append(s, x)[k] = x
<1>1. s \in Seq(T \cup {x})
  OBVIOUS
<1> QED BY <1>1

\* sign
LEMMA SignInv ==
  ASSUME BuilderInv, UNCHANGED verifierVars, call.at = "idle", NEW algo, Sign(algo)
  PROVE  BuilderInv'
<1>1. BuilderOK /\ IssuedOK /\ clock \in Nat
  BY DEF BuilderInv, VerifierInv
<1>2. clock' = clock /\ call' = call /\ verifier' = verifier /\ history' = history
  BY DEF verifierVars
<1>3. builder' = builder /\ asked' = asked
  BY DEF Sign
<1> DEFINE text == IF algo \in Unable THEN <<>> ELSE TokenOf(algo)
           new == [text |-> text, algo |-> algo, asked |-> asked]
<1>4. issued' = Append(issued, new)
  BY DEF Sign, Issue
<1>5. Made(text, algo, asked)
  BY <1>1, SignMakes
<1> HIDE DEF text
<1>6. Made(new.text, new.algo, new.asked) /\ new.asked = asked
  BY <1>5
<1> HIDE DEF new
<1>7. PICK T : issued \in Seq(T)
  BY <1>1 DEF IssuedOK
<1>8. /\ issued' \in Seq(T \cup {new})
      /\ \A k \in DOMAIN issued' : (k \in DOMAIN issued /\ issued'[k] = issued[k]) \/ issued'[k] = new
  BY <1>4, <1>7, OneMore
<1>9. new.asked.iat.at \in Int /\ new.asked.iat.at <= clock
  BY <1>1, <1>6 DEF BuilderOK
<1>10. \A k \in DOMAIN issued' : Made(issued'[k].text, issued'[k].algo, issued'[k].asked)
  BY <1>1, <1>6, <1>8 DEF IssuedOK
<1>11. \A k \in DOMAIN issued' : issued'[k].asked.iat.at \in Int /\ issued'[k].asked.iat.at <= clock
  BY <1>1, <1>8, <1>9 DEF IssuedOK
<1>12. IssuedOK'
  BY <1>2, <1>8, <1>10, <1>11 DEF IssuedOK
<1>13. BuilderOK'
  BY <1>1, <1>2, <1>3 DEF BuilderOK
<1>14. VerifierInv'
  BY <1>2, TickInv DEF BuilderInv, VerifierInv
<1> QED BY <1>2, <1>12, <1>13, <1>14 DEF BuilderInv

\* Nothing about the builder changes, the clock does not go back, and a call
\* of verify that starts does so now.
LEMMA BuilderRests ==
  ASSUME BuilderInv, UNCHANGED builderVars, VerifierInv', clock <= clock', clock' <= MaxClock,
         call'.at # "idle" => \/ call.at # "idle" /\ call'.begun = call.begun
                              \/ call'.begun = clock
  PROVE  BuilderInv'
<1>1. builder' = builder /\ asked' = asked /\ issued' = issued
  BY DEF builderVars
<1>2. BuilderOK /\ IssuedOK /\ clock \in Nat /\ clock' \in Nat
  BY DEF BuilderInv, VerifierInv
<1>3. BuilderOK'
  BY <1>1, <1>2 DEF BuilderOK
<1>4. IssuedOK'
  BY <1>1, <1>2 DEF IssuedOK
<1> QED BY <1>3, <1>4 DEF BuilderInv

\* When a call of verify has begun
LEMMA BegunKept ==
  ASSUME VerifierInv, NEW texts, Verify(texts), call'.at # "idle"
  PROVE  \/ call.at # "idle" /\ call'.begun = call.begun
         \/ call'.begun = clock
<1>1. ASSUME NEW text \in texts, VerifyStart(text) PROVE call'.begun = clock
  BY <1>1 DEF VerifyStart
<1>2. ASSUME VerifyContext PROVE call.at # "idle" /\ call'.begun = call.begun
  BY <1>2 DEF VerifyContext
<1>3. ASSUME call.at = "checking" PROVE call = Checking(call.at, call.result)
  BY <1>3 DEF VerifierInv, CallOK, Idle, Returns, SignedCall
<1>4. ASSUME NEW name \in DOMAIN verifier.claims, CheckClaim(name)
      PROVE  call.at # "idle" /\ call'.begun = call.begun
  BY <1>3, <1>4 DEF CheckClaim, Checking
<1>5. ASSUME Accept PROVE call.at # "idle" /\ call'.begun = call.begun
  BY <1>3, <1>5 DEF Accept, Checking
<1>6. ~Done
  BY DEF Done, Idle
<1> QED BY <1>1, <1>2, <1>4, <1>5, <1>6 DEF Verify

\* The inductive invariant holds throughout.
LEMMA BuilderInvariant == BuilderSpec => []BuilderInv
<1>1. BuilderInit => BuilderInv
  <2> SUFFICES ASSUME BuilderInit PROVE BuilderInv
    OBVIOUS
  <2>1. VerifierInv /\ clock = 0 /\ clock <= MaxClock
    BY VerifierInitInv, BuilderAssumption DEF BuilderInit, VerifierInit
  <2>2. builder.header = <<>> /\ builder.payload = <<>> /\ asked.exp = Never /\ asked.iat = Never
    BY DEF BuilderInit
  <2>3. DOMAIN builder.header = {} /\ DOMAIN builder.payload = {}
    BY <2>2
  <2>4. AsAsked(builder.payload, asked)
    BY <2>2, <2>3 DEF AsAsked, NumbersWhole
  <2>5. BuilderOK
    BY <2>1, <2>2, <2>3, <2>4 DEF BuilderOK, BuilderInit, Never
  <2>6. issued \in Seq({}) /\ DOMAIN issued = {}
    BY DEF BuilderInit
  <2>7. IssuedOK
    BY <2>6 DEF IssuedOK
  <2> QED BY <2>1, <2>5, <2>7 DEF BuilderInv
<1>2. BuilderInv /\ [BuilderNext]_<<builderVars, verifierVars>> => BuilderInv'
  <2> SUFFICES ASSUME BuilderInv, [BuilderNext]_<<builderVars, verifierVars>> PROVE BuilderInv'
    OBVIOUS
  <2>0. VerifierInv /\ clock \in Nat /\ clock <= MaxClock
    BY DEF BuilderInv, VerifierInv
  <2>1. ASSUME call.at = "idle", BuilderStep, UNCHANGED verifierVars PROVE BuilderInv'
    <3>1. ASSUME NEW c \in HeaderClaims, SetHeaderClaim(c[1], c[2]) PROVE BuilderInv'
      BY <2>1, <3>1, SetHeaderClaimInv
    <3>2. ASSUME NEW c \in PayloadClaims, SetPayloadClaim(c[1], c[2]) PROVE BuilderInv'
      BY <2>1, <3>2, SetPayloadClaimInv, BuilderAssumption
    <3>3. ASSUME NEW id \in {"exp", "nbf", "iat"}, NEW date \in Dates, SetDate(id, date) PROVE BuilderInv'
      <4>1. DateClaim(date)[2] \in Int
        BY DateWhole, BuilderAssumption
      <4> QED BY <2>1, <3>3, <4>1, SetPayloadClaimInv DEF SetDate
    <3>4. ASSUME NEW d \in Lifetimes, SetExpiresIn(d) PROVE BuilderInv'
      BY <2>1, <3>4, SetExpiresInInv, BuilderAssumption
    <3>5. ASSUME SetIssuedNow PROVE BuilderInv'
      BY <2>1, <3>5, SetIssuedNowInv
    <3>6. ASSUME NEW a \in Algorithms, Sign(a) PROVE BuilderInv'
      BY <2>1, <3>6, SignInv
    <3> QED BY <2>1, <3>1, <3>2, <3>3, <3>4, <3>5, <3>6 DEF BuilderStep
  <2>2. CASE SetUp /\ UNCHANGED builderVars
    <3>1. VerifierInv' /\ call' = Idle /\ clock' = clock
      BY <2>0, <2>2, SetUpKeeps
    <3> QED BY <2>0, <2>2, <3>1, BuilderRests DEF Idle
  <2>3. CASE Verify({issued[i].text : i \in DOMAIN issued}) /\ UNCHANGED builderVars
    <3> DEFINE texts == {issued[i].text : i \in DOMAIN issued}
    <3>1. \A text \in texts : Decode(text) # Thrown => NumbersWhole(Decode(text)[2])
      BY MadeWhole DEF BuilderInv, IssuedOK
    <3>2. Verify(texts)
      BY <2>3
    <3> HIDE DEF texts
    <3>3. VerifierInv' /\ clock' = clock
      BY <2>0, <3>1, <3>2, VerifyStep
    <3>4. call'.at # "idle" => \/ call.at # "idle" /\ call'.begun = call.begun
                               \/ call'.begun = clock
      BY <2>0, <3>2, BegunKept
    <3> QED BY <2>0, <2>3, <3>3, <3>4, BuilderRests
  <2>4. CASE Tick /\ UNCHANGED builderVars
    <3>1. clock' = clock + 1 /\ clock < MaxClock /\ call' = call /\ verifier' = verifier /\ history' = history
      BY <2>4 DEF Tick
    <3>2. MaxClock \in Int /\ clock' \in Nat /\ clock <= clock' /\ clock' <= MaxClock
      BY <2>0, <3>1, BuilderAssumption, VerifierAssumption
    <3>3. VerifierInv'
      BY <2>0, <3>1, <3>2, TickInv
    <3> QED BY <2>4, <3>1, <3>2, <3>3, BuilderRests
  <2>5. CASE UNCHANGED <<builderVars, verifierVars>>
    <3>1. UNCHANGED verifierVars /\ UNCHANGED builderVars
      BY <2>5
    <3>2. clock' = clock /\ call' = call /\ verifier' = verifier /\ history' = history
      BY <3>1 DEF verifierVars
    <3>3. VerifierInv'
      BY <2>0, <3>2, TickInv
    <3> QED BY <2>0, <3>1, <3>2, <3>3, BuilderRests
  <2> QED BY <2>1, <2>2, <2>3, <2>4, <2>5 DEF BuilderNext
<1> QED BY <1>1, <1>2, PTL DEF BuilderSpec

-----------------------------------------------------------------------------
(* Tokens are recognized                                                    *)

\* What a call of verify that is back has found out about the token of one of
\* the calls of sign: why it was refused, or that it is vouched for.
LEMMA OriginMade ==
  ASSUME BuilderInv, Returned, NEW i \in Origins
  PROVE  /\ Made(call.text, issued[i].algo, issued[i].asked)
         /\ i \in DOMAIN issued
         /\ IF "jwt" \in DOMAIN call THEN Vouched(call.text, call.jwt)
            ELSE Refused(call.text, call.result)
<1>1. i \in DOMAIN issued /\ issued[i].text = call.text
  BY DEF Origins
<1>2. Made(call.text, issued[i].algo, issued[i].asked)
  BY <1>1 DEF BuilderInv, IssuedOK
<1>3. "jwt" \notin DOMAIN Returns /\ "jwt" \in DOMAIN Checking(call.at, call.result)
  BY DEF Returns, Checking
<1>4. call # Idle /\ call # SignedCall
  BY DEF Returned, Idle, SignedCall
<1> QED BY <1>1, <1>2, <1>3, <1>4 DEF BuilderInv, VerifierInv, CallOK

\* A token signed with the key that was allowed last is not refused.
LEMMA NotRefused ==
  ASSUME SetUpInv, NEW h, NEW p, NEW algo, NEW last \in DOMAIN history,
         LastAllow(history, last, algo.name), history[last][2] = algo,
         "alg" \in DOMAIN h, h["alg"] = <<"string", algo.name>>, NEW result
  PROVE  ~Refused(Token(h, p, algo), result)
<1> DEFINE text == Token(h, p, algo)
           data == <<Json(h), Json(p)>>
           sig  == SignatureOf(algo, data)
           jwt  == [header |-> h, payload |-> p, data |-> data, signature |-> sig]
<1>1. Decode(text) = <<"jwt", jwt>>
  BY DecodeToken
<1> HIDE DEF text
<1>2. Decode(text) # Thrown
  BY <1>1 DEF Thrown
<1>3. Decode(text)[2].header = h /\ Decode(text)[2].data = data /\ Decode(text)[2].signature = sig
  <2> HIDE DEF data, sig
  <2> QED BY <1>1
<1> HIDE DEF data
<1>4. As("string", GetClaim(h, "alg")) = <<"string", algo.name>>
  BY DEF As, GetClaim
<1>5. <<"string", algo.name>> # Thrown /\ <<"string", algo.name>>[2] = algo.name
  BY DEF Thrown
<1>6. algo.name \in DOMAIN verifier.algs
  BY DEF SetUpInv, KeysAsAllowed, LastAllow, Allows
<1>7. PICK j \in DOMAIN history : LastAllow(history, j, algo.name) /\ history[j][2].key = verifier.algs[algo.name]
  BY <1>6 DEF SetUpInv, KeysAsAllowed
<1>8. DOMAIN history \subseteq Nat
  BY DEF SetUpInv, SetUpOK
<1>9. j = last
  <2>1. j <= last /\ last <= j
    BY <1>7 DEF LastAllow
  <2> QED BY <1>8, <2>1
<1>10. verifier.algs[algo.name] = algo.key
  BY <1>7, <1>9
<1>11. sig = SignatureOf([name |-> algo.name, key |-> verifier.algs[algo.name]], data)
  BY <1>10 DEF SignatureOf
<1> HIDE DEF sig
<1> QED BY <1>2, <1>3, <1>4, <1>5, <1>6, <1>11 DEF Refused, text

\* The last setting of a kind, if there is one
LEMMA LastFound ==
  ASSUME SetUpOK, NEW S, S \subseteq DOMAIN history, S # {}
  PROVE  /\ (CHOOSE k \in S : \A j \in S : j <= k) \in S
         /\ \A j \in S : j <= (CHOOSE k \in S : \A l \in S : l <= k)
         /\ (CHOOSE k \in S : \A j \in S : j <= k) # 0
<1>1. DOMAIN history = 1..Len(history) /\ Len(history) \in Nat
  BY DEF SetUpOK
<1>2. PICK i \in S : \A j \in S : j <= i
  BY <1>1, LastExists
<1>3. S \subseteq Nat /\ i # 0
  BY <1>1
<1>4. (CHOOSE k \in S : \A j \in S : j <= k) = i
  BY <1>2, <1>3, Last
<1> QED BY <1>2, <1>3, <1>4

\* A token of builder::sign (jwt.h) whose algorithm was not set by hand passes
\* the algorithm and signature checks of every verifier to which that
\* algorithm, with its key, was allowed last under its name, whatever the
\* builder was told and signed before, and with whichever algorithms: sign
\* works on a copy of the header, so that no other algorithm's name stays
\* behind in it.  Where there is no key to sign with, there is no token, and
\* reading it throws.
THEOREM SignedIsRecognized == BuilderSpec => []SignedTokenIsRecognized
<1>1. ASSUME BuilderInv PROVE SignedTokenIsRecognized
  <2> SUFFICES ASSUME Returned, NEW i \in Origins
               PROVE  LET last == LastSetting(LAMBDA h : h[1] = "allow" /\ h[2].name = issued[i].algo.name)
                      IN /\ (~issued[i].asked.alg /\ last # 0 /\ history[last][2] = issued[i].algo
                               /\ issued[i].algo \notin Unable)
                               => "jwt" \in DOMAIN call
                         /\ issued[i].algo \in Unable => call.result = "thrown"
    BY DEF SignedTokenIsRecognized
  <2> DEFINE algo == issued[i].algo
             those == {k \in DOMAIN history : history[k][1] = "allow" /\ history[k][2].name = algo.name}
             last == LastSetting(LAMBDA h : h[1] = "allow" /\ h[2].name = algo.name)
  <2>1. /\ Made(call.text, algo, issued[i].asked)
        /\ IF "jwt" \in DOMAIN call THEN Vouched(call.text, call.jwt)
           ELSE Refused(call.text, call.result)
    BY <1>1, OriginMade
  <2>2. SetUpInv /\ SetUpOK
    BY <1>1 DEF BuilderInv, VerifierInv, SetUpInv
  <2>3. ASSUME algo \in Unable PROVE call.result = "thrown"
    <3>1. Len(call.text) = 0
      BY <2>1, <2>3 DEF Made
    <3>2. Decode(call.text) = Thrown
      BY <3>1 DEF Decode
    <3>3. ~Vouched(call.text, call.jwt)
      <4>1. <<"jwt", call.jwt>> # Thrown
        BY DEF Thrown
      <4> QED BY <3>2, <4>1 DEF Vouched
    <3> QED BY <2>1, <3>2, <3>3 DEF Refused
  <2>4. ASSUME ~issued[i].asked.alg, last # 0, history[last][2] = algo, algo \notin Unable
        PROVE  "jwt" \in DOMAIN call
    <3>1. PICK h, p : /\ call.text = Token(h, p, algo)
                      /\ "alg" \in DOMAIN h /\ h["alg"] = <<"string", algo.name>>
      BY <2>1, <2>4 DEF Made
    <3>2. last = IF those = {} THEN 0 ELSE CHOOSE k \in those : \A j \in those : j <= k
      BY DEF LastSetting
    <3>3. those # {} /\ last = CHOOSE k \in those : \A j \in those : j <= k
      BY <2>4, <3>2
    <3> HIDE DEF last
    <3>4. last \in those /\ \A j \in those : j <= last
      BY <2>2, <3>3, LastFound
    <3>5. last \in DOMAIN history /\ LastAllow(history, last, algo.name)
      BY <3>4 DEF LastAllow, Allows
    <3> HIDE DEF algo, those
    <3>6. ~Refused(Token(h, p, algo), call.result)
      BY <2>2, <2>4, <3>1, <3>5, NotRefused
    <3> QED BY <2>1, <3>1, <3>6
  <2> QED BY <2>3, <2>4
<1> QED BY <1>1, BuilderInvariant, PTL

-----------------------------------------------------------------------------
(* Lifetimes                                                                *)

\* A date that the clock can represent loses less than a second.
LEMMA FullSeconds ==
  ASSUME NEW d \in Nat, d <= MaxDate
  PROVE  LET s == ToTimeT(Wrap(d))
         IN /\ s \in Nat /\ s * Ticks \in Nat /\ s * Ticks <= d /\ d - Ticks < s * Ticks
            /\ FromTimeT(s) = s * Ticks
<1>0. MaxDate \in Nat /\ Ticks \in Nat \ {0}
  BY VerifierAssumption
<1> DEFINE s == d \div Ticks
<1>1. ToTimeT(Wrap(d)) = s
  BY <1>0, WrapSmall DEF ToTimeT
<1>2. s \in Nat /\ d = s * Ticks + (d % Ticks) /\ d % Ticks \in 0..(Ticks - 1)
  BY <1>0
<1> HIDE DEF s
<1>3. s * Ticks \in Nat
  BY <1>0, <1>2
<1>4. s * Ticks <= d /\ d - Ticks < s * Ticks
  BY <1>0, <1>2, <1>3
<1>5. FromTimeT(s) = s * Ticks
  BY <1>0, <1>3, <1>4, WrapSmall DEF FromTimeT
<1> QED BY <1>1, <1>2, <1>3, <1>4, <1>5

\* set_expires_in gives no more than it was asked for,
LEMMA LifetimeEnds ==
  ASSUME NEW d \in Nat, NEW l \in Nat, NEW now \in Nat, now <= MaxDate,
         ~ExpiredAt(now, FromTimeT(ToTimeT(Wrap(d))), l)
  PROVE  now <= d + l * Ticks
<1>0. MaxDate \in Nat /\ Ticks \in Nat \ {0} /\ l * Ticks \in Nat
  BY VerifierAssumption
<1>1. CASE d > MaxDate
  BY <1>0, <1>1
<1>2. CASE d <= MaxDate
  <2> DEFINE s == ToTimeT(Wrap(d))
             e == s * Ticks
  <2>1. s \in Nat /\ e \in Nat /\ e <= d
    BY <1>2, FullSeconds
  <2>2. ~ExpiredAt(now, FromTimeT(s), l)
    OBVIOUS
  <2> HIDE DEF s
  <2>3. 2 * s * Ticks = 2 * e /\ l * 2 * Ticks = 2 * (l * Ticks)
    BY <1>0, <2>1
  <2>4. 2 * s * Ticks \in 0..2 * MaxDate
    BY <1>0, <1>2, <2>1, <2>3
  <2>5. 2 * now <= 2 * s * Ticks + l * 2 * Ticks
    BY <2>1, <2>2, <2>4, DateMeant
  <2> HIDE DEF e
  <2>6. 2 * now <= 2 * e + 2 * (l * Ticks)
    BY <2>3, <2>5
  <2> QED BY <1>0, <2>1, <2>6
<1> QED BY <1>0, <1>1, <1>2

\* and less than a second less.
LEMMA LifetimeLasts ==
  ASSUME NEW d \in Nat, NEW l \in Nat, NEW now \in Nat, d + l * Ticks <= MaxDate,
         ExpiredAt(now, FromTimeT(ToTimeT(Wrap(d))), l)
  PROVE  now > d + l * Ticks - Ticks
<1>0. MaxDate \in Nat /\ Ticks \in Nat \ {0} /\ l * Ticks \in Nat
  BY VerifierAssumption
<1> DEFINE s == ToTimeT(Wrap(d))
           e == s * Ticks
           m == l * Ticks
<1>1. d <= MaxDate
  BY <1>0
<1>2. s \in Nat /\ e \in Nat /\ e <= d /\ d - Ticks < e /\ FromTimeT(s) = e
  BY <1>1, FullSeconds
<1>3. now > Wrap(e + m)
  BY <1>2 DEF ExpiredAt
<1>4. d + m <= MaxDate /\ m \in Nat
  BY <1>0
<1> HIDE DEF s, e, m
<1>5. Wrap(e + m) = e + m
  BY <1>0, <1>2, <1>4, WrapSmall
<1>6. now > d + m - Ticks
  BY <1>0, <1>2, <1>3, <1>4, <1>5
<1> QED BY <1>6 DEF m

\* A token with set_issued_now is never from the future.
LEMMA NotTooEarly ==
  ASSUME NEW d \in Nat, NEW l \in Nat, NEW now \in Nat, d <= now, now <= MaxDate,
         l * Ticks <= MaxDate
  PROVE  ~TooEarlyAt(now, FromTimeT(ToTimeT(Wrap(d))), l)
<1>0. MaxDate \in Nat /\ Ticks \in Nat \ {0} /\ l * Ticks \in Nat
  BY VerifierAssumption
<1> DEFINE s == ToTimeT(Wrap(d))
           e == s * Ticks
           m == l * Ticks
<1>1. d <= MaxDate
  BY <1>0
<1>2. s \in Nat /\ e \in Nat /\ e <= d /\ FromTimeT(s) = e
  BY <1>1, FullSeconds
<1>3. TooEarlyAt(now, FromTimeT(s), l) <=> now < Wrap(e - m)
  BY <1>2 DEF TooEarlyAt
<1>4. m \in Nat /\ m <= MaxDate
  BY <1>0
<1> HIDE DEF s, e, m
<1>5. Wrap(e - m) = e - m
  BY <1>0, <1>1, <1>2, <1>4, WrapSmall
<1>6. ~(now < e - m)
  BY <1>2, <1>4
<1> QED BY <1>3, <1>5, <1>6 DEF s

\* Only the check of a date, with the leeway that was asked for it, reports
\* that a token has expired.
LEMMA OnlyDatesExpire ==
  ASSUME SetUpInv, NEW name \in DOMAIN verifier.claims, NEW jwt, NEW now,
         CheckResult(name, jwt, now) = "token_expired"
  PROVE  /\ name \in DateNames /\ name \in DOMAIN jwt.payload /\ LeewayAsked(name) \in Nat
         /\ IF name = "exp" THEN ExpiredAt(now, AsDate(jwt.payload[name])[2], LeewayAsked(name))
                            ELSE TooEarlyAt(now, AsDate(jwt.payload[name])[2], LeewayAsked(name))
<1>1. \A claims, type : TypedClaimError(claims, name, type) # "token_expired"
  BY DEF TypedClaimError
<1>2. \A claims, type : TypedClaimError(claims, name, type) = "ok" => name \in DOMAIN claims
  BY DEF TypedClaimError, HasClaim
<1>3. \A l : DateBeforeClaim(jwt.payload, name, now, l) = "token_expired" =>
              name \in DOMAIN jwt.payload /\ ExpiredAt(now, AsDate(jwt.payload[name])[2], l)
  BY <1>1, <1>2 DEF DateBeforeClaim
<1>4. \A l : DateAfterClaim(jwt.payload, name, now, l) = "token_expired" =>
              name \in DOMAIN jwt.payload /\ TooEarlyAt(now, AsDate(jwt.payload[name])[2], l)
  BY <1>1, <1>2 DEF DateAfterClaim
<1>5. \A claims, e : /\ IsSubsetClaim(claims, name, e) # "token_expired"
                     /\ InsensitiveStringClaim(claims, name, e) # "token_expired"
                     /\ EqualsClaim(claims, name, e) # "token_expired"
  BY <1>1 DEF IsSubsetClaim, InsensitiveStringClaim, EqualsClaim
<1>6. CASE \E i \in DOMAIN history :
             LastAbout(history, i, name) /\ verifier.claims[name] = CheckFor(history[i])
  <2>1. PICK i \in DOMAIN history :
          LastAbout(history, i, name) /\ verifier.claims[name] = CheckFor(history[i])
    BY <1>6
  <2> DEFINE h == history[i]
  <2>2. h[1] \in DateNames \cup {"typ", "aud", "claim"}
    <3>1. h \in Setups
      BY DEF SetUpInv, SetUpOK
    <3> QED BY <2>1, <3>1 DEF LastAbout, Concerns, About, Setups, Methods
  <2>3. verifier.claims[name] = CheckFor(h)
    BY <2>1
  <2>4. Subject(h) = name
    BY <2>1 DEF LastAbout, Concerns
  <2> HIDE DEF h
  <2>5. h[1] \in DateNames
    <3>1. CASE h[1] = "claim"
      <4>1. verifier.claims[name][1] = "equals"
        BY <2>3, <3>1 DEF CheckFor
      <4> QED BY <1>5, <4>1 DEF CheckResult
    <3>2. CASE h[1] = "aud"
      <4>1. verifier.claims[name][1] = "subset"
        BY <2>3, <3>2 DEF CheckFor
      <4> QED BY <1>5, <4>1 DEF CheckResult
    <3>3. CASE h[1] = "typ"
      <4>1. verifier.claims[name][1] = "insensitive"
        BY <2>3, <3>3 DEF CheckFor
      <4> QED BY <1>5, <4>1 DEF CheckResult
    <3> QED BY <2>2, <3>1, <3>2, <3>3
  <2>6. h[1] = name
    BY <2>4, <2>5 DEF Subject, DateNames
  <2>7. LeewayAsked(name) = h[2] /\ h[2] \in Nat
    BY <2>1, <2>5, <2>6, OwnLeeway, LeewayNat DEF SetUpInv, h
  <2>8. CASE name = "exp"
    <3>1. verifier.claims[name][1] = "date_before" /\ verifier.claims[name][2] = h[2]
      BY <2>3, <2>6, <2>8 DEF CheckFor
    <3>2. CheckResult(name, jwt, now) = DateBeforeClaim(jwt.payload, name, now, h[2])
      BY <3>1 DEF CheckResult
    <3> QED BY <1>3, <2>5, <2>6, <2>7, <2>8, <3>2
  <2>9. CASE name # "exp"
    <3>1. verifier.claims[name][1] = "date_after" /\ verifier.claims[name][2] = h[2]
      BY <2>3, <2>5, <2>6, <2>9 DEF CheckFor, DateNames
    <3>2. CheckResult(name, jwt, now) = DateAfterClaim(jwt.payload, name, now, h[2])
      BY <3>1 DEF CheckResult
    <3> QED BY <1>4, <2>5, <2>6, <2>7, <2>9, <3>2
  <2> QED BY <2>8, <2>9
<1>7. CASE /\ name \in DateNames /\ verifier.claims[name] = <<"default", 0>>
           /\ \A i \in DOMAIN history : ~Concerns(history[i], name)
  <2>1. LeewayAsked(name) = verifier.leeway /\ verifier.leeway \in Nat
    BY <1>7, DefaultLeeway, LeewayNat DEF SetUpInv
  <2>2. verifier.claims[name][1] = "default"
    BY <1>7
  <2>3. CheckResult(name, jwt, now) = DefaultDateCheck(jwt.payload, name, now, verifier.leeway)
    BY <2>2 DEF CheckResult
  <2>4. DefaultDateCheck(jwt.payload, name, now, verifier.leeway) = "token_expired"
    BY <2>3
  <2>5. name \in DOMAIN jwt.payload
    BY <2>4 DEF DefaultDateCheck, HasClaim
  <2>6. IF name = "exp" THEN ExpiredAt(now, AsDate(jwt.payload[name])[2], verifier.leeway)
                        ELSE TooEarlyAt(now, AsDate(jwt.payload[name])[2], verifier.leeway)
    BY <2>4 DEF DefaultDateCheck
  <2> QED BY <1>7, <2>1, <2>5, <2>6
<1> QED BY <1>6, <1>7 DEF SetUpInv, ChecksInForce

\* No with_claim took the place of the check of a date.
LEMMA NoClaimSet ==
  ASSUME SetUpOK, NEW name, LastSetting(LAMBDA h : h[1] = "claim" /\ h[2] = name) = 0
  PROVE  \A i \in DOMAIN history : ~(history[i][1] = "claim" /\ history[i][2] = name)
<1> DEFINE those == {i \in DOMAIN history : history[i][1] = "claim" /\ history[i][2] = name}
<1> SUFFICES ASSUME those # {} PROVE FALSE
  OBVIOUS
<1>1. LastSetting(LAMBDA h : h[1] = "claim" /\ h[2] = name)
        = CHOOSE k \in those : \A j \in those : j <= k
  BY DEF LastSetting
<1>2. those \subseteq DOMAIN history
  OBVIOUS
<1> HIDE DEF those
<1> QED BY <1>1, <1>2, LastFound

\* The date that as_date reads of a claim of a date
LEMMA DateRead ==
  ASSUME NEW d \in Int
  PROVE  AsDate(DateClaim(d))[2] = FromTimeT(ToTimeT(Wrap(d)))
<1>1. DateClaim(d)[1] = "integer" /\ DateClaim(d)[2] = ToTimeT(Wrap(d))
  BY DateWhole
<1> QED BY <1>1 DEF AsDate

\* What verify, once back from the claims of a token that sign made, has seen
\* of it
LEMMA OriginChecked ==
  ASSUME BuilderInv, Returned, "jwt" \in DOMAIN call, NEW i \in Origins
  PROVE  /\ SetUpInv /\ Jwt = call.jwt /\ NumbersWhole(Jwt)
         /\ AsAsked(Jwt.payload, issued[i].asked)
         /\ call.now \in Nat /\ call.now <= MaxDate
         /\ issued[i].asked.iat.at \in Int /\ issued[i].asked.iat.at <= call.now
         /\ \/ call.result = "accepted" /\ \A name \in DOMAIN verifier.claims : Passed(name)
            \/ \E name \in DOMAIN verifier.claims : call.result = CheckResult(name, call.jwt, call.now)
<1>1. /\ i \in DOMAIN issued /\ Vouched(call.text, call.jwt)
      /\ Made(call.text, issued[i].algo, issued[i].asked)
  BY OriginMade
<1>2. Jwt = call.jwt /\ NumbersWhole(Jwt) /\ Decode(call.text) = <<"jwt", call.jwt>>
  BY <1>1 DEF Vouched, Jwt
<1>3. "jwt" \notin DOMAIN Returns
  BY DEF Returns
<1>4. call # Idle /\ call # SignedCall /\ call # Returns
  BY <1>3 DEF Returned, Idle, SignedCall
<1>5. /\ call.begun \in Nat /\ call.now \in Nat /\ call.begun <= call.now /\ call.now <= clock
      /\ \/ call.result = "accepted" /\ \A name \in DOMAIN verifier.claims : Passed(name)
         \/ \E name \in DOMAIN verifier.claims : call.result = CheckResult(name, call.jwt, call.now)
  BY <1>4 DEF BuilderInv, VerifierInv, CallOK, Returned
<1>6. /\ issued[i].asked.iat.at \in Int /\ issued[i].asked.iat.at <= call.begun
  BY <1>1 DEF BuilderInv, IssuedOK, Returned
<1>7. clock \in Nat /\ clock <= MaxClock /\ MaxClock \in Nat /\ MaxClock <= MaxDate /\ MaxDate \in Nat
  BY VerifierAssumption, BuilderAssumption DEF BuilderInv, VerifierInv
<1>8. issued[i].algo \notin Unable
  <2> SUFFICES ASSUME issued[i].algo \in Unable PROVE FALSE
    OBVIOUS
  <2>1. Len(call.text) = 0
    BY <1>1 DEF Made
  <2>2. Decode(call.text) = Thrown
    BY <2>1 DEF Decode
  <2> QED BY <1>2, <2>2 DEF Thrown
<1>9. AsAsked(Jwt.payload, issued[i].asked)
  <2>1. PICK h, p : call.text = Token(h, p, issued[i].algo) /\ AsAsked(p, issued[i].asked)
    BY <1>1, <1>8 DEF Made
  <2> DEFINE sig == SignatureOf(issued[i].algo, <<Json(h), Json(p)>>)
             data == <<Json(h), Json(p)>>
  <2>2. Decode(call.text) = <<"jwt", [header |-> h, payload |-> p, data |-> data, signature |-> sig]>>
    BY <2>1, DecodeToken
  <2> HIDE DEF sig, data
  <2>3. Decode(call.text)[2].payload = p
    BY <2>2
  <2> QED BY <2>1, <2>3 DEF Jwt
<1>10. call.now <= MaxDate /\ issued[i].asked.iat.at <= call.now
  BY <1>5, <1>6, <1>7
<1> QED BY <1>2, <1>5, <1>6, <1>9, <1>10 DEF BuilderInv, VerifierInv

\* A token of builder::sign (jwt.h) for which set_expires_in(d) was called is
\* accepted at no later time than d after that call plus the leeway in force
\* for exp, and is not refused as expired earlier than a second before that:
\* rounding down to full seconds costs less than one.  The date that
\* set_issued_now stores, rounded down as well, never makes a token one from
\* the future.  This holds for every clock, resolution, lifetime, leeway and
\* set-up of the verifier, whatever was signed and verified before.
THEOREM LifetimeKept == BuilderSpec => []GoodForItsLifetime
<1>1. ASSUME BuilderInv PROVE GoodForItsLifetime
  <2> DEFINE Exp(i) == issued[i].asked.exp
             Iat(i) == issued[i].asked.iat
             p == Jwt.payload
             l == LeewayAsked("exp")
             End(i) == Exp(i).at + Exp(i).for + l * Ticks
             free == LastSetting(LAMBDA h : h[1] = "claim" /\ h[2] = "exp") = 0
             Late(i) == call.result = "accepted" /\ Exp(i) # Never /\ Exp(i).at + Exp(i).for >= 0 /\ free
             Early(i) ==
               /\ call.result = "token_expired" /\ "nbf" \notin DOMAIN p
               /\ "iat" \in DOMAIN p => Iat(i) # Never /\ LeewayAsked("iat") * Ticks <= MaxDate
               /\ "exp" \in DOMAIN p => Exp(i) # Never /\ Exp(i).at + Exp(i).for >= 0 /\ End(i) <= MaxDate
  <2> SUFFICES ASSUME Returned, "jwt" \in DOMAIN call, NEW i \in Origins
               PROVE  /\ Late(i) => call.now <= End(i)
                      /\ Early(i) => Exp(i) # Never /\ call.now > End(i) - Ticks
    BY DEF GoodForItsLifetime
  <2> DEFINE exp == Exp(i)
             iat == Iat(i)
             d   == exp.at + exp.for
  <2>1. /\ SetUpInv /\ SetUpOK /\ Jwt = call.jwt /\ NumbersWhole(Jwt)
        /\ AsAsked(p, issued[i].asked)
        /\ call.now \in Nat /\ call.now <= MaxDate /\ iat.at \in Int /\ iat.at <= call.now
        /\ \/ call.result = "accepted" /\ \A name \in DOMAIN verifier.claims : Passed(name)
           \/ \E name \in DOMAIN verifier.claims : call.result = CheckResult(name, call.jwt, call.now)
    BY <1>1, OriginChecked DEF SetUpInv
  <2>2. exp # Never => exp.at \in Nat /\ exp.for \in Int /\ "exp" \in DOMAIN p /\ p["exp"] = DateClaim(d)
    BY <2>1 DEF AsAsked
  <2>3. iat # Never => iat.at \in Nat /\ "iat" \in DOMAIN p /\ p["iat"] = DateClaim(iat.at)
    BY <2>1 DEF AsAsked
  <2>4. ASSUME Late(i) PROVE call.now <= End(i)
    <3>1. CheckResult("exp", Jwt, call.now) = "ok"
      BY <2>1, <2>4, NeverAccepted DEF Passed, SetUpInv, ChecksInForce, DateNames
    <3>2. \A k \in DOMAIN history : ~(history[k][1] = "claim" /\ history[k][2] = "exp")
      BY <2>1, <2>4, NoClaimSet
    <3>3. /\ l \in Nat
          /\ \/ DefaultDateCheck(p, "exp", call.now, l) = "ok"
             \/ DateBeforeClaim(p, "exp", call.now, l) = "ok"
      BY <2>1, <3>1, <3>2, DateChecked DEF DateNames
    <3>4. ~ExpiredAt(call.now, AsDate(p["exp"])[2], l)
      BY <2>1, <2>2, <2>4, <3>3, DatePassed DEF DateNames, HasClaim
    <3>5. d \in Nat
      BY <2>2, <2>4
    <3>6. ~ExpiredAt(call.now, FromTimeT(ToTimeT(Wrap(d))), l)
      BY <2>2, <2>4, <3>4, <3>5, DateRead
    <3> HIDE DEF d, l
    <3>7. call.now <= d + l * Ticks
      BY <2>1, <3>3, <3>5, <3>6, LifetimeEnds
    <3> QED BY <3>7 DEF d, l
  <2>5. ASSUME Early(i) PROVE Exp(i) # Never /\ call.now > End(i) - Ticks
    <3>1. PICK name \in DOMAIN verifier.claims : CheckResult(name, Jwt, call.now) = "token_expired"
      BY <2>1, <2>5
    <3>2. /\ name \in DateNames /\ name \in DOMAIN p /\ LeewayAsked(name) \in Nat
          /\ IF name = "exp" THEN ExpiredAt(call.now, AsDate(p[name])[2], LeewayAsked(name))
                             ELSE TooEarlyAt(call.now, AsDate(p[name])[2], LeewayAsked(name))
      BY <2>1, <3>1, OnlyDatesExpire
    <3>3. CASE name = "iat"
      <4>1. iat.at \in Nat /\ p["iat"] = DateClaim(iat.at) /\ LeewayAsked("iat") * Ticks <= MaxDate
        BY <2>3, <2>5, <3>2, <3>3
      <4>2. TooEarlyAt(call.now, FromTimeT(ToTimeT(Wrap(iat.at))), LeewayAsked("iat"))
        BY <3>2, <3>3, <4>1, DateRead
      <4> QED BY <2>1, <3>2, <3>3, <4>1, <4>2, NotTooEarly
    <3>4. CASE name = "exp"
      <4>1. exp # Never /\ d \in Nat /\ p["exp"] = DateClaim(d) /\ d + l * Ticks <= MaxDate
        BY <2>2, <2>5, <3>2, <3>4
      <4>2. ExpiredAt(call.now, FromTimeT(ToTimeT(Wrap(d))), l) /\ l \in Nat
        BY <3>2, <3>4, <4>1, DateRead
      <4>3. End(i) = d + l * Ticks
        OBVIOUS
      <4> HIDE DEF d, l, End
      <4>4. call.now > d + l * Ticks - Ticks
        BY <2>1, <4>1, <4>2, LifetimeLasts
      <4>5. Exp(i) # Never
        BY <4>1
      <4>6. call.now > End(i) - Ticks
        BY <2>1, <4>1, <4>2, <4>3, <4>4, VerifierAssumption
      <4> HIDE DEF Exp
      <4> QED BY <4>5, <4>6
    <3> QED BY <2>5, <3>2, <3>3, <3>4 DEF DateNames
  <2> HIDE DEF Exp, End, Late, Early
  <2> QED BY <2>4, <2>5
<1> QED BY <1>1, BuilderInvariant, PTL

=============================================================================
