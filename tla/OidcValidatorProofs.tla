------------------------- MODULE OidcValidatorProofs -------------------------
(***************************************************************************)
(* Proofs about OidcValidator, for any number of backends, any settings,   *)
(* tokens, documents and key rotation.                                     *)
(*                                                                         *)
(* validate_token uses two documents that it fetched one after the other,  *)
(* possibly through a cache that other backends filled.  The invariant     *)
(* ties the request a session waits for to the session's own settings, and *)
(* the session's result to the documents it was decided on.  Documents are *)
(* published and never taken back, and the clock never goes back, so what  *)
(* a decision rested on stays a reason for it.                             *)
(***************************************************************************)
EXTENDS OidcValidator, HttpClientProofs

-----------------------------------------------------------------------------
(* The inductive invariant                                                  *)

InfoUrl(hba) == IssuerInfoUrl(DiscoveryUrl(hba))

\* What validate_token can say.
Outcomes ==
  {Denied} \cup {Decide(s[1], s[2], s[3], s[4]) : s \in
                   Hbas \X {JwksOf[k] : k \in Bodies} \X Tokens \X Nat}

Session ==
  [pc : {"idle", "discover", "discovery", "jwks", "done"}, hba : Hbas \cup {None},
   token : Tokens \cup {None}, result : Outcomes, threw : BOOLEAN]

SessionsOK ==
  /\ session \in [Backends -> Session]
  /\ \A b \in Backends : session[b].pc # "idle" => session[b].hba \in Hbas /\ session[b].token \in Tokens

\* The backend's request is one for u: under way, answered, or failed.
Asks(b, u) ==
  /\ u \in Urls
  /\ http[b].pc # "failed" => http[b].url = u
  /\ http[b].pc = "idle" => http[b].doc \in Served(u)

\* A session waits for the document of its own issuer, or for the key set
\* that a document of its own issuer names.
Waiting(b) ==
  /\ session[b].pc = "discovery" => Asks(b, InfoUrl(session[b].hba))
  /\ session[b].pc = "jwks" =>
       \E d \in PublishedInfo(session[b].hba) :
         NamesJwks(d) /\ Asks(b, ToStr(DiscoveryOf[d].jwks_uri))

\* The result is what Decide says of a published key set, unless the session
\* has not come to its end, an exception ended it, or a published document
\* names no key set.
Decided(b) ==
  \E k \in PublishedJwks(session[b].hba), t \in 0..clock :
    Decide(session[b].hba, JwksOf[k], session[b].token, t) = session[b].result

Unnamed(b) ==
  session[b].result = Denied /\ \E d \in PublishedInfo(session[b].hba) : ~NamesJwks(d)

Justified(b) ==
  IF session[b].pc = "done" /\ ~session[b].threw THEN Unnamed(b) \/ Decided(b)
                                                  ELSE session[b].result = Denied

SessionsJustified == \A b \in Backends : Waiting(b) /\ Justified(b)

VInv == CInv /\ SessionsOK /\ SessionsJustified

-----------------------------------------------------------------------------
(* Steps of the components below                                            *)

\* Documents stay published and the clock does not go back.
Later == /\ \A u \in Urls : Served(u) \subseteq Served(u)'
         /\ clock' >= clock

\* Nothing in the cache or in get_json undoes either.
LEMMA ClientLater ==
  ASSUME CInv, [ClientNext]_clientVars
  PROVE  CInv' /\ Later
<1>1. CInv'
  BY NextCInv
<1>2. clock \in Nat
  BY DEF CInv, IInv, CacheTypeOK
<1>3. CASE UNCHANGED <<edition, clock>>
  BY <1>1, <1>2, <1>3 DEF Later, Served
<1>4. CASE ClientTick
  BY <1>1, <1>2, <1>4 DEF ClientTick, Tick, Later, Served
<1>5. ASSUME NEW v \in Urls, Publish(v) PROVE Later
  <2> SUFFICES ASSUME NEW u \in Urls PROVE 1..edition[u] \subseteq 1..edition'[u]
    BY <1>2, <1>5 DEF Later, Served, Publish, cacheVars
  <2>1. edition \in [Urls -> Nat \ {0}]
    BY DEF CInv, FramesOK
  <2>2. edition[u] \in Nat /\ edition'[u] \in Nat /\ edition'[u] >= edition[u]
    BY <1>5, <2>1 DEF Publish
  <2> QED
    BY <2>2
<1>6. ASSUME NEW b \in Backends, ClientStep(b) PROVE UNCHANGED <<edition, clock>>
  BY <1>6
  DEF ClientStep, CacheStep, Find, FindError, CheckExpired, CopyJson, ReleaseShared,
      LockExclusive, InsertError, WriteJson, WriteExpiration, ReleaseExclusive, LookupDone,
      CacheThrew, Respond, HeaderCallback, PerformFails, Complete, Put, StoreDone, cacheVars
<1>7. ASSUME NEW b \in Backends, ClientAttach(b) \/ ClientExit(b) \/ \E u \in Urls : GetJson(b, u)
      PROVE  UNCHANGED <<edition, clock>>
  BY <1>7 DEF ClientAttach, Attach, ClientExit, Exit, GetJson, Get
<1>8. CASE UNCHANGED clientVars
  BY <1>1, <1>3, <1>8 DEF clientVars, cacheVars
<1> QED
  BY <1>1, <1>3, <1>4, <1>5, <1>6, <1>7, <1>8 DEF ClientNext

\* A step of get_json belongs to a call under way, and when the call returns
\* it has a document that was served under the URL asked for.
LEMMA StepAnswers ==
  ASSUME NEW b \in Backends, CInv, ClientStep(b)
  PROVE  /\ http[b].pc \notin {"idle", "failed"}
         /\ http'[b].pc # "failed" => http'[b].url = http[b].url
         /\ http'[b].pc = "idle" => http'[b].doc \in Served(http[b].url)
         /\ \A c \in Backends \ {b} : http'[c] = http[c]
<1>1. Works(b) /\ http \in [Backends -> HttpFrame] /\ http[b] \in HttpFrame
  BY DEF CInv, CallsWork, FramesOK
<1>2. CASE CacheStep(b) /\ UNCHANGED <<http, edition>>
  <2>1. pc[b] \in Calling
    BY <1>2
    DEF CacheStep, Find, FindError, CheckExpired, CopyJson, ReleaseShared, LockExclusive,
        InsertError, WriteJson, WriteExpiration, ReleaseExclusive, Calling, Reading, Writing
  <2> QED
    BY <1>1, <1>2, <2>1 DEF Works, Resting, Calling, Reading, Writing
<1>3. CASE LookupDone(b) /\ ret[b].kind = "hit" /\ ret[b].body \notin Unparseable
  <2>1. /\ http[b].pc = "lookup" /\ ret[b].body \in Served(http[b].url)
        /\ ReturnJson(b, ret[b].body)
    BY <1>1, <1>3 DEF LookupDone, Works, LookingUp, Good
  <2> QED
    BY <1>1, <2>1 DEF ReturnJson, NoCall
<1>4. CASE LookupDone(b) /\ ~(ret[b].kind = "hit" /\ ret[b].body \notin Unparseable)
  BY <1>1, <1>4 DEF LookupDone, HttpFrame
<1>5. CASE CacheThrew(b) \/ PerformFails(b)
  BY <1>1, <1>5 DEF CacheThrew, PerformFails, ThrowJson, NoCall
<1>6. CASE Respond(b)
  BY <1>1, <1>6 DEF Respond, HttpFrame
<1>7. CASE HeaderCallback(b)
  BY <1>1, <1>7 DEF HeaderCallback, HttpFrame
<1>8. CASE Complete(b)
  <2>1. http[b].pc = "transfer"
    BY <1>8 DEF Complete
  <2>2. CASE ThrowJson(b)
    BY <1>1, <2>1, <2>2 DEF ThrowJson, NoCall
  <2>3. CASE http' = [http EXCEPT ![b].pc = "store"]
    BY <1>1, <2>1, <2>3 DEF HttpFrame
  <2>4. CASE ReturnJson(b, http[b].response.body) /\ Usable(http[b].response)
    <3>1. http[b].response.body \in Served(http[b].url)
      BY <1>1, <2>1, <2>4 DEF Works, Transferring, Usable
    <3> QED
      BY <1>1, <2>1, <2>4, <3>1 DEF ReturnJson, NoCall
  <2> QED
    BY <1>8, <2>2, <2>3, <2>4 DEF Complete
<1>9. CASE StoreDone(b)
  <2>1. /\ http[b].pc = "store" /\ http[b].response.body \in Served(http[b].url)
        /\ ReturnJson(b, http[b].response.body)
    BY <1>1, <1>9 DEF StoreDone, Works, Storing, Good
  <2> QED
    BY <1>1, <2>1 DEF ReturnJson, NoCall
<1> QED
  BY <1>2, <1>3, <1>4, <1>5, <1>6, <1>7, <1>8, <1>9 DEF ClientStep

-----------------------------------------------------------------------------
(* Sessions that a step leaves alone                                        *)

\* What a session's documents are does not change, except that more may come.
LEMMA PublishedGrows ==
  ASSUME Later, NEW hba \in Hbas
  PROVE  /\ PublishedInfo(hba) \subseteq PublishedInfo(hba)'
         /\ PublishedJwks(hba) \subseteq PublishedJwks(hba)'
<1>1. PublishedInfo(hba) \subseteq PublishedInfo(hba)'
  BY ValidatorAssumption DEF Later, PublishedInfo
<1>2. ASSUME NEW k \in PublishedJwks(hba) PROVE k \in PublishedJwks(hba)'
  <2>1. PICK d \in PublishedInfo(hba) : NamesJwks(d) /\ k \in Served(ToStr(DiscoveryOf[d].jwks_uri))
    BY DEF PublishedJwks
  <2>2. k \in Served(ToStr(DiscoveryOf[d].jwks_uri))' /\ d \in PublishedInfo(hba)'
    BY <1>1, <2>1 DEF Later, NamesJwks
  <2> QED
    BY <2>1, <2>2 DEF PublishedJwks
<1> QED
  BY <1>1, <1>2

\* A result stays justified.
LEMMA JustifiedStays ==
  ASSUME NEW b \in Backends, VInv, Later, CInv', session'[b] = session[b]
  PROVE  Justified(b)'
<1>1. Justified(b)
  BY DEF VInv, SessionsJustified
<1>2. CASE session[b].pc = "done" /\ ~session[b].threw
  <2>1. session[b].hba \in Hbas
    BY <1>2 DEF VInv, SessionsOK
  <2>2. clock \in Nat /\ clock' \in Nat /\ clock' >= clock
    BY DEF VInv, CInv, IInv, CacheTypeOK, Later
  <2>3. 0..clock \subseteq 0..clock'
    BY <2>2
  <2>4. Unnamed(b) => Unnamed(b)'
    BY <2>1, PublishedGrows DEF Unnamed
  <2>5. Decided(b) => Decided(b)'
    BY <2>1, <2>3, PublishedGrows DEF Decided
  <2> QED
    BY <1>1, <1>2, <2>4, <2>5 DEF Justified
<1>3. CASE ~(session[b].pc = "done" /\ ~session[b].threw)
  BY <1>1, <1>3 DEF Justified
<1> QED
  BY <1>2, <1>3

\* A session goes on waiting while its call goes on.
LEMMA WaitingStays ==
  ASSUME NEW b \in Backends, VInv, Later, session'[b] = session[b],
         \A u \in Urls : Asks(b, u) => Asks(b, u)'
  PROVE  Waiting(b)'
<1>1. Waiting(b)
  BY DEF VInv, SessionsJustified
<1>2. session[b].pc # "idle" => session[b].hba \in Hbas
  BY DEF VInv, SessionsOK
<1>3. CASE session[b].pc = "discovery"
  BY <1>1, <1>2, <1>3 DEF Waiting, Asks
<1>4. CASE session[b].pc = "jwks"
  <2>1. PICK d \in PublishedInfo(session[b].hba) :
          NamesJwks(d) /\ Asks(b, ToStr(DiscoveryOf[d].jwks_uri))
    BY <1>1, <1>4 DEF Waiting
  <2>2. d \in PublishedInfo(session[b].hba)'
    BY <1>2, <1>4, <2>1, PublishedGrows
  <2>3. Asks(b, ToStr(DiscoveryOf[d].jwks_uri))'
    BY <2>1 DEF NamesJwks
  <2> QED
    BY <1>4, <2>1, <2>2, <2>3 DEF Waiting
<1>5. CASE session[b].pc \notin {"discovery", "jwks"}
  BY <1>5 DEF Waiting
<1> QED
  BY <1>3, <1>4, <1>5

\* The calls of a backend that does not step ask for what they asked.
LEMMA AsksStays ==
  ASSUME NEW b \in Backends, Later, http'[b] = http[b]
  PROVE  \A u \in Urls : Asks(b, u) => Asks(b, u)'
BY DEF Asks, Later

\* A step in which the sessions do not change.
LEMMA ClientStepVInv ==
  ASSUME VInv, UNCHANGED session,
         \/ ClientTick
         \/ \E u \in Urls : Publish(u)
         \/ \E b \in Backends : ClientStep(b)
         \/ UNCHANGED clientVars
  PROVE  VInv'
<1>1. CInv /\ [ClientNext]_clientVars
  BY DEF VInv, ClientNext
<1>2. CInv' /\ Later
  BY <1>1, ClientLater
<1>3. SessionsOK'
  BY DEF VInv, SessionsOK
<1>4. ASSUME NEW c \in Backends, NEW u \in Urls, Asks(c, u) PROVE Asks(c, u)'
  <2>1. CASE http'[c] = http[c]
    BY <1>2, <1>4, <2>1, AsksStays
  <2>2. CASE ClientStep(c)
    <3>1. /\ http[c].pc \notin {"idle", "failed"}
          /\ http'[c].pc # "failed" => http'[c].url = http[c].url
          /\ http'[c].pc = "idle" => http'[c].doc \in Served(http[c].url)
      BY <1>1, <2>2, StepAnswers
    <3> QED
      BY <1>2, <1>4, <3>1 DEF Asks, Later
  <2>3. CASE \E b \in Backends : b # c /\ ClientStep(b)
    <3>1. http'[c] = http[c]
      BY <1>1, <2>3, StepAnswers
    <3> QED
      BY <2>1, <3>1
  <2>4. CASE ClientTick \/ (\E v \in Urls : Publish(v)) \/ UNCHANGED clientVars
    <3>1. http'[c] = http[c]
      BY <2>4 DEF ClientTick, Publish, clientVars
    <3> QED
      BY <2>1, <3>1
  <2> QED
    BY <2>2, <2>3, <2>4
<1>5. ASSUME NEW c \in Backends PROVE Waiting(c)' /\ Justified(c)'
  BY <1>2, <1>4, JustifiedStays, WaitingStays
<1> QED
  BY <1>2, <1>3, <1>5 DEF VInv, SessionsJustified

\* A step of one session.
LEMMA SessionVInv ==
  ASSUME NEW b \in Backends, NEW s \in Session, VInv, [ClientNext]_clientVars,
         session' = [session EXCEPT ![b] = s],
         s.pc # "idle" => s.hba \in Hbas /\ s.token \in Tokens,
         \A c \in Backends \ {b} : http'[c] = http[c],
         Waiting(b)', Justified(b)'
  PROVE  VInv'
<1>1. CInv' /\ Later
  BY ClientLater DEF VInv
<1>2. /\ session' \in [Backends -> Session] /\ session'[b] = s
      /\ \A c \in Backends \ {b} : session'[c] = session[c]
  BY DEF VInv, SessionsOK
<1>3. SessionsOK'
  BY <1>2 DEF VInv, SessionsOK
<1>4. ASSUME NEW c \in Backends \ {b} PROVE Waiting(c)' /\ Justified(c)'
  BY <1>1, <1>2, JustifiedStays, WaitingStays, AsksStays
<1> QED
  BY <1>1, <1>3, <1>4 DEF VInv, SessionsJustified

-----------------------------------------------------------------------------
(* Steps of validate_token                                                  *)

\* A session's fields, one by one.
LEMMA OutcomeTypes ==
  /\ Denied \in Outcomes /\ NoSession \in Session
  /\ \A hba \in Hbas, k \in Bodies, token \in Tokens, t \in Nat :
       Decide(hba, JwksOf[k], token, t) \in Outcomes
<1>1. Denied \in Outcomes
  BY DEF Outcomes
<1>2. NoSession \in Session
  BY <1>1 DEF NoSession, Session
<1>3. ASSUME NEW hba \in Hbas, NEW k \in Bodies, NEW token \in Tokens, NEW t \in Nat
      PROVE  Decide(hba, JwksOf[k], token, t) \in Outcomes
  <2> DEFINE q == <<hba, JwksOf[k], token, t>>
  <2>1. q \in Hbas \X {JwksOf[i] : i \in Bodies} \X Tokens \X Nat
    OBVIOUS
  <2>2. q[1] = hba /\ q[2] = JwksOf[k] /\ q[3] = token /\ q[4] = t
    OBVIOUS
  <2> HIDE DEF q
  <2> QED
    BY <2>1, <2>2 DEF Outcomes
<1> QED
  BY <1>1, <1>2, <1>3

\* validate_token leaves: with a decision, or because it must refuse.
LEMMA FinishVInv ==
  ASSUME NEW b \in Backends, VInv, UNCHANGED clientVars, session[b].pc # "idle",
         NEW outcome \in Outcomes, NEW threw \in BOOLEAN, Finish(b, outcome, threw),
         \/ outcome = Denied /\ threw
         \/ outcome = Denied /\ \E d \in PublishedInfo(session[b].hba) : ~NamesJwks(d)
         \/ \E k \in PublishedJwks(session[b].hba) :
              ~threw /\ outcome = Decide(session[b].hba, JwksOf[k], session[b].token, clock)
  PROVE  VInv'
<1> DEFINE s == [session[b] EXCEPT !.pc = "done", !.result = outcome, !.threw = threw]
<1>1. session[b] \in Session /\ session[b].hba \in Hbas /\ session[b].token \in Tokens
  BY DEF VInv, SessionsOK
<1>2. session' = [session EXCEPT ![b] = s] /\ session'[b] = s
  BY DEF Finish, VInv, SessionsOK
<1>3. s \in Session
  BY <1>1 DEF Session
<1>4. /\ s.pc = "done" /\ s.result = outcome /\ s.threw = threw
      /\ s.hba = session[b].hba /\ s.token = session[b].token
  BY <1>1 DEF Session
<1> HIDE DEF s
<1>5. clock \in Nat /\ clock \in 0..clock
  BY DEF VInv, CInv, IInv, CacheTypeOK
<1>6. UNCHANGED <<http, edition, clock>> /\ [ClientNext]_clientVars
  BY DEF clientVars, cacheVars
<1>7. Waiting(b)'
  BY <1>2, <1>4 DEF Waiting
<1>8. Justified(b)'
  <2>1. CInv' /\ Later
    BY <1>6, ClientLater DEF VInv
  <2>2. CASE outcome = Denied /\ threw
    BY <1>2, <1>4, <2>2 DEF Justified
  <2>3. CASE outcome = Denied /\ \E d \in PublishedInfo(session[b].hba) : ~NamesJwks(d)
    <3>1. Unnamed(b)'
      BY <1>1, <1>2, <1>4, <2>1, <2>3, PublishedGrows DEF Unnamed
    <3> QED
      BY <1>2, <1>4, <2>3, <3>1 DEF Justified
  <2>4. CASE \E k \in PublishedJwks(session[b].hba) :
               ~threw /\ outcome = Decide(session[b].hba, JwksOf[k], session[b].token, clock)
    <3>1. clock' = clock
      BY <1>6
    <3>2. Decided(b)'
      BY <1>1, <1>2, <1>4, <1>5, <2>1, <2>4, <3>1, PublishedGrows DEF Decided
    <3> QED
      BY <1>2, <1>4, <2>4, <3>2 DEF Justified
  <2> QED
    BY <2>2, <2>3, <2>4
<1> QED
  BY <1>1, <1>2, <1>3, <1>4, <1>6, <1>7, <1>8, SessionVInv

\* A connection: the cache is attached or it is not, and no result yet.
LEMMA ValidateTokenVInv ==
  ASSUME NEW b \in Backends, NEW hba \in Hbas, NEW token \in Tokens, VInv,
         ValidateToken(b, hba, token)
  PROVE  VInv'
<1> DEFINE s == [NoSession EXCEPT !.pc = "discover", !.hba = hba, !.token = token]
<1>1. session' = [session EXCEPT ![b] = s] /\ session'[b] = s
  BY DEF ValidateToken, VInv, SessionsOK
<1>2. s \in Session
  BY OutcomeTypes DEF Session
<1>3. s.pc = "discover" /\ s.hba = hba /\ s.token = token /\ s.result = Denied
  BY DEF NoSession
<1> HIDE DEF s
<1>4. http' = http /\ [ClientNext]_clientVars
  BY DEF ValidateToken, ClientAttach, ClientNext, clientVars
<1>5. Waiting(b)' /\ Justified(b)'
  BY <1>1, <1>3 DEF Waiting, Justified
<1> QED
  BY <1>1, <1>2, <1>3, <1>4, <1>5, SessionVInv

\* The connection ends.
LEMMA ValidatorShutdownVInv ==
  ASSUME NEW b \in Backends, VInv, ValidatorShutdown(b)
  PROVE  VInv'
<1>1. session' = [session EXCEPT ![b] = NoSession] /\ session'[b] = NoSession
  BY DEF ValidatorShutdown, VInv, SessionsOK
<1>2. NoSession \in Session
  BY OutcomeTypes
<1>3. NoSession.pc = "idle" /\ NoSession.result = Denied
  BY DEF NoSession
<1>4. [ClientNext]_clientVars /\ \A c \in Backends \ {b} : http'[c] = http[c]
  BY DEF ValidatorShutdown, ClientExit, ClientNext, VInv, CInv, FramesOK
<1>5. Waiting(b)' /\ Justified(b)'
  BY <1>1, <1>3 DEF Waiting, Justified
<1> QED
  BY <1>1, <1>2, <1>3, <1>4, <1>5, SessionVInv

\* A request for u: the session goes to the stage that waits for it.
LEMMA RequestVInv ==
  ASSUME NEW b \in Backends, NEW u \in Urls, VInv, GetJson(b, u),
         session[b].pc \notin {"idle", "done"}, NEW stage \in {"discovery", "jwks"},
         session' = [session EXCEPT ![b].pc = stage],
         stage = "discovery" => u = InfoUrl(session[b].hba),
         stage = "jwks" => \E d \in PublishedInfo(session[b].hba) :
                             NamesJwks(d) /\ ToStr(DiscoveryOf[d].jwks_uri) = u
  PROVE  VInv'
<1> DEFINE s == [session[b] EXCEPT !.pc = stage]
<1>1. /\ session[b] \in Session /\ session[b].hba \in Hbas /\ session[b].token \in Tokens
      /\ session[b].result = Denied
  BY DEF VInv, SessionsOK, SessionsJustified, Justified
<1>2. session' = [session EXCEPT ![b] = s] /\ session'[b] = s
  BY DEF VInv, SessionsOK
<1>3. s \in Session
  BY <1>1 DEF Session
<1>4. /\ s.pc = stage /\ s.result = Denied
      /\ s.hba = session[b].hba /\ s.token = session[b].token
  BY <1>1 DEF Session
<1> HIDE DEF s
<1>5. /\ [ClientNext]_clientVars /\ http'[b].pc = "lookup" /\ http'[b].url = u
      /\ \A c \in Backends \ {b} : http'[c] = http[c]
  BY DEF GetJson, ClientNext, VInv, CInv, FramesOK, NoCall
<1>6. Later
  BY <1>5, ClientLater DEF VInv
<1>7. Asks(b, u)'
  BY <1>5 DEF Asks
<1>8. Waiting(b)'
  <2>1. CASE stage = "discovery"
    BY <1>2, <1>4, <1>7, <2>1 DEF Waiting
  <2>2. CASE stage = "jwks"
    <3>1. PICK d \in PublishedInfo(session[b].hba) :
            NamesJwks(d) /\ ToStr(DiscoveryOf[d].jwks_uri) = u
      BY <2>2
    <3>2. session'[b].pc = "jwks" /\ session'[b].hba = session[b].hba
      BY <1>2, <1>4, <2>2
    <3>3. d \in PublishedInfo(session[b].hba)'
      BY <1>1, <1>6, <3>1, <3>2, PublishedGrows
    <3> QED
      BY <1>7, <3>1, <3>2, <3>3 DEF Waiting
  <2> QED
    BY <2>1, <2>2
<1>9. Justified(b)'
  BY <1>2, <1>4 DEF Justified
<1> QED
  BY <1>1, <1>2, <1>3, <1>4, <1>5, <1>8, <1>9, SessionVInv

\* The first request goes to the discovery URL of the session's settings.
LEMMA DiscoverVInv ==
  ASSUME NEW b \in Backends, VInv, Discover(b)
  PROVE  VInv'
<1>1. session[b].pc = "discover" /\ session[b].hba \in Hbas
  BY DEF Discover, VInv, SessionsOK
<1>2. InfoUrl(session[b].hba) \in Urls
  BY <1>1, ValidatorAssumption DEF InfoUrl
<1> QED
  BY <1>1, <1>2, RequestVInv DEF Discover, InfoUrl

\* The second one to the URL that the first document names, if it names one.
LEMMA DiscoveryDoneVInv ==
  ASSUME NEW b \in Backends, VInv, DiscoveryDone(b)
  PROVE  VInv'
<1> DEFINE hba == session[b].hba
           d == http[b].doc
           info == DiscoveryOf[d]
<1>1. session[b].pc = "discovery" /\ hba \in Hbas /\ http[b].pc = "idle"
  BY DEF DiscoveryDone, VInv, SessionsOK
<1>2. d \in PublishedInfo(hba) /\ InfoUrl(hba) \in Urls
  BY <1>1 DEF VInv, SessionsJustified, Waiting, Asks, PublishedInfo, InfoUrl
<1>3. CASE ~info.object \/ info.jwks_uri = Absent \/ ToStr(info.jwks_uri) = ""
  <2>1. Finish(b, Denied, FALSE) /\ UNCHANGED clientVars
    BY <1>3 DEF DiscoveryDone
  <2>2. ~NamesJwks(d)
    BY <1>3, ValidatorAssumption DEF NamesJwks
  <2> QED
    BY <1>1, <1>2, <2>1, <2>2, OutcomeTypes, FinishVInv
<1>4. CASE ~(~info.object \/ info.jwks_uri = Absent \/ ToStr(info.jwks_uri) = "")
  <2>1. /\ GetJson(b, ToStr(info.jwks_uri))
        /\ session' = [session EXCEPT ![b].pc = "jwks"]
    BY <1>4 DEF DiscoveryDone
  <2>2. PICK i \in DOMAIN Editions[InfoUrl(hba)] : d = Editions[InfoUrl(hba)][i]
    <3>1. /\ edition[InfoUrl(hba)] \in Nat
          /\ edition[InfoUrl(hba)] <= Len(Editions[InfoUrl(hba)])
          /\ Editions[InfoUrl(hba)] \in Seq(Bodies)
      BY <1>2, ClientAssumption DEF VInv, CInv, FramesOK
    <3>2. PICK i \in 1..edition[InfoUrl(hba)] : d = Editions[InfoUrl(hba)][i]
      BY <1>2 DEF PublishedInfo, Served, InfoUrl
    <3> QED
      BY <3>1, <3>2
  <2>3. ToStr(info.jwks_uri) \in Urls
    BY <1>1, <1>4, <2>2, ValidatorAssumption DEF InfoUrl
  <2>4. NamesJwks(d)
    BY <1>4, <2>3 DEF NamesJwks
  <2> QED
    BY <1>1, <1>2, <2>1, <2>3, <2>4, RequestVInv
<1> QED
  BY <1>3, <1>4

\* The key set that a waiting session finds was published for it.
LEMMA JwksPublished ==
  ASSUME NEW b \in Backends, VInv, session[b].pc = "jwks", http[b].pc = "idle"
  PROVE  http[b].doc \in PublishedJwks(session[b].hba) /\ http[b].doc \in Bodies
<1>1. PICK d \in PublishedInfo(session[b].hba) :
        NamesJwks(d) /\ Asks(b, ToStr(DiscoveryOf[d].jwks_uri))
  BY DEF VInv, SessionsJustified, Waiting
<1>2. /\ ToStr(DiscoveryOf[d].jwks_uri) \in Urls
      /\ http[b].doc \in Served(ToStr(DiscoveryOf[d].jwks_uri))
  BY <1>1 DEF Asks
<1>3. http[b].doc \in Bodies
  BY <1>2, ServedType DEF VInv, CInv
<1> QED
  BY <1>1, <1>2, <1>3 DEF PublishedJwks

\* The ends of validate_token after the key set, and its catch clauses.
LEMMA EndsVInv ==
  ASSUME NEW b \in Backends, VInv, NoCurl(b) \/ JwksDone(b) \/ NoMemory(b) \/ Threw(b)
  PROVE  VInv'
<1>1. UNCHANGED clientVars /\ session[b].pc # "idle"
  BY DEF NoCurl, JwksDone, NoMemory, Threw
<1>2. CASE Finish(b, Denied, TRUE)
  BY <1>1, <1>2, OutcomeTypes, FinishVInv
<1>3. CASE JwksDone(b)
  <2> DEFINE k == http[b].doc
             outcome == Decide(session[b].hba, JwksOf[k], session[b].token, clock)
  <2>1. /\ session[b].hba \in Hbas /\ session[b].token \in Tokens /\ clock \in Nat
        /\ session[b].pc = "jwks" /\ http[b].pc = "idle" /\ Finish(b, outcome, FALSE)
    BY <1>1, <1>3 DEF VInv, SessionsOK, CInv, IInv, CacheTypeOK, JwksDone
  <2>2. k \in PublishedJwks(session[b].hba) /\ k \in Bodies
    BY <2>1, JwksPublished
  <2>3. outcome \in Outcomes
    BY <2>1, <2>2, OutcomeTypes
  <2> QED
    BY <1>1, <2>1, <2>2, <2>3, FinishVInv
<1> QED
  BY <1>2, <1>3 DEF NoCurl, NoMemory, Threw

-----------------------------------------------------------------------------
(* The invariant holds                                                      *)

\* No connection yet.
LEMMA InitVInv == ValidatorInit => VInv
<1> SUFFICES ASSUME ValidatorInit PROVE VInv
  OBVIOUS
<1>1. CInv
  BY InitCInv DEF ValidatorInit
<1>2. NoSession \in Session /\ NoSession.pc = "idle" /\ NoSession.result = Denied
  BY OutcomeTypes DEF NoSession
<1>3. session \in [Backends -> Session] /\ \A b \in Backends : session[b] = NoSession
  BY <1>2 DEF ValidatorInit
<1>4. SessionsOK
  BY <1>2, <1>3 DEF SessionsOK
<1>5. SessionsJustified
  BY <1>2, <1>3 DEF SessionsJustified, Waiting, Justified
<1> QED
  BY <1>1, <1>4, <1>5 DEF VInv

\* Every step keeps the invariant.
LEMMA NextVInv == VInv /\ [ValidatorNext]_validatorVars => VInv'
<1> SUFFICES ASSUME VInv, [ValidatorNext]_validatorVars PROVE VInv'
  OBVIOUS
<1>1. CASE UNCHANGED session /\ (ClientTick \/ \E u \in Urls : Publish(u))
  BY <1>1, ClientStepVInv
<1>2. ASSUME NEW b \in Backends, ClientStep(b), UNCHANGED session PROVE VInv'
  BY <1>2, ClientStepVInv
<1>3. ASSUME NEW b \in Backends,
             Discover(b) \/ NoCurl(b) \/ DiscoveryDone(b) \/ JwksDone(b) \/ NoMemory(b) \/ Threw(b)
      PROVE  VInv'
  BY <1>3, DiscoverVInv, DiscoveryDoneVInv, EndsVInv
<1>4. ASSUME NEW b \in Backends, ValidatorShutdown(b) PROVE VInv'
  BY <1>4, ValidatorShutdownVInv
<1>5. ASSUME NEW b \in Backends, NEW hba \in Hbas, NEW token \in Tokens,
             ValidateToken(b, hba, token)
      PROVE  VInv'
  BY <1>5, ValidateTokenVInv
<1>6. CASE UNCHANGED validatorVars
  BY <1>6, ClientStepVInv DEF validatorVars
<1> QED
  BY <1>1, <1>2, <1>3, <1>4, <1>5, <1>6 DEF ValidatorNext, ValidatorStep

\* Hence the invariant holds at all times.
LEMMA ValidatorInductive == ValidatorSpec => []VInv
<1> QED
  BY InitVInv, NextVInv, PTL DEF ValidatorSpec

-----------------------------------------------------------------------------
(* What follows from it                                                     *)

\* A connection is authorized only by a decision on a key set published for
\* it, at some instant up to now (pg_oidc_validator.cpp:54-168): for any
\* number of backends sharing the cache, however their requests, expiry and
\* key rotation interleave and whichever of them fail.
THEOREM PublishedKeysAuthorize == ValidatorSpec => []AuthorizedByPublishedKeys
<1>1. ASSUME VInv PROVE AuthorizedByPublishedKeys
  <2> SUFFICES ASSUME NEW b \in Backends, session[b].result.authorized
               PROVE  Decided(b)
    BY DEF AuthorizedByPublishedKeys, Decided
  <2>1. session[b].result # Denied
    BY DEF Denied
  <2> QED
    BY <1>1, <2>1 DEF VInv, SessionsJustified, Justified, Unnamed
<1> QED
  BY <1>1, ValidatorInductive, PTL

\* A token that every published key set supports is refused only when an
\* exception ended the call (pg_oidc_validator.cpp:74-175): rotation between
\* the two requests and entries left by other backends never refuse it.
THEOREM SupportedTokens == ValidatorSpec => []SupportedTokenAccepted
<1>1. ASSUME VInv PROVE SupportedTokenAccepted
  <2> SUFFICES ASSUME NEW b \in Backends, session[b].pc = "done", ~session[b].threw,
                      \A d \in PublishedInfo(session[b].hba) : NamesJwks(d),
                      \A k \in PublishedJwks(session[b].hba), t \in 0..clock :
                        Decide(session[b].hba, JwksOf[k], session[b].token, t).authorized
               PROVE  session[b].result.authorized
    BY DEF SupportedTokenAccepted
  <2>1. Decided(b)
    BY <1>1 DEF VInv, SessionsJustified, Justified, Unnamed
  <2> QED
    BY <2>1 DEF Decided
<1> QED
  BY <1>1, ValidatorInductive, PTL
=============================================================================
