---------------------------- MODULE OidcValidator ----------------------------
(***************************************************************************)
(* validate_token (src/pg_oidc_validator.cpp) in every backend, over the   *)
(* shared cache and the provider: attach to the cache, fetch the discovery *)
(* document, fetch the key set it names, decide.  A backend serves one     *)
(* connection: it validates one token and goes away when the connection    *)
(* ends.                                                                   *)
(***************************************************************************)
EXTENDS HttpClient, TokenCheck

CONSTANTS
  Hbas,          \* the pg_hba.conf lines and settings in force: [issuer,
                 \* override, scope, authn_field]
  Tokens,        \* the tokens clients present
  InfoUrls,      \* strings ending in "/.well-known/openid-configuration"
  WithInfoEnd,   \* the other strings, with that ending appended
  DiscoveryOf,   \* text -> [object, jwks_uri] it parses to
  JwksOf         \* text -> key set it parses to

VARIABLE session  \* the validate_token frame of each backend

validatorVars == <<clientVars, session>>

-----------------------------------------------------------------------------

NoSession == [pc |-> "idle", hba |-> None, token |-> None, result |-> Denied,
              threw |-> FALSE]

ValidatorInit == ClientInit /\ session = [b \in Backends |-> NoSession]

\* discovery_url_override, unless it is empty, replaces the issuer.
DiscoveryUrl(hba) == IF hba.override = "" THEN hba.issuer ELSE hba.override

IssuerInfoUrl(url) == IF url \in InfoUrls THEN url ELSE WithInfoEnd[url]

\* Urls holds every URL that a connection can lead to: those of the discovery
\* documents, and those that a document published there names.
ASSUME ValidatorAssumption ==
  /\ DOMAIN DiscoveryOf = Bodies
  /\ DOMAIN JwksOf = Bodies
  /\ "" \notin Urls
  /\ \A hba \in Hbas :
       LET u == IssuerInfoUrl(DiscoveryUrl(hba))
       IN  /\ u \in Urls
           /\ \A i \in DOMAIN Editions[u] :
                LET info == DiscoveryOf[Editions[u][i]]
                IN  info.object /\ info.jwks_uri # Absent /\ ToStr(info.jwks_uri) # ""
                      => ToStr(info.jwks_uri) \in Urls

\* validate_token leaves with a result; threw marks the catch clauses.
Finish(b, outcome, threw) ==
  session' = [session EXCEPT ![b].pc = "done", ![b].result = outcome, ![b].threw = threw]

\* The call begins: the result says deny, and the cache is attached, or a
\* WARNING is logged and the call goes on without it.
ValidateToken(b, hba, token) ==
  /\ session[b].pc = "idle"
  /\ \/ ClientAttach(b)
     \/ UNCHANGED clientVars
  /\ session' = [session EXCEPT ![b] =
       [NoSession EXCEPT !.pc = "discover", !.hba = hba, !.token = token]]

\* http_client's constructor and the first request.
Discover(b) ==
  /\ session[b].pc = "discover"
  /\ GetJson(b, IssuerInfoUrl(DiscoveryUrl(session[b].hba)))
  /\ session' = [session EXCEPT ![b].pc = "discovery"]

NoCurl(b) ==
  /\ session[b].pc = "discover"
  /\ Finish(b, Denied, TRUE)
  /\ UNCHANGED clientVars

\* The discovery document is there: check it and request the key set.
DiscoveryDone(b) ==
  /\ session[b].pc = "discovery"
  /\ http[b].pc = "idle"
  /\ LET info == DiscoveryOf[http[b].doc]
     IN  IF ~info.object \/ info.jwks_uri = Absent \/ ToStr(info.jwks_uri) = ""
         THEN Finish(b, Denied, FALSE) /\ UNCHANGED clientVars
         ELSE /\ GetJson(b, ToStr(info.jwks_uri))
              /\ session' = [session EXCEPT ![b].pc = "jwks"]

\* The key set is there: decide.
JwksDone(b) ==
  /\ session[b].pc = "jwks"
  /\ http[b].pc = "idle"
  /\ Finish(b, Decide(session[b].hba, JwksOf[http[b].doc], session[b].token, clock), FALSE)
  /\ UNCHANGED clientVars

\* pstrdup of the user's name raises an ERROR, which PG_CATCH turns into deny.
NoMemory(b) ==
  /\ session[b].pc = "jwks"
  /\ http[b].pc = "idle"
  /\ Decide(session[b].hba, JwksOf[http[b].doc], session[b].token, clock).returned
  /\ Finish(b, Denied, TRUE)
  /\ UNCHANGED clientVars

\* get_json threw: the catch clauses of validate_token.
DiscoveryThrew(b) ==  \* faulty: not for the second request
  /\ session[b].pc = "discovery"
  /\ http[b].pc = "failed"
  /\ Finish(b, Denied, TRUE)
  /\ UNCHANGED clientVars

Threw(b) ==
  /\ session[b].pc \in {"discovery", "jwks"}
  /\ http[b].pc = "failed"
  /\ Finish(b, Denied, TRUE)
  /\ UNCHANGED clientVars

\* The connection ends; validator_shutdown detaches the cache.
ValidatorShutdown(b) ==
  /\ session[b].pc = "done"
  /\ ClientExit(b)
  /\ session' = [session EXCEPT ![b] = NoSession]

-----------------------------------------------------------------------------

ValidatorStep(b) ==
  \/ ClientStep(b) /\ UNCHANGED session
  \/ Discover(b)
  \/ NoCurl(b)
  \/ DiscoveryDone(b)
  \/ JwksDone(b)
  \/ NoMemory(b)
  \/ Threw(b)

ValidatorNext ==
  \/ ClientTick /\ UNCHANGED session
  \/ (\E u \in Urls : Publish(u)) /\ UNCHANGED session
  \/ \E b \in Backends :
       \/ ValidatorStep(b)
       \/ ValidatorShutdown(b)
       \/ \E hba \in Hbas, token \in Tokens : ValidateToken(b, hba, token)

ValidatorSpec == ValidatorInit /\ [][ValidatorNext]_validatorVars

\* A call in progress keeps running, libcurl ends every transfer within its
\* timeout, and a backend that denied its client closes the connection.  A
\* process has one next step at a time, so that one condition serves all.  The
\* lock waits are as in HttpCache.
RunsOn(b) ==
  \/ Discover(b) \/ DiscoveryDone(b) \/ JwksDone(b) \/ Threw(b)
  \/ (LookupDone(b) \/ CacheThrew(b) \/ Respond(b) \/ HeaderCallback(b)
        \/ PerformFails(b) \/ Complete(b) \/ StoreDone(b)) /\ UNCHANGED session
  \/ (CheckExpired(b) \/ CopyJson(b) \/ ReleaseShared(b)
        \/ WriteJson(b) \/ WriteExpiration(b) \/ ReleaseExclusive(b))
       /\ UNCHANGED <<http, edition, session>>
  \/ ~session[b].result.authorized /\ ValidatorShutdown(b)

ValidatorFairness ==
  \A b \in Backends :
    /\ WF_validatorVars(RunsOn(b))
    /\ SF_validatorVars((Find(b) \/ LockExclusive(b)) /\ UNCHANGED <<http, edition, session>>)

-----------------------------------------------------------------------------
(* Properties *)

\* The discovery documents published for a connection, those of them that name
\* a key set, and the key sets published under the names.
PublishedInfo(hba) == Served(IssuerInfoUrl(DiscoveryUrl(hba)))

NamesJwks(d) ==
  /\ DiscoveryOf[d].object
  /\ DiscoveryOf[d].jwks_uri # Absent
  /\ ToStr(DiscoveryOf[d].jwks_uri) \in Urls

PublishedJwks(hba) ==
  UNION {Served(ToStr(DiscoveryOf[d].jwks_uri)) : d \in {t \in PublishedInfo(hba) : NamesJwks(t)}}

\* A connection is authorized only by a decision on a key set that the provider
\* really published for it: no interleaving of backends in the shared cache, no
\* error page, truncated text or failed call, and no document of another URL or
\* another issuer, can authorize a token that the published keys do not.
AuthorizedByPublishedKeys ==
  \A b \in Backends :
    session[b].result.authorized =>
      \E k \in PublishedJwks(session[b].hba), t \in 0..clock :
        Decide(session[b].hba, JwksOf[k], session[b].token, t) = session[b].result

\* A token that every published key set supports is refused only by a call that
\* failed: neither rotation in mid-call nor what other backends left in the
\* cache makes the validator deny it.
SupportedTokenAccepted ==
  \A b \in Backends :
    /\ session[b].pc = "done"
    /\ ~session[b].threw
    /\ \A d \in PublishedInfo(session[b].hba) : NamesJwks(d)
    /\ \A k \in PublishedJwks(session[b].hba), t \in 0..clock :
         Decide(session[b].hba, JwksOf[k], session[b].token, t).authorized
    => session[b].result.authorized

\* Unless a lookup meets an expired cache entry, every validation ends.
ValidationEnds ==
  [](\A b \in Backends : pc[b] # "erase") =>
    \A b \in Backends : session[b].pc = "discover" ~> session[b].pc = "done"
=============================================================================
