----------------------------- MODULE HttpClient -----------------------------
(***************************************************************************)
(* http_client::get_json (src/http_client.cpp): look the URL up in the     *)
(* shared cache, otherwise fetch it with libcurl, and store the answer for *)
(* as long as its Cache-Control header allows.  Each backend runs one call *)
(* at a time; the calls of different backends interleave inside the cache  *)
(* and while they wait for the network.                                    *)
(*                                                                         *)
(* libcurl and the provider are external.  A provider publishes a document *)
(* under each URL and replaces it by newer editions (key rotation); it may *)
(* answer any request with an error page instead.  libcurl hands the       *)
(* status line, the header lines, the empty line that ends them and the    *)
(* trailer lines to header_callback one at a time, and ends a transfer     *)
(* with an error at any moment, after 30 seconds at the latest.            *)
(***************************************************************************)
EXTENDS HttpCache, Sequences

CONSTANTS
  Editions,        \* URL -> the documents published under it, oldest first
  ErrorPages,      \* texts served with a status other than 200
  Unparseable,     \* texts picojson refuses
  HeaderSections,  \* the line sequences a response may carry
  IntMax           \* largest int

Line == [name : {"cache-control", "other"}, age : Nat]

ASSUME ClientAssumption ==
  /\ Editions \in [Urls -> Seq(Bodies)]
  /\ \A u \in Urls : Editions[u] # <<>>
  /\ ErrorPages \subseteq Bodies
  /\ Unparseable \subseteq Bodies
  /\ \A h \in HeaderSections : h \in Seq(Line)
  /\ IntMax \in Nat
  /\ MaxAge >= IntMax

VARIABLES
  http,    \* the get_json frame of each backend
  edition  \* which edition the provider serves under each URL

clientVars == <<cacheVars, http, edition>>

-----------------------------------------------------------------------------
(* The provider *)

Served(u) == {Editions[u][i] : i \in 1..edition[u]}

Current(u) == Editions[u][edition[u]]

Responses(u) ==
  [status : {200}, headers : HeaderSections, body : {Current(u)}]
    \cup [status : {503}, headers : HeaderSections, body : ErrorPages]

NoResponse == [status |-> 0, headers |-> <<>>, body |-> Junk]

Publish(u) ==
  /\ edition[u] < Len(Editions[u])
  /\ edition' = [edition EXCEPT ![u] = @ + 1]
  /\ UNCHANGED <<cacheVars, http>>

-----------------------------------------------------------------------------

\* A backend outside get_json; doc is what the last call returned.
NoCall == [pc |-> "idle", url |-> None, response |-> NoResponse, pos |-> 0,
           maxAge |-> None, doc |-> None]

ClientInit ==
  /\ CacheInit
  /\ http = [b \in Backends |-> NoCall]
  /\ edition = [u \in Urls |-> 1]

ReturnJson(b, text) ==
  http' = [http EXCEPT ![b] = [NoCall EXCEPT !.url = http[b].url, !.doc = text]]

ThrowJson(b) == http' = [http EXCEPT ![b] = [NoCall EXCEPT !.pc = "failed"]]

\* parse_cache_control: an int, or nullopt when from_chars reports that the digits exceed one.
AnyAge(line) == IF line.name = "cache-control" THEN line.age ELSE None  \* faulty: too wide

Saturated(line) ==  \* faulty: the largest int instead
  IF line.name = "cache-control"
  THEN (IF line.age <= IntMax THEN line.age ELSE IntMax) ELSE None

ParseCacheControl(line) ==
  IF line.name = "cache-control" /\ line.age <= IntMax THEN line.age ELSE None

GetSameJson(b, u) ==  \* faulty: a later call asks for the URL of the first
  LET v == IF http[b].url = None THEN u ELSE http[b].url
  IN  /\ http[b].pc = "idle"
      /\ Get(b, v)
      /\ http' = [http EXCEPT ![b] = [NoCall EXCEPT !.pc = "lookup", !.url = v]]
      /\ UNCHANGED edition

GetJson(b, u) ==
  /\ http[b].pc = "idle"
  /\ Get(b, u)
  /\ http' = [http EXCEPT ![b] = [NoCall EXCEPT !.pc = "lookup", !.url = u]]
  /\ UNCHANGED edition

\* cache.get came back: the parsed text if there is one, else a request with
\* last_max_age_ reset.
LookupDone(b) ==
  /\ http[b].pc = "lookup"
  /\ pc[b] = "idle"
  /\ IF ret[b].kind = "hit" /\ ret[b].body \notin Unparseable
     THEN ReturnJson(b, ret[b].body)
     ELSE http' = [http EXCEPT ![b].pc = "perform", ![b].maxAge = None]
  /\ UNCHANGED <<cacheVars, edition>>

\* cache.get or cache.put threw.
CacheThrew(b) ==
  /\ http[b].pc \in {"lookup", "store"}
  /\ pc[b] = "failed"
  /\ ThrowJson(b)
  /\ UNCHANGED <<cacheVars, edition>>

\* The provider answers the request.
Respond(b) ==
  /\ http[b].pc = "perform"
  /\ \E r \in Responses(http[b].url) :
       http' = [http EXCEPT ![b].pc = "transfer", ![b].response = r]
  /\ UNCHANGED <<cacheVars, edition>>

\* libcurl delivers the next line.
HeaderCallback(b) ==
  /\ http[b].pc = "transfer"
  /\ http[b].pos < Len(http[b].response.headers)
  /\ http' = [http EXCEPT
       ![b].pos = @ + 1,
       ![b].maxAge = ParseCacheControl(http[b].response.headers[http[b].pos + 1])]
  /\ UNCHANGED <<cacheVars, edition>>

\* curl_easy_perform reports a failed transfer or its timeout.
PerformFails(b) ==
  /\ http[b].pc \in {"perform", "transfer"}
  /\ ThrowJson(b)
  /\ UNCHANGED <<cacheVars, edition>>

\* The status is 200 and the text is JSON.
AnyStatus(r) == r.body \notin Unparseable  \* faulty: takes error pages
AnyText(r) == r.status = 200               \* faulty: keeps what does not parse
Usable(r) == r.status = 200 /\ r.body \notin Unparseable

\* The transfer is over: check the status, parse, and store if allowed.
Complete(b) ==
  /\ http[b].pc = "transfer"
  /\ http[b].pos = Len(http[b].response.headers)
  /\ LET r == http[b].response
         age == http[b].maxAge
     IN  IF ~Usable(r)
         THEN ThrowJson(b) /\ UNCHANGED cacheVars
         ELSE IF age # None /\ age > 0
         THEN /\ Put(b, http[b].url, r.body, age)
              /\ http' = [http EXCEPT ![b].pc = "store"]
         ELSE ReturnJson(b, r.body) /\ UNCHANGED cacheVars
  /\ UNCHANGED edition

\* cache.put came back, whether it stored the text or declined.
StoreDone(b) ==
  /\ http[b].pc = "store"
  /\ pc[b] = "idle"
  /\ ReturnJson(b, http[b].response.body)
  /\ UNCHANGED <<cacheVars, edition>>

-----------------------------------------------------------------------------

\* The steps of a call in progress.
ClientStep(b) ==
  \/ CacheStep(b) /\ UNCHANGED <<http, edition>>
  \/ LookupDone(b)
  \/ CacheThrew(b)
  \/ Respond(b)
  \/ HeaderCallback(b)
  \/ PerformFails(b)
  \/ Complete(b)
  \/ StoreDone(b)

ClientAttach(b) ==
  /\ http[b].pc = "idle"
  /\ Attach(b)
  /\ UNCHANGED <<http, edition>>

ClientExit(b) ==
  /\ http[b].pc \in {"idle", "failed"}
  /\ Exit(b)
  /\ http' = [http EXCEPT ![b] = NoCall]
  /\ UNCHANGED edition

ClientTick == Tick /\ UNCHANGED <<http, edition>>

ClientNext ==
  \/ ClientTick
  \/ \E u \in Urls : Publish(u)
  \/ \E b \in Backends :
       \/ ClientStep(b)
       \/ ClientAttach(b)
       \/ ClientExit(b)
       \/ \E u \in Urls : GetJson(b, u)

ClientSpec == ClientInit /\ [][ClientNext]_clientVars

-----------------------------------------------------------------------------
(* Properties *)

ClientTypeOK ==
  /\ CacheTypeOK
  /\ edition \in [Urls -> Nat \ {0}]
  /\ \A b \in Backends :
       /\ DOMAIN http[b] = DOMAIN NoCall
       /\ http[b].pc \in {"idle", "failed", "lookup", "perform", "transfer", "store"}
       /\ http[b].url \in Urls \cup {None}
       /\ http[b].pos \in 0..Len(http[b].response.headers)
       /\ http[b].maxAge \in (0..IntMax) \cup {None}
       /\ http[b].doc \in Bodies \cup {None}

\* What get_json returns for a URL, from the cache or from the network, is a
\* document the provider published under that very URL: not an error page, not
\* the text of another URL, not a half-written entry.
DocumentWasServed ==
  \A b \in Backends :
    http[b].doc # None => http[b].doc \in Served(http[b].url) \ Unparseable

\* The same of everything the shared cache would hand to the next backend.
CacheHoldsServedDocuments ==
  \A u \in Urls :
    table[u] # None /\ exclusive[PartitionOf[u]] = {} =>
      table[u].json \in Served(u) \ Unparseable

\* A response is only ever kept for a time that one of its own header lines
\* gave and that fits an int (http_client.cpp:55-66, 122).
StoredForDeclaredAge ==
  \A b \in Backends : pc[b] \in {"insert", "json", "expiration"} =>
    \E i \in DOMAIN http[b].response.headers :
      LET line == http[b].response.headers[i]
      IN  /\ line.name = "cache-control"
          /\ line.age = arg[b].age
          /\ line.age \in 1..IntMax

\* Once all header lines are in, last_max_age_ is the max-age of the response's
\* Cache-Control line, as its declaration (http_client.hpp:32) says.
MaxAgeHonoured ==
  \A b \in Backends :
    /\ http[b].pc = "transfer"
    /\ http[b].pos = Len(http[b].response.headers)
    => \A i \in DOMAIN http[b].response.headers :
         LET age == ParseCacheControl(http[b].response.headers[i])
         IN  age # None => http[b].maxAge = age
=============================================================================
