-------------------------- MODULE HttpClientProofs --------------------------
(***************************************************************************)
(* Proofs about HttpClient, for any number of backends and URLs, any       *)
(* documents, header sections and bounds.                                  *)
(*                                                                         *)
(* A document travels from the provider through a backend's frames into    *)
(* the shared table, and from there through the frames of another backend. *)
(* The invariant follows it: at each place where a text waits between two  *)
(* steps it is one that was served, under the URL that the frame names,    *)
(* and whatever the cache is doing for a backend, it does for the call     *)
(* that the backend is in.                                                 *)
(***************************************************************************)
EXTENDS HttpClient, HttpCacheProofs

-----------------------------------------------------------------------------
(* The inductive invariant                                                  *)

Good(u) == Served(u) \ Unparseable

Response == [status : Nat, headers : Seq(Line), body : Texts]

HttpFrame ==
  [pc : {"idle", "failed", "lookup", "perform", "transfer", "store"},
   url : Urls \cup {None}, response : Response, pos : Nat,
   maxAge : (0..IntMax) \cup {None}, doc : Bodies \cup {None}]

FramesOK ==
  /\ http \in [Backends -> HttpFrame]
  /\ edition \in [Urls -> Nat \ {0}]
  /\ \A u \in Urls : edition[u] <= Len(Editions[u])
  /\ \A b \in Backends : http[b].pos <= Len(http[b].response.headers)

\* A line of the response gave this age, and it fits an int.
Declared(frame, age) ==
  \E i \in DOMAIN frame.response.headers :
    LET line == frame.response.headers[i]
    IN  line.name = "cache-control" /\ line.age = age /\ line.age \in 0..IntMax

\* Outside get_json the cache does nothing for the backend.
Resting(b) ==
  /\ http[b].pc \in {"idle", "perform", "transfer"} => pc[b] = "idle"
  /\ http[b].pc = "failed" => pc[b] \in {"idle", "failed"}
  /\ http[b].pc \in {"lookup", "perform", "transfer", "store"} => http[b].url \in Urls
  /\ http[b].doc # None => http[b].url \in Urls /\ http[b].doc \in Good(http[b].url)

\* cache.get is at work on the URL of the call, and what it found was served.
LookingUp(b) ==
  http[b].pc = "lookup" =>
    /\ pc[b] \in {"idle", "failed", "find"} \cup Reading
    /\ pc[b] \in {"find"} \cup Reading => arg[b].url = http[b].url
    /\ pc[b] = "unshare" => arg[b].body \in Good(http[b].url)
    /\ pc[b] = "idle" /\ ret[b].kind = "hit" => ret[b].body \in Good(http[b].url)
    /\ http[b].pos = 0

\* The response is the provider's, and the age one of those it gives.
Transferring(b) ==
  /\ http[b].pc = "perform" => http[b].pos = 0 /\ http[b].maxAge = None
  /\ http[b].pc = "transfer" =>
       /\ http[b].response.status = 200 => http[b].response.body \in Served(http[b].url)
       /\ http[b].maxAge # None => Declared(http[b], http[b].maxAge)

\* cache.put is at work on the response of the call.
Storing(b) ==
  http[b].pc = "store" =>
    /\ http[b].response.body \in Good(http[b].url)
    /\ pc[b] \in {"idle", "failed", "insert"} \cup Writing
    /\ pc[b] \in {"insert"} \cup Writing => arg[b].url = http[b].url
    /\ pc[b] \in {"insert", "json", "expiration"} =>
         /\ arg[b].body = http[b].response.body
         /\ arg[b].age > 0 /\ Declared(http[b], arg[b].age)

Works(b) == Resting(b) /\ LookingUp(b) /\ Transferring(b) /\ Storing(b)

CallsWork == \A b \in Backends : Works(b)

\* The text of an entry was served, unless its writer has yet to write it.
EntriesServed ==
  \A u \in Urls :
    table[u] # None /\ (\A b \in Backends : ~(pc[b] = "json" /\ arg[b].url = u))
      => table[u].json \in Good(u)

CInv == /\ IInv
        /\ FramesOK
        /\ CallsWork
        /\ EntriesServed

-----------------------------------------------------------------------------
(* Frames that a step leaves alone                                          *)

\* What was served are texts.
LEMMA ServedType ==
  ASSUME FramesOK, NEW u \in Urls
  PROVE  Served(u) \subseteq Bodies /\ Current(u) \in Served(u)
<1>1. /\ edition[u] \in Nat \ {0} /\ edition[u] <= Len(Editions[u])
      /\ Editions[u] \in Seq(Bodies)
  BY ClientAssumption DEF FramesOK
<1>2. \A i \in 1..edition[u] : Editions[u][i] \in Bodies
  BY <1>1
<1> QED
  BY <1>1, <1>2 DEF Served, Current

\* A backend whose frames do not change still works.
LEMMA WorksOn ==
  ASSUME NEW c \in Backends, Works(c), edition' = edition,
         http'[c] = http[c], pc'[c] = pc[c], arg'[c] = arg[c], ret'[c] = ret[c]
  PROVE  Works(c)'
BY DEF Works, Resting, LookingUp, Transferring, Storing, Good, Served, Declared

\* A step of one backend concerns its own call only.
LEMMA OneWorks ==
  ASSUME CInv, NEW b \in Backends, edition' = edition, Works(b)',
         \A c \in Backends \ {b} : /\ http'[c] = http[c] /\ pc'[c] = pc[c]
                                   /\ arg'[c] = arg[c] /\ ret'[c] = ret[c]
  PROVE  CallsWork'
BY WorksOn DEF CInv, CallsWork

\* Entries that nobody touches stay served.
LEMMA EntriesStay ==
  ASSUME EntriesServed, edition' = edition, table' = table,
         \A b \in Backends : /\ pc[b] = "json" => pc'[b] = "json"
                             /\ pc[b] = "json" => arg'[b] = arg[b]
  PROVE  EntriesServed'
BY DEF EntriesServed, Good, Served

-----------------------------------------------------------------------------
(* Steps inside the cache                                                   *)

\* get and put at work: the steps of http_cache that do not write.
LEMMA CacheReadsCInv ==
  ASSUME NEW b \in Backends, CInv, UNCHANGED <<http, edition>>,
         \/ Find(b) \/ FindError(b) \/ CheckExpired(b) \/ CopyJson(b) \/ ReleaseShared(b)
         \/ InsertError(b) \/ ReleaseExclusive(b)
  PROVE  CInv'
<1>1. CacheStep(b) /\ IInv /\ CacheTypeOK
  BY DEF CacheStep, CInv, IInv
<1>2. IInv'
  BY <1>1, NextIInv DEF CacheNext
<1>3. FramesOK'
  BY DEF CInv, FramesOK
<1>4. \A c \in Backends \ {b} : pc'[c] = pc[c] /\ arg'[c] = arg[c] /\ ret'[c] = ret[c]
  BY <1>1, OwnFrame
<1>5. Works(b) /\ pc[b] \in Calling /\ http[b].pc \in {"lookup", "store"} /\ http[b].url \in Urls
  BY DEF CInv, CallsWork, Works, Resting, Calling, Reading, Writing, Find, FindError,
         CheckExpired, CopyJson, ReleaseShared, InsertError, ReleaseExclusive, FramesOK,
         HttpFrame
<1>6. Resting(b)' /\ Transferring(b)'
  BY <1>5 DEF Works, Resting, Transferring, Good, Served, Declared
<1>7. LookingUp(b)'
  <2> SUFFICES ASSUME http[b].pc = "lookup"
               PROVE  LookingUp(b)'
    BY DEF LookingUp
  <2>1. CASE CopyJson(b)
    <3> DEFINE u == arg[b].url
    <3>1. /\ u \in Urls /\ table[u] # None /\ u = http[b].url /\ http[b].pos = 0
          /\ pc[b] = "copy" /\ pc'[b] = "unshare"
          /\ arg'[b].url = u /\ arg'[b].body = table[u].json
      BY <1>1, <1>5, <2>1
      DEF Works, LookingUp, IInv, CacheTypeOK, Arg, LocksHeld, Reading, CopyJson, Goto
    <3>2. \A c \in Backends : ~(pc[c] = "json" /\ arg[c].url = u)
      BY <1>1, <3>1, WriterAlone DEF Reading, Writing
    <3>3. table[u].json \in Good(u)
      BY <3>1, <3>2 DEF CInv, EntriesServed
    <3> QED
      BY <3>1, <3>3 DEF LookingUp, Good, Served, Reading
  <2>2. CASE ReleaseShared(b)
    BY <1>1, <1>5, <2>2
    DEF Works, LookingUp, CacheTypeOK, Reading, ReleaseShared, Return, Hit, Good, Served
  <2>3. CASE Find(b) \/ FindError(b) \/ CheckExpired(b)
    BY <1>1, <1>5, <2>3
    DEF Works, LookingUp, CacheTypeOK, Reading, Find, FindError, CheckExpired, Return,
        Throw, Goto, Answer, Good, Served
  <2>4. CASE InsertError(b) \/ ReleaseExclusive(b)
    BY <1>5, <2>4 DEF Works, LookingUp, Reading, InsertError, ReleaseExclusive
  <2> QED
    BY <2>1, <2>2, <2>3, <2>4
<1>8. Storing(b)'
  BY <1>1, <1>5
  DEF Works, Storing, CacheTypeOK, Writing, Find, FindError, CheckExpired, CopyJson,
      ReleaseShared, InsertError, ReleaseExclusive, Return, Throw, Good, Served, Declared
<1>9. CallsWork'
  BY <1>4, <1>6, <1>7, <1>8, OneWorks DEF Works
<1>10. EntriesServed'
  <2>1. table' = table /\ pc[b] # "json"
    BY DEF Find, FindError, CheckExpired, CopyJson, ReleaseShared, InsertError,
           ReleaseExclusive
  <2> QED
    BY <1>4, <2>1, EntriesStay DEF CInv
<1> QED
  BY <1>2, <1>3, <1>9, <1>10 DEF CInv

\* put's steps under the exclusive lock.
LEMMA CacheWritesCInv ==
  ASSUME NEW b \in Backends, CInv, UNCHANGED <<http, edition>>,
         LockExclusive(b) \/ WriteJson(b) \/ WriteExpiration(b)
  PROVE  CInv'
<1> DEFINE u == arg[b].url
<1>1. CacheStep(b) /\ IInv /\ CacheTypeOK
  BY DEF CacheStep, CInv, IInv
<1>2. IInv'
  BY <1>1, NextIInv DEF CacheNext
<1>3. FramesOK'
  BY DEF CInv, FramesOK
<1>4. \A c \in Backends \ {b} : pc'[c] = pc[c] /\ arg'[c] = arg[c] /\ ret'[c] = ret[c]
  BY <1>1, OwnFrame
<1>5. /\ pc[b] \in {"insert", "json", "expiration"} /\ pc'[b] \in Writing
      /\ pc'[b] \in {"json", "expiration"} => pc[b] # "expiration"
      /\ UNCHANGED <<arg, ret>>
  BY <1>1, OnlyInsertLocks
  DEF CacheTypeOK, LockExclusive, WriteJson, WriteExpiration, Goto, Writing
<1>6. /\ Works(b) /\ http[b].pc = "store" /\ u = http[b].url /\ u \in Urls
      /\ arg[b].body \in Good(u)
  BY <1>5
  DEF CInv, CallsWork, Works, Resting, LookingUp, Storing, Reading, Writing, FramesOK, HttpFrame
<1>7. Works(b)'
  BY <1>5, <1>6
  DEF Works, Resting, LookingUp, Transferring, Storing, Writing, Good, Served, Declared
<1>8. CallsWork'
  BY <1>4, <1>7, OneWorks
<1>9. EntriesServed'
  <2> SUFFICES ASSUME NEW v \in Urls, table'[v] # None,
                      \A c \in Backends : ~(pc'[c] = "json" /\ arg'[c].url = v)
               PROVE  table'[v].json \in Good(v)
    BY DEF EntriesServed, Good, Served
  <2>1. CASE v # u
    <3>1. table'[v] = table[v]
      BY <1>1, <2>1, TableWriters
    <3>2. \A c \in Backends : ~(pc[c] = "json" /\ arg[c].url = v)
      BY <1>4, <1>5, <2>1
    <3> QED
      BY <3>1, <3>2 DEF CInv, EntriesServed
  <2>2. CASE v = u /\ LockExclusive(b)
    <3>1. pc'[b] = "json"
      BY <1>1, <2>2, OnlyInsertLocks DEF CacheTypeOK, LockExclusive, Goto
    <3> QED
      BY <1>5, <2>2, <3>1
  <2>3. CASE v = u /\ WriteJson(b)
    <3>1. table[u] \in Entry /\ arg[b].body \notin LargeBodies
      BY <1>1, <1>6, <2>3 DEF IInv, CacheTypeOK, LocksHeld, ArgsChecked, Writing, WriteJson
    <3>2. table'[u].json = arg[b].body
      BY <1>1, <1>6, <2>3, <3>1 DEF WriteJson, CacheTypeOK, Entry, Strncpy
    <3> QED
      BY <1>6, <2>3, <3>2
  <2>4. CASE v = u /\ WriteExpiration(b)
    <3>1. table[u] \in Entry /\ table[u] # None
      BY <1>1, <1>6, <2>4 DEF IInv, CacheTypeOK, LocksHeld, Writing, WriteExpiration
    <3>2. table'[u].json = table[u].json
      BY <1>1, <1>6, <2>4, <3>1 DEF WriteExpiration, CacheTypeOK, Entry
    <3>3. \A c \in Backends : ~(pc[c] = "json" /\ arg[c].url = u)
      BY <1>4, <2>4 DEF WriteExpiration
    <3> QED
      BY <1>6, <2>4, <3>1, <3>2, <3>3 DEF CInv, EntriesServed
  <2> QED
    BY <2>1, <2>2, <2>3, <2>4
<1> QED
  BY <1>2, <1>3, <1>8, <1>9 DEF CInv

-----------------------------------------------------------------------------
(* Steps of get_json                                                        *)

\* The frame outside get_json, and the one that ReturnJson leaves.
LEMMA FrameTypes ==
  /\ NoCall \in HttpFrame
  /\ NoCall.pos = 0 /\ NoCall.response.headers = <<>>
BY DEF NoCall, NoResponse, HttpFrame, Response, Texts

\* A step that changes the frame of one backend, and in the cache at most
\* what belongs to that backend.
LEMMA CallCInv ==
  ASSUME NEW b \in Backends, NEW frame \in HttpFrame, CInv, IInv',
         UNCHANGED <<table, edition>>, http' = [http EXCEPT ![b] = frame],
         frame.pos <= Len(frame.response.headers), Works(b)', pc[b] # "json",
         \A c \in Backends \ {b} : pc'[c] = pc[c] /\ arg'[c] = arg[c] /\ ret'[c] = ret[c]
  PROVE  CInv'
<1>1. /\ http' \in [Backends -> HttpFrame] /\ http'[b] = frame
      /\ \A c \in Backends \ {b} : http'[c] = http[c]
  BY DEF CInv, FramesOK
<1>2. FramesOK'
  BY <1>1 DEF CInv, FramesOK
<1>3. CallsWork'
  BY <1>1, OneWorks
<1>4. EntriesServed'
  BY EntriesStay DEF CInv
<1> QED
  BY <1>2, <1>3, <1>4 DEF CInv

\* A step outside the cache.
LEMMA FrameCInv ==
  ASSUME NEW b \in Backends, NEW frame \in HttpFrame, CInv,
         UNCHANGED <<cacheVars, edition>>, http' = [http EXCEPT ![b] = frame],
         frame.pos <= Len(frame.response.headers), Works(b)', pc[b] # "json"
  PROVE  CInv'
<1>1. IInv'
  BY StutterIInv DEF CInv
<1>2. /\ UNCHANGED <<table, edition>>
      /\ \A c \in Backends \ {b} : pc'[c] = pc[c] /\ arg'[c] = arg[c] /\ ret'[c] = ret[c]
  BY DEF cacheVars
<1> QED
  BY <1>1, <1>2, CallCInv

\* get_json ends with a document that was served under its URL.
LEMMA ReturnJsonCInv ==
  ASSUME NEW b \in Backends, CInv, UNCHANGED <<cacheVars, edition>>, pc[b] = "idle",
         http[b].url \in Urls, NEW text \in Good(http[b].url), ReturnJson(b, text)
  PROVE  CInv'
<1> DEFINE frame == [NoCall EXCEPT !.url = http[b].url, !.doc = text]
<1>1. text \in Bodies
  BY ServedType DEF CInv, Good
<1>2. frame \in HttpFrame /\ frame.pos <= Len(frame.response.headers)
  <2>1. frame \in HttpFrame
    BY <1>1, FrameTypes DEF HttpFrame
  <2>2. frame.pos = 0 /\ frame.response.headers = <<>>
    BY DEF NoCall, NoResponse
  <2> QED
    BY <2>1, <2>2
<1>3. http'[b] = frame /\ http' = [http EXCEPT ![b] = frame]
  BY DEF ReturnJson, CInv, FramesOK
<1>4. frame.pc = "idle" /\ frame.url = http[b].url /\ frame.doc = text
  BY DEF NoCall
<1> HIDE DEF frame
<1>5. Works(b)'
  BY <1>3, <1>4
  DEF Works, Resting, LookingUp, Transferring, Storing, Good, Served, cacheVars
<1> QED
  BY <1>2, <1>3, <1>5, FrameCInv

\* get_json ends with an exception.
LEMMA ThrowJsonCInv ==
  ASSUME NEW b \in Backends, CInv, UNCHANGED <<cacheVars, edition>>,
         pc[b] \in {"idle", "failed"}, ThrowJson(b)
  PROVE  CInv'
<1> DEFINE frame == [NoCall EXCEPT !.pc = "failed"]
<1>1. frame \in HttpFrame /\ frame.pos <= Len(frame.response.headers)
  <2>1. frame \in HttpFrame
    BY FrameTypes DEF HttpFrame
  <2>2. frame.pos = 0 /\ frame.response.headers = <<>>
    BY DEF NoCall, NoResponse
  <2> QED
    BY <2>1, <2>2
<1>2. http'[b] = frame /\ http' = [http EXCEPT ![b] = frame]
  BY DEF ThrowJson, CInv, FramesOK
<1>3. frame.pc = "failed" /\ frame.doc = None
  BY DEF NoCall
<1> HIDE DEF frame
<1>4. Works(b)'
  BY <1>2, <1>3 DEF Works, Resting, LookingUp, Transferring, Storing, cacheVars
<1> QED
  BY <1>1, <1>2, <1>4, FrameCInv

\* The cache answered: with a document, or the request follows.
LEMMA LookupDoneCInv ==
  ASSUME NEW b \in Backends, CInv, LookupDone(b)
  PROVE  CInv'
<1>1. /\ UNCHANGED <<cacheVars, edition>> /\ pc[b] = "idle" /\ http[b].pc = "lookup"
      /\ http[b].url \in Urls /\ Works(b) /\ http[b] \in HttpFrame /\ pc[b] = "idle"
  BY DEF LookupDone, CInv, CallsWork, Works, Resting, FramesOK
<1>2. CASE ret[b].kind = "hit" /\ ret[b].body \notin Unparseable
  <2>1. ret[b].body \in Good(http[b].url) /\ ReturnJson(b, ret[b].body)
    BY <1>1, <1>2 DEF LookupDone, Works, LookingUp
  <2> QED
    BY <1>1, <2>1, ReturnJsonCInv
<1>3. CASE ~(ret[b].kind = "hit" /\ ret[b].body \notin Unparseable)
  <2> DEFINE frame == [http[b] EXCEPT !.pc = "perform", !.maxAge = None]
  <2>1. http' = [http EXCEPT ![b] = frame] /\ http'[b] = frame
    BY <1>1, <1>3 DEF LookupDone, CInv, FramesOK
  <2>2. /\ frame \in HttpFrame /\ frame.pc = "perform" /\ frame.maxAge = None
        /\ frame.pos = http[b].pos /\ frame.url = http[b].url /\ frame.doc = http[b].doc
        /\ frame.response = http[b].response
    BY <1>1 DEF HttpFrame
  <2>3. frame.pos <= Len(frame.response.headers)
    BY <2>2 DEF CInv, FramesOK
  <2> HIDE DEF frame
  <2>4. Works(b)'
    BY <1>1, <2>1, <2>2
    DEF Works, Resting, LookingUp, Transferring, Storing, Good, Served, cacheVars
  <2> QED
    BY <1>1, <2>1, <2>2, <2>3, <2>4, FrameCInv
<1> QED
  BY <1>2, <1>3

\* The provider answers: with its current edition, or with an error page.
LEMMA RespondCInv ==
  ASSUME NEW b \in Backends, CInv, Respond(b)
  PROVE  CInv'
<1>1. /\ UNCHANGED <<cacheVars, edition>> /\ http[b].pc = "perform"
      /\ http[b].url \in Urls /\ Works(b) /\ http[b] \in HttpFrame /\ pc[b] = "idle"
  BY DEF Respond, CInv, CallsWork, Works, Resting, FramesOK
<1>2. PICK r \in Responses(http[b].url) :
        http' = [http EXCEPT ![b].pc = "transfer", ![b].response = r]
  BY DEF Respond
<1>3. /\ r \in Response
      /\ r.status = 200 => r.body \in Served(http[b].url)
  <2>1. Current(http[b].url) \in Served(http[b].url) /\ Served(http[b].url) \subseteq Bodies
    BY <1>1, ServedType DEF CInv
  <2> QED
    BY <1>2, <2>1, ClientAssumption DEF Responses, Response, Texts
<1> DEFINE frame == [http[b] EXCEPT !.pc = "transfer", !.response = r]
<1>4. http' = [http EXCEPT ![b] = frame] /\ http'[b] = frame
  BY <1>2 DEF CInv, FramesOK
<1>5. /\ frame \in HttpFrame /\ frame.pc = "transfer" /\ frame.response = r
      /\ frame.pos = http[b].pos /\ frame.url = http[b].url /\ frame.doc = http[b].doc
      /\ frame.maxAge = http[b].maxAge
  BY <1>1, <1>3 DEF HttpFrame
<1>6. frame.pos = 0 /\ frame.maxAge = None
  BY <1>1, <1>5 DEF Works, Transferring
<1>7. frame.pos <= Len(frame.response.headers)
  BY <1>3, <1>5, <1>6 DEF Response
<1> HIDE DEF frame
<1>8. Works(b)'
  BY <1>1, <1>3, <1>4, <1>5, <1>6
  DEF Works, Resting, LookingUp, Transferring, Storing, Good, Served, cacheVars
<1> QED
  BY <1>1, <1>4, <1>5, <1>7, <1>8, FrameCInv

\* A header line: last_max_age_ becomes what this line gives.
LEMMA HeaderCallbackCInv ==
  ASSUME NEW b \in Backends, CInv, HeaderCallback(b)
  PROVE  CInv'
<1> DEFINE h == http[b].response.headers
           i == http[b].pos + 1
           age == ParseCacheControl(h[i])
           frame == [http[b] EXCEPT !.pos = i, !.maxAge = age]
<1>1. /\ UNCHANGED <<cacheVars, edition>> /\ http[b].pc = "transfer"
      /\ http[b].url \in Urls /\ Works(b) /\ http[b] \in HttpFrame /\ pc[b] = "idle"
  BY DEF HeaderCallback, CInv, CallsWork, Works, Resting, FramesOK
<1>2. h \in Seq(Line) /\ i \in 1..Len(h) /\ h[i] \in Line /\ i \in Nat
  BY <1>1 DEF HeaderCallback, HttpFrame, Response
<1>3. /\ age \in (0..IntMax) \cup {None}
      /\ age # None => /\ h[i].name = "cache-control" /\ h[i].age = age
                       /\ h[i].age \in 0..IntMax
  BY <1>2, ClientAssumption DEF ParseCacheControl, Line
<1>4. http' = [http EXCEPT ![b] = frame] /\ http'[b] = frame
  BY DEF HeaderCallback, CInv, FramesOK
<1> HIDE DEF age, i, h
<1>5. /\ frame \in HttpFrame /\ frame.pc = "transfer" /\ frame.response = http[b].response
      /\ frame.pos = i /\ frame.url = http[b].url /\ frame.doc = http[b].doc
      /\ frame.maxAge = age
  <2>1. i \in Nat /\ age \in (0..IntMax) \cup {None}
    BY <1>2, <1>3
  <2> QED
    BY <1>1, <2>1 DEF HttpFrame
<1>6. frame.pos <= Len(frame.response.headers)
  BY <1>2, <1>5 DEF h
<1>7. age # None => Declared(frame, age)
  BY <1>2, <1>3, <1>5 DEF Declared, h
<1> HIDE DEF frame
<1>8. Works(b)'
  BY <1>1, <1>4, <1>5, <1>7
  DEF Works, Resting, LookingUp, Transferring, Storing, Good, Served, cacheVars
<1> QED
  BY <1>1, <1>4, <1>5, <1>6, <1>8, FrameCInv

\* get_json begins: the cache is asked for its URL, or declines.
LEMMA GetJsonCInv ==
  ASSUME NEW b \in Backends, NEW u \in Urls, CInv, GetJson(b, u)
  PROVE  CInv'
<1> DEFINE frame == [NoCall EXCEPT !.pc = "lookup", !.url = u]
<1>1. IInv /\ Get(b, u) /\ CacheCall(b) /\ UNCHANGED <<table, edition>> /\ pc[b] = "idle"
  BY DEF CInv, GetJson, Get, CacheCall
<1>2. IInv'
  BY <1>1, GetIInv
<1>3. \A c \in Backends \ {b} : pc'[c] = pc[c] /\ arg'[c] = arg[c] /\ ret'[c] = ret[c]
  BY <1>1, OwnFrame
<1>4. frame \in HttpFrame
  BY FrameTypes DEF HttpFrame
<1>5. /\ frame.pc = "lookup" /\ frame.url = u /\ frame.pos = 0 /\ frame.doc = None
      /\ frame.pos <= Len(frame.response.headers)
  BY DEF NoCall, NoResponse
<1>6. http' = [http EXCEPT ![b] = frame] /\ http'[b] = frame
  BY DEF GetJson, CInv, FramesOK
<1> HIDE DEF frame
<1>7. \/ pc'[b] = "find" /\ arg'[b].url = u
      \/ pc'[b] = "idle" /\ ret'[b].kind = "miss"
  BY <1>1 DEF IInv, CacheTypeOK, Get, Goto, Return, KeyArg, Answer
<1>8. Works(b)'
  BY <1>5, <1>6, <1>7 DEF Works, Resting, LookingUp, Transferring, Storing, Reading
<1> QED
  BY <1>1, <1>2, <1>3, <1>4, <1>5, <1>6, <1>8, CallCInv

\* The exceptions of get_json.
LEMMA ThrowsCInv ==
  ASSUME NEW b \in Backends, CInv, CacheThrew(b) \/ PerformFails(b)
  PROVE  CInv'
<1>1. /\ UNCHANGED <<cacheVars, edition>> /\ ThrowJson(b) /\ pc[b] \in {"idle", "failed"}
  BY DEF CInv, CallsWork, Works, Resting, CacheThrew, PerformFails
<1> QED
  BY <1>1, ThrowJsonCInv

\* The transfer is over: an exception, a document, or a document that is also
\* given to cache.put with the age that a line of the response declares.
LEMMA CompleteCInv ==
  ASSUME NEW b \in Backends, CInv, Complete(b)
  PROVE  CInv'
<1> DEFINE r == http[b].response
           u == http[b].url
           age == http[b].maxAge
<1>1. /\ http[b].pc = "transfer" /\ pc[b] = "idle" /\ u \in Urls /\ Works(b)
      /\ http[b] \in HttpFrame /\ edition' = edition
  BY DEF Complete, CInv, CallsWork, Works, Resting, FramesOK
<1>2. Usable(r) => r.body \in Good(u)
  BY <1>1 DEF Works, Transferring, Usable, Good
<1>3. CASE ~Usable(r)
  BY <1>1, <1>3, ThrowJsonCInv DEF Complete
<1>4. CASE Usable(r) /\ ~(age # None /\ age > 0)
  BY <1>1, <1>2, <1>4, ReturnJsonCInv DEF Complete
<1>5. CASE Usable(r) /\ age # None /\ age > 0
  <2> DEFINE frame == [http[b] EXCEPT !.pc = "store"]
  <2>1. Put(b, u, r.body, age) /\ http' = [http EXCEPT ![b] = frame] /\ http'[b] = frame
    BY <1>5 DEF Complete, CInv, FramesOK
  <2>2. /\ frame \in HttpFrame /\ frame.pc = "store" /\ frame.response = r
        /\ frame.pos = http[b].pos /\ frame.url = u /\ frame.doc = http[b].doc
    BY <1>1 DEF HttpFrame
  <2>3. frame.pos <= Len(frame.response.headers)
    BY <2>2 DEF CInv, FramesOK
  <2>4. age \in Int /\ age <= MaxAge /\ r.body \in Bodies
    BY <1>1, <1>2, <1>5, ServedType, ClientAssumption, CacheAssumption
    DEF HttpFrame, CInv, Good
  <2>5. IInv'
    BY <1>1, <2>1, <2>4, PutIInv DEF CInv
  <2>6. /\ \A c \in Backends \ {b} : pc'[c] = pc[c] /\ arg'[c] = arg[c] /\ ret'[c] = ret[c]
        /\ table' = table
        /\ \/ pc'[b] = "insert" /\ arg'[b] = [url |-> u, body |-> r.body, age |-> age]
           \/ pc'[b] = "idle"
    BY <2>1 DEF CInv, IInv, CacheTypeOK, Put, Goto, Return
  <2>7. Declared(frame, age)
    BY <1>1, <1>5, <2>2 DEF Works, Transferring, Declared
  <2>8. r.body \in Good(u) /\ (frame.doc # None => frame.doc \in Good(u))
    BY <1>1, <1>2, <1>5, <2>2 DEF Works, Resting
  <2> HIDE DEF frame
  <2>9. Storing(b)'
    BY <1>1, <1>5, <2>1, <2>2, <2>6, <2>7, <2>8 DEF Storing, Writing, Good, Served
  <2>10. Works(b)'
    BY <1>1, <2>1, <2>2, <2>8, <2>9 DEF Works, Resting, LookingUp, Transferring, Good, Served
  <2> QED
    BY <1>1, <2>1, <2>2, <2>3, <2>5, <2>6, <2>10, CallCInv
<1> QED
  BY <1>3, <1>4, <1>5

\* cache.put is over.
LEMMA StoreDoneCInv ==
  ASSUME NEW b \in Backends, CInv, StoreDone(b)
  PROVE  CInv'
<1>1. /\ UNCHANGED <<cacheVars, edition>> /\ pc[b] = "idle" /\ http[b].url \in Urls
      /\ http[b].response.body \in Good(http[b].url)
      /\ ReturnJson(b, http[b].response.body)
  BY DEF StoreDone, CInv, CallsWork, Works, Resting, Storing
<1> QED
  BY <1>1, ReturnJsonCInv

-----------------------------------------------------------------------------
(* Steps around the calls                                                   *)

\* The backend attaches to the shared table.
LEMMA ClientAttachCInv ==
  ASSUME NEW b \in Backends, CInv, ClientAttach(b)
  PROVE  CInv'
<1>1. IInv'
  BY AttachIInv DEF CInv, ClientAttach
<1>2. UNCHANGED <<table, pc, arg, ret, http, edition>>
  BY DEF ClientAttach, Attach
<1>3. FramesOK'
  BY <1>2 DEF CInv, FramesOK
<1>4. CallsWork'
  BY <1>2, WorksOn DEF CInv, CallsWork
<1>5. EntriesServed'
  BY <1>2, EntriesStay DEF CInv
<1> QED
  BY <1>1, <1>3, <1>4, <1>5 DEF CInv

\* The backend's process ends; a new one takes its place outside any call.
LEMMA ClientExitCInv ==
  ASSUME NEW b \in Backends, CInv, ClientExit(b)
  PROVE  CInv'
<1>1. /\ IInv /\ Exit(b) /\ CacheCall(b) /\ pc[b] # "json" /\ UNCHANGED <<table, edition>>
      /\ http' = [http EXCEPT ![b] = NoCall] /\ http'[b] = NoCall
  BY DEF CInv, FramesOK, ClientExit, Exit, CacheCall
<1>2. IInv'
  BY <1>1, ExitIInv
<1>3. \A c \in Backends \ {b} : pc'[c] = pc[c] /\ arg'[c] = arg[c] /\ ret'[c] = ret[c]
  BY <1>1, OwnFrame
<1>4. pc'[b] = "idle"
  BY <1>1 DEF IInv, CacheTypeOK, Exit, Return
<1>5. NoCall.pc = "idle" /\ NoCall.doc = None
  BY DEF NoCall
<1>6. Works(b)'
  BY <1>1, <1>4, <1>5 DEF Works, Resting, LookingUp, Transferring, Storing
<1>7. NoCall \in HttpFrame /\ NoCall.pos <= Len(NoCall.response.headers)
  BY FrameTypes
<1> QED
  BY <1>1, <1>2, <1>3, <1>6, <1>7, CallCInv

\* Time passes.
LEMMA ClientTickCInv ==
  ASSUME CInv, ClientTick
  PROVE  CInv'
<1>1. IInv'
  BY TickIInv DEF CInv, ClientTick
<1>2. UNCHANGED <<table, pc, arg, ret, http, edition>>
  BY DEF ClientTick, Tick
<1>3. FramesOK'
  BY <1>2 DEF CInv, FramesOK
<1>4. CallsWork'
  BY <1>2, WorksOn DEF CInv, CallsWork
<1>5. EntriesServed'
  BY <1>2, EntriesStay DEF CInv
<1> QED
  BY <1>1, <1>3, <1>4, <1>5 DEF CInv

\* The provider replaces a document: what was served stays what was served.
LEMMA PublishCInv ==
  ASSUME NEW v \in Urls, CInv, Publish(v)
  PROVE  CInv'
<1>1. IInv'
  BY StutterIInv DEF CInv, Publish
<1>2. UNCHANGED <<table, pc, arg, ret, http>>
  BY DEF Publish, cacheVars
<1>3. /\ edition' \in [Urls -> Nat \ {0}]
      /\ \A u \in Urls : edition[u] <= edition'[u] /\ edition'[u] <= Len(Editions[u])
  <2>1. \A u \in Urls : edition[u] \in Nat \ {0} /\ Len(Editions[u]) \in Nat
    BY ClientAssumption DEF CInv, FramesOK
  <2> QED
    BY <2>1 DEF Publish, CInv, FramesOK
<1>4. FramesOK'
  BY <1>2, <1>3 DEF CInv, FramesOK
<1>5. \A u \in Urls : Served(u) \subseteq Served(u)' /\ Good(u) \subseteq Good(u)'
  <2> SUFFICES ASSUME NEW u \in Urls
               PROVE  1..edition[u] \subseteq 1..edition'[u]
    BY DEF Served, Good
  <2>1. edition[u] \in Nat /\ edition'[u] \in Nat /\ edition[u] <= edition'[u]
    BY <1>3 DEF CInv, FramesOK
  <2> QED
    BY <2>1
<1>6. CallsWork'
  <2> SUFFICES ASSUME NEW b \in Backends
               PROVE  Works(b)'
    BY DEF CallsWork
  <2>1. Works(b)
    BY DEF CInv, CallsWork
  <2>2. http[b].url \in Urls => /\ Served(http[b].url) \subseteq Served(http[b].url)'
                                /\ Good(http[b].url) \subseteq Good(http[b].url)'
    <3>1. http'[b].url = http[b].url
      BY <1>2
    <3> QED
      BY <1>2, <1>5, <3>1 DEF Served, Good
  <2>3. Resting(b)'
    BY <1>2, <2>1, <2>2 DEF Works, Resting
  <2>4. LookingUp(b)'
    BY <1>2, <2>1, <2>2 DEF Works, Resting, LookingUp
  <2>5. Transferring(b)'
    BY <1>2, <2>1, <2>2 DEF Works, Resting, Transferring, Declared
  <2>6. Storing(b)'
    BY <1>2, <2>1, <2>2 DEF Works, Resting, Storing, Declared
  <2> QED
    BY <2>3, <2>4, <2>5, <2>6 DEF Works
<1>7. EntriesServed'
  BY <1>2, <1>5 DEF CInv, EntriesServed
<1> QED
  BY <1>1, <1>4, <1>6, <1>7 DEF CInv

-----------------------------------------------------------------------------
(* The invariant holds                                                      *)

\* No call, an empty table and the first edition of every document.
LEMMA InitCInv == ClientInit => CInv
<1> SUFFICES ASSUME ClientInit PROVE CInv
  OBVIOUS
<1>1. IInv
  BY InitIInv DEF ClientInit
<1>2. \A u \in Urls : Len(Editions[u]) \in Nat /\ Len(Editions[u]) >= 1
  BY ClientAssumption
<1>3. \A b \in Backends : http[b] = NoCall /\ pc[b] = "idle"
  BY DEF ClientInit, CacheInit
<1>4. FramesOK
  BY <1>2, <1>3, FrameTypes DEF ClientInit, FramesOK
<1>5. CallsWork
  <2>1. NoCall.pc = "idle" /\ NoCall.doc = None
    BY DEF NoCall
  <2> QED
    BY <1>3, <2>1 DEF CallsWork, Works, Resting, LookingUp, Transferring, Storing
<1>6. EntriesServed
  BY DEF ClientInit, CacheInit, EntriesServed
<1> QED
  BY <1>1, <1>4, <1>5, <1>6 DEF CInv

\* Every step keeps the invariant.
LEMMA NextCInv == CInv /\ [ClientNext]_clientVars => CInv'
<1> SUFFICES ASSUME CInv, [ClientNext]_clientVars PROVE CInv'
  OBVIOUS
<1>1. CASE ClientTick
  BY <1>1, ClientTickCInv
<1>2. ASSUME NEW u \in Urls, Publish(u) PROVE CInv'
  BY <1>2, PublishCInv
<1>3. ASSUME NEW b \in Backends, CacheStep(b), UNCHANGED <<http, edition>> PROVE CInv'
  BY <1>3, CacheReadsCInv, CacheWritesCInv DEF CacheStep
<1>4. ASSUME NEW b \in Backends,
             \/ LookupDone(b) \/ CacheThrew(b) \/ Respond(b) \/ HeaderCallback(b)
             \/ PerformFails(b) \/ Complete(b) \/ StoreDone(b)
      PROVE  CInv'
  BY <1>4, LookupDoneCInv, ThrowsCInv, RespondCInv, HeaderCallbackCInv, CompleteCInv,
     StoreDoneCInv
<1>5. ASSUME NEW b \in Backends, ClientAttach(b) \/ ClientExit(b) PROVE CInv'
  BY <1>5, ClientAttachCInv, ClientExitCInv
<1>6. ASSUME NEW b \in Backends, NEW u \in Urls, GetJson(b, u) PROVE CInv'
  BY <1>6, GetJsonCInv
<1>7. CASE UNCHANGED clientVars
  <2>1. UNCHANGED cacheVars /\ UNCHANGED <<table, pc, arg, ret, http, edition>>
    BY <1>7 DEF clientVars, cacheVars
  <2>2. IInv'
    BY <2>1, StutterIInv DEF CInv
  <2>3. FramesOK'
    BY <2>1 DEF CInv, FramesOK
  <2>4. CallsWork'
    BY <2>1, WorksOn DEF CInv, CallsWork
  <2>5. EntriesServed'
    BY <2>1, EntriesStay DEF CInv
  <2> QED
    BY <2>2, <2>3, <2>4, <2>5 DEF CInv
<1> QED
  BY <1>1, <1>2, <1>3, <1>4, <1>5, <1>6, <1>7 DEF ClientNext, ClientStep

\* Hence the invariant holds at all times.
LEMMA ClientInductive == ClientSpec => []CInv
<1> QED
  BY InitCInv, NextCInv, PTL DEF ClientSpec

-----------------------------------------------------------------------------
(* What follows from it                                                     *)

\* Every state of a get_json call, of the cache below it and of the provider
\* is well formed; in particular header_callback is never past the last line
\* and last_max_age_ always fits an int (http_client.cpp:55-66).
THEOREM ClientTypes == ClientSpec => []ClientTypeOK
<1>1. ASSUME CInv PROVE ClientTypeOK
  <2>1. CacheTypeOK /\ edition \in [Urls -> Nat \ {0}]
    BY <1>1 DEF CInv, IInv, FramesOK
  <2>2. ASSUME NEW b \in Backends
        PROVE  /\ DOMAIN http[b] = DOMAIN NoCall
               /\ http[b].pc \in {"idle", "failed", "lookup", "perform", "transfer", "store"}
               /\ http[b].url \in Urls \cup {None}
               /\ http[b].pos \in 0..Len(http[b].response.headers)
               /\ http[b].maxAge \in (0..IntMax) \cup {None}
               /\ http[b].doc \in Bodies \cup {None}
    <3>1. http[b] \in HttpFrame /\ http[b].pos <= Len(http[b].response.headers)
      BY <1>1 DEF CInv, FramesOK
    <3>2. http[b].response.headers \in Seq(Line)
      BY <3>1 DEF HttpFrame, Response
    <3>3. DOMAIN http[b] = DOMAIN NoCall
      BY <3>1 DEF HttpFrame, NoCall
    <3> QED
      BY <3>1, <3>2, <3>3 DEF HttpFrame
  <2> QED
    BY <2>1, <2>2 DEF ClientTypeOK
<1> QED
  BY <1>1, ClientInductive, PTL

\* What get_json hands to the validator for a URL (http_client.cpp:82-129) is
\* a document that the provider published under that URL, however the calls
\* of other backends, the expiry of entries and key rotation interleave.
THEOREM ServedDocuments == ClientSpec => []DocumentWasServed
<1>1. CInv => DocumentWasServed
  BY DEF CInv, CallsWork, Works, Resting, DocumentWasServed, Good
<1> QED
  BY <1>1, ClientInductive, PTL

\* Every entry that nobody is writing holds such a document: put
\* (http_cache.hpp) leaves nothing else behind when it releases the lock.
THEOREM CacheServed == ClientSpec => []CacheHoldsServedDocuments
<1>1. ASSUME CInv PROVE CacheHoldsServedDocuments
  <2> SUFFICES ASSUME NEW u \in Urls, table[u] # None, exclusive[PartitionOf[u]] = {}
               PROVE  table[u].json \in Good(u)
    BY DEF CacheHoldsServedDocuments, Good
  <2>1. \A b \in Backends : ~(pc[b] = "json" /\ arg[b].url = u)
    BY <1>1 DEF CInv, IInv, LocksHeld, Writing, Part
  <2> QED
    BY <1>1, <2>1 DEF CInv, EntriesServed
<1> QED
  BY <1>1, ClientInductive, PTL

\* An entry is stored for a time that a Cache-Control line of the very
\* response it came in declares (http_client.cpp:55-66, 122-124).
THEOREM DeclaredAges == ClientSpec => []StoredForDeclaredAge
<1>1. ASSUME CInv PROVE StoredForDeclaredAge
  <2> SUFFICES ASSUME NEW b \in Backends, pc[b] \in {"insert", "json", "expiration"}
               PROVE  \E i \in DOMAIN http[b].response.headers :
                        LET line == http[b].response.headers[i]
                        IN  /\ line.name = "cache-control"
                            /\ line.age = arg[b].age
                            /\ line.age \in 1..IntMax
    BY DEF StoredForDeclaredAge
  <2>1. http[b].pc = "store"
    BY <1>1 DEF CInv, CallsWork, Works, Resting, LookingUp, Reading, FramesOK, HttpFrame
  <2>2. arg[b].age > 0 /\ Declared(http[b], arg[b].age)
    BY <1>1, <2>1 DEF CInv, CallsWork, Works, Storing
  <2> QED
    BY <2>2, ClientAssumption DEF Declared
<1> QED
  BY <1>1, ClientInductive, PTL
=============================================================================
