----------------------------- MODULE ExpiringMap -----------------------------
(***************************************************************************)
(* What the shared HTTP cache promises its callers: a map from URLs to     *)
(* response texts in which an entry appears in one piece, only on behalf   *)
(* of a put that is in progress, and lives for max_age_seconds from the    *)
(* moment it appears.  A get answers with a text only if the map held it,  *)
(* unexpired, at one instant during the call.  The map may forget an       *)
(* entry that is being replaced or that has expired; calls may fail.       *)
(* There are no locks here: HttpCache implements this specification.       *)
(***************************************************************************)
EXTENDS Integers

CONSTANTS
  Backends, Urls, Bodies, Ages,
  Junk,      \* no text
  None,      \* absence: of an entry, of a key
  MaxClock   \* bound on clock

VARIABLES
  clock,  \* seconds
  map,    \* URL -> [json, expiration] or None
  phase,  \* what each caller is doing
  req,    \* its request, and the text chosen as its answer
  ret     \* what its last call returned

vars == <<clock, map, phase, req, ret>>

NoReq == [url |-> None, body |-> Junk, age |-> 0]

Init ==
  /\ clock = 0
  /\ map = [u \in Urls |-> None]
  /\ phase = [b \in Backends |-> "idle"]
  /\ req = [b \in Backends |-> NoReq]
  /\ ret = [b \in Backends |-> [kind |-> "none", body |-> Junk]]

Moves(b, from, to) == phase[b] = from /\ phase' = [phase EXCEPT ![b] = to]

Ends(b, kind, text) ==
  /\ req' = [req EXCEPT ![b] = NoReq]
  /\ ret' = [ret EXCEPT ![b] = [kind |-> kind, body |-> text]]

Begins(b, request) ==
  /\ req' = [req EXCEPT ![b] = request]
  /\ ret' = [ret EXCEPT ![b] = [kind |-> "none", body |-> Junk]]

-----------------------------------------------------------------------------

\* A call the cache does not take up: nothing is attached, or too large a key
\* or text, or an age that is not positive.
Decline(b) ==
  /\ Moves(b, "idle", "idle")
  /\ \E kind \in {"miss", "refused"} : Ends(b, kind, Junk)
  /\ UNCHANGED <<clock, map>>

BeginGet(b, u) ==
  /\ Moves(b, "idle", "getting")
  /\ Begins(b, [NoReq EXCEPT !.url = u])
  /\ UNCHANGED <<clock, map>>

\* The instant a get takes effect when it finds a live entry.
Choose(b) ==
  /\ Moves(b, "getting", "answering")
  /\ map[req[b].url] # None
  /\ clock < map[req[b].url].expiration
  /\ req' = [req EXCEPT ![b].body = map[req[b].url].json]
  /\ UNCHANGED <<clock, map, ret>>

AnswerHit(b) ==
  /\ Moves(b, "answering", "idle")
  /\ Ends(b, "hit", req[b].body)
  /\ UNCHANGED <<clock, map>>

\* A get that finds nothing, or an expired entry, which it may remove.
AnswerMiss(b) ==
  /\ Moves(b, "getting", "idle")
  /\ Ends(b, "miss", Junk)
  /\ \/ UNCHANGED map
     \/ /\ map[req[b].url] # None
        /\ clock >= map[req[b].url].expiration
        /\ map' = [map EXCEPT ![req[b].url] = None]
  /\ UNCHANGED clock

BeginPut(b, u, text, age) ==
  /\ age > 0
  /\ Moves(b, "idle", "putting")
  /\ Begins(b, [url |-> u, body |-> text, age |-> age])
  /\ UNCHANGED <<clock, map>>

\* The old entry goes before the new one comes.
Displace(b) ==
  /\ phase[b] = "putting"
  /\ map' = [map EXCEPT ![req[b].url] = None]
  /\ UNCHANGED <<clock, phase, req, ret>>

\* The instant a put takes effect.
Store(b) ==
  /\ Moves(b, "putting", "stored")
  /\ map' = [map EXCEPT ![req[b].url] =
               [json |-> req[b].body, expiration |-> clock + req[b].age]]
  /\ UNCHANGED <<clock, req, ret>>

AnswerStored(b) ==
  /\ Moves(b, "stored", "idle")
  /\ Ends(b, "stored", Junk)
  /\ UNCHANGED <<clock, map>>

Fail(b) ==
  /\ phase[b] \in {"getting", "putting"}
  /\ phase' = [phase EXCEPT ![b] = "failed"]
  /\ Ends(b, "error", Junk)
  /\ UNCHANGED <<clock, map>>

Leave(b) ==
  /\ phase[b] \in {"idle", "failed"}
  /\ phase' = [phase EXCEPT ![b] = "idle"]
  /\ Ends(b, "none", Junk)
  /\ UNCHANGED <<clock, map>>

Tick ==
  /\ clock < MaxClock
  /\ clock' = clock + 1
  /\ UNCHANGED <<map, phase, req, ret>>

Next ==
  \/ Tick
  \/ \E b \in Backends :
       \/ Decline(b)
       \/ \E u \in Urls : BeginGet(b, u)
       \/ Choose(b) \/ AnswerHit(b) \/ AnswerMiss(b)
       \/ \E u \in Urls, text \in Bodies, age \in Ages : BeginPut(b, u, text, age)
       \/ Displace(b) \/ Store(b) \/ AnswerStored(b)
       \/ Fail(b) \/ Leave(b)

Spec == Init /\ [][Next]_vars
=============================================================================
