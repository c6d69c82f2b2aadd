------------------------------ MODULE HttpCache ------------------------------
(***************************************************************************)
(* The HTTP response cache that all PostgreSQL backends share              *)
(* (src/http_cache.hpp) over a dynamic-shared-memory hash table            *)
(* (src/dshash_wrapper.hpp).  The table is split into partitions, each     *)
(* guarded by one lightweight lock (LWLock) of the server.                 *)
(*                                                                         *)
(* The lock, the allocator and the table itself are PostgreSQL's and are   *)
(* modelled from how the wrapper uses them: LWLocks are shared/exclusive,  *)
(* are not re-entrant, are granted to a shared locker whenever nobody      *)
(* holds them exclusively, and are dropped when the owning backend exits.  *)
(* An ERROR raised while a lock is held is turned into a C++ exception by  *)
(* pg_try (src/pg_utils.hpp), which does not release LWLocks.              *)
(***************************************************************************)
EXTENDS Integers

CONSTANTS
  Backends,     \* backend processes
  Urls,         \* cache keys
  LongUrls,     \* those longer than max_url_len
  Bodies,       \* response texts
  LargeBodies,  \* those longer than max_json_len
  Junk,         \* text that no response holds: uninitialised or cut short
  None,         \* absence: of an entry, of a key
  Partitions,   \* lock partitions of the table
  PartitionOf,  \* the partition a key hashes to
  Ages,         \* values put may be given for max_age_seconds
  MaxAge,       \* bound on Ages
  MaxClock      \* bound on time(nullptr)

ASSUME CacheAssumption ==
  /\ LongUrls \subseteq Urls
  /\ LargeBodies \subseteq Bodies
  /\ Junk \notin Bodies
  /\ PartitionOf \in [Urls -> Partitions]
  /\ MaxClock \in Nat
  /\ MaxAge \in Nat
  /\ Ages \subseteq Int
  /\ \A a \in Ages : a <= MaxAge

VARIABLES
  clock,      \* time(nullptr), in seconds
  table,      \* the shared table: key -> http_cache_entry
  shared,     \* partition -> backends holding its lock in LW_SHARED mode
  exclusive,  \* partition -> backends holding it in LW_EXCLUSIVE mode
  attached,   \* cache_.has_value() of each backend's http_cache singleton
  pc,         \* where a backend is inside get or put
  arg,        \* its arguments and locals there
  ret         \* what its last call returned

cacheVars == <<clock, table, shared, exclusive, attached, pc, arg, ret>>

-----------------------------------------------------------------------------

Labels == {"idle", "failed", "find", "check", "erase", "copy", "unshare",
           "insert", "json", "expiration", "unlock"}
Texts  == Bodies \cup {Junk}
Entry  == [json : Texts, expiration : Int]
Arg    == [url : Urls \cup {None}, body : Texts, age : Int]

\* The frame of a call that has only a key so far, and of no call.
KeyArg(u) == [url |-> u, body |-> Junk, age |-> 0]
NoArg     == KeyArg(None)

Result == [kind : {"none", "hit", "miss", "stored", "refused", "error"},
           body : Texts]

ASSUME NoneAssumption == None \notin Entry

NoResult  == [kind |-> "none", body |-> Junk]
Answer(k) == [kind |-> k, body |-> Junk]
Hit(text) == [kind |-> "hit", body |-> text]

CacheInit ==
  /\ clock = 0
  /\ table = [u \in Urls |-> None]
  /\ shared = [x \in Partitions |-> {}]
  /\ exclusive = [x \in Partitions |-> {}]
  /\ attached = [b \in Backends |-> FALSE]
  /\ pc = [b \in Backends |-> "idle"]
  /\ arg = [b \in Backends |-> NoArg]
  /\ ret = [b \in Backends |-> NoResult]

\* The call of b ends and its frame is gone.
Return(b, result) ==
  /\ pc' = [pc EXCEPT ![b] = "idle"]
  /\ arg' = [arg EXCEPT ![b] = NoArg]
  /\ ret' = [ret EXCEPT ![b] = result]

\* The call of b leaves with an exception; locks b holds at this point stay.
Throw(b) ==
  /\ pc' = [pc EXCEPT ![b] = "failed"]
  /\ arg' = [arg EXCEPT ![b] = NoArg]
  /\ ret' = [ret EXCEPT ![b] = Answer("error")]

Goto(b, label) == pc' = [pc EXCEPT ![b] = label]

\* The partition of the key b is working on.
Part(b) == PartitionOf[arg[b].url]

\* LWLockAcquire in either mode.
SharedFree(b) == exclusive[Part(b)] = {}

BesideReaders(b) == exclusive[Part(b)] = {}  \* faulty: ignores shared holders
ExclusiveFree(b) == exclusive[Part(b)] = {} /\ shared[Part(b)] = {}

\* ~entry_ref: dshash_release_lock, in whichever mode the lock is held.
KeepLock(b, holders) == holders              \* faulty: a lock nobody releases
ReleaseLock(b, holders) == [holders EXCEPT ![Part(b)] = @ \ {b}]

\* strncpy into a buffer of json_response_size bytes cuts longer texts.
Strncpy(text) == IF text \in LargeBodies THEN Junk ELSE text

\* http_cache_entry::is_expired
ExpiresLate(entry) == clock > entry.expiration  \* faulty: off by one
IsExpired(entry) == clock >= entry.expiration

-----------------------------------------------------------------------------
(* http_cache::attach and http_cache::detach.  detach is called by          *)
(* validator_shutdown when the backend goes away; the server then drops     *)
(* whatever LWLocks the process still holds.                                *)

Attach(b) ==
  /\ pc[b] = "idle"
  /\ ~attached[b]
  /\ attached' = [attached EXCEPT ![b] = TRUE]
  /\ UNCHANGED <<clock, table, shared, exclusive, pc, arg, ret>>

Exit(b) ==
  /\ pc[b] \in {"idle", "failed"}
  /\ attached' = [attached EXCEPT ![b] = FALSE]
  /\ shared' = [x \in Partitions |-> shared[x] \ {b}]
  /\ exclusive' = [x \in Partitions |-> exclusive[x] \ {b}]
  /\ Return(b, NoResult)
  /\ UNCHANGED <<clock, table>>

-----------------------------------------------------------------------------
(* http_cache::get                                                          *)

Get(b, u) ==
  /\ pc[b] = "idle"
  /\ IF attached[b] /\ u \notin LongUrls
     THEN /\ Goto(b, "find")
          /\ arg' = [arg EXCEPT ![b] = KeyArg(u)]
          /\ ret' = [ret EXCEPT ![b] = NoResult]
     ELSE Return(b, Answer("miss"))
  /\ UNCHANGED <<clock, table, shared, exclusive, attached>>

\* dshash_find in shared mode; it keeps the lock only when it finds the key.
Find(b) ==
  /\ pc[b] = "find"
  /\ SharedFree(b)
  /\ IF table[arg[b].url] = None
     THEN Return(b, Answer("miss")) /\ UNCHANGED shared
     ELSE /\ shared' = [shared EXCEPT ![Part(b)] = @ \cup {b}]
          /\ Goto(b, "check")
          /\ UNCHANGED <<arg, ret>>
  /\ UNCHANGED <<clock, table, exclusive, attached>>

\* dshash_find raises an ERROR after it took the lock (a segment of the area
\* cannot be mapped).
FindError(b) ==
  /\ pc[b] = "find"
  /\ SharedFree(b)
  /\ shared' = [shared EXCEPT ![Part(b)] = @ \cup {b}]
  /\ Throw(b)
  /\ UNCHANGED <<clock, table, exclusive, attached>>

CheckExpired(b) ==
  /\ pc[b] = "check"
  /\ Goto(b, IF IsExpired(table[arg[b].url]) THEN "erase" ELSE "copy")
  /\ UNCHANGED <<clock, table, shared, exclusive, attached, arg, ret>>

\* Faulty: hands out the entry instead of its text.
CopyEntry(b) ==
  /\ pc[b] = "copy"
  /\ Goto(b, "unshare")
  /\ arg' = [arg EXCEPT ![b].body = table[arg[b].url]]
  /\ UNCHANGED <<clock, table, shared, exclusive, attached, ret>>

CopyJson(b) ==
  /\ pc[b] = "copy"
  /\ Goto(b, "unshare")
  /\ arg' = [arg EXCEPT ![b].body = table[arg[b].url].json]
  /\ UNCHANGED <<clock, table, shared, exclusive, attached, ret>>

\* The shared lock goes after the text is copied.
ReleaseShared(b) ==
  /\ pc[b] = "unshare"
  /\ shared' = ReleaseLock(b, shared)
  /\ Return(b, Hit(arg[b].body))
  /\ UNCHANGED <<clock, table, exclusive, attached>>

-----------------------------------------------------------------------------
(* http_cache::put                                                          *)

AnySize(u, text, age) == u \notin LongUrls /\ age > 0  \* faulty: no limit on texts
Cacheable(u, text, age) == u \notin LongUrls /\ text \notin LargeBodies /\ age > 0

Put(b, u, text, age) ==
  /\ pc[b] = "idle"
  /\ IF attached[b] /\ Cacheable(u, text, age)
     THEN /\ Goto(b, "insert")
          /\ arg' = [arg EXCEPT ![b] = [url |-> u, body |-> text, age |-> age]]
          /\ ret' = [ret EXCEPT ![b] = NoResult]
     ELSE Return(b, Answer("refused"))
  /\ UNCHANGED <<clock, table, shared, exclusive, attached>>

\* What dshash_find_or_insert leaves under the key: the entry that is there,
\* or a new one whose fields hold whatever the memory held before.
Inserted(u) ==
  IF table[u] = None
  THEN {[json |-> Junk, expiration |-> e] : e \in {0, MaxClock + MaxAge}}
  ELSE {table[u]}

\* dshash_find_or_insert (from put) and dshash_delete_key (from get, for an
\* expired entry) both start by waiting for the partition's lock in
\* exclusive mode.  The first returns with the lock; the second deletes the
\* entry and releases the lock, and get then drops its own shared lock and
\* answers nullopt.
LockExclusive(b) ==
  /\ pc[b] \in {"insert", "erase"}
  /\ ExclusiveFree(b)
  /\ IF pc[b] = "erase"
     THEN /\ table' = [table EXCEPT ![arg[b].url] = None]
          /\ shared' = ReleaseLock(b, shared)
          /\ Return(b, Answer("miss"))
          /\ UNCHANGED exclusive
     ELSE /\ \E e \in Inserted(arg[b].url) :
               table' = [table EXCEPT ![arg[b].url] = e]
          /\ exclusive' = [exclusive EXCEPT ![Part(b)] = @ \cup {b}]
          /\ Goto(b, "json")
          /\ UNCHANGED <<shared, arg, ret>>
  /\ UNCHANGED <<clock, attached>>

\* dshash_find_or_insert raises an ERROR (out of memory) under the lock.
InsertError(b) ==
  /\ pc[b] = "insert"
  /\ ExclusiveFree(b)
  /\ exclusive' = [exclusive EXCEPT ![Part(b)] = @ \cup {b}]
  /\ Throw(b)
  /\ UNCHANGED <<clock, table, shared, attached>>

WriteJson(b) ==
  /\ pc[b] = "json"
  /\ table' = [table EXCEPT ![arg[b].url].json = Strncpy(arg[b].body)]
  /\ Goto(b, "expiration")
  /\ UNCHANGED <<clock, shared, exclusive, attached, arg, ret>>

WriteExpiration(b) ==
  /\ pc[b] = "expiration"
  /\ table' = [table EXCEPT ![arg[b].url].expiration = clock + arg[b].age]
  /\ Goto(b, "unlock")
  /\ UNCHANGED <<clock, shared, exclusive, attached, arg, ret>>

ReleaseExclusive(b) ==
  /\ pc[b] = "unlock"
  /\ exclusive' = ReleaseLock(b, exclusive)
  /\ Return(b, Answer("stored"))
  /\ UNCHANGED <<clock, table, shared, attached>>

-----------------------------------------------------------------------------

\* Wall-clock seconds pass.
Tick ==
  /\ clock < MaxClock
  /\ clock' = clock + 1
  /\ UNCHANGED <<table, shared, exclusive, attached, pc, arg, ret>>

\* Steps inside a call.
CacheStep(b) ==
  \/ Find(b)
  \/ FindError(b)
  \/ CheckExpired(b)
  \/ CopyJson(b)
  \/ ReleaseShared(b)
  \/ LockExclusive(b)
  \/ InsertError(b)
  \/ WriteJson(b)
  \/ WriteExpiration(b)
  \/ ReleaseExclusive(b)

\* The calls a backend may make.
CacheCall(b) ==
  \/ Attach(b)
  \/ Exit(b)
  \/ \E u \in Urls : Get(b, u)
  \/ \E u \in Urls, text \in Bodies, age \in Ages : Put(b, u, text, age)

CacheNext == Tick \/ \E b \in Backends : CacheStep(b) \/ CacheCall(b)

CacheSpec == CacheInit /\ [][CacheNext]_cacheVars
-----------------------------------------------------------------------------
(* Fairness.  A call in progress is a running process: it keeps taking      *)
(* steps, the waiters of an LWLock are woken when it is released, and a     *)
(* backend whose validation failed closes its connection.                   *)

CacheFairness ==
  \A b \in Backends :
    /\ WF_cacheVars(CheckExpired(b) \/ CopyJson(b) \/ ReleaseShared(b))
    /\ WF_cacheVars(WriteJson(b) \/ WriteExpiration(b) \/ ReleaseExclusive(b))
    /\ SF_cacheVars(Find(b))
    /\ SF_cacheVars(LockExclusive(b))
    /\ WF_cacheVars(pc[b] = "failed" /\ Exit(b))

FairCacheSpec == CacheSpec /\ CacheFairness

-----------------------------------------------------------------------------
(* Properties                                                               *)

CacheTypeOK ==
  /\ clock \in Nat
  /\ table \in [Urls -> Entry \cup {None}]
  /\ shared \in [Partitions -> SUBSET Backends]
  /\ exclusive \in [Partitions -> SUBSET Backends]
  /\ attached \in [Backends -> BOOLEAN]
  /\ pc \in [Backends -> Labels]
  /\ arg \in [Backends -> Arg]
  /\ ret \in [Backends -> Result]

\* An entry that another backend could lock and read right now is whole: its
\* text is a complete response that was short enough to be stored, and its
\* expiration lies at most MaxAge seconds ahead.  put writes the fields of a
\* fresh, uninitialised entry one after the other (http_cache.hpp:116-124).
ReadableEntriesWhole ==
  \A u \in Urls :
    table[u] # None /\ exclusive[PartitionOf[u]] = {} =>
      /\ u \notin LongUrls
      /\ table[u].json \in Bodies \ LargeBodies
      /\ table[u].expiration <= clock + MaxAge

\* A call that returned, with a value or by declining, left no partition lock
\* behind: only a call that threw may (the entry_ref destructor,
\* dshash_wrapper.hpp:76-80).
NoLockOutlivesCall ==
  \A b \in Backends : pc[b] = "idle" =>
    \A x \in Partitions : b \notin shared[x] \cup exclusive[x]

\* Between the expiry check and the copy of the text (http_cache.hpp:87-92)
\* nobody replaces, erases or half-writes the entry that get is looking at.
CheckedEntryStable ==
  [][\A b \in Backends :
       pc[b] \in {"check", "copy"} => table'[arg[b].url] = table[arg[b].url]]_cacheVars

\* A lookup that has begun (http_cache.hpp:81) comes back, with a text, with
\* nullopt or with an exception; a login that does not finish in time is a
\* failure for the end-to-end tests (test/spec/spec_helper.rb:172).
LookupReturns ==
  \A b \in Backends : pc[b] = "find" ~> pc[b] \in {"idle", "failed"}

\* In the absence of expired entries (an expired one makes get wait for a lock
\* it holds itself) every lookup and every store comes back: writers release
\* what readers wait for, and a backend whose call threw gives up its leaked
\* locks when it exits.
CallsReturnUntilExpiry ==
  [](\A b \in Backends : pc[b] # "erase") =>
    \A b \in Backends : pc[b] \in {"find", "insert"} ~> pc[b] \in {"idle", "failed"}

\* The locked, field-by-field cache implements ExpiringMap.  A key whose entry
\* is being written is not in the abstract map; a get has chosen its answer
\* once the entry it holds locked was found unexpired.
BeingWritten(u) ==
  \E b \in Backends : pc[b] \in {"json", "expiration"} /\ arg[b].url = u

AbstractMap == [u \in Urls |-> IF BeingWritten(u) THEN None ELSE table[u]]

PhaseOf(label) ==
  CASE label \in {"find", "check", "erase"} -> "getting"
    [] label \in {"copy", "unshare"} -> "answering"
    [] label \in {"insert", "json", "expiration"} -> "putting"
    [] label = "unlock" -> "stored"
    [] OTHER -> label

AbstractPhase == [b \in Backends |-> PhaseOf(pc[b])]

AbstractReq ==
  [b \in Backends |->
     IF pc[b] = "copy" THEN [arg[b] EXCEPT !.body = table[arg[b].url].json]
                       ELSE arg[b]]

Abstract == INSTANCE ExpiringMap
  WITH map <- AbstractMap, phase <- AbstractPhase, req <- AbstractReq

ImplementsExpiringMap == Abstract!Spec
=============================================================================
