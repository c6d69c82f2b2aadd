------------------------------ MODULE KeyHandle ------------------------------
(***************************************************************************)
(* helper::evp_pkey_handle (jwt-cpp/jwt.h): every algorithm object owns    *)
(* its key through handles that count references with OpenSSL's own        *)
(* counter, while handles are copied, moved, assigned and destroyed.       *)
(* operator=(EVP_PKEY* ) drops the held key before it takes the new one:   *)
(* h = h.get() with the only reference frees the key and goes on with it,  *)
(* which is undefined behaviour and ends the model's behaviour.            *)
(***************************************************************************)
EXTENDS Integers, FiniteSets

CONSTANTS
  Handles,   \* variables that can hold a handle
  Keys,      \* EVP_PKEY structures that OpenSSL can create
  NoKey      \* nullptr

ASSUME HandleAssumption == NoKey \notin Keys

VARIABLES
  alive,  \* handles that are constructed
  mkey,   \* m_key
  refs,   \* OpenSSL's counter; a key is freed when it comes to 0
  raw,    \* keys of which the program owns a raw pointer
  dangling  \* handles left with a key that is freed

handleVars == <<alive, mkey, refs, raw, dangling>>

HandleInit ==
  /\ alive = {}
  /\ mkey = [h \in Handles |-> NoKey]
  /\ refs = [k \in Keys |-> 0]
  /\ raw = {}
  /\ dangling = {}

Changed(count, key, by) ==
  [k \in Keys |-> IF k = key THEN count[k] + by ELSE count[k]]

\* decrement_ref_count, increment_ref_count; nothing for nullptr
Decremented(count, key) == Changed(count, key, -1)
Incremented(count, key) == Changed(count, key, 1)

\* OpenSSL returns a key, and the program may free it again.
Load(k) ==
  /\ refs[k] = 0 /\ k \notin raw /\ \A h \in alive : mkey[h] # k
  /\ refs' = [refs EXCEPT ![k] = 1]
  /\ raw' = raw \cup {k}
  /\ UNCHANGED <<alive, mkey, dangling>>

FreeRaw(k) ==
  /\ k \in raw
  /\ raw' = raw \ {k}
  /\ refs' = Decremented(refs, k)
  /\ UNCHANGED <<alive, mkey, dangling>>

Born(h, key) ==
  /\ h \notin alive
  /\ alive' = alive \cup {h}
  /\ mkey' = [mkey EXCEPT ![h] = key]

\* The handle takes ownership.
Construct(h, k) ==
  /\ k \in raw /\ Born(h, k)
  /\ raw' = raw \ {k}
  /\ UNCHANGED <<refs, dangling>>

ConstructNull(h) == Born(h, NoKey) /\ UNCHANGED <<refs, raw, dangling>>

\* increment_ref_count(key) by handle h when the counters are count
Increment(h, key, count) ==
  IF key \in Keys /\ count[key] = 0
  THEN refs' = count /\ dangling' = dangling \cup {h}
  ELSE refs' = Incremented(count, key) /\ UNCHANGED dangling

CopyConstruct(h, g) ==
  /\ g \in alive /\ Born(h, mkey[g])
  /\ Increment(h, mkey[g], refs)
  /\ UNCHANGED raw

MoveKeepsSource(h, g) ==               \* faulty: other.m_key stays
  /\ g \in alive /\ Born(h, mkey[g])
  /\ UNCHANGED <<refs, raw, dangling>>
MoveConstruct(h, g) ==
  /\ g \in alive /\ h \notin alive
  /\ alive' = alive \cup {h}
  /\ mkey' = [mkey EXCEPT ![h] = mkey[g], ![g] = NoKey]
  /\ UNCHANGED <<refs, raw, dangling>>

\* operator=; assignment to itself does nothing.
CopyAssign(h, g) ==
  /\ {h, g} \subseteq alive /\ h # g
  /\ mkey' = [mkey EXCEPT ![h] = mkey[g]]
  /\ Increment(h, mkey[g], Decremented(refs, mkey[h]))
  /\ UNCHANGED <<alive, raw>>

MoveAssign(h, g) ==
  /\ {h, g} \subseteq alive /\ h # g
  /\ mkey' = [mkey EXCEPT ![h] = mkey[g], ![g] = NoKey]
  /\ refs' = Decremented(refs, mkey[h])
  /\ UNCHANGED <<alive, raw, dangling>>

\* operator=(EVP_PKEY* ): key is nullptr or any key that lives, be it the
\* program's own or what get() of some handle, this one too, returned.  Who
\* owned it before keeps it.
AssignRaw(h, key) ==
  /\ h \in alive /\ key \in {NoKey} \cup {k \in Keys : refs[k] > 0}
  /\ mkey' = [mkey EXCEPT ![h] = key]
  /\ Increment(h, key, Decremented(refs, mkey[h]))
  /\ UNCHANGED <<alive, raw>>

Destroy(h) ==
  /\ h \in alive
  /\ alive' = alive \ {h}
  /\ mkey' = [mkey EXCEPT ![h] = NoKey]
  /\ refs' = Decremented(refs, mkey[h])
  /\ UNCHANGED <<raw, dangling>>

HandleNext ==
  /\ dangling = {}
  /\ \/ \E k \in Keys : Load(k) \/ FreeRaw(k)
     \/ \E h \in Handles : ConstructNull(h) \/ Destroy(h)
     \/ \E h \in Handles, k \in Keys : Construct(h, k)
     \/ \E h \in Handles, k \in Keys \cup {NoKey} : AssignRaw(h, k)
     \/ \E h, g \in Handles : \/ CopyConstruct(h, g) \/ MoveConstruct(h, g)
                              \/ CopyAssign(h, g) \/ MoveAssign(h, g)

HandleSpec == HandleInit /\ [][HandleNext]_handleVars

-----------------------------------------------------------------------------
(* Properties                                                               *)

\* However handles are copied, moved and assigned over each other and over
\* raw pointers, OpenSSL's counter is the number of those who will free the
\* key: the handles that hold it and the raw pointers that the program still
\* owns.  No key is freed early, twice or never, but for one assignment, after
\* which the handle is left with a freed key and owns nothing.
OwnersCounted ==
  \A k \in Keys :
    refs[k] = Cardinality({h \in alive \ dangling : mkey[h] = k}) + Cardinality(raw \cap {k})

\* The one assignment: a handle with the only reference is given its own get().
AssignedItsOwn(h) ==
  /\ h \in alive /\ mkey[h] \in Keys /\ refs[mkey[h]] = 1
  /\ AssignRaw(h, mkey[h])

\* No other operation, copy assignment of two handles that share a key
\* included, counts up a key that its own count down has freed.
OnlyOwnKeyDangles == [][dangling' # dangling => \E h \in Handles : AssignedItsOwn(h)]_handleVars

=============================================================================
