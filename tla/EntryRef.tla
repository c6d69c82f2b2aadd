------------------------------ MODULE EntryRef ------------------------------
(***************************************************************************)
(* dshash::entry_ref (src/dshash_wrapper.hpp) in one backend: an object    *)
(* that stands for the partition lock which dshash_find or                 *)
(* dshash_find_or_insert returned with.  It cannot be copied; what is      *)
(* moved into another, on its way through optional, pair and the values of *)
(* lambdas, must be released by exactly one of them.  The entries are of   *)
(* different partitions: for the second entry of one the backend would     *)
(* wait for itself.  The table outlives its references (http_cache keeps   *)
(* them inside get and put).                                               *)
(***************************************************************************)

CONSTANTS
  Refs,     \* the objects
  Entries,  \* entries of the table
  Null      \* a null entry_

ASSUME RefAssumption == Null \notin Entries

VARIABLES
  refs,    \* the objects that exist
  entry_,  \* what they refer to
  held     \* the entries whose partition lock this backend holds

refVars == <<refs, entry_, held>>

RefInit ==
  /\ refs = {}
  /\ entry_ = [r \in Refs |-> Null]
  /\ held = {}

\* dshash_release_lock, unless there is nothing to release.
Unlocked(r) == held \ {entry_[r]}

\* The constructor, in find and find_or_insert, after the lock was taken.
Construct(r, e) ==
  /\ r \notin refs
  /\ e \notin held
  /\ refs' = refs \cup {r}
  /\ entry_' = [entry_ EXCEPT ![r] = e]
  /\ held' = held \cup {e}

MoveConstructRef(r, s) ==
  /\ r \notin refs /\ s \in refs
  /\ refs' = refs \cup {r}
  /\ entry_' = [entry_ EXCEPT ![r] = entry_[s], ![s] = Null]
  /\ UNCHANGED held

\* Move assignment; to itself it does nothing.
AssignKeepsSource(r, s) ==               \* faulty: the source keeps its entry_
  /\ r \in refs /\ s \in refs
  /\ entry_' = [entry_ EXCEPT ![r] = entry_[s]]
  /\ held' = IF r = s THEN held ELSE Unlocked(r)
  /\ UNCHANGED refs
MoveAssignRef(r, s) ==
  /\ r \in refs /\ s \in refs
  /\ IF r = s THEN UNCHANGED <<entry_, held>>
     ELSE /\ entry_' = [entry_ EXCEPT ![r] = entry_[s], ![s] = Null]
          /\ held' = Unlocked(r)
  /\ UNCHANGED refs

Destroy(r) ==
  /\ r \in refs
  /\ refs' = refs \ {r}
  /\ entry_' = [entry_ EXCEPT ![r] = Null]
  /\ held' = Unlocked(r)

RefNext ==
  \E r \in Refs :
    \/ Destroy(r)
    \/ \E e \in Entries : Construct(r, e)
    \/ \E s \in Refs : MoveConstructRef(r, s) \/ MoveAssignRef(r, s)

RefSpec == RefInit /\ [][RefNext]_refVars

-----------------------------------------------------------------------------
(* Properties                                                               *)

RefTypeOK ==
  /\ refs \subseteq Refs
  /\ entry_ \in [Refs -> Entries \cup {Null}]
  /\ held \subseteq Entries

\* However references are moved, assigned over each other and to themselves,
\* and destroyed, every lock that is held is the business of exactly one of
\* them: none is released twice, none is forgotten.
LockReleasedOnce ==
  /\ held = {entry_[r] : r \in refs} \ {Null}
  /\ \A r, s \in refs : entry_[r] = entry_[s] /\ entry_[r] # Null => r = s
=============================================================================
