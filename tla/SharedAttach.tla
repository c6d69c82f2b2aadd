----------------------------- MODULE SharedAttach -----------------------------
(***************************************************************************)
(* dshash::attach_shared (src/dshash_wrapper.hpp): backends that start at  *)
(* the same time create, once, the dynamic shared area and the hash table  *)
(* in it that HttpCache takes for granted, and publish their handles in a  *)
(* named segment.  A handle is tested without the segment's lock, then     *)
(* again under it.                                                         *)
(*                                                                         *)
(* PostgreSQL's part is modelled from how the wrapper uses it: an area     *)
(* lives while it is pinned or mapped by a process, GetNamedDSMSegment     *)
(* initialises the segment before anybody sees it, and an ERROR, which     *)
(* pg_try turns into an exception, does not release the segment's lock.    *)
(* The two stores to the segment are separate steps, seen in their order:  *)
(* calls into the server stand between them, and between the two loads of  *)
(* a reader, so the compiler keeps the order, and so does x86-64, for      *)
(* which the module is built.                                              *)
(***************************************************************************)
EXTENDS Integers

CONSTANTS
  Processes,  \* backend processes
  Handles,    \* identities of areas; their number bounds failed creations
  Invalid     \* DSA_HANDLE_INVALID, DSHASH_HANDLE_INVALID, no lock holder

ASSUME AttachAssumption == Invalid \notin Handles \cup Processes

VARIABLES
  segment,  \* shared_state: table_handle and area_handle
  holder,   \* the backend that holds the segment's lock
  pinned,   \* areas pinned by dsa_pin
  built,    \* areas that contain a complete hash table
  at,       \* where a backend is in attach_shared
  uses      \* per backend: the area it has mapped and the table it opened

attachVars == <<segment, holder, pinned, built, at, uses>>

Working == {"look", "lock", "recheck", "create", "table", "store", "map",
            "open", "release"}
Ended   == {"attached", "warned", "refused"}
Handle  == Handles \cup {Invalid}
State   == [area : Handle, table : Handle]
Unset   == [area |-> Invalid, table |-> Invalid]

AttachInit ==
  /\ segment = Unset
  /\ holder = Invalid
  /\ pinned = {}
  /\ built = {}
  /\ at = [b \in Processes |-> "out"]
  /\ uses = [b \in Processes |-> Unset]

Goes(b, label) == at' = [at EXCEPT ![b] = label]
Live(h) == h \in pinned \/ \E b \in Processes : uses[b].area = h

\* GetNamedDSMSegment hands out a segment that init_callback has prepared.
AttachShared(b) ==
  /\ at[b] = "out"
  /\ Goes(b, "look")
  /\ UNCHANGED <<segment, holder, pinned, built, uses>>

\* It raises an ERROR, which validate_token reports as a WARNING, or yields
\* no segment, whose dshash_exception validate_token does not survive.
SegmentFails(b) ==
  /\ at[b] = "out"
  /\ \E label \in {"warned", "refused"} : Goes(b, label)
  /\ UNCHANGED <<segment, holder, pinned, built, uses>>

\* The test without the lock.
Look(b) ==
  /\ at[b] = "look"
  /\ Goes(b, IF segment.area = Invalid THEN "lock" ELSE "map")
  /\ UNCHANGED <<segment, holder, pinned, built, uses>>

Lock(b) ==
  /\ at[b] = "lock"
  /\ holder = Invalid
  /\ holder' = b
  /\ Goes(b, "recheck")
  /\ UNCHANGED <<segment, pinned, built, uses>>

\* The test under the lock.
TrustLook(b) ==                          \* faulty: does not look again
  /\ at[b] = "recheck"
  /\ Goes(b, "create")
  /\ UNCHANGED <<segment, holder, pinned, built, uses>>
Recheck(b) ==
  /\ at[b] = "recheck"
  /\ Goes(b, IF segment.area = Invalid THEN "create" ELSE "map")
  /\ UNCHANGED <<segment, holder, pinned, built, uses>>

\* dsa_create, dsa_pin, dsa_pin_mapping
CreateUnpinned(b) ==                     \* faulty: forgets dsa_pin
  /\ at[b] = "create"
  /\ \E h \in {g \in Handles : ~Live(g)} :
       uses' = [uses EXCEPT ![b].area = h]
  /\ Goes(b, "table")
  /\ UNCHANGED <<segment, holder, pinned, built>>
Create(b) ==
  /\ at[b] = "create"
  /\ \E h \in {g \in Handles : ~Live(g)} :
       /\ uses' = [uses EXCEPT ![b].area = h]
       /\ pinned' = pinned \cup {h}
  /\ Goes(b, "table")
  /\ UNCHANGED <<segment, holder, built>>

\* dshash_create
CreateTable(b) ==
  /\ at[b] = "table"
  /\ built' = built \cup {uses[b].area}
  /\ uses' = [uses EXCEPT ![b].table = uses[b].area]
  /\ Goes(b, "store")
  /\ UNCHANGED <<segment, holder, pinned>>

\* The handle that is stored next: table_handle, then area_handle.
AreaFirst(b) ==                          \* faulty: publishes too early
  IF segment.area # uses[b].area THEN "area" ELSE "table"
NextStore(b) == IF segment.table # uses[b].table THEN "table" ELSE "area"

Store(b) ==
  /\ at[b] = "store"
  /\ segment' = [segment EXCEPT ![NextStore(b)] = uses[b].area]
  /\ Goes(b, IF segment' = uses[b] THEN "release" ELSE "store")
  /\ UNCHANGED <<holder, pinned, built, uses>>

\* dsa_attach and dsa_pin_mapping, with or without the lock
Map(b) ==
  /\ at[b] = "map"
  /\ uses' = [uses EXCEPT ![b].area = segment.area]
  /\ Goes(b, "open")
  /\ UNCHANGED <<segment, holder, pinned, built>>

\* The last test: a null pointer makes attach_shared throw a dshash_exception,
\* which validate_token does not survive.
Tested(t) == IF t = Invalid THEN "refused" ELSE "attached"

\* dshash_attach gives the table or a null pointer; whoever came here without
\* the lock has nothing to release.
Open(b) ==
  /\ at[b] = "open"
  /\ \E t \in {segment.table, Invalid} :
       /\ uses' = [uses EXCEPT ![b].table = t]
       /\ Goes(b, IF holder = b THEN "release" ELSE Tested(t))
  /\ UNCHANGED <<segment, holder, pinned, built>>

KeepSegmentLock(b) ==                    \* faulty: a branch without release
  /\ at[b] = "release"
  /\ Goes(b, Tested(uses[b].table))
  /\ UNCHANGED <<segment, holder, pinned, built, uses>>
Release(b) ==
  /\ at[b] = "release"
  /\ holder' = Invalid
  /\ Goes(b, Tested(uses[b].table))
  /\ UNCHANGED <<segment, pinned, built, uses>>

\* An ERROR in a call that allocates or maps memory.  validate_token goes on
\* without a cache; a lock that is held and an area that is mapped stay.
AttachError(b) ==
  /\ at[b] \in {"create", "table", "map", "open"}
  /\ Goes(b, "warned")
  /\ UNCHANGED <<segment, holder, pinned, built, uses>>

\* http_cache::detach and ~dshash unmap; the process leaves and drops its
\* lock, and an area that is neither pinned nor mapped goes with it.
Leave(b) ==
  /\ at[b] \in Ended
  /\ uses' = [uses EXCEPT ![b] = Unset]
  /\ holder' = IF holder = b THEN Invalid ELSE holder
  /\ built' = {h \in built : h \in pinned \/ \E c \in Processes \ {b} : uses[c].area = h}
  /\ Goes(b, "out")
  /\ UNCHANGED <<segment, pinned>>

AttachStep(b) ==
  \/ Look(b) \/ Lock(b) \/ Recheck(b) \/ Create(b) \/ CreateTable(b)
  \/ Store(b) \/ Map(b) \/ Open(b) \/ Release(b)

AttachNext ==
  \E b \in Processes : AttachShared(b) \/ SegmentFails(b) \/ AttachStep(b)
                        \/ AttachError(b) \/ Leave(b)

AttachSpec == AttachInit /\ [][AttachNext]_attachVars

\* A process inside attach_shared runs, and a waiter for the lock is served.
\* That a session ends, or that memory suffices, is not assumed.
LiveAttachSpec ==
  /\ AttachSpec
  /\ \A b \in Processes : /\ WF_attachVars(AttachStep(b) \/ AttachError(b))
                         /\ SF_attachVars(Lock(b))

-----------------------------------------------------------------------------
(* Properties                                                               *)

\* Types; and whoever is between Lock and Release holds the lock.
AttachTypeOK ==
  /\ segment \in State
  /\ holder \in Processes \cup {Invalid}
  /\ pinned \subseteq Handles /\ built \subseteq Handles
  /\ at \in [Processes -> Working \cup Ended \cup {"out"}]
  /\ uses \in [Processes -> State]
  /\ \A b \in Processes :
       at[b] \in {"recheck", "create", "table", "store", "release"} => holder = b

\* All backends that attached, with or without the lock and however their
\* attempts and failures interleaved, share one complete table in an area
\* that they have mapped: the reader that sees area_handle without the lock
\* also sees the table_handle stored before it.
OneTable ==
  \A b \in Processes :
    at[b] = "attached" =>
      /\ uses[b].table \in built
      /\ uses[b].table = uses[b].area
      /\ \A c \in Processes : at[c] = "attached" => uses[c] = uses[b]

\* A published handle refers to an area that holds its table and stays so
\* after its creator, and everyone else, has gone.
PublishedAreaLives ==
  segment.area # Invalid => /\ segment.area \in pinned
                            /\ segment.table = segment.area
                            /\ segment.table \in built

\* Nobody replaces handles that another backend may already have read.
PublishedForGood ==
  [][segment.area # Invalid => segment' = segment]_attachVars

\* attach_shared ends for every backend, unless a backend that met an ERROR
\* under the lock goes on with its session for ever and keeps the lock.
AttachReturnsUnlessKept ==
  ([]<>(holder = Invalid \/ at[holder] # "warned")) =>
     \A b \in Processes : at[b] = "look" ~> at[b] \in Ended

\* A backend that starts to attach comes to an end of it, whatever happens
\* to the others: a login does not hang.
AttachReturns == \A b \in Processes : at[b] = "look" ~> at[b] \in Ended

=============================================================================
