---------------------------- MODULE ServerProofs ----------------------------
(****************************************************************************)
(* Proofs about what the validator does to the server around it: about       *)
(* SharedAttach, for any set of backends and of handles, and about PgTry, for *)
(* any nesting of pg_try, pg_assert_noerror and the PG_TRY of validate_token *)
(* that is left through PG_END_TRY.                                          *)
(*                                                                           *)
(* That readers which never take the lock find one complete table rests on   *)
(* where every backend stands.  Creators are alone, because they hold the    *)
(* lock and because they looked again after they got it; so the handles are  *)
(* unset while a creator works, and readers, which are only where the handles *)
(* are set, see them once and for all.                                       *)
(*                                                                           *)
(* An ERROR jumps to PG_exception_stack.  That this is the innermost frame   *)
(* depends on every value that any frame below has saved, since a frame that *)
(* is left, by value, exception or error, reinstates what it saved.          *)
(****************************************************************************)
EXTENDS MCServer, SequenceTheorems, TLAPS

-----------------------------------------------------------------------------
(* attach_shared: the inductive invariant                                   *)

\* A backend that creates found nothing published, under the lock, and what
\* it has made so far is pinned.
CreatorsWork ==
  \A b \in Processes :
    /\ at[b] \in {"create", "table", "store"} => segment.area = Invalid
    /\ at[b] \in {"table", "store"} => uses[b].area \in pinned
    /\ at[b] = "store" => /\ uses[b].table = uses[b].area
                          /\ uses[b].area \in built

\* A backend that reads the handles is where they are set, and keeps the
\* handles it has read.
ReadersWork ==
  \A b \in Processes :
    /\ at[b] \in {"map", "open", "release", "attached"} => segment.area # Invalid
    /\ at[b] \in {"open", "release"} => uses[b].area = segment.area
    /\ at[b] = "release" => uses[b].table \in {segment.table, Invalid}
    /\ at[b] = "attached" => uses[b] = segment

AttachInv ==
  /\ AttachTypeOK
  /\ CreatorsWork
  /\ ReadersWork
  /\ PublishedAreaLives

-----------------------------------------------------------------------------
(* attach_shared: each step preserves it                                    *)

\* Steps that only move one backend (dshash_wrapper.hpp: entering, the tests
\* of area_handle, an ERROR): the handles, the lock and the areas stay.
LEMMA AttachMovesInv ==
  ASSUME NEW b \in Processes, AttachInv,
         AttachShared(b) \/ SegmentFails(b) \/ Look(b) \/ Recheck(b) \/ AttachError(b)
  PROVE  AttachInv'
<1> USE AttachAssumption
<1>1. /\ UNCHANGED <<segment, holder, pinned, built, uses>>
      /\ at' \in [Processes -> Working \cup Ended \cup {"out"}]
      /\ \A c \in Processes \ {b} : at'[c] = at[c]
  BY DEF AttachInv, AttachTypeOK, AttachShared, SegmentFails, Look, Recheck, AttachError,
         Goes, Working, Ended
<1>2. \/ at'[b] \in {"look", "lock", "warned", "refused"}
      \/ at'[b] = "create" /\ at[b] = "recheck" /\ segment.area = Invalid
      \/ at'[b] = "map" /\ segment.area # Invalid
  BY DEF AttachInv, AttachTypeOK, AttachShared, SegmentFails, Look, Recheck, AttachError, Goes
<1>3. AttachTypeOK'
  BY <1>1, <1>2 DEF AttachInv, AttachTypeOK
<1>4. CreatorsWork'
  BY <1>1, <1>2 DEF AttachInv, CreatorsWork
<1>5. ReadersWork'
  BY <1>1, <1>2 DEF AttachInv, ReadersWork
<1>6. PublishedAreaLives'
  BY <1>1 DEF AttachInv, PublishedAreaLives
<1> QED
  BY <1>3, <1>4, <1>5, <1>6 DEF AttachInv

\* LWLockAcquire and LWLockRelease of the segment's lock.
LEMMA LockingInv ==
  ASSUME NEW b \in Processes, AttachInv, Lock(b) \/ Release(b)
  PROVE  AttachInv'
<1> USE AttachAssumption
<1>1. AttachTypeOK'
  BY DEF AttachInv, AttachTypeOK, Lock, Release, Tested, Goes, Working, Ended
<1>2. CreatorsWork'
  BY DEF AttachInv, AttachTypeOK, CreatorsWork, Lock, Release, Tested, Goes
<1>3. ReadersWork'
  BY DEF AttachInv, AttachTypeOK, State, ReadersWork, Lock, Release, Tested, Goes
<1>4. PublishedAreaLives'
  BY DEF AttachInv, PublishedAreaLives, Lock, Release
<1> QED
  BY <1>1, <1>2, <1>3, <1>4 DEF AttachInv

\* dsa_create and dsa_pin
LEMMA CreateInv ==
  ASSUME NEW b \in Processes, AttachInv, Create(b)
  PROVE  AttachInv'
<1> USE AttachAssumption
<1> PICK h \in Handles : /\ uses' = [uses EXCEPT ![b].area = h]
                         /\ pinned' = pinned \cup {h}
  BY DEF Create
<1>1. AttachTypeOK'
  BY DEF AttachInv, AttachTypeOK, State, Handle, Create, Goes, Working, Ended
<1>2. CreatorsWork'
  BY DEF AttachInv, AttachTypeOK, State, CreatorsWork, Create, Goes
<1>3. ReadersWork'
  BY DEF AttachInv, AttachTypeOK, State, ReadersWork, Create, Goes
<1>4. PublishedAreaLives'
  BY DEF AttachInv, PublishedAreaLives, Create
<1> QED
  BY <1>1, <1>2, <1>3, <1>4 DEF AttachInv

\* dshash_create
LEMMA CreateTableInv ==
  ASSUME NEW b \in Processes, AttachInv, CreateTable(b)
  PROVE  AttachInv'
<1> USE AttachAssumption
<1>1. AttachTypeOK'
  BY DEF AttachInv, AttachTypeOK, CreatorsWork, State, Handle, CreateTable, Goes, Working, Ended
<1>2. CreatorsWork'
  BY DEF AttachInv, AttachTypeOK, State, CreatorsWork, CreateTable, Goes
<1>3. ReadersWork'
  BY DEF AttachInv, AttachTypeOK, State, ReadersWork, CreateTable, Goes
<1>4. PublishedAreaLives'
  BY DEF AttachInv, PublishedAreaLives, CreateTable
<1> QED
  BY <1>1, <1>2, <1>3, <1>4 DEF AttachInv

\* The two stores.  The creator is the only one at work: another creator
\* would hold the lock too, and a reader would have found the handle set.
LEMMA StoreInv ==
  ASSUME NEW b \in Processes, AttachInv, Store(b)
  PROVE  AttachInv'
<1> USE AttachAssumption
<1>1. /\ at[b] = "store" /\ holder = b
      /\ segment.area = Invalid /\ segment \in State
      /\ uses[b] \in State /\ uses[b].table = uses[b].area
      /\ uses[b].area \in pinned \cap built /\ uses[b].area \in Handles
  BY DEF AttachInv, AttachTypeOK, CreatorsWork, Store
<1>2. \A c \in Processes \ {b} :
        at[c] \notin {"create", "table", "store", "map", "open", "release", "attached"}
  BY <1>1 DEF AttachInv, AttachTypeOK, CreatorsWork, ReadersWork
<1>3. \/ segment' = [segment EXCEPT !.table = uses[b].area] /\ Goes(b, "store")
      \/ segment' = uses[b] /\ Goes(b, "release")
  <2>1. CASE segment.table # uses[b].table
    <3>1. segment' = [segment EXCEPT !.table = uses[b].area]
      BY <2>1 DEF Store, NextStore
    <3>2. segment' # uses[b]
      BY <1>1, <3>1 DEF State
    <3> QED
      BY <3>1, <3>2 DEF Store
  <2>2. CASE segment.table = uses[b].table
    <3>1. segment' = [segment EXCEPT !.area = uses[b].area]
      BY <2>2 DEF Store, NextStore
    <3>2. segment' = uses[b]
      BY <1>1, <2>2, <3>1 DEF State
    <3> QED
      BY <3>2 DEF Store
  <2> QED
    BY <2>1, <2>2
<1>4. UNCHANGED <<holder, pinned, built, uses>>
  BY DEF Store
<1>5. AttachTypeOK'
  BY <1>1, <1>3, <1>4 DEF AttachInv, AttachTypeOK, State, Handle, Goes, Working, Ended
<1>6. CreatorsWork'
  BY <1>1, <1>2, <1>3, <1>4 DEF AttachInv, AttachTypeOK, CreatorsWork, State, Goes
<1>7. ReadersWork'
  BY <1>1, <1>2, <1>3, <1>4 DEF AttachInv, AttachTypeOK, ReadersWork, State, Goes
<1>8. PublishedAreaLives'
  BY <1>1, <1>3, <1>4 DEF PublishedAreaLives, State
<1> QED
  BY <1>5, <1>6, <1>7, <1>8 DEF AttachInv

\* dsa_attach and dshash_attach
LEMMA ReadInv ==
  ASSUME NEW b \in Processes, AttachInv, Map(b) \/ Open(b)
  PROVE  AttachInv'
<1> USE AttachAssumption
<1>1. AttachTypeOK'
  BY DEF AttachInv, AttachTypeOK, State, Handle, Map, Open, Tested, Goes, Working, Ended
<1>2. CreatorsWork'
  BY DEF AttachInv, AttachTypeOK, State, CreatorsWork, ReadersWork, Map, Open, Tested, Goes
<1>3. ReadersWork'
  BY DEF AttachInv, AttachTypeOK, State, ReadersWork, Map, Open, Tested, Goes
<1>4. PublishedAreaLives'
  BY DEF AttachInv, PublishedAreaLives, Map, Open
<1> QED
  BY <1>1, <1>2, <1>3, <1>4 DEF AttachInv

\* http_cache::detach: what is pinned does not go with its creator.
LEMMA LeaveInv ==
  ASSUME NEW b \in Processes, AttachInv, Leave(b)
  PROVE  AttachInv'
<1> USE AttachAssumption
<1>1. built' \subseteq built /\ built \cap pinned \subseteq built'
  BY DEF Leave
<1>2. AttachTypeOK'
  BY <1>1 DEF AttachInv, AttachTypeOK, State, Handle, Unset, Leave, Goes, Working, Ended
<1>3. CreatorsWork'
  BY <1>1 DEF AttachInv, AttachTypeOK, CreatorsWork, Leave, Goes
<1>4. ReadersWork'
  BY DEF AttachInv, AttachTypeOK, ReadersWork, Leave, Goes
<1>5. PublishedAreaLives'
  BY <1>1 DEF AttachInv, PublishedAreaLives, Leave
<1> QED
  BY <1>2, <1>3, <1>4, <1>5 DEF AttachInv

\* All steps together.
LEMMA AttachNextInv == AttachInv /\ [AttachNext]_attachVars => AttachInv'
<1> SUFFICES ASSUME AttachInv, [AttachNext]_attachVars
             PROVE  AttachInv'
  OBVIOUS
<1>1. CASE AttachNext
  <2> PICK b \in Processes : \/ AttachShared(b) \/ SegmentFails(b) \/ AttachStep(b)
                            \/ AttachError(b) \/ Leave(b)
    BY <1>1 DEF AttachNext
  <2> QED
    BY AttachMovesInv, LockingInv, CreateInv, CreateTableInv, StoreInv, ReadInv, LeaveInv
    DEF AttachStep
<1>2. CASE UNCHANGED attachVars
  BY <1>2 DEF AttachInv, AttachTypeOK, CreatorsWork, ReadersWork, PublishedAreaLives, attachVars
<1> QED
  BY <1>1, <1>2

\* Nothing is published and nobody is inside attach_shared.
LEMMA AttachInitInv == AttachInit => AttachInv
BY AttachAssumption
DEF AttachInit, AttachInv, AttachTypeOK, CreatorsWork, ReadersWork, PublishedAreaLives,
    State, Handle, Unset, Working, Ended

\* Hence the invariant holds at all times.
LEMMA AttachInductive == AttachSpec => []AttachInv
BY AttachInitInv, AttachNextInv, PTL DEF AttachSpec

-----------------------------------------------------------------------------
(* attach_shared: theorems                                                  *)

\* attach_shared keeps its variables well-typed, and between LWLockAcquire
\* and LWLockRelease (dshash_wrapper.hpp:160-180) a backend holds the lock.
THEOREM AttachTypes == AttachSpec => []AttachTypeOK
BY AttachInductive, PTL DEF AttachInv

\* Handles that a backend can see without the lock (dshash_wrapper.hpp:159)
\* lead to a complete table in an area that outlives its creator.
THEOREM PublishedLives == AttachSpec => []PublishedAreaLives
BY AttachInductive, PTL DEF AttachInv

\* All backends that attach_shared let through, on the path with the lock
\* or on the one without, use one and the same complete table.
THEOREM TableShared == AttachSpec => []OneTable
<1>1. AttachInv => OneTable
  BY DEF AttachInv, ReadersWork, PublishedAreaLives, OneTable
<1> QED
  BY <1>1, AttachInductive, PTL

\* The handles are stored once: no step of any backend, error paths and
\* departures included, changes handles that are published.
THEOREM HandlesForGood == AttachSpec => PublishedForGood
<1>1. AttachInv /\ [AttachNext]_attachVars
        => [segment.area # Invalid => segment' = segment]_attachVars
  BY DEF AttachInv, CreatorsWork, AttachNext, AttachStep, AttachShared, SegmentFails, Look,
         Lock, Recheck, Create, CreateTable, Store, Map, Open, Tested, Release, AttachError,
         Leave, attachVars
<1> QED
  BY <1>1, AttachInductive, PTL DEF AttachSpec, PublishedForGood

-----------------------------------------------------------------------------
(* pg_try: the inductive invariant                                          *)

\* Each frame has saved the frame below it, and the context of its caller.
FramesNest ==
  \A i \in 1..Depth : frames[i].saved = i - 1 /\ frames[i].context = "session"

\* In PG_CATCH the frame is still there, and the frame below handles errors.
CatchBelow == mode = "catch" => Depth > 0 /\ handler = Depth - 1

TryInv ==
  /\ TryTypeOK
  /\ FramesNest
  /\ CatchBelow
  /\ HandlerInnermost
  /\ NoErrorRemains

-----------------------------------------------------------------------------
(* pg_try: facts about the operators on frames                              *)

\* The frames below one that is left, or that an error jumps to.
LEMMA Below ==
  ASSUME TryInv, NEW n \in 0..Depth
  PROVE  /\ SubSeq(frames, 1, n) \in Seq(Frame)
         /\ Len(SubSeq(frames, 1, n)) = n
         /\ \A i \in 1..n : SubSeq(frames, 1, n)[i] = frames[i]
BY SubSeqProperties DEF TryInv, TryTypeOK, Depth

\* Pop leaves the frames below; the value that the top frame saved is then
\* the innermost frame.
LEMMA PopInv ==
  ASSUME TryInv, Pop, Depth > 0
  PROVE  /\ frames' \in Seq(Frame) /\ Depth' = Depth - 1 /\ Depth' \in 0..MaxDepth
         /\ FramesNest'
         /\ Top.saved = Depth' /\ Top.context = "session"
<1>1. Depth \in Nat /\ MaxDepth \in Nat /\ Depth <= MaxDepth /\ Depth - 1 \in 0..Depth
  BY TryAssumption DEF TryInv, TryTypeOK, Depth
<1>2. /\ frames' \in Seq(Frame) /\ Len(frames') = Depth - 1
      /\ \A i \in 1..(Depth - 1) : frames'[i] = frames[i]
  BY <1>1, Below DEF Pop
<1>3. Depth' = Depth - 1
  BY <1>2 DEF Depth
<1>4. FramesNest'
  <2> SUFFICES ASSUME NEW i \in 1..(Depth - 1)
               PROVE  frames'[i].saved = i - 1 /\ frames'[i].context = "session"
    BY <1>3 DEF FramesNest
  <2>1. i \in 1..Depth /\ frames'[i] = frames[i]
    BY <1>1, <1>2
  <2> QED
    BY <2>1 DEF TryInv, FramesNest
<1>5. Top.saved = Depth - 1 /\ Top.context = "session"
  BY <1>1 DEF TryInv, FramesNest, Top
<1> QED
  BY <1>1, <1>2, <1>3, <1>4, <1>5

\* ereport(ERROR) finds a frame of this backend, or none at all.
LEMMA JumpInv ==
  ASSUME TryInv, Jump, mode \in {"run", "throw", "returned", "catch"}
  PROVE  TryInv'
<1> USE TryAssumption
<1>1. /\ Depth \in Nat /\ Depth <= MaxDepth /\ handler \in 0..Depth
      /\ errors \in Nat /\ frames \in Seq(Frame)
  BY DEF TryInv, TryTypeOK, CatchBelow, HandlerInnermost, Depth
<1>2. errors' \in Nat /\ context' = "error"
  BY <1>1 DEF Jump
<1>3. CASE handler = 0
  <2>1. mode' = "exited" /\ UNCHANGED <<frames, handler>>
    BY <1>3 DEF Jump
  <2> QED
    BY <1>1, <1>2, <2>1 DEF TryInv, TryTypeOK, FramesNest, CatchBelow, HandlerInnermost,
                            NoErrorRemains, Depth
<1>4. CASE handler # 0
  <2>1. /\ mode' = "catch"
        /\ frames' = SubSeq(frames, 1, handler)
        /\ handler' = frames[handler].saved
    BY <1>1, <1>4 DEF Jump
  <2>2. /\ frames' \in Seq(Frame) /\ Len(frames') = handler
        /\ \A i \in 1..handler : frames'[i] = frames[i]
    BY <1>1, <2>1, Below
  <2>3. handler' = handler - 1
    BY <1>1, <1>4, <2>1 DEF TryInv, FramesNest
  <2>4. Depth' = handler
    BY <2>2 DEF Depth
  <2>5. TryTypeOK'
    BY <1>1, <1>2, <1>4, <2>1, <2>2, <2>3, <2>4 DEF TryTypeOK
  <2>6. FramesNest'
    BY <1>1, <2>2, <2>4 DEF TryInv, FramesNest
  <2> QED
    BY <1>1, <1>4, <2>1, <2>3, <2>4, <2>5, <2>6
    DEF TryInv, CatchBelow, HandlerInnermost, NoErrorRemains
<1> QED
  BY <1>3, <1>4

-----------------------------------------------------------------------------
(* pg_try: each step preserves the invariant                                *)

\* PG_TRY
LEMMA EnterInv ==
  ASSUME NEW kind \in Kinds, TryInv, Enter(kind)
  PROVE  TryInv'
<1> USE TryAssumption
<1> DEFINE f == [kind |-> kind, saved |-> handler, context |-> context]
<1>1. /\ Depth \in Nat /\ Depth < MaxDepth /\ frames \in Seq(Frame)
      /\ mode \in {"run", "throw", "returned"}
      /\ handler = Depth /\ errors = 0 /\ context = "session"
  BY DEF TryInv, TryTypeOK, HandlerInnermost, NoErrorRemains, Enter, Depth
<1>2. f \in Frame
  BY <1>1 DEF Frame
<1>3. /\ frames' \in Seq(Frame) /\ Len(frames') = Depth + 1
      /\ \A i \in 1..Depth : frames'[i] = frames[i]
      /\ frames'[Depth + 1] = f
  BY <1>1, <1>2, AppendProperties DEF Enter, Depth
<1>4. /\ Depth' = Depth + 1 /\ handler' = Depth + 1
      /\ UNCHANGED <<errors, context, mode>>
  BY <1>3 DEF Enter, Depth
<1>5. TryTypeOK'
  BY <1>1, <1>3, <1>4 DEF TryInv, TryTypeOK
<1>6. FramesNest'
  BY <1>1, <1>3, <1>4 DEF TryInv, FramesNest
<1> QED
  BY <1>1, <1>4, <1>5, <1>6 DEF TryInv, CatchBelow, HandlerInnermost, NoErrorRemains

\* PG_END_TRY after a value, in pg_try after an exception, and in a
\* destructor: the handler is the one the frame saved.
LEMMA EndInv ==
  ASSUME TryInv, EndTry \/ Rethrow \/ EndDestructor
  PROVE  TryInv'
<1>1. /\ Depth > 0 /\ Pop /\ handler' = Top.saved
      /\ mode \in {"run", "throw", "returned"}
      /\ UNCHANGED <<errors, context, mode>>
  BY DEF EndTry, Rethrow, EndDestructor
<1>2. /\ frames' \in Seq(Frame) /\ Depth' \in 0..MaxDepth
      /\ handler' = Depth' /\ FramesNest'
  BY <1>1, PopInv
<1>3. TryTypeOK'
  BY <1>1, <1>2, TryAssumption DEF TryInv, TryTypeOK
<1> QED
  BY <1>1, <1>2, <1>3 DEF TryInv, CatchBelow, HandlerInnermost, NoErrorRemains

\* PG_CATCH of pg_try: the record is flushed, the context switched back.
LEMMA CatchErrorInv ==
  ASSUME TryInv, CatchError
  PROVE  TryInv'
<1>1. /\ Depth > 0 /\ Pop /\ handler = Depth - 1 /\ handler' = handler
      /\ context' = Top.context /\ errors' = 0 /\ mode' = "throw"
  BY DEF TryInv, CatchBelow, CatchError
<1>2. /\ frames' \in Seq(Frame) /\ Depth' = Depth - 1 /\ Depth' \in 0..MaxDepth
      /\ FramesNest' /\ context' = "session"
  BY <1>1, PopInv
<1>3. TryTypeOK'
  BY <1>1, <1>2, TryAssumption DEF TryInv, TryTypeOK
<1> QED
  BY <1>1, <1>2, <1>3 DEF TryInv, CatchBelow, HandlerInnermost, NoErrorRemains

\* Steps that only move control between the modes.
LEMMA MovesInv ==
  ASSUME TryInv, ThrowException \/ CatchFatal \/ Survive \/ ReturnToServer
  PROVE  TryInv'
BY DEF TryInv, TryTypeOK, FramesNest, CatchBelow, HandlerInnermost, NoErrorRemains,
       Depth, ThrowException, CatchFatal, Survive, ReturnToServer

\* All steps together.
LEMMA TryNextInv == TryInv /\ [TryNext]_tryVars => TryInv'
<1> SUFFICES ASSUME TryInv, [TryNext]_tryVars
             PROVE  TryInv'
  OBVIOUS
<1>1. CASE TryNext
  <2>1. CASE \E kind \in Kinds : Enter(kind)
    BY <2>1, EnterInv
  <2>2. CASE Raise \/ DestructorRaises \/ CatchRaises
    BY <2>2, JumpInv DEF Raise, DestructorRaises, CatchRaises
  <2> QED
    BY <1>1, <2>1, <2>2, EndInv, CatchErrorInv, MovesInv DEF TryNext
<1>2. CASE UNCHANGED tryVars
  BY <1>2 DEF TryInv, TryTypeOK, FramesNest, CatchBelow, HandlerInnermost,
              NoErrorRemains, Depth, tryVars
<1> QED
  BY <1>1, <1>2

\* validate_token starts without a frame and without an error.
LEMMA TryInitInv == TryInit => TryInv
BY TryAssumption
DEF TryInit, TryInv, TryTypeOK, FramesNest, CatchBelow, HandlerInnermost, NoErrorRemains,
    Depth

\* Hence the invariant holds at all times.
LEMMA TryInductive == TrySpec => []TryInv
BY TryInitInv, TryNextInv, PTL DEF TrySpec

-----------------------------------------------------------------------------
(* pg_try: theorems                                                         *)

\* No path through pg_try and pg_assert_noerror (pg_utils.hpp) ends in a jump
\* to a buffer whose frame is gone.
THEOREM TryTypes == TrySpec => []TryTypeOK
BY TryInductive, PTL DEF TryInv

\* At any nesting of pg_try and destructors PG_exception_stack is the buffer
\* of the innermost frame while C++ code runs or unwinds.
THEOREM InnermostHandles == TrySpec => []HandlerInnermost
BY TryInductive, PTL DEF TryInv

\* An ERROR that pg_try turned into an exception leaves no record and no
\* foreign memory context behind.
THEOREM ErrorsFlushed == TrySpec => []NoErrorRemains
BY TryInductive, PTL DEF TryInv

-----------------------------------------------------------------------------
(* entry_ref                                                                *)

RefInv == RefTypeOK /\ LockReleasedOnce

\* No object, no lock.
LEMMA RefInitInv == RefInit => RefInv
BY DEF RefInit, RefInv, RefTypeOK, LockReleasedOnce

\* find and find_or_insert: the lock is new, and so is its reference.
LEMMA ConstructInv ==
  ASSUME NEW r \in Refs, NEW e \in Entries, RefInv, Construct(r, e)
  PROVE  RefInv'
BY RefAssumption DEF RefInv, RefTypeOK, LockReleasedOnce, Construct

\* The moves hand the lock on.  What the target referred to is released; no
\* other reference has it.
LEMMA MoveInv ==
  ASSUME NEW r \in Refs, NEW s \in Refs, RefInv,
         MoveConstructRef(r, s) \/ MoveAssignRef(r, s)
  PROVE  RefInv'
<1>1. CASE MoveConstructRef(r, s)
  BY <1>1, RefAssumption DEF RefInv, RefTypeOK, LockReleasedOnce, MoveConstructRef
<1>2. CASE MoveAssignRef(r, s) /\ r = s
  BY <1>2 DEF RefInv, RefTypeOK, LockReleasedOnce, MoveAssignRef
<1>3. CASE MoveAssignRef(r, s) /\ r # s
  BY <1>3, RefAssumption DEF RefInv, RefTypeOK, LockReleasedOnce, MoveAssignRef, Unlocked
<1> QED
  BY <1>1, <1>2, <1>3

\* The destructor.
LEMMA DestroyInv ==
  ASSUME NEW r \in Refs, RefInv, Destroy(r)
  PROVE  RefInv'
BY RefAssumption DEF RefInv, RefTypeOK, LockReleasedOnce, Destroy, Unlocked

\* All steps together.
LEMMA RefNextInv == RefInv /\ [RefNext]_refVars => RefInv'
<1> SUFFICES ASSUME RefInv, [RefNext]_refVars PROVE RefInv'
  OBVIOUS
<1>1. CASE RefNext
  BY <1>1, ConstructInv, MoveInv, DestroyInv DEF RefNext
<1>2. CASE UNCHANGED refVars
  BY <1>2 DEF RefInv, RefTypeOK, LockReleasedOnce, refVars
<1> QED
  BY <1>1, <1>2

\* Through all moves, assignments and destructions of entry_ref objects
\* (dshash_wrapper.hpp:66-98) each lock that is held is released by exactly
\* one of them.
THEOREM LocksReleasedOnce == RefSpec => []LockReleasedOnce
BY RefInitInv, RefNextInv, PTL DEF RefSpec, RefInv

-----------------------------------------------------------------------------
(* Together                                                                 *)

\* None of them disturbs another: whatever a backend is at, the types hold,
\* a backend between LWLockAcquire and LWLockRelease holds the lock
\* (dshash_wrapper.hpp:160-180), and no ERROR jumps into a frame that is gone
\* (pg_utils.hpp).
THEOREM ServerTypes == ServerSpec => []ServerTypeOK
<1>1. ServerInit => AttachInv /\ RefInv /\ TryInv
  BY AttachInitInv, RefInitInv, TryInitInv DEF ServerInit
<1>2. ASSUME AttachInv, RefInv, TryInv, [ServerNext]_serverVars
      PROVE  AttachInv' /\ RefInv' /\ TryInv'
  <2>1. [AttachNext]_attachVars /\ [RefNext]_refVars /\ [TryNext]_tryVars
    BY <1>2 DEF ServerNext, OfCache, OfAttach, serverVars
  <2> QED
    BY <1>2, <2>1, AttachNextInv, RefNextInv, TryNextInv
<1>3. AttachInv /\ RefInv /\ TryInv => ServerTypeOK
  BY DEF AttachInv, RefInv, TryInv, ServerTypeOK
<1> QED
  BY <1>1, <1>2, <1>3, PTL DEF ServerSpec
=============================================================================
