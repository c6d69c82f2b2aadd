---------------------------- MODULE OpenSslProofs ----------------------------
(***************************************************************************)
(* Proofs about the library's ownership of OpenSSL objects: key handles    *)
(* (KeyHandle), for any sets of handles and keys, and functions that call  *)
(* OpenSSL (ErrorCodeCalls), for any functions that keep the conventions.  *)
(*                                                                         *)
(* Handles.  The counter and the set of owners change in different places: *)
(* a handle passes a key on, or drops one, and the owners of two keys      *)
(* change at once.  The lemmas say by how much the number of owners of any *)
(* key changes when one handle is constructed, changed or destroyed; what  *)
(* is left of each operation is a sum.  A counter that comes to zero just  *)
(* before it is counted up again would leave a handle with a freed key: by *)
(* the invariant that is so only when a sole owner is assigned its own key.*)
(*                                                                         *)
(* Calls.  Level says from the table alone how many owners an object has   *)
(* before a step; the invariant ties the counts to it, asks for one owner  *)
(* each in every function that waits for another, and says where the       *)
(* running function can be when something has failed (about to return or   *)
(* to throw) or when an old error code is still there (before its clear,   *)
(* or throughout a function that keeps it).                                *)
(***************************************************************************)
EXTENDS KeyHandle, ErrorCodeCalls, FiniteSetTheorems, TLAPS

-----------------------------------------------------------------------------
(* Key handles: the inductive invariant                                     *)

\* Only finitely many handles are ever alive, as each step constructs one.
HandleTypeOK ==
  /\ alive \subseteq Handles /\ IsFiniteSet(alive)
  /\ mkey \in [Handles -> Keys \cup {NoKey}]
  /\ refs \in [Keys -> Int]
  /\ raw \subseteq Keys
  /\ dangling \subseteq alive

IInv == HandleTypeOK /\ OwnersCounted

-----------------------------------------------------------------------------
(* Counting owners                                                          *)

\* The number of the handles in live that hold key k when f is m_key, and
\* what one handle contributes to it.
Held(live, f, k) == Cardinality({h \in live : f[h] = k})
One(key, k) == IF key = k THEN 1 ELSE 0

\* A number of owners is a number.
LEMMA HeldType ==
  ASSUME NEW live, IsFiniteSet(live), NEW f, NEW k
  PROVE  Held(live, f, k) \in Nat
<1>1. IsFiniteSet({h \in live : f[h] = k})
  BY FS_Subset, {h \in live : f[h] = k} \subseteq live
<1> QED
  BY <1>1, FS_CardinalityType DEF Held

\* A handle is constructed: m_key was f and is now g.
LEMMA HeldBorn ==
  ASSUME NEW live, IsFiniteSet(live), NEW h, h \notin live, NEW k,
         NEW f, NEW g, \A x \in live : g[x] = f[x]
  PROVE  Held(live \cup {h}, g, k) = Held(live, f, k) + One(g[h], k)
<1> DEFINE S == {x \in live : f[x] = k}
           T == {x \in live \cup {h} : g[x] = k}
<1>1. IsFiniteSet(S) /\ h \notin S /\ Cardinality(S) \in Nat
  BY FS_Subset, FS_CardinalityType, S \subseteq live
<1>2. Held(live, f, k) = Cardinality(S) /\ Held(live \cup {h}, g, k) = Cardinality(T)
  BY DEF Held
<1>3. T = IF g[h] = k THEN S \cup {h} ELSE S
  OBVIOUS
<1> HIDE DEF S, T
<1>4. Cardinality(S \cup {h}) = Cardinality(S) + 1
  BY <1>1, FS_AddElement
<1> QED
  BY <1>1, <1>2, <1>3, <1>4 DEF One

\* A handle is destroyed.
LEMMA HeldGone ==
  ASSUME NEW live, IsFiniteSet(live), NEW h \in live, NEW k,
         NEW f, NEW g, \A x \in live \ {h} : g[x] = f[x]
  PROVE  Held(live \ {h}, g, k) = Held(live, f, k) - One(f[h], k)
<1> DEFINE rest == live \ {h}
<1>1. /\ IsFiniteSet(rest) /\ h \notin rest /\ rest \cup {h} = live
      /\ \A x \in rest : f[x] = g[x]
  BY FS_RemoveElement
<1> HIDE DEF rest
<1>2. Held(rest, g, k) \in Nat
  BY <1>1, HeldType
<1>3. Held(rest \cup {h}, f, k) = Held(rest, g, k) + One(f[h], k)
  BY <1>1, HeldBorn
<1>4. Held(live, f, k) = Held(rest, g, k) + One(f[h], k) /\ One(f[h], k) \in Nat
  BY <1>1, <1>3 DEF One
<1>5. Held(rest, g, k) = Held(live, f, k) - One(f[h], k)
  BY <1>2, <1>4
<1> QED
  BY <1>5 DEF rest

\* A handle gets another key: as if it were destroyed and constructed.
LEMMA HeldChanged ==
  ASSUME NEW live, IsFiniteSet(live), NEW h \in live, NEW k,
         NEW f, NEW g, \A x \in live \ {h} : g[x] = f[x]
  PROVE  Held(live, g, k) = Held(live, f, k) - One(f[h], k) + One(g[h], k)
<1> DEFINE rest == live \ {h}
<1>1. IsFiniteSet(rest) /\ h \notin rest /\ rest \cup {h} = live
  BY FS_RemoveElement
<1>2. Held(rest, g, k) = Held(live, f, k) - One(f[h], k)
  BY HeldGone
<1> HIDE DEF rest
<1>3. Held(rest \cup {h}, g, k) = Held(rest, g, k) + One(g[h], k)
  BY <1>1, HeldBorn
<1> QED
  BY <1>1, <1>2, <1>3

\* A raw pointer counts once.
LEMMA RawCount ==
  ASSUME NEW S, NEW k
  PROVE  Cardinality(S \cap {k}) = IF k \in S THEN 1 ELSE 0
<1>1. CASE k \in S
  BY <1>1, FS_Singleton, S \cap {k} = {k}
<1>2. CASE k \notin S
  BY <1>2, FS_EmptySet, S \cap {k} = {}
<1> QED
  BY <1>1, <1>2

\* The property in these terms.
LEMMA Counted ==
  HandleTypeOK =>
    (OwnersCounted <=>
       \A k \in Keys :
         refs[k] = Held(alive \ dangling, mkey, k) + (IF k \in raw THEN 1 ELSE 0))
BY RawCount DEF OwnersCounted, Held

\* The counter after decrement_ref_count and increment_ref_count.
LEMMA ChangedCount ==
  ASSUME NEW count \in [Keys -> Int], NEW key
  PROVE  /\ Decremented(count, key) \in [Keys -> Int]
         /\ Incremented(count, key) \in [Keys -> Int]
         /\ \A k \in Keys : /\ Decremented(count, key)[k] = count[k] - One(key, k)
                            /\ Incremented(count, key)[k] = count[k] + One(key, k)
BY DEF Decremented, Incremented, Changed, One

\* A key that is held has owners.
LEMMA HeldSome ==
  ASSUME NEW live, IsFiniteSet(live), NEW h \in live, NEW f
  PROVE  Held(live, f, f[h]) > 0
<1> DEFINE S == {x \in live : f[x] = f[h]}
<1>1. IsFiniteSet(S) /\ S # {}
  BY FS_Subset, S \subseteq live
<1>2. Cardinality(S) \in Nat /\ Cardinality(S) # 0
  BY <1>1, FS_CardinalityType, FS_EmptySet
<1>3. Held(live, f, f[h]) = Cardinality(S)
  BY DEF Held
<1> HIDE DEF S
<1> QED
  BY <1>2, <1>3

\* A key that is held has references, and more than one if two hold it.
LEMMA HeldReferences ==
  ASSUME IInv, dangling = {}, NEW g \in alive, mkey[g] \in Keys
  PROVE  /\ refs[mkey[g]] > 0
         /\ \A h \in alive \ {g} : mkey[h] = mkey[g] => refs[mkey[g]] > 1
<1> DEFINE k == mkey[g]
           extra == IF k \in raw THEN 1 ELSE 0
<1>1. IsFiniteSet(alive) /\ alive \ dangling = alive /\ refs[k] \in Int
  BY DEF IInv, HandleTypeOK
<1>2. refs[k] = Held(alive, mkey, k) + extra /\ extra \in {0, 1}
  BY <1>1, Counted DEF IInv
<1>3. Held(alive, mkey, k) > 0 /\ Held(alive, mkey, k) \in Nat
  BY <1>1, HeldSome, HeldType
<1>4. ASSUME NEW h \in alive \ {g}, mkey[h] = k PROVE refs[k] > 1
  <2>1. IsFiniteSet(alive \ {h}) /\ g \in alive \ {h}
    BY <1>1, <1>4, FS_RemoveElement
  <2>2. Held(alive \ {h}, mkey, k) > 0 /\ Held(alive \ {h}, mkey, k) \in Nat
    BY <2>1, HeldSome, HeldType
  <2>3. Held(alive \ {h}, mkey, k) = Held(alive, mkey, k) - 1
    BY <1>1, <1>4, HeldGone DEF One
  <2> HIDE DEF extra, k
  <2> QED
    BY <1>2, <1>3, <2>2, <2>3
<1>5. refs[k] > 0
  <2> HIDE DEF extra, k
  <2> QED
    BY <1>2, <1>3
<1> QED
  BY <1>4, <1>5

\* So neither a copy nor a copy assignment counts up a key that is freed.
LEMMA CopyCounts ==
  ASSUME IInv, dangling = {}, NEW h \in Handles, NEW g \in Handles
  PROVE  /\ CopyConstruct(h, g) => refs' = Incremented(refs, mkey[g]) /\ dangling' = {}
         /\ CopyAssign(h, g) =>
              /\ refs' = Incremented(Decremented(refs, mkey[h]), mkey[g])
              /\ dangling' = {}
<1>1. ASSUME CopyConstruct(h, g)
      PROVE  refs' = Incremented(refs, mkey[g]) /\ dangling' = {}
  <2>1. ~(mkey[g] \in Keys /\ refs[mkey[g]] = 0)
    BY <1>1, HeldReferences DEF CopyConstruct
  <2> QED
    BY <1>1, <2>1 DEF CopyConstruct, Increment
<1>2. ASSUME CopyAssign(h, g)
      PROVE  refs' = Incremented(Decremented(refs, mkey[h]), mkey[g]) /\ dangling' = {}
  <2>1. /\ g \in alive /\ h \in alive \ {g}
        /\ Increment(h, mkey[g], Decremented(refs, mkey[h]))
    BY <1>2 DEF CopyAssign
  <2>2. ~(mkey[g] \in Keys /\ Decremented(refs, mkey[h])[mkey[g]] = 0)
    <3> SUFFICES ASSUME mkey[g] \in Keys PROVE Decremented(refs, mkey[h])[mkey[g]] # 0
      OBVIOUS
    <3>1. /\ refs \in [Keys -> Int]
          /\ Decremented(refs, mkey[h])[mkey[g]] = refs[mkey[g]] - One(mkey[h], mkey[g])
      BY ChangedCount DEF IInv, HandleTypeOK
    <3>2. /\ refs[mkey[g]] > 0
          /\ mkey[h] = mkey[g] => refs[mkey[g]] > 1
      BY <2>1, HeldReferences
    <3> QED
      BY <3>1, <3>2 DEF One
  <2> QED
    BY <2>1, <2>2 DEF Increment
<1> QED
  BY <1>1, <1>2

-----------------------------------------------------------------------------
(* Each operation preserves the invariant                                   *)

\* The invariant after a step that changes the counters by what it changes
\* the owners.
LEMMA SumsIInv ==
  ASSUME IInv, HandleTypeOK', dangling = {},
         \A k \in Keys : refs'[k] - refs[k]
           = Held(alive' \ dangling', mkey', k) - Held(alive, mkey, k)
               + (IF k \in raw' THEN 1 ELSE 0) - (IF k \in raw THEN 1 ELSE 0)
  PROVE  IInv'
<1> SUFFICES OwnersCounted'
  BY DEF IInv
<1> DEFINE live == alive' \ dangling'
<1> SUFFICES ASSUME NEW k \in Keys
             PROVE  refs'[k] = Held(live, mkey', k) + (IF k \in raw' THEN 1 ELSE 0)
  BY RawCount DEF OwnersCounted, Held
<1>1. refs[k] = Held(alive, mkey, k) + (IF k \in raw THEN 1 ELSE 0)
  <2>1. alive \ dangling = alive
    OBVIOUS
  <2> QED
    BY <2>1, Counted DEF IInv
<1>2. IsFiniteSet(live) /\ IsFiniteSet(alive)
  BY FS_Subset, live \subseteq alive' DEF IInv, HandleTypeOK
<1>3. /\ refs[k] \in Int /\ refs'[k] \in Int
      /\ Held(alive, mkey, k) \in Nat /\ Held(live, mkey', k) \in Nat
  BY <1>2, HeldType DEF IInv, HandleTypeOK
<1> QED
  BY <1>1, <1>3

\* OpenSSL hands out a key, and the program frees one it still owns.
LEMMA RawIInv ==
  ASSUME NEW k \in Keys, IInv, dangling = {}, Load(k) \/ FreeRaw(k)
  PROVE  IInv'
<1>1. refs' \in [Keys -> Int]
  BY ChangedCount DEF IInv, HandleTypeOK, Load, FreeRaw
<1>2. HandleTypeOK'
  BY <1>1 DEF IInv, HandleTypeOK, Load, FreeRaw
<1>3. ASSUME NEW j \in Keys
      PROVE  refs'[j] - refs[j]
               = (IF j \in raw' THEN 1 ELSE 0) - (IF j \in raw THEN 1 ELSE 0)
  BY ChangedCount DEF IInv, HandleTypeOK, Load, FreeRaw, One
<1>4. UNCHANGED <<alive, mkey>> /\ alive' \ dangling' = alive
  BY DEF Load, FreeRaw
<1>5. \A j \in Keys : Held(alive, mkey, j) \in Nat
  BY HeldType DEF IInv, HandleTypeOK
<1>6. \A j \in Keys : refs'[j] - refs[j]
           = Held(alive' \ dangling', mkey', j) - Held(alive, mkey, j)
               + (IF j \in raw' THEN 1 ELSE 0) - (IF j \in raw THEN 1 ELSE 0)
  BY <1>3, <1>4, <1>5
<1> QED
  BY <1>2, <1>6, SumsIInv

\* The constructors that leave other handles alone.
LEMMA BornIInv ==
  ASSUME NEW h \in Handles, IInv, dangling = {},
         \/ ConstructNull(h)
         \/ \E k \in Keys : Construct(h, k)
         \/ \E g \in Handles : CopyConstruct(h, g)
  PROVE  IInv'
<1>1. PICK key \in Keys \cup {NoKey} : Born(h, key) /\ mkey'[h] = key
  BY DEF IInv, HandleTypeOK, ConstructNull, Construct, CopyConstruct, Born
<1>0. dangling' = {}
  BY CopyCounts DEF ConstructNull, Construct
<1>2. refs' \in [Keys -> Int] /\ raw' \subseteq Keys
  BY CopyCounts, ChangedCount DEF IInv, HandleTypeOK, ConstructNull, Construct, CopyConstruct
<1>3. HandleTypeOK'
  BY <1>0, <1>1, <1>2, FS_AddElement DEF IInv, HandleTypeOK, Born
<1>4. \A k \in Keys :
        Held(alive' \ dangling', mkey', k) = Held(alive, mkey, k) + One(mkey'[h], k)
  <2>1. /\ alive' \ dangling' = alive \cup {h} /\ h \notin alive /\ IsFiniteSet(alive)
        /\ \A x \in alive : mkey'[x] = mkey[x]
    BY <1>0, <1>1 DEF IInv, HandleTypeOK, Born
  <2> QED
    BY <2>1, HeldBorn
<1>5. \A k \in Keys :
        refs'[k] - refs[k]
          = One(mkey'[h], k) + (IF k \in raw' THEN 1 ELSE 0) - (IF k \in raw THEN 1 ELSE 0)
  BY CopyCounts, ChangedCount, HandleAssumption
  DEF IInv, HandleTypeOK, ConstructNull, Construct, CopyConstruct, Born, One
<1>6. \A k \in Keys : Held(alive, mkey, k) \in Nat
  BY HeldType DEF IInv, HandleTypeOK
<1> QED
  BY <1>3, <1>4, <1>5, <1>6, SumsIInv DEF One

\* MoveConstruct: the new handle takes the key of the source.
LEMMA MoveConstructIInv ==
  ASSUME NEW h \in Handles, NEW g \in Handles, IInv, dangling = {}, MoveConstruct(h, g)
  PROVE  IInv'
<1> DEFINE f == [mkey EXCEPT ![h] = mkey[g]]
<1>1. /\ g \in alive /\ h \notin alive /\ IsFiniteSet(alive) /\ mkey[g] \in Keys \cup {NoKey}
      /\ alive' = alive \cup {h} /\ alive' \ dangling' = alive'
      /\ UNCHANGED <<refs, raw, dangling>>
  BY DEF IInv, HandleTypeOK, MoveConstruct
<1>2. IsFiniteSet(alive')
  BY <1>1, FS_AddElement
<1>3. HandleTypeOK'
  BY <1>1, <1>2 DEF IInv, HandleTypeOK, MoveConstruct
<1>4. /\ \A x \in alive : f[x] = mkey[x]
      /\ f[h] = mkey[g] /\ f[g] = mkey[g]
      /\ \A x \in alive' \ {g} : mkey'[x] = f[x]
      /\ mkey'[g] = NoKey
  BY <1>1 DEF IInv, HandleTypeOK, MoveConstruct
<1> HIDE DEF f
<1>5. ASSUME NEW k \in Keys
      PROVE  Held(alive', mkey', k) = Held(alive, mkey, k)
  <2>0. Held(alive \cup {h}, f, k) = Held(alive, mkey, k) + One(f[h], k)
    <3>1. IsFiniteSet(alive) /\ h \notin alive /\ \A x \in alive : f[x] = mkey[x]
      BY <1>1, <1>4, Zenon
    <3> QED
      BY ONLY <3>1, HeldBorn
  <2>1. Held(alive', f, k) = Held(alive, mkey, k) + One(mkey[g], k)
    BY <1>1, <1>4, <2>0, Zenon
  <2>2. Held(alive', mkey', k) = Held(alive', f, k) - One(mkey[g], k) + One(NoKey, k)
    BY <1>1, <1>2, <1>4, HeldChanged
  <2>3. Held(alive, mkey, k) \in Nat /\ One(mkey[g], k) \in Nat /\ One(NoKey, k) = 0
    BY <1>1, HeldType, HandleAssumption DEF One
  <2>4. PICK n \in Nat, one \in Nat : n = Held(alive, mkey, k) /\ one = One(mkey[g], k)
    BY <2>3
  <2>5. n + one - one + 0 = n
    OBVIOUS
  <2> QED
    BY <2>1, <2>2, <2>3, <2>4, <2>5
<1>6. \A k \in Keys : Held(alive, mkey, k) \in Nat /\ refs[k] \in Int
  BY HeldType DEF IInv, HandleTypeOK
<1>7. \A k \in Keys : refs'[k] - refs[k]
        = Held(alive', mkey', k) - Held(alive, mkey, k)
            + (IF k \in raw' THEN 1 ELSE 0) - (IF k \in raw THEN 1 ELSE 0)
  BY <1>1, <1>5, <1>6
<1>8. \A k \in Keys : refs'[k] - refs[k]
        = Held(alive' \ dangling', mkey', k) - Held(alive, mkey, k)
            + (IF k \in raw' THEN 1 ELSE 0) - (IF k \in raw THEN 1 ELSE 0)
  BY <1>1, <1>7, Zenon
<1> QED
  BY <1>3, <1>8, SumsIInv, Zenon

\* Copy assignment and assignment of a raw pointer: the old key loses an
\* owner and the new one gains it, unless it is freed by then.
LEMMA AssignIInv ==
  ASSUME NEW h \in Handles, IInv, dangling = {},
         \/ \E g \in Handles : CopyAssign(h, g)
         \/ \E k \in Keys \cup {NoKey} : AssignRaw(h, k)
  PROVE  IInv'
<1>1. PICK key \in Keys \cup {NoKey} :
        /\ mkey' = [mkey EXCEPT ![h] = key]
        /\ Increment(h, key, Decremented(refs, mkey[h]))
  BY DEF IInv, HandleTypeOK, CopyAssign, AssignRaw
<1>2. /\ h \in alive /\ UNCHANGED <<alive, raw>> /\ IsFiniteSet(alive)
      /\ mkey \in [Handles -> Keys \cup {NoKey}] /\ refs \in [Keys -> Int]
  BY DEF IInv, HandleTypeOK, CopyAssign, AssignRaw
<1>3. mkey'[h] = key /\ \A x \in alive \ {h} : mkey'[x] = mkey[x]
  BY <1>1, <1>2 DEF IInv, HandleTypeOK
<1>4. \A k \in Keys : Held(alive, mkey, k) \in Nat /\ refs[k] \in Int
  BY HeldType DEF IInv, HandleTypeOK
<1>5. CASE refs' = Incremented(Decremented(refs, mkey[h]), key) /\ dangling' = {}
  <2>1. /\ refs' \in [Keys -> Int]
        /\ \A k \in Keys : refs'[k] = refs[k] - One(mkey[h], k) + One(key, k)
    BY <1>2, <1>5, ChangedCount
  <2>2. HandleTypeOK' /\ alive' \ dangling' = alive
    BY <1>1, <1>2, <1>5, <2>1 DEF IInv, HandleTypeOK
  <2>3. \A k \in Keys :
          Held(alive, mkey', k) = Held(alive, mkey, k) - One(mkey[h], k) + One(key, k)
    BY <1>2, <1>3, HeldChanged
  <2>4. \A k \in Keys : refs'[k] - refs[k]
          = Held(alive, mkey', k) - Held(alive, mkey, k)
              + (IF k \in raw' THEN 1 ELSE 0) - (IF k \in raw THEN 1 ELSE 0)
    BY <1>2, <1>4, <2>1, <2>3 DEF One
  <2>5. \A k \in Keys : refs'[k] - refs[k]
          = Held(alive' \ dangling', mkey', k) - Held(alive, mkey, k)
              + (IF k \in raw' THEN 1 ELSE 0) - (IF k \in raw THEN 1 ELSE 0)
    BY <2>2, <2>4, Zenon
  <2> QED
    BY <2>2, <2>5, SumsIInv, Zenon
<1>6. CASE refs' = Decremented(refs, mkey[h]) /\ dangling' = {h}
  <2>1. /\ refs' \in [Keys -> Int]
        /\ \A k \in Keys : refs'[k] = refs[k] - One(mkey[h], k)
    BY <1>2, <1>6, ChangedCount
  <2>2. HandleTypeOK' /\ alive' \ dangling' = alive \ {h}
    BY <1>1, <1>2, <1>6, <2>1 DEF IInv, HandleTypeOK
  <2>3. \A k \in Keys : Held(alive \ {h}, mkey', k) = Held(alive, mkey, k) - One(mkey[h], k)
    BY <1>2, <1>3, HeldGone
  <2> DEFINE rest == alive \ {h}
  <2>4. alive' \ dangling' = rest
    BY <2>2
  <2>5. \A k \in Keys : Held(rest, mkey', k) = Held(alive, mkey, k) - One(mkey[h], k)
    BY <2>3
  <2> HIDE DEF rest
  <2>6. raw' = raw /\ \A k \in Keys : One(mkey[h], k) \in Nat
    BY <1>2 DEF One
  <2>7. \A k \in Keys : refs'[k] - refs[k]
          = Held(rest, mkey', k) - Held(alive, mkey, k)
              + (IF k \in raw' THEN 1 ELSE 0) - (IF k \in raw THEN 1 ELSE 0)
    BY <1>4, <2>1, <2>5, <2>6
  <2>8. \A k \in Keys : refs'[k] - refs[k]
          = Held(alive' \ dangling', mkey', k) - Held(alive, mkey, k)
              + (IF k \in raw' THEN 1 ELSE 0) - (IF k \in raw THEN 1 ELSE 0)
    BY <2>4, <2>7, Zenon
  <2> QED
    BY <2>2, <2>8, SumsIInv, Zenon
<1> QED
  BY <1>1, <1>5, <1>6 DEF Increment

\* Move assignment: the old key of the target loses an owner; the key of the
\* source changes hands.
LEMMA MoveAssignIInv ==
  ASSUME NEW h \in Handles, NEW g \in Handles, IInv, dangling = {}, MoveAssign(h, g)
  PROVE  IInv'
<1> DEFINE f == [mkey EXCEPT ![h] = mkey[g]]
<1>1. /\ g \in alive /\ h \in alive /\ h # g /\ IsFiniteSet(alive)
      /\ UNCHANGED <<alive, raw, dangling>> /\ alive' \ dangling' = alive
  BY DEF IInv, HandleTypeOK, MoveAssign
<1>2. /\ refs' \in [Keys -> Int]
      /\ \A k \in Keys : refs'[k] = refs[k] - One(mkey[h], k)
  BY ChangedCount DEF IInv, HandleTypeOK, MoveAssign
<1>3. HandleTypeOK'
  BY <1>1, <1>2 DEF IInv, HandleTypeOK, MoveAssign
<1>4. /\ \A x \in alive \ {h} : f[x] = mkey[x]
      /\ f[h] = mkey[g] /\ f[g] = mkey[g]
      /\ \A x \in alive \ {g} : mkey'[x] = f[x]
      /\ mkey'[g] = NoKey
  BY <1>1 DEF IInv, HandleTypeOK, MoveAssign
<1> HIDE DEF f
<1>5. ASSUME NEW k \in Keys
      PROVE  Held(alive', mkey', k) = Held(alive, mkey, k) - One(mkey[h], k)
  <2>1. Held(alive, f, k) = Held(alive, mkey, k) - One(mkey[h], k) + One(mkey[g], k)
    BY <1>1, <1>4, HeldChanged
  <2>2. Held(alive, mkey', k) = Held(alive, f, k) - One(mkey[g], k) + One(NoKey, k)
    BY <1>1, <1>4, HeldChanged
  <2>3. /\ Held(alive, mkey, k) \in Nat /\ One(NoKey, k) = 0
        /\ One(mkey[g], k) \in Nat /\ One(mkey[h], k) \in Nat
    BY <1>1, HeldType, HandleAssumption DEF One
  <2> QED
    BY <1>1, <2>1, <2>2, <2>3
<1>6. \A k \in Keys : Held(alive, mkey, k) \in Nat /\ refs[k] \in Int
  BY HeldType DEF IInv, HandleTypeOK
<1> QED
  BY <1>1, <1>2, <1>3, <1>5, <1>6, SumsIInv DEF One

\* The destructor.
LEMMA DestroyIInv ==
  ASSUME NEW h \in Handles, IInv, dangling = {}, Destroy(h)
  PROVE  IInv'
<1>1. /\ h \in alive /\ alive' = alive \ {h} /\ raw' = raw /\ IsFiniteSet(alive)
      /\ dangling' = {} /\ alive' \ dangling' = alive'
      /\ \A x \in alive \ {h} : mkey'[x] = mkey[x]
  BY DEF IInv, HandleTypeOK, Destroy
<1>2. /\ refs' \in [Keys -> Int]
      /\ \A k \in Keys : refs'[k] = refs[k] - One(mkey[h], k)
  BY ChangedCount DEF IInv, HandleTypeOK, Destroy
<1>3. IsFiniteSet(alive')
  BY <1>1, FS_RemoveElement
<1>4. HandleTypeOK'
  BY <1>1, <1>2, <1>3 DEF IInv, HandleTypeOK, Destroy
<1>5. \A k \in Keys : Held(alive', mkey', k) = Held(alive, mkey, k) - One(mkey[h], k)
  BY <1>1, HeldGone
<1>6. \A k \in Keys : Held(alive, mkey, k) \in Nat /\ refs[k] \in Int
  BY HeldType DEF IInv, HandleTypeOK
<1>7. raw' = raw /\ \A k \in Keys : One(mkey[h], k) \in Nat
  BY <1>1 DEF One
<1>8. \A k \in Keys : refs'[k] - refs[k]
        = Held(alive', mkey', k) - Held(alive, mkey, k)
            + (IF k \in raw' THEN 1 ELSE 0) - (IF k \in raw THEN 1 ELSE 0)
  BY <1>2, <1>5, <1>6, <1>7
<1>9. \A k \in Keys : refs'[k] - refs[k]
        = Held(alive' \ dangling', mkey', k) - Held(alive, mkey, k)
            + (IF k \in raw' THEN 1 ELSE 0) - (IF k \in raw THEN 1 ELSE 0)
  BY <1>1, <1>8, Zenon
<1> QED
  BY <1>4, <1>9, SumsIInv, Zenon

\* All operations together.
LEMMA NextIInv == IInv /\ [HandleNext]_handleVars => IInv'
<1> SUFFICES ASSUME IInv, [HandleNext]_handleVars
             PROVE  IInv'
  OBVIOUS
<1>1. CASE HandleNext
  BY <1>1, RawIInv, BornIInv, MoveConstructIInv, AssignIInv, MoveAssignIInv, DestroyIInv
  DEF HandleNext
<1>2. CASE UNCHANGED handleVars
  BY <1>2 DEF IInv, HandleTypeOK, OwnersCounted, handleVars
<1> QED
  BY <1>1, <1>2

\* No handle, no key, no reference.
LEMMA InitIInv == HandleInit => IInv
<1> SUFFICES ASSUME HandleInit PROVE IInv
  OBVIOUS
<1>1. HandleTypeOK
  BY FS_EmptySet DEF HandleInit, HandleTypeOK
<1>2. OwnersCounted
  BY FS_EmptySet DEF HandleInit, OwnersCounted
<1> QED
  BY <1>1, <1>2 DEF IInv

\* Hence the invariant holds at all times.
LEMMA Inductive == HandleSpec => []IInv
BY InitIInv, NextIInv, PTL DEF HandleSpec

-----------------------------------------------------------------------------
(* Theorems                                                                 *)

\* After any sequence of copies, moves and assignments of evp_pkey_handle
\* (jwt.h), however many handles and keys there are and whatever pointer is
\* assigned, OpenSSL's counter is the number of owners.
THEOREM ReferencesCounted == HandleSpec => []OwnersCounted
BY Inductive, PTL DEF IInv

\* No handle holds a key that was freed, except one left dangling.
HeldKeysLive ==
  \A h \in alive \ dangling : mkey[h] # NoKey => refs[mkey[h]] > 0

\* The same for every number of handles and keys.
THEOREM NoFreedKeyHeld == HandleSpec => []HeldKeysLive
<1>1. ASSUME IInv PROVE HeldKeysLive
  <2> SUFFICES ASSUME NEW h \in alive \ dangling, mkey[h] # NoKey
               PROVE  refs[mkey[h]] > 0
    BY DEF HeldKeysLive
  <2> DEFINE k == mkey[h]
             live == alive \ dangling
  <2>1. k \in Keys /\ IsFiniteSet(live)
    BY <1>1, FS_Subset, live \subseteq alive DEF IInv, HandleTypeOK
  <2>2. Held(live, mkey, k) \in Nat /\ Held(live, mkey, k) > 0
    BY <2>1, HeldSome, HeldType
  <2>3. refs[k] = Held(live, mkey, k) + (IF k \in raw THEN 1 ELSE 0)
    BY <1>1, <2>1, Counted DEF IInv
  <2> HIDE DEF k, live
  <2>4. refs[k] > 0
    BY <2>2, <2>3
  <2> QED
    BY <2>4 DEF k
<1> QED
  BY <1>1, Inductive, PTL

\* A handle is left dangling by h = h.get() with the only reference (jwt.h,
\* operator= with an EVP_PKEY pointer) and by nothing else.
THEOREM OnlyOwnKeyFreed == HandleSpec => OnlyOwnKeyDangles
<1>1. ASSUME IInv, [HandleNext]_handleVars, dangling' # dangling
      PROVE  \E h \in Handles : AssignedItsOwn(h)
  <2>1. HandleNext /\ dangling = {}
    BY <1>1 DEF HandleNext, handleVars
  <2>2. PICK h \in Handles, key \in Keys \cup {NoKey} : AssignRaw(h, key)
    <3>1. \/ \E h, g \in Handles : CopyConstruct(h, g) \/ CopyAssign(h, g)
          \/ \E h \in Handles, k \in Keys \cup {NoKey} : AssignRaw(h, k)
      BY <1>1, <2>1 DEF HandleNext, Load, FreeRaw, ConstructNull, Destroy, Construct,
                        MoveConstruct, MoveAssign
    <3> QED
      BY <1>1, <2>1, <3>1, CopyCounts
  <2>3. h \in alive /\ refs \in [Keys -> Int]
    BY <1>1, <2>2 DEF AssignRaw, IInv, HandleTypeOK
  <2>4. key \in Keys /\ refs[key] > 0 /\ Decremented(refs, mkey[h])[key] = 0
    BY <1>1, <2>2, HandleAssumption DEF AssignRaw, Increment
  <2>5. refs[key] - One(mkey[h], key) = 0
    BY <2>3, <2>4, ChangedCount
  <2>6. key = mkey[h] /\ refs[key] = 1
    BY <2>3, <2>4, <2>5 DEF One
  <2> QED
    BY <2>2, <2>3, <2>4, <2>6 DEF AssignedItsOwn
<1> QED
  BY <1>1, Inductive, PTL DEF HandleSpec, OnlyOwnKeyDangles

-----------------------------------------------------------------------------
(* Calls with error codes: the inductive invariant                          *)

\* The table of an activation and its step
TableOf(a) == Library[a.fn]
StepOf(a)  == TableOf(a)[a.pc]

\* All that activation a has allocated has one owner.
Even(a) == \A r \in DOMAIN a.owners : a.owners[r] = 1

\* How many owners r should have where a stands: none between the call that
\* fills a raw pointer and the handle, two from a give to its release.
Level(a, r) ==
  IF a.pc = 0 THEN 1
  ELSE IF StepOf(a).op = "adopt" /\ r = StepOf(a).res THEN 0
  ELSE IF Shared(TableOf(a), a.pc, r) THEN 2 ELSE 1
Expected(a) == \A r \in DOMAIN a.owners : a.owners[r] = Level(a, r)

\* Activation a is within its table and has what the table says it owns.
FrameOK(a) ==
  /\ a = [fn |-> a.fn, pc |-> a.pc, owners |-> a.owners, handed |-> a.handed]
  /\ a.fn \in DOMAIN Library
  /\ a.pc \in 0..Len(TableOf(a))
  /\ \A r \in Names(TableOf(a)) :
       a.pc # 0 /\ Owned(TableOf(a), a.pc, r) => r \in DOMAIN a.owners

\* Activation a has called that of function f, with nothing half done.
Waits(a, f) ==
  /\ a.pc # 0
  /\ StepOf(a).op \in {"call", "unchecked"} /\ f \in StepOf(a).fns
  /\ Even(a)

\* s is a sequence, of whatever elements.
IsSeq(s) == \E S : s \in Seq(S)

\* All activations are in order, and each waits for the one above it.
StackOK ==
  /\ IsSeq(stack)
  /\ \A i \in 1..Len(stack) : FrameOK(stack[i])
  /\ \A i \in 1..(Len(stack) - 1) : Waits(stack[i], stack[i + 1].fn)

\* The running function has as many owners as it should, and while an
\* exception unwinds the stack exactly one each.
OwnersOK == stack # <<>> => IF thrown = Ok THEN Expected(This) ELSE Even(This)

\* A function that returns an object does return it unless it failed.
HandedOK ==
  stack # <<>> /\ thrown = Ok /\ This.pc = 0 /\ ec = Ok /\ Hands(This.fn) => This.handed

\* The error code of an earlier call of the program may still be there.
Stale ==
  \/ This.pc = 1 /\ Clears(This.fn)
  \/ This.pc \in {1, 2} /\ ClearsLater(This.fn)
  \/ Keeps(This.fn) /\ given # Ok /\ Len(stack) = 1

\* After a failure every function returns or throws at its next step, if it
\* was noticed.
ErrorOK ==
  first # Unnoticed =>
  /\ thrown # Ok => thrown = first
  /\ thrown = Ok /\ stack = <<>> =>
       (first # Ok => ec = first) /\ (first = Ok /\ given = Ok => ec = Ok)
  /\ thrown = Ok /\ stack # <<>> /\ first # Ok =>
       /\ ec = first
       /\ IF This.pc = 0 THEN This.fn \notin Throwers ELSE Current.op = "throwif"
  /\ thrown = Ok /\ stack # <<>> /\ first = Ok /\ ec # Ok => Stale

CallInv == StackOK /\ OwnersOK /\ HandedOK /\ ErrorOK

-----------------------------------------------------------------------------
(* Tables                                                                   *)

\* A step changes what is shared only by giving or releasing it.
LEMMA SharedNext ==
  ASSUME NEW t, NEW p \in Nat \ {0}, NEW r
  PROVE  Shared(t, p + 1, r) <=>
           \/ t[p].op = "give" /\ t[p].res = r
           \/ Shared(t, p, r) /\ ~(t[p].op = "release" /\ t[p].res = r)
<1>1. ASSUME Shared(t, p + 1, r), ~(t[p].op = "give" /\ t[p].res = r)
      PROVE  Shared(t, p, r) /\ ~(t[p].op = "release" /\ t[p].res = r)
  <2>1. PICK j \in 1..p : /\ t[j].op = "give" /\ t[j].res = r
                          /\ \A i \in (j + 1)..p : ~(t[i].op = "release" /\ t[i].res = r)
    BY <1>1 DEF Shared
  <2>2. j \in 1..(p - 1) /\ p \in (j + 1)..p /\ (j + 1)..(p - 1) \subseteq (j + 1)..p
    BY <1>1, <2>1
  <2> QED
    BY <2>1, <2>2 DEF Shared
<1>2. ASSUME t[p].op = "give" /\ t[p].res = r
      PROVE  Shared(t, p + 1, r)
  <2>1. p \in 1..(p + 1 - 1) /\ (p + 1)..(p + 1 - 1) = {}
    OBVIOUS
  <2> QED
    BY <1>2, <2>1 DEF Shared
<1>3. ASSUME Shared(t, p, r), ~(t[p].op = "release" /\ t[p].res = r)
      PROVE  Shared(t, p + 1, r)
  <2>1. PICK j \in 1..(p - 1) :
              /\ t[j].op = "give" /\ t[j].res = r
              /\ \A i \in (j + 1)..(p - 1) : ~(t[i].op = "release" /\ t[i].res = r)
    BY <1>3 DEF Shared
  <2>2. j \in 1..(p + 1 - 1) /\ \A i \in (j + 1)..(p + 1 - 1) : i = p \/ i \in (j + 1)..(p - 1)
    BY <2>1
  <2> QED
    BY <1>3, <2>1, <2>2 DEF Shared
<1> QED
  BY <1>1, <1>2, <1>3

\* What is owned after a step was acquired by it, or owned before.
LEMMA OwnedNext ==
  ASSUME NEW t, NEW p \in Nat \ {0}, NEW r, Owned(t, p + 1, r)
  PROVE  \/ Acquires(t[p], r)
         \/ Owned(t, p, r) /\ ~(t[p].op = "result" /\ t[p].res = r)
<1>1. PICK j \in 1..p : /\ Acquires(t[j], r)
                        /\ \A i \in (j + 1)..p : ~(t[i].op = "result" /\ t[i].res = r)
  BY DEF Owned
<1>2. CASE j = p
  BY <1>1, <1>2
<1>3. CASE j # p
  <2>1. j \in 1..(p - 1) /\ p \in (j + 1)..p /\ (j + 1)..(p - 1) \subseteq (j + 1)..p
    BY <1>1, <1>3
  <2> QED
    BY <1>1, <2>1 DEF Owned
<1> QED
  BY <1>2, <1>3

\* Only what a function names is shared in it.
LEMMA SharedName ==
  ASSUME NEW t, Len(t) \in Nat, NEW p \in 1..(Len(t) + 1), NEW r, Shared(t, p, r)
  PROVE  r \in Names(t)
  BY DEF Shared, Names

\* What the conventions say of the step an activation stands at.
LEMMA AtRule ==
  ASSUME NEW a, FrameOK(a), a.pc # 0
  PROVE  /\ Len(TableOf(a)) \in Nat \ {0} /\ a.pc \in 1..Len(TableOf(a))
         /\ StepOf(a).op \in (IF a.fn \in Throwers THEN ThrowerSteps ELSE Steps \ {"throwif"})
         /\ StepOf(a).codes \cap {Ok, Unnoticed} = {} /\ StepOf(a).fns \subseteq DOMAIN Library
         /\ Transfers(TableOf(a), a.pc) /\ TakenOver(TableOf(a), a.pc)
         /\ Tested(a.fn, TableOf(a), a.pc)
<1>1. FunctionOK(a.fn)
  BY LibraryAssumption DEF FrameOK
<1> QED
  BY <1>1 DEF FunctionOK, FrameOK, TableOf, StepOf

\* The position of an activation after its step
After(a) == IF a.pc = Len(TableOf(a)) THEN 0 ELSE a.pc + 1

\* Where a step may fail, be called or return, one owner is right for all.
LEMMA LevelOne ==
  ASSUME NEW a, FrameOK(a), a.pc = 0 \/ StepOf(a).op \notin {"adopt", "give", "release"}, NEW r
  PROVE  Level(a, r) = 1
<1>1. CASE a.pc = 0
  BY <1>1 DEF Level
<1>2. CASE a.pc # 0
  <2>1. ~Shared(TableOf(a), a.pc, r)
    BY <1>2, AtRule, SharedName DEF Transfers, StepOf
  <2> QED
    BY <1>2, <2>1 DEF Level
<1> QED
  BY <1>1, <1>2

\* There, what is expected is that everything has one owner.
LEMMA ExpectedEven ==
  ASSUME NEW a, FrameOK(a), a.pc = 0 \/ StepOf(a).op \notin {"adopt", "give", "release"}
  PROVE  Expected(a) <=> Even(a)
  BY LevelOne DEF Expected, Even

\* How a step changes the number of owners an object should have.
LEMMA LevelNext ==
  ASSUME NEW a, FrameOK(a), a.pc # 0, NEW b, b.fn = a.fn, b.pc = After(a), NEW r
  PROVE  Level(b, r) = IF r # StepOf(a).res THEN Level(a, r)
                       ELSE IF StepOf(a).op = "fill" THEN 0
                       ELSE IF StepOf(a).op = "give" THEN 2
                       ELSE 1
<1> DEFINE t == TableOf(a)
           p == a.pc
           s == StepOf(a)
<1>1. /\ Len(t) \in Nat \ {0} /\ p \in 1..Len(t) /\ s = t[p]
      /\ Transfers(t, p) /\ TakenOver(t, p) /\ TableOf(b) = t
  BY AtRule DEF TableOf, StepOf
<1>2. Shared(t, p + 1, r) <=> \/ s.op = "give" /\ s.res = r
                              \/ Shared(t, p, r) /\ ~(s.op = "release" /\ s.res = r)
  <2>1. p \in Nat \ {0}
    BY <1>1
  <2>2. Shared(t, p + 1, r) <=> \/ t[p].op = "give" /\ t[p].res = r
                                \/ Shared(t, p, r) /\ ~(t[p].op = "release" /\ t[p].res = r)
    BY <2>1, SharedNext, Zenon
  <2> QED
    BY <1>1, <2>2, Zenon
<1>3. s.op \notin {"give", "release"} => ~Shared(t, p, r)
  BY <1>1, SharedName DEF Transfers
<1>4. CASE p = Len(t)
  <2>1. ~Shared(t, Len(t) + 1, r)
    <3>1. FunctionOK(a.fn)
      BY LibraryAssumption DEF FrameOK
    <3> QED
      BY <1>1, <3>1, SharedName DEF FunctionOK, TableOf
  <2>2. Level(b, r) = 1
    BY <1>4 DEF After, Level
  <2>3. s.op # "fill"
    BY <1>1, <1>4 DEF TakenOver
  <2>4. Level(a, r) = IF s.op = "adopt" /\ r = s.res THEN 0 ELSE IF Shared(t, p, r) THEN 2 ELSE 1
    BY DEF Level
  <2> HIDE DEF t, p, s
  <2> QED
    BY <1>2, <1>4, <2>1, <2>2, <2>3, <2>4 DEF s
<1>5. CASE p # Len(t)
  <2>1. b.pc = p + 1 /\ b.pc # 0 /\ StepOf(b) = t[p + 1] /\ p + 1 \in 1..Len(t)
    BY <1>1, <1>5 DEF After, StepOf
  <2>2. TakenOver(t, p + 1)
    <3>1. FunctionOK(a.fn)
      BY LibraryAssumption DEF FrameOK
    <3> QED
      BY <2>1, <3>1 DEF FunctionOK, TableOf
  <2>3. /\ t[p + 1].op = "adopt" => s.op = "fill" /\ s.res = t[p + 1].res
        /\ s.op = "fill" => t[p + 1].op = "adopt" /\ t[p + 1].res = s.res
    BY <1>1, <2>2 DEF TakenOver
  <2>4. Level(a, r) = IF s.op = "adopt" /\ r = s.res THEN 0 ELSE IF Shared(t, p, r) THEN 2 ELSE 1
    BY DEF Level
  <2>5. Level(b, r) = IF t[p + 1].op = "adopt" /\ r = t[p + 1].res THEN 0
                      ELSE IF Shared(t, p + 1, r) THEN 2 ELSE 1
    BY <1>1, <2>1 DEF Level
  <2> HIDE DEF t, p, s
  <2> QED
    BY <1>2, <1>3, <2>3, <2>4, <2>5 DEF s
<1> QED
  BY <1>4, <1>5

-----------------------------------------------------------------------------
(* The stack                                                                *)

\* A sequence is empty if its length is zero.
LEMMA EmptySeq ==
  ASSUME NEW s, IsSeq(s)
  PROVE  Len(s) \in Nat /\ (Len(s) = 0 <=> s = <<>>)
  BY DEF IsSeq

\* s with a in the place of its last element, and what that means
Topped(s, a) == [s EXCEPT ![Len(s)] = a]
SameBelow(w, s, a) ==
  /\ IsSeq(w) /\ Len(w) = Len(s) /\ Len(s) \in Nat \ {0} /\ w # <<>>
  /\ w[Len(s)] = a
  /\ \A i \in 1..(Len(s) - 1) : w[i] = s[i]

\* Replacing the last element leaves the others.
LEMMA Replaced ==
  ASSUME NEW s, IsSeq(s), s # <<>>, NEW a
  PROVE  SameBelow(Topped(s, a), s, a)
<1>1. PICK S : s \in Seq(S)
  BY DEF IsSeq
<1>2. s \in Seq(S \cup {a}) /\ Len(s) \in Nat \ {0}
  BY <1>1
<1>3. Topped(s, a) \in Seq(S \cup {a}) /\ Len(Topped(s, a)) = Len(s)
  BY <1>2 DEF Topped
<1>4. Topped(s, a)[Len(s)] = a /\ \A i \in 1..(Len(s) - 1) : Topped(s, a)[i] = s[i]
  BY <1>2 DEF Topped
<1>5. Topped(s, a) # <<>>
  BY <1>2, <1>3
<1> QED
  BY <1>2, <1>3, <1>4, <1>5 DEF IsSeq, SameBelow

\* A sequence without its last element.
LEMMA Fronted ==
  ASSUME NEW s, IsSeq(s), s # <<>>
  PROVE  LET w == SubSeq(s, 1, Len(s) - 1)
         IN  /\ IsSeq(w) /\ Len(w) = Len(s) - 1 /\ Len(s) \in Nat \ {0}
             /\ \A i \in 1..(Len(s) - 1) : w[i] = s[i]
<1>1. PICK S : s \in Seq(S)
  BY DEF IsSeq
<1>2. Len(s) \in Nat \ {0}
  BY <1>1
<1>3. PICK n \in Nat : n = Len(s) - 1
  BY <1>2
<1>4. /\ SubSeq(s, 1, n) \in Seq(S) /\ Len(SubSeq(s, 1, n)) = n
      /\ \A i \in 1..n : SubSeq(s, 1, n)[i] = s[i]
  BY <1>1, <1>3
<1> QED
  BY <1>2, <1>3, <1>4, Zenon DEF IsSeq

\* An activation that goes on keeps the stack in order,
LEMMA TopReplaced ==
  ASSUME StackOK, stack # <<>>, NEW a, Replace(a), FrameOK(a), a.fn = This.fn
  PROVE  StackOK' /\ (stack # <<>>)' /\ This' = a /\ Len(stack') = Len(stack)
<1>1. /\ IsSeq(stack') /\ Len(stack') = Len(stack) /\ stack' # <<>> /\ Len(stack) \in Nat \ {0}
      /\ stack'[Len(stack)] = a
      /\ \A i \in 1..(Len(stack) - 1) : stack'[i] = stack[i]
  <2>1. IsSeq(stack) /\ stack' = Topped(stack, a)
    BY DEF StackOK, Replace, Topped
  <2>2. SameBelow(stack', stack, a)
    BY <2>1, Replaced, Zenon
  <2> QED
    BY <2>2 DEF SameBelow
<1>2. \A i \in 1..Len(stack') : FrameOK(stack'[i])
  <2> SUFFICES ASSUME NEW i \in 1..Len(stack') PROVE FrameOK(stack'[i])
    OBVIOUS
  <2>1. i = Len(stack) \/ i \in 1..(Len(stack) - 1)
    BY <1>1
  <2> QED
    BY <1>1, <2>1 DEF StackOK
<1>3. \A i \in 1..(Len(stack') - 1) : Waits(stack'[i], stack'[i + 1].fn)
  <2> SUFFICES ASSUME NEW i \in 1..(Len(stack') - 1) PROVE Waits(stack'[i], stack'[i + 1].fn)
    OBVIOUS
  <2>1. i \in 1..(Len(stack) - 1) /\ (i + 1 = Len(stack) \/ i + 1 \in 1..(Len(stack) - 1))
    BY <1>1
  <2>2. stack'[i + 1].fn = stack[i + 1].fn
    BY <1>1, <2>1 DEF This
  <2>3. Waits(stack[i], stack[i + 1].fn) /\ stack'[i] = stack[i]
    BY <1>1, <2>1 DEF StackOK
  <2> QED
    BY <2>2, <2>3
<1> QED
  BY <1>1, <1>2, <1>3 DEF StackOK, This

\* and so does a call
LEMMA Pushed ==
  ASSUME StackOK, stack # <<>>, NEW a, stack' = Append(stack, a), FrameOK(a),
         Waits(This, a.fn)
  PROVE  StackOK' /\ (stack # <<>>)' /\ This' = a
<1>1. PICK S : stack \in Seq(S)
  BY DEF StackOK, IsSeq
<1>2. stack \in Seq(S \cup {a}) /\ Len(stack) \in Nat \ {0}
  BY <1>1
<1>3. /\ stack' \in Seq(S \cup {a}) /\ Len(stack') = Len(stack) + 1 /\ stack' # <<>>
      /\ stack'[Len(stack) + 1] = a
      /\ \A i \in 1..Len(stack) : stack'[i] = stack[i]
  BY <1>2
<1>4. \A i \in 1..Len(stack') : FrameOK(stack'[i])
  <2> SUFFICES ASSUME NEW i \in 1..Len(stack') PROVE FrameOK(stack'[i])
    OBVIOUS
  <2>1. i = Len(stack) + 1 \/ i \in 1..Len(stack)
    BY <1>2, <1>3
  <2> QED
    BY <1>3, <2>1 DEF StackOK
<1>5. \A i \in 1..(Len(stack') - 1) : Waits(stack'[i], stack'[i + 1].fn)
  <2> SUFFICES ASSUME NEW i \in 1..(Len(stack') - 1) PROVE Waits(stack'[i], stack'[i + 1].fn)
    OBVIOUS
  <2>1. i \in 1..Len(stack) /\ (i = Len(stack) \/ (i \in 1..(Len(stack) - 1) /\ i + 1 \in 1..Len(stack)))
    BY <1>2, <1>3
  <2>2. CASE i = Len(stack)
    BY <1>2, <1>3, <2>1, <2>2 DEF This
  <2>3. CASE i \in 1..(Len(stack) - 1) /\ i + 1 \in 1..Len(stack)
    BY <1>3, <2>1, <2>3 DEF StackOK
  <2> QED
    BY <2>1, <2>2, <2>3
<1>6. IsSeq(stack')
  BY <1>3 DEF IsSeq
<1> QED
  BY <1>2, <1>3, <1>4, <1>5, <1>6 DEF StackOK, This

\* The caller of the running function waits at its call.
LEMMA CallerOK ==
  ASSUME StackOK, stack # <<>>, Len(stack) # 1
  PROVE  FrameOK(Caller) /\ Waits(Caller, This.fn)
<1>1. IsSeq(stack)
  BY DEF StackOK
<1>2. Len(stack) \in Nat /\ Len(stack) # 0
  BY <1>1, EmptySeq, Zenon
<1>3. /\ Len(stack) - 1 \in 1..(Len(stack) - 1) /\ Len(stack) - 1 \in 1..Len(stack)
      /\ Len(stack) - 1 + 1 = Len(stack)
  BY <1>2
<1>4. FrameOK(Caller)
  BY <1>3 DEF StackOK, Caller
<1>5. Waits(stack[Len(stack) - 1], stack[Len(stack) - 1 + 1].fn)
  BY <1>3 DEF StackOK
<1> QED
  BY <1>3, <1>4, <1>5 DEF Caller, This

\* Leaving a function keeps the stack in order,
LEMMA Popped ==
  ASSUME StackOK, stack # <<>>, stack' = SubSeq(stack, 1, Len(stack) - 1)
  PROVE  /\ StackOK'
         /\ Len(stack) = 1 <=> stack' = <<>>
         /\ Len(stack) # 1 => This' = Caller
<1>1. /\ IsSeq(stack') /\ Len(stack') = Len(stack) - 1 /\ Len(stack) \in Nat \ {0}
      /\ \A i \in 1..(Len(stack) - 1) : stack'[i] = stack[i]
  <2>1. IsSeq(stack)
    BY DEF StackOK
  <2> QED
    BY <2>1, Fronted, Zenon
<1>2. \A i \in 1..Len(stack') : FrameOK(stack'[i])
  BY <1>1 DEF StackOK
<1>3. \A i \in 1..(Len(stack') - 1) : Waits(stack'[i], stack'[i + 1].fn)
  <2> SUFFICES ASSUME NEW i \in 1..(Len(stack') - 1) PROVE Waits(stack'[i], stack'[i + 1].fn)
    OBVIOUS
  <2>1. i \in 1..(Len(stack) - 1) /\ i + 1 \in 1..(Len(stack) - 1)
    BY <1>1
  <2> QED
    BY <1>1, <2>1 DEF StackOK
<1>4. Len(stack) = 1 <=> stack' = <<>>
  <2>1. Len(stack') = 0 <=> stack' = <<>>
    BY <1>1, EmptySeq, Zenon
  <2>2. Len(stack) = 1 <=> Len(stack') = 0
    BY <1>1
  <2> QED
    BY <2>1, <2>2
<1>5. ASSUME Len(stack) # 1 PROVE This' = Caller
  <2>1. Len(stack) - 1 \in 1..(Len(stack) - 1)
    BY <1>1, <1>5
  <2> QED
    BY <1>1, <2>1 DEF This, Caller
<1> QED
  BY <1>1, <1>2, <1>3, <1>4, <1>5 DEF StackOK

\* also if the caller then goes on.
LEMMA Returned ==
  ASSUME StackOK, stack # <<>>, Len(stack) # 1, NEW a, FrameOK(a), a.fn = Caller.fn,
         NEW u, u = SubSeq(stack, 1, Len(stack) - 1), stack' = Topped(u, a)
  PROVE  StackOK' /\ (stack # <<>>)' /\ This' = a
<1>1. /\ IsSeq(u) /\ Len(u) = Len(stack) - 1 /\ Len(stack) \in Nat \ {0}
      /\ \A i \in 1..(Len(stack) - 1) : u[i] = stack[i]
  <2>1. IsSeq(stack)
    BY DEF StackOK
  <2> QED
    BY <2>1, Fronted, Zenon
<1>2. u # <<>>
  <2>1. Len(u) # 0
    BY <1>1
  <2> QED
    BY <2>1
<1>3. /\ IsSeq(stack') /\ Len(stack') = Len(u) /\ stack' # <<>>
      /\ stack'[Len(u)] = a
      /\ \A i \in 1..(Len(u) - 1) : stack'[i] = u[i]
  <2>1. IsSeq(u)
    BY <1>1
  <2>2. SameBelow(stack', u, a)
    BY <1>2, <2>1, Replaced, Zenon
  <2> QED
    BY <2>2 DEF SameBelow
<1>4. /\ Len(stack') = Len(stack) - 1 /\ stack'[Len(stack) - 1] = a
      /\ \A i \in 1..(Len(stack) - 2) : stack'[i] = stack[i]
  <2> SUFFICES ASSUME NEW i \in 1..(Len(stack) - 2) PROVE stack'[i] = stack[i]
    BY <1>1, <1>3
  <2>1. i \in 1..(Len(u) - 1) /\ i \in 1..(Len(stack) - 1)
    BY <1>1
  <2> QED
    BY <1>1, <1>3, <2>1
<1>5. \A i \in 1..Len(stack') : FrameOK(stack'[i])
  <2> SUFFICES ASSUME NEW i \in 1..Len(stack') PROVE FrameOK(stack'[i])
    OBVIOUS
  <2>1. i \in 1..Len(stack) /\ (i = Len(stack) - 1 \/ i \in 1..(Len(stack) - 2))
    BY <1>1, <1>4
  <2> QED
    BY <1>4, <2>1 DEF StackOK
<1>6. \A i \in 1..(Len(stack') - 1) : Waits(stack'[i], stack'[i + 1].fn)
  <2> SUFFICES ASSUME NEW i \in 1..(Len(stack') - 1) PROVE Waits(stack'[i], stack'[i + 1].fn)
    OBVIOUS
  <2>1. /\ i \in 1..(Len(stack) - 2) /\ i \in 1..(Len(stack) - 1)
        /\ i + 1 = Len(stack) - 1 \/ i + 1 \in 1..(Len(stack) - 2)
    BY <1>1, <1>4
  <2>2. stack'[i + 1].fn = stack[i + 1].fn
    BY <1>4, <2>1 DEF Caller
  <2>3. Waits(stack[i], stack[i + 1].fn) /\ stack'[i] = stack[i]
    BY <1>4, <2>1 DEF StackOK
  <2> QED
    BY <2>2, <2>3
<1> QED
  BY <1>3, <1>4, <1>5, <1>6 DEF StackOK, This

-----------------------------------------------------------------------------
(* One activation                                                           *)

\* An activation
Frame(f, p, o, h) == [fn |-> f, pc |-> p, owners |-> o, handed |-> h]

\* The owner counts o with n for r
Own(o, r, n) == [x \in DOMAIN o \cup ({r} \ {""}) |-> IF x = r THEN n ELSE o[x]]

\* The fields of an activation
LEMMA Fields ==
  ASSUME NEW f, NEW p, NEW o, NEW h
  PROVE  /\ Frame(f, p, o, h).fn = f /\ Frame(f, p, o, h).pc = p
         /\ Frame(f, p, o, h).owners = o /\ Frame(f, p, o, h).handed = h
  BY DEF Frame

\* Owners, Advance and the two changes of a return statement as records
LEMMA OwnersIs ==
  ASSUME NEW a, FrameOK(a), NEW r, NEW n
  PROVE  Owners(a, r, n) = Frame(a.fn, a.pc, Own(a.owners, r, n), a.handed)
<1>1. PICK o : o = Own(a.owners, r, n)
  OBVIOUS
<1>2. Owners(a, r, n) = [a EXCEPT !.owners = o]
  BY <1>1 DEF Owners, Own
<1>3. a = [fn |-> a.fn, pc |-> a.pc, owners |-> a.owners, handed |-> a.handed]
  BY DEF FrameOK
<1>4. [a EXCEPT !.owners = o] = Frame(a.fn, a.pc, o, a.handed)
  BY <1>3 DEF Frame
<1> QED
  BY <1>1, <1>2, <1>4

\* See OwnersIs.
LEMMA HandedIs ==
  ASSUME NEW a, FrameOK(a), NEW o, NEW h
  PROVE  [[a EXCEPT !.handed = h] EXCEPT !.owners = o] = Frame(a.fn, a.pc, o, h)
<1>1. a = [fn |-> a.fn, pc |-> a.pc, owners |-> a.owners, handed |-> a.handed]
  BY DEF FrameOK
<1>2. PICK b : b = [fn |-> a.fn, pc |-> a.pc, owners |-> a.owners, handed |-> h]
  OBVIOUS
<1>3. [a EXCEPT !.handed = h] = b
  BY <1>1, <1>2
<1>4. [b EXCEPT !.owners = o] = Frame(a.fn, a.pc, o, h)
  BY <1>2 DEF Frame
<1> QED
  BY <1>3, <1>4

\* See OwnersIs.
LEMMA AdvanceIs ==
  ASSUME NEW a, NEW o, NEW h
  PROVE  Advance(Frame(a.fn, a.pc, o, h)) = Frame(a.fn, After(a), o, h)
  BY DEF Advance, Frame, After, TableOf

\* An activation has what its table says it owns after one more step too,
\* if the step drops no object but one it returns.
LEMMA FrameNext ==
  ASSUME NEW a, FrameOK(a), a.pc # 0, NEW o, NEW h,
         \A r \in DOMAIN a.owners :
            r \in DOMAIN o \/ (StepOf(a).op = "result" /\ StepOf(a).res = r),
         \A r : Acquires(StepOf(a), r) => r \in DOMAIN o
  PROVE  FrameOK(Frame(a.fn, After(a), o, h))
<1> DEFINE b == Frame(a.fn, After(a), o, h)
<1>1. b.fn = a.fn /\ b.pc = After(a) /\ b.owners = o /\ b.handed = h
  BY Fields
<1>2. b = [fn |-> b.fn, pc |-> b.pc, owners |-> b.owners, handed |-> b.handed]
  BY <1>1 DEF Frame
<1> HIDE DEF b
<1>3. Len(TableOf(a)) \in Nat \ {0} /\ a.pc \in 1..Len(TableOf(a)) /\ TableOf(b) = TableOf(a)
  BY <1>1, AtRule DEF TableOf
<1>4. a.fn \in DOMAIN Library
  BY DEF FrameOK
<1>5. After(a) \in 0..Len(TableOf(a)) /\ (After(a) # 0 => After(a) = a.pc + 1)
  BY <1>3 DEF After
<1>6. ASSUME NEW r \in Names(TableOf(a)), After(a) # 0, Owned(TableOf(a), After(a), r)
      PROVE  r \in DOMAIN o
  <2>1. a.pc \in Nat \ {0} /\ Owned(TableOf(a), a.pc + 1, r)
    BY <1>3, <1>5, <1>6
  <2>2. \/ Acquires(StepOf(a), r)
        \/ Owned(TableOf(a), a.pc, r) /\ ~(StepOf(a).op = "result" /\ StepOf(a).res = r)
    BY <2>1, OwnedNext, Zenon DEF StepOf
  <2>3. Owned(TableOf(a), a.pc, r) => r \in DOMAIN a.owners
    BY <1>6 DEF FrameOK
  <2> QED
    BY <2>2, <2>3
<1> QED
  BY <1>1, <1>2, <1>3, <1>4, <1>5, <1>6 DEF FrameOK, b

\* A step that sets the owners of its object to what they should be.
LEMMA OwnStep ==
  ASSUME NEW a, FrameOK(a), a.pc # 0, Expected(a), NEW n, NEW h, StepOf(a).op # "call",
         n = IF StepOf(a).op = "fill" THEN 0 ELSE IF StepOf(a).op = "give" THEN 2 ELSE 1
  PROVE  LET b == Frame(a.fn, After(a), Own(a.owners, StepOf(a).res, n), h)
         IN  FrameOK(b) /\ Expected(b)
<1> DEFINE o == Own(a.owners, StepOf(a).res, n)
           b == Frame(a.fn, After(a), o, h)
<1>1. /\ DOMAIN o = DOMAIN a.owners \cup ({StepOf(a).res} \ {""})
      /\ \A x \in DOMAIN o : o[x] = IF x = StepOf(a).res THEN n ELSE a.owners[x]
  BY DEF Own
<1> HIDE DEF o
<1>2. FrameOK(b)
  <2>1. \A r : Acquires(StepOf(a), r) => r \in DOMAIN o
    BY <1>1 DEF Acquires
  <2>2. \A r \in DOMAIN a.owners : r \in DOMAIN o
    BY <1>1
  <2> QED
    BY <2>1, <2>2, FrameNext
<1>3. b.fn = a.fn /\ b.pc = After(a) /\ b.owners = o
  BY Fields
<1> HIDE DEF b
<1>4. ASSUME NEW r \in DOMAIN o PROVE o[r] = Level(b, r)
  <2>1. Level(b, r) = IF r # StepOf(a).res THEN Level(a, r)
                      ELSE IF StepOf(a).op = "fill" THEN 0
                      ELSE IF StepOf(a).op = "give" THEN 2
                      ELSE 1
    BY <1>3, LevelNext
  <2>2. CASE r = StepOf(a).res
    BY <1>1, <1>4, <2>1, <2>2
  <2>3. CASE r # StepOf(a).res
    <3>1. r \in DOMAIN a.owners
      BY <1>1, <1>4, <2>3
    <3> QED
      BY <1>1, <1>4, <2>1, <2>3, <3>1 DEF Expected
  <2> QED
    BY <2>2, <2>3
<1>5. Expected(b)
  BY <1>3, <1>4 DEF Expected
<1> QED
  BY <1>2, <1>5 DEF b, o

\* A step that allocates nothing leaves all counts right.
LEMMA PlainStep ==
  ASSUME NEW a, FrameOK(a), a.pc # 0, Expected(a),
         StepOf(a).op \in {"clear", "try", "tryonly", "throwif"}, NEW h
  PROVE  LET b == Frame(a.fn, After(a), a.owners, h)
         IN  FrameOK(b) /\ Expected(b)
<1> DEFINE b == Frame(a.fn, After(a), a.owners, h)
<1>1. FrameOK(b)
  <2>1. \A r : ~Acquires(StepOf(a), r)
    BY DEF Acquires
  <2> QED
    BY <2>1, FrameNext
<1>2. b.fn = a.fn /\ b.pc = After(a) /\ b.owners = a.owners
  BY Fields
<1> HIDE DEF b
<1>3. ASSUME NEW r \in DOMAIN a.owners PROVE a.owners[r] = Level(b, r)
  <2>1. Level(b, r) = IF r # StepOf(a).res THEN Level(a, r)
                      ELSE IF StepOf(a).op = "fill" THEN 0
                      ELSE IF StepOf(a).op = "give" THEN 2
                      ELSE 1
    BY <1>2, LevelNext
  <2>2. Level(a, r) = 1
    BY LevelOne
  <2> QED
    BY <1>3, <2>1, <2>2 DEF Expected
<1> QED
  BY <1>1, <1>2, <1>3 DEF Expected, b

\* So does a return statement, which hands its object on.
LEMMA ResultStep ==
  ASSUME NEW a, FrameOK(a), a.pc # 0, Expected(a), StepOf(a).op = "result", NEW h
  PROVE  LET b == Frame(a.fn, After(a),
                        [x \in DOMAIN a.owners \ {StepOf(a).res} |-> a.owners[x]], h)
         IN  FrameOK(b) /\ Expected(b)
<1> DEFINE o == [x \in DOMAIN a.owners \ {StepOf(a).res} |-> a.owners[x]]
           b == Frame(a.fn, After(a), o, h)
<1>1. /\ DOMAIN o = DOMAIN a.owners \ {StepOf(a).res}
      /\ \A x \in DOMAIN o : o[x] = a.owners[x]
  OBVIOUS
<1> HIDE DEF o
<1>2. FrameOK(b)
  <2>1. \A r : ~Acquires(StepOf(a), r)
    BY DEF Acquires
  <2>2. \A r \in DOMAIN a.owners :
           r \in DOMAIN o \/ (StepOf(a).op = "result" /\ StepOf(a).res = r)
    BY <1>1
  <2> QED
    BY <2>1, <2>2, FrameNext
<1>3. b.fn = a.fn /\ b.pc = After(a) /\ b.owners = o
  BY Fields
<1> HIDE DEF b
<1>4. ASSUME NEW r \in DOMAIN o PROVE o[r] = Level(b, r)
  <2>1. Level(b, r) = Level(a, r)
    BY <1>1, <1>3, <1>4, LevelNext
  <2> QED
    BY <1>1, <1>4, <2>1 DEF Expected
<1> QED
  BY <1>2, <1>3, <1>4 DEF Expected, b, o

\* The activation after a step that succeeds, as in Succeed
Done(a) ==
  LET r == StepOf(a).res
  IN Advance(
       CASE StepOf(a).op \in {"clear", "try", "tryonly"} -> a
         [] StepOf(a).op \in {"new", "check", "alloc"} -> Owners(a, r, 1)
         [] StepOf(a).op = "fill" -> Owners(a, r, 0)
         [] StepOf(a).op \in {"adopt", "give"} -> Given(a, r)
         [] StepOf(a).op = "release" -> Released(a, r)
         [] StepOf(a).op = "move" -> Given(Released(a, r), r)
         [] StepOf(a).op = "result" ->
              [a EXCEPT !.handed = r # "",
                        !.owners = [x \in DOMAIN @ \ {r} |-> @[x]]])

\* Any step that succeeds leaves the counts as they should be at the next.
LEMMA DoneStep ==
  ASSUME NEW a, FrameOK(a), a.pc # 0, Expected(a),
         StepOf(a).op \notin {"call", "unchecked", "throwif"}
  PROVE  /\ FrameOK(Done(a)) /\ Expected(Done(a))
         /\ Done(a).fn = a.fn /\ Done(a).pc = After(a)
         /\ StepOf(a).op = "result" => Done(a).handed = (StepOf(a).res # "")
<1> DEFINE r == StepOf(a).res
           op == StepOf(a).op
           n == IF r \in DOMAIN a.owners THEN a.owners[r] ELSE 0
<1>0. a = Frame(a.fn, a.pc, a.owners, a.handed)
  BY DEF FrameOK, Frame
<1>1. op \in Steps
  BY AtRule DEF ThrowerSteps, Steps
<1>2. CASE op \in {"clear", "try", "tryonly"}
  <2>1. Done(a) = Advance(a)
    BY <1>2 DEF Done
  <2>2. Done(a) = Frame(a.fn, After(a), a.owners, a.handed)
    BY <1>0, <2>1, AdvanceIs
  <2>3. FrameOK(Done(a)) /\ Expected(Done(a))
    BY <1>2, <2>2, PlainStep
  <2>4. StepOf(a).op # "result"
    BY <1>2
  <2>5. Done(a).fn = a.fn /\ Done(a).pc = After(a)
    BY <2>2, Fields
  <2> QED
    BY <2>3, <2>4, <2>5
<1>3. CASE op \in {"new", "check", "alloc"}
  <2>1. Done(a) = Advance(Owners(a, r, 1))
    BY <1>3 DEF Done
  <2>2. Done(a) = Frame(a.fn, After(a), Own(a.owners, r, 1), a.handed)
    BY <2>1, OwnersIs, AdvanceIs
  <2>3. FrameOK(Done(a)) /\ Expected(Done(a))
    BY <1>3, <2>2, OwnStep
  <2>4. StepOf(a).op # "result"
    BY <1>3
  <2>5. Done(a).fn = a.fn /\ Done(a).pc = After(a)
    BY <2>2, Fields
  <2> QED
    BY <2>3, <2>4, <2>5
<1>4. CASE op = "fill"
  <2>1. Done(a) = Advance(Owners(a, r, 0))
    BY <1>4 DEF Done
  <2>2. Done(a) = Frame(a.fn, After(a), Own(a.owners, r, 0), a.handed)
    BY <2>1, OwnersIs, AdvanceIs
  <2> QED
    BY <1>4, <2>2, OwnStep, Fields
<1>5. CASE op = "adopt"
  <2>1. Level(a, r) = 0
    BY <1>5 DEF Level
  <2>2. n = 0
    BY <2>1 DEF Expected
  <2>3. Done(a) = Advance(Owners(a, r, 1 + n))
    BY <1>5 DEF Done, Given
  <2> HIDE DEF n
  <2>4. Done(a) = Frame(a.fn, After(a), Own(a.owners, r, 1), a.handed)
    BY <2>2, <2>3, OwnersIs, AdvanceIs
  <2> QED
    BY <1>5, <2>4, OwnStep, Fields
<1>6. CASE op = "give"
  <2>1. Owned(TableOf(a), a.pc, r) /\ ~Shared(TableOf(a), a.pc, r) /\ r \in Names(TableOf(a))
    BY <1>6, AtRule DEF Transfers, StepOf, Names
  <2>2. r \in DOMAIN a.owners /\ Level(a, r) = 1
    BY <1>6, <2>1 DEF FrameOK, Level
  <2>3. n = 1
    BY <2>2 DEF Expected
  <2>4. Done(a) = Advance(Owners(a, r, 1 + n))
    BY <1>6 DEF Done, Given
  <2> HIDE DEF n
  <2>5. Done(a) = Frame(a.fn, After(a), Own(a.owners, r, 2), a.handed)
    BY <2>3, <2>4, OwnersIs, AdvanceIs
  <2> QED
    BY <1>6, <2>5, OwnStep, Fields
<1>7. CASE op = "release"
  <2>1. Owned(TableOf(a), a.pc, r) /\ Shared(TableOf(a), a.pc, r) /\ r \in Names(TableOf(a))
    BY <1>7, AtRule DEF Transfers, StepOf, Names
  <2>2. r \in DOMAIN a.owners /\ Level(a, r) = 2
    BY <1>7, <2>1 DEF FrameOK, Level
  <2>3. a.owners[r] - 1 = 1
    BY <2>2 DEF Expected
  <2>4. Done(a) = Advance(Owners(a, r, a.owners[r] - 1))
    BY <1>7 DEF Done, Released
  <2>5. Done(a) = Frame(a.fn, After(a), Own(a.owners, r, 1), a.handed)
    BY <2>3, <2>4, OwnersIs, AdvanceIs
  <2> QED
    BY <1>7, <2>5, OwnStep, Fields
<1>8. CASE op = "result"
  <2> DEFINE o == [x \in DOMAIN a.owners \ {r} |-> a.owners[x]]
             h == r # ""
  <2>1. Done(a) = Advance([a EXCEPT !.handed = r # "",
                                    !.owners = [x \in DOMAIN @ \ {r} |-> @[x]]])
    BY <1>8 DEF Done
  <2>2. Done(a) = Advance(Frame(a.fn, a.pc, o, h))
    <3>1. Done(a) = Advance([[a EXCEPT !.handed = h] EXCEPT !.owners = o])
      BY <1>0, <2>1 DEF Frame
    <3> HIDE DEF o, h
    <3>2. [[a EXCEPT !.handed = h] EXCEPT !.owners = o] = Frame(a.fn, a.pc, o, h)
      BY HandedIs
    <3> QED
      BY <3>1, <3>2
  <2>3. FrameOK(Frame(a.fn, After(a), o, h)) /\ Expected(Frame(a.fn, After(a), o, h))
    BY <1>8, ResultStep
  <2> HIDE DEF o, h
  <2>4. Done(a) = Frame(a.fn, After(a), o, h)
    BY <2>2, AdvanceIs
  <2>5. Done(a).handed = h /\ Done(a).fn = a.fn /\ Done(a).pc = After(a)
    BY <2>4, Fields
  <2>6. Done(a).handed = (StepOf(a).res # "")
    BY <2>5, Zenon DEF h
  <2> QED
    BY <2>3, <2>4, <2>5, <2>6, Zenon
<1>9. CASE op = "move"
  <2>1. Owned(TableOf(a), a.pc, r) /\ r \in Names(TableOf(a))
    BY <1>9, AtRule DEF Transfers, StepOf, Names
  <2>2. r \in DOMAIN a.owners /\ Level(a, r) = 1
    BY <1>9, <2>1, LevelOne DEF FrameOK
  <2>3. a.owners[r] - 1 = 0
    BY <2>2 DEF Expected
  <2>4. Released(a, r) = Frame(a.fn, a.pc, Own(a.owners, r, 0), a.handed)
    BY <2>3, OwnersIs DEF Released
  <2>5. PICK o : o = Own(a.owners, r, 0)
    OBVIOUS
  <2>6. PICK b : b = Frame(a.fn, a.pc, o, a.handed)
    OBVIOUS
  <2>7. /\ r \in DOMAIN o /\ o[r] = 0
        /\ Own(o, r, 1) = Own(a.owners, r, 1)
    BY <2>2, <2>5 DEF Own
  <2>8. b.owners = o
    BY <2>6, Fields
  <2>9. Given(b, r) = Owners(b, r, 1)
    BY <2>7, <2>8 DEF Given
  <2>10. Owners(b, r, 1) = Frame(a.fn, a.pc, Own(o, r, 1), a.handed)
    <3>1. PICK w : w = Own(o, r, 1)
      OBVIOUS
    <3>2. Owners(b, r, 1) = [b EXCEPT !.owners = w]
      BY <2>8, <3>1, <2>6 DEF Owners, Own, Frame
    <3>3. [b EXCEPT !.owners = w] = Frame(a.fn, a.pc, w, a.handed)
      BY <2>6 DEF Frame
    <3> QED
      BY <3>1, <3>2, <3>3
  <2>11. Done(a) = Advance(Given(b, r))
    BY <1>9, <2>4, <2>5, <2>6 DEF Done
  <2>12. Done(a) = Frame(a.fn, After(a), Own(a.owners, r, 1), a.handed)
    BY <2>7, <2>9, <2>10, <2>11, AdvanceIs
  <2> QED
    BY <1>9, <2>12, OwnStep, Fields
<1> QED
  BY <1>1, <1>2, <1>3, <1>4, <1>5, <1>6, <1>7, <1>8, <1>9 DEF Steps

-----------------------------------------------------------------------------
(* The actions                                                              *)

\* The running function is in order.
LEMMA TopFrame ==
  ASSUME StackOK, stack # <<>>
  PROVE  FrameOK(This)
<1>1. IsSeq(stack)
  BY DEF StackOK
<1>2. Len(stack) \in Nat /\ Len(stack) # 0
  BY <1>1, EmptySeq, Zenon
<1>3. Len(stack) \in 1..Len(stack)
  BY <1>2
<1> QED
  BY <1>3 DEF StackOK, This

\* A function starts with nothing allocated.
LEMMA Started ==
  ASSUME NEW f \in DOMAIN Library
  PROVE  /\ FrameOK(Activation(f)) /\ Expected(Activation(f))
         /\ Activation(f).fn = f /\ Activation(f).pc = 1
<1> DEFINE a == Activation(f)
<1>1. a.fn = f /\ a.pc = 1 /\ a.owners = <<>> /\ a.handed = FALSE
  BY DEF Activation
<1>2. a = [fn |-> a.fn, pc |-> a.pc, owners |-> a.owners, handed |-> a.handed]
  BY DEF Activation
<1> HIDE DEF a
<1>3. Len(TableOf(a)) \in Nat \ {0}
  BY <1>1, LibraryAssumption DEF FunctionOK, TableOf
<1>4. \A r : ~Owned(TableOf(a), 1, r)
  BY DEF Owned
<1>5. FrameOK(a)
  BY <1>1, <1>2, <1>3, <1>4 DEF FrameOK
<1>6. DOMAIN a.owners = {}
  BY <1>1
<1> QED
  BY <1>1, <1>5, <1>6 DEF Expected, a

\* A function that is not about to throw what it met has noticed no failure.
LEMMA NoFailure ==
  ASSUME ErrorOK, AtStep, Current.op # "throwif"
  PROVE  first = Ok \/ first = Unnoticed
  BY DEF ErrorOK, AtStep

\* The step that runs is that of the last activation.
LEMMA CurrentIs == Current = StepOf(This)
  BY DEF Current, StepOf, TableOf

\* A program calls a function, perhaps with an old error code.
LEMMA BeginStep ==
  ASSUME CallInv, NEW f \in Public, Begin(f)
  PROVE  CallInv'
<1>1. f \in DOMAIN Library
  BY LibraryAssumption
<1>2. PICK a : a = Activation(f)
  OBVIOUS
<1>3. FrameOK(a) /\ Expected(a) /\ a.fn = f /\ a.pc = 1
  BY <1>1, <1>2, Started
<1>4. stack' = <<a>>
  BY <1>2 DEF Begin
<1>5. IsSeq(stack') /\ Len(stack') = 1 /\ stack'[1] = a /\ stack' # <<>>
  <2>1. stack' \in Seq({a})
    BY <1>4
  <2> QED
    BY <1>4, <2>1 DEF IsSeq
<1>6. StackOK'
  BY <1>3, <1>5 DEF StackOK
<1>7. This' = a
  BY <1>5 DEF This
<1>8. /\ thrown' = Ok /\ first' = Ok /\ ec' = ec
      /\ given' = IF Keeps(f) THEN ec ELSE Ok
  BY DEF Begin
<1>9. Clears(f) \/ ClearsLater(f) \/ Keeps(f)
  BY <1>1, LibraryAssumption DEF FunctionOK
<1>10. OwnersOK' /\ HandedOK'
  BY <1>3, <1>7, <1>8 DEF OwnersOK, HandedOK
<1>11. ErrorOK'
  BY <1>3, <1>5, <1>7, <1>8, <1>9 DEF ErrorOK, Stale
<1> QED
  BY <1>6, <1>10, <1>11 DEF CallInv

\* A step succeeds; the first clears an old error code before any can fail.
LEMMA SucceedStep ==
  ASSUME CallInv, Succeed
  PROVE  CallInv'
<1>1. stack # <<>> /\ thrown = Ok /\ This.pc # 0 /\ AtStep
  BY DEF Succeed, AtStep
<1>2. PICK a : a = This
  OBVIOUS
<1>3. StackOK /\ FrameOK(a) /\ Expected(a) /\ a.pc # 0 /\ Current = StepOf(a)
  BY <1>1, <1>2, TopFrame, CurrentIs DEF CallInv, OwnersOK
<1>4. StepOf(a).op \notin {"call", "unchecked", "throwif"}
  BY <1>3 DEF Succeed
<1>5. Replace(Done(a))
  BY <1>2, <1>3 DEF Succeed, Done
<1>6. PICK b : b = Done(a)
  OBVIOUS
<1>7. /\ FrameOK(b) /\ Expected(b) /\ b.fn = a.fn /\ b.pc = After(a)
      /\ StepOf(a).op = "result" => b.handed = (StepOf(a).res # "")
  BY <1>3, <1>4, <1>6, DoneStep, Zenon
<1>8. StackOK' /\ stack' # <<>> /\ This' = b /\ Len(stack') = Len(stack)
  BY <1>1, <1>2, <1>3, <1>5, <1>6, <1>7, TopReplaced
<1>9. /\ thrown' = Ok /\ first' = first /\ given' = given /\ ErrorOK
      /\ first = Ok \/ first = Unnoticed
      /\ ec' = IF StepOf(a).op = "clear" THEN Ok ELSE ec
  <2>1. Current.op # "throwif" /\ ErrorOK
    BY <1>3, <1>4 DEF CallInv
  <2>2. first = Ok \/ first = Unnoticed
    BY <1>1, <2>1, NoFailure
  <2> QED
    BY <1>1, <1>3, <2>1, <2>2 DEF Succeed
<1>10. OwnersOK'
  BY <1>7, <1>8, <1>9 DEF OwnersOK
<1>11. a.pc \in 1..Len(TableOf(a)) /\ Len(TableOf(a)) \in Nat
  BY <1>3, AtRule
<1>12. HandedOK'
  <2> SUFFICES ASSUME b.pc = 0, Hands(b.fn) PROVE b.handed
    BY <1>8 DEF HandedOK
  <2>1. a.pc = Len(TableOf(a))
    <3>1. b.pc = After(a)
      BY <1>7
    <3> QED
      BY <1>11, <3>1 DEF After
  <2>2. StepOf(a).op = "result" /\ StepOf(a).res # ""
    BY <1>7, <2>1 DEF Hands, StepOf, TableOf
  <2> QED
    BY <1>7, <2>2, Zenon
<1>13. ErrorOK'
  <2> SUFFICES ASSUME ec' # Ok, first = Ok PROVE Stale'
    BY <1>8, <1>9 DEF ErrorOK
  <2>1. StepOf(a).op # "clear" /\ ec # Ok /\ first # Unnoticed
    BY <1>9 DEF Ok, Unnoticed
  <2>2. Stale
    BY <1>1, <1>9, <2>1 DEF ErrorOK, Succeed
  <2>0. CASE Keeps(a.fn) /\ given # Ok /\ Len(stack) = 1
    BY <1>7, <1>8, <1>9, <2>0 DEF Stale
  <2> SUFFICES ASSUME ~(Keeps(a.fn) /\ given # Ok /\ Len(stack) = 1) PROVE Stale'
    BY <2>0
  <2>3. a.pc \in {1, 2} /\ ClearsLater(a.fn)
    BY <1>2, <2>1, <2>2 DEF Stale, Clears, StepOf, TableOf
  <2>4. a.pc = 1 /\ Len(TableOf(a)) > 1
    BY <1>4, <2>3 DEF ClearsLater, StepOf, TableOf
  <2>5. b.pc = 2
    <3>1. b.pc = After(a)
      BY <1>7
    <3>2. Len(TableOf(a)) # 1
      <4>1. PICK n \in Nat : n = Len(TableOf(a))
        BY <1>11
      <4>2. n > 1
        BY <2>4, <4>1
      <4> QED
        BY <4>1, <4>2
    <3>3. a.pc # Len(TableOf(a)) /\ a.pc + 1 = 2
      BY <2>4, <3>2
    <3> QED
      BY <3>1, <3>3 DEF After
  <2> QED
    BY <1>7, <1>8, <2>3, <2>5 DEF Stale
<1> QED
  BY <1>8, <1>10, <1>12, <1>13 DEF CallInv

\* A step fails and the function returns: nothing was half done, and as
\* nothing had failed before, this is the first failure.
LEMMA FailStep ==
  ASSUME CallInv, NEW c, Fail(c)
  PROVE  CallInv'
<1>1. /\ stack # <<>> /\ thrown = Ok /\ This.pc # 0 /\ AtStep
      /\ thrown' = Ok /\ ec' = c /\ c \in Current.codes
      /\ Current.op \in {"new", "try", "tryonly", "fill"}
      /\ Replace([Failed(This) EXCEPT !.pc = 0])
      /\ first' = IF first = Ok THEN c ELSE first
  BY DEF Fail, AtStep
<1>2. PICK a : a = This
  OBVIOUS
<1>3. StackOK /\ FrameOK(a) /\ Expected(a) /\ a.pc # 0 /\ Current = StepOf(a) /\ ErrorOK
  BY <1>1, <1>2, TopFrame, CurrentIs DEF CallInv, OwnersOK
<1>4. PICK b : b = [Failed(a) EXCEPT !.pc = 0]
  OBVIOUS
<1>15. PICK o : o = IF StepOf(a).op = "fill" THEN Own(a.owners, StepOf(a).res, 1) ELSE a.owners
  OBVIOUS
<1>14. Failed(a) = Frame(a.fn, a.pc, o, a.handed)
  <2>1. CASE StepOf(a).op # "fill"
    BY <1>3, <1>15, <2>1 DEF Failed, FrameOK, Frame
  <2>2. CASE StepOf(a).op = "fill"
    <3>1. StepOf(a).res \in StepOf(a).frees
      BY <1>3, <2>2, AtRule DEF TakenOver, StepOf
    <3>2. Failed(a) = Owners(a, StepOf(a).res, 1)
      BY <1>3, <2>2, <3>1 DEF Failed
    <3> QED
      BY <1>3, <1>15, <2>2, <3>2, OwnersIs
  <2> QED
    BY <2>1, <2>2
<1>5. b = Frame(a.fn, 0, o, a.handed)
  BY <1>4, <1>14 DEF Frame
<1>6. b.fn = a.fn /\ b.pc = 0 /\ b.owners = o
  BY <1>5, Fields
<1>7. FrameOK(b)
  <2>1. b = [fn |-> b.fn, pc |-> b.pc, owners |-> b.owners, handed |-> b.handed]
    BY <1>5 DEF Frame
  <2>2. Len(TableOf(a)) \in Nat /\ TableOf(b) = TableOf(a) /\ a.fn \in DOMAIN Library
    BY <1>3, <1>6, AtRule DEF TableOf, FrameOK
  <2> QED
    BY <1>6, <2>1, <2>2 DEF FrameOK
<1>8. Expected(b)
  <2>1. Even(a)
    BY <1>1, <1>3, ExpectedEven
  <2>2. \A r \in DOMAIN o : o[r] = 1
    <3>1. CASE StepOf(a).op = "fill"
      BY <1>15, <2>1, <3>1 DEF Own, Even
    <3>2. CASE StepOf(a).op # "fill"
      BY <1>15, <2>1, <3>2 DEF Even
    <3> QED
      BY <3>1, <3>2
  <2> QED
    BY <1>6, <1>7, <2>2, ExpectedEven DEF Even
<1>9. StackOK' /\ stack' # <<>> /\ This' = b
  BY <1>1, <1>2, <1>3, <1>4, <1>6, <1>7, TopReplaced
<1>10. c # Ok /\ a.fn \notin Throwers
  BY <1>1, <1>3, AtRule DEF ThrowerSteps
<1>11. first = Ok \/ first = Unnoticed
  BY <1>1, <1>3, NoFailure
<1>12. OwnersOK' /\ HandedOK'
  BY <1>1, <1>8, <1>9, <1>10 DEF OwnersOK, HandedOK
<1>13. ErrorOK'
  BY <1>1, <1>6, <1>9, <1>10, <1>11 DEF ErrorOK
<1> QED
  BY <1>9, <1>12, <1>13 DEF CallInv

\* A failure is taken for success, and the function goes on.
LEMMA OverlookStep ==
  ASSUME CallInv, Overlook
  PROVE  CallInv'
<1>1. /\ stack # <<>> /\ thrown = Ok /\ This.pc # 0 /\ AtStep
      /\ thrown' = Ok /\ Current.op = "tryonly" /\ Replace(Advance(This))
      /\ first' = IF first = Ok THEN Unnoticed ELSE first
  BY DEF Overlook, AtStep
<1>2. PICK a : a = This
  OBVIOUS
<1>3. StackOK /\ FrameOK(a) /\ Expected(a) /\ a.pc # 0 /\ Current = StepOf(a) /\ ErrorOK
  BY <1>1, <1>2, TopFrame, CurrentIs DEF CallInv, OwnersOK
<1>4. PICK b : b = Frame(a.fn, After(a), a.owners, a.handed)
  OBVIOUS
<1>5. Advance(a) = b
  <2>1. a = Frame(a.fn, a.pc, a.owners, a.handed)
    BY <1>3 DEF FrameOK, Frame
  <2> QED
    BY <1>4, <2>1, AdvanceIs
<1>6. FrameOK(b) /\ Expected(b) /\ b.fn = a.fn /\ b.pc = After(a)
  BY <1>1, <1>3, <1>4, PlainStep, Fields
<1>7. StackOK' /\ stack' # <<>> /\ This' = b
  BY <1>1, <1>2, <1>3, <1>5, <1>6, TopReplaced
<1>8. OwnersOK'
  BY <1>1, <1>6, <1>7 DEF OwnersOK
<1>9. HandedOK'
  <2> SUFFICES ASSUME b.pc = 0, Hands(b.fn) PROVE FALSE
    BY <1>7 DEF HandedOK
  <2>1. a.pc = Len(TableOf(a))
    BY <1>3, <1>6, AtRule DEF After
  <2> QED
    BY <1>1, <1>3, <1>6, <2>1 DEF Hands, StepOf, TableOf
<1>10. first' = Unnoticed
  BY <1>1, <1>3, NoFailure
<1> QED
  BY <1>7, <1>8, <1>9, <1>10 DEF CallInv, ErrorOK

\* A function calls another, which clears the error code if it is old.
LEMMA CallStep ==
  ASSUME CallInv, NEW f, CallFunction(f)
  PROVE  CallInv'
<1>1. /\ stack # <<>> /\ thrown = Ok /\ This.pc # 0 /\ AtStep
      /\ thrown' = Ok /\ ec' = ec /\ first' = first
      /\ Current.op \in {"call", "unchecked"} /\ f \in Current.fns
      /\ stack' = Append(stack, Activation(f))
  BY DEF CallFunction, AtStep
<1>2. PICK a : a = This
  OBVIOUS
<1>3. StackOK /\ FrameOK(a) /\ Expected(a) /\ a.pc # 0 /\ Current = StepOf(a) /\ ErrorOK
  BY <1>1, <1>2, TopFrame, CurrentIs DEF CallInv, OwnersOK
<1>4. f \in DOMAIN Library
  BY <1>1, <1>3, AtRule
<1>5. PICK b : b = Activation(f)
  OBVIOUS
<1>6. FrameOK(b) /\ Expected(b) /\ b.fn = f /\ b.pc = 1
  BY <1>4, <1>5, Started
<1>7. Waits(a, b.fn)
  BY <1>1, <1>3, <1>6, ExpectedEven DEF Waits
<1>8. StackOK' /\ stack' # <<>> /\ This' = b
  BY <1>1, <1>2, <1>3, <1>5, <1>6, <1>7, Pushed
<1>9. first = Ok \/ first = Unnoticed
  BY <1>1, <1>3, NoFailure
<1>10. OwnersOK' /\ HandedOK'
  BY <1>1, <1>6, <1>8 DEF OwnersOK, HandedOK
<1>11. ErrorOK'
  <2> SUFFICES ASSUME ec # Ok, first = Ok, first # Unnoticed PROVE Stale'
    BY <1>1, <1>8, <1>9 DEF ErrorOK
  <2>1. Stale
    BY <1>1, <1>3, <1>9 DEF ErrorOK
  <2>4. ~Keeps(a.fn)
    BY <1>1, <1>3, AtRule DEF Keeps, StepOf, TableOf
  <2>2. a.pc \in {1, 2} /\ ClearsLater(a.fn)
    BY <1>1, <1>2, <1>3, <2>1, <2>4 DEF Stale, Clears, StepOf, TableOf
  <2>3. a.pc = 2
    BY <1>1, <1>3, <2>2 DEF ClearsLater, StepOf, TableOf
  <2>5. Clears(f)
    BY <1>1, <1>3, <2>2, <2>3 DEF ClearsLater, StepOf, TableOf
  <2> QED
    BY <1>6, <1>8, <2>5 DEF Stale
<1> QED
  BY <1>8, <1>10, <1>11 DEF CallInv

\* throw_if_error finds no error, or throws the first failure.
LEMMA RaiseIfErrorStep ==
  ASSUME CallInv, RaiseIfError
  PROVE  CallInv'
<1>1. /\ stack # <<>> /\ thrown = Ok /\ This.pc # 0 /\ AtStep
      /\ ec' = ec /\ first' = first /\ Current.op = "throwif"
  BY DEF RaiseIfError, AtStep
<1>2. PICK a : a = This
  OBVIOUS
<1>3. StackOK /\ FrameOK(a) /\ Expected(a) /\ a.pc # 0 /\ Current = StepOf(a) /\ ErrorOK
  BY <1>1, <1>2, TopFrame, CurrentIs DEF CallInv, OwnersOK
<1>4. a.pc \in 1..Len(TableOf(a)) /\ Len(TableOf(a)) \in Nat
  BY <1>3, AtRule
<1>5. CASE ec = Ok
  <2>1. Replace(Advance(a)) /\ thrown' = Ok
    BY <1>1, <1>2, <1>5 DEF RaiseIfError
  <2>2. PICK b : b = Frame(a.fn, After(a), a.owners, a.handed)
    OBVIOUS
  <2>3. Advance(a) = b
    <3>1. a = Frame(a.fn, a.pc, a.owners, a.handed)
      BY <1>3 DEF FrameOK, Frame
    <3> QED
      BY <2>2, <3>1, AdvanceIs
  <2>4. FrameOK(b) /\ Expected(b) /\ b.fn = a.fn /\ b.pc = After(a)
    BY <1>1, <1>3, <2>2, PlainStep, Fields
  <2>5. StackOK' /\ stack' # <<>> /\ This' = b
    BY <1>1, <1>2, <1>3, <2>1, <2>3, <2>4, TopReplaced
  <2>6. first = Ok \/ first = Unnoticed
    BY <1>1, <1>3, <1>5 DEF ErrorOK
  <2>7. OwnersOK'
    BY <2>1, <2>4, <2>5 DEF OwnersOK
  <2>8. HandedOK'
    <3> SUFFICES ASSUME b.pc = 0, Hands(b.fn) PROVE FALSE
      BY <2>5 DEF HandedOK
    <3>1. a.pc = Len(TableOf(a))
      BY <1>4, <2>4 DEF After
    <3> QED
      BY <1>1, <1>3, <2>4, <3>1 DEF Hands, StepOf, TableOf
  <2>9. ErrorOK'
    BY <1>1, <1>5, <2>1, <2>5, <2>6 DEF ErrorOK
  <2> QED
    BY <2>5, <2>7, <2>8, <2>9 DEF CallInv
<1>6. CASE ec # Ok
  <2>1. thrown' = ec /\ stack' = stack
    BY <1>6 DEF RaiseIfError
  <2>2. StackOK' /\ This' = This
    BY <1>3, <2>1 DEF StackOK, This
  <2>3. Even(a)
    BY <1>1, <1>3, ExpectedEven
  <2>4. first # Unnoticed => first = ec
    <3>0. ~Keeps(a.fn)
      BY <1>1, <1>3, AtRule DEF Keeps
    <3>1. ~Stale
      BY <1>1, <1>2, <1>3, <3>0 DEF Stale, Clears, ClearsLater, StepOf, TableOf
    <3> QED
      BY <1>1, <1>3, <1>6, <3>1 DEF ErrorOK
  <2>5. OwnersOK' /\ HandedOK'
    BY <1>2, <1>6, <2>1, <2>2, <2>3 DEF OwnersOK, HandedOK
  <2>6. ErrorOK'
    BY <1>1, <1>6, <2>1, <2>4 DEF ErrorOK
  <2> QED
    BY <2>2, <2>5, <2>6 DEF CallInv
<1> QED
  BY <1>5, <1>6

\* A test fails: its exception is the first failure.
LEMMA RaiseCheckStep ==
  ASSUME CallInv, NEW c, RaiseCheck(c)
  PROVE  CallInv'
<1>1. /\ stack # <<>> /\ thrown = Ok /\ This.pc # 0 /\ AtStep
      /\ stack' = stack /\ thrown' = c /\ c \in Current.codes /\ Current.op = "check"
      /\ first' = IF first = Ok THEN c ELSE first
  BY DEF RaiseCheck, AtStep
<1>2. PICK a : a = This
  OBVIOUS
<1>3. StackOK /\ FrameOK(a) /\ Expected(a) /\ a.pc # 0 /\ Current = StepOf(a) /\ ErrorOK
  BY <1>1, <1>2, TopFrame, CurrentIs DEF CallInv, OwnersOK
<1>4. c # Ok
  BY <1>1, <1>3, AtRule
<1>5. first = Ok \/ first = Unnoticed
  BY <1>1, <1>3, NoFailure
<1>6. StackOK' /\ This' = This
  BY <1>1, <1>3 DEF StackOK, This
<1>7. Even(a)
  BY <1>1, <1>3, ExpectedEven
<1>8. OwnersOK' /\ HandedOK'
  BY <1>1, <1>2, <1>4, <1>6, <1>7 DEF OwnersOK, HandedOK
<1>9. ErrorOK'
  BY <1>1, <1>4, <1>5 DEF ErrorOK
<1> QED
  BY <1>6, <1>8, <1>9 DEF CallInv

\* An exception leaves a function whose caller waits with nothing half done.
LEMMA UnwindStep ==
  ASSUME CallInv, Unwind
  PROVE  CallInv'
<1>1. /\ stack # <<>> /\ thrown # Ok /\ StackOK /\ ErrorOK
      /\ stack' = SubSeq(stack, 1, Len(stack) - 1)
      /\ thrown' = thrown /\ ec' = ec /\ first' = first
  BY DEF Unwind, CallInv
<1>2. /\ StackOK'
      /\ Len(stack) = 1 <=> stack' = <<>>
      /\ Len(stack) # 1 => This' = Caller /\ Waits(Caller, This.fn)
  BY <1>1, Popped, CallerOK
<1>3. OwnersOK' /\ HandedOK'
  BY <1>1, <1>2 DEF OwnersOK, HandedOK, Waits
<1>4. ErrorOK'
  BY <1>1 DEF ErrorOK
<1> QED
  BY <1>2, <1>3, <1>4 DEF CallInv

\* A function returns; its caller takes the object it was handed, and returns
\* or throws if there was a failure.
LEMMA ReturnStep ==
  ASSUME CallInv, Return
  PROVE  CallInv'
<1>1. /\ stack # <<>> /\ thrown = Ok /\ This.pc = 0 /\ StackOK /\ ErrorOK
      /\ thrown' = Ok /\ ec' = ec /\ first' = first /\ given' = given
  BY DEF Return, CallInv
<1>2. first # Unnoticed => ec = first \/ (first = Ok /\ given # Ok /\ Len(stack) = 1)
  BY <1>1 DEF Stale, ErrorOK
<1>3. CASE Len(stack) = 1
  <2>1. stack' = <<>>
    BY <1>3 DEF Return
  <2>2. StackOK'
    <3>1. stack' \in Seq({}) /\ Len(stack') = 0
      BY <2>1
    <3> QED
      BY <3>1 DEF StackOK, IsSeq
  <2> QED
    BY <1>1, <1>2, <2>1, <2>2 DEF CallInv, OwnersOK, HandedOK, ErrorOK
<1>4. CASE Len(stack) # 1
  <2>1. PICK c : c = Caller
    OBVIOUS
  <2>2. FrameOK(c) /\ Waits(c, This.fn)
    BY <1>1, <1>4, <2>1, CallerOK
  <2>3. /\ c.pc # 0 /\ StepOf(c).op \in {"call", "unchecked"}
        /\ This.fn \in StepOf(c).fns /\ Even(c)
    BY <2>2 DEF Waits
  <2>4. Expected(c)
    BY <2>2, <2>3, ExpectedEven
  <2>5. c.pc \in 1..Len(TableOf(c)) /\ Len(TableOf(c)) \in Nat
    BY <2>2, <2>3, AtRule
  <2>6. PICK o : o = IF This.handed THEN Own(c.owners, StepOf(c).res, 1) ELSE c.owners
    OBVIOUS
  <2>7. PICK a : a = IF This.handed THEN Owners(c, StepOf(c).res, 1) ELSE c
    OBVIOUS
  <2>8. a = Frame(c.fn, c.pc, o, c.handed)
    <3>1. CASE This.handed
      BY <2>2, <2>6, <2>7, <3>1, OwnersIs
    <3>2. CASE ~This.handed
      BY <2>2, <2>6, <2>7, <3>2 DEF FrameOK, Frame
    <3> QED
      BY <3>1, <3>2
  <2>9. PICK b : b = IF StepOf(c).op = "call" /\ ec # Ok THEN [a EXCEPT !.pc = 0] ELSE Advance(a)
    OBVIOUS
  <2>10. stack' = Topped(SubSeq(stack, 1, Len(stack) - 1), b)
    <3>1. stack' = [SubSeq(stack, 1, Len(stack) - 1) EXCEPT ![Len(stack) - 1] = b]
      BY <1>4, <2>1, <2>7, <2>9 DEF Return, StepOf, TableOf
    <3>2. IsSeq(stack)
      BY <1>1 DEF StackOK
    <3>3. Len(SubSeq(stack, 1, Len(stack) - 1)) = Len(stack) - 1
      BY <1>1, <3>2, Fronted, Zenon
    <3> QED
      BY <3>1, <3>3 DEF Topped
  <2>11. \A r \in DOMAIN o : o[r] = 1
    <3>1. CASE This.handed
      BY <2>3, <2>6, <3>1 DEF Own, Even
    <3>2. CASE ~This.handed
      BY <2>3, <2>6, <3>2 DEF Even
    <3> QED
      BY <3>1, <3>2
  <2>12. \A r \in DOMAIN c.owners : r \in DOMAIN o
    BY <2>6 DEF Own
  <2>13. CASE StepOf(c).op = "call" /\ ec # Ok
    <3>1. b = Frame(c.fn, 0, o, c.handed)
      BY <2>8, <2>9, <2>13 DEF Frame
    <3>2. b.fn = c.fn /\ b.pc = 0 /\ b.owners = o
      BY <3>1, Fields
    <3>3. FrameOK(b)
      <4>1. b = [fn |-> b.fn, pc |-> b.pc, owners |-> b.owners, handed |-> b.handed]
        BY <3>1 DEF Frame
      <4>2. TableOf(b) = TableOf(c) /\ c.fn \in DOMAIN Library
        BY <2>2, <3>2 DEF TableOf, FrameOK
      <4> QED
        BY <2>5, <3>2, <4>1, <4>2 DEF FrameOK
    <3>4. Expected(b)
      BY <2>11, <3>2, <3>3, ExpectedEven DEF Even
    <3>5. StackOK' /\ stack' # <<>> /\ This' = b
      BY <1>1, <1>4, <2>1, <2>10, <3>2, <3>3, Returned
    <3>6. c.fn \notin Throwers
      BY <2>2, <2>3, <2>13, AtRule DEF ThrowerSteps
    <3>7. OwnersOK' /\ HandedOK'
      BY <1>1, <2>13, <3>4, <3>5 DEF OwnersOK, HandedOK
    <3>8. ErrorOK'
      BY <1>1, <1>2, <1>4, <2>13, <3>2, <3>5, <3>6 DEF ErrorOK
    <3> QED
      BY <3>5, <3>7, <3>8 DEF CallInv
  <2>14. CASE ~(StepOf(c).op = "call" /\ ec # Ok)
    <3>1. b = Frame(c.fn, After(c), o, c.handed)
      BY <2>8, <2>9, <2>14, AdvanceIs
    <3>2. b.fn = c.fn /\ b.pc = After(c) /\ b.owners = o
      BY <3>1, Fields
    <3>3. FrameOK(b)
      <4>1. ASSUME NEW r, Acquires(StepOf(c), r) PROVE r \in DOMAIN o
        <5>1. /\ StepOf(c).op = "call" /\ StepOf(c).res = r /\ r # ""
              /\ \A f \in StepOf(c).fns : Hands(f)
          BY <2>3, <4>1 DEF Acquires
        <5>2. ec = Ok /\ Hands(This.fn)
          BY <2>3, <2>14, <5>1
        <5>3. This.handed
          BY <1>1, <5>2 DEF CallInv, HandedOK
        <5> QED
          BY <2>6, <5>1, <5>3 DEF Own
      <4> QED
        BY <2>2, <2>3, <2>12, <3>1, <4>1, FrameNext
    <3>4. Expected(b)
      <4> SUFFICES ASSUME NEW r \in DOMAIN o PROVE Level(b, r) = 1
        BY <2>11, <3>2 DEF Expected
      <4>1. Level(b, r) = IF r # StepOf(c).res THEN Level(c, r)
                          ELSE IF StepOf(c).op = "fill" THEN 0
                          ELSE IF StepOf(c).op = "give" THEN 2
                          ELSE 1
        BY <2>2, <2>3, <3>2, LevelNext
      <4>2. Level(c, r) = 1
        BY <2>2, <2>3, LevelOne
      <4> QED
        BY <2>3, <4>1, <4>2
    <3>5. StackOK' /\ stack' # <<>> /\ This' = b
      BY <1>1, <1>4, <2>1, <2>10, <3>2, <3>3, Returned
    <3>6. OwnersOK'
      BY <1>1, <3>4, <3>5 DEF OwnersOK
    <3>7. HandedOK'
      <4> SUFFICES ASSUME b.pc = 0, Hands(b.fn) PROVE FALSE
        BY <3>5 DEF HandedOK
      <4>1. c.pc = Len(TableOf(c))
        BY <2>5, <3>2 DEF After
      <4> QED
        BY <2>3, <3>2, <4>1 DEF Hands, StepOf, TableOf
    <3>8. ErrorOK'
      <4> SUFFICES ASSUME ec # Ok, first # Unnoticed, ec = first
                   PROVE  IF b.pc = 0 THEN b.fn \notin Throwers ELSE StepOf(b).op = "throwif"
        BY <1>1, <1>2, <1>4, <3>5 DEF ErrorOK, Current, StepOf, TableOf
      <4>1. StepOf(c).op = "unchecked" /\ This.fn \notin Throwers
        BY <1>1, <2>3, <2>14 DEF ErrorOK
      <4>2. \/ c.fn \in Throwers /\ c.pc < Len(TableOf(c)) /\ TableOf(c)[c.pc + 1].op = "throwif"
            \/ c.fn \notin Throwers /\ c.pc = Len(TableOf(c))
        BY <2>2, <2>3, <4>1, AtRule DEF Tested, StepOf
      <4>3. CASE c.fn \notin Throwers /\ c.pc = Len(TableOf(c))
        BY <3>2, <4>3 DEF After
      <4>4. CASE c.pc < Len(TableOf(c)) /\ TableOf(c)[c.pc + 1].op = "throwif"
        <5>1. b.pc = c.pc + 1 /\ b.pc # 0
          BY <2>5, <3>2, <4>4 DEF After
        <5> QED
          BY <3>2, <4>4, <5>1 DEF StepOf, TableOf
      <4> QED
        BY <4>2, <4>3, <4>4
    <3> QED
      BY <3>5, <3>6, <3>7, <3>8 DEF CallInv
  <2> QED
    BY <2>13, <2>14
<1> QED
  BY <1>3, <1>4

\* The invariant holds in every state.
LEMMA CallInvariant == CallSpec => []CallInv
<1>1. CallInit => CallInv
  <2> SUFFICES ASSUME CallInit PROVE CallInv
    OBVIOUS
  <2>1. stack = <<>> /\ ec = Ok /\ thrown = Ok /\ first = Ok /\ given = Ok
    BY DEF CallInit
  <2>2. StackOK
    <3>1. stack \in Seq({}) /\ Len(stack) = 0
      BY <2>1
    <3> QED
      BY <3>1 DEF StackOK, IsSeq
  <2> QED
    BY <2>1, <2>2 DEF CallInv, OwnersOK, HandedOK, ErrorOK
<1>2. CallInv /\ [CallNext]_callVars => CallInv'
  <2> SUFFICES ASSUME CallInv, [CallNext]_callVars PROVE CallInv'
    OBVIOUS
  <2>1. CASE \E f \in Public : Begin(f)
    BY <2>1, BeginStep
  <2>2. CASE Succeed
    BY <2>2, SucceedStep
  <2>3. CASE AtStep /\ \E c \in Current.codes : Fail(c) \/ RaiseCheck(c)
    BY <2>3, FailStep, RaiseCheckStep
  <2>4. CASE AtStep /\ \E f \in Current.fns : CallFunction(f)
    BY <2>4, CallStep
  <2>5. CASE Return
    BY <2>5, ReturnStep
  <2>6. CASE RaiseIfError
    BY <2>6, RaiseIfErrorStep
  <2>7. CASE Unwind
    BY <2>7, UnwindStep
  <2>8. CASE UNCHANGED callVars
    <3>1. /\ stack' = stack /\ ec' = ec /\ thrown' = thrown /\ first' = first
          /\ given' = given
      BY <2>8 DEF callVars
    <3> QED
      BY <3>1 DEF CallInv, StackOK, OwnersOK, HandedOK, ErrorOK, Stale, This, Current
  <2>9. CASE Overlook
    BY <2>9, OverlookStep
  <2> QED
    BY <2>1, <2>2, <2>3, <2>4, <2>5, <2>6, <2>7, <2>8, <2>9 DEF CallNext
<1> QED
  BY <1>1, <1>2, PTL DEF CallSpec

\* Theorem: in every library that keeps the conventions, whichever call fails
\* and however deep, a function that is left, by return or by exception, has
\* exactly one owner for everything it allocated.
THEOREM EverythingFreedOnce == CallSpec => []FreedOnce
<1>1. CallInv => FreedOnce
  <2> SUFFICES ASSUME CallInv, stack # <<>>, thrown # Ok \/ This.pc = 0 PROVE Even(This)
    BY DEF FreedOnce, Leaving, Even
  <2>1. FrameOK(This)
    BY TopFrame DEF CallInv
  <2> QED
    BY <2>1, ExpectedEven DEF CallInv, OwnersOK
<1> QED
  BY <1>1, CallInvariant, PTL

\* Theorem: in every library that keeps the conventions, a program that gets
\* control back holds the first failure of its call, as error code or as
\* exception, and no error if there was none, whatever ec it passed, unless
\* the function keeps what it is given or takes the failure for success.
THEOREM FirstFailureReported == CallSpec => []FirstErrorReported
<1>1. CallInv => FirstErrorReported
  BY DEF CallInv, ErrorOK, FirstErrorReported
<1> QED
  BY <1>1, CallInvariant, PTL

=============================================================================
