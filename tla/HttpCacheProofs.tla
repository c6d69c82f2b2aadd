--------------------------- MODULE HttpCacheProofs ---------------------------
(***************************************************************************)
(* Theorems about HttpCache for any number of backends, URLs, texts and    *)
(* partitions, any partition function and any bounds.                      *)
(*                                                                         *)
(* The safety properties are not inductive by themselves: that an entry is *)
(* whole when its lock is free, or that it does not change under a reader, *)
(* needs the correspondence between where a backend is in its call and     *)
(* which lock it holds, and that exclusive holders are alone.              *)
(***************************************************************************)
EXTENDS HttpCache, TLAPS

Reading == {"check", "erase", "copy", "unshare"}
Writing == {"json", "expiration", "unlock"}
Calling == {"find", "insert"} \cup Reading \cup Writing

\* The arguments of a call in progress passed the guards of get and put.
ArgsChecked ==
  \A b \in Backends :
    /\ pc[b] \in Calling => arg[b].url \in Urls \ LongUrls
    /\ pc[b] \in {"insert", "json", "expiration"} =>
         arg[b].body \in Bodies \ LargeBodies /\ arg[b].age <= MaxAge

\* A backend holds the lock of its key's partition in the mode its position
\* calls for, and the entry under its key exists.
LocksHeld ==
  \A b \in Backends :
    /\ pc[b] \in Reading => b \in shared[Part(b)] /\ table[arg[b].url] # None
    /\ pc[b] \in Writing => b \in exclusive[Part(b)] /\ table[arg[b].url] # None

\* It holds no other lock, unless an exception left some.
LocksOwned ==
  \A b \in Backends, x \in Partitions :
    /\ b \in shared[x] => pc[b] = "failed" \/ (pc[b] \in Reading /\ x = Part(b))
    /\ b \in exclusive[x] => pc[b] = "failed" \/ (pc[b] \in Writing /\ x = Part(b))

\* Whoever holds a lock exclusively is the only holder.
MutualExclusion ==
  \A b \in Backends, x \in Partitions :
    b \in exclusive[x] => exclusive[x] = {b} /\ shared[x] = {}

\* The fields of an entry are sound except while a put has yet to write them.
EntriesSound ==
  \A u \in Urls : table[u] # None =>
    /\ u \notin LongUrls
    /\ (\A b \in Backends : ~(pc[b] = "json" /\ arg[b].url = u))
         => table[u].json \in Bodies \ LargeBodies
    /\ (\A b \in Backends : ~(pc[b] \in {"json", "expiration"} /\ arg[b].url = u))
         => table[u].expiration <= clock + MaxAge

IInv ==
  /\ CacheTypeOK
  /\ ArgsChecked
  /\ LocksHeld
  /\ LocksOwned
  /\ MutualExclusion
  /\ EntriesSound

-----------------------------------------------------------------------------
(* Types *)

LEMMA CallTypes ==
  /\ NoArg \in Arg
  /\ NoResult \in Result
  /\ \A k \in {"miss", "stored", "refused", "error"} : Answer(k) \in Result
  /\ \A text \in Texts : Hit(text) \in Result
  /\ \A u \in Urls : KeyArg(u) \in Arg
BY DEF NoArg, KeyArg, Arg, NoResult, Result, Answer, Hit, Texts

LEMMA ReturnType ==
  ASSUME NEW b \in Backends, CacheTypeOK, NEW r \in Result, Return(b, r)
  PROVE  pc' \in [Backends -> Labels] /\ arg' \in [Backends -> Arg] /\ ret' \in [Backends -> Result]
BY CallTypes DEF CacheTypeOK, Return, Labels

LEMMA ThrowType ==
  ASSUME NEW b \in Backends, CacheTypeOK, Throw(b)
  PROVE  pc' \in [Backends -> Labels] /\ arg' \in [Backends -> Arg] /\ ret' \in [Backends -> Result]
BY CallTypes DEF CacheTypeOK, Throw, Labels

LEMMA GotoType ==
  ASSUME NEW b \in Backends, CacheTypeOK, NEW label \in Labels, Goto(b, label)
  PROVE  pc' \in [Backends -> Labels]
BY DEF CacheTypeOK, Goto

\* Taking and dropping a partition's lock keeps the sets of holders sets of
\* backends.
LEMMA HoldersType ==
  ASSUME NEW f \in [Partitions -> SUBSET Backends], NEW x, NEW b \in Backends
  PROVE  /\ [f EXCEPT ![x] = f[x] \cup {b}] \in [Partitions -> SUBSET Backends]
         /\ [f EXCEPT ![x] = f[x] \ {b}] \in [Partitions -> SUBSET Backends]
OBVIOUS

-----------------------------------------------------------------------------
(* Initial states and stuttering *)

LEMMA InitIInv == CacheInit => IInv
<1> SUFFICES ASSUME CacheInit PROVE IInv
  OBVIOUS
<1> USE CacheAssumption DEF CacheInit
<1>1. CacheTypeOK
  BY CallTypes DEF CacheTypeOK, Labels
<1>2. ArgsChecked /\ LocksHeld
  BY DEF ArgsChecked, LocksHeld, Calling, Reading, Writing
<1>3. LocksOwned /\ MutualExclusion /\ EntriesSound
  BY DEF LocksOwned, MutualExclusion, EntriesSound
<1> QED
  BY <1>1, <1>2, <1>3 DEF IInv

LEMMA StutterIInv == IInv /\ UNCHANGED cacheVars => IInv'
<1> SUFFICES ASSUME IInv, UNCHANGED cacheVars PROVE IInv'
  OBVIOUS
<1> USE DEF IInv, cacheVars
<1>1. CacheTypeOK'
  BY DEF CacheTypeOK
<1>2. ArgsChecked' /\ LocksHeld'
  BY DEF ArgsChecked, LocksHeld, Part
<1>3. LocksOwned' /\ MutualExclusion'
  BY DEF LocksOwned, MutualExclusion, Part
<1>4. EntriesSound'
  BY DEF EntriesSound
<1> QED
  BY <1>1, <1>2, <1>3, <1>4

-----------------------------------------------------------------------------
(* One lemma per action *)

LEMMA AttachIInv ==
  ASSUME NEW b \in Backends, IInv, Attach(b)
  PROVE  IInv'
<1> USE CacheAssumption DEF IInv, Attach
<1>1. CacheTypeOK'
  BY DEF CacheTypeOK
<1>2. ArgsChecked' /\ LocksHeld'
  BY DEF ArgsChecked, LocksHeld, Part
<1>3. LocksOwned' /\ MutualExclusion'
  BY DEF LocksOwned, MutualExclusion, Part
<1>4. EntriesSound'
  BY DEF EntriesSound
<1> QED
  BY <1>1, <1>2, <1>3, <1>4

LEMMA FindIInv ==
  ASSUME NEW b \in Backends, IInv, Find(b)
  PROVE  IInv'
<1> USE CacheAssumption DEF IInv, Find
<1>1. CacheTypeOK'
  <2>1. CASE table[arg[b].url] = None
    BY <2>1, CallTypes, ReturnType DEF CacheTypeOK
  <2>2. CASE table[arg[b].url] # None
    <3>1. pc' \in [Backends -> Labels]
      BY <2>2, GotoType DEF Labels
    <3>2. shared' \in [Partitions -> SUBSET Backends]
      BY <2>2, HoldersType DEF CacheTypeOK
    <3> QED
      BY <2>2, <3>1, <3>2 DEF CacheTypeOK
  <2> QED
    BY <2>1, <2>2
<1>2. ArgsChecked'
  BY DEF Return, Goto, CacheTypeOK, ArgsChecked, Calling, Reading, Writing
<1>3. LocksHeld'
  BY DEF Return, Goto, CacheTypeOK, ArgsChecked, LocksHeld, Part, Calling, Reading, Writing
<1>4. LocksOwned'
  BY DEF Return, Goto, CacheTypeOK, LocksOwned, Part, Reading, Writing
<1>5. MutualExclusion'
  BY DEF CacheTypeOK, MutualExclusion, Part, SharedFree
<1>6. EntriesSound'
  BY DEF Return, Goto, CacheTypeOK, EntriesSound
<1> QED
  BY <1>1, <1>2, <1>3, <1>4, <1>5, <1>6

LEMMA FindErrorIInv ==
  ASSUME NEW b \in Backends, IInv, FindError(b)
  PROVE  IInv'
<1> USE CacheAssumption DEF IInv, FindError
<1>1. CacheTypeOK'
  BY ThrowType, HoldersType DEF CacheTypeOK
<1>2. ArgsChecked'
  BY DEF Throw, CacheTypeOK, ArgsChecked, Calling, Reading, Writing
<1>3. LocksHeld'
  BY DEF Throw, CacheTypeOK, ArgsChecked, LocksHeld, Part, Calling, Reading, Writing
<1>4. LocksOwned'
  BY DEF Throw, CacheTypeOK, LocksOwned, Part, Reading, Writing
<1>5. MutualExclusion'
  BY DEF CacheTypeOK, MutualExclusion, Part, SharedFree
<1>6. EntriesSound'
  BY DEF Throw, CacheTypeOK, EntriesSound
<1> QED
  BY <1>1, <1>2, <1>3, <1>4, <1>5, <1>6

LEMMA CheckExpiredIInv ==
  ASSUME NEW b \in Backends, IInv, CheckExpired(b)
  PROVE  IInv'
<1> USE CacheAssumption DEF IInv, CheckExpired
<1>1. CacheTypeOK'
  BY GotoType DEF CacheTypeOK, Labels
<1>2. ArgsChecked'
  BY DEF Goto, CacheTypeOK, ArgsChecked, Calling, Reading, Writing
<1>3. LocksHeld'
  BY DEF Goto, CacheTypeOK, ArgsChecked, LocksHeld, Part, Calling, Reading, Writing
<1>4. LocksOwned'
  BY DEF Goto, CacheTypeOK, LocksOwned, Part, Reading, Writing
<1>5. MutualExclusion'
  BY DEF CacheTypeOK, MutualExclusion
<1>6. EntriesSound'
  BY DEF Goto, CacheTypeOK, EntriesSound
<1> QED
  BY <1>1, <1>2, <1>3, <1>4, <1>5, <1>6

LEMMA CopyJsonIInv ==
  ASSUME NEW b \in Backends, IInv, CopyJson(b)
  PROVE  IInv'
<1> USE CacheAssumption DEF IInv, CopyJson
<1>1. CacheTypeOK'
  <2>1. pc' \in [Backends -> Labels]
    BY GotoType DEF Labels
  <2>2. table[arg[b].url].json \in Texts
    BY DEF CacheTypeOK, ArgsChecked, LocksHeld, Calling, Reading, Entry
  <2>3. arg' \in [Backends -> Arg]
    BY <2>2 DEF CacheTypeOK, Arg
  <2> QED
    BY <2>1, <2>3 DEF CacheTypeOK
<1>2. ArgsChecked'
  BY DEF Goto, CacheTypeOK, ArgsChecked, Calling, Reading, Writing
<1>3. LocksHeld'
  BY DEF Goto, CacheTypeOK, ArgsChecked, LocksHeld, Part, Calling, Reading, Writing
<1>4. LocksOwned'
  BY DEF Goto, CacheTypeOK, LocksOwned, Part, Reading, Writing
<1>5. MutualExclusion'
  BY DEF CacheTypeOK, MutualExclusion
<1>6. EntriesSound'
  BY DEF Goto, CacheTypeOK, EntriesSound
<1> QED
  BY <1>1, <1>2, <1>3, <1>4, <1>5, <1>6

LEMMA ReleaseSharedIInv ==
  ASSUME NEW b \in Backends, IInv, ReleaseShared(b)
  PROVE  IInv'
<1> USE CacheAssumption DEF IInv, ReleaseShared, ReleaseLock
<1>1. CacheTypeOK'
  <2>1. Hit(arg[b].body) \in Result
    BY CallTypes DEF CacheTypeOK, Arg
  <2>2. pc' \in [Backends -> Labels] /\ arg' \in [Backends -> Arg] /\ ret' \in [Backends -> Result]
    BY <2>1, ReturnType
  <2>3. shared' \in [Partitions -> SUBSET Backends]
    BY HoldersType DEF CacheTypeOK
  <2> QED
    BY <2>2, <2>3 DEF CacheTypeOK
<1>2. ArgsChecked'
  BY DEF Return, CacheTypeOK, ArgsChecked, Calling, Reading, Writing
<1>3. LocksHeld'
  BY DEF Return, CacheTypeOK, ArgsChecked, LocksHeld, Part, Calling, Reading, Writing
<1>4. LocksOwned'
  BY DEF Return, CacheTypeOK, LocksOwned, Part, Reading, Writing
<1>5. MutualExclusion'
  BY DEF CacheTypeOK, MutualExclusion, Part
<1>6. EntriesSound'
  BY DEF Return, CacheTypeOK, EntriesSound
<1> QED
  BY <1>1, <1>2, <1>3, <1>4, <1>5, <1>6

LEMMA ExitIInv ==
  ASSUME NEW b \in Backends, IInv, Exit(b)
  PROVE  IInv'
<1> USE CacheAssumption DEF IInv, Exit
<1>1. CacheTypeOK'
  <2>1. pc' \in [Backends -> Labels] /\ arg' \in [Backends -> Arg] /\ ret' \in [Backends -> Result]
    BY CallTypes, ReturnType
  <2> QED
    BY <2>1 DEF CacheTypeOK
<1>2. ArgsChecked'
  BY DEF Return, CacheTypeOK, ArgsChecked, Calling, Reading, Writing
<1>3. LocksHeld'
  BY DEF Return, CacheTypeOK, ArgsChecked, LocksHeld, Part, Calling, Reading, Writing
<1>4. LocksOwned'
  BY DEF Return, CacheTypeOK, LocksOwned, Part, Reading, Writing
<1>5. MutualExclusion'
  BY DEF CacheTypeOK, MutualExclusion
<1>6. EntriesSound'
  BY DEF Return, CacheTypeOK, EntriesSound
<1> QED
  BY <1>1, <1>2, <1>3, <1>4, <1>5, <1>6

LEMMA GetIInv ==
  ASSUME NEW b \in Backends, NEW u \in Urls, IInv, Get(b, u)
  PROVE  IInv'
<1> USE CacheAssumption DEF IInv, Get
<1>1. CacheTypeOK'
  <2>1. CASE attached[b] /\ u \notin LongUrls
    BY <2>1, CallTypes, GotoType DEF CacheTypeOK, Labels
  <2>2. CASE ~(attached[b] /\ u \notin LongUrls)
    BY <2>2, CallTypes, ReturnType DEF CacheTypeOK
  <2> QED
    BY <2>1, <2>2
<1>2. ArgsChecked'
  BY DEF Return, Goto, CacheTypeOK, ArgsChecked, Calling, Reading, Writing, KeyArg
<1>3. LocksHeld'
  BY DEF Return, Goto, CacheTypeOK, ArgsChecked, LocksHeld, Part, Calling, Reading, Writing
<1>4. LocksOwned'
  BY DEF Return, Goto, CacheTypeOK, LocksOwned, Part, Reading, Writing
<1>5. MutualExclusion'
  BY DEF CacheTypeOK, MutualExclusion
<1>6. EntriesSound'
  BY DEF Return, Goto, CacheTypeOK, EntriesSound
<1> QED
  BY <1>1, <1>2, <1>3, <1>4, <1>5, <1>6

\* put, with any age up to MaxAge
LEMMA PutIInv ==
  ASSUME NEW b \in Backends, NEW u \in Urls, NEW text \in Bodies, NEW age \in Int,
         age <= MaxAge, IInv, Put(b, u, text, age)
  PROVE  IInv'
<1> USE CacheAssumption DEF IInv, Put
<1>1. CacheTypeOK'
  <2>1. CASE attached[b] /\ Cacheable(u, text, age)
    <3>1. [url |-> u, body |-> text, age |-> age] \in Arg
      BY DEF Arg, Texts
    <3> QED
      BY <2>1, <3>1, CallTypes, GotoType DEF CacheTypeOK, Labels
  <2>2. CASE ~(attached[b] /\ Cacheable(u, text, age))
    BY <2>2, CallTypes, ReturnType DEF CacheTypeOK
  <2> QED
    BY <2>1, <2>2
<1>2. ArgsChecked'
  BY DEF Return, Goto, CacheTypeOK, ArgsChecked, Calling, Reading, Writing, Cacheable
<1>3. LocksHeld'
  BY DEF Return, Goto, CacheTypeOK, ArgsChecked, LocksHeld, Part, Calling, Reading, Writing
<1>4. LocksOwned'
  BY DEF Return, Goto, CacheTypeOK, LocksOwned, Part, Reading, Writing
<1>5. MutualExclusion'
  BY DEF CacheTypeOK, MutualExclusion
<1>6. EntriesSound'
  BY DEF Return, Goto, CacheTypeOK, EntriesSound
<1> QED
  BY <1>1, <1>2, <1>3, <1>4, <1>5, <1>6

LEMMA InsertErrorIInv ==
  ASSUME NEW b \in Backends, IInv, InsertError(b)
  PROVE  IInv'
<1> USE CacheAssumption DEF IInv, InsertError
<1>1. CacheTypeOK'
  BY ThrowType, HoldersType DEF CacheTypeOK
<1>2. ArgsChecked'
  BY DEF Throw, CacheTypeOK, ArgsChecked, Calling, Reading, Writing
<1>3. LocksHeld'
  BY DEF Throw, CacheTypeOK, ArgsChecked, LocksHeld, Part, Calling, Reading, Writing
<1>4. LocksOwned'
  BY DEF Throw, CacheTypeOK, LocksOwned, Part, Reading, Writing
<1>5. MutualExclusion'
  BY DEF CacheTypeOK, MutualExclusion, Part, ExclusiveFree
<1>6. EntriesSound'
  BY DEF Throw, CacheTypeOK, EntriesSound
<1> QED
  BY <1>1, <1>2, <1>3, <1>4, <1>5, <1>6

LEMMA ReleaseExclusiveIInv ==
  ASSUME NEW b \in Backends, IInv, ReleaseExclusive(b)
  PROVE  IInv'
<1> USE CacheAssumption DEF IInv, ReleaseExclusive, ReleaseLock
<1>1. CacheTypeOK'
  <2>1. pc' \in [Backends -> Labels] /\ arg' \in [Backends -> Arg] /\ ret' \in [Backends -> Result]
    BY CallTypes, ReturnType
  <2>2. exclusive' \in [Partitions -> SUBSET Backends]
    BY HoldersType DEF CacheTypeOK
  <2> QED
    BY <2>1, <2>2 DEF CacheTypeOK
<1>2. ArgsChecked'
  BY DEF Return, CacheTypeOK, ArgsChecked, Calling, Reading, Writing
<1>3. LocksHeld'
  BY DEF Return, CacheTypeOK, ArgsChecked, LocksHeld, Part, Calling, Reading, Writing
<1>4. LocksOwned'
  BY DEF Return, CacheTypeOK, LocksOwned, Part, Reading, Writing
<1>5. MutualExclusion'
  BY DEF CacheTypeOK, MutualExclusion, Part
<1>6. EntriesSound'
  BY DEF Return, CacheTypeOK, EntriesSound
<1> QED
  BY <1>1, <1>2, <1>3, <1>4, <1>5, <1>6

LEMMA WriteJsonIInv ==
  ASSUME NEW b \in Backends, IInv, WriteJson(b)
  PROVE  IInv'
<1> USE CacheAssumption DEF IInv, WriteJson
<1> DEFINE u == arg[b].url
           e == [table[u] EXCEPT !.json = Strncpy(arg[b].body)]
<1>1. u \in Urls /\ u \notin LongUrls /\ table[u] \in Entry
  BY DEF CacheTypeOK, ArgsChecked, LocksHeld, Calling, Writing
<1>2. e \in Entry /\ e # None
  BY <1>1, NoneAssumption DEF CacheTypeOK, Entry, Arg, Texts, Strncpy
<1>3. CacheTypeOK'
  <2>1. pc' \in [Backends -> Labels]
    BY GotoType DEF Labels
  <2> QED
    BY <1>2, <2>1 DEF CacheTypeOK
<1>4. ArgsChecked'
  BY DEF Goto, CacheTypeOK, ArgsChecked, Calling, Reading, Writing
<1>5. LocksHeld'
  <2>1. \A v \in Urls : table[v] # None => table'[v] # None
    BY <1>2 DEF CacheTypeOK
  <2> QED
    BY <2>1 DEF Goto, CacheTypeOK, ArgsChecked, LocksHeld, Part, Calling, Reading, Writing
<1>6. LocksOwned'
  BY DEF Goto, CacheTypeOK, LocksOwned, Part, Reading, Writing
<1>7. MutualExclusion'
  BY DEF CacheTypeOK, MutualExclusion
<1>8. EntriesSound'
  <2> SUFFICES ASSUME NEW v \in Urls, table'[v] # None
               PROVE  /\ v \notin LongUrls
                      /\ (\A c \in Backends : ~(pc'[c] = "json" /\ arg'[c].url = v))
                           => table'[v].json \in Bodies \ LargeBodies
                      /\ (\A c \in Backends : ~(pc'[c] \in {"json", "expiration"} /\ arg'[c].url = v))
                           => table'[v].expiration <= clock' + MaxAge
    BY DEF EntriesSound
  <2>1. CASE v # u
    BY <2>1 DEF Goto, CacheTypeOK, EntriesSound
  <2>2. CASE v = u
    <3>1. pc'[b] = "expiration" /\ arg'[b].url = u
      BY DEF Goto, CacheTypeOK
    <3>2. table'[u].json \in Bodies \ LargeBodies
      BY <1>1 DEF CacheTypeOK, ArgsChecked, Entry, Strncpy
    <3> QED
      BY <2>2, <3>1, <3>2, <1>1
  <2> QED
    BY <2>1, <2>2
<1> QED
  BY <1>3, <1>4, <1>5, <1>6, <1>7, <1>8

LEMMA WriteExpirationIInv ==
  ASSUME NEW b \in Backends, IInv, WriteExpiration(b)
  PROVE  IInv'
<1> USE CacheAssumption DEF IInv, WriteExpiration
<1> DEFINE u == arg[b].url
           e == [table[u] EXCEPT !.expiration = clock + arg[b].age]
<1>1. u \in Urls /\ u \notin LongUrls /\ table[u] \in Entry
  BY DEF CacheTypeOK, ArgsChecked, LocksHeld, Calling, Writing
<1>2. e \in Entry /\ e # None
  BY <1>1, NoneAssumption DEF CacheTypeOK, Entry, Arg, Texts
<1>3. CacheTypeOK'
  <2>1. pc' \in [Backends -> Labels]
    BY GotoType DEF Labels
  <2> QED
    BY <1>2, <2>1 DEF CacheTypeOK
<1>4. ArgsChecked'
  BY DEF Goto, CacheTypeOK, ArgsChecked, Calling, Reading, Writing
<1>5. LocksHeld'
  <2>1. \A v \in Urls : table[v] # None => table'[v] # None
    BY <1>2 DEF CacheTypeOK
  <2> QED
    BY <2>1 DEF Goto, CacheTypeOK, ArgsChecked, LocksHeld, Part, Calling, Reading, Writing
<1>6. LocksOwned'
  BY DEF Goto, CacheTypeOK, LocksOwned, Part, Reading, Writing
<1>7. MutualExclusion'
  BY DEF CacheTypeOK, MutualExclusion
<1>8. EntriesSound'
  <2> SUFFICES ASSUME NEW v \in Urls, table'[v] # None
               PROVE  /\ v \notin LongUrls
                      /\ (\A c \in Backends : ~(pc'[c] = "json" /\ arg'[c].url = v))
                           => table'[v].json \in Bodies \ LargeBodies
                      /\ (\A c \in Backends : ~(pc'[c] \in {"json", "expiration"} /\ arg'[c].url = v))
                           => table'[v].expiration <= clock' + MaxAge
    BY DEF EntriesSound
  <2>1. CASE v # u
    BY <2>1 DEF Goto, CacheTypeOK, EntriesSound
  <2>2. CASE v = u
    <3>1. table'[u].json = table[u].json
      BY <1>1 DEF CacheTypeOK, Entry
    <3>2. table'[u].expiration <= clock + MaxAge
      BY <1>1 DEF CacheTypeOK, ArgsChecked, Entry, Arg
    <3>3. (\A c \in Backends : ~(pc'[c] = "json" /\ arg'[c].url = u))
            => \A c \in Backends : ~(pc[c] = "json" /\ arg[c].url = u)
      BY DEF Goto, CacheTypeOK
    <3> QED
      BY <2>2, <3>1, <3>2, <3>3, <1>1, NoneAssumption DEF EntriesSound
  <2> QED
    BY <2>1, <2>2
<1> QED
  BY <1>3, <1>4, <1>5, <1>6, <1>7, <1>8

LEMMA TickIInv ==
  ASSUME IInv, Tick
  PROVE  IInv'
<1> USE CacheAssumption DEF IInv, Tick
<1>1. CacheTypeOK'
  BY DEF CacheTypeOK
<1>2. ArgsChecked' /\ LocksHeld'
  BY DEF ArgsChecked, LocksHeld, Part
<1>3. LocksOwned' /\ MutualExclusion'
  BY DEF LocksOwned, MutualExclusion, Part
<1>4. EntriesSound'
  BY DEF CacheTypeOK, Entry, EntriesSound
<1> QED
  BY <1>1, <1>2, <1>3, <1>4

\* An eraser holds the shared lock itself, so it never gets the exclusive one:
\* only the put half of LockExclusive is ever taken.
LEMMA OnlyInsertLocks ==
  ASSUME NEW b \in Backends, IInv, LockExclusive(b)
  PROVE  pc[b] = "insert"
BY DEF IInv, LockExclusive, ExclusiveFree, LocksHeld, Reading

LEMMA LockExclusiveIInv ==
  ASSUME NEW b \in Backends, IInv, LockExclusive(b)
  PROVE  IInv'
<1> USE CacheAssumption DEF IInv
<1> DEFINE u == arg[b].url
<1>1. /\ pc[b] = "insert"
      /\ ExclusiveFree(b)
      /\ exclusive' = [exclusive EXCEPT ![Part(b)] = @ \cup {b}]
      /\ Goto(b, "json")
      /\ UNCHANGED <<clock, shared, attached, arg, ret>>
      /\ \E e \in Inserted(u) : table' = [table EXCEPT ![u] = e]
  BY OnlyInsertLocks DEF LockExclusive
<1>2. u \in Urls /\ u \notin LongUrls
  BY <1>1 DEF ArgsChecked, Calling
<1>3. PICK e \in Inserted(u) : table' = [table EXCEPT ![u] = e]
  BY <1>1
<1>4. e \in Entry /\ e # None
  <2>1. Junk \in Texts /\ 0 \in Int /\ MaxClock + MaxAge \in Int
    BY DEF Texts
  <2>2. CASE table[u] = None
    BY <2>1, <2>2, NoneAssumption DEF Inserted, Entry
  <2>3. CASE table[u] # None
    BY <1>2, <2>3 DEF Inserted, CacheTypeOK
  <2> QED
    BY <2>2, <2>3
<1>5. CacheTypeOK'
  <2>1. pc' \in [Backends -> Labels]
    BY <1>1, GotoType DEF Labels
  <2>2. exclusive' \in [Partitions -> SUBSET Backends]
    BY <1>1, HoldersType DEF CacheTypeOK
  <2>3. table' \in [Urls -> Entry \cup {None}]
    BY <1>3, <1>4 DEF CacheTypeOK
  <2> QED
    BY <1>1, <2>1, <2>2, <2>3 DEF CacheTypeOK
<1>6. ArgsChecked'
  BY <1>1 DEF Goto, CacheTypeOK, ArgsChecked, Calling, Reading, Writing
<1>7. LocksHeld'
  <2>1. table'[u] # None /\ \A v \in Urls : table[v] # None => table'[v] # None
    BY <1>2, <1>3, <1>4 DEF CacheTypeOK
  <2> QED
    BY <1>1, <1>2, <2>1 DEF Goto, CacheTypeOK, ArgsChecked, LocksHeld, Part, Calling, Reading, Writing
<1>8. LocksOwned'
  BY <1>1 DEF Goto, CacheTypeOK, LocksOwned, Part, Reading, Writing
<1>9. MutualExclusion'
  BY <1>1 DEF CacheTypeOK, MutualExclusion, Part, ExclusiveFree
<1>10. EntriesSound'
  <2>1. pc'[b] = "json" /\ arg'[b].url = u
    BY <1>1 DEF Goto, CacheTypeOK
  <2>2. \A v \in Urls : v # u => table'[v] = table[v]
    BY <1>3 DEF CacheTypeOK
  <2> QED
    BY <1>1, <1>2, <2>1, <2>2 DEF Goto, CacheTypeOK, EntriesSound
<1> QED
  BY <1>5, <1>6, <1>7, <1>8, <1>9, <1>10

-----------------------------------------------------------------------------
(* The invariant *)

LEMMA NextIInv == IInv /\ [CacheNext]_cacheVars => IInv'
<1> SUFFICES ASSUME IInv, [CacheNext]_cacheVars PROVE IInv'
  OBVIOUS
<1>1. CASE Tick
  BY <1>1, TickIInv
<1>2. CASE UNCHANGED cacheVars
  BY <1>2, StutterIInv
<1>3. ASSUME NEW b \in Backends, CacheStep(b) PROVE IInv'
  BY <1>3, FindIInv, FindErrorIInv, CheckExpiredIInv, CopyJsonIInv, ReleaseSharedIInv,
     LockExclusiveIInv, InsertErrorIInv, WriteJsonIInv, WriteExpirationIInv,
     ReleaseExclusiveIInv
     DEF CacheStep
<1>4. ASSUME NEW b \in Backends, CacheCall(b) PROVE IInv'
  <2>1. ASSUME NEW u \in Urls, NEW text \in Bodies, NEW age \in Ages, Put(b, u, text, age)
        PROVE  IInv'
    BY <2>1, PutIInv, CacheAssumption
  <2> QED
    BY <1>4, <2>1, AttachIInv, ExitIInv, GetIInv DEF CacheCall
<1> QED
  BY <1>1, <1>2, <1>3, <1>4 DEF CacheNext

\* Every reachable state of the cache satisfies the inductive invariant.
THEOREM Inductive == CacheSpec => []IInv
<1>1. CacheInit => IInv
  BY InitIInv
<1>2. IInv /\ [CacheNext]_cacheVars => IInv'
  BY NextIInv
<1> QED
  BY <1>1, <1>2, PTL DEF CacheSpec

\* The cache's variables keep their types, in particular an entry's text and
\* expiration (http_cache.hpp:20-36).
THEOREM TypeCorrect == CacheSpec => []CacheTypeOK
<1>1. IInv => CacheTypeOK
  BY DEF IInv
<1> QED
  BY <1>1, Inductive, PTL

\* An entry whose partition is not locked exclusively is a complete response,
\* short enough to be stored, that expires within MaxAge seconds: no reader of
\* the shared table meets the half-written state of put (http_cache.hpp:116-124).
THEOREM EntriesWhole == CacheSpec => []ReadableEntriesWhole
<1>1. IInv => ReadableEntriesWhole
  <2> SUFFICES ASSUME IInv, NEW u \in Urls, table[u] # None, exclusive[PartitionOf[u]] = {}
               PROVE  /\ u \notin LongUrls
                      /\ table[u].json \in Bodies \ LargeBodies
                      /\ table[u].expiration <= clock + MaxAge
    BY DEF ReadableEntriesWhole
  <2>1. \A b \in Backends : ~(pc[b] \in {"json", "expiration"} /\ arg[b].url = u)
    BY DEF IInv, LocksHeld, Writing, Part
  <2> QED
    BY <2>1 DEF IInv, EntriesSound
<1> QED
  BY <1>1, Inductive, PTL

\* A call of get or put that returned without an exception holds no partition
\* lock any more (entry_ref, dshash_wrapper.hpp:66-105).
THEOREM LocksReleased == CacheSpec => []NoLockOutlivesCall
<1>1. IInv => NoLockOutlivesCall
  BY DEF IInv, LocksOwned, NoLockOutlivesCall, Reading, Writing
<1> QED
  BY <1>1, Inductive, PTL

-----------------------------------------------------------------------------
(* What a reader is looking at does not change *)

\* Only the three steps of a put change the table, and only under its key.
LEMMA TableWriters ==
  ASSUME NEW b \in Backends, IInv, CacheStep(b) \/ CacheCall(b), table' # table
  PROVE  /\ \/ pc[b] = "insert" /\ ExclusiveFree(b)
            \/ pc[b] \in Writing
         /\ arg[b].url \in Urls
         /\ \A u \in Urls : u # arg[b].url => table'[u] = table[u]
<1>1. CASE LockExclusive(b)
  <2>1. pc[b] = "insert" /\ arg[b].url \in Urls
    BY <1>1, OnlyInsertLocks DEF IInv, ArgsChecked, Calling
  <2> QED
    BY <1>1, <2>1 DEF LockExclusive, IInv, CacheTypeOK
<1>2. CASE WriteJson(b)
  BY <1>2 DEF WriteJson, IInv, CacheTypeOK, ArgsChecked, Calling, Writing
<1>3. CASE WriteExpiration(b)
  BY <1>3 DEF WriteExpiration, IInv, CacheTypeOK, ArgsChecked, Calling, Writing
<1>4. CASE CacheStep(b) /\ ~LockExclusive(b) /\ ~WriteJson(b) /\ ~WriteExpiration(b)
  BY <1>4 DEF CacheStep, Find, FindError, CheckExpired, CopyJson, ReleaseShared,
              InsertError, ReleaseExclusive
<1>5. CASE CacheCall(b)
  BY <1>5 DEF CacheCall, Attach, Exit, Get, Put
<1> QED
  BY <1>1, <1>2, <1>3, <1>4, <1>5

\* No two backends write one entry, and nobody reads it meanwhile.
LEMMA WriterAlone ==
  ASSUME IInv, NEW b \in Backends, NEW c \in Backends,
         arg[b].url = arg[c].url, pc[b] \in Writing, pc[c] \in Writing \cup Reading
  PROVE  c = b
<1>1. /\ Part(b) \in Partitions /\ Part(c) = Part(b) /\ b \in exclusive[Part(b)]
      /\ c \in exclusive[Part(b)] \cup shared[Part(b)]
  BY CacheAssumption DEF IInv, ArgsChecked, LocksHeld, Part, Calling, Writing
<1> QED
  BY <1>1 DEF IInv, MutualExclusion

\* A step of one backend leaves the frames of the others alone.
LEMMA OwnFrame ==
  ASSUME NEW b \in Backends, IInv, CacheStep(b) \/ CacheCall(b)
  PROVE  \A c \in Backends \ {b} : pc'[c] = pc[c] /\ arg'[c] = arg[c] /\ ret'[c] = ret[c]
BY DEF IInv, CacheTypeOK, CacheStep, CacheCall, Attach, Exit, Get, Put, Find, FindError,
       CheckExpired, CopyJson, ReleaseShared, LockExclusive, InsertError, WriteJson,
       WriteExpiration, ReleaseExclusive, Return, Throw, Goto

\* The entry that a backend writes, or has in front of it under its shared
\* lock, is not changed by a step of another one.
LEMMA StepKeepsWritten ==
  ASSUME IInv, NEW b \in Backends, NEW c \in Backends \ {b}, CacheStep(c) \/ CacheCall(c),
         pc[b] \in Writing \cup Reading
  PROVE  table'[arg[b].url] = table[arg[b].url]
<1> SUFFICES ASSUME table'[arg[b].url] # table[arg[b].url]
             PROVE  FALSE
  OBVIOUS
<1>1. arg[b].url \in Urls /\ b \in shared[Part(b)] \cup exclusive[Part(b)]
  BY DEF IInv, ArgsChecked, LocksHeld, Calling
<1>2. /\ \/ pc[c] = "insert" /\ ExclusiveFree(c)
         \/ pc[c] \in Writing
      /\ arg[c].url = arg[b].url
  BY <1>1, TableWriters
<1>3. ~(pc[c] = "insert" /\ ExclusiveFree(c))
  BY <1>1, <1>2 DEF ExclusiveFree, Part
<1> QED
  BY <1>2, <1>3, WriterAlone

\* Between the expiry check of get and its copy of the text the entry stays as
\* it is, whatever the other backends do (http_cache.hpp:87-92).
THEOREM CheckedEntriesStable == CacheSpec => CheckedEntryStable
<1> DEFINE Stable == \A b \in Backends :
             pc[b] \in {"check", "copy"} => table'[arg[b].url] = table[arg[b].url]
<1>1. IInv /\ [CacheNext]_cacheVars => [Stable]_cacheVars
  <2> SUFFICES ASSUME IInv, CacheNext, NEW b \in Backends, pc[b] \in {"check", "copy"}
               PROVE  table'[arg[b].url] = table[arg[b].url]
    BY DEF CacheNext
  <2>1. CASE Tick
    BY <2>1 DEF Tick
  <2>2. CASE CacheStep(b) \/ CacheCall(b)
    BY <2>2, TableWriters DEF Writing
  <2>3. ASSUME NEW c \in Backends \ {b}, CacheStep(c) \/ CacheCall(c)
        PROVE  table'[arg[b].url] = table[arg[b].url]
    BY <2>3, StepKeepsWritten DEF Reading
  <2> QED
    BY <2>1, <2>2, <2>3 DEF CacheNext
<1> QED
  BY <1>1, Inductive, PTL DEF CacheSpec, CheckedEntryStable

-----------------------------------------------------------------------------
(* HttpCache implements ExpiringMap.                                        *)
(*                                                                          *)
(* A put takes effect when it writes the expiration (the last field); a get *)
(* that hits takes effect at its expiry check, although it copies the text  *)
(* later and other backends take steps in between.  Both need that writers  *)
(* of one key are alone with it, which is the invariant above, and that the *)
(* text a put wrote is still there when it writes the expiration.           *)

\* put has copied its text into the entry before it writes the expiration.
TextWritten ==
  \A b \in Backends : pc[b] = "expiration" => table[arg[b].url].json = arg[b].body

RInv == IInv /\ TextWritten

\* The phase of ExpiringMap at each position in the code.
LEMMA Phases ==
  /\ PhaseOf("idle") = "idle" /\ PhaseOf("failed") = "failed"
  /\ PhaseOf("find") = "getting" /\ PhaseOf("check") = "getting"
  /\ PhaseOf("erase") = "getting"
  /\ PhaseOf("copy") = "answering" /\ PhaseOf("unshare") = "answering"
  /\ PhaseOf("insert") = "putting" /\ PhaseOf("json") = "putting"
  /\ PhaseOf("expiration") = "putting" /\ PhaseOf("unlock") = "stored"
BY Zenon DEF PhaseOf

\* The phases after a step of one backend.
LEMMA PhaseMoves ==
  ASSUME NEW b \in Backends, IInv, CacheStep(b) \/ CacheCall(b)
  PROVE  AbstractPhase' = [AbstractPhase EXCEPT ![b] = PhaseOf(pc'[b])]
<1>1. \A c \in Backends \ {b} : PhaseOf(pc[c])' = PhaseOf(pc[c])
  <2>1. \A c \in Backends \ {b} : pc'[c] = pc[c]
    BY OwnFrame
  <2> QED
    BY <2>1
<1> QED
  BY <1>1 DEF AbstractPhase

\* What b asks for, or will answer with, in the terms of ExpiringMap.
Request(b) == IF pc[b] = "copy" THEN [arg[b] EXCEPT !.body = table[arg[b].url].json]
                                ELSE arg[b]

\* The requests after a step of one backend: readers between check and copy
\* still have their entry in front of them.
LEMMA RequestMoves ==
  ASSUME NEW b \in Backends, IInv, CacheStep(b) \/ CacheCall(b)
  PROVE  AbstractReq' = [AbstractReq EXCEPT ![b] = Request(b)']
<1>1. \A c \in Backends \ {b} : pc'[c] = pc[c] /\ arg'[c] = arg[c]
  BY OwnFrame
<1>2. ASSUME NEW c \in Backends \ {b}, pc[c] = "copy"
      PROVE  table'[arg[c].url] = table[arg[c].url]
  BY <1>2, StepKeepsWritten DEF Reading
<1>3. \A c \in Backends \ {b} : Request(c)' = Request(c)
  BY <1>1, <1>2 DEF Request
<1>4. /\ AbstractReq = [c \in Backends |-> Request(c)]
      /\ AbstractReq' = [c \in Backends |-> Request(c)']
  BY DEF AbstractReq, Request
<1> QED
  BY <1>3, <1>4

\* The map after a step that neither begins nor ends the writing of an entry.
LEMMA MapStays ==
  ASSUME NEW b \in Backends, IInv, CacheStep(b) \/ CacheCall(b), table' = table,
         pc[b] \notin {"json", "expiration"}, pc'[b] \notin {"json", "expiration"}
  PROVE  AbstractMap' = AbstractMap
<1>1. \A u \in Urls : BeingWritten(u)' <=> BeingWritten(u)
  BY OwnFrame DEF BeingWritten
<1> QED
  BY <1>1 DEF AbstractMap

\* A step inside a phase that changes neither the request nor the map.
LEMMA StepStutters ==
  ASSUME NEW b \in Backends, IInv, CacheStep(b) \/ CacheCall(b),
         PhaseOf(pc'[b]) = PhaseOf(pc[b]), Request(b)' = Request(b),
         AbstractMap' = AbstractMap, ret' = ret, clock' = clock
  PROVE  UNCHANGED Abstract!vars
<1>1. AbstractPhase' = AbstractPhase
  BY PhaseMoves DEF AbstractPhase
<1>2. AbstractReq' = AbstractReq
  BY RequestMoves DEF AbstractReq, Request
<1> QED
  BY <1>1, <1>2 DEF Abstract!vars

-----------------------------------------------------------------------------
(* TextWritten is an invariant                                              *)

LEMMA InitRInv == CacheInit => RInv
BY InitIInv DEF RInv, CacheInit, TextWritten

\* Only put's own step changes the entry that it is writing.
LEMMA NextRInv == RInv /\ [CacheNext]_cacheVars => RInv'
<1> SUFFICES ASSUME RInv, [CacheNext]_cacheVars
             PROVE  RInv'
  OBVIOUS
<1>1. IInv /\ IInv'
  BY NextIInv DEF RInv
<1> SUFFICES ASSUME NEW b \in Backends, pc'[b] = "expiration"
             PROVE  table'[arg'[b].url].json = arg'[b].body
  BY <1>1 DEF RInv, TextWritten
<1>2. CASE UNCHANGED cacheVars \/ Tick
  BY <1>2 DEF RInv, TextWritten, cacheVars, Tick
<1>3. ASSUME NEW c \in Backends \ {b}, CacheStep(c) \/ CacheCall(c)
      PROVE  table'[arg'[b].url].json = arg'[b].body
  <2>1. pc[b] = "expiration" /\ arg'[b] = arg[b]
    BY <1>1, <1>3, OwnFrame
  <2>2. table'[arg[b].url] = table[arg[b].url]
    BY <1>1, <1>3, <2>1, StepKeepsWritten DEF Writing
  <2> QED
    BY <2>1, <2>2 DEF RInv, TextWritten
<1>4. ASSUME CacheStep(b) \/ CacheCall(b)
      PROVE  table'[arg'[b].url].json = arg'[b].body
  <2>1. WriteJson(b)
    BY <1>1, <1>4 DEF IInv, CacheTypeOK, CacheStep, CacheCall, Attach, Exit, Get, Put, Find,
                 FindError, CheckExpired, CopyJson, ReleaseShared, LockExclusive,
                 InsertError, WriteExpiration, ReleaseExclusive, Return, Throw, Goto
  <2>2. /\ arg[b].url \in Urls /\ table[arg[b].url] \in Entry
        /\ arg[b].body \notin LargeBodies
    BY <1>1, <2>1 DEF IInv, WriteJson, CacheTypeOK, ArgsChecked, LocksHeld, Calling, Writing
  <2> QED
    BY <1>1, <2>1, <2>2 DEF IInv, WriteJson, CacheTypeOK, Entry, Strncpy
<1> QED
  BY <1>2, <1>3, <1>4 DEF CacheNext

-----------------------------------------------------------------------------
(* The initial states and the steps of ExpiringMap                          *)

\* An empty table is an empty map.
LEMMA InitImplements == CacheInit => Abstract!Init
<1> SUFFICES ASSUME CacheInit PROVE Abstract!Init
  OBVIOUS
<1>1. AbstractMap = [u \in Urls |-> None]
  BY DEF CacheInit, AbstractMap, BeingWritten
<1>2. AbstractPhase = [b \in Backends |-> "idle"]
  BY Phases DEF CacheInit, AbstractPhase
<1>3. AbstractReq = [b \in Backends |-> NoArg]
  BY DEF CacheInit, AbstractReq
<1> QED
  BY <1>1, <1>2, <1>3 DEF CacheInit, Abstract!Init, Abstract!NoReq, NoArg, KeyArg, NoResult

\* Steps that return, or leave with an exception, end the request.
LEMMA ReturnEnds ==
  ASSUME NEW b \in Backends, IInv, CacheStep(b) \/ CacheCall(b),
         NEW r, Return(b, r)
  PROVE  /\ AbstractPhase' = [AbstractPhase EXCEPT ![b] = "idle"]
         /\ AbstractReq' = [AbstractReq EXCEPT ![b] = Abstract!NoReq]
         /\ ret' = [ret EXCEPT ![b] = r]
         /\ pc'[b] = "idle"
<1>1. pc' = [pc EXCEPT ![b] = "idle"] /\ pc'[b] = "idle" /\ arg'[b] = NoArg
  BY DEF IInv, CacheTypeOK, Return
<1>2. Request(b)' = Abstract!NoReq
  BY <1>1 DEF Request, Abstract!NoReq, NoArg, KeyArg
<1>3. AbstractPhase' = [AbstractPhase EXCEPT ![b] = "idle"]
  BY <1>1, PhaseMoves, Phases
<1> QED
  BY <1>1, <1>2, <1>3, RequestMoves DEF Return

\* dshash's ERRORs are failures of the map.
LEMMA ErrorImplements ==
  ASSUME NEW b \in Backends, IInv, FindError(b) \/ InsertError(b)
  PROVE  Abstract!Fail(b)
<1>1. /\ CacheStep(b) /\ Throw(b) /\ table' = table /\ clock' = clock
      /\ pc[b] \in {"find", "insert"} /\ pc'[b] = "failed" /\ arg'[b] = NoArg
  BY DEF IInv, CacheTypeOK, CacheStep, FindError, InsertError, Throw
<1>2. AbstractMap' = AbstractMap
  BY <1>1, MapStays
<1>3. AbstractPhase' = [AbstractPhase EXCEPT ![b] = "failed"]
  BY <1>1, PhaseMoves, Phases
<1>4. Request(b)' = Abstract!NoReq
  BY <1>1 DEF Request, Abstract!NoReq, NoArg, KeyArg
<1>5. AbstractPhase[b] \in {"getting", "putting"}
  BY <1>1, Phases DEF AbstractPhase
<1> QED
  BY <1>1, <1>2, <1>3, <1>4, <1>5, RequestMoves
  DEF Abstract!Fail, Abstract!Ends, Throw, Answer

\* A call that the cache declines, and the end of a process.
LEMMA ExitImplements ==
  ASSUME NEW b \in Backends, IInv, Exit(b)
  PROVE  Abstract!Leave(b)
<1>1. /\ CacheCall(b) /\ Return(b, NoResult) /\ table' = table /\ clock' = clock
      /\ pc[b] \in {"idle", "failed"}
  BY DEF CacheCall, Exit
<1>2. /\ AbstractPhase' = [AbstractPhase EXCEPT ![b] = "idle"]
      /\ AbstractReq' = [AbstractReq EXCEPT ![b] = Abstract!NoReq]
      /\ ret' = [ret EXCEPT ![b] = NoResult] /\ pc'[b] = "idle"
  BY <1>1, ReturnEnds
<1>3. AbstractMap' = AbstractMap
  BY <1>1, <1>2, MapStays
<1>4. AbstractPhase[b] \in {"idle", "failed"}
  BY <1>1, Phases DEF AbstractPhase
<1> QED
  BY <1>1, <1>2, <1>3, <1>4 DEF Abstract!Leave, Abstract!Ends, NoResult

\* get and put either begin a request or decline the call.
LEMMA GetImplements ==
  ASSUME NEW b \in Backends, NEW u \in Urls, IInv, Get(b, u)
  PROVE  Abstract!BeginGet(b, u) \/ Abstract!Decline(b)
<1>1. CacheCall(b) /\ table' = table /\ clock' = clock /\ pc[b] = "idle"
  BY DEF CacheCall, Get
<1>2. AbstractPhase[b] = "idle"
  BY <1>1, Phases DEF AbstractPhase
<1>3. CASE attached[b] /\ u \notin LongUrls
  <2>1. /\ pc'[b] = "find" /\ arg'[b] = KeyArg(u)
        /\ ret' = [ret EXCEPT ![b] = NoResult]
    BY <1>3 DEF IInv, CacheTypeOK, Get, Goto
  <2>2. Request(b)' = [Abstract!NoReq EXCEPT !.url = u]
    BY <2>1 DEF Request, Abstract!NoReq, KeyArg
  <2>3. AbstractPhase' = [AbstractPhase EXCEPT ![b] = "getting"]
    BY <1>1, <2>1, PhaseMoves, Phases
  <2>4. AbstractMap' = AbstractMap
    BY <1>1, <2>1, MapStays
  <2>5. AbstractReq' = [AbstractReq EXCEPT ![b] = [Abstract!NoReq EXCEPT !.url = u]]
    BY <1>1, <2>2, RequestMoves
  <2> QED
    BY <1>1, <1>2, <2>1, <2>3, <2>4, <2>5
    DEF Abstract!BeginGet, Abstract!Moves, Abstract!Begins, NoResult
<1>4. CASE ~(attached[b] /\ u \notin LongUrls)
  <2>1. Return(b, Answer("miss"))
    BY <1>4 DEF Get
  <2>2. /\ AbstractPhase' = [AbstractPhase EXCEPT ![b] = "idle"]
        /\ AbstractReq' = [AbstractReq EXCEPT ![b] = Abstract!NoReq]
        /\ ret' = [ret EXCEPT ![b] = Answer("miss")] /\ pc'[b] = "idle"
    BY <1>1, <2>1, ReturnEnds
  <2>3. AbstractMap' = AbstractMap
    BY <1>1, <2>2, MapStays
  <2> QED
    BY <1>1, <1>2, <2>2, <2>3 DEF Abstract!Decline, Abstract!Moves, Abstract!Ends, Answer
<1> QED
  BY <1>3, <1>4

LEMMA PutImplements ==
  ASSUME NEW b \in Backends, NEW u \in Urls, NEW text \in Bodies, NEW age \in Ages, IInv,
         Put(b, u, text, age)
  PROVE  Abstract!BeginPut(b, u, text, age) \/ Abstract!Decline(b)
<1>1. CacheCall(b) /\ table' = table /\ clock' = clock /\ pc[b] = "idle"
  BY DEF CacheCall, Put
<1>2. AbstractPhase[b] = "idle"
  BY <1>1, Phases DEF AbstractPhase
<1>3. CASE attached[b] /\ Cacheable(u, text, age)
  <2>1. /\ pc'[b] = "insert" /\ arg'[b] = [url |-> u, body |-> text, age |-> age]
        /\ ret' = [ret EXCEPT ![b] = NoResult] /\ age > 0
    BY <1>3 DEF IInv, CacheTypeOK, Put, Goto, Cacheable
  <2>2. Request(b)' = [url |-> u, body |-> text, age |-> age]
    BY <2>1 DEF Request
  <2>3. AbstractPhase' = [AbstractPhase EXCEPT ![b] = "putting"]
    BY <1>1, <2>1, PhaseMoves, Phases
  <2>4. AbstractMap' = AbstractMap
    BY <1>1, <2>1, MapStays
  <2>5. AbstractReq' = [AbstractReq EXCEPT ![b] = [url |-> u, body |-> text, age |-> age]]
    BY <1>1, <2>2, RequestMoves
  <2> QED
    BY <1>1, <1>2, <2>1, <2>3, <2>4, <2>5
    DEF Abstract!BeginPut, Abstract!Moves, Abstract!Begins, NoResult
<1>4. CASE ~(attached[b] /\ Cacheable(u, text, age))
  <2>1. Return(b, Answer("refused"))
    BY <1>4 DEF Put
  <2>2. /\ AbstractPhase' = [AbstractPhase EXCEPT ![b] = "idle"]
        /\ AbstractReq' = [AbstractReq EXCEPT ![b] = Abstract!NoReq]
        /\ ret' = [ret EXCEPT ![b] = Answer("refused")] /\ pc'[b] = "idle"
    BY <1>1, <2>1, ReturnEnds
  <2>3. AbstractMap' = AbstractMap
    BY <1>1, <2>2, MapStays
  <2> QED
    BY <1>1, <1>2, <2>2, <2>3 DEF Abstract!Decline, Abstract!Moves, Abstract!Ends, Answer
<1> QED
  BY <1>3, <1>4

\* A lookup that finds no entry answers; one that finds an entry goes on.
LEMMA FindImplements ==
  ASSUME NEW b \in Backends, IInv, Find(b)
  PROVE  Abstract!AnswerMiss(b) \/ UNCHANGED Abstract!vars
<1>1. CacheStep(b) /\ table' = table /\ clock' = clock /\ pc[b] = "find"
  BY DEF CacheStep, Find
<1>2. AbstractPhase[b] = "getting"
  BY <1>1, Phases DEF AbstractPhase
<1>3. CASE table[arg[b].url] = None
  <2>1. Return(b, Answer("miss"))
    BY <1>3 DEF Find
  <2>2. /\ AbstractPhase' = [AbstractPhase EXCEPT ![b] = "idle"]
        /\ AbstractReq' = [AbstractReq EXCEPT ![b] = Abstract!NoReq]
        /\ ret' = [ret EXCEPT ![b] = Answer("miss")] /\ pc'[b] = "idle"
    BY <1>1, <2>1, ReturnEnds
  <2>3. AbstractMap' = AbstractMap
    BY <1>1, <2>2, MapStays
  <2> QED
    BY <1>1, <1>2, <2>2, <2>3 DEF Abstract!AnswerMiss, Abstract!Moves, Abstract!Ends, Answer
<1>4. CASE table[arg[b].url] # None
  <2>1. pc'[b] = "check" /\ arg' = arg /\ ret' = ret
    BY <1>4 DEF IInv, CacheTypeOK, Find, Goto
  <2>2. Request(b)' = Request(b) /\ PhaseOf(pc'[b]) = PhaseOf(pc[b])
    BY <1>1, <2>1, Phases DEF Request
  <2>3. AbstractMap' = AbstractMap
    BY <1>1, <2>1, MapStays
  <2> QED
    BY <1>1, <2>1, <2>2, <2>3, StepStutters
<1> QED
  BY <1>3, <1>4

\* The expiry check decides the answer, unless the entry has expired.
LEMMA CheckImplements ==
  ASSUME NEW b \in Backends, IInv, CheckExpired(b)
  PROVE  Abstract!Choose(b) \/ UNCHANGED Abstract!vars
<1> DEFINE u == arg[b].url
<1>1. /\ CacheStep(b) /\ pc[b] = "check" /\ UNCHANGED <<clock, table, arg, ret>>
      /\ pc'[b] = IF IsExpired(table[u]) THEN "erase" ELSE "copy"
  BY DEF IInv, CacheTypeOK, CacheStep, CheckExpired, Goto
<1>2. u \in Urls /\ table[u] \in Entry /\ table[u] # None
  BY <1>1 DEF IInv, CacheTypeOK, ArgsChecked, LocksHeld, Calling, Reading
<1>3. AbstractMap' = AbstractMap
  BY <1>1, MapStays
<1>4. CASE IsExpired(table[u])
  <2>1. Request(b)' = Request(b) /\ PhaseOf(pc'[b]) = PhaseOf(pc[b])
    BY <1>1, <1>4, Phases DEF Request
  <2> QED
    BY <1>1, <1>3, <2>1, StepStutters
<1>5. CASE ~IsExpired(table[u])
  <2>1. ~BeingWritten(u)
    BY <1>1, WriterAlone DEF BeingWritten, Reading, Writing
  <2>2. AbstractMap[u] = table[u]
    BY <1>2, <2>1 DEF AbstractMap
  <2>3. clock < table[u].expiration
    BY <1>2, <1>5 DEF IsExpired, IInv, CacheTypeOK, Entry
  <2>4. AbstractReq[b] = arg[b] /\ AbstractPhase[b] = "getting"
    BY <1>1, Phases DEF AbstractReq, AbstractPhase
  <2>5. AbstractPhase' = [AbstractPhase EXCEPT ![b] = "answering"]
    BY <1>1, <1>5, PhaseMoves, Phases
  <2>6. Request(b)' = [arg[b] EXCEPT !.body = table[u].json]
    BY <1>1, <1>5 DEF Request
  <2>7. AbstractReq' = [AbstractReq EXCEPT ![b] = [arg[b] EXCEPT !.body = table[u].json]]
    BY <1>1, <2>6, RequestMoves
  <2>8. AbstractReq' = [AbstractReq EXCEPT ![b].body = AbstractMap[AbstractReq[b].url].json]
    BY <2>2, <2>4, <2>7
  <2> QED
    BY <1>1, <1>2, <1>3, <2>2, <2>3, <2>4, <2>5, <2>8 DEF Abstract!Choose, Abstract!Moves
<1> QED
  BY <1>4, <1>5

\* The copy of the text takes what was chosen.
LEMMA CopyImplements ==
  ASSUME NEW b \in Backends, IInv, CopyJson(b)
  PROVE  UNCHANGED Abstract!vars
<1>1. /\ CacheStep(b) /\ pc[b] = "copy" /\ pc'[b] = "unshare"
      /\ UNCHANGED <<clock, table, ret>>
      /\ arg'[b] = [arg[b] EXCEPT !.body = table[arg[b].url].json]
  BY DEF IInv, CacheTypeOK, CacheStep, CopyJson, Goto
<1>2. Request(b)' = Request(b) /\ PhaseOf(pc'[b]) = PhaseOf(pc[b])
  BY <1>1, Phases DEF Request
<1>3. AbstractMap' = AbstractMap
  BY <1>1, MapStays
<1> QED
  BY <1>1, <1>2, <1>3, StepStutters

\* get returns the text.
LEMMA ReleaseSharedImplements ==
  ASSUME NEW b \in Backends, IInv, ReleaseShared(b)
  PROVE  Abstract!AnswerHit(b)
<1>1. /\ CacheStep(b) /\ pc[b] = "unshare" /\ UNCHANGED <<clock, table>>
      /\ Return(b, Hit(arg[b].body))
  BY DEF CacheStep, ReleaseShared
<1>2. /\ AbstractPhase' = [AbstractPhase EXCEPT ![b] = "idle"]
      /\ AbstractReq' = [AbstractReq EXCEPT ![b] = Abstract!NoReq]
      /\ ret' = [ret EXCEPT ![b] = Hit(arg[b].body)] /\ pc'[b] = "idle"
  BY <1>1, ReturnEnds
<1>3. AbstractMap' = AbstractMap
  BY <1>1, <1>2, MapStays
<1>4. AbstractPhase[b] = "answering" /\ AbstractReq[b].body = arg[b].body
  BY <1>1, Phases DEF AbstractPhase, AbstractReq
<1> QED
  BY <1>1, <1>2, <1>3, <1>4 DEF Abstract!AnswerHit, Abstract!Moves, Abstract!Ends, Hit

\* put takes the lock and the old entry, if there is one, is gone.
LEMMA LockImplements ==
  ASSUME NEW b \in Backends, IInv, LockExclusive(b)
  PROVE  Abstract!Displace(b)
<1> DEFINE u == arg[b].url
<1>1. /\ CacheStep(b) /\ pc[b] = "insert" /\ pc'[b] = "json" /\ u \in Urls
      /\ UNCHANGED <<clock, arg, ret>>
      /\ \A v \in Urls : v # u => table'[v] = table[v]
  BY OnlyInsertLocks
  DEF IInv, CacheTypeOK, ArgsChecked, Calling, CacheStep, LockExclusive, Goto
<1>2. BeingWritten(u)' /\ \A v \in Urls : v # u => (BeingWritten(v)' <=> BeingWritten(v))
  BY <1>1, OwnFrame DEF BeingWritten
<1>3. AbstractMap' = [AbstractMap EXCEPT ![u] = None]
  BY <1>1, <1>2 DEF AbstractMap
<1>4. AbstractPhase' = AbstractPhase /\ AbstractPhase[b] = "putting"
  <2>1. PhaseOf(pc'[b]) = PhaseOf(pc[b]) /\ PhaseOf(pc[b]) = "putting"
    BY <1>1, Phases
  <2>2. AbstractPhase' = [AbstractPhase EXCEPT ![b] = PhaseOf(pc'[b])]
    BY <1>1, PhaseMoves
  <2> QED
    BY <2>1, <2>2 DEF AbstractPhase
<1>5. AbstractReq' = AbstractReq /\ AbstractReq[b] = arg[b]
  BY <1>1, RequestMoves DEF AbstractReq, Request
<1> QED
  BY <1>1, <1>3, <1>4, <1>5 DEF Abstract!Displace

\* Nobody sees the text before the expiration is written.
LEMMA WriteJsonImplements ==
  ASSUME NEW b \in Backends, IInv, WriteJson(b)
  PROVE  UNCHANGED Abstract!vars
<1> DEFINE u == arg[b].url
<1>1. /\ CacheStep(b) /\ pc[b] = "json" /\ pc'[b] = "expiration" /\ u \in Urls
      /\ UNCHANGED <<clock, arg, ret>>
      /\ \A v \in Urls : v # u => table'[v] = table[v]
  BY DEF IInv, CacheTypeOK, ArgsChecked, Calling, Writing, CacheStep, WriteJson, Goto
<1>2. BeingWritten(u) /\ \A v \in Urls : BeingWritten(v)' <=> BeingWritten(v)
  BY <1>1, OwnFrame DEF BeingWritten
<1>3. AbstractMap' = AbstractMap
  BY <1>1, <1>2 DEF AbstractMap
<1>4. Request(b)' = Request(b) /\ PhaseOf(pc'[b]) = PhaseOf(pc[b])
  BY <1>1, Phases DEF Request
<1> QED
  BY <1>1, <1>3, <1>4, StepStutters

\* The whole entry appears with its expiration.
LEMMA WriteExpirationImplements ==
  ASSUME NEW b \in Backends, RInv, WriteExpiration(b)
  PROVE  Abstract!Store(b)
<1> DEFINE u == arg[b].url
           e == [json |-> arg[b].body, expiration |-> clock + arg[b].age]
<1>1. /\ CacheStep(b) /\ pc[b] = "expiration" /\ pc'[b] = "unlock" /\ u \in Urls
      /\ UNCHANGED <<clock, arg, ret>>
      /\ \A v \in Urls : v # u => table'[v] = table[v]
  BY DEF RInv, IInv, CacheTypeOK, ArgsChecked, Calling, Writing, CacheStep, WriteExpiration, Goto
<1>2. table[u] \in Entry /\ table[u].json = arg[b].body
  BY <1>1 DEF RInv, IInv, CacheTypeOK, LocksHeld, Writing, TextWritten
<1>3. table'[u] = e
  BY <1>1, <1>2 DEF RInv, IInv, CacheTypeOK, WriteExpiration, Entry
<1>4. \A c \in Backends \ {b} : ~(pc[c] \in {"json", "expiration"} /\ arg[c].url = u)
  BY <1>1, WriterAlone DEF RInv, Writing
<1>5. ~BeingWritten(u)' /\ \A v \in Urls : v # u => (BeingWritten(v)' <=> BeingWritten(v))
  BY <1>1, <1>4, OwnFrame DEF RInv, BeingWritten
<1>6. AbstractMap' = [AbstractMap EXCEPT ![u] = e]
  BY <1>1, <1>3, <1>5 DEF AbstractMap
<1>7. AbstractPhase' = [AbstractPhase EXCEPT ![b] = "stored"] /\ AbstractPhase[b] = "putting"
  BY <1>1, PhaseMoves, Phases DEF RInv, AbstractPhase
<1>8. AbstractReq' = AbstractReq /\ AbstractReq[b] = arg[b]
  BY <1>1, RequestMoves DEF RInv, AbstractReq, Request
<1> QED
  BY <1>1, <1>6, <1>7, <1>8 DEF Abstract!Store, Abstract!Moves

\* put returns.
LEMMA ReleaseExclusiveImplements ==
  ASSUME NEW b \in Backends, IInv, ReleaseExclusive(b)
  PROVE  Abstract!AnswerStored(b)
<1>1. /\ CacheStep(b) /\ pc[b] = "unlock" /\ UNCHANGED <<clock, table>>
      /\ Return(b, Answer("stored"))
  BY DEF CacheStep, ReleaseExclusive
<1>2. /\ AbstractPhase' = [AbstractPhase EXCEPT ![b] = "idle"]
      /\ AbstractReq' = [AbstractReq EXCEPT ![b] = Abstract!NoReq]
      /\ ret' = [ret EXCEPT ![b] = Answer("stored")] /\ pc'[b] = "idle"
  BY <1>1, ReturnEnds
<1>3. AbstractMap' = AbstractMap
  BY <1>1, <1>2, MapStays
<1>4. AbstractPhase[b] = "stored"
  BY <1>1, Phases DEF AbstractPhase
<1> QED
  BY <1>1, <1>2, <1>3, <1>4 DEF Abstract!AnswerStored, Abstract!Moves, Abstract!Ends, Answer

\* Steps that the map does not see: attach, and no step at all.
LEMMA AttachImplements ==
  ASSUME \/ \E b \in Backends : Attach(b)
         \/ UNCHANGED cacheVars
  PROVE  UNCHANGED Abstract!vars
BY DEF Attach, cacheVars, Abstract!vars, AbstractMap, BeingWritten, AbstractPhase, AbstractReq

\* Time.
LEMMA TickImplements ==
  ASSUME Tick
  PROVE  Abstract!Tick
BY DEF Tick, Abstract!Tick, AbstractMap, BeingWritten, AbstractPhase, AbstractReq

-----------------------------------------------------------------------------
(* The theorem                                                              *)

\* Each step of the cache is a step of the map, or one that the map does not
\* see.
LEMMA NextImplements == RInv /\ [CacheNext]_cacheVars => [Abstract!Next]_Abstract!vars
<1> SUFFICES ASSUME RInv, [CacheNext]_cacheVars
             PROVE  [Abstract!Next]_Abstract!vars
  OBVIOUS
<1>1. IInv
  BY DEF RInv
<1>2. CASE Tick
  BY <1>2, TickImplements DEF Abstract!Next
<1>3. CASE UNCHANGED cacheVars
  BY <1>3, AttachImplements
<1>4. ASSUME NEW b \in Backends, CacheCall(b)
      PROVE  [Abstract!Next]_Abstract!vars
  BY <1>1, <1>4, AttachImplements, ExitImplements, GetImplements, PutImplements
  DEF CacheCall, Abstract!Next
<1>5. ASSUME NEW b \in Backends, CacheStep(b)
      PROVE  [Abstract!Next]_Abstract!vars
  BY <1>1, <1>5, FindImplements, ErrorImplements, CheckImplements, CopyImplements,
     ReleaseSharedImplements, LockImplements, WriteJsonImplements,
     WriteExpirationImplements, ReleaseExclusiveImplements
  DEF CacheStep, Abstract!Next
<1> QED
  BY <1>2, <1>3, <1>4, <1>5 DEF CacheNext

\* The cache of http_cache.hpp, with its locks, its field-by-field writes and
\* its errors, is a map whose entries appear whole, on behalf of a put, for
\* max_age_seconds, and whose get answers with what the map held unexpired
\* at one instant during the call.
THEOREM ImplementsMap == CacheSpec => ImplementsExpiringMap
<1>1. CacheInit => Abstract!Init
  BY InitImplements
<1>2. CacheInit => RInv
  BY InitRInv
<1>3. RInv /\ [CacheNext]_cacheVars => RInv'
  BY NextRInv
<1>4. RInv /\ [CacheNext]_cacheVars => [Abstract!Next]_Abstract!vars
  BY NextImplements
<1> QED
  BY <1>1, <1>2, <1>3, <1>4, PTL DEF CacheSpec, ImplementsExpiringMap, Abstract!Spec

=============================================================================
