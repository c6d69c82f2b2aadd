------------------------------- MODULE MCServer -------------------------------
(***************************************************************************)
(* What the validator does to the server around it, in four parts that     *)
(* share no state: the cache, the creation of its table, the references to *)
(* its entries, and the nesting of PG_TRY.  part says which of them a      *)
(* behaviour exercises; the variables of the others stay as they are.      *)
(***************************************************************************)
EXTENDS MCHttpCache, SharedAttach, EntryRef, PgTry

VARIABLE part

serverVars == <<part, cacheVars, attachVars, refVars, tryVars>>

ServerInit ==
  /\ part \in {"cache", "attach", "ref", "try"}
  /\ CacheInit /\ AttachInit /\ RefInit /\ TryInit

\* The action belongs to the cache, or to the creation of its table.
OfCache(A)  == part = "cache" /\ A /\ UNCHANGED <<part, attachVars, refVars, tryVars>>
OfAttach(A) == part = "attach" /\ A /\ UNCHANGED <<part, cacheVars, refVars, tryVars>>

ServerNext ==
  \/ OfCache(CacheNext)
  \/ OfAttach(AttachNext)
  \/ part = "ref" /\ RefNext /\ UNCHANGED <<part, cacheVars, attachVars, tryVars>>
  \/ part = "try" /\ TryNext /\ UNCHANGED <<part, cacheVars, attachVars, refVars>>

\* The fairness of FairCacheSpec and LiveAttachSpec.  part never changes, so
\* that one condition may serve both for a process b.
ASSUME SameProcesses == Processes = Backends

ServerSpec ==
  /\ ServerInit /\ [][ServerNext]_serverVars
  /\ \A b \in Backends :
       /\ WF_serverVars(\/ OfCache(CheckExpired(b) \/ CopyJson(b) \/ ReleaseShared(b))
                        \/ OfAttach(AttachStep(b) \/ AttachError(b)))
       /\ WF_serverVars(OfCache(WriteJson(b) \/ WriteExpiration(b) \/ ReleaseExclusive(b)))
       /\ SF_serverVars(OfCache(Find(b)) \/ OfAttach(Lock(b)))
       /\ SF_serverVars(OfCache(LockExclusive(b)))
       /\ WF_serverVars(OfCache(pc[b] = "failed" /\ Exit(b)))

-----------------------------------------------------------------------------
(* Property                                                                 *)

\* Types; whoever is between Lock and Release of attach_shared holds the
\* segment's lock, and no ERROR jumps into a frame of pg_try that is gone.
ServerTypeOK == AttachTypeOK /\ RefTypeOK /\ TryTypeOK

=============================================================================
