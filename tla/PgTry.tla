-------------------------------- MODULE PgTry --------------------------------
(***************************************************************************)
(* How C++ exceptions and PostgreSQL's ERRORs pass through one backend:    *)
(* pg_try and pg_assert_noerror (src/pg_utils.hpp) and the PG_TRY block    *)
(* that validate_token contains (src/pg_oidc_validator.cpp).               *)
(*                                                                         *)
(* A frame is the activation of one PG_TRY.  It has set PG_exception_stack *)
(* to its own jump buffer and remembers the previous value.  ereport(ERROR)*)
(* pushes an error record, makes ErrorContext the current memory context   *)
(* and jumps to the buffer, abandoning all C++ frames above it.  While the *)
(* server authenticates a client it has no buffer of its own, and an ERROR *)
(* without one becomes FATAL (external, from the server's elog.c).         *)
(***************************************************************************)
EXTENDS Naturals, Sequences

CONSTANTS
  Kinds,     \* the sorts of frames a run contains
  MaxDepth   \* bound on the nesting of frames

ASSUME TryAssumption ==
  /\ Kinds \subseteq {"pg_try", "pg_assert_noerror", "block"}
  /\ MaxDepth \in Nat

VARIABLES
  frames,   \* activations of PG_TRY, outermost first
  handler,  \* PG_exception_stack: the depth of the frame it points to, or 0
  errors,   \* number of error records on the server's error stack
  context,  \* CurrentMemoryContext: the session's or "error"
  mode      \* what control is doing

tryVars == <<frames, handler, errors, context, mode>>

Frame == [kind : Kinds, saved : Nat, context : {"session", "error"}]
Depth == Len(frames)
Top   == frames[Depth]

TryInit ==
  /\ frames = <<>>
  /\ handler = 0
  /\ errors = 0
  /\ context = "session"
  /\ mode = "run"

\* PG_TRY.  Destructors (entry_ref, dshash) enter pg_assert_noerror also
\* while an exception is being thrown, and validator_shutdown does after
\* validate_token has returned; its body calls server functions only.  The
\* block belongs to validate_token itself.
Enter(kind) ==
  /\ Depth < MaxDepth
  /\ \/ mode = "run"
     \/ mode \in {"throw", "returned"} /\ kind = "pg_assert_noerror"
  /\ Depth > 0 => kind # "block" /\ Top.kind # "pg_assert_noerror"
  /\ frames' = Append(frames, [kind |-> kind, saved |-> handler, context |-> context])
  /\ handler' = Depth + 1
  /\ UNCHANGED <<errors, context, mode>>

\* Control leaves the top frame; PG_END_TRY and PG_CATCH restore the handler.
Pop == frames' = SubSeq(frames, 1, Depth - 1)

\* siglongjmp to PG_exception_stack: FATAL without one, undefined behaviour
\* if its frame is gone; PG_CATCH then restores the previous value.
Jump ==
  /\ errors' = errors + 1
  /\ context' = "error"
  /\ IF handler = 0 THEN mode' = "exited" /\ UNCHANGED <<frames, handler>>
     ELSE IF handler > Depth THEN mode' = "undefined" /\ UNCHANGED <<frames, handler>>
     ELSE /\ mode' = "catch"
          /\ frames' = SubSeq(frames, 1, handler)
          /\ handler' = frames[handler].saved

\* A server function called by C++ code, or the server itself, raises ERROR.
Raise == mode \in {"run", "returned"} /\ Jump

\* The body of the frame ends normally, and PG_END_TRY is reached.
EndTry ==
  /\ mode = "run" /\ Depth > 0
  /\ Pop
  /\ handler' = Top.saved
  /\ UNCHANGED <<errors, context, mode>>

\* C++ code of a frame throws.  Only server functions run in
\* pg_assert_noerror, and those do not.
ThrowException ==
  /\ mode = "run"
  /\ Depth > 0 => Top.kind # "pg_assert_noerror"
  /\ mode' = "throw"
  /\ UNCHANGED <<frames, handler, errors, context>>

\* pg_try keeps the exception, leaves PG_TRY properly and throws it again.
PassThrough ==                           \* faulty: no catch (...)
  /\ mode = "throw" /\ Depth > 0 /\ Top.kind = "pg_try"
  /\ Pop
  /\ UNCHANGED <<handler, errors, context, mode>>
Rethrow ==
  /\ mode = "throw" /\ Depth > 0 /\ Top.kind = "pg_try"
  /\ Pop
  /\ handler' = Top.saved
  /\ UNCHANGED <<errors, context, mode>>

\* A destructor that ran during a throw comes back to it.
EndDestructor ==
  /\ mode \in {"throw", "returned"} /\ Depth > 0 /\ Top.kind = "pg_assert_noerror"
  /\ Pop
  /\ handler' = Top.saved
  /\ UNCHANGED <<errors, context, mode>>

\* ... or the server function in it raises an ERROR.
DestructorRaises ==
  /\ mode = "throw" /\ Depth > 0 /\ Top.kind = "pg_assert_noerror"
  /\ Jump

\* PG_CATCH of pg_try: the error record becomes a postgres_exception (or, if
\* its text does not fit the memory left, another exception).
CatchKeepsRecord ==                      \* faulty: no FlushErrorState
  /\ mode = "catch" /\ Top.kind = "pg_try"
  /\ Pop
  /\ context' = Top.context
  /\ mode' = "throw"
  /\ UNCHANGED <<handler, errors>>
CatchError ==
  /\ mode = "catch" /\ Top.kind = "pg_try"
  /\ Pop
  /\ context' = Top.context
  /\ errors' = 0
  /\ mode' = "throw"
  /\ UNCHANGED handler

\* CopyErrorData runs out of memory in PG_CATCH, on the way to either end.
CatchRaises == mode = "catch" /\ Top.kind # "block" /\ Jump

\* PG_CATCH of pg_assert_noerror: elog(FATAL).
CatchFatal ==
  /\ mode = "catch" /\ Top.kind = "pg_assert_noerror"
  /\ mode' = "exited"
  /\ UNCHANGED <<frames, handler, errors, context>>

\* validate_token: a postgres_exception of attach is logged and dropped.
Survive ==
  /\ mode = "throw" /\ Depth = 0
  /\ mode' = "run"
  /\ UNCHANGED <<frames, handler, errors, context>>

\* It returns true at its end, or false after an early exit or from its
\* function-try-block.
ReturnToServer ==
  /\ mode \in {"run", "throw"} /\ Depth = 0
  /\ mode' = "returned"
  /\ UNCHANGED <<frames, handler, errors, context>>

\* The block of validate_token is left by `return false`, by an exception,
\* or by `return false` in its PG_CATCH.
LeaveBlock ==
  /\ mode \in {"run", "throw", "catch"} /\ Depth = 1 /\ Top.kind = "block"
  /\ Pop
  /\ mode' = "returned"
  /\ UNCHANGED <<handler, errors, context>>

TryNext ==
  \/ \E kind \in Kinds : Enter(kind)
  \/ Raise \/ EndTry \/ ThrowException \/ Rethrow \/ EndDestructor \/ DestructorRaises
  \/ CatchError \/ CatchRaises \/ CatchFatal \/ Survive \/ ReturnToServer

\* pg_try and pg_assert_noerror alone, and with validate_token's own block.
TrySpec   == TryInit /\ [][TryNext]_tryVars
BlockSpec == TryInit /\ [][TryNext \/ LeaveBlock]_tryVars

-----------------------------------------------------------------------------
(* Properties                                                               *)

\* Types; no path leads to a jump into a frame that is gone.
TryTypeOK ==
  /\ frames \in Seq(Frame) /\ Depth <= MaxDepth
  /\ handler \in 0..MaxDepth
  /\ errors \in Nat
  /\ context \in {"session", "error"}
  /\ mode \in {"run", "throw", "catch", "returned", "exited"}

\* While C++ code runs or unwinds, PG_exception_stack is the buffer of the
\* innermost frame: an ERROR never jumps across a C++ frame whose destructors
\* would be skipped, and never into a frame that has ended.  This holds
\* through every nesting of values, exceptions and errors.
HandlerInnermost ==
  mode \in {"run", "throw", "returned"} => handler = Depth

\* When an error has been turned into an exception nothing of it is left: no
\* record on the server's error stack, and the caller's memory context.
NoErrorRemains ==
  mode \in {"run", "throw", "returned"} => errors = 0 /\ context = "session"

\* Every PG_TRY that control has left went through PG_END_TRY, as the comment
\* in pg_try asks ("... to ensure PG_END_TRY() is called"): when
\* validate_token is back in the server, so is PG_exception_stack.
EndTryCalled == mode = "returned" /\ Depth = 0 => handler = 0

=============================================================================
