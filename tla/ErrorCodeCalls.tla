---------------------------- MODULE ErrorCodeCalls ----------------------------
(***************************************************************************)
(* The calling conventions of jwt-cpp (jwt-cpp/jwt.h) around OpenSSL: a    *)
(* function is a fixed sequence of library calls, any of which may fail;   *)
(* on failure it sets the caller's std::error_code and returns, or throws, *)
(* and destructors free what it has allocated.  A function is therefore a  *)
(* table of steps, and one machine runs all tables, nested as the code     *)
(* nests them.  Module OpenSslCalls has the tables.                        *)
(*                                                                         *)
(* An object may be freed by several owners (a smart pointer, a structure  *)
(* it was put into); an owner count other than one at the end of the       *)
(* function is a leak or a double free.                                    *)
(***************************************************************************)
EXTENDS Integers, Sequences

CONSTANTS
  Library,   \* the functions: a sequence of steps for each name
  Public,    \* those a program calls
  Throwers   \* those that have no parameter ec and report by exceptions only

-----------------------------------------------------------------------------
(* Steps                                                                    *)

Ok == <<"ok", "ok">>
\* A failure that the code takes for success
Unnoticed == <<"unnoticed", "unnoticed">>

Step(op, r, codes, fns) ==
  [op |-> op, res |-> r, codes |-> codes, fns |-> fns, frees |-> {}]

\* ec.clear()
ClearEc == Step("clear", "", {}, {})
\* r = allocate(); if (!r) { ec = c; return {}; }   r is a smart pointer
New(r, c) == Step("new", r, {c}, {})
\* if (!call()) { ec = c; return {}; }
Try(c) == Step("try", "", {c}, {})
\* n = call(); if (n == 0) { ec = c; return; } if (n == -1) { ec = d; return; }
\* although call may fail with other results too
TryOnly(c, d) == Step("tryonly", "", {c, d}, {})
\* r = f(..., ec); if (ec) return {};   for some f of fns
Call(fns, r) == Step("call", r, {}, fns)
\* The same without looking at ec: the last step, or f has none.
Unchecked(fns, r) == Step("unchecked", r, {}, fns)
\* A call that fills the raw pointer r and may allocate although it fails, that
\* call with free(r) on its error path, and the handle that takes r over.
Fill(r, c) == Step("fill", r, {c}, {})
Frees(step) == [step EXCEPT !.frees = {step.res}]
Adopt(r) == Step("adopt", r, {}, {})
\* An allocation that is not tested.
Alloc(r) == Step("alloc", r, {}, {})
\* A structure becomes an owner of r; a smart pointer gives up r.
Give(r) == Step("give", r, {}, {})
Release(r) == Step("release", r, {}, {})
\* The smart pointer gives up r while the arguments of the call are evaluated
\* that makes the structure its owner.
Move(r) == Step("move", r, {}, {})
\* return r
Result(r) == Step("result", r, {}, {})
\* std::error_code ec;
Fresh == Step("clear", "", {}, {})
\* error::throw_if_error(ec)
ThrowIfError == Step("throwif", "", {}, {})
\* if (...) throw exception(c), and r = allocate(); if (!r) throw exception(c)
Check(c) == Step("check", "", {c}, {})
NewOrThrow(r, c) == Step("check", r, {c}, {})

-----------------------------------------------------------------------------
(* Conventions                                                              *)

\* After steps 1 to p - 1 of t, r is owned by a smart pointer: it came from an
\* allocation or from a function that ends with returning one, and has not
\* been returned since.
Hands(f) == LET last == Library[f][Len(Library[f])] IN last.op = "result" /\ last.res # ""
Acquires(s, r) ==
  /\ s.res = r /\ r # ""
  /\ s.op = "new" \/ s.op = "alloc" \/ (s.op = "call" /\ \A f \in s.fns : Hands(f))
Owned(t, p, r) ==
  \E j \in 1..(p - 1) :
     /\ Acquires(t[j], r)
     /\ \A i \in (j + 1)..(p - 1) : ~(t[i].op = "result" /\ t[i].res = r)

\* After steps 1 to p - 1 of t, r has two owners: the structure it was given
\* to and the smart pointer that has not released it yet.
Shared(t, p, r) ==
  \E j \in 1..(p - 1) :
     /\ t[j].op = "give" /\ t[j].res = r
     /\ \A i \in (j + 1)..(p - 1) : ~(t[i].op = "release" /\ t[i].res = r)

Names(t) == {t[k].res : k \in 1..Len(t)}

\* What is given away is owned, and is released before anything can fail.
Transfers(t, k) ==
  /\ t[k].op = "give" => Owned(t, k, t[k].res) /\ ~Shared(t, k, t[k].res)
  /\ t[k].op = "release" => Owned(t, k, t[k].res) /\ Shared(t, k, t[k].res)
  /\ t[k].op = "move" => Owned(t, k, t[k].res)
  /\ t[k].op \notin {"give", "release"} => \A r \in Names(t) : ~Shared(t, k, r)

\* A raw pointer is freed if the step that fills it fails, and taken over by
\* the next step if not.
TakenOver(t, k) ==
  /\ t[k].op = "fill" => t[k].res \in t[k].frees
  /\ t[k].op = "fill" => k < Len(t) /\ t[k + 1].op = "adopt" /\ t[k + 1].res = t[k].res
  /\ t[k].op = "adopt" => k > 1 /\ t[k - 1].op = "fill" /\ t[k - 1].res = t[k].res

\* An error code is not looked at only if nothing can have set it, or if it is
\* the function's own result; a function without ec throws it at once.
Tested(f, t, k) ==
  t[k].op = "unchecked" =>
    \/ t[k].fns \subseteq Throwers
    \/ f \in Throwers /\ k < Len(t) /\ t[k + 1].op = "throwif"
    \/ f \notin Throwers /\ k = Len(t)

\* A function that a program may call with any ec clears it first.  One
\* without ec may test its arguments and then call such functions.  Else it
\* keeps the code it was given, and calls no function that might test it.
Clears(f) == Library[f][1].op = "clear"
ClearsLater(f) ==
  /\ f \in Throwers /\ Len(Library[f]) > 1
  /\ Library[f][1].op = "check"
  /\ Library[f][2].op = "unchecked" /\ \A g \in Library[f][2].fns : Clears(g)
Keeps(f) ==
  /\ f \notin Throwers
  /\ \A k \in 1..Len(Library[f]) : Library[f][k].op \notin {"clear", "call", "unchecked"}

Steps == {"clear", "new", "try", "tryonly", "call", "unchecked", "fill", "adopt", "alloc",
          "give", "release", "move", "result", "throwif", "check"}
ThrowerSteps == {"clear", "check", "unchecked", "throwif", "result"}

FunctionOK(f) ==
  LET t == Library[f]
  IN /\ Len(t) \in Nat \ {0}
     /\ \A r \in Names(t) : ~Shared(t, Len(t) + 1, r)
     /\ f \in Public => Clears(f) \/ ClearsLater(f) \/ Keeps(f)
     /\ \A k \in 1..Len(t) :
          /\ t[k].op \in (IF f \in Throwers THEN ThrowerSteps ELSE Steps \ {"throwif"})
          /\ t[k].codes \cap {Ok, Unnoticed} = {} /\ t[k].fns \subseteq DOMAIN Library
          /\ Transfers(t, k) /\ TakenOver(t, k) /\ Tested(f, t, k)

\* jwt-cpp keeps the conventions: TLC finds it so for its tables.
ASSUME LibraryAssumption ==
  /\ Public \subseteq DOMAIN Library
  /\ \A f \in DOMAIN Library : FunctionOK(f)

-----------------------------------------------------------------------------
(* The machine                                                              *)

VARIABLES
  stack,   \* activations [fn, pc, owners, handed]; pc = 0 once it returns
  ec,      \* the caller's std::error_code
  thrown,  \* the exception that is unwinding the stack, or Ok
  first,   \* the first failure since the program's call
  given    \* the error code it passed to a function that keeps it

callVars == <<stack, ec, thrown, first, given>>

CallInit == stack = <<>> /\ ec = Ok /\ thrown = Ok /\ first = Ok /\ given = Ok

This    == stack[Len(stack)]
Caller  == stack[Len(stack) - 1]
AtStep  == stack # <<>> /\ thrown = Ok /\ This.pc # 0
Current == Library[This.fn][This.pc]

Replace(a) == stack' = [stack EXCEPT ![Len(stack)] = a]
Advance(a) == [a EXCEPT !.pc = IF @ = Len(Library[a.fn]) THEN 0 ELSE @ + 1]
Owners(a, r, n) ==
  [a EXCEPT !.owners = [x \in DOMAIN @ \cup ({r} \ {""}) |-> IF x = r THEN n ELSE @[x]]]
\* r.release(): the smart pointer stops owning r
GetsOnly(a, r) == a                      \* faulty: r.get()
Released(a, r) == Owners(a, r, a.owners[r] - 1)
\* A structure or a handle owns r from now on.
Given(a, r) == Owners(a, r, 1 + (IF r \in DOMAIN a.owners THEN a.owners[r] ELSE 0))
Activation(f) == [fn |-> f, pc |-> 1, owners |-> <<>>, handed |-> FALSE]

\* The program calls f with the error code of its previous call.
Begin(f) ==
  /\ stack = <<>>
  /\ stack' = <<Activation(f)>>
  /\ first' = Ok
  /\ thrown' = Ok
  /\ given' = IF Keeps(f) THEN ec ELSE Ok
  /\ UNCHANGED ec

Succeed ==
  /\ AtStep /\ Current.op \notin {"call", "unchecked", "throwif"}
  /\ LET r == Current.res
     IN Replace(Advance(
          CASE Current.op \in {"clear", "try", "tryonly"} -> This
            [] Current.op \in {"new", "check", "alloc"} -> Owners(This, r, 1)
            [] Current.op = "fill" -> Owners(This, r, 0)
            [] Current.op \in {"adopt", "give"} -> Given(This, r)
            [] Current.op = "release" -> Released(This, r)
            [] Current.op = "move" -> Given(Released(This, r), r)
            [] Current.op = "result" ->
                 [This EXCEPT !.handed = r # "",
                              !.owners = [x \in DOMAIN @ \ {r} |-> @[x]]]))
  /\ ec' = IF Current.op = "clear" THEN Ok ELSE ec
  /\ UNCHANGED <<thrown, first, given>>

FailsAndGoesOn(c) ==                     \* faulty: does not return
  /\ AtStep /\ Current.op \in {"new", "try", "tryonly", "fill"} /\ c \in Current.codes
  /\ Replace(Advance(This))
  /\ ec' = c
  /\ first' = IF first = Ok THEN c ELSE first
  /\ UNCHANGED <<thrown, given>>

\* A call that fails may have filled its raw pointer, which is lost unless freed.
Failed(a) ==
  IF Current.op # "fill" THEN a
  ELSE Owners(a, Current.res, IF Current.res \in Current.frees THEN 1 ELSE 0)

\* The call of this step fails: the error code is set and the function returns.
Fail(c) ==
  /\ AtStep /\ Current.op \in {"new", "try", "tryonly", "fill"} /\ c \in Current.codes
  /\ Replace([Failed(This) EXCEPT !.pc = 0])
  /\ ec' = c
  /\ first' = IF first = Ok THEN c ELSE first
  /\ UNCHANGED <<thrown, given>>

\* The call fails with a result that is not tested for.
Overlook ==
  /\ AtStep /\ Current.op = "tryonly"
  /\ Replace(Advance(This))
  /\ first' = IF first = Ok THEN Unnoticed ELSE first
  /\ UNCHANGED <<ec, thrown, given>>

CallFunction(f) ==
  /\ AtStep /\ Current.op \in {"call", "unchecked"} /\ f \in Current.fns
  /\ stack' = Append(stack, Activation(f))
  /\ UNCHANGED <<ec, thrown, first, given>>

\* Destructors run, and the caller goes on or, if it tests ec, returns too.
Return ==
  /\ stack # <<>> /\ thrown = Ok /\ This.pc = 0
  /\ IF Len(stack) = 1 THEN stack' = <<>>
     ELSE LET step == Library[Caller.fn][Caller.pc]
              a    == IF This.handed THEN Owners(Caller, step.res, 1) ELSE Caller
              next == IF step.op = "call" /\ ec # Ok THEN [a EXCEPT !.pc = 0] ELSE Advance(a)
          IN stack' = [SubSeq(stack, 1, Len(stack) - 1) EXCEPT ![Len(stack) - 1] = next]
  /\ UNCHANGED <<ec, thrown, first, given>>

\* throw_if_error: an exception of the class that belongs to the category
RaiseIfError ==
  /\ AtStep /\ Current.op = "throwif"
  /\ IF ec = Ok THEN Replace(Advance(This)) /\ UNCHANGED thrown
     ELSE thrown' = ec /\ UNCHANGED stack
  /\ UNCHANGED <<ec, first, given>>

RaiseCheck(c) ==
  /\ AtStep /\ Current.op = "check" /\ c \in Current.codes
  /\ thrown' = c
  /\ first' = IF first = Ok THEN c ELSE first
  /\ UNCHANGED <<stack, ec, given>>

Unwind ==
  /\ stack # <<>> /\ thrown # Ok
  /\ stack' = SubSeq(stack, 1, Len(stack) - 1)
  /\ UNCHANGED <<ec, thrown, first, given>>

CallNext ==
  \/ \E f \in Public : Begin(f)
  \/ Succeed
  \/ AtStep /\ \E c \in Current.codes : Fail(c) \/ RaiseCheck(c)
  \/ AtStep /\ \E f \in Current.fns : CallFunction(f)
  \/ Overlook \/ Return \/ RaiseIfError \/ Unwind

CallSpec == CallInit /\ [][CallNext]_callVars

-----------------------------------------------------------------------------
(* Properties                                                               *)

Leaving == stack # <<>> /\ (thrown # Ok \/ This.pc = 0)

\* Whichever call of whichever nested function fails, by error code or by
\* exception, everything a function allocated has exactly one owner when it
\* is left: nothing leaks and nothing is freed twice.
FreedOnce ==
  Leaving => \A r \in DOMAIN This.owners : This.owners[r] = 1

\* A function that comes back reports the first failure beneath it and no
\* other, as an error code or as an exception, and reports none when nothing
\* failed, even if its caller passes an error code that an earlier call has
\* set.  Nothing is claimed where the code is at odds with its comments: what
\* a function that keeps the code it was given leaves in it when it succeeds,
\* and what is reported of a failure taken for success.
FirstErrorReported ==
  stack = <<>> /\ first # Unnoticed =>
    IF thrown # Ok THEN thrown = first
    ELSE (first # Ok => ec = first) /\ (first = Ok /\ given = Ok => ec = Ok)

=============================================================================
