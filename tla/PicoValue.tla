------------------------------ MODULE PicoValue ------------------------------
(***************************************************************************)
(* picojson::value (picojson/picojson.h): a tagged union that owns its     *)
(* string, array or object on the heap.  Claims, keys and documents are    *)
(* such values; they are copied, moved, swapped, set, changed through      *)
(* references and destroyed.  meant is what each variable would hold if    *)
(* values were mathematical ones.                                          *)
(***************************************************************************)
EXTENDS Integers, FiniteSets

CONSTANTS
  Vars,      \* variables of type value
  Cells,     \* heap cells; their number bounds allocations
  Types,     \* types of values that are made
  Contents,  \* contents of a boolean, a number, a string, ...
  Rounded,   \* the double nearest to an integer; integers beyond 2^53 differ from it
  Freed      \* the contents of a cell that is not allocated

\* A cell that is not allocated can be told from one that is, and a variable
\* in its lifetime from one that is not.
ASSUME ValueAssumption ==
  /\ Freed \notin Contents /\ "dead" \notin Types
  /\ Rounded \in [Contents -> Contents]

VARIABLES
  val,    \* type_ and u_ of each variable; type "dead" outside its lifetime
  heap,   \* contents of each cell
  meant   \* what each variable should hold

valueVars == <<val, heap, meant>>

HeapTypes == {"string", "array", "object"}
Alive     == {x \in Vars : val[x].type # "dead"}
Dead      == [type |-> "dead", u |-> Freed]
NullValue == [type |-> "null", u |-> Freed]

ValueInit ==
  /\ val = [x \in Vars |-> Dead]
  /\ heap = [c \in Cells |-> Freed]
  /\ meant = [x \in Vars |-> Dead]

\* clear(): the heap without what v owns
Clear(v) == IF v.type \in HeapTypes THEN [heap EXCEPT ![v.u] = Freed] ELSE heap

\* x gets a value of this type and these contents, on the heap h that is left.
Store(x, type, contents, h) ==
  IF type \in HeapTypes
  THEN \E c \in {d \in Cells : h[d] = Freed} :
         /\ heap' = [h EXCEPT ![c] = contents]
         /\ val' = [val EXCEPT ![x] = [type |-> type, u |-> c]]
  ELSE /\ heap' = h
       /\ val' = [val EXCEPT ![x] = [type |-> type, u |-> contents]]

ContentsOf(v) == IF v.type \in HeapTypes THEN heap[v.u] ELSE v.u

Means(x, m) == meant' = [meant EXCEPT ![x] = m]

\* Not every integer is a double.
Fits(type, contents) == type = "number" => Rounded[contents] = contents

-----------------------------------------------------------------------------

\* The constructors.  (value(double) throws for nan and inf; contents are finite.)
ConstructValue(x, type, contents) ==
  /\ x \notin Alive /\ Fits(type, contents)
  /\ Store(x, type, contents, heap)
  /\ Means(x, [type |-> type, u |-> contents])

CopyConstructValue(x, y) ==
  /\ x \notin Alive /\ y \in Alive
  /\ Store(x, val[y].type, ContentsOf(val[y]), heap)
  /\ Means(x, meant[y])

\* value t(x); swap(t); and t, which now holds the old value, is destroyed.
CopyOver(x, y) ==                        \* faulty: overwrites without clear
  /\ x # y /\ {x, y} \subseteq Alive
  /\ Store(x, val[y].type, ContentsOf(val[y]), heap)
  /\ Means(x, meant[y])
CopyAssignValue(x, y) ==
  /\ x # y /\ {x, y} \subseteq Alive
  /\ IF val[y].type \in HeapTypes
     THEN \E c \in {d \in Cells : heap[d] = Freed} :
            /\ heap' = [Clear(val[x]) EXCEPT ![c] = ContentsOf(val[y])]
            /\ val' = [val EXCEPT ![x] = [type |-> val[y].type, u |-> c]]
     ELSE heap' = Clear(val[x]) /\ val' = [val EXCEPT ![x] = val[y]]
  /\ Means(x, meant[y])

\* The source of a move becomes null.
MoveConstructValue(x, y) ==
  /\ x \notin Alive /\ y \in Alive
  /\ val' = [val EXCEPT ![x] = val[y], ![y] = NullValue]
  /\ meant' = [meant EXCEPT ![x] = meant[y], ![y] = NullValue]
  /\ UNCHANGED heap

\* swap and move assignment, which swaps
Swap(x, y) ==
  /\ {x, y} \subseteq Alive
  /\ val' = [val EXCEPT ![x] = val[y], ![y] = val[x]]
  /\ meant' = [meant EXCEPT ![x] = meant[y], ![y] = meant[x]]
  /\ UNCHANGED heap

\* set<T>: clear, then the new value (which is not the value's own get<T>(),
\* freed by then)
Set(x, type, contents) ==
  /\ x \in Alive /\ type # "null" /\ Fits(type, contents)
  /\ Store(x, type, contents, Clear(val[x]))
  /\ Means(x, [type |-> type, u |-> contents])

\* get<double>() turns an integer into the nearest double in place, const or not.
ConvertsTypeOnly(x) ==                   \* faulty: the bits of the integer stay
  /\ x \in Alive /\ val[x].type \in {"int64", "number"}
  /\ val' = [val EXCEPT ![x].type = "number",
                        ![x].u = IF val[x].type = "int64" /\ @ # 0 THEN -1 ELSE @]
  /\ UNCHANGED <<heap, meant>>
GetDouble(x) ==
  /\ x \in Alive /\ val[x].type \in {"int64", "number"}
  /\ val' = [val EXCEPT ![x] = [type |-> "number",
                                u |-> IF @.type = "int64" THEN Rounded[@.u] ELSE @.u]]
  /\ UNCHANGED <<heap, meant>>

\* An assignment through the reference that get<T>() returns
Modify(x, contents) ==
  /\ x \in Alive /\ val[x].type # "null" /\ Fits(val[x].type, contents)
  /\ IF val[x].type \in HeapTypes
     THEN heap' = [heap EXCEPT ![val[x].u] = contents] /\ UNCHANGED val
     ELSE val' = [val EXCEPT ![x].u = contents] /\ UNCHANGED heap
  /\ Means(x, [type |-> val[x].type, u |-> contents])

DestroyValue(x) ==
  /\ x \in Alive
  /\ heap' = Clear(val[x])
  /\ val' = [val EXCEPT ![x] = Dead]
  /\ Means(x, Dead)

ValueNext ==
  \/ \E x \in Vars, type \in Types, c \in Contents : ConstructValue(x, type, c) \/ Set(x, type, c)
  \/ \E x, y \in Vars : \/ CopyConstructValue(x, y) \/ CopyAssignValue(x, y)
                        \/ MoveConstructValue(x, y) \/ Swap(x, y)
  \/ \E x \in Vars : GetDouble(x) \/ DestroyValue(x) \/ \E c \in Contents : Modify(x, c)

ValueSpec == ValueInit /\ [][ValueNext]_valueVars

-----------------------------------------------------------------------------
(* Properties                                                               *)

\* After any sequence of copies, moves, swaps, conversions and changes through
\* references, each variable holds what it would hold if values were
\* mathematical ones: no variable sees a change made to another, no move loses
\* anything.  The one loss is that of get<double>(): an integer it was called on
\* (or on the value that it was copied or moved from) is the nearest double.
ValueSemantics ==
  \A x \in Alive :
    IF meant[x].type = "int64" /\ val[x].type = "number"
    THEN val[x].u = Rounded[meant[x].u]
    ELSE /\ val[x].type = meant[x].type
         /\ val[x].type # "null" => ContentsOf(val[x]) = meant[x].u

\* Each allocated cell belongs to exactly one variable in its lifetime, and
\* each variable's cell is allocated: nothing leaks or is freed twice.
OwnedOnce ==
  \A c \in Cells :
    Cardinality({x \in Alive : val[x].type \in HeapTypes /\ val[x].u = c})
      = IF heap[c] = Freed THEN 0 ELSE 1

=============================================================================
