---------------------------- MODULE JwtDataProofs ----------------------------
(***************************************************************************)
(* Proofs about the data the library is built on: JSON values (PicoValue), *)
(* for any number of variables and heap cells and any contents, key sets   *)
(* (JwtKeySet), for any documents and key ids, the escapes in a JSON       *)
(* string (PicoEscape), for any text, and base64 and the form of an ECDSA  *)
(* signature (Encodings), for any binaries, texts and numbers.             *)
(*                                                                         *)
(* Values.  Ownership and meaning need each other: that a change of one    *)
(* variable's contents is not seen by another holds because no two         *)
(* variables own the same cell, and that clear() frees what nobody else    *)
(* uses likewise.                                                          *)
(*                                                                         *)
(* Key sets.  The stored keys are those of the last document parsed, so    *)
(* the answer of a lookup can be compared with the document: the element   *)
(* at which the search ends is the least of those that can end it.         *)
(*                                                                         *)
(* Escapes.  Reading digits in turn is the sum of their weights, and the   *)
(* bytes are the digits of the character to the base 64.                   *)
(*                                                                         *)
(* Base64.  No induction is needed, as every character and every byte is   *)
(* given in terms of its group: the lemmas take three bytes apart into     *)
(* four values and back, compare both with the bits of the binary, and say *)
(* that no character of an alphabet begins its fill.                       *)
(***************************************************************************)
EXTENDS PicoValue, PicoEscape, Encodings, JwtKeySet,
        FiniteSetTheorems, SequenceTheorems, WellFoundedInduction, TLAPS

-----------------------------------------------------------------------------
(* JSON values: the inductive invariant                                     *)

Numeric == {"int64", "number"}

ValueTypes == Types \cup HeapTypes \cup Numeric \cup {"null", "dead"}

ValuesOK ==
  /\ val \in [Vars -> [type : ValueTypes, u : Cells \cup Contents \cup {Freed}]]
  /\ heap \in [Cells -> Contents \cup {Freed}]
  /\ meant \in [Vars -> [type : ValueTypes, u : Contents \cup {Freed}]]

Owns(x, c) == val[x].type \in HeapTypes /\ val[x].u = c

\* What a variable owns is allocated, and nobody else owns it.
OwnersHold ==
  \A x \in Vars : val[x].type \in HeapTypes =>
    /\ val[x].u \in Cells
    /\ heap[val[x].u] # Freed
    /\ \A y \in Vars : Owns(y, val[x].u) => y = x

\* What is allocated has an owner.
NothingLeaks == \A c \in Cells : heap[c] # Freed => \E x \in Vars : Owns(x, c)

\* A value and what is meant by it.
Represents(v, contents, m) ==
  /\ m.type \in Numeric => m.u \in Contents
  /\ IF m.type = "int64" /\ v.type = "number"
     THEN contents = Rounded[m.u]
     ELSE v.type = m.type /\ (v.type # "null" => contents = m.u)

Meaning == \A x \in Alive : Represents(val[x], ContentsOf(val[x]), meant[x])

VInv == ValuesOK /\ OwnersHold /\ NothingLeaks /\ Meaning

-----------------------------------------------------------------------------
(* What clear() leaves, and what may be stored on it                        *)

\* h is the heap without what x owns: the cells of the others are as they were,
\* and there are no others.
HeapWithout(h, x) ==
  /\ h \in [Cells -> Contents \cup {Freed}]
  /\ \A c \in Cells : \A y \in Vars : y # x /\ Owns(y, c) => h[c] = heap[c]
  /\ \A c \in Cells : h[c] # Freed => \E y \in Vars : y # x /\ Owns(y, c)

\* clear() frees what x owns and nothing that another variable uses; a
\* variable outside its lifetime owns nothing.
LEMMA ClearLeaves ==
  ASSUME VInv, NEW x \in Vars
  PROVE  /\ HeapWithout(Clear(val[x]), x)
         /\ x \notin Alive => HeapWithout(heap, x)
<1>1. HeapWithout(Clear(val[x]), x)
  <2>1. CASE val[x].type \in HeapTypes
    <3>1. val[x].u \in Cells /\ \A y \in Vars : Owns(y, val[x].u) => y = x
      BY <2>1 DEF VInv, OwnersHold
    <3>2. Clear(val[x]) = [heap EXCEPT ![val[x].u] = Freed]
      BY <2>1 DEF Clear
    <3>3. Clear(val[x]) \in [Cells -> Contents \cup {Freed}]
      BY <3>2 DEF VInv, ValuesOK
    <3>4. ASSUME NEW c \in Cells, NEW y \in Vars, y # x, Owns(y, c)
          PROVE  Clear(val[x])[c] = heap[c]
      BY <3>1, <3>2, <3>4 DEF VInv, ValuesOK
    <3>5. ASSUME NEW c \in Cells, Clear(val[x])[c] # Freed
          PROVE  \E y \in Vars : y # x /\ Owns(y, c)
      <4>1. c # val[x].u /\ heap[c] # Freed
        BY <3>1, <3>2, <3>5 DEF VInv, ValuesOK
      <4>2. PICK y \in Vars : Owns(y, c)
        BY <4>1 DEF VInv, NothingLeaks
      <4> QED BY <4>1, <4>2 DEF Owns
    <3> QED BY <3>3, <3>4, <3>5 DEF HeapWithout
  <2>2. CASE val[x].type \notin HeapTypes
    BY <2>2 DEF Clear, HeapWithout, VInv, ValuesOK, NothingLeaks, Owns
  <2> QED BY <2>1, <2>2
<1>2. x \notin Alive => Clear(val[x]) = heap
  BY DEF Alive, Clear, HeapTypes
<1> QED BY <1>1, <1>2

\* A variable that is given a value on the heap without its old one.
LEMMA StoreInv ==
  ASSUME VInv, NEW x \in Vars, NEW h, HeapWithout(h, x),
         NEW type \in ValueTypes, type # "dead",
         NEW contents \in Cells \cup Contents \cup {Freed},
         type \in HeapTypes => contents \in Contents /\ Freed \notin Contents,
         NEW m \in [type : ValueTypes, u : Contents \cup {Freed}],
         Represents([type |-> type, u |-> contents], contents, m),
         Store(x, type, contents, h), Means(x, m)
  PROVE  VInv'
<1>1. /\ val \in [Vars -> [type : ValueTypes, u : Cells \cup Contents \cup {Freed}]]
      /\ heap \in [Cells -> Contents \cup {Freed}]
      /\ meant \in [Vars -> [type : ValueTypes, u : Contents \cup {Freed}]]
      /\ h \in [Cells -> Contents \cup {Freed}]
  BY DEF VInv, ValuesOK, HeapWithout
<1>2. /\ meant' \in [Vars -> [type : ValueTypes, u : Contents \cup {Freed}]]
      /\ meant'[x] = m /\ \A y \in Vars : y # x => meant'[y] = meant[y]
  BY <1>1 DEF Means
<1>3. ASSUME NEW y \in Vars, y # x, val[y].type \in HeapTypes
      PROVE  /\ val[y].u \in Cells /\ h[val[y].u] = heap[val[y].u] /\ h[val[y].u] # Freed
             /\ \A z \in Vars : Owns(z, val[y].u) => z = y
  BY <1>3 DEF VInv, OwnersHold, HeapWithout, Owns
<1>4. ASSUME NEW y \in Vars, y # x, y \in Alive
      PROVE  Represents(val[y], ContentsOf(val[y]), meant[y])
  BY <1>4 DEF VInv, Meaning
<1>5. CASE type \in HeapTypes
  <2>1. PICK c \in Cells : /\ h[c] = Freed
                           /\ heap' = [h EXCEPT ![c] = contents]
                           /\ val' = [val EXCEPT ![x] = [type |-> type, u |-> c]]
    BY <1>5 DEF Store
  <2>2. /\ val' \in [Vars -> [type : ValueTypes, u : Cells \cup Contents \cup {Freed}]]
        /\ val'[x].type = type /\ val'[x].u = c
        /\ \A y \in Vars : y # x => val'[y] = val[y]
    BY <1>1, <2>1
  <2>3. /\ heap' \in [Cells -> Contents \cup {Freed}]
        /\ heap'[c] = contents /\ contents # Freed
        /\ \A d \in Cells : d # c => heap'[d] = h[d]
    BY <1>1, <1>5, <2>1
  <2>4. ASSUME NEW y \in Vars, y # x, val[y].type \in HeapTypes
        PROVE  val[y].u # c /\ heap'[val[y].u] = heap[val[y].u]
    BY <1>3, <2>1, <2>3, <2>4
  <2>5. OwnersHold'
    BY <1>3, <2>2, <2>3, <2>4 DEF OwnersHold, Owns
  <2>6. NothingLeaks'
    <3> SUFFICES ASSUME NEW d \in Cells, heap'[d] # Freed
                 PROVE  \E y \in Vars : Owns(y, d)'
      BY DEF NothingLeaks
    <3>1. CASE d = c
      BY <1>5, <2>2, <3>1 DEF Owns
    <3>2. CASE d # c
      BY <2>2, <2>3, <3>2 DEF Owns, HeapWithout
    <3> QED BY <3>1, <3>2
  <2>7. Meaning'
    <3> SUFFICES ASSUME NEW y \in Vars, val'[y].type # "dead"
                 PROVE  Represents(val'[y], ContentsOf(val[y])', meant'[y])
      BY DEF Meaning, Alive
    <3>1. CASE y = x
      BY <1>2, <1>5, <2>2, <2>3, <3>1 DEF Represents, ContentsOf
    <3>2. CASE y # x
      BY <1>2, <1>4, <2>2, <2>4, <3>2 DEF ContentsOf, Alive
    <3> QED BY <3>1, <3>2
  <2> QED BY <1>2, <2>2, <2>3, <2>5, <2>6, <2>7 DEF VInv, ValuesOK
<1>6. CASE type \notin HeapTypes
  <2>1. /\ heap' = h
        /\ val' \in [Vars -> [type : ValueTypes, u : Cells \cup Contents \cup {Freed}]]
        /\ val'[x].type = type /\ val'[x].u = contents
        /\ \A y \in Vars : y # x => val'[y] = val[y]
    BY <1>1, <1>6 DEF Store
  <2>2. OwnersHold'
    BY <1>3, <1>6, <2>1 DEF OwnersHold, Owns
  <2>3. NothingLeaks'
    BY <1>6, <2>1 DEF NothingLeaks, Owns, HeapWithout
  <2>4. Meaning'
    <3> SUFFICES ASSUME NEW y \in Vars, val'[y].type # "dead"
                 PROVE  Represents(val'[y], ContentsOf(val[y])', meant'[y])
      BY DEF Meaning, Alive
    <3>1. CASE y = x
      BY <1>2, <1>6, <2>1, <3>1 DEF Represents, ContentsOf
    <3>2. CASE y # x
      BY <1>2, <1>3, <1>4, <2>1, <3>2 DEF ContentsOf, Alive
    <3> QED BY <3>1, <3>2
  <2> QED BY <1>1, <1>2, <2>1, <2>2, <2>3, <2>4 DEF VInv, ValuesOK
<1> QED BY <1>5, <1>6

-----------------------------------------------------------------------------
(* Each operation                                                           *)

\* The constructors and set<T>: a new value, on the heap without the old one.
LEMMA NewValueInv ==
  ASSUME VInv,
         NEW x \in Vars, NEW type \in Types, NEW c \in Contents,
         ConstructValue(x, type, c) \/ Set(x, type, c)
  PROVE  VInv'
<1> DEFINE m == [type |-> type, u |-> c]
<1>1. PICK h : HeapWithout(h, x) /\ Store(x, type, c, h)
  BY ClearLeaves DEF ConstructValue, Set
<1>2. type \in ValueTypes /\ type # "dead" /\ Freed \notin Contents
  BY ValueAssumption DEF ValueTypes
<1>3. m \in [type : ValueTypes, u : Contents \cup {Freed}] /\ Represents(m, c, m)
  BY <1>2 DEF Represents
<1>4. Means(x, m)
  BY DEF ConstructValue, Set
<1> QED BY <1>1, <1>2, <1>3, <1>4, StoreInv

\* A variable in its lifetime: what a copy of it stores.
LEMMA CopyOfValue ==
  ASSUME VInv, NEW y \in Vars, y \in Alive
  PROVE  /\ val[y].type \in ValueTypes /\ val[y].type # "dead"
         /\ ContentsOf(val[y]) \in Cells \cup Contents \cup {Freed}
         /\ val[y].type \in HeapTypes => ContentsOf(val[y]) \in Contents /\ Freed \notin Contents
         /\ meant[y] \in [type : ValueTypes, u : Contents \cup {Freed}]
         /\ Represents([type |-> val[y].type, u |-> ContentsOf(val[y])],
                       ContentsOf(val[y]), meant[y])
<1>1. /\ val[y] \in [type : ValueTypes, u : Cells \cup Contents \cup {Freed}]
      /\ meant[y] \in [type : ValueTypes, u : Contents \cup {Freed}]
      /\ heap \in [Cells -> Contents \cup {Freed}]
  BY DEF VInv, ValuesOK
<1>2. val[y].type \in HeapTypes => val[y].u \in Cells /\ heap[val[y].u] # Freed
  BY DEF VInv, OwnersHold
<1>3. Represents(val[y], ContentsOf(val[y]), meant[y])
  BY DEF VInv, Meaning
<1>4. Represents([type |-> val[y].type, u |-> ContentsOf(val[y])],
                 ContentsOf(val[y]), meant[y])
  BY <1>3 DEF Represents
<1> QED BY <1>1, <1>2, <1>4, ValueAssumption DEF ContentsOf, Alive

\* A cell that is free before the old value of x is cleared is free after it.
LEMMA CopyAssignStores ==
  ASSUME VInv, NEW x \in Vars, NEW y \in Vars, CopyAssignValue(x, y)
  PROVE  Store(x, val[y].type, ContentsOf(val[y]), Clear(val[x]))
<1>1. heap \in [Cells -> Contents \cup {Freed}]
  BY DEF VInv, ValuesOK
<1>2. CASE val[y].type \in HeapTypes
  <2>1. PICK c \in Cells : /\ heap[c] = Freed
                           /\ heap' = [Clear(val[x]) EXCEPT ![c] = ContentsOf(val[y])]
                           /\ val' = [val EXCEPT ![x] = [type |-> val[y].type, u |-> c]]
    BY <1>2 DEF CopyAssignValue
  <2>2. Clear(val[x])[c] = Freed
    BY <1>1, <2>1 DEF Clear
  <2> QED BY <1>2, <2>1, <2>2 DEF Store
<1>3. CASE val[y].type \notin HeapTypes
  <2>1. val[y] = [type |-> val[y].type, u |-> ContentsOf(val[y])]
    <3>1. val[y] \in [type : ValueTypes, u : Cells \cup Contents \cup {Freed}]
      BY DEF VInv, ValuesOK
    <3> QED BY <1>3, <3>1 DEF ContentsOf
  <2>2. heap' = Clear(val[x]) /\ val' = [val EXCEPT ![x] = val[y]]
    BY <1>3 DEF CopyAssignValue
  <2> QED BY <1>3, <2>1, <2>2 DEF Store
<1> QED BY <1>2, <1>3

\* Copies: the contents of y, in a cell of x's own.
LEMMA CopyInv ==
  ASSUME VInv, NEW x \in Vars, NEW y \in Vars,
         CopyConstructValue(x, y) \/ CopyAssignValue(x, y)
  PROVE  VInv'
<1> DEFINE contents == ContentsOf(val[y])
<1>1. PICK h : HeapWithout(h, x) /\ Store(x, val[y].type, contents, h)
  <2>1. CASE CopyConstructValue(x, y)
    BY <2>1, ClearLeaves DEF CopyConstructValue
  <2>2. CASE CopyAssignValue(x, y)
    BY <2>2, ClearLeaves, CopyAssignStores
  <2> QED BY <2>1, <2>2
<1>2. y \in Alive /\ Means(x, meant[y])
  BY DEF CopyConstructValue, CopyAssignValue
<1> HIDE DEF contents
<1>3. /\ val[y].type \in ValueTypes /\ val[y].type # "dead"
      /\ contents \in Cells \cup Contents \cup {Freed}
      /\ val[y].type \in HeapTypes => contents \in Contents /\ Freed \notin Contents
      /\ meant[y] \in [type : ValueTypes, u : Contents \cup {Freed}]
      /\ Represents([type |-> val[y].type, u |-> contents], contents, meant[y])
  BY <1>2, CopyOfValue DEF contents
<1> QED BY <1>1, <1>2, <1>3, StoreInv

\* A move hands y's cell to x and leaves y null; a swap exchanges the cells.
LEMMA HandOverInv ==
  ASSUME VInv, NEW x \in Vars, NEW y \in Vars, NEW w, NEW n,
         w \in [type : ValueTypes, u : Cells \cup Contents \cup {Freed}],
         n \in [type : ValueTypes, u : Contents \cup {Freed}],
         y \in Alive,
         \* y receives w, which is null or what x held
         \/ w = NullValue /\ n = NullValue /\ x \notin Alive
         \/ w = val[x] /\ n = meant[x] /\ x \in Alive,
         val' = [val EXCEPT ![x] = val[y], ![y] = w],
         meant' = [meant EXCEPT ![x] = meant[y], ![y] = n],
         heap' = heap
  PROVE  VInv'
<1>1. /\ val \in [Vars -> [type : ValueTypes, u : Cells \cup Contents \cup {Freed}]]
      /\ meant \in [Vars -> [type : ValueTypes, u : Contents \cup {Freed}]]
      /\ heap \in [Cells -> Contents \cup {Freed}]
  BY DEF VInv, ValuesOK
<1>2. /\ val' \in [Vars -> [type : ValueTypes, u : Cells \cup Contents \cup {Freed}]]
      /\ val'[y] = w /\ (x # y => val'[x] = val[y])
      /\ \A z \in Vars : z # x /\ z # y => val'[z] = val[z]
  BY <1>1
<1>3. /\ meant' \in [Vars -> [type : ValueTypes, u : Contents \cup {Freed}]]
      /\ meant'[y] = n /\ (x # y => meant'[x] = meant[y])
      /\ \A z \in Vars : z # x /\ z # y => meant'[z] = meant[z]
  BY <1>1
<1>4. w.type \in HeapTypes => w = val[x] /\ x \in Alive
  BY DEF NullValue, HeapTypes
<1>5. val[x].type \in HeapTypes => w = val[x]
  BY DEF Alive, HeapTypes
<1>6. OwnersHold'
  <2> SUFFICES ASSUME NEW z \in Vars, val'[z].type \in HeapTypes
               PROVE  /\ val'[z].u \in Cells
                      /\ heap[val'[z].u] # Freed
                      /\ \A o \in Vars : val'[o].type \in HeapTypes /\ val'[o].u = val'[z].u => o = z
    BY DEF OwnersHold, Owns
  <2> QED BY <1>2, <1>4 DEF VInv, OwnersHold, Owns
<1>7. NothingLeaks'
  <2> SUFFICES ASSUME NEW c \in Cells, heap[c] # Freed
               PROVE  \E z \in Vars : Owns(z, c)'
    BY DEF NothingLeaks
  <2>1. PICK z \in Vars : Owns(z, c)
    BY DEF VInv, NothingLeaks
  <2>2. CASE z # x /\ z # y
    BY <1>2, <2>1, <2>2 DEF Owns
  <2>3. CASE z = x
    BY <1>2, <1>5, <2>1, <2>3 DEF Owns
  <2>4. CASE z = y /\ x # y
    BY <1>2, <2>1, <2>4 DEF Owns
  <2> QED BY <2>2, <2>3, <2>4
<1>8. Meaning'
  <2> SUFFICES ASSUME NEW z \in Vars, val'[z].type # "dead"
               PROVE  Represents(val'[z], ContentsOf(val[z])', meant'[z])
    BY DEF Meaning, Alive
  <2>1. \A o \in Vars : o \in Alive => Represents(val[o], ContentsOf(val[o]), meant[o])
    BY DEF VInv, Meaning
  <2>2. CASE z # x /\ z # y
    BY <1>2, <1>3, <2>1, <2>2 DEF ContentsOf, Alive
  <2>3. CASE z = x /\ x # y
    BY <1>2, <1>3, <2>1, <2>3 DEF ContentsOf, Alive
  <2>4. CASE z = y
    <3>1. CASE w = val[x] /\ n = meant[x] /\ x \in Alive
      BY <1>2, <1>3, <2>1, <2>4, <3>1 DEF ContentsOf, Alive
    <3>2. CASE w = NullValue /\ n = NullValue
      BY <1>2, <1>3, <2>4, <3>2 DEF Represents, NullValue, Numeric
    <3> QED BY <3>1, <3>2
  <2> QED BY <2>2, <2>3, <2>4
<1> QED BY <1>1, <1>2, <1>3, <1>6, <1>7, <1>8 DEF VInv, ValuesOK

LEMMA MoveInv ==
  ASSUME VInv, NEW x \in Vars, NEW y \in Vars, MoveConstructValue(x, y) \/ Swap(x, y)
  PROVE  VInv'
<1>1. CASE MoveConstructValue(x, y)
  <2>1. /\ NullValue \in [type : ValueTypes, u : Cells \cup Contents \cup {Freed}]
        /\ NullValue \in [type : ValueTypes, u : Contents \cup {Freed}]
    BY DEF NullValue, ValueTypes
  <2>2. /\ x \notin Alive /\ y \in Alive
        /\ val' = [val EXCEPT ![x] = val[y], ![y] = NullValue]
        /\ meant' = [meant EXCEPT ![x] = meant[y], ![y] = NullValue]
        /\ heap' = heap
    BY <1>1 DEF MoveConstructValue
  <2> QED BY <2>1, <2>2, HandOverInv
<1>2. CASE Swap(x, y)
  <2>1. /\ val[x] \in [type : ValueTypes, u : Cells \cup Contents \cup {Freed}]
        /\ meant[x] \in [type : ValueTypes, u : Contents \cup {Freed}]
    BY DEF VInv, ValuesOK
  <2>2. /\ x \in Alive /\ y \in Alive
        /\ val' = [val EXCEPT ![x] = val[y], ![y] = val[x]]
        /\ meant' = [meant EXCEPT ![x] = meant[y], ![y] = meant[x]]
        /\ heap' = heap
    BY <1>2 DEF Swap
  <2> QED BY <2>1, <2>2, HandOverInv
<1> QED BY <1>1, <1>2

\* get<double>() changes an integer alone, to the nearest double.
LEMMA GetDoubleInv ==
  ASSUME VInv, NEW x \in Vars, GetDouble(x)
  PROVE  VInv'
<1>1. /\ val \in [Vars -> [type : ValueTypes, u : Cells \cup Contents \cup {Freed}]]
      /\ heap' = heap /\ meant' = meant /\ val[x].type \in Numeric /\ x \in Alive
      /\ val[x] \in [type : ValueTypes, u : Cells \cup Contents \cup {Freed}]
  BY DEF VInv, ValuesOK, GetDouble, Numeric
<1>2. /\ Represents(val[x], ContentsOf(val[x]), meant[x])
      /\ ContentsOf(val[x]) = val[x].u
  BY <1>1 DEF VInv, Meaning, ContentsOf, HeapTypes, Numeric
<1> DEFINE u == IF val[x].type = "int64" THEN Rounded[val[x].u] ELSE val[x].u
<1>8. val' = [val EXCEPT ![x] = [type |-> "number", u |-> u]]
  BY DEF GetDouble
<1>9. u \in Cells \cup Contents \cup {Freed}
  BY <1>1, <1>2, ValueAssumption DEF Represents, Numeric
<1>10. Represents([type |-> "number", u |-> u], u, meant[x])
  BY <1>1, <1>2 DEF Represents, Numeric
<1> HIDE DEF u
<1>3. /\ val' \in [Vars -> [type : ValueTypes, u : Cells \cup Contents \cup {Freed}]]
      /\ val'[x] = [type |-> "number", u |-> u]
      /\ \A y \in Vars : y # x => val'[y] = val[y]
  BY <1>1, <1>8, <1>9 DEF ValueTypes, Numeric
<1>4. val[x].type \notin HeapTypes /\ val'[x].type \notin HeapTypes
  BY <1>1, <1>3 DEF Numeric, HeapTypes
<1>5. OwnersHold'
  BY <1>1, <1>3, <1>4 DEF VInv, OwnersHold, Owns
<1>6. NothingLeaks'
  BY <1>1, <1>3, <1>4 DEF VInv, NothingLeaks, Owns
<1>7. Meaning'
  <2> SUFFICES ASSUME NEW y \in Vars, val'[y].type # "dead"
               PROVE  Represents(val'[y], ContentsOf(val[y])', meant[y])
    BY <1>1 DEF Meaning, Alive
  <2>1. CASE y = x
    BY <1>3, <1>4, <1>10, <2>1 DEF ContentsOf
  <2>2. CASE y # x
    BY <1>1, <1>3, <2>2 DEF VInv, Meaning, ContentsOf, Alive
  <2> QED BY <2>1, <2>2
<1> QED BY <1>1, <1>3, <1>5, <1>6, <1>7 DEF VInv, ValuesOK

\* An assignment through a reference reaches the cell of x and no other's.
LEMMA ModifyInv ==
  ASSUME VInv, NEW x \in Vars, NEW c \in Contents, Modify(x, c)
  PROVE  VInv'
<1>1. /\ val \in [Vars -> [type : ValueTypes, u : Cells \cup Contents \cup {Freed}]]
      /\ heap \in [Cells -> Contents \cup {Freed}]
      /\ meant \in [Vars -> [type : ValueTypes, u : Contents \cup {Freed}]]
      /\ x \in Alive /\ val[x].type # "null" /\ c # Freed
      /\ val[x] \in [type : ValueTypes, u : Cells \cup Contents \cup {Freed}]
  BY ValueAssumption DEF VInv, ValuesOK, Modify
<1>2. /\ meant' \in [Vars -> [type : ValueTypes, u : Contents \cup {Freed}]]
      /\ meant'[x].type = val[x].type /\ meant'[x].u = c
      /\ \A y \in Vars : y # x => meant'[y] = meant[y]
  BY <1>1 DEF Modify, Means
<1>3. CASE val[x].type \in HeapTypes
  <2>1. val[x].u \in Cells /\ \A y \in Vars : Owns(y, val[x].u) => y = x
    BY <1>3 DEF VInv, OwnersHold
  <2>2. heap' = [heap EXCEPT ![val[x].u] = c] /\ val' = val
    BY <1>3 DEF Modify
  <2>3. /\ heap' \in [Cells -> Contents \cup {Freed}] /\ heap'[val[x].u] = c
        /\ \A d \in Cells : d # val[x].u => heap'[d] = heap[d]
    BY <1>1, <2>1, <2>2
  <2>4. OwnersHold'
    BY <1>1, <2>1, <2>2, <2>3 DEF VInv, OwnersHold, Owns
  <2>5. NothingLeaks'
    BY <1>3, <2>1, <2>2, <2>3 DEF VInv, NothingLeaks, Owns
  <2>6. Meaning'
    <3> SUFFICES ASSUME NEW y \in Vars, val[y].type # "dead"
                 PROVE  Represents(val[y], ContentsOf(val[y])', meant'[y])
      BY <2>2 DEF Meaning, Alive
    <3>1. CASE y = x
      BY <1>2, <1>3, <2>2, <2>3, <3>1 DEF Represents, ContentsOf
    <3>2. CASE y # x
      <4>1. ContentsOf(val[y])' = ContentsOf(val[y])
        BY <2>1, <2>2, <2>3, <3>2 DEF ContentsOf, VInv, OwnersHold, Owns
      <4> QED BY <1>2, <3>2, <4>1 DEF VInv, Meaning, Alive
    <3> QED BY <3>1, <3>2
  <2> QED BY <1>1, <1>2, <2>2, <2>3, <2>4, <2>5, <2>6 DEF VInv, ValuesOK
<1>4. CASE val[x].type \notin HeapTypes
  <2>1. /\ heap' = heap /\ val' = [val EXCEPT ![x].u = c]
    BY <1>4 DEF Modify
  <2>2. /\ val' \in [Vars -> [type : ValueTypes, u : Cells \cup Contents \cup {Freed}]]
        /\ val'[x].type = val[x].type /\ val'[x].u = c
        /\ \A y \in Vars : y # x => val'[y] = val[y]
    BY <1>1, <2>1
  <2>3. OwnersHold'
    BY <1>4, <2>1, <2>2 DEF VInv, OwnersHold, Owns
  <2>4. NothingLeaks'
    BY <1>4, <2>1, <2>2 DEF VInv, NothingLeaks, Owns
  <2>5. Meaning'
    <3> SUFFICES ASSUME NEW y \in Vars, val'[y].type # "dead"
                 PROVE  Represents(val'[y], ContentsOf(val[y])', meant'[y])
      BY DEF Meaning, Alive
    <3>1. CASE y = x
      BY <1>2, <1>4, <2>2, <3>1 DEF Represents, ContentsOf
    <3>2. CASE y # x
      BY <1>2, <2>1, <2>2, <3>2 DEF VInv, Meaning, ContentsOf, Alive
    <3> QED BY <3>1, <3>2
  <2> QED BY <1>1, <1>2, <2>1, <2>2, <2>3, <2>4, <2>5 DEF VInv, ValuesOK
<1> QED BY <1>3, <1>4

\* The destructor frees the cell of x and no other's.
LEMMA DestroyInv ==
  ASSUME VInv, NEW x \in Vars, DestroyValue(x)
  PROVE  VInv'
<1>1. HeapWithout(Clear(val[x]), x)
  BY ClearLeaves
<1>2. /\ val \in [Vars -> [type : ValueTypes, u : Cells \cup Contents \cup {Freed}]]
      /\ meant \in [Vars -> [type : ValueTypes, u : Contents \cup {Freed}]]
  BY DEF VInv, ValuesOK
<1>3. /\ val' \in [Vars -> [type : ValueTypes, u : Cells \cup Contents \cup {Freed}]]
      /\ val'[x].type = "dead" /\ \A y \in Vars : y # x => val'[y] = val[y]
      /\ meant' \in [Vars -> [type : ValueTypes, u : Contents \cup {Freed}]]
      /\ \A y \in Vars : y # x => meant'[y] = meant[y]
  BY <1>2 DEF DestroyValue, Means, Dead, ValueTypes
<1>4. heap' = Clear(val[x])
  BY DEF DestroyValue
<1>5. "dead" \notin HeapTypes
  BY DEF HeapTypes
<1>6. /\ heap' \in [Cells -> Contents \cup {Freed}]
      /\ \A d \in Cells : \A y \in Vars : y # x /\ Owns(y, d) => heap'[d] = heap[d]
      /\ \A d \in Cells : heap'[d] # Freed => \E y \in Vars : y # x /\ Owns(y, d)
  BY <1>1, <1>4 DEF HeapWithout
<1>7. OwnersHold'
  BY <1>3, <1>5, <1>6 DEF VInv, OwnersHold, Owns
<1>8. NothingLeaks'
  BY <1>3, <1>6 DEF NothingLeaks, Owns
<1>9. Meaning'
  <2> SUFFICES ASSUME NEW y \in Vars, y # x, val[y].type # "dead"
               PROVE  Represents(val[y], ContentsOf(val[y])', meant[y])
    BY <1>3 DEF Meaning, Alive
  <2>1. val'[y] = val[y]
    BY <1>3
  <2>2. ContentsOf(val[y])' = ContentsOf(val[y])
    BY <1>6, <2>1 DEF ContentsOf, VInv, OwnersHold, Owns
  <2> QED BY <2>2 DEF VInv, Meaning, Alive
<1> QED BY <1>3, <1>6, <1>7, <1>8, <1>9 DEF VInv, ValuesOK

-----------------------------------------------------------------------------
(* The theorems                                                             *)

\* The invariant holds in every state.
LEMMA ValueInvariant == ValueSpec => []VInv
<1>1. ValueInit => VInv
  <2> SUFFICES ASSUME ValueInit PROVE VInv
    OBVIOUS
  <2>1. ValuesOK
    BY DEF ValueInit, ValuesOK, Dead, ValueTypes
  <2>2. \A x \in Vars : val[x].type = "dead"
    BY DEF ValueInit, Dead
  <2>3. \A c \in Cells : heap[c] = Freed
    BY DEF ValueInit
  <2> QED BY <2>1, <2>2, <2>3 DEF VInv, OwnersHold, NothingLeaks, Meaning, Alive, HeapTypes
<1>2. VInv /\ [ValueNext]_valueVars => VInv'
  <2> SUFFICES ASSUME VInv, [ValueNext]_valueVars PROVE VInv'
    OBVIOUS
  <2>1. ASSUME NEW x \in Vars, NEW type \in Types, NEW c \in Contents,
               ConstructValue(x, type, c) \/ Set(x, type, c)
        PROVE  VInv'
    BY <2>1, NewValueInv
  <2>2. ASSUME NEW x \in Vars, NEW y \in Vars, CopyConstructValue(x, y) \/ CopyAssignValue(x, y)
        PROVE  VInv'
    BY <2>2, CopyInv
  <2>3. ASSUME NEW x \in Vars, NEW y \in Vars, MoveConstructValue(x, y) \/ Swap(x, y)
        PROVE  VInv'
    BY <2>3, MoveInv
  <2>4. ASSUME NEW x \in Vars, GetDouble(x) PROVE VInv'
    BY <2>4, GetDoubleInv
  <2>5. ASSUME NEW x \in Vars, DestroyValue(x) PROVE VInv'
    BY <2>5, DestroyInv
  <2>6. ASSUME NEW x \in Vars, NEW c \in Contents, Modify(x, c) PROVE VInv'
    BY <2>6, ModifyInv
  <2>7. CASE UNCHANGED valueVars
    BY <2>7 DEF valueVars, VInv, ValuesOK, OwnersHold, NothingLeaks, Meaning, Alive,
                ContentsOf, Owns
  <2> QED BY <2>1, <2>2, <2>3, <2>4, <2>5, <2>6, <2>7 DEF ValueNext
<1> QED BY <1>1, <1>2, PTL DEF ValueSpec

\* However values are made, copied, moved, swapped, set, converted, changed
\* through references and destroyed, every allocated string, array or object
\* of picojson::value belongs to exactly one live value and nothing freed
\* belongs to any: clear() and ~value() free each once and leak none.
THEOREM CellsOwnedOnce == ValueSpec => []OwnedOnce
<1>1. VInv => OwnedOnce
  <2> SUFFICES ASSUME VInv, NEW c \in Cells
               PROVE  Cardinality({x \in Alive : val[x].type \in HeapTypes /\ val[x].u = c})
                        = IF heap[c] = Freed THEN 0 ELSE 1
    BY DEF OwnedOnce
  <2> DEFINE owners == {x \in Alive : val[x].type \in HeapTypes /\ val[x].u = c}
  <2>1. CASE heap[c] = Freed
    <3>1. owners = {}
      BY <2>1 DEF VInv, OwnersHold, Alive
    <3> QED BY <2>1, <3>1, FS_EmptySet
  <2>2. CASE heap[c] # Freed
    <3>1. PICK x \in Vars : Owns(x, c)
      BY <2>2 DEF VInv, NothingLeaks
    <3>2. owners = {x}
      BY <3>1 DEF VInv, OwnersHold, Alive, Owns, HeapTypes
    <3> QED BY <2>2, <3>2, FS_Singleton
  <2> QED BY <2>1, <2>2
<1> QED BY <1>1, ValueInvariant, PTL

\* After the same operations each live picojson::value holds what it would if
\* values were mathematical ones: copies are deep, a moved-from value is null,
\* and get<double>() leaves the double nearest to the integer it converts.
THEOREM ValuesBehave == ValueSpec => []ValueSemantics
<1>1. VInv => ValueSemantics
  BY DEF VInv, Meaning, Represents, ValueSemantics, ContentsOf, HeapTypes
<1> QED BY <1>1, ValueInvariant, PTL

-----------------------------------------------------------------------------
(* Key sets: the inductive invariant                                        *)

\* The keys are what parse_jwks makes of the document.
KeysParsed ==
  /\ document \in Documents \cup {<<"text", "">>}
  /\ keys = ParseJwks(document)

\* With them the answer of the last lookup is right.
KeySetInv == KeysParsed /\ LookupIsFirstListed

\* The elements at which a lookup ends: those that have the id, and those whose
\* id is no string
Ends(jwks, kid) ==
  {i \in 1..Len(jwks) : HasClaim(jwks[i], "kid") /\
                         (jwks[i]["kid"] = <<"string", kid>> \/ jwks[i]["kid"][1] # "string")}

\* The parts of a pair
LEMMA PairParts ==
  ASSUME NEW t, NEW a, NEW b, t = <<a, b>>
  PROVE  t[1] = a /\ t[2] = b
OBVIOUS

\* A set of positions that is not empty has a least member, and Min finds it.
LEMMA MinIsLeast ==
  ASSUME NEW n \in Nat, NEW S, S \subseteq 1..n, S # {}
  PROVE  Min(S) \in S /\ \A j \in S : Min(S) <= j
<1> DEFINE R == OpToRel(<, Nat)
<1>1. S \subseteq Nat
  OBVIOUS
<1>2. IsWellFoundedOn(R, Nat)
  BY NatLessThanWellFounded
<1>3. PICK m \in S : \A y \in S : ~(<<y, m>> \in R)
  BY <1>1, <1>2, WFMin
<1>4. ASSUME NEW j \in S PROVE m <= j
  <2>1. j \in Nat /\ m \in Nat /\ ~(<<j, m>> \in R)
    BY <1>1, <1>3
  <2>2. ~(j < m)
    BY <2>1 DEF OpToRel
  <2> HIDE DEF R
  <2> QED BY <2>1, <2>2
<1> QED BY <1>4 DEF Min

\* find_by_kid ends at the first of these elements.
LEMMA FindsFirst ==
  ASSUME NEW jwks, NEW n \in Nat, DOMAIN jwks = 1..n, Len(jwks) = n, NEW kid
  PROVE  /\ Ends(jwks, kid) = {} => FindByKid(jwks, kid) = 0
         /\ Ends(jwks, kid) # {} => /\ FindByKid(jwks, kid) \in Ends(jwks, kid)
                                    /\ \A j \in Ends(jwks, kid) : FindByKid(jwks, kid) <= j
<1>1. FindByKid(jwks, kid) = IF Ends(jwks, kid) # {} THEN Min(Ends(jwks, kid)) ELSE 0
  BY DEF FindByKid, Ends, SelectInSeq
<1>2. Ends(jwks, kid) \subseteq 1..n
  BY DEF Ends
<1>3. Ends(jwks, kid) # {} => /\ Min(Ends(jwks, kid)) \in Ends(jwks, kid)
                              /\ \A j \in Ends(jwks, kid) : Min(Ends(jwks, kid)) <= j
  BY <1>2, MinIsLeast
<1> QED BY <1>1, <1>3

\* What parse_jwks makes of a document: the keys, in the order of the list
LEMMA Parsed ==
  ASSUME NEW d \in Documents \cup {<<"text", "">>}, ParseJwks(d) # Thrown
  PROVE  LET list == d[2][2]["keys"][2]
             jwks == ParseJwks(d)[2]
         IN /\ \E n \in Nat : DOMAIN jwks = 1..n /\ Len(jwks) = n
            /\ DOMAIN jwks = DOMAIN list
            /\ \A i \in DOMAIN list : jwks[i] = list[i][2]
<1> DEFINE list == d[2][2]["keys"][2]
           jwks == ParseJwks(d)[2]
<1>1. ParseClaims(d) # Thrown
  BY DEF ParseJwks
<1>2. d[1] = "json" /\ d[2][1] = "object"
  BY <1>1 DEF ParseClaims, As
<1>3. d \in Documents
  <2>1. d # <<"text", "">>
    BY <1>2, PairParts
  <2> QED BY <2>1
<1>4. ParseClaims(d) = d[2]
  BY <1>2 DEF ParseClaims, As
<1>5. As("array", GetClaim(d[2][2], "keys")) # Thrown
  BY <1>1, <1>4 DEF ParseJwks
<1>6. "keys" \in DOMAIN d[2][2] /\ GetClaim(d[2][2], "keys") = d[2][2]["keys"]
  <2>1. As("array", Thrown) = Thrown
    BY DEF As, Thrown
  <2> QED BY <1>5, <2>1 DEF GetClaim
<1>7. As("array", GetClaim(d[2][2], "keys")) = d[2][2]["keys"]
  BY <1>5, <1>6 DEF As
<1>8. ParseJwks(d) = <<"jwks", [i \in DOMAIN list |-> list[i][2]]>>
  BY <1>1, <1>4, <1>5, <1>7 DEF ParseJwks
<1>9. jwks = [i \in DOMAIN list |-> list[i][2]]
  <2> DEFINE f == [i \in DOMAIN list |-> list[i][2]]
  <2>1. ParseJwks(d) = <<"jwks", f>>
    BY <1>8
  <2> HIDE DEF f
  <2>2. ParseJwks(d)[2] = f
    BY <2>1, PairParts
  <2> QED BY <2>2 DEF f
<1>10. Len(jwks) \in Nat /\ DOMAIN jwks = 1..Len(jwks)
  BY <1>3, KeySetAssumption
<1> QED BY <1>9, <1>10

\* If a lookup comes back, it has found the first element with the id or there
\* is none.
LEMMA LookupFinds ==
  ASSUME KeysParsed, keys # Thrown, NEW kid
  PROVE  LET list == document[2][2]["keys"][2]
             i    == FindByKid(keys[2], kid)
         IN /\ (~Terminates(keys[2], kid) /\ Listed(kid) = {}) => i = 0
            /\ (~Terminates(keys[2], kid) /\ Listed(kid) # {}) =>
                 i # 0 /\ keys[2][i] = list[Min(Listed(kid))][2]
<1> DEFINE list == document[2][2]["keys"][2]
           jwks == keys[2]
           i    == FindByKid(jwks, kid)
<1>1. PICK n \in Nat : DOMAIN jwks = 1..n /\ Len(jwks) = n
  BY Parsed DEF KeysParsed
<1>2. DOMAIN jwks = DOMAIN list /\ \A k \in DOMAIN list : jwks[k] = list[k][2]
  BY Parsed DEF KeysParsed
<1> HIDE DEF jwks
<1>3. Listed(kid) = {k \in 1..n : "kid" \in DOMAIN jwks[k] /\ jwks[k]["kid"] = <<"string", kid>>}
  BY <1>1, <1>2 DEF Listed
<1>4. Ends(jwks, kid) = {k \in 1..n : "kid" \in DOMAIN jwks[k]
                           /\ (jwks[k]["kid"] = <<"string", kid>> \/ jwks[k]["kid"][1] # "string")}
  BY <1>1 DEF Ends, HasClaim
<1>5. Listed(kid) \subseteq Ends(jwks, kid)
  BY <1>3, <1>4
<1>6. Terminates(jwks, kid) <=> i # 0 /\ jwks[i]["kid"][1] # "string"
  BY DEF Terminates
<1>7. Ends(jwks, kid) = {} => i = 0
  BY <1>1, FindsFirst
<1>8. Ends(jwks, kid) # {} => i \in Ends(jwks, kid) /\ \A j \in Ends(jwks, kid) : i <= j
  BY <1>1, FindsFirst
<1> HIDE DEF i
<1>9. i # 0 => i \in Ends(jwks, kid)
  BY <1>7, <1>8
<1>10. CASE Terminates(jwks, kid)
  BY <1>10 DEF jwks
<1>11. CASE ~Terminates(jwks, kid) /\ i = 0
  <2>1. Ends(jwks, kid) = {}
    BY <1>4, <1>8, <1>11
  <2> QED BY <1>5, <1>11, <2>1 DEF jwks, i
<1>12. CASE ~Terminates(jwks, kid) /\ i # 0
  <2>1. i \in 1..n /\ i \in Listed(kid)
    BY <1>3, <1>4, <1>6, <1>9, <1>12
  <2>2. \A j \in Listed(kid) : i <= j
    BY <1>5, <1>8
  <2>3. Listed(kid) \subseteq 1..n
    BY <1>3
  <2>4. Min(Listed(kid)) \in Listed(kid) /\ \A j \in Listed(kid) : Min(Listed(kid)) <= j
    BY <2>1, <2>3, MinIsLeast
  <2>5. Min(Listed(kid)) = i
    BY <2>1, <2>2, <2>3, <2>4
  <2>6. jwks[i] = list[i][2]
    BY <1>1, <1>2, <2>1
  <2> QED BY <1>12, <2>1, <2>5, <2>6 DEF jwks, i
<1> QED BY <1>10, <1>11, <1>12

-----------------------------------------------------------------------------
(* The invariant                                                            *)

\* parse_jwks stores the keys of the document it is given.
LEMMA ParseInv ==
  ASSUME KeySetInv, Parse
  PROVE  KeySetInv'
BY DEF KeySetInv, Parse, KeysParsed, LookupIsFirstListed

\* The list that answers are about does not change with the answer.
LEMMA ListedStays ==
  ASSUME NEW kid, UNCHANGED <<document, keys>>
  PROVE  Listed(kid)' = Listed(kid)
BY DEF Listed

\* has_jwk finds out whether a key with the id is listed, or ends in a throw.
LEMMA HasJwkInv ==
  ASSUME KeySetInv, NEW kid, HasJwk(kid)
  PROVE  KeySetInv'
<1> USE DEF HasJwk
<1>1. KeysParsed'
  BY DEF KeySetInv, KeysParsed
<1>2. KeysParsed /\ keys # Thrown
  BY DEF KeySetInv
<1>3. Listed(kid)' = Listed(kid)
  BY ListedStays
<1>4. CASE Terminates(keys[2], kid)
  <2>1. answer' = <<"terminated", kid>>
    BY <1>4
  <2>2. answer'[1] = "terminated" /\ answer'[2] = kid
    BY <2>1, PairParts
  <2>3. LookupIsFirstListed'
    BY <2>2 DEF LookupIsFirstListed
  <2> QED BY <1>1, <2>3 DEF KeySetInv
<1>5. CASE ~Terminates(keys[2], kid)
  <2> DEFINE found == FindByKid(keys[2], kid) # 0
  <2>1. answer' = <<"has_jwk", kid, found>>
    BY <1>5
  <2> HIDE DEF found
  <2>2. answer'[1] = "has_jwk" /\ answer'[2] = kid /\ answer'[3] = found
    BY <2>1
  <2> USE DEF found
  <2>3. FindByKid(keys[2], kid) # 0 <=> Listed(kid) # {}
    BY <1>2, <1>5, LookupFinds
  <2>4. LookupIsFirstListed'
    BY <1>3, <2>2, <2>3 DEF LookupIsFirstListed
  <2> QED BY <1>1, <2>4 DEF KeySetInv
<1> QED BY <1>4, <1>5

\* get_jwk returns the first key with the id, or throws.
LEMMA GetJwkInv ==
  ASSUME KeySetInv, NEW kid, GetJwk(kid)
  PROVE  KeySetInv'
<1> USE DEF GetJwk
<1> DEFINE i == FindByKid(keys[2], kid)
<1>1. KeysParsed'
  BY DEF KeySetInv, KeysParsed
<1>2. KeysParsed /\ keys # Thrown
  BY DEF KeySetInv
<1>3. Listed(kid)' = Listed(kid)
  BY ListedStays
<1>4. CASE Terminates(keys[2], kid)
  <2>1. answer' = <<"terminated", kid>>
    BY <1>4
  <2>2. answer'[1] = "terminated" /\ answer'[2] = kid
    BY <2>1, PairParts
  <2>3. LookupIsFirstListed'
    BY <2>2 DEF LookupIsFirstListed
  <2> QED BY <1>1, <2>3 DEF KeySetInv
<1>5. CASE ~Terminates(keys[2], kid)
  <2> DEFINE found == IF i = 0 THEN Thrown ELSE <<"jwk", keys[2][i]>>
  <2>1. answer' = <<"get_jwk", kid, found>>
    BY <1>5
  <2> HIDE DEF found
  <2>2. answer'[1] = "get_jwk" /\ answer'[2] = kid /\ answer'[3] = found
    BY <2>1
  <2>3. /\ Listed(kid) = {} => i = 0
        /\ Listed(kid) # {} => i # 0 /\ keys[2][i] = document[2][2]["keys"][2][Min(Listed(kid))][2]
    BY <1>2, <1>5, LookupFinds
  <2> HIDE DEF i
  <2>4. IF Listed(kid) = {} THEN found = Thrown
        ELSE found = <<"jwk", document[2][2]["keys"][2][Min(Listed(kid))][2]>>
    BY <2>3 DEF found
  <2>5. LookupIsFirstListed'
    BY <1>3, <2>2, <2>4 DEF LookupIsFirstListed
  <2> QED BY <1>1, <2>5 DEF KeySetInv
<1> QED BY <1>4, <1>5

\* A member is read of the key that get_jwk returned.
LEMMA FoundKey ==
  ASSUME KeySetInv, answer[1] = "get_jwk", answer[3] # Thrown
  PROVE  /\ Listed(answer[2]) # {}
         /\ answer[3][2] = document[2][2]["keys"][2][Min(Listed(answer[2]))][2]
<1> DEFINE jwk == document[2][2]["keys"][2][Min(Listed(answer[2]))][2]
<1>1. Listed(answer[2]) # {} /\ answer[3] = <<"jwk", jwk>>
  BY DEF KeySetInv, LookupIsFirstListed
<1> HIDE DEF jwk
<1>2. answer[3][2] = jwk
  BY <1>1, PairParts
<1> QED BY <1>1, <1>2 DEF jwk

\* get_x5c_key_value reads the first certificate of the key that was found.
LEMMA ReadKeyValueInv ==
  ASSUME KeySetInv, ReadKeyValue
  PROVE  KeySetInv'
<1> USE DEF ReadKeyValue
<1> DEFINE jwk == document[2][2]["keys"][2][Min(Listed(answer[2]))][2]
<1>1. KeysParsed'
  BY DEF KeySetInv, KeysParsed
<1>2. Listed(answer[2]) # {} /\ answer[3][2] = jwk
  BY FoundKey
<1>3. \A kid : Listed(kid)' = Listed(kid)
  BY ListedStays
<1> HIDE DEF jwk
<1>4. answer' = <<"member", "value", GetX5cKeyValue(jwk), answer[2]>>
  BY <1>2
<1>5. /\ answer'[1] = "member" /\ answer'[2] = "value"
      /\ answer'[3] = GetX5cKeyValue(jwk) /\ answer'[4] = answer[2]
  BY <1>4
<1>6. GetX5cKeyValue(jwk) # Thrown => jwk["x5c"][2][1] = GetX5cKeyValue(jwk)
  <2>1. As("array", Thrown) = Thrown
    BY DEF As, Thrown
  <2> QED BY <2>1 DEF GetX5cKeyValue, As, GetClaim
<1>7. LookupIsFirstListed'
  BY <1>2, <1>3, <1>5, <1>6 DEF LookupIsFirstListed, jwk
<1> QED BY <1>1, <1>7 DEF KeySetInv

\* A getter reads the member of the key that was found, or throws.
LEMMA ReadMemberInv ==
  ASSUME KeySetInv, NEW name \in Members, ReadMember(name)
  PROVE  KeySetInv'
<1> USE DEF ReadMember
<1> DEFINE jwk == document[2][2]["keys"][2][Min(Listed(answer[2]))][2]
<1>1. KeysParsed'
  BY DEF KeySetInv, KeysParsed
<1>2. Listed(answer[2]) # {} /\ answer[3][2] = jwk
  BY FoundKey
<1>3. \A kid : Listed(kid)' = Listed(kid)
  BY ListedStays
<1> HIDE DEF jwk
<1>4. answer' = <<"member", name, GetMember(jwk, name), answer[2]>>
  BY <1>2
<1>5. /\ answer'[1] = "member" /\ answer'[2] = name
      /\ answer'[3] = GetMember(jwk, name) /\ answer'[4] = answer[2]
  BY <1>4
<1>6. As("array", Thrown) = Thrown /\ As("string", Thrown) = Thrown /\ AsSet(Thrown) = Thrown
  BY DEF As, AsSet, Thrown
<1>7. ASSUME name = "key_ops", GetMember(jwk, name) # Thrown
      PROVE  GetMember(jwk, name)[2] = Operations(jwk)
  <2>1. GetMember(jwk, name) = AsSet(jwk["key_ops"])
    BY <1>6, <1>7 DEF GetMember, GetClaim
  <2>2. AsSet(jwk["key_ops"]) = <<"set", Operations(jwk)>>
    BY <1>7, <2>1 DEF AsSet, Operations
  <2> QED BY <2>1, <2>2, PairParts
<1>8. ASSUME name # "key_ops", GetMember(jwk, name) # Thrown
      PROVE  jwk[name] = GetMember(jwk, name)
  BY <1>6, <1>8 DEF GetMember, GetClaim, As
<1>9. name # "value"
  BY KeySetAssumption
<1>10. LookupIsFirstListed'
  BY <1>2, <1>3, <1>5, <1>7, <1>8, <1>9 DEF LookupIsFirstListed, jwk
<1> QED BY <1>1, <1>10 DEF KeySetInv

\* Lookups and the members read come from the document that was parsed last:
\* the first key listed under the id, or none, for every document and however
\* parsing, lookups and reading follow each other.
THEOREM LookupAnswersFromDocument == KeySetSpec => []LookupIsFirstListed
<1>1. KeySetInit => KeySetInv
  <2> SUFFICES ASSUME KeySetInit PROVE KeySetInv
    OBVIOUS
  <2>1. document[1] = "text" /\ answer[1] = "none"
    BY DEF KeySetInit
  <2>2. ParseClaims(document) = Thrown
    BY <2>1 DEF ParseClaims
  <2>3. ParseJwks(document) = Thrown
    BY <2>2 DEF ParseJwks
  <2> QED BY <2>1, <2>3 DEF KeySetInit, KeySetInv, KeysParsed, LookupIsFirstListed
<1>2. KeySetInv /\ [KeySetNext]_keySetVars => KeySetInv'
  <2> SUFFICES ASSUME KeySetInv, [KeySetNext]_keySetVars PROVE KeySetInv'
    OBVIOUS
  <2>1. CASE Parse
    BY <2>1, ParseInv
  <2>2. ASSUME NEW kid \in KeyIds, HasJwk(kid) \/ GetJwk(kid) PROVE KeySetInv'
    BY <2>2, HasJwkInv, GetJwkInv
  <2>3. ASSUME NEW name \in Members, ReadMember(name) PROVE KeySetInv'
    BY <2>3, ReadMemberInv
  <2>4. CASE ReadKeyValue
    BY <2>4, ReadKeyValueInv
  <2>5. CASE UNCHANGED keySetVars
    <3>1. \A kid : Listed(kid)' = Listed(kid)
      BY <2>5, ListedStays DEF keySetVars
    <3> QED BY <2>5, <3>1 DEF keySetVars, KeySetInv, KeysParsed, LookupIsFirstListed
  <2> QED BY <2>1, <2>2, <2>3, <2>4, <2>5 DEF KeySetNext
<1>3. KeySetInv => LookupIsFirstListed
  BY DEF KeySetInv
<1> QED BY <1>1, <1>2, <1>3, PTL DEF KeySetSpec

-----------------------------------------------------------------------------
(* Escapes                                                                  *)

\* A digit is one of sixteen.
LEMMA HexRange ==
  ASSUME NEW c
  PROVE  Hex(c) \in -1..15
BY SMT DEF Hex

\* Reading four digits in turn gives them their weights.
LEMMA QuadhexIsUnit ==
  ASSUME NEW text \in Seq(0..255), NEW pos \in Nat \ {0}
  PROVE  ParseQuadhex(text, pos) = IF UnitAt(text, pos) THEN Unit(text, pos) ELSE -1
<1> DEFINE d(i) == Hex(Getc(text, pos + i))
<1>1. CASE pos + 3 <= Len(text)
  <2>1. \A i \in 0..3 : Getc(text, pos + i) = text[pos + i]
    BY <1>1 DEF Getc
  <2>2. UnitAt(text, pos) <=> \A i \in 0..3 : d(i) # -1
    <3>1. \A i \in 0..3 : d(i) = Hex(text[pos + i])
      BY <2>1
    <3>2. UnitAt(text, pos) <=> \A i \in 0..3 : Hex(text[pos + i]) # -1
      <4>1. ASSUME \A i \in 0..3 : Hex(text[pos + i]) # -1, NEW j \in pos..pos + 3
            PROVE  Hex(text[j]) # -1
        <5>1. j - pos \in 0..3 /\ pos + (j - pos) = j
          OBVIOUS
        <5> QED BY <5>1, <4>1
      <4>2. \A i \in 0..3 : pos + i \in pos..pos + 3
        OBVIOUS
      <4> QED BY <4>1, <4>2, <1>1 DEF UnitAt
    <3> QED BY <3>1, <3>2
  <2>3. CASE UnitAt(text, pos)
    <3> HIDE DEF d
    <3>1. ParseQuadhex(text, pos) = ((d(0) * 16 + d(1)) * 16 + d(2)) * 16 + d(3)
      BY <2>2, <2>3 DEF ParseQuadhex, d
    <3>2. d(0) \in Int /\ d(1) \in Int /\ d(2) \in Int /\ d(3) \in Int
      BY HexRange DEF d
    <3>3. Unit(text, pos) = 4096 * d(0) + 256 * d(1) + 16 * d(2) + d(3)
      <4>1. d(0) = Hex(text[pos]) /\ d(1) = Hex(text[pos + 1])
            /\ d(2) = Hex(text[pos + 2]) /\ d(3) = Hex(text[pos + 3])
        BY <2>1 DEF d
      <4> QED BY <4>1 DEF Unit
    <3>4. PICK a \in Int, b \in Int, c \in Int, e \in Int :
            a = d(0) /\ b = d(1) /\ c = d(2) /\ e = d(3)
      BY <3>2
    <3>5. ((a * 16 + b) * 16 + c) * 16 + e = 4096 * a + 256 * b + 16 * c + e
      OBVIOUS
    <3>6. ParseQuadhex(text, pos) = Unit(text, pos)
      BY <3>1, <3>3, <3>4, <3>5
    <3> QED BY <3>6, <2>3
  <2>4. CASE ~UnitAt(text, pos)
    BY <2>2, <2>4 DEF ParseQuadhex
  <2> QED BY <2>3, <2>4
<1>2. CASE ~(pos + 3 <= Len(text))
  <2>1. Getc(text, pos + 3) = -1
    BY <1>2 DEF Getc
  <2>2. Hex(-1) = -1
    BY DEF Hex
  <2>3. ParseQuadhex(text, pos) = -1
    BY <2>1, <2>2 DEF ParseQuadhex
  <2> QED BY <2>3, <1>2 DEF UnitAt
<1> QED BY <1>1, <1>2

\* Kibi, not expanded: larger numbers than these are slow in the provers.
LEMMA KibiFact == Kibi \in Nat /\ Kibi >= 1024 /\ Kibi <= 1024
BY SMT DEF Kibi

\* A unit has 16 bits.
LEMMA UnitRange ==
  ASSUME NEW text \in Seq(0..255), NEW pos \in Nat \ {0}, UnitAt(text, pos)
  PROVE  Unit(text, pos) \in Nat /\ Unit(text, pos) < 64 * Kibi
<1>1. \A i \in 0..3 : pos + i \in pos..pos + 3
  OBVIOUS
<1>2. \A i \in pos..pos + 3 : Hex(text[i]) \in 0..15
  BY HexRange DEF UnitAt
<1>3. /\ Hex(text[pos]) \in 0..15 /\ Hex(text[pos + 1]) \in 0..15
      /\ Hex(text[pos + 2]) \in 0..15 /\ Hex(text[pos + 3]) \in 0..15
  BY <1>1, <1>2
<1>4. PICK a \in 0..15, b \in 0..15, c \in 0..15, d \in 0..15 :
        /\ a = Hex(text[pos]) /\ b = Hex(text[pos + 1])
        /\ c = Hex(text[pos + 2]) /\ d = Hex(text[pos + 3])
  BY <1>3
<1>5. Unit(text, pos) = 4096 * a + 256 * b + 16 * c + d
  BY <1>4 DEF Unit
<1>6. 4096 * a + 256 * b + 16 * c + d < 64 * Kibi
  BY SMT, KibiFact
<1> QED BY <1>5, <1>6

\* What Unicode has room for
Character(n) == n \in Nat /\ n < 1088 * Kibi

\* The character that is read is the one that is spelled.
LEMMA CodepointIsSpelled ==
  ASSUME NEW text \in Seq(0..255)
  PROVE  /\ IsSingle(text) \/ IsPair(text) =>
              /\ Codepoint(text) = Spelled(text) /\ Codepoint(text) # -1
              /\ Character(Spelled(text))
         /\ ~IsSingle(text) /\ ~IsPair(text) => Codepoint(text) = -1
<1>1. ParseQuadhex(text, 1) = IF UnitAt(text, 1) THEN Unit(text, 1) ELSE -1
  BY QuadhexIsUnit
<1>2. ParseQuadhex(text, 7) = IF UnitAt(text, 7) THEN Unit(text, 7) ELSE -1
  BY QuadhexIsUnit
<1>3. UnitAt(text, 1) => Unit(text, 1) \in Nat /\ Unit(text, 1) < 64 * Kibi
  BY UnitRange
<1>4. UnitAt(text, 7) => Unit(text, 7) \in Nat /\ Unit(text, 7) < 64 * Kibi
  BY UnitRange
<1>5. CASE IsSingle(text)
  <2>1. Codepoint(text) = Unit(text, 1)
    BY <1>1, <1>5 DEF IsSingle, Codepoint
  <2>2. Spelled(text) = Unit(text, 1)
    BY <1>5 DEF IsSingle, IsPair, Spelled
  <2>3. Unit(text, 1) # -1 /\ Character(Unit(text, 1))
    BY <1>3, <1>5, KibiFact DEF IsSingle, Character
  <2> QED BY <2>1, <2>2, <2>3, <1>5
<1>6. CASE IsPair(text)
  <2>1. Getc(text, 5) = 92 /\ Getc(text, 6) = 117
    BY <1>6 DEF IsPair, Getc, UnitAt
  <2>2. PICK a \in Nat : a = Unit(text, 1) /\ 54 * Kibi <= a /\ a < 55 * Kibi
    BY <1>6, <1>3 DEF IsPair, High
  <2>3. PICK b \in Nat : b = Unit(text, 7) /\ 55 * Kibi <= b /\ b < 56 * Kibi
    BY <1>6, <1>4 DEF IsPair, Low
  <2>4. Low(b) /\ High(a) /\ ~Low(a)
    BY <2>2, <2>3, KibiFact DEF Low, High
  <2>5. Codepoint(text) = Combine(a, b)
    BY <1>1, <1>2, <1>6, <2>1, <2>2, <2>3, <2>4 DEF IsPair, Codepoint
  <2>6. PICK x \in 0..1023 : x = a - 54 * Kibi
    <3>1. 54 * Kibi <= a /\ a < 55 * Kibi
      BY <2>2
    <3>2. PICK k \in Nat : k = Kibi /\ k >= 1024 /\ k <= 1024
      BY KibiFact
    <3>3. a - 54 * k \in 0..1023
      BY SMT, <3>1, <3>2
    <3> QED BY <3>2, <3>3
  <2>7. PICK y \in 0..1023 : y = b - 55 * Kibi
    <3>1. 55 * Kibi <= b /\ b < 56 * Kibi
      BY <2>3
    <3>2. PICK k \in Nat : k = Kibi /\ k >= 1024 /\ k <= 1024
      BY KibiFact
    <3>3. b - 55 * k \in 0..1023
      BY SMT, <3>1, <3>2
    <3> QED BY <3>2, <3>3
  <2>8. Combine(a, b) = x * 1024 + y + 64 * Kibi
    <3>1. y % 1024 = y
      OBVIOUS
    <3>2. Combine(a, b) = x * 1024 + (y % 1024) + 64 * Kibi
      BY <2>4, <2>6, <2>7 DEF Combine
    <3> QED BY <3>1, <3>2
  <2>9. Spelled(text) = 64 * Kibi + x * 1024 + y
    BY <1>6, <2>2, <2>3, <2>6, <2>7 DEF Spelled
  <2>10. x * 1024 + y + 64 * Kibi = 64 * Kibi + x * 1024 + y
    BY KibiFact
  <2>11. Character(x * 1024 + y + 64 * Kibi) /\ x * 1024 + y + 64 * Kibi # -1
    BY SMT, KibiFact DEF Character
  <2> QED BY <2>5, <2>8, <2>9, <2>10, <2>11, <1>6
<1>7. CASE ~IsSingle(text) /\ ~IsPair(text)
  <2>1. CASE ~UnitAt(text, 1)
    <3>1. ~Low(-1) /\ ~High(-1)
      BY KibiFact DEF Low, High
    <3> QED BY <3>1, <2>1, <1>1, <1>7 DEF Codepoint
  <2>2. CASE UnitAt(text, 1) /\ Low(Unit(text, 1))
    BY <2>2, <1>1, <1>7 DEF Codepoint
  <2>3. CASE UnitAt(text, 1) /\ High(Unit(text, 1)) /\ ~Low(Unit(text, 1))
    <3>1. CASE Getc(text, 5) # 92 \/ Getc(text, 6) # 117
      BY <2>3, <3>1, <1>1, <1>7 DEF Codepoint
    <3>2. CASE Getc(text, 5) = 92 /\ Getc(text, 6) = 117
      <4>1. text[5] = 92 /\ text[6] = 117
        BY <3>2 DEF Getc
      <4>2. ~Low(ParseQuadhex(text, 7))
        <5>1. ~Low(-1)
          BY KibiFact DEF Low
        <5> QED BY <5>1, <4>1, <2>3, <1>2, <1>7 DEF IsPair
      <4> QED BY <4>2, <2>3, <3>2, <1>1, <1>7 DEF Codepoint, Combine
    <3> QED BY <3>1, <3>2
  <2> QED BY <2>1, <2>2, <2>3, <1>7 DEF IsSingle
<1> QED BY <1>5, <1>6, <1>7

\* The bytes are the shortest UTF-8 form of the character.
LEMMA Utf8IsUtf8 ==
  ASSUME NEW n, Character(n)
  PROVE  IsUtf8(Utf8(n), n)
<1>0. n \in Nat /\ n < 1088 * Kibi
  BY DEF Character
<1>1. PICK q1 \in Nat, r1 \in 0..63 : n = 64 * q1 + r1
  <2>1. n \div 64 \in Nat /\ n % 64 \in 0..63 /\ n = 64 * (n \div 64) + (n % 64)
    BY <1>0
  <2> QED BY <2>1
<1>2. PICK q2 \in Nat, r2 \in 0..63 : q1 = 64 * q2 + r2
  <2>1. q1 \div 64 \in Nat /\ q1 % 64 \in 0..63 /\ q1 = 64 * (q1 \div 64) + (q1 % 64)
    OBVIOUS
  <2> QED BY <2>1
<1>3. PICK q3 \in Nat, r3 \in 0..63 : q2 = 64 * q3 + r3
  <2>1. q2 \div 64 \in Nat /\ q2 % 64 \in 0..63 /\ q2 = 64 * (q2 \div 64) + (q2 % 64)
    OBVIOUS
  <2> QED BY <2>1
<1>4. n \div 64 = q1 /\ n % 64 = r1
  BY <1>0, <1>1
<1>5. n \div 4096 = q2 /\ (n \div 64) % 64 = r2
  BY <1>0, <1>1, <1>2, <1>4
<1>6. n \div (256 * Kibi) = q3 /\ (n \div 4096) % 64 = r3
  <2>1. q2 % 64 = r3
    BY <1>3
  <2>2. n \div (256 * Kibi) = q3
    BY SMT, <1>0, <1>1, <1>2, <1>3, KibiFact
  <2> QED BY <2>1, <2>2, <1>5
<1>7. CASE n < 128
  BY <1>0, <1>7 DEF Utf8, IsUtf8
<1>8. CASE n \in 128..2047
  <2>1. Utf8(n) = <<192 + q1, 128 + r1>>
    BY <1>8, <1>4 DEF Utf8
  <2>2. q1 \in 0..31
    BY <1>1, <1>8
  <2> QED BY <2>1, <2>2, <1>1, <1>8 DEF IsUtf8, Follows
<1>9. CASE 2048 <= n /\ n < 64 * Kibi
  <2>1. Utf8(n) = <<224 + q2, 128 + r2, 128 + r1>>
    BY <1>0, <1>9, <1>4, <1>5 DEF Utf8
  <2>2. q2 \in 0..15
    BY <1>1, <1>2, <1>9, KibiFact
  <2>3. n = (q2 * 64 + r2) * 64 + r1
    BY <1>1, <1>2
  <2> QED BY <2>1, <2>2, <2>3, <1>9 DEF IsUtf8, Follows
<1>10. CASE 64 * Kibi <= n
  <2>1. Utf8(n) = <<240 + q3, 128 + r3, 128 + r2, 128 + r1>>
    <3>1. ~(n < 128) /\ ~(n < 2048) /\ ~(n < 64 * Kibi)
      BY <1>0, <1>10, KibiFact
    <3> QED BY <3>1, <1>4, <1>5, <1>6 DEF Utf8
  <2>2. q3 \in 0..4
    BY SMT, <1>0, <1>1, <1>2, <1>3, KibiFact
  <2>3. n = ((q3 * 64 + r3) * 64 + r2) * 64 + r1
    BY <1>1, <1>2, <1>3
  <2> QED BY <2>1, <2>2, <2>3, <1>0, <1>10 DEF IsUtf8, Follows
<1> QED BY <1>0, <1>7, <1>8, <1>9, <1>10, KibiFact

\* The escape stays what it was, and what it has become is right.
EscapeInv == escape \in Seq(0..255) /\ EscapesAreUtf8

\* Theorem: for every text behind a \u, what picojson makes of it is the
\* shortest UTF-8 form of the character that it spells in UTF-16, and it is
\* refused only if it spells none.
THEOREM EscapesBecomeUtf8 == EscapeSpec => []EscapesAreUtf8
<1>1. EscapeInit => EscapeInv
  BY EscapesAssumption DEF EscapeInit, EscapeInv, EscapesAreUtf8
<1>2. EscapeInv /\ [EscapeNext]_escapeVars => EscapeInv'
  <2> SUFFICES ASSUME EscapeInv, [EscapeNext]_escapeVars PROVE EscapeInv'
    OBVIOUS
  <2>1. CASE ParseCodepoint
    <3>1. escape' = escape /\ escape \in Seq(0..255)
      BY <2>1 DEF ParseCodepoint, EscapeInv
    <3>2. CASE IsSingle(escape) \/ IsPair(escape)
      <4>1. /\ Codepoint(escape) = Spelled(escape) /\ Codepoint(escape) # -1
            /\ Character(Spelled(escape))
        BY <3>1, <3>2, CodepointIsSpelled
      <4>2. utf8' = [state |-> "read", bytes |-> Utf8(Spelled(escape))]
        BY <2>1, <4>1 DEF ParseCodepoint
      <4>3. IsUtf8(Utf8(Spelled(escape)), Spelled(escape))
        BY <4>1, Utf8IsUtf8
      <4>4. utf8'.state = "read" /\ utf8'.bytes = Utf8(Spelled(escape))
        BY <4>2
      <4> QED BY <3>1, <3>2, <4>3, <4>4 DEF EscapeInv, EscapesAreUtf8
    <3>3. CASE ~IsSingle(escape) /\ ~IsPair(escape)
      <4>1. Codepoint(escape) = -1
        BY <3>1, <3>3, CodepointIsSpelled
      <4>2. utf8'.state = "refused"
        BY <2>1, <4>1 DEF ParseCodepoint
      <4> QED BY <3>1, <3>3, <4>2 DEF EscapeInv, EscapesAreUtf8
    <3> QED BY <3>2, <3>3
  <2>2. CASE UNCHANGED escapeVars
    BY <2>2 DEF escapeVars, EscapeInv, EscapesAreUtf8
  <2> QED BY <2>1, <2>2 DEF EscapeNext
<1>3. EscapeInv => EscapesAreUtf8
  BY DEF EscapeInv
<1> QED BY <1>1, <1>2, <1>3, PTL DEF EscapeSpec

-----------------------------------------------------------------------------
(* Base64: numbers                                                          *)

\* Three bytes, and four values of six bits, as one number
Three(a, b, c)   == (a * 256 + b) * 256 + c
Four(p, q, r, s) == ((p * 64 + q) * 64 + r) * 64 + s

\* The values of six bits that three bytes consist of, and the bytes that four
\* values of six bits consist of
SextetsAre(t, a, b, c) ==
  /\ SextetOf(t, 0) = a \div 4
  /\ SextetOf(t, 1) = (a % 4) * 16 + b \div 16
  /\ SextetOf(t, 2) = (b % 16) * 4 + c \div 64
  /\ SextetOf(t, 3) = c % 64
OctetsAre(t, p, q, r, s) ==
  /\ OctetOf(t, 0) = p * 4 + q \div 16
  /\ OctetOf(t, 1) = (q % 16) * 16 + r \div 4
  /\ OctetOf(t, 2) = (r % 4) * 64 + s

\* encode takes three bytes apart at the right bits.
LEMMA SextetsOfOctets ==
  ASSUME NEW a \in 0..255, NEW b \in 0..255, NEW c \in 0..255
  PROVE  SextetsAre(Three(a, b, c), a, b, c)
<1>1. PICK a1 \in 0..63, a0 \in 0..3 : a1 = a \div 4 /\ a0 = a % 4 /\ a = a1 * 4 + a0
  <2>1. a \div 4 \in 0..63 /\ a % 4 \in 0..3 /\ a = (a \div 4) * 4 + (a % 4)
    OBVIOUS
  <2> QED BY <2>1
<1>2. PICK b1 \in 0..15, b0 \in 0..15 : b1 = b \div 16 /\ b0 = b % 16 /\ b = b1 * 16 + b0
  <2>1. b \div 16 \in 0..15 /\ b % 16 \in 0..15 /\ b = (b \div 16) * 16 + (b % 16)
    OBVIOUS
  <2> QED BY <2>1
<1>3. PICK c1 \in 0..3, c0 \in 0..63 : c1 = c \div 64 /\ c0 = c % 64 /\ c = c1 * 64 + c0
  <2>1. c \div 64 \in 0..3 /\ c % 64 \in 0..63 /\ c = (c \div 64) * 64 + (c % 64)
    OBVIOUS
  <2> QED BY <2>1
<1>4. PICK t \in Nat : t = Three(a, b, c) /\ t = (a * 256 + b) * 256 + c
  BY DEF Three
<1>5. PICK u2 \in 0..63, u1 \in 0..63 : u2 = a0 * 16 + b1 /\ u1 = b0 * 4 + c1
  <2>1. a0 * 16 + b1 \in 0..63 /\ b0 * 4 + c1 \in 0..63
    OBVIOUS
  <2> QED BY <2>1
<1>6. t = ((a1 * 64 + u2) * 64 + u1) * 64 + c0
  BY <1>1, <1>2, <1>3, <1>4, <1>5
<1>7. t \div 64 = (a1 * 64 + u2) * 64 + u1 /\ t % 64 = c0
  BY <1>6
<1>8. (t \div 64) \div 64 = a1 * 64 + u2 /\ (t \div 64) % 64 = u1
  BY <1>7
<1>9. ((t \div 64) \div 64) \div 64 = a1 /\ ((t \div 64) \div 64) % 64 = u2
  BY <1>8
<1>10. a1 % 64 = a1
  OBVIOUS
<1>11. /\ SextetOf(t, 0) = a1 /\ SextetOf(t, 1) = u2
       /\ SextetOf(t, 2) = u1 /\ SextetOf(t, 3) = c0
  BY <1>7, <1>8, <1>9, <1>10 DEF SextetOf
<1> QED BY <1>1, <1>2, <1>3, <1>4, <1>5, <1>11 DEF SextetsAre

\* decode takes four values apart at the right bits.
LEMMA OctetsOfSextets ==
  ASSUME NEW p \in 0..63, NEW q \in 0..63, NEW r \in 0..63, NEW s \in 0..63
  PROVE  OctetsAre(Four(p, q, r, s), p, q, r, s)
<1>1. PICK q1 \in 0..3, q0 \in 0..15 : q1 = q \div 16 /\ q0 = q % 16 /\ q = q1 * 16 + q0
  <2>1. q \div 16 \in 0..3 /\ q % 16 \in 0..15 /\ q = (q \div 16) * 16 + (q % 16)
    OBVIOUS
  <2> QED BY <2>1
<1>2. PICK r1 \in 0..15, r0 \in 0..3 : r1 = r \div 4 /\ r0 = r % 4 /\ r = r1 * 4 + r0
  <2>1. r \div 4 \in 0..15 /\ r % 4 \in 0..3 /\ r = (r \div 4) * 4 + (r % 4)
    OBVIOUS
  <2> QED BY <2>1
<1>3. PICK t \in Nat : t = Four(p, q, r, s) /\ t = ((p * 64 + q) * 64 + r) * 64 + s
  BY DEF Four
<1>4. PICK o1 \in 0..255, o2 \in 0..255, o3 \in 0..255 :
        o1 = p * 4 + q1 /\ o2 = q0 * 16 + r1 /\ o3 = r0 * 64 + s
  <2>1. p * 4 + q1 \in 0..255 /\ q0 * 16 + r1 \in 0..255 /\ r0 * 64 + s \in 0..255
    OBVIOUS
  <2> QED BY <2>1
<1>5. t = (o1 * 256 + o2) * 256 + o3
  BY <1>1, <1>2, <1>3, <1>4
<1>6. t \div 256 = o1 * 256 + o2 /\ t % 256 = o3
  BY <1>5
<1>7. (t \div 256) \div 256 = o1 /\ (t \div 256) % 256 = o2
  BY <1>6
<1>8. o1 % 256 = o1
  OBVIOUS
<1>9. OctetOf(t, 0) = o1 /\ OctetOf(t, 1) = o2 /\ OctetOf(t, 2) = o3
  BY <1>6, <1>7, <1>8 DEF OctetOf
<1> QED BY <1>1, <1>2, <1>3, <1>4, <1>9 DEF OctetsAre

-----------------------------------------------------------------------------
(* Bits                                                                     *)

\* Bit j of byte m
LEMMA BitIs ==
  ASSUME NEW bin \in Seq(Byte), NEW m \in Nat, NEW j \in 1..8
  PROVE  Bit(bin, 8 * m + j) = (Octet(bin, m + 1) \div Weight[j]) % 2
<1>1. PICK n \in Nat : n = Len(bin)
  OBVIOUS
<1>2. (8 * m + j - 1) \div 8 = m /\ (8 * m + j - 1) % 8 = j - 1
  OBVIOUS
<1>3. PICK i \in Nat : i = 8 * m + j
  OBVIOUS
<1>4. (i - 1) \div 8 = m /\ (i - 1) % 8 = j - 1
  BY <1>2, <1>3
<1>5. i <= 8 * n <=> m + 1 <= n
  BY <1>3
<1>6. CASE m + 1 <= n
  <2>1. Bit(bin, i) = (bin[m + 1] \div Weight[(j - 1) + 1]) % 2
    BY <1>1, <1>4, <1>5, <1>6 DEF Bit
  <2>2. Octet(bin, m + 1) = bin[m + 1] /\ (j - 1) + 1 = j
    BY <1>1, <1>6 DEF Octet
  <2> QED BY <1>3, <2>1, <2>2
<1>7. CASE ~(m + 1 <= n)
  <2>1. Bit(bin, i) = 0
    BY <1>1, <1>5, <1>7 DEF Bit
  <2>2. Octet(bin, m + 1) = 0
    BY <1>1, <1>7 DEF Octet
  <2>3. (0 \div Weight[j]) % 2 = 0
    BY DEF Weight
  <2> QED BY <1>3, <2>1, <2>2, <2>3
<1> QED BY <1>6, <1>7

\* The bits of a byte, and the numbers that some of them are
LEMMA BitsOfByte ==
  ASSUME NEW a \in 0..255
  PROVE  LET B(j) == (a \div Weight[j]) % 2
         IN /\ a \div 4 = 32 * B(1) + 16 * B(2) + 8 * B(3) + 4 * B(4) + 2 * B(5) + B(6)
            /\ a % 4 = 2 * B(7) + B(8)
            /\ a \div 16 = 8 * B(1) + 4 * B(2) + 2 * B(3) + B(4)
            /\ a % 16 = 8 * B(5) + 4 * B(6) + 2 * B(7) + B(8)
            /\ a \div 64 = 2 * B(1) + B(2)
            /\ a % 64 = 32 * B(3) + 16 * B(4) + 8 * B(5) + 4 * B(6) + 2 * B(7) + B(8)
            /\ \A j \in 1..8 : B(j) \in 0..1
<1> DEFINE B(j) == (a \div Weight[j]) % 2
<1>1. /\ B(1) = (a \div 128) % 2 /\ B(2) = (a \div 64) % 2 /\ B(3) = (a \div 32) % 2
      /\ B(4) = (a \div 16) % 2 /\ B(5) = (a \div 8) % 2 /\ B(6) = (a \div 4) % 2
      /\ B(7) = (a \div 2) % 2 /\ B(8) = a % 2
  BY DEF Weight
<1>2. PICK b1 \in 0..1, b2 \in 0..1, b3 \in 0..1, b4 \in 0..1,
           b5 \in 0..1, b6 \in 0..1, b7 \in 0..1, b8 \in 0..1 :
        /\ b1 = B(1) /\ b2 = B(2) /\ b3 = B(3) /\ b4 = B(4)
        /\ b5 = B(5) /\ b6 = B(6) /\ b7 = B(7) /\ b8 = B(8)
  <2>1. /\ B(1) \in 0..1 /\ B(2) \in 0..1 /\ B(3) \in 0..1 /\ B(4) \in 0..1
        /\ B(5) \in 0..1 /\ B(6) \in 0..1 /\ B(7) \in 0..1 /\ B(8) \in 0..1
    BY <1>1
  <2> HIDE DEF B
  <2> QED BY <2>1
<1>3. PICK x1 \in 0..127, x2 \in 0..63, x3 \in 0..31, x4 \in 0..15, x5 \in 0..7, x6 \in 0..3 :
        /\ x1 = a \div 2 /\ x2 = a \div 4 /\ x3 = a \div 8
        /\ x4 = a \div 16 /\ x5 = a \div 32 /\ x6 = a \div 64
  <2>1. /\ a \div 2 \in 0..127 /\ a \div 4 \in 0..63 /\ a \div 8 \in 0..31
        /\ a \div 16 \in 0..15 /\ a \div 32 \in 0..7 /\ a \div 64 \in 0..3
    OBVIOUS
  <2> QED BY <2>1
<1> HIDE DEF B
<1>4. a = 2 * x1 + b8 /\ x1 = 2 * x2 + b7 /\ x2 = 2 * x3 + b6 /\ x3 = 2 * x4 + b5
  <2>1. b8 = a % 2 /\ b7 = x1 % 2 /\ b6 = x2 % 2 /\ b5 = x3 % 2
    BY <1>1, <1>2, <1>3
  <2>2. x2 = x1 \div 2 /\ x3 = x2 \div 2 /\ x4 = x3 \div 2
    BY <1>3
  <2> QED BY <1>3, <2>1, <2>2
<1>5. x4 = 2 * x5 + b4 /\ x5 = 2 * x6 + b3 /\ x6 = 2 * b1 + b2
  <2>1. b4 = x4 % 2 /\ b3 = x5 % 2 /\ b2 = x6 % 2
    BY <1>1, <1>2, <1>3
  <2>2. x5 = x4 \div 2 /\ x6 = x5 \div 2 /\ a \div 128 = x6 \div 2
    BY <1>3
  <2>3. b1 = x6 \div 2
    <3>1. (x6 \div 2) % 2 = x6 \div 2
      OBVIOUS
    <3> QED BY <1>1, <1>2, <2>2, <3>1
  <2> QED BY <2>1, <2>2, <2>3
<1>6. a % 4 = 2 * b7 + b8 /\ a % 16 = 8 * b5 + 4 * b6 + 2 * b7 + b8
      /\ a % 64 = 32 * b3 + 16 * b4 + 8 * b5 + 4 * b6 + 2 * b7 + b8
  <2>1. /\ a = 4 * x2 + (2 * b7 + b8) /\ a = 16 * x4 + (8 * b5 + 4 * b6 + 2 * b7 + b8)
        /\ a = 64 * x6 + (32 * b3 + 16 * b4 + 8 * b5 + 4 * b6 + 2 * b7 + b8)
    BY <1>4, <1>5
  <2>2. PICK y \in 0..3, z \in 0..15, w \in 0..63 :
          /\ y = 2 * b7 + b8 /\ z = 8 * b5 + 4 * b6 + 2 * b7 + b8
          /\ w = 32 * b3 + 16 * b4 + 8 * b5 + 4 * b6 + 2 * b7 + b8
    <3>1. /\ 2 * b7 + b8 \in 0..3 /\ 8 * b5 + 4 * b6 + 2 * b7 + b8 \in 0..15
          /\ 32 * b3 + 16 * b4 + 8 * b5 + 4 * b6 + 2 * b7 + b8 \in 0..63
      OBVIOUS
    <3> QED BY <3>1
  <2>3. a = 4 * x2 + y /\ a = 16 * x4 + z /\ a = 64 * x6 + w
    BY <2>1, <2>2
  <2>4. a % 4 = y /\ a % 16 = z /\ a % 64 = w
    BY <2>3
  <2> QED BY <2>2, <2>4
<1>7. /\ x2 = 32 * b1 + 16 * b2 + 8 * b3 + 4 * b4 + 2 * b5 + b6
      /\ x4 = 8 * b1 + 4 * b2 + 2 * b3 + b4
  BY <1>4, <1>5
<1>8. ASSUME NEW j \in 1..8 PROVE B(j) \in 0..1
  <2>1. j = 1 \/ j = 2 \/ j = 3 \/ j = 4 \/ j = 5 \/ j = 6 \/ j = 7 \/ j = 8
    OBVIOUS
  <2> HIDE DEF B
  <2> QED BY <1>2, <2>1
<1> QED BY <1>2, <1>3, <1>5, <1>6, <1>7, <1>8 DEF B

\* Every byte is one.
LEMMA OctetType ==
  ASSUME NEW bin \in Seq(Byte), NEW i \in Nat \ {0}
  PROVE  Octet(bin, i) \in 0..255
<1>1. CASE i <= Len(bin)
  <2>1. i \in 1..Len(bin)
    BY <1>1
  <2>2. bin[i] \in Byte
    BY <2>1
  <2> QED BY <1>1, <2>2 DEF Octet, Byte
<1>2. CASE ~(i <= Len(bin))
  BY <1>2 DEF Octet
<1> QED BY <1>1, <1>2

\* The bits of group g, six by six, from its three bytes
BitsAre(bin, g, a, b, c) ==
  /\ SixBits(bin, 4 * g) = a \div 4
  /\ SixBits(bin, 4 * g + 1) = (a % 4) * 16 + b \div 16
  /\ SixBits(bin, 4 * g + 2) = (b % 16) * 4 + c \div 64
  /\ SixBits(bin, 4 * g + 3) = c % 64

\* Six bits of a binary, group by group, are the parts of three bytes.
LEMMA SixBitsAt ==
  ASSUME NEW bin \in Seq(Byte), NEW g \in Nat
  PROVE  BitsAre(bin, g, Octet(bin, 3 * g + 1), Octet(bin, 3 * g + 2), Octet(bin, 3 * g + 3))
<1>1. PICK a \in 0..255, b \in 0..255, c \in 0..255 :
        a = Octet(bin, 3 * g + 1) /\ b = Octet(bin, 3 * g + 2) /\ c = Octet(bin, 3 * g + 3)
  <2>1. 3 * g + 1 \in Nat \ {0} /\ 3 * g + 2 \in Nat \ {0} /\ 3 * g + 3 \in Nat \ {0}
    OBVIOUS
  <2>2. Octet(bin, 3 * g + 1) \in 0..255 /\ Octet(bin, 3 * g + 2) \in 0..255
        /\ Octet(bin, 3 * g + 3) \in 0..255
    BY <2>1, OctetType
  <2> QED BY <2>2
<1> DEFINE A(j) == (a \div Weight[j]) % 2
           B(j) == (b \div Weight[j]) % 2
           C(j) == (c \div Weight[j]) % 2
<1>2. \A j \in 1..8 : /\ Bit(bin, 24 * g + j) = A(j)
                      /\ Bit(bin, 24 * g + 8 + j) = B(j)
                      /\ Bit(bin, 24 * g + 16 + j) = C(j)
  <2> SUFFICES ASSUME NEW j \in 1..8
               PROVE  /\ Bit(bin, 24 * g + j) = A(j)
                      /\ Bit(bin, 24 * g + 8 + j) = B(j)
                      /\ Bit(bin, 24 * g + 16 + j) = C(j)
    OBVIOUS
  <2>1. 3 * g \in Nat /\ 3 * g + 1 \in Nat /\ 3 * g + 2 \in Nat
    OBVIOUS
  <2>2. /\ Bit(bin, 8 * (3 * g) + j) = (Octet(bin, 3 * g + 1) \div Weight[j]) % 2
        /\ Bit(bin, 8 * (3 * g + 1) + j) = (Octet(bin, (3 * g + 1) + 1) \div Weight[j]) % 2
        /\ Bit(bin, 8 * (3 * g + 2) + j) = (Octet(bin, (3 * g + 2) + 1) \div Weight[j]) % 2
    BY <2>1, BitIs
  <2>3. /\ 8 * (3 * g) + j = 24 * g + j /\ 8 * (3 * g + 1) + j = 24 * g + 8 + j
        /\ 8 * (3 * g + 2) + j = 24 * g + 16 + j
        /\ (3 * g + 1) + 1 = 3 * g + 2 /\ (3 * g + 2) + 1 = 3 * g + 3
    OBVIOUS
  <2> QED BY <2>2, <2>3, <1>1
<1>3. /\ a \div 4 = 32 * A(1) + 16 * A(2) + 8 * A(3) + 4 * A(4) + 2 * A(5) + A(6)
      /\ a % 4 = 2 * A(7) + A(8)
      /\ \A j \in 1..8 : A(j) \in 0..1
  BY BitsOfByte
<1>4. /\ b \div 16 = 8 * B(1) + 4 * B(2) + 2 * B(3) + B(4)
      /\ b % 16 = 8 * B(5) + 4 * B(6) + 2 * B(7) + B(8)
      /\ \A j \in 1..8 : B(j) \in 0..1
  BY BitsOfByte
<1>5. /\ c \div 64 = 2 * C(1) + C(2)
      /\ c % 64 = 32 * C(3) + 16 * C(4) + 8 * C(5) + 4 * C(6) + 2 * C(7) + C(8)
      /\ \A j \in 1..8 : C(j) \in 0..1
  BY BitsOfByte
<1> HIDE DEF A, B, C
<1>6. SixBits(bin, 4 * g) = a \div 4
  <2>1. /\ 6 * (4 * g) + 1 = 24 * g + 1 /\ 6 * (4 * g) + 2 = 24 * g + 2
        /\ 6 * (4 * g) + 3 = 24 * g + 3 /\ 6 * (4 * g) + 4 = 24 * g + 4
        /\ 6 * (4 * g) + 5 = 24 * g + 5 /\ 6 * (4 * g) + 6 = 24 * g + 6
    OBVIOUS
  <2> QED BY <2>1, <1>2, <1>3 DEF SixBits
<1>7. SixBits(bin, 4 * g + 1) = (a % 4) * 16 + b \div 16
  <2>1. /\ 6 * (4 * g + 1) + 1 = 24 * g + 7 /\ 6 * (4 * g + 1) + 2 = 24 * g + 8
        /\ 6 * (4 * g + 1) + 3 = 24 * g + 8 + 1 /\ 6 * (4 * g + 1) + 4 = 24 * g + 8 + 2
        /\ 6 * (4 * g + 1) + 5 = 24 * g + 8 + 3 /\ 6 * (4 * g + 1) + 6 = 24 * g + 8 + 4
    OBVIOUS
  <2>2. SixBits(bin, 4 * g + 1) =
          32 * A(7) + 16 * A(8) + 8 * B(1) + 4 * B(2) + 2 * B(3) + B(4)
    BY <2>1, <1>2 DEF SixBits
  <2>3. PICK x \in 0..1, y \in 0..1, p \in 0..1, q \in 0..1, r \in 0..1, s \in 0..1 :
          /\ x = A(7) /\ y = A(8)
          /\ p = B(1) /\ q = B(2) /\ r = B(3) /\ s = B(4)
    <3>1. A(7) \in 0..1 /\ A(8) \in 0..1
      BY <1>3
    <3>2. B(1) \in 0..1 /\ B(2) \in 0..1 /\ B(3) \in 0..1 /\ B(4) \in 0..1
      BY <1>4
    <3> QED BY <3>1, <3>2
  <2>4. a % 4 = 2 * x + y /\ b \div 16 = 8 * p + 4 * q + 2 * r + s
    BY <2>3, <1>3, <1>4
  <2>5. SixBits(bin, 4 * g + 1) = 32 * x + 16 * y + 8 * p + 4 * q + 2 * r + s
    BY <2>2, <2>3
  <2>6. 32 * x + 16 * y + 8 * p + 4 * q + 2 * r + s =
          (2 * x + y) * 16 + (8 * p + 4 * q + 2 * r + s)
    OBVIOUS
  <2> QED BY <2>4, <2>5, <2>6
<1>8. SixBits(bin, 4 * g + 2) = (b % 16) * 4 + c \div 64
  <2>1. /\ 6 * (4 * g + 2) + 1 = 24 * g + 8 + 5 /\ 6 * (4 * g + 2) + 2 = 24 * g + 8 + 6
        /\ 6 * (4 * g + 2) + 3 = 24 * g + 8 + 7 /\ 6 * (4 * g + 2) + 4 = 24 * g + 8 + 8
        /\ 6 * (4 * g + 2) + 5 = 24 * g + 16 + 1 /\ 6 * (4 * g + 2) + 6 = 24 * g + 16 + 2
    OBVIOUS
  <2>2. SixBits(bin, 4 * g + 2) =
          32 * B(5) + 16 * B(6) + 8 * B(7) + 4 * B(8) + 2 * C(1) + C(2)
    BY <2>1, <1>2 DEF SixBits
  <2>3. PICK x \in 0..1, y \in 0..1, p \in 0..1, q \in 0..1, r \in 0..1, s \in 0..1 :
          /\ x = B(5) /\ y = B(6) /\ p = B(7) /\ q = B(8)
          /\ r = C(1) /\ s = C(2)
    <3>1. B(5) \in 0..1 /\ B(6) \in 0..1 /\ B(7) \in 0..1 /\ B(8) \in 0..1
      BY <1>4
    <3>2. C(1) \in 0..1 /\ C(2) \in 0..1
      BY <1>5
    <3> QED BY <3>1, <3>2
  <2>4. b % 16 = 8 * x + 4 * y + 2 * p + q /\ c \div 64 = 2 * r + s
    BY <2>3, <1>4, <1>5
  <2>5. SixBits(bin, 4 * g + 2) = 32 * x + 16 * y + 8 * p + 4 * q + 2 * r + s
    BY <2>2, <2>3
  <2>6. 32 * x + 16 * y + 8 * p + 4 * q + 2 * r + s =
          (8 * x + 4 * y + 2 * p + q) * 4 + (2 * r + s)
    OBVIOUS
  <2> QED BY <2>4, <2>5, <2>6
<1>9. SixBits(bin, 4 * g + 3) = c % 64
  <2>1. /\ 6 * (4 * g + 3) + 1 = 24 * g + 16 + 3 /\ 6 * (4 * g + 3) + 2 = 24 * g + 16 + 4
        /\ 6 * (4 * g + 3) + 3 = 24 * g + 16 + 5 /\ 6 * (4 * g + 3) + 4 = 24 * g + 16 + 6
        /\ 6 * (4 * g + 3) + 5 = 24 * g + 16 + 7 /\ 6 * (4 * g + 3) + 6 = 24 * g + 16 + 8
    OBVIOUS
  <2> QED BY <2>1, <1>2, <1>5 DEF SixBits
<1> QED BY <1>1, <1>6, <1>7, <1>8, <1>9 DEF BitsAre

-----------------------------------------------------------------------------
(* Characters                                                               *)

\* The two tables of an alphabet are inverse.
LEMMA DataInverse ==
  ASSUME NEW alphabet, NEW v \in 0..63
  PROVE  /\ Data(alphabet, v) \in Byte
         /\ Rdata(alphabet, Data(alphabet, v)) = v
<1>1. CASE v < 26
  BY <1>1 DEF Data, Rdata, Byte
<1>2. CASE v \in 26..51
  BY <1>2 DEF Data, Rdata, Byte
<1>3. CASE v \in 52..61
  BY <1>3 DEF Data, Rdata, Byte
<1>4. CASE v = 62
  BY <1>4 DEF Data, Rdata, Plus, Slash, Byte
<1>5. CASE v = 63
  BY <1>5 DEF Data, Rdata, Plus, Slash, Byte
<1> QED BY <1>1, <1>2, <1>3, <1>4, <1>5

\* rdata gives a value below 64, or -1.
LEMMA RdataRange ==
  ASSUME NEW alphabet, NEW c \in Byte
  PROVE  Rdata(alphabet, c) \in -1..63
BY DEF Rdata, Byte

\* A fill has the length of its alphabet and begins with none of its characters.
LEMMA FillShape ==
  ASSUME NEW alphabet, NEW f \in Fills(alphabet)
  PROVE  /\ Len(f) = FillLength(alphabet)
         /\ f[1] \in Byte /\ Rdata(alphabet, f[1]) = -1
<1>1. Rdata(alphabet, 61) = -1 /\ Rdata(alphabet, 37) = -1
  BY DEF Rdata, Plus, Slash
<1>2. CASE alphabet = "base64"
  BY <1>1, <1>2 DEF Fills, FillLength, Byte
<1>3. CASE alphabet = "base64url"
  BY <1>1, <1>3 DEF Fills, FillLength, Byte
<1>4. CASE alphabet # "base64" /\ alphabet # "base64url"
  <2>1. f = <<37, 51, 68>> \/ f = <<37, 51, 100>>
    BY <1>4 DEF Fills
  <2> QED BY <1>1, <1>4, <2>1 DEF FillLength, Byte
<1> QED BY <1>2, <1>3, <1>4

\* One character or three
LEMMA FillLengths ==
  ASSUME NEW alphabet
  PROVE  FillLength(alphabet) = 1 \/ FillLength(alphabet) = 3
BY DEF FillLength

-----------------------------------------------------------------------------
(* Padding                                                                  *)

\* A fill that is counted fits in the text.
LEMMA FillFits ==
  ASSUME NEW alphabet, NEW text \in Seq(Byte), NEW k \in Nat, FillAt(alphabet, text, k)
  PROVE  k * FillLength(alphabet) <= Len(text) /\ k <= Len(text)
<1>1. PICK f \in Fills(alphabet) : Has(text, Len(text) - k * FillLength(alphabet), f)
  BY DEF FillAt
<1>2. PICK n \in Nat : n = Len(text)
  OBVIOUS
<1>3. 0 <= n - k * FillLength(alphabet)
  BY <1>1, <1>2 DEF Has
<1>4. CASE FillLength(alphabet) = 1
  BY <1>2, <1>3, <1>4
<1>5. CASE FillLength(alphabet) = 3
  BY <1>2, <1>3, <1>5
<1> QED BY <1>4, <1>5, FillLengths

\* count_padding stops at the first stretch that is no fill.
LEMMA CountIs ==
  ASSUME NEW alphabet, NEW text \in Seq(Byte)
  PROVE  /\ CountPadding(alphabet, text) \in 0..Len(text)
         /\ \A k \in 1..CountPadding(alphabet, text) : FillAt(alphabet, text, k)
         /\ ~FillAt(alphabet, text, CountPadding(alphabet, text) + 1)
         /\ \A c \in Nat :
              (\A k \in 1..c : FillAt(alphabet, text, k)) /\ ~FillAt(alphabet, text, c + 1)
                => CountPadding(alphabet, text) = c
<1>1. PICK n \in Nat : n = Len(text)
  OBVIOUS
<1> DEFINE F(k) == FillAt(alphabet, text, k)
           S == {k \in 1..n + 1 : ~F(k)}
<1>2. \A k \in Nat : F(k) => k <= n
  BY <1>1, FillFits
<1> HIDE DEF F
<1>3. n + 1 \in S
  <2>1. n + 1 \in Nat /\ ~(n + 1 <= n)
    OBVIOUS
  <2>2. ~F(n + 1)
    BY <1>2, <2>1
  <2> QED BY <2>2
<1>4. PICK m : m = Min(S)
  OBVIOUS
<1>5. m \in S /\ \A j \in S : m <= j
  <2>1. n + 1 \in Nat /\ S \subseteq 1..n + 1 /\ S # {}
    BY <1>3
  <2> HIDE DEF S
  <2> QED BY <2>1, <1>4, MinIsLeast
<1>6. CountPadding(alphabet, text) = m - 1
  BY <1>1, <1>4 DEF CountPadding, F
<1>7. m \in 1..n + 1 /\ ~F(m)
  BY <1>5
<1>8. ASSUME NEW k \in 1..m - 1 PROVE F(k)
  <2>1. k \in 1..n + 1 /\ ~(m <= k)
    BY <1>7
  <2> QED BY <1>5, <2>1
<1>9. ASSUME NEW c \in Nat, \A k \in 1..c : F(k), ~F(c + 1) PROVE m - 1 = c
  <2>1. c <= n
    <3>1. CASE c = 0
      BY <3>1
    <3>2. CASE c # 0
      <4>1. F(c)
        BY <1>9, <3>2
      <4> QED BY <4>1, <1>2
    <3> QED BY <3>1, <3>2
  <2>2. c + 1 \in S
    BY <2>1, <1>9
  <2>3. m <= c + 1
    BY <2>2, <1>5
  <2>4. ~(m \in 1..c)
    BY <1>7, <1>9
  <2> QED BY <2>3, <2>4, <1>7
<1>10. m - 1 \in 0..n /\ m - 1 + 1 = m
  BY <1>7
<1> QED BY <1>1, <1>6, <1>7, <1>8, <1>9, <1>10 DEF F

\* A complete text has as many fills as are counted.
LEMMA CompleteCount ==
  ASSUME NEW alphabet, NEW text \in Seq(Byte), NEW count \in 0..2,
         Complete(alphabet, text, count)
  PROVE  CountPadding(alphabet, text) = count
<1>1. PICK n \in Nat : n = Len(text)
  OBVIOUS
<1>2. PICK l \in {1, 3} : l = FillLength(alphabet)
  BY FillLengths
<1>3. ~FillAt(alphabet, text, count + 1)
  <2> SUFFICES ASSUME FillAt(alphabet, text, count + 1) PROVE FALSE
    OBVIOUS
  <2>1. PICK f \in Fills(alphabet) : Has(text, n - (count + 1) * l, f)
    BY <1>1, <1>2 DEF FillAt
  <2>2. Len(f) = l /\ f[1] \in Byte /\ Rdata(alphabet, f[1]) = -1
    BY <1>2, FillShape
  <2>3. PICK from \in Int : from = n - (count + 1) * l
    OBVIOUS
  <2>4. 0 <= from /\ text[from + 1] = f[1]
    BY <2>1, <2>2, <2>3 DEF Has
  <2>5. from + 1 \in 1..(n - count * l)
    <3>1. CASE l = 1
      BY <3>1, <2>3, <2>4
    <3>2. CASE l = 3
      BY <3>2, <2>3, <2>4
    <3> QED BY <3>1, <3>2
  <2>6. Rdata(alphabet, text[from + 1]) # -1
    BY <1>1, <1>2, <2>5 DEF Complete
  <2> QED BY <2>2, <2>4, <2>6
<1>4. \A k \in 1..count : FillAt(alphabet, text, k)
  BY DEF Complete
<1> QED BY <1>3, <1>4, CountIs

-----------------------------------------------------------------------------
(* Decoding                                                                 *)

\* What three bytes that were put together from four values give back
Restored(a, b, c, p, q, r, s) ==
  /\ a \in 0..255 /\ b \in 0..255 /\ c \in 0..255
  /\ a \div 4 = p /\ (a % 4) * 16 = (q \div 16) * 16
  /\ (a % 4) * 16 + b \div 16 = q
  /\ (b % 16) * 4 = (r \div 4) * 4
  /\ (b % 16) * 4 + c \div 64 = r /\ c % 64 = s

\* Three bytes that were put together from four values give the values back.
LEMMA Recombine ==
  ASSUME NEW p \in 0..63, NEW q \in 0..63, NEW r \in 0..63, NEW s \in 0..63
  PROVE  Restored(p * 4 + q \div 16, (q % 16) * 16 + r \div 4, (r % 4) * 64 + s, p, q, r, s)
<1>1. PICK q1 \in 0..3, q0 \in 0..15 : q1 = q \div 16 /\ q0 = q % 16 /\ q = q1 * 16 + q0
  <2>1. q \div 16 \in 0..3 /\ q % 16 \in 0..15 /\ q = (q \div 16) * 16 + (q % 16)
    OBVIOUS
  <2> QED BY <2>1
<1>2. PICK r1 \in 0..15, r0 \in 0..3 : r1 = r \div 4 /\ r0 = r % 4 /\ r = r1 * 4 + r0
  <2>1. r \div 4 \in 0..15 /\ r % 4 \in 0..3 /\ r = (r \div 4) * 4 + (r % 4)
    OBVIOUS
  <2> QED BY <2>1
<1>3. PICK a \in 0..255, b \in 0..255, c \in 0..255 :
        a = p * 4 + q1 /\ b = q0 * 16 + r1 /\ c = r0 * 64 + s
  <2>1. p * 4 + q1 \in 0..255 /\ q0 * 16 + r1 \in 0..255 /\ r0 * 64 + s \in 0..255
    OBVIOUS
  <2> QED BY <2>1
<1>4. a \div 4 = p /\ a % 4 = q1
  BY <1>3
<1>5. b \div 16 = q0 /\ b % 16 = r1
  BY <1>3
<1>6. c \div 64 = r0 /\ c % 64 = s
  BY <1>3
<1>7. /\ a \div 4 = p /\ (a % 4) * 16 = q1 * 16
      /\ (a % 4) * 16 + b \div 16 = q
      /\ (b % 16) * 4 = r1 * 4
      /\ (b % 16) * 4 + c \div 64 = r /\ c % 64 = s
  BY <1>1, <1>2, <1>4, <1>5, <1>6
<1> QED BY <1>1, <1>2, <1>3, <1>7 DEF Restored

\* What decode computes of a group of four characters
LEMMA OctetsAt ==
  ASSUME NEW alphabet, NEW text, NEW count \in 0..2, NEW size \in Nat, NEW g \in Nat,
         NEW n \in Nat, n = (size \div 4) * 3 + (IF count = 0 THEN 0 ELSE 3 - count)
  PROVE  LET bin == Octets(alphabet, text, count, size)
             t   == SextetTriple(alphabet, text, size, g)
         IN /\ 3 * g + 1 <= n => bin[3 * g + 1] = OctetOf(t, 0)
            /\ 3 * g + 2 <= n => bin[3 * g + 2] = OctetOf(t, 1)
            /\ 3 * g + 3 <= n => bin[3 * g + 3] = OctetOf(t, 2)
<1> DEFINE E(i) == OctetOf(SextetTriple(alphabet, text, size, (i - 1) \div 3), (i - 1) % 3)
<1>1. Octets(alphabet, text, count, size) = [i \in 1..n |-> E(i)]
  BY DEF Octets
<1>2. ASSUME NEW j \in 0..2, 3 * g + 1 + j <= n
      PROVE  Octets(alphabet, text, count, size)[3 * g + 1 + j] =
               OctetOf(SextetTriple(alphabet, text, size, g), j)
  <2>1. PICK i \in 1..n : i = 3 * g + 1 + j
    BY <1>2
  <2>2. (i - 1) \div 3 = g /\ (i - 1) % 3 = j
    BY <2>1
  <2>3. Octets(alphabet, text, count, size)[i] = E(i)
    BY <1>1
  <2> QED BY <2>1, <2>2, <2>3
<1>3. /\ 3 * g + 1 + 0 = 3 * g + 1 /\ 3 * g + 1 + 1 = 3 * g + 2 /\ 3 * g + 1 + 2 = 3 * g + 3
      /\ 0 \in 0..2 /\ 1 \in 0..2 /\ 2 \in 0..2
  OBVIOUS
<1> HIDE DEF E
<1>4. /\ 3 * g + 1 <= n => Octets(alphabet, text, count, size)[3 * g + 1 + 0] =
                             OctetOf(SextetTriple(alphabet, text, size, g), 0)
      /\ 3 * g + 2 <= n => Octets(alphabet, text, count, size)[3 * g + 1 + 1] =
                             OctetOf(SextetTriple(alphabet, text, size, g), 1)
      /\ 3 * g + 3 <= n => Octets(alphabet, text, count, size)[3 * g + 1 + 2] =
                             OctetOf(SextetTriple(alphabet, text, size, g), 2)
  BY <1>2, <1>3
<1> QED BY <1>3, <1>4

\* The values of characters, and of none
LEMMA SextetRange ==
  ASSUME NEW alphabet, NEW text \in Seq(Byte), NEW size \in 0..Len(text),
         \A i \in 1..size : Rdata(alphabet, text[i]) # -1,
         NEW i \in Nat \ {0}
  PROVE  Sextet(alphabet, text, size, i) \in 0..63
<1>1. CASE i <= size
  <2>1. i \in 1..size /\ i \in 1..Len(text)
    BY <1>1
  <2>2. text[i] \in Byte
    BY <2>1
  <2>3. PICK v \in -1..63 : v = Rdata(alphabet, text[i])
    BY <2>2, RdataRange
  <2>4. v # -1
    BY <2>1, <2>3
  <2>5. Sextet(alphabet, text, size, i) = v
    BY <1>1, <2>3 DEF Sextet
  <2> QED BY <2>4, <2>5
<1>2. CASE ~(i <= size)
  BY <1>2 DEF Sextet
<1> QED BY <1>1, <1>2

\* A text of size characters of the alphabet, with count fills behind them,
\* from which decode makes n bytes
Readable(alphabet, text, count, size, n) ==
  /\ text \in Seq(Byte) /\ count \in 0..2 /\ size \in 0..Len(text)
  /\ \A i \in 1..size : Rdata(alphabet, text[i]) # -1
  /\ n \in Nat /\ n = (size \div 4) * 3 + (IF count = 0 THEN 0 ELSE 3 - count)

\* The bytes of group g of n, from the values of its four characters
GroupIs(bin, n, g, p, q, r, s) ==
  /\ p \in 0..63 /\ q \in 0..63 /\ r \in 0..63 /\ s \in 0..63
  /\ 3 * g + 1 <= n => bin[3 * g + 1] = p * 4 + q \div 16
  /\ 3 * g + 2 <= n => bin[3 * g + 2] = (q % 16) * 16 + r \div 4
  /\ 3 * g + 3 <= n => bin[3 * g + 3] = (r % 4) * 64 + s

\* decode makes the bytes of a group from the values of its four characters.
LEMMA GroupOctets ==
  ASSUME NEW alphabet, NEW text, NEW count, NEW size, NEW n, NEW g \in Nat,
         Readable(alphabet, text, count, size, n)
  PROVE  GroupIs(Octets(alphabet, text, count, size), n, g,
                 Sextet(alphabet, text, size, 4 * g + 1),
                 Sextet(alphabet, text, size, 4 * g + 2),
                 Sextet(alphabet, text, size, 4 * g + 3),
                 Sextet(alphabet, text, size, 4 * g + 4))
<1>0. /\ text \in Seq(Byte) /\ count \in 0..2 /\ size \in 0..Len(text)
      /\ \A i \in 1..size : Rdata(alphabet, text[i]) # -1
      /\ n \in Nat /\ n = (size \div 4) * 3 + (IF count = 0 THEN 0 ELSE 3 - count)
  BY DEF Readable
<1>1. /\ 4 * g + 1 \in Nat \ {0} /\ 4 * g + 2 \in Nat \ {0}
      /\ 4 * g + 3 \in Nat \ {0} /\ 4 * g + 4 \in Nat \ {0}
  OBVIOUS
<1>2. /\ Sextet(alphabet, text, size, 4 * g + 1) \in 0..63
      /\ Sextet(alphabet, text, size, 4 * g + 2) \in 0..63
      /\ Sextet(alphabet, text, size, 4 * g + 3) \in 0..63
      /\ Sextet(alphabet, text, size, 4 * g + 4) \in 0..63
  BY <1>0, <1>1, SextetRange
<1>3. PICK p \in 0..63, q \in 0..63, r \in 0..63, s \in 0..63 :
        /\ p = Sextet(alphabet, text, size, 4 * g + 1)
        /\ q = Sextet(alphabet, text, size, 4 * g + 2)
        /\ r = Sextet(alphabet, text, size, 4 * g + 3)
        /\ s = Sextet(alphabet, text, size, 4 * g + 4)
  BY <1>2
<1>4. PICK t : t = Four(p, q, r, s)
  OBVIOUS
<1>5. SextetTriple(alphabet, text, size, g) = t
  BY <1>3, <1>4 DEF SextetTriple, Four
<1>6. /\ OctetOf(t, 0) = p * 4 + q \div 16
      /\ OctetOf(t, 1) = (q % 16) * 16 + r \div 4
      /\ OctetOf(t, 2) = (r % 4) * 64 + s
  <2>1. OctetsAre(Four(p, q, r, s), p, q, r, s)
    BY OctetsOfSextets, Zenon
  <2> QED BY <1>4, <2>1 DEF OctetsAre
<1>7. size \in Nat
  BY <1>0
<1>8. /\ 3 * g + 1 <= n => Octets(alphabet, text, count, size)[3 * g + 1] = OctetOf(t, 0)
      /\ 3 * g + 2 <= n => Octets(alphabet, text, count, size)[3 * g + 2] = OctetOf(t, 1)
      /\ 3 * g + 3 <= n => Octets(alphabet, text, count, size)[3 * g + 3] = OctetOf(t, 2)
  BY <1>0, <1>5, <1>7, OctetsAt
<1>9. GroupIs(Octets(alphabet, text, count, size), n, g, p, q, r, s)
  BY <1>6, <1>8 DEF GroupIs
<1> QED BY <1>3, <1>9

\* What decode returns is a binary.
LEMMA OctetsType ==
  ASSUME NEW alphabet, NEW text, NEW count, NEW size, NEW n,
         Readable(alphabet, text, count, size, n)
  PROVE  /\ Octets(alphabet, text, count, size) \in Seq(Byte)
         /\ Len(Octets(alphabet, text, count, size)) = n
<1>0. /\ text \in Seq(Byte) /\ count \in 0..2 /\ size \in 0..Len(text)
      /\ \A i \in 1..size : Rdata(alphabet, text[i]) # -1
      /\ n \in Nat /\ n = (size \div 4) * 3 + (IF count = 0 THEN 0 ELSE 3 - count)
  BY DEF Readable
<1> DEFINE T(g) == SextetTriple(alphabet, text, size, g)
           E(i) == OctetOf(T((i - 1) \div 3), (i - 1) % 3)
<1>1. Octets(alphabet, text, count, size) = [i \in 1..n |-> E(i)]
  BY <1>0 DEF Octets
<1>2. ASSUME NEW g \in Nat PROVE T(g) \in Nat
  <2>1. /\ 4 * g + 1 \in Nat \ {0} /\ 4 * g + 2 \in Nat \ {0}
        /\ 4 * g + 3 \in Nat \ {0} /\ 4 * g + 4 \in Nat \ {0}
    OBVIOUS
  <2>2. /\ Sextet(alphabet, text, size, 4 * g + 1) \in 0..63
        /\ Sextet(alphabet, text, size, 4 * g + 2) \in 0..63
        /\ Sextet(alphabet, text, size, 4 * g + 3) \in 0..63
        /\ Sextet(alphabet, text, size, 4 * g + 4) \in 0..63
    BY <1>0, <2>1, SextetRange
  <2>3. PICK p \in 0..63, q \in 0..63, r \in 0..63, s \in 0..63 :
          /\ p = Sextet(alphabet, text, size, 4 * g + 1)
          /\ q = Sextet(alphabet, text, size, 4 * g + 2)
          /\ r = Sextet(alphabet, text, size, 4 * g + 3)
          /\ s = Sextet(alphabet, text, size, 4 * g + 4)
    BY <2>2
  <2>4. T(g) = ((p * 64 + q) * 64 + r) * 64 + s
    BY <2>3 DEF SextetTriple
  <2> QED BY <2>4
<1>3. ASSUME NEW t \in Nat, NEW j PROVE OctetOf(t, j) \in Byte
  BY DEF OctetOf, Byte
<1> HIDE DEF T
<1>4. ASSUME NEW i \in 1..n PROVE E(i) \in Byte
  <2>1. PICK g \in Nat : g = (i - 1) \div 3
    BY <1>0
  <2>2. T(g) \in Nat
    BY <1>2
  <2> QED BY <2>1, <2>2, <1>3
<1> HIDE DEF E
<1> QED BY <1>0, <1>1, <1>4

\* The bits of group g of n bytes, from the values of its four characters
GroupBitsAre(bin, n, g, p, q, r, s) ==
  /\ 3 * g + 1 <= n => SixBits(bin, 4 * g) = p
  /\ 3 * g + 1 = n => SixBits(bin, 4 * g + 1) = (q \div 16) * 16
  /\ 3 * g + 2 <= n => SixBits(bin, 4 * g + 1) = q
  /\ 3 * g + 2 = n => SixBits(bin, 4 * g + 2) = (r \div 4) * 4
  /\ 3 * g + 3 <= n => SixBits(bin, 4 * g + 2) = r /\ SixBits(bin, 4 * g + 3) = s

\* The same for any binary that is made in this way
LEMMA BitsOfGroup ==
  ASSUME NEW bin \in Seq(Byte), NEW n \in Nat, Len(bin) = n, NEW g \in Nat,
         NEW p, NEW q, NEW r, NEW s, GroupIs(bin, n, g, p, q, r, s)
  PROVE  GroupBitsAre(bin, n, g, p, q, r, s)
<1>1. /\ p \in 0..63 /\ q \in 0..63 /\ r \in 0..63 /\ s \in 0..63
      /\ 3 * g + 1 <= n => bin[3 * g + 1] = p * 4 + q \div 16
      /\ 3 * g + 2 <= n => bin[3 * g + 2] = (q % 16) * 16 + r \div 4
      /\ 3 * g + 3 <= n => bin[3 * g + 3] = (r % 4) * 64 + s
  BY DEF GroupIs
<1>2. PICK a, b, c : a = p * 4 + q \div 16 /\ b = (q % 16) * 16 + r \div 4 /\ c = (r % 4) * 64 + s
  OBVIOUS
<1>3. Restored(a, b, c, p, q, r, s)
  <2>1. p \in 0..63 /\ q \in 0..63 /\ r \in 0..63 /\ s \in 0..63
    BY <1>1
  <2>2. Restored(p * 4 + q \div 16, (q % 16) * 16 + r \div 4, (r % 4) * 64 + s, p, q, r, s)
    BY <2>1, Recombine, Zenon
  <2> QED BY <1>2, <2>2
<1>4. PICK x, y, z : x = Octet(bin, 3 * g + 1) /\ y = Octet(bin, 3 * g + 2)
                     /\ z = Octet(bin, 3 * g + 3)
  OBVIOUS
<1>5. /\ SixBits(bin, 4 * g) = x \div 4
      /\ SixBits(bin, 4 * g + 1) = (x % 4) * 16 + y \div 16
      /\ SixBits(bin, 4 * g + 2) = (y % 16) * 4 + z \div 64
      /\ SixBits(bin, 4 * g + 3) = z % 64
  <2>1. BitsAre(bin, g, x, y, z)
    BY <1>4, SixBitsAt
  <2> QED BY <2>1 DEF BitsAre
<1>6. /\ 3 * g + 1 <= n => x = a
      /\ 3 * g + 2 <= n => y = b
      /\ 3 * g + 3 <= n => z = c
      /\ 3 * g + 1 = n => y = 0
      /\ 3 * g + 2 = n => z = 0
  BY <1>1, <1>2, <1>4 DEF Octet
<1>7. PICK e, f, h, i, j, k :
        /\ e = x \div 4 /\ f = (x % 4) * 16 + y \div 16
        /\ h = (y % 16) * 4 + z \div 64 /\ i = z % 64
        /\ j = (a % 4) * 16 /\ k = (b % 16) * 4
  OBVIOUS
<1>8. /\ 3 * g + 1 <= n => e = p
      /\ 3 * g + 2 <= n => f = q
      /\ 3 * g + 3 <= n => h = r /\ i = s
  <2>1. (3 * g + 3 <= n => 3 * g + 2 <= n) /\ (3 * g + 2 <= n => 3 * g + 1 <= n)
    OBVIOUS
  <2> QED BY <1>3, <1>6, <1>7, <2>1, Zenon DEF Restored
<1>9. a \in 0..255 /\ b \in 0..255 /\ j = (q \div 16) * 16 /\ k = (r \div 4) * 4
  BY <1>3, <1>7 DEF Restored
<1>10. (3 * g + 1 = n => f = j) /\ (3 * g + 2 = n => h = k)
  <2>1. 0 \div 16 = 0 /\ 0 \div 64 = 0 /\ j + 0 = j /\ k + 0 = k
    BY <1>7, <1>9
  <2>2. ASSUME 3 * g + 1 = n PROVE f = j
    <3>1. x = a /\ y = 0
      BY <1>6, <2>2
    <3>2. f = j + 0 \div 16
      BY <1>7, <3>1, Zenon
    <3> QED BY <2>1, <3>2, Zenon
  <2>3. ASSUME 3 * g + 2 = n PROVE h = k
    <3>1. y = b /\ z = 0
      BY <1>6, <2>3
    <3>2. h = k + 0 \div 64
      BY <1>7, <3>1, Zenon
    <3> QED BY <2>1, <3>2, Zenon
  <2> QED BY <2>2, <2>3
<1>11. /\ SixBits(bin, 4 * g) = e /\ SixBits(bin, 4 * g + 1) = f
       /\ SixBits(bin, 4 * g + 2) = h /\ SixBits(bin, 4 * g + 3) = i
  BY <1>5, <1>7, Zenon
<1> QED BY <1>8, <1>9, <1>10, <1>11, Zenon DEF GroupBitsAre

\* The bits of a complete group are the values of its characters, and those of
\* the last group are what the missing bytes leave of them.
LEMMA GroupBits ==
  ASSUME NEW alphabet, NEW text, NEW count, NEW size, NEW n, NEW g \in Nat,
         Readable(alphabet, text, count, size, n)
  PROVE  GroupBitsAre(Octets(alphabet, text, count, size), n, g,
                      Sextet(alphabet, text, size, 4 * g + 1),
                      Sextet(alphabet, text, size, 4 * g + 2),
                      Sextet(alphabet, text, size, 4 * g + 3),
                      Sextet(alphabet, text, size, 4 * g + 4))
<1>1. /\ Octets(alphabet, text, count, size) \in Seq(Byte)
      /\ Len(Octets(alphabet, text, count, size)) = n
  BY OctetsType
<1>2. n \in Nat
  BY DEF Readable
<1>3. GroupIs(Octets(alphabet, text, count, size), n, g,
              Sextet(alphabet, text, size, 4 * g + 1),
              Sextet(alphabet, text, size, 4 * g + 2),
              Sextet(alphabet, text, size, 4 * g + 3),
              Sextet(alphabet, text, size, 4 * g + 4))
  BY GroupOctets
<1> QED BY <1>1, <1>2, <1>3, BitsOfGroup

\* The bytes that decode makes of a complete text are what it stands for.
LEMMA OctetsStand ==
  ASSUME NEW alphabet, NEW text, NEW count, NEW size, NEW n,
         Readable(alphabet, text, count, size, n), (size + count) % 4 = 0
  PROVE  Stands(alphabet, text, count, size, Octets(alphabet, text, count, size))
<1>1. /\ text \in Seq(Byte) /\ count \in 0..2 /\ size \in 0..Len(text)
      /\ \A i \in 1..size : Rdata(alphabet, text[i]) # -1
      /\ n \in Nat /\ n = (size \div 4) * 3 + (IF count = 0 THEN 0 ELSE 3 - count)
  BY DEF Readable
<1>2. PICK G \in Nat : /\ G = size \div 4
                       /\ \/ count = 0 /\ size = 4 * G /\ n = 3 * G
                          \/ count = 1 /\ size = 4 * G + 3 /\ n = 3 * G + 2
                          \/ count = 2 /\ size = 4 * G + 2 /\ n = 3 * G + 1
  <2>1. PICK G \in Nat, e \in 0..3 : G = size \div 4 /\ size = 4 * G + e
    <3>1. size \div 4 \in Nat /\ size % 4 \in 0..3 /\ size = 4 * (size \div 4) + (size % 4)
      BY <1>1
    <3> QED BY <3>1
  <2>2. count = 0 \/ count = 1 \/ count = 2
    BY <1>1
  <2>3. (e + count) % 4 = 0
    <3>1. size + count = 4 * G + (e + count)
      BY <2>1, <1>1
    <3>2. PICK d \in 0..5 : d = e + count
      BY <1>1
    <3>3. (4 * G + d) % 4 = d % 4
      OBVIOUS
    <3> QED BY <3>1, <3>2, <3>3
  <2>4. (count = 0 /\ e = 0) \/ (count = 1 /\ e = 3) \/ (count = 2 /\ e = 2)
    BY <2>2, <2>3
  <2> QED BY <1>1, <2>1, <2>4
<1>3. PICK bin : bin = Octets(alphabet, text, count, size)
  OBVIOUS
<1>4. bin \in Seq(Byte) /\ Len(bin) = n
  BY <1>3, OctetsType
<1>5. \A g \in Nat : GroupBitsAre(bin, n, g,
                                  Sextet(alphabet, text, size, 4 * g + 1),
                                  Sextet(alphabet, text, size, 4 * g + 2),
                                  Sextet(alphabet, text, size, 4 * g + 3),
                                  Sextet(alphabet, text, size, 4 * g + 4))
  BY <1>3, GroupBits
<1>6. Len(bin) = (6 * size) \div 8
  BY <1>1, <1>2, <1>4
<1>7. ASSUME NEW k \in 0..size - 2 PROVE SixBits(bin, k) = Rdata(alphabet, text[k + 1])
  <2>1. PICK g \in Nat, j \in 0..3 : k = 4 * g + j
    <3>1. k \div 4 \in Nat /\ k % 4 \in 0..3 /\ k = 4 * (k \div 4) + (k % 4)
      BY <1>1
    <3> QED BY <3>1
  <2>2. Sextet(alphabet, text, size, k + 1) = Rdata(alphabet, text[k + 1])
    BY <1>1 DEF Sextet
  <2>3. GroupBitsAre(bin, n, g,
                     Sextet(alphabet, text, size, 4 * g + 1),
                     Sextet(alphabet, text, size, 4 * g + 2),
                     Sextet(alphabet, text, size, 4 * g + 3),
                     Sextet(alphabet, text, size, 4 * g + 4))
    BY <1>5
  <2>4. SixBits(bin, k) = Sextet(alphabet, text, size, k + 1)
    <3>1. CASE j = 0
      <4>1. 3 * g + 1 <= n /\ 4 * g = k /\ 4 * g + 1 = k + 1
        BY <1>1, <1>2, <2>1, <3>1
      <4> QED BY <2>3, <4>1, Zenon DEF GroupBitsAre
    <3>2. CASE j = 1
      <4>1. 3 * g + 2 <= n /\ 4 * g + 1 = k /\ 4 * g + 2 = k + 1
        BY <1>1, <1>2, <2>1, <3>2
      <4> QED BY <2>3, <4>1, Zenon DEF GroupBitsAre
    <3>3. CASE j = 2
      <4>1. 3 * g + 3 <= n /\ 4 * g + 2 = k /\ 4 * g + 3 = k + 1
        BY <1>1, <1>2, <2>1, <3>3
      <4> QED BY <2>3, <4>1, Zenon DEF GroupBitsAre
    <3>4. CASE j = 3
      <4>1. 3 * g + 3 <= n /\ 4 * g + 3 = k /\ 4 * g + 4 = k + 1
        BY <1>1, <1>2, <2>1, <3>4
      <4> QED BY <2>3, <4>1, Zenon DEF GroupBitsAre
    <3> QED BY <3>1, <3>2, <3>3, <3>4
  <2> QED BY <2>2, <2>4
<1> DEFINE dropped == <<1, 4, 16>>[count + 1]
<1>8. ASSUME size > 0
      PROVE  SixBits(bin, size - 1) = (Rdata(alphabet, text[size]) \div dropped) * dropped
  <2>1. PICK v \in 0..63 : v = Rdata(alphabet, text[size]) /\ v = Sextet(alphabet, text, size, size)
    <3>1. size \in Nat \ {0} /\ size \in 1..size /\ size <= size
      BY <1>1, <1>8
    <3>2. Sextet(alphabet, text, size, size) \in 0..63
      BY <1>1, <3>1, SextetRange
    <3>3. Sextet(alphabet, text, size, size) = Rdata(alphabet, text[size])
      BY <3>1 DEF Sextet
    <3> QED BY <3>2, <3>3
  <2>2. CASE count = 0
    <3>1. PICK g \in Nat : g = G - 1
      BY <1>1, <1>2, <1>8, <2>2
    <3>2. /\ 3 * g + 3 <= n /\ 4 * g + 3 = size - 1 /\ 4 * g + 4 = size
      BY <1>1, <1>2, <2>2, <3>1
    <3>3. GroupBitsAre(bin, n, g,
                       Sextet(alphabet, text, size, 4 * g + 1),
                       Sextet(alphabet, text, size, 4 * g + 2),
                       Sextet(alphabet, text, size, 4 * g + 3),
                       Sextet(alphabet, text, size, 4 * g + 4))
      BY <1>5
    <3>4. SixBits(bin, size - 1) = v
      BY <2>1, <3>2, <3>3, Zenon DEF GroupBitsAre
    <3>5. dropped = 1 /\ (v \div 1) * 1 = v
      BY <2>2
    <3> HIDE DEF dropped
    <3> QED BY <2>1, <3>4, <3>5
  <2>3. CASE count = 1
    <3>1. /\ 3 * G + 2 = n /\ 4 * G + 2 = size - 1 /\ 4 * G + 3 = size
      BY <1>1, <1>2, <2>3
    <3>2. GroupBitsAre(bin, n, G,
                       Sextet(alphabet, text, size, 4 * G + 1),
                       Sextet(alphabet, text, size, 4 * G + 2),
                       Sextet(alphabet, text, size, 4 * G + 3),
                       Sextet(alphabet, text, size, 4 * G + 4))
      BY <1>5
    <3>3. SixBits(bin, size - 1) = (v \div 4) * 4
      BY <2>1, <3>1, <3>2, Zenon DEF GroupBitsAre
    <3>4. dropped = 4
      BY <2>3
    <3> HIDE DEF dropped
    <3> QED BY <2>1, <3>3, <3>4
  <2>4. CASE count = 2
    <3>1. /\ 3 * G + 1 = n /\ 4 * G + 1 = size - 1 /\ 4 * G + 2 = size
      BY <1>1, <1>2, <2>4
    <3>2. GroupBitsAre(bin, n, G,
                       Sextet(alphabet, text, size, 4 * G + 1),
                       Sextet(alphabet, text, size, 4 * G + 2),
                       Sextet(alphabet, text, size, 4 * G + 3),
                       Sextet(alphabet, text, size, 4 * G + 4))
      BY <1>5
    <3>3. SixBits(bin, size - 1) = (v \div 16) * 16
      BY <2>1, <3>1, <3>2, Zenon DEF GroupBitsAre
    <3>4. dropped = 16
      BY <2>4
    <3> HIDE DEF dropped
    <3> QED BY <2>1, <3>3, <3>4
  <2> QED BY <1>1, <2>2, <2>3, <2>4
<1>9. Stands(alphabet, text, count, size, bin)
  BY <1>6, <1>7, <1>8 DEF Stands
<1> QED BY <1>3, <1>9

\* What an answer of decode says
LEMMA Answers ==
  /\ \A bin : Decoded(bin).ok = "yes" /\ Decoded(bin).bin = bin
  /\ \A why : Failure(why).ok = "no" /\ Failure(why).ok # "yes"
BY DEF Decoded, Failure

\* What decode checks of a text is that it is complete.
LEMMA DecodeIs ==
  ASSUME NEW alphabet, NEW text \in Seq(Byte)
  PROVE  /\ DecodeBase(alphabet, text).ok = "yes" <=>
              \E count \in 0..2 : Complete(alphabet, text, count)
         /\ \A count \in 0..2 : Complete(alphabet, text, count) =>
              /\ DecodeBase(alphabet, text) =
                   Decoded(Octets(alphabet, text, count, Len(text) - count * FillLength(alphabet)))
              /\ Readable(alphabet, text, count, Len(text) - count * FillLength(alphabet),
                          Len(Octets(alphabet, text, count,
                                     Len(text) - count * FillLength(alphabet))))
<1>1. PICK count : count = CountPadding(alphabet, text)
  OBVIOUS
<1>2. /\ count \in 0..Len(text)
      /\ \A k \in 1..count : FillAt(alphabet, text, k)
  BY <1>1, CountIs
<1>3. PICK l \in {1, 3} : l = FillLength(alphabet)
  BY FillLengths
<1>4. PICK size \in 0..Len(text) : size = Len(text) - count * l
  <2>1. count * l <= Len(text) /\ count * l \in Nat
    <3>1. CASE count = 0
      BY <3>1
    <3>2. CASE count # 0
      <4>1. count \in Nat /\ count \in 1..count
        BY <1>2, <3>2
      <4>2. FillAt(alphabet, text, count)
        BY <1>2, <4>1
      <4> QED BY <1>3, <4>1, <4>2, FillFits
    <3> QED BY <3>1, <3>2
  <2>2. PICK m \in Nat : m = count * l
    BY <2>1
  <2> QED BY <2>1, <2>2
<1> DEFINE Good == Complaint(alphabet, text, count, size) = ""
<1>5. DecodeBase(alphabet, text) = IF Good THEN Decoded(Octets(alphabet, text, count, size))
                               ELSE Failure(Complaint(alphabet, text, count, size))
  BY <1>1, <1>3, <1>4 DEF DecodeBase
<1>6. Good <=> count \in 0..2 /\ Complete(alphabet, text, count)
  <2>1. Good <=> /\ ~(count > 2) /\ (size + count) % 4 = 0
                 /\ \A i \in 1..size : Rdata(alphabet, text[i]) # -1
    BY DEF Complaint, Outside
  <2>2. Complete(alphabet, text, count) <=>
          /\ (size + count) % 4 = 0
          /\ \A i \in 1..size : Rdata(alphabet, text[i]) # -1
    BY <1>2, <1>3, <1>4 DEF Complete
  <2>3. count \in 0..2 <=> ~(count > 2)
    BY <1>2
  <2> HIDE DEF Good
  <2> QED BY <2>1, <2>2, <2>3
<1>7. \A c \in 0..2 : Complete(alphabet, text, c) => c = count
  BY <1>1, CompleteCount
<1>8. DecodeBase(alphabet, text).ok = "yes" <=> Good
  <2>1. Good \/ ~Good
    OBVIOUS
  <2> HIDE DEF Good
  <2> QED BY <1>5, <2>1, Answers
<1>9. ASSUME Good
      PROVE  Readable(alphabet, text, count, size, Len(Octets(alphabet, text, count, size)))
  <2>1. count \in 0..2 /\ \A i \in 1..size : Rdata(alphabet, text[i]) # -1
    BY <1>3, <1>4, <1>6, <1>9 DEF Complete
  <2>2. PICK n \in Nat : n = (size \div 4) * 3 + (IF count = 0 THEN 0 ELSE 3 - count)
    BY <2>1
  <2>3. Readable(alphabet, text, count, size, n)
    BY <2>1, <2>2 DEF Readable
  <2> QED BY <2>3, OctetsType
<1> HIDE DEF Good
<1>10. ASSUME NEW c \in 0..2, Complete(alphabet, text, c)
       PROVE  /\ DecodeBase(alphabet, text) =
                   Decoded(Octets(alphabet, text, c, Len(text) - c * FillLength(alphabet)))
              /\ Readable(alphabet, text, c, Len(text) - c * FillLength(alphabet),
                          Len(Octets(alphabet, text, c, Len(text) - c * FillLength(alphabet))))
  <2>1. c = count
    BY <1>7, <1>10
  <2>2. Good
    BY <1>6, <1>10, <2>1
  <2>3. Len(text) - c * FillLength(alphabet) = size
    BY <1>3, <1>4, <2>1
  <2> QED BY <1>5, <1>9, <2>1, <2>2, <2>3
<1> QED BY <1>6, <1>7, <1>8, <1>10

\* decode accepts the complete texts and gives what they stand for.
LEMMA DecodeCorrect ==
  ASSUME NEW alphabet, NEW text \in Seq(Byte)
  PROVE  /\ DecodeBase(alphabet, text).ok = "yes" <=>
              \E count \in 0..2 : Complete(alphabet, text, count)
         /\ \A count \in 0..2 : Complete(alphabet, text, count) =>
              Stands(alphabet, text, count, Len(text) - count * FillLength(alphabet),
                     DecodeBase(alphabet, text).bin)
<1>1. ASSUME NEW count \in 0..2, Complete(alphabet, text, count)
      PROVE  Stands(alphabet, text, count, Len(text) - count * FillLength(alphabet),
                    DecodeBase(alphabet, text).bin)
  <2>1. PICK size : size = Len(text) - count * FillLength(alphabet)
    OBVIOUS
  <2>2. /\ DecodeBase(alphabet, text) = Decoded(Octets(alphabet, text, count, size))
        /\ Readable(alphabet, text, count, size, Len(Octets(alphabet, text, count, size)))
    BY <1>1, <2>1, DecodeIs
  <2>3. (size + count) % 4 = 0
    BY <1>1, <2>1 DEF Complete
  <2>4. Stands(alphabet, text, count, size, Octets(alphabet, text, count, size))
    BY <2>2, <2>3, OctetsStand
  <2>5. DecodeBase(alphabet, text).bin = Octets(alphabet, text, count, size)
    BY <2>2, Answers
  <2> QED BY <2>1, <2>4, <2>5
<1> QED BY <1>1, DecodeIs

\* The answer belongs to the question.
CodeInv ==
  /\ query \in Queries
  /\ \/ reply = Unanswered
     \/ reply.op = "encode" /\ query.op = "encode" /\
          LET text == EncodeBase(query.alphabet, query.arg)
              part == Trim(query.alphabet, text)
          IN reply = [op |-> "encode", text |-> text, part |-> part,
                      back |-> DecodeBase(query.alphabet, text),
                      again |-> DecodeBase(query.alphabet, Pad(query.alphabet, part))]
     \/ reply.op = "decode" /\ query.op = "decode" /\
          reply = [op |-> "decode", result |-> DecodeBase(query.alphabet, query.arg)]
     \/ reply.op = "sign" /\ query.op = "sign" /\
          LET signature == ToP1363(query.arg[1], query.arg[2])
          IN reply = [op |-> "sign", signature |-> signature, back |-> FromP1363(signature.bin)]

\* Every answer is the one to the question that was asked.
LEMMA CodeInvariant == CodeSpec => []CodeInv
<1>1. CodeInit => CodeInv
  BY DEF CodeInit, CodeInv
<1>2. CodeInv /\ [CodeNext]_codeVars => CodeInv'
  <2> SUFFICES ASSUME CodeInv, [CodeNext]_codeVars PROVE CodeInv'
    OBVIOUS
  <2>1. CASE EncodeQuery
    BY <2>1 DEF EncodeQuery, CodeInv
  <2>2. CASE DecodeQuery
    BY <2>2 DEF DecodeQuery, CodeInv
  <2>3. CASE SignQuery
    BY <2>3 DEF SignQuery, CodeInv
  <2>4. CASE UNCHANGED codeVars
    BY <2>4 DEF codeVars, CodeInv
  <2> QED BY <2>1, <2>2, <2>3, <2>4 DEF CodeNext
<1> QED BY <1>1, <1>2, PTL DEF CodeSpec

\* Theorem: decode accepts exactly the texts of its alphabet that are complete,
\* whatever their length, and gives what they stand for, bit by bit; a text
\* that is cut off, filled too much or filled in its middle is refused.
THEOREM DecodesExactly == CodeSpec => []DecodeExact
<1>1. CodeInv => DecodeExact
  <2> SUFFICES ASSUME CodeInv, reply.op = "decode" PROVE DecodeExact
    BY DEF DecodeExact
  <2>1. /\ query.op = "decode" /\ query \in Queries
        /\ reply.result = DecodeBase(query.alphabet, query.arg)
    BY DEF CodeInv, Unanswered
  <2>2. query.arg \in Seq(Byte)
    BY <2>1, EncodingsAssumption DEF Queries
  <2> QED BY <2>1, <2>2, DecodeCorrect DEF DecodeExact
<1> QED BY <1>1, CodeInvariant, PTL

-----------------------------------------------------------------------------
(* Encoding                                                                 *)

\* Four values that three bytes were taken apart into give the bytes back.
Rejoined(a, b, c, p, q, r, s) ==
  /\ p \in 0..63 /\ q \in 0..63 /\ r \in 0..63 /\ s \in 0..63
  /\ p * 4 + q \div 16 = a /\ (q % 16) * 16 + r \div 4 = b /\ (r % 4) * 64 + s = c

\* Taking three bytes apart loses nothing.
LEMMA Rejoin ==
  ASSUME NEW a \in 0..255, NEW b \in 0..255, NEW c \in 0..255
  PROVE  Rejoined(a, b, c, a \div 4, (a % 4) * 16 + b \div 16, (b % 16) * 4 + c \div 64, c % 64)
<1>1. PICK a1 \in 0..63, a0 \in 0..3 : a1 = a \div 4 /\ a0 = a % 4 /\ a = a1 * 4 + a0
  <2>1. a \div 4 \in 0..63 /\ a % 4 \in 0..3 /\ a = (a \div 4) * 4 + (a % 4)
    OBVIOUS
  <2> QED BY <2>1
<1>2. PICK b1 \in 0..15, b0 \in 0..15 : b1 = b \div 16 /\ b0 = b % 16 /\ b = b1 * 16 + b0
  <2>1. b \div 16 \in 0..15 /\ b % 16 \in 0..15 /\ b = (b \div 16) * 16 + (b % 16)
    OBVIOUS
  <2> QED BY <2>1
<1>3. PICK c1 \in 0..3, c0 \in 0..63 : c1 = c \div 64 /\ c0 = c % 64 /\ c = c1 * 64 + c0
  <2>1. c \div 64 \in 0..3 /\ c % 64 \in 0..63 /\ c = (c \div 64) * 64 + (c % 64)
    OBVIOUS
  <2> QED BY <2>1
<1>4. PICK q \in 0..63, r \in 0..63 : q = a0 * 16 + b1 /\ r = b0 * 4 + c1
  <2>1. a0 * 16 + b1 \in 0..63 /\ b0 * 4 + c1 \in 0..63
    OBVIOUS
  <2> QED BY <2>1
<1>5. q \div 16 = a0 /\ q % 16 = b1 /\ r \div 4 = b0 /\ r % 4 = c1
  BY <1>4
<1>6. Rejoined(a, b, c, a1, q, r, c0)
  BY <1>1, <1>2, <1>3, <1>5 DEF Rejoined
<1> QED BY <1>1, <1>2, <1>3, <1>4, <1>6

\* Six bits of a binary are the values that its three bytes give back.
LEMMA BitsRejoin ==
  ASSUME NEW bin \in Seq(Byte), NEW g \in Nat
  PROVE  Rejoined(Octet(bin, 3 * g + 1), Octet(bin, 3 * g + 2), Octet(bin, 3 * g + 3),
                  SixBits(bin, 4 * g), SixBits(bin, 4 * g + 1),
                  SixBits(bin, 4 * g + 2), SixBits(bin, 4 * g + 3))
<1>1. 3 * g + 1 \in Nat \ {0} /\ 3 * g + 2 \in Nat \ {0} /\ 3 * g + 3 \in Nat \ {0}
  OBVIOUS
<1>2. Octet(bin, 3 * g + 1) \in 0..255 /\ Octet(bin, 3 * g + 2) \in 0..255
      /\ Octet(bin, 3 * g + 3) \in 0..255
  BY <1>1, OctetType
<1>3. PICK a \in 0..255, b \in 0..255, c \in 0..255 :
        a = Octet(bin, 3 * g + 1) /\ b = Octet(bin, 3 * g + 2) /\ c = Octet(bin, 3 * g + 3)
  BY <1>2
<1>4. BitsAre(bin, g, a, b, c)
  BY <1>3, SixBitsAt
<1>5. Rejoined(a, b, c, a \div 4, (a % 4) * 16 + b \div 16, (b % 16) * 4 + c \div 64, c % 64)
  BY Rejoin, Zenon
<1> QED BY <1>3, <1>4, <1>5, Zenon DEF BitsAre

\* Six bits are a number below 64.
LEMMA SixBitsRange ==
  ASSUME NEW bin \in Seq(Byte), NEW k \in Nat
  PROVE  SixBits(bin, k) \in 0..63
<1>1. PICK g \in Nat, j \in 0..3 : k = 4 * g + j
  <2>1. k \div 4 \in Nat /\ k % 4 \in 0..3 /\ k = 4 * (k \div 4) + (k % 4)
    OBVIOUS
  <2> QED BY <2>1
<1>2. /\ SixBits(bin, 4 * g) \in 0..63 /\ SixBits(bin, 4 * g + 1) \in 0..63
      /\ SixBits(bin, 4 * g + 2) \in 0..63 /\ SixBits(bin, 4 * g + 3) \in 0..63
  BY BitsRejoin, Zenon DEF Rejoined
<1>3. k = 4 * g \/ k = 4 * g + 1 \/ k = 4 * g + 2 \/ k = 4 * g + 3
  BY <1>1
<1> QED BY <1>2, <1>3, Zenon

\* encode writes the bits of a binary six by six.
LEMMA SextetIsSixBits ==
  ASSUME NEW bin \in Seq(Byte), NEW k \in Nat
  PROVE  SextetOf(OctetTriple(bin, k \div 4), k % 4) = SixBits(bin, k)
<1>1. PICK g \in Nat, j \in 0..3 : g = k \div 4 /\ j = k % 4 /\ k = 4 * g + j
  <2>1. k \div 4 \in Nat /\ k % 4 \in 0..3 /\ k = 4 * (k \div 4) + (k % 4)
    OBVIOUS
  <2> QED BY <2>1
<1>2. 3 * g + 1 \in Nat \ {0} /\ 3 * g + 2 \in Nat \ {0} /\ 3 * g + 3 \in Nat \ {0}
  OBVIOUS
<1>3. Octet(bin, 3 * g + 1) \in 0..255 /\ Octet(bin, 3 * g + 2) \in 0..255
      /\ Octet(bin, 3 * g + 3) \in 0..255
  BY <1>2, OctetType
<1>4. PICK a \in 0..255, b \in 0..255, c \in 0..255 :
        a = Octet(bin, 3 * g + 1) /\ b = Octet(bin, 3 * g + 2) /\ c = Octet(bin, 3 * g + 3)
  BY <1>3
<1>5. BitsAre(bin, g, a, b, c)
  BY <1>4, SixBitsAt
<1>6. PICK t : t = OctetTriple(bin, g) /\ t = Three(a, b, c)
  BY <1>4 DEF OctetTriple, Three
<1>7. SextetsAre(t, a, b, c)
  BY <1>6, SextetsOfOctets
<1>8. /\ SextetOf(t, 0) = SixBits(bin, 4 * g) /\ SextetOf(t, 1) = SixBits(bin, 4 * g + 1)
      /\ SextetOf(t, 2) = SixBits(bin, 4 * g + 2) /\ SextetOf(t, 3) = SixBits(bin, 4 * g + 3)
  BY <1>5, <1>7, Zenon DEF BitsAre, SextetsAre
<1>9. \/ j = 0 /\ k = 4 * g
      \/ j = 1 /\ k = 4 * g + 1
      \/ j = 2 /\ k = 4 * g + 2
      \/ j = 3 /\ k = 4 * g + 3
  BY <1>1
<1>10. SextetOf(t, j) = SixBits(bin, k)
  BY <1>8, <1>9, Zenon
<1> QED BY <1>1, <1>6, <1>10

\* The lengths that belong to a binary of n bytes: count fills behind size
\* characters.
Fitting(n, size, count) ==
  \E G \in Nat : \/ n = 3 * G /\ size = 4 * G /\ count = 0
                 \/ n = 3 * G + 1 /\ size = 4 * G + 2 /\ count = 2
                 \/ n = 3 * G + 2 /\ size = 4 * G + 3 /\ count = 1

\* Before the fill, encode writes one character for every six bits.
LEMMA SymbolsAre ==
  ASSUME NEW alphabet, NEW bin \in Seq(Byte), NEW n \in Nat, n = Len(bin)
  PROVE  LET size == (8 * n + 5) \div 6
         IN /\ size \in Nat /\ Fitting(n, size, IF n % 3 = 0 THEN 0 ELSE 3 - (n % 3))
            /\ Symbols(alphabet, bin) = [k \in 1..size |-> Data(alphabet, SixBits(bin, k - 1))]
<1>1. PICK G \in Nat, m \in 0..2 : G = n \div 3 /\ m = n % 3 /\ n = 3 * G + m
  <2>1. n \div 3 \in Nat /\ n % 3 \in 0..2 /\ n = 3 * (n \div 3) + (n % 3)
    OBVIOUS
  <2> QED BY <2>1
<1>2. PICK size \in Nat : size = G * 4 + (IF m = 0 THEN 0 ELSE m + 1)
  OBVIOUS
<1>3. m = 0 \/ m = 1 \/ m = 2
  OBVIOUS
<1>4. PICK count : count = IF m = 0 THEN 0 ELSE 3 - m
  OBVIOUS
<1>n. n = 3 * G + m
  BY <1>1
<1>5. \/ n = 3 * G /\ size = 4 * G /\ count = 0
      \/ n = 3 * G + 1 /\ size = 4 * G + 2 /\ count = 2
      \/ n = 3 * G + 2 /\ size = 4 * G + 3 /\ count = 1
  <2>1. CASE m = 0
    <3>1. n = 3 * G /\ size = G * 4 + 0 /\ count = 0
      BY <1>2, <1>4, <1>n, <2>1
    <3> QED BY <3>1
  <2>2. CASE m = 1
    <3>1. n = 3 * G + 1 /\ size = G * 4 + (1 + 1) /\ count = 3 - 1
      BY <1>2, <1>4, <1>n, <2>2
    <3> QED BY <3>1
  <2>3. CASE m = 2
    <3>1. n = 3 * G + 2 /\ size = G * 4 + (2 + 1) /\ count = 3 - 2
      BY <1>2, <1>4, <1>n, <2>3
    <3> QED BY <3>1
  <2> QED BY <1>3, <2>1, <2>2, <2>3
<1>6. size = (8 * n + 5) \div 6 /\ Fitting(n, size, count)
  <2>1. CASE n = 3 * G /\ size = 4 * G /\ count = 0
    <3>1. (8 * (3 * G) + 5) \div 6 = 4 * G
      OBVIOUS
    <3> QED BY <2>1, <3>1 DEF Fitting
  <2>2. CASE n = 3 * G + 1 /\ size = 4 * G + 2 /\ count = 2
    <3>1. (8 * (3 * G + 1) + 5) \div 6 = 4 * G + 2
      OBVIOUS
    <3> QED BY <2>2, <3>1 DEF Fitting
  <2>3. CASE n = 3 * G + 2 /\ size = 4 * G + 3 /\ count = 1
    <3>1. (8 * (3 * G + 2) + 5) \div 6 = 4 * G + 3
      OBVIOUS
    <3> QED BY <2>3, <3>1 DEF Fitting
  <2> QED BY <1>5, <2>1, <2>2, <2>3
<1> DEFINE E(i) == Data(alphabet, SextetOf(OctetTriple(bin, (i - 1) \div 4), (i - 1) % 4))
<1>7. Symbols(alphabet, bin) = [i \in 1..size |-> E(i)]
  BY <1>1, <1>2 DEF Symbols
<1>8. ASSUME NEW i \in 1..size PROVE E(i) = Data(alphabet, SixBits(bin, i - 1))
  <2>1. PICK k \in Nat : k = i - 1
    OBVIOUS
  <2> QED BY <2>1, SextetIsSixBits
<1> HIDE DEF E
<1>9. Symbols(alphabet, bin) = [k \in 1..size |-> Data(alphabet, SixBits(bin, k - 1))]
  BY <1>7, <1>8
<1> QED BY <1>1, <1>4, <1>6, <1>9

\* text is symbols, then count fills.
Composed(text, symbols, fill, count) ==
  /\ text \in Seq(Byte) /\ Len(text) = Len(symbols) + count * Len(fill)
  /\ \A i \in 1..Len(symbols) : text[i] = symbols[i]
  /\ \A k \in 1..count : Has(text, Len(text) - k * Len(fill), fill)

\* The fill that encode and pad write
Filling(fill, count) ==
  IF count = 0 THEN <<>> ELSE IF count = 2 THEN fill \o fill ELSE fill

\* What it is to have a fill behind other characters
LEMMA Composing ==
  ASSUME NEW symbols \in Seq(Byte), NEW fill \in Seq(Byte), NEW count \in 0..2,
         NEW l \in {1, 3}, Len(fill) = l
  PROVE  Composed(symbols \o Filling(fill, count), symbols, fill, count)
<1>1. PICK m \in Nat : m = Len(symbols)
  OBVIOUS
<1>2. CASE count = 0
  <2>1. symbols \o Filling(fill, count) = symbols
    BY <1>2, ConcatEmptySeq DEF Filling
  <2>2. Len(symbols) = Len(symbols) + 0 * Len(fill)
    BY <1>1
  <2>3. Composed(symbols, symbols, fill, 0)
    BY <2>2 DEF Composed
  <2> QED BY <1>2, <2>1, <2>3
<1>3. CASE count = 1
  <2>1. PICK text : text = symbols \o fill
    OBVIOUS
  <2>2. /\ text \in Seq(Byte) /\ Len(text) = m + l
        /\ \A i \in 1..m + l : text[i] = IF i <= m THEN symbols[i] ELSE fill[i - m]
    BY <1>1, <2>1, ConcatProperties
  <2>3. \A i \in 1..m : text[i] = symbols[i]
    BY <2>2
  <2>4. Has(text, Len(text) - 1 * Len(fill), fill)
    <3>1. Len(text) - 1 * Len(fill) = m
      BY <2>2
    <3>2. ASSUME NEW j \in 1..l PROVE text[m + j] = fill[j]
      <4>1. m + j \in 1..m + l /\ ~(m + j <= m) /\ m + j - m = j
        OBVIOUS
      <4> QED BY <2>2, <4>1
    <3>3. Has(text, m, fill)
      BY <2>2, <3>2 DEF Has
    <3> QED BY <3>1, <3>3
  <2>5. Composed(text, symbols, fill, 1)
    <3>1. \A k \in 1..1 : k = 1
      OBVIOUS
    <3>2. Len(text) = Len(symbols) + 1 * Len(fill)
      BY <1>1, <2>2
    <3> QED BY <1>1, <2>2, <2>3, <2>4, <3>1, <3>2 DEF Composed
  <2>6. Filling(fill, count) = fill
    BY <1>3 DEF Filling
  <2> QED BY <1>3, <2>1, <2>5, <2>6
<1>4. CASE count = 2
  <2>1. PICK fills : fills = fill \o fill
    OBVIOUS
  <2>2. /\ fills \in Seq(Byte) /\ Len(fills) = l + l
        /\ \A i \in 1..l + l : fills[i] = IF i <= l THEN fill[i] ELSE fill[i - l]
    BY <2>1, ConcatProperties
  <2>3. PICK text : text = symbols \o fills
    OBVIOUS
  <2>4. /\ text \in Seq(Byte) /\ Len(text) = m + (l + l)
        /\ \A i \in 1..m + (l + l) : text[i] = IF i <= m THEN symbols[i] ELSE fills[i - m]
    BY <1>1, <2>2, <2>3, ConcatProperties
  <2>5. \A i \in 1..m : text[i] = symbols[i]
    BY <2>4
  <2>6. \A j \in 1..l + l : text[m + j] = fills[j]
    <3> SUFFICES ASSUME NEW j \in 1..l + l PROVE text[m + j] = fills[j]
      OBVIOUS
    <3>1. m + j \in 1..m + (l + l) /\ ~(m + j <= m) /\ m + j - m = j
      OBVIOUS
    <3> QED BY <2>4, <3>1
  <2>7. Has(text, m, fill)
    <3>1. ASSUME NEW j \in 1..l PROVE text[m + j] = fill[j]
      <4>1. j \in 1..l + l /\ j <= l
        OBVIOUS
      <4> QED BY <2>2, <2>6, <4>1
    <3> QED BY <2>4, <3>1 DEF Has
  <2>8. Has(text, m + l, fill)
    <3>1. ASSUME NEW j \in 1..l PROVE text[m + l + j] = fill[j]
      <4>1. PICK e \in 1..l + l : e = l + j
        OBVIOUS
      <4>2. ~(e <= l) /\ e - l = j /\ m + e = m + l + j
        BY <4>1
      <4>3. fills[e] = fill[e - l]
        BY <2>2, <4>2
      <4>4. text[m + e] = fills[e]
        BY <2>6
      <4> QED BY <4>2, <4>3, <4>4
    <3> QED BY <2>4, <3>1 DEF Has
  <2>9. Composed(text, symbols, fill, 2)
    <3>1. \A k \in 1..2 : k = 1 \/ k = 2
      OBVIOUS
    <3>2. /\ Len(text) = Len(symbols) + 2 * Len(fill)
          /\ Len(text) - 1 * Len(fill) = m + l /\ Len(text) - 2 * Len(fill) = m
      BY <1>1, <2>4
    <3> QED BY <1>1, <2>4, <2>5, <2>7, <2>8, <3>1, <3>2 DEF Composed
  <2>10. Filling(fill, count) = fills
    BY <1>4, <2>1 DEF Filling
  <2> QED BY <1>4, <2>3, <2>9, <2>10
<1> QED BY <1>2, <1>3, <1>4

\* The fill of an alphabet that encodes
LEMMA FillOfShape ==
  ASSUME NEW alphabet \in {"base64", "base64url"}
  PROVE  /\ FillOf(alphabet) \in Fills(alphabet) /\ FillOf(alphabet) \in Seq(Byte)
         /\ Len(FillOf(alphabet)) = FillLength(alphabet)
         /\ FillLength(alphabet) \in {1, 3}
         /\ Rdata(alphabet, FillOf(alphabet)[1]) = -1
<1>1. FillOf(alphabet) \in Fills(alphabet)
  BY DEF FillOf, Fills
<1>2. FillOf(alphabet) \in Seq(Byte)
  <2>1. CASE alphabet = "base64"
    BY <2>1 DEF FillOf, Byte
  <2>2. CASE alphabet = "base64url"
    BY <2>2 DEF FillOf, Byte
  <2> QED BY <2>1, <2>2
<1> QED BY <1>1, <1>2, FillShape, FillLengths

\* Symbols of the alphabet with the fill that belongs to them are complete.
LEMMA ComposedComplete ==
  ASSUME NEW alphabet \in {"base64", "base64url"}, NEW text, NEW symbols \in Seq(Byte),
         NEW count \in 0..2, Composed(text, symbols, FillOf(alphabet), count),
         \A i \in 1..Len(symbols) : Rdata(alphabet, symbols[i]) # -1,
         (Len(symbols) + count) % 4 = 0
  PROVE  /\ Complete(alphabet, text, count)
         /\ Len(text) - count * FillLength(alphabet) = Len(symbols)
<1>1. PICK l \in {1, 3} : l = FillLength(alphabet) /\ l = Len(FillOf(alphabet))
  BY FillOfShape
<1>2. PICK m \in Nat : m = Len(symbols)
  OBVIOUS
<1>3. Len(text) - count * l = m
  BY <1>1, <1>2 DEF Composed
<1>4. \A i \in 1..m : Rdata(alphabet, text[i]) # -1
  BY <1>2 DEF Composed
<1>5. \A k \in 1..count : FillAt(alphabet, text, k)
  BY <1>1, FillOfShape DEF Composed, FillAt
<1>6. Complete(alphabet, text, count)
  BY <1>1, <1>2, <1>3, <1>4, <1>5 DEF Complete
<1> QED BY <1>1, <1>2, <1>3, <1>6

\* trim leaves the symbols.
LEMMA TrimComposed ==
  ASSUME NEW alphabet \in {"base64", "base64url"}, NEW text, NEW symbols \in Seq(Byte),
         NEW count \in 0..2, Composed(text, symbols, FillOf(alphabet), count),
         \A i \in 1..Len(symbols) : Rdata(alphabet, symbols[i]) # -1
  PROVE  Trim(alphabet, text) = symbols
<1>1. PICK l \in {1, 3}, fill \in Seq(Byte) :
        fill = FillOf(alphabet) /\ l = Len(fill) /\ Rdata(alphabet, fill[1]) = -1
  BY FillOfShape
<1>2. PICK m \in Nat : m = Len(symbols)
  OBVIOUS
<1>3. /\ text \in Seq(Byte) /\ Len(text) = m + count * l
      /\ \A i \in 1..m : text[i] = symbols[i]
      /\ \A k \in 1..count : Has(text, Len(text) - k * l, fill)
  BY <1>1, <1>2 DEF Composed
<1>4. PICK n \in Nat : n = Len(text)
  BY <1>3
<1> DEFINE found == {i \in 1..n : Has(text, i - 1, fill)}
<1>5. Trim(alphabet, text) = IF found = {} THEN text ELSE SubSeq(text, 1, Min(found) - 1)
  BY <1>1, <1>4 DEF Trim
<1>6. \A i \in 1..m : ~Has(text, i - 1, fill)
  <2> SUFFICES ASSUME NEW i \in 1..m, Has(text, i - 1, fill) PROVE FALSE
    OBVIOUS
  <2>1. 1 \in 1..l /\ i - 1 + 1 = i
    OBVIOUS
  <2>2. text[i] = fill[1]
    BY <1>1, <2>1 DEF Has
  <2>3. Rdata(alphabet, symbols[i]) # -1 /\ text[i] = symbols[i]
    BY <1>2, <1>3
  <2> QED BY <1>1, <2>2, <2>3
<1>7. CASE count = 0
  <2>1. n = m
    BY <1>3, <1>4, <1>7
  <2>2. found = {}
    BY <1>6, <2>1
  <2>3. text = symbols
    BY <1>2, <1>3, <1>4, <2>1, SeqEqual
  <2> HIDE DEF found
  <2> QED BY <1>5, <2>2, <2>3
<1>8. CASE count # 0
  <2>1. n - count * l = m /\ m + 1 \in 1..n /\ count \in 1..count
    <3>1. count = 1 \/ count = 2
      BY <1>8
    <3>2. n = m + count * l
      BY <1>3, <1>4
    <3>3. CASE l = 1
      BY <3>1, <3>2, <3>3
    <3>4. CASE l = 3
      BY <3>1, <3>2, <3>4
    <3> QED BY <3>3, <3>4
  <2>2. Has(text, m, fill)
    BY <1>3, <1>4, <2>1
  <2>3. m + 1 \in found
    <3>1. m + 1 - 1 = m
      OBVIOUS
    <3> QED BY <2>1, <2>2, <3>1
  <2>4. \A i \in found : i \in 1..n /\ ~(i \in 1..m)
    BY <1>6
  <2>5. found \subseteq 1..n
    OBVIOUS
  <2> HIDE DEF found
  <2>6. PICK least : least = Min(found)
    OBVIOUS
  <2>7. least \in found /\ \A i \in found : least <= i
    BY <2>3, <2>5, <2>6, MinIsLeast
  <2>8. least = m + 1
    <3>1. least <= m + 1
      BY <2>3, <2>7
    <3>2. least \in 1..n /\ ~(least \in 1..m)
      BY <2>4, <2>7
    <3> QED BY <3>1, <3>2
  <2>9. Trim(alphabet, text) = SubSeq(text, 1, m)
    <3>1. m + 1 - 1 = m
      OBVIOUS
    <3> QED BY <1>5, <2>3, <2>6, <2>8, <3>1
  <2>10. \A i \in 1..m : text[i] \in Byte
    BY <1>3, <1>4, <2>1
  <2>11. /\ SubSeq(text, 1, m) \in Seq(Byte)
         /\ Len(SubSeq(text, 1, m)) = m
         /\ \A i \in 1..m : SubSeq(text, 1, m)[i] = text[i]
    <3>1. 1 \in Int /\ m \in Int
      OBVIOUS
    <3>2. /\ SubSeq(text, 1, m) \in Seq(Byte)
          /\ Len(SubSeq(text, 1, m)) = IF 1 <= m THEN m - 1 + 1 ELSE 0
          /\ \A i \in 1..m - 1 + 1 : SubSeq(text, 1, m)[i] = text[1 + i - 1]
      BY <2>10, <3>1, SubSeqProperties
    <3>3. m - 1 + 1 = m /\ (\A i \in 1..m : 1 + i - 1 = i) /\ (~(1 <= m) => m = 0)
      OBVIOUS
    <3> QED BY <3>2, <3>3
  <2>12. SubSeq(text, 1, m) = symbols
    BY <1>2, <1>3, <2>11, SeqEqual
  <2> QED BY <2>9, <2>12
<1> QED BY <1>7, <1>8

\* decode restores a binary from characters that stand for its bits.
LEMMA OctetsBack ==
  ASSUME NEW alphabet, NEW text, NEW count, NEW size, NEW n,
         Readable(alphabet, text, count, size, n),
         NEW bin \in Seq(Byte), Len(bin) = n, Fitting(n, size, count),
         \A i \in 1..size : Rdata(alphabet, text[i]) = SixBits(bin, i - 1)
  PROVE  Octets(alphabet, text, count, size) = bin
<1>1. PICK out : out = Octets(alphabet, text, count, size)
  OBVIOUS
<1>2. out \in Seq(Byte) /\ Len(out) = n
  BY <1>1, OctetsType
<1>3. n \in Nat /\ size \in Nat
  BY DEF Readable
<1>4. PICK G \in Nat : \/ n = 3 * G /\ size = 4 * G
                       \/ n = 3 * G + 1 /\ size = 4 * G + 2
                       \/ n = 3 * G + 2 /\ size = 4 * G + 3
  BY DEF Fitting
<1>5. \A i \in 1..size : Sextet(alphabet, text, size, i) = SixBits(bin, i - 1)
  BY DEF Sextet
<1>6. ASSUME NEW i \in 1..n PROVE out[i] = bin[i]
  <2>1. PICK g \in Nat, j \in 0..2 : i = 3 * g + 1 + j
    <3>1. (i - 1) \div 3 \in Nat /\ (i - 1) % 3 \in 0..2
          /\ i = 3 * ((i - 1) \div 3) + 1 + ((i - 1) % 3)
      BY <1>3
    <3> QED BY <3>1
  <2>2. PICK p, q, r, s :
          /\ p = Sextet(alphabet, text, size, 4 * g + 1)
          /\ q = Sextet(alphabet, text, size, 4 * g + 2)
          /\ r = Sextet(alphabet, text, size, 4 * g + 3)
          /\ s = Sextet(alphabet, text, size, 4 * g + 4)
    OBVIOUS
  <2>3. GroupIs(out, n, g, p, q, r, s)
    BY <1>1, <2>2, GroupOctets
  <2>4. PICK t, u, v, w :
          /\ t = SixBits(bin, 4 * g) /\ u = SixBits(bin, 4 * g + 1)
          /\ v = SixBits(bin, 4 * g + 2) /\ w = SixBits(bin, 4 * g + 3)
    OBVIOUS
  <2>5. Rejoined(Octet(bin, 3 * g + 1), Octet(bin, 3 * g + 2), Octet(bin, 3 * g + 3), t, u, v, w)
    BY <2>4, BitsRejoin
  <2>6. Octet(bin, i) = bin[i]
    BY DEF Octet
  <2>7. /\ 4 * g + 1 - 1 = 4 * g /\ 4 * g + 2 - 1 = 4 * g + 1
        /\ 4 * g + 3 - 1 = 4 * g + 2 /\ 4 * g + 4 - 1 = 4 * g + 3
    OBVIOUS
  <2>8. CASE j = 0
    <3>1. i = 3 * g + 1 /\ 3 * g + 1 <= n /\ 4 * g + 1 \in 1..size /\ 4 * g + 2 \in 1..size
      BY <1>3, <1>4, <2>1, <2>8
    <3>2. p = t /\ q = u
      BY <1>5, <2>2, <2>4, <2>7, <3>1
    <3>3. out[3 * g + 1] = p * 4 + q \div 16
      BY <2>3, <3>1 DEF GroupIs
    <3>4. t * 4 + u \div 16 = Octet(bin, 3 * g + 1)
      BY <2>5 DEF Rejoined
    <3> QED BY <2>6, <3>1, <3>2, <3>3, <3>4
  <2>9. CASE j = 1
    <3>1. i = 3 * g + 2 /\ 3 * g + 2 <= n /\ 4 * g + 2 \in 1..size /\ 4 * g + 3 \in 1..size
      BY <1>3, <1>4, <2>1, <2>9
    <3>2. q = u /\ r = v
      BY <1>5, <2>2, <2>4, <2>7, <3>1
    <3>3. out[3 * g + 2] = (q % 16) * 16 + r \div 4
      BY <2>3, <3>1 DEF GroupIs
    <3>4. (u % 16) * 16 + v \div 4 = Octet(bin, 3 * g + 2)
      BY <2>5 DEF Rejoined
    <3> QED BY <2>6, <3>1, <3>2, <3>3, <3>4
  <2>10. CASE j = 2
    <3>1. i = 3 * g + 3 /\ 3 * g + 3 <= n /\ 4 * g + 3 \in 1..size /\ 4 * g + 4 \in 1..size
      BY <1>3, <1>4, <2>1, <2>10
    <3>2. r = v /\ s = w
      BY <1>5, <2>2, <2>4, <2>7, <3>1
    <3>3. out[3 * g + 3] = (r % 4) * 64 + s
      BY <2>3, <3>1 DEF GroupIs
    <3>4. (v % 4) * 64 + w = Octet(bin, 3 * g + 3)
      BY <2>5 DEF Rejoined
    <3> QED BY <2>6, <3>1, <3>2, <3>3, <3>4
  <2> QED BY <2>8, <2>9, <2>10
<1>7. out = bin
  BY <1>2, <1>6, SeqEqual
<1> QED BY <1>1, <1>7

\* What a token carries of a binary, and how decode restores it
LEMMA EncodeCorrect ==
  ASSUME NEW alphabet \in {"base64", "base64url"}, NEW bin \in Seq(Byte)
  PROVE  /\ Trim(alphabet, EncodeBase(alphabet, bin)) =
              [k \in 1..((8 * Len(bin) + 5) \div 6) |-> Data(alphabet, SixBits(bin, k - 1))]
         /\ DecodeBase(alphabet, EncodeBase(alphabet, bin)) = Decoded(bin)
         /\ Pad(alphabet, Trim(alphabet, EncodeBase(alphabet, bin))) = EncodeBase(alphabet, bin)
<1>1. PICK n \in Nat : n = Len(bin)
  OBVIOUS
<1>2. PICK size \in Nat : \E count : /\ size = (8 * n + 5) \div 6
                                     /\ count = IF n % 3 = 0 THEN 0 ELSE 3 - (n % 3)
                                     /\ Fitting(n, size, count)
                                     /\ Symbols(alphabet, bin) =
                                          [k \in 1..size |-> Data(alphabet, SixBits(bin, k - 1))]
  BY <1>1, SymbolsAre
<1>c. PICK count : /\ size = (8 * n + 5) \div 6
                   /\ count = IF n % 3 = 0 THEN 0 ELSE 3 - (n % 3)
                   /\ Fitting(n, size, count)
                   /\ Symbols(alphabet, bin) =
                        [k \in 1..size |-> Data(alphabet, SixBits(bin, k - 1))]
  BY <1>2
<1>3. PICK symbols : symbols = Symbols(alphabet, bin)
  OBVIOUS
<1>4. /\ symbols \in Seq(Byte) /\ Len(symbols) = size
      /\ \A i \in 1..size : symbols[i] \in Byte /\ Rdata(alphabet, symbols[i]) = SixBits(bin, i - 1)
      /\ \A i \in 1..size : Rdata(alphabet, symbols[i]) # -1
  <2>1. ASSUME NEW i \in 1..size
        PROVE  /\ symbols[i] \in Byte /\ Rdata(alphabet, symbols[i]) = SixBits(bin, i - 1)
               /\ Rdata(alphabet, symbols[i]) # -1
    <3>1. symbols[i] = Data(alphabet, SixBits(bin, i - 1))
      BY <1>c, <1>3
    <3>2. PICK v \in 0..63 : v = SixBits(bin, i - 1)
      <4>1. i - 1 \in Nat
        OBVIOUS
      <4> QED BY <4>1, SixBitsRange
    <3>3. symbols[i] \in Byte /\ Rdata(alphabet, symbols[i]) = v
      BY <3>1, <3>2, DataInverse
    <3>4. v # -1
      OBVIOUS
    <3> QED BY <3>2, <3>3, <3>4, Zenon
  <2>2. symbols = [k \in 1..size |-> symbols[k]]
    BY <1>c, <1>3
  <2>3. symbols \in Seq(Byte) /\ Len(symbols) = size
    BY <2>1, <2>2
  <2> QED BY <2>1, <2>3
<1>5. PICK G \in Nat : \/ n = 3 * G /\ size = 4 * G /\ count = 0
                       \/ n = 3 * G + 1 /\ size = 4 * G + 2 /\ count = 2
                       \/ n = 3 * G + 2 /\ size = 4 * G + 3 /\ count = 1
  BY <1>c DEF Fitting
<1>6. count \in 0..2 /\ (size + count) % 4 = 0
  BY <1>5
<1>7. PICK text : text = symbols \o Filling(FillOf(alphabet), count)
  OBVIOUS
<1>8. EncodeBase(alphabet, bin) = text
  <2>1. \/ n % 3 = 0 /\ count = 0
        \/ n % 3 = 1 /\ count = 2
        \/ n % 3 = 2 /\ count = 1
    <3>1. n % 3 \in 0..2
      OBVIOUS
    <3>2. PICK m \in 0..2 : m = n % 3
      BY <3>1
    <3>3. count = IF m = 0 THEN 0 ELSE 3 - m
      BY <1>c, <3>2
    <3>4. (m = 0 /\ count = 0) \/ (m = 1 /\ count = 2) \/ (m = 2 /\ count = 1)
      BY <3>3
    <3> QED BY <3>2, <3>4
  <2> QED BY <1>1, <1>3, <1>7, <2>1 DEF EncodeBase, Filling
<1>9. Composed(text, symbols, FillOf(alphabet), count)
  <2>1. PICK l \in {1, 3} : l = Len(FillOf(alphabet))
    BY FillOfShape
  <2> QED BY <1>4, <1>6, <1>7, <2>1, FillOfShape, Composing
<1>10. Trim(alphabet, text) = symbols
  BY <1>4, <1>6, <1>9, TrimComposed
<1>11. Pad(alphabet, symbols) = text
  <2>1. \/ size % 4 = 0 /\ count = 0
        \/ size % 4 = 2 /\ count = 2
        \/ size % 4 = 3 /\ count = 1
    <3>1. (4 * G) % 4 = 0 /\ (4 * G + 2) % 4 = 2 /\ (4 * G + 3) % 4 = 3
      OBVIOUS
    <3> QED BY <1>5, <3>1
  <2> QED BY <1>4, <1>7, <2>1 DEF Pad, Filling
<1>12. DecodeBase(alphabet, text) = Decoded(bin)
  <2>1. Complete(alphabet, text, count) /\ Len(text) - count * FillLength(alphabet) = size
    BY <1>4, <1>6, <1>9, ComposedComplete
  <2>2. text \in Seq(Byte) /\ \A i \in 1..size : text[i] = symbols[i]
    BY <1>4, <1>9 DEF Composed
  <2>3. PICK out : out = Octets(alphabet, text, count, size)
    OBVIOUS
  <2>4. DecodeBase(alphabet, text) = Decoded(out) /\ Readable(alphabet, text, count, size, Len(out))
    BY <1>6, <2>1, <2>2, <2>3, DecodeIs
  <2>5. Len(out) = n
    <3>1. Len(out) \in Nat /\ Len(out) = (size \div 4) * 3 + (IF count = 0 THEN 0 ELSE 3 - count)
      BY <2>4 DEF Readable
    <3>2. (4 * G) \div 4 = G /\ (4 * G + 2) \div 4 = G /\ (4 * G + 3) \div 4 = G
      OBVIOUS
    <3>3. CASE n = 3 * G /\ size = 4 * G /\ count = 0
      BY <3>1, <3>2, <3>3
    <3>4. CASE n = 3 * G + 1 /\ size = 4 * G + 2 /\ count = 2
      BY <3>1, <3>2, <3>4
    <3>5. CASE n = 3 * G + 2 /\ size = 4 * G + 3 /\ count = 1
      BY <3>1, <3>2, <3>5
    <3> QED BY <1>5, <3>3, <3>4, <3>5
  <2>6. \A i \in 1..size : Rdata(alphabet, text[i]) = SixBits(bin, i - 1)
    BY <1>4, <2>2
  <2>7. out = bin
    BY <1>1, <1>c, <2>3, <2>4, <2>5, <2>6, OctetsBack
  <2> QED BY <2>4, <2>7
<1> QED BY <1>1, <1>c, <1>3, <1>8, <1>10, <1>11, <1>12

-----------------------------------------------------------------------------
(* Signatures                                                               *)

\* Leading zeros do not change the number that bytes are.
LEMMA WidenedBack ==
  ASSUME NEW b, IsBignum(b), NEW h \in Nat, h = Half, Len(b) <= h
  PROVE  /\ Widened(BnToRaw(b)) \in Seq(Byte)
         /\ Len(Widened(BnToRaw(b))) = h
         /\ RawToBn(Widened(BnToRaw(b))) = b
<1>1. b \in Seq(Byte) /\ (b # <<>> => b[Len(b)] # 0)
  BY DEF IsBignum
<1>2. PICK n \in Nat : n = Len(b)
  BY <1>1
<1>3. PICK raw : raw = BnToRaw(b)
  OBVIOUS
<1>4. /\ raw \in Seq(Byte) /\ Len(raw) = n
      /\ \A i \in 1..n : raw[i] = b[n + 1 - i]
  <2>1. raw = [i \in 1..n |-> b[n + 1 - i]]
    BY <1>2, <1>3 DEF BnToRaw
  <2>2. ASSUME NEW i \in 1..n PROVE b[n + 1 - i] \in Byte
    <3>1. n + 1 - i \in 1..n
      OBVIOUS
    <3> QED BY <1>1, <1>2, <3>1
  <2> QED BY <2>1, <2>2
<1>5. PICK wide : wide = Widened(raw)
  OBVIOUS
<1>6. PICK z \in Nat : z = h - n /\ z + n = h
  BY <1>2
<1>7. wide = [i \in 1..h |-> IF i <= z THEN 0 ELSE raw[i - z]]
  BY <1>4, <1>5, <1>6 DEF Widened
<1>8. wide \in Seq(Byte) /\ Len(wide) = h
  <2>1. ASSUME NEW i \in 1..h PROVE (IF i <= z THEN 0 ELSE raw[i - z]) \in Byte
    <3>1. CASE i <= z
      BY <3>1 DEF Byte
    <3>2. CASE ~(i <= z)
      <4>1. i - z \in 1..n
        BY <1>6, <3>2
      <4> QED BY <1>4, <3>2, <4>1
    <3> QED BY <3>1, <3>2
  <2> QED BY <1>7, <2>1
<1>9. \A i \in 1..n : wide[h + 1 - i] = b[i]
  <2> SUFFICES ASSUME NEW i \in 1..n PROVE wide[h + 1 - i] = b[i]
    OBVIOUS
  <2>1. PICK j \in 1..h : j = h + 1 - i
    BY <1>6
  <2>2. PICK k \in 1..n : k = j - z
    BY <1>6, <2>1
  <2>3. ~(j <= z) /\ n + 1 - k = i
    BY <1>6, <2>1, <2>2
  <2>4. wide[j] = raw[k]
    BY <1>7, <2>2, <2>3
  <2>5. raw[k] = b[n + 1 - k]
    BY <1>4
  <2> QED BY <2>1, <2>3, <2>4, <2>5
<1>10. \A i \in 1..z : wide[i] = 0
  BY <1>6, <1>7
<1> DEFINE significant == {i \in 1..h : wide[i] # 0}
<1>11. RawToBn(wide) = IF significant = {} THEN <<>>
                       ELSE [i \in 1..h + 1 - Min(significant) |-> wide[h + 1 - i]]
  BY <1>8 DEF RawToBn
<1>12. CASE n = 0
  <2>1. significant = {}
    <3>1. z = h
      BY <1>6, <1>12
    <3> QED BY <1>10, <3>1
  <2>2. b = <<>>
    <3>1. <<>> \in Seq(Byte) /\ Len(<<>>) = 0 /\ Len(b) = 0
      BY <1>2, <1>12
    <3> QED BY <1>1, <3>1, EmptySeq
  <2> HIDE DEF significant
  <2>3. RawToBn(wide) = b
    BY <1>11, <2>1, <2>2
  <2> QED BY <1>3, <1>5, <1>8, <2>3
<1>13. CASE n # 0
  <2>1. b[n] # 0
    BY <1>1, <1>2, <1>13
  <2>2. z + 1 \in 1..h /\ h + 1 - n = z + 1 /\ n \in 1..n
    BY <1>6, <1>13
  <2>3. z + 1 \in significant
    BY <1>9, <2>1, <2>2
  <2>4. significant \subseteq 1..h
    OBVIOUS
  <2>5. \A i \in significant : i \in 1..h /\ ~(i \in 1..z)
    BY <1>10
  <2> HIDE DEF significant
  <2>6. PICK least : least = Min(significant)
    OBVIOUS
  <2>7. least \in significant /\ \A i \in significant : least <= i
    BY <2>3, <2>4, <2>6, MinIsLeast
  <2>8. least = z + 1
    <3>1. least <= z + 1
      BY <2>3, <2>7
    <3>2. least \in 1..h /\ ~(least \in 1..z)
      BY <2>5, <2>7
    <3> QED BY <3>1, <3>2
  <2>9. h + 1 - least = n
    BY <1>6, <2>8
  <2>10. RawToBn(wide) = [i \in 1..n |-> wide[h + 1 - i]]
    BY <1>11, <2>3, <2>6, <2>9
  <2>11. RawToBn(wide) = [i \in 1..n |-> b[i]]
    BY <1>9, <2>10
  <2>12. b = [i \in 1..n |-> b[i]]
    BY <1>1, <1>2
  <2> QED BY <1>3, <1>5, <1>8, <2>11, <2>12
<1> QED BY <1>12, <1>13

\* t has x as its first and y as its second half.
HalvesAre(t, x, y, h) ==
  Len(t) = 2 * h /\ SubSeq(t, 1, h) = x /\ SubSeq(t, h + 1, 2 * h) = y

\* The halves of two sequences of one length are the sequences.
LEMMA Halves ==
  ASSUME NEW h \in Nat, NEW x \in Seq(Byte), NEW y \in Seq(Byte), Len(x) = h, Len(y) = h
  PROVE  HalvesAre(x \o y, x, y, h)
<1>1. PICK t : t = x \o y
  OBVIOUS
<1>2. /\ t \in Seq(Byte) /\ Len(t) = h + h
      /\ \A i \in 1..h + h : t[i] = IF i <= h THEN x[i] ELSE y[i - h]
  <2>1. /\ t \in Seq(Byte) /\ Len(t) = Len(x) + Len(y)
        /\ \A i \in 1..Len(x) + Len(y) : t[i] = IF i <= Len(x) THEN x[i] ELSE y[i - Len(x)]
    BY <1>1, ConcatProperties
  <2> QED BY <2>1
<1>3. Len(t) = 2 * h /\ \A i \in 1..2 * h : t[i] \in Byte
  BY <1>2
<1>4. SubSeq(t, 1, h) = x
  <2>1. 1 \in Int /\ h \in Int /\ \A i \in 1..h : t[i] \in Byte
    BY <1>3
  <2>2. /\ SubSeq(t, 1, h) \in Seq(Byte)
        /\ Len(SubSeq(t, 1, h)) = IF 1 <= h THEN h - 1 + 1 ELSE 0
        /\ \A i \in 1..h - 1 + 1 : SubSeq(t, 1, h)[i] = t[1 + i - 1]
    BY <2>1, SubSeqProperties
  <2>3. h - 1 + 1 = h /\ (\A i \in 1..h : 1 + i - 1 = i) /\ (~(1 <= h) => h = 0)
    OBVIOUS
  <2>4. Len(SubSeq(t, 1, h)) = h /\ \A i \in 1..h : SubSeq(t, 1, h)[i] = t[i]
    BY <2>2, <2>3
  <2>5. \A i \in 1..h : t[i] = x[i]
    BY <1>2
  <2> QED BY <2>2, <2>4, <2>5, SeqEqual
<1>5. SubSeq(t, h + 1, 2 * h) = y
  <2>1. PICK m \in Int, n \in Int : m = h + 1 /\ n = 2 * h
    OBVIOUS
  <2>2. \A i \in m..n : t[i] \in Byte
    BY <1>3, <2>1
  <2>3. /\ SubSeq(t, m, n) \in Seq(Byte)
        /\ Len(SubSeq(t, m, n)) = IF m <= n THEN n - m + 1 ELSE 0
        /\ \A i \in 1..n - m + 1 : SubSeq(t, m, n)[i] = t[m + i - 1]
    BY <2>2, SubSeqProperties
  <2>4. n - m + 1 = h /\ (~(m <= n) => h = 0)
    BY <2>1
  <2>5. Len(SubSeq(t, m, n)) = h
    BY <2>3, <2>4
  <2>6. ASSUME NEW i \in 1..h PROVE SubSeq(t, m, n)[i] = y[i]
    <3>1. PICK j \in 1..h + h : j = m + i - 1
      BY <2>1
    <3>2. ~(j <= h) /\ j - h = i
      BY <2>1, <3>1
    <3>3. t[j] = y[j - h]
      BY <1>2, <3>2
    <3>4. SubSeq(t, m, n)[i] = t[m + i - 1]
      BY <2>3, <2>4
    <3> QED BY <3>1, <3>2, <3>3, <3>4
  <2>7. SubSeq(t, m, n) = y
    BY <2>3, <2>5, <2>6, SeqEqual
  <2> QED BY <2>1, <2>7
<1> QED BY <1>1, <1>3, <1>4, <1>5 DEF HalvesAre

\* Verification recovers r and s from what signing wrote.
LEMMA SignatureBack ==
  ASSUME NEW r, IsBignum(r), NEW s, IsBignum(s)
  PROVE  LET signature == ToP1363(r, s)
         IN IF Len(r) > Half \/ Len(s) > Half THEN signature.ok = "no"
            ELSE /\ signature.ok = "yes" /\ Len(signature.bin) = 2 * Half
                 /\ FromP1363(signature.bin) = <<r, s>>
<1>1. PICK h \in Nat : h = Half
  BY EncodingsAssumption
<1>2. r \in Seq(Byte) /\ s \in Seq(Byte)
  BY DEF IsBignum
<1>3. Len(BnToRaw(r)) = Len(r) /\ Len(BnToRaw(s)) = Len(s)
  BY <1>2 DEF BnToRaw
<1>4. CASE Len(r) > h \/ Len(s) > h
  <2>1. ToP1363(r, s) = Failure("bignum size exceeded expected length")
    BY <1>1, <1>3, <1>4 DEF ToP1363
  <2>2. ToP1363(r, s).ok = "no"
    BY <2>1, Answers
  <2> QED BY <1>1, <1>4, <2>2
<1>5. CASE ~(Len(r) > h \/ Len(s) > h)
  <2>1. Len(r) <= h /\ Len(s) <= h
    BY <1>2, <1>5
  <2>2. PICK x, y : x = Widened(BnToRaw(r)) /\ y = Widened(BnToRaw(s))
    OBVIOUS
  <2>3. x \in Seq(Byte) /\ Len(x) = h /\ RawToBn(x) = r
    BY <1>1, <2>1, <2>2, WidenedBack
  <2>4. y \in Seq(Byte) /\ Len(y) = h /\ RawToBn(y) = s
    BY <1>1, <2>1, <2>2, WidenedBack
  <2>5. PICK bin : bin = x \o y
    OBVIOUS
  <2>6. ToP1363(r, s) = Decoded(bin)
    BY <1>1, <1>3, <1>5, <2>2, <2>5 DEF ToP1363
  <2>7. ToP1363(r, s).ok = "yes" /\ ToP1363(r, s).bin = bin
    BY <2>6, Answers
  <2>8. /\ Len(bin) = 2 * h /\ SubSeq(bin, 1, h) = x /\ SubSeq(bin, h + 1, 2 * h) = y
    <3>1. HalvesAre(x \o y, x, y, h)
      BY <2>3, <2>4, Halves, Zenon
    <3> QED BY <2>5, <3>1, Zenon DEF HalvesAre
  <2>9. (2 * h) \div 2 = h
    OBVIOUS
  <2>10. FromP1363(bin) = <<r, s>>
    BY <2>3, <2>4, <2>8, <2>9 DEF FromP1363
  <2> QED BY <1>1, <1>5, <2>7, <2>8, <2>10
<1> QED BY <1>4, <1>5

\* Theorem: decode gives every binary back from what encode wrote of it, and
\* from what trim left of that once pad has completed it; and verification
\* recovers any r and s from the form of a signature that signing wrote.
THEOREM DecodingUndoesEncoding == CodeSpec => []RoundTrip
<1>1. CodeInv => Base64RoundTrip
  <2> SUFFICES ASSUME CodeInv, reply.op = "encode" PROVE Base64RoundTrip
    BY DEF Base64RoundTrip
  <2>1. PICK a, b : a = query.alphabet /\ b = query.arg
    OBVIOUS
  <2>2. PICK text, part : text = EncodeBase(a, b) /\ part = Trim(a, text)
    OBVIOUS
  <2>3. /\ query.op = "encode" /\ query \in Queries
        /\ reply.part = part /\ reply.back = DecodeBase(a, text)
        /\ reply.again = DecodeBase(a, Pad(a, part))
    BY <2>1, <2>2 DEF CodeInv, Unanswered
  <2>4. a \in {"base64", "base64url"} /\ b \in Seq(Byte)
    BY <2>1, <2>3, EncodingsAssumption DEF Queries
  <2>5. /\ part = [k \in 1..((8 * Len(b) + 5) \div 6) |-> Data(a, SixBits(b, k - 1))]
        /\ DecodeBase(a, text) = Decoded(b) /\ Pad(a, part) = text
    BY <2>2, <2>4, EncodeCorrect
  <2> QED BY <2>1, <2>3, <2>5 DEF Base64RoundTrip
<1>2. CodeInv => SignatureRecovered
  <2> SUFFICES ASSUME CodeInv, reply.op = "sign" PROVE SignatureRecovered
    BY DEF SignatureRecovered
  <2>1. PICK r, s : r = query.arg[1] /\ s = query.arg[2]
    OBVIOUS
  <2>2. /\ query.op = "sign" /\ query \in Queries
        /\ reply.signature = ToP1363(r, s)
        /\ reply.back = FromP1363(ToP1363(r, s).bin)
    BY <2>1 DEF CodeInv, Unanswered
  <2>3. query.arg = <<r, s>> /\ r \in Numbers /\ s \in Numbers
    BY <2>1, <2>2 DEF Queries
  <2>4. IsBignum(r) /\ IsBignum(s)
    BY <2>3, EncodingsAssumption
  <2>5. PICK signature : signature = ToP1363(r, s)
    OBVIOUS
  <2>6. IF Len(r) > Half \/ Len(s) > Half THEN signature.ok = "no"
        ELSE /\ signature.ok = "yes" /\ Len(signature.bin) = 2 * Half
             /\ FromP1363(signature.bin) = <<r, s>>
    BY <2>4, <2>5, SignatureBack
  <2>7. (\E i \in 1..2 : Len(query.arg[i]) > Half) <=> (Len(r) > Half \/ Len(s) > Half)
    <3>1. (\E i \in 1..2 : Len(query.arg[i]) > Half) <=>
             (Len(query.arg[1]) > Half \/ Len(query.arg[2]) > Half)
      <4>1. \A i \in 1..2 : i = 1 \/ i = 2
        OBVIOUS
      <4>2. 1 \in 1..2 /\ 2 \in 1..2
        OBVIOUS
      <4> QED BY <4>1, <4>2, Zenon
    <3> QED BY <2>1, <3>1
  <2> QED BY <2>2, <2>3, <2>5, <2>6, <2>7 DEF SignatureRecovered
<1>3. CodeInv => RoundTrip
  BY <1>1, <1>2 DEF RoundTrip
<1> QED BY <1>3, CodeInvariant, PTL

=============================================================================
