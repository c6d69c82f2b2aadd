------------------------------- MODULE PicoJson -------------------------------
(***************************************************************************)
(* The JSON parser and serializer (picojson/picojson.h) that reads the     *)
(* provider's documents and the parts of a token.  A text is a sequence of *)
(* symbols: the structural characters, the words true, false and null, and *)
(* one character for each class that the parser tells apart:               *)
(*   "q" quotation mark    "b" backslash       "ws" blank    "nl" newline  *)
(*   "1" any digit         "-" "." "e" the others of a number              *)
(*   "n" a letter that may follow a backslash  "a" any other character     *)
(* A value is <<type, contents>>; that of a number is its text.            *)
(***************************************************************************)
EXTENDS Integers, Sequences, FiniteSets

CONSTANTS
  Words,      \* texts to parse
  Trees,      \* syntax trees, written out and parsed
  MaxDepths   \* DEFAULT_MAX_DEPTHS

Ok(pos, val) == [ok |-> TRUE, pos |-> pos, val |-> val]
Null         == <<"null", <<>>>>
Fail         == [ok |-> FALSE, pos |-> 0, val |-> Null]

-----------------------------------------------------------------------------
(* class input: a position in the text; "eof" behind its end                *)

Getc(text, pos) == IF pos <= Len(text) THEN text[pos] ELSE "eof"

RECURSIVE SkipWs(_, _)
SkipWs(text, pos) ==
  IF Getc(text, pos) \in {"ws", "nl"} THEN SkipWs(text, pos + 1) ELSE pos

\* expect(c): where it leads, or 0
Expect(text, pos, c) ==
  LET p == SkipWs(text, pos) IN IF Getc(text, p) = c THEN p + 1 ELSE 0

-----------------------------------------------------------------------------
(* The parser                                                               *)

\* What may follow a backslash, and what it stands for there: of a word the first
\* letter is an escape, and the others are characters like any.
Literals   == {"true", "false", "null"}
Escapable  == {"q", "b", "n"} \cup Literals
Unescape(c) == CASE c = "n" -> <<"nl">> [] c \in Literals -> <<"nl", "a">> [] OTHER -> <<c>>

RECURSIVE ParseString(_, _, _)
ParseString(text, pos, out) ==
  LET c == Getc(text, pos)
      d == Getc(text, pos + 1)
  IN CASE c \in {"eof", "nl"} -> Fail
       [] c = "q" -> Ok(pos + 1, <<"string", out>>)
       [] c = "b" -> IF d \in Escapable
                     THEN ParseString(text, pos + 2, out \o Unescape(d))
                     ELSE Fail
       [] OTHER -> ParseString(text, pos + 1, Append(out, c))

NumberChars == {"1", "-", ".", "e"}

\* strtoimax and strtod on the whole of a number's text
Digits(s)    == Len(s) > 0 /\ \A i \in 1..Len(s) : s[i] = "1"
Unsigned(s)  == IF s # <<>> /\ s[1] = "-" THEN Tail(s) ELSE s
IsInt64(s)   == Digits(Unsigned(s))
IsMantissa(s) ==
  \/ Digits(s)
  \/ \E i \in 1..Len(s) : /\ s[i] = "." /\ Len(s) > 1
                          /\ \A j \in (1..Len(s)) \ {i} : s[j] = "1"
IsDouble(s) ==
  LET u == Unsigned(s)
  IN \/ IsMantissa(u)
     \/ \E i \in 1..Len(u) : /\ u[i] = "e"
                             /\ IsMantissa(SubSeq(u, 1, i - 1))
                             /\ Digits(Unsigned(SubSeq(u, i + 1, Len(u))))

RECURSIVE NumberEnd(_, _)
NumberEnd(text, pos) ==
  IF Getc(text, pos) \in NumberChars THEN NumberEnd(text, pos + 1) ELSE pos

ParseNumber(text, pos) ==
  LET end == NumberEnd(text, pos)
      s   == SubSeq(text, pos, end - 1)
  IN CASE IsInt64(s) -> Ok(end, <<"int64", s>>)
       [] ~IsInt64(s) /\ IsDouble(s) -> Ok(end, <<"number", s>>)
       [] OTHER -> Fail

\* depths is depths_ of the value's default_parse_context.
RECURSIVE ParseValue(_, _, _), ParseItems(_, _, _, _), ParseMembers(_, _, _, _)

\* _parse_array: parse_array_start, items, parse_array_stop
ParseArray(text, pos, depths) ==
  LET close == Expect(text, pos, "]")
  IN CASE depths = 0 -> Fail
       [] depths # 0 /\ close # 0 -> Ok(close, <<"array", <<>>>>)
       [] OTHER -> ParseItems(text, pos, depths - 1, <<>>)

ItemsLeftOpen(text, pos, depths, done) == \* faulty: "]" is not required
  LET item  == ParseValue(text, pos, depths)
      more  == Append(done, item.val)
      comma == Expect(text, item.pos, ",")
      close == Expect(text, item.pos, "]")
  IN CASE ~item.ok -> Fail
       [] item.ok /\ comma # 0 -> ParseItems(text, comma, depths, more)
       [] OTHER -> Ok(IF close = 0 THEN item.pos ELSE close, <<"array", more>>)
ParseItems(text, pos, depths, done) ==
  LET item  == ParseValue(text, pos, depths)
      more  == Append(done, item.val)
      comma == Expect(text, item.pos, ",")
      close == Expect(text, item.pos, "]")
  IN CASE ~item.ok -> Fail
       [] item.ok /\ comma # 0 -> ParseItems(text, comma, depths, more)
       [] item.ok /\ comma = 0 /\ close # 0 -> Ok(close, <<"array", more>>)
       [] OTHER -> Fail

\* _parse_object: parse_object_start looks at depths_ and leaves it alone.
ParseObject(text, pos, depths) ==
  LET close == Expect(text, pos, "}")
  IN CASE depths = 0 -> Fail
       [] depths # 0 /\ close # 0 -> Ok(close, <<"object", <<>>>>)
       [] OTHER -> ParseMembers(text, pos, depths, <<>>)

\* o[key] = value
FirstWins(members, key, val) ==          \* faulty: insert, not assign
  [k \in DOMAIN members \cup {key} |-> IF k \in DOMAIN members THEN members[k] ELSE val]
WithMember(members, key, val) ==
  [k \in DOMAIN members \cup {key} |-> IF k = key THEN val ELSE members[k]]

ParseMembers(text, pos, depths, members) ==
  LET open  == Expect(text, pos, "q")
      key   == IF open = 0 THEN Fail ELSE ParseString(text, open, <<>>)
      colon == IF key.ok THEN Expect(text, key.pos, ":") ELSE 0
      item  == IF colon = 0 THEN Fail ELSE ParseValue(text, colon, depths)
      more  == WithMember(members, key.val[2], item.val)
      comma == Expect(text, item.pos, ",")
      close == Expect(text, item.pos, "}")
  IN CASE ~item.ok -> Fail
       [] item.ok /\ comma # 0 -> ParseMembers(text, comma, depths, more)
       [] item.ok /\ comma = 0 /\ close # 0 -> Ok(close, <<"object", more>>)
       [] OTHER -> Fail

\* _parse
ParseValue(text, pos, depths) ==
  LET p == SkipWs(text, pos)
      c == Getc(text, p)
  IN CASE c = "null" -> Ok(p + 1, Null)
       [] c \in {"true", "false"} -> Ok(p + 1, <<"boolean", <<c>>>>)
       [] c = "q" -> ParseString(text, p + 1, <<>>)
       [] c = "[" -> ParseArray(text, p + 1, depths)
       [] c = "{" -> ParseObject(text, p + 1, depths)
       [] c \in {"1", "-"} -> ParseNumber(text, p)
       [] OTHER -> Fail

\* parse: what follows the value in the text is not looked at.
Parse(text) == ParseValue(text, 1, MaxDepths)

-----------------------------------------------------------------------------
(* The serializer, without prettify                                         *)

RECURSIVE Flatten(_)
Flatten(seqs) == IF seqs = <<>> THEN <<>> ELSE Head(seqs) \o Flatten(Tail(seqs))

\* serialize_str_char
Escape(c) == CASE c \in {"q", "b"} -> <<"b", c>>
               [] c = "nl" -> <<"b", "n">>
               [] OTHER -> <<c>>

SerializeStr(s) == <<"q">> \o Flatten([i \in DOMAIN s |-> Escape(s[i])]) \o <<"q">>

\* Some order of the members, one for each set of them, as std::map has.
RECURSIVE InOrder(_)
InOrder(S) == IF S = {} THEN <<>>
              ELSE LET x == CHOOSE x \in S : TRUE IN <<x>> \o InOrder(S \ {x})

WithCommas(parts) == Flatten([i \in DOMAIN parts |-> IF i = 1 THEN parts[i] ELSE <<",">> \o parts[i]])

RECURSIVE Serialize(_)
Serialize(val) ==
  CASE val[1] = "null" -> <<"null">>
    [] val[1] = "string" -> SerializeStr(val[2])
    [] val[1] = "array" ->
         <<"[">> \o WithCommas([i \in DOMAIN val[2] |-> Serialize(val[2][i])]) \o <<"]">>
    [] val[1] = "object" ->
         LET keys == InOrder(DOMAIN val[2])
         IN <<"{">> \o WithCommas([i \in DOMAIN keys |->
                          SerializeStr(keys[i]) \o <<":">> \o Serialize(val[2][keys[i]])])
                    \o <<"}">>
    [] OTHER -> val[2]

-----------------------------------------------------------------------------
(* One evaluation of every input                                            *)

VARIABLES asked, got

jsonVars == <<asked, got>>

\* A syntax tree has the members of an object in a sequence of pairs.
RECURSIVE Write(_), Meaning(_), DepthAllowed(_, _)
Write(tree) ==
  CASE tree[1] = "array" ->
         <<"[">> \o WithCommas([i \in DOMAIN tree[2] |-> Write(tree[2][i])]) \o <<"]">>
    [] tree[1] = "object" ->
         <<"{">> \o WithCommas([i \in DOMAIN tree[2] |->
                      SerializeStr(tree[2][i][1]) \o <<"ws", ":">> \o Write(tree[2][i][2])])
                 \o <<"}">>
    [] OTHER -> Serialize(tree) \o <<"nl">>

Init ==
  /\ got = <<"unasked">>
  /\ \/ \E w \in Words : asked = <<"word", w>>
     \/ \E t \in Trees : asked = <<"tree", t>>

ParseWord ==
  /\ got = <<"unasked">> /\ asked[1] = "word"
  /\ got' = <<"word", Parse(asked[2])>>
  /\ UNCHANGED asked

ParseTree ==
  /\ got = <<"unasked">> /\ asked[1] = "tree"
  /\ LET read == Parse(Write(asked[2]))
     IN got' = <<"tree", read, IF read.ok THEN Parse(Serialize(read.val)) ELSE read>>
  /\ UNCHANGED asked

Next == ParseWord \/ ParseTree

Spec == Init /\ [][Next]_jsonVars

-----------------------------------------------------------------------------
(* Properties                                                               *)

\* The grammar, by which stretches of the text are what.
Blank(t, i, j) == \A k \in i..j : t[k] \in {"ws", "nl"}

StringAt(t, i, j) ==
  /\ i < j /\ t[i] = "q"
  /\ \E ends \in [i+1..j -> BOOLEAN] : \* where a character of the contents ends
       /\ ends[j] /\ t[j] = "q" /\ (j - 1 > i => ends[j - 1])
       /\ \A k \in i+1..j-1 : /\ t[k] # "nl"
                              /\ LET starts == k = i + 1 \/ ends[k - 1]
                                 IN ends[k] <=> IF starts THEN t[k] # "b" ELSE TRUE
                              /\ (k = i + 1 \/ ends[k - 1]) => t[k] # "q"
                              /\ ~(k = i + 1 \/ ends[k - 1]) => t[k] \in Escapable

RECURSIVE ValueAt(_, _, _), ItemsAt(_, _, _), MembersAt(_, _, _)
ValueAt(t, i, j) ==
  \/ i = j /\ t[i] \in Literals
  \/ StringAt(t, i, j)
  \/ i <= j /\ t[i] # "." /\ IsDouble(SubSeq(t, i, j))
  \/ i < j /\ t[i] = "[" /\ t[j] = "]" /\ (Blank(t, i+1, j-1) \/ ItemsAt(t, i+1, j-1))
  \/ i < j /\ t[i] = "{" /\ t[j] = "}" /\ (Blank(t, i+1, j-1) \/ MembersAt(t, i+1, j-1))

Around(t, i, j, Inner(_, _)) ==
  \E k \in i..j : \E l \in k..j : Blank(t, i, k-1) /\ Inner(k, l) /\ Blank(t, l+1, j)

ItemsAt(t, i, j) ==
  \/ Around(t, i, j, LAMBDA k, l : ValueAt(t, k, l))
  \/ \E c \in i..j : /\ t[c] = ","
                     /\ Around(t, i, c - 1, LAMBDA k, l : ValueAt(t, k, l))
                     /\ ItemsAt(t, c + 1, j)

MembersAt(t, i, j) ==
  LET Member(m, n) ==
        \E c \in m..n : /\ t[c] = ":"
                        /\ Around(t, m, c - 1, LAMBDA k, l : StringAt(t, k, l))
                        /\ Around(t, c + 1, n, LAMBDA k, l : ValueAt(t, k, l))
  IN \/ Member(i, j)
     \/ \E c \in i..j : t[c] = "," /\ Member(i, c - 1) /\ MembersAt(t, c + 1, j)

\* The parser accepts a text exactly if it begins, behind blanks, with a value
\* of the grammar, and it ends where that value ends: numbers as long as
\* they go, everything else at its closing character.  A text that is cut off
\* or has a comma too many is never accepted.
AcceptsGrammar ==
  got[1] = "word" =>
    LET t    == asked[2]
        from == {i \in 1..Len(t) : Blank(t, 1, i-1) /\ t[i] \notin {"ws", "nl"}}
        ends == {j \in 1..Len(t) :
                   \E i \in from : /\ ValueAt(t, i, j)
                                   /\ t[i] \in {"1", "-"} => Getc(t, j + 1) \notin NumberChars}
    IN IF got[2].ok THEN got[2].pos - 1 \in ends ELSE ends = {}

\* The value that a syntax tree means: the last of several members with the
\* same name counts.
Meaning(tree) ==
  CASE tree[1] = "array" -> <<"array", [i \in DOMAIN tree[2] |-> Meaning(tree[2][i])]>>
    [] tree[1] = "object" ->
         LET keys    == {tree[2][i][1] : i \in DOMAIN tree[2]}
             last(k) == CHOOSE i \in DOMAIN tree[2] :
                          /\ tree[2][i][1] = k
                          /\ \A j \in DOMAIN tree[2] : tree[2][j][1] = k => j <= i
         IN <<"object", [k \in keys |-> Meaning(tree[2][last(k)][2])]>>
    [] OTHER -> tree

\* Only arrays count towards the depth, and containers below too many of
\* them are refused.
DepthAllowed(tree, above) ==
  CASE tree[1] = "array" ->
         above < MaxDepths /\ \A i \in DOMAIN tree[2] : DepthAllowed(tree[2][i], above + 1)
    [] tree[1] = "object" ->
         above < MaxDepths /\ \A i \in DOMAIN tree[2] : DepthAllowed(tree[2][i][2], above)
    [] OTHER -> TRUE

\* A document is read as what it means, duplicate names and escapes included,
\* or refused for its depth; and what the serializer writes of a value that
\* was read is read as the same value again.
ReadsMeaning ==
  got[1] = "tree" =>
    IF DepthAllowed(asked[2], 0)
    THEN /\ got[2].ok /\ got[2].val = Meaning(asked[2])
         /\ got[3].ok /\ got[3].val = got[2].val
    ELSE ~got[2].ok

==============================================================================
