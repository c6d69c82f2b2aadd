----------------------------- MODULE PicoEscape -----------------------------
(***************************************************************************)
(* How picojson reads a \u escape in a string (picojson/picojson.h):       *)
(* _parse_codepoint turns the four hexadecimal digits behind the \u, or    *)
(* those of two escapes that form a surrogate pair, into UTF-8.  A text is *)
(* what follows the \u, a sequence of character codes.                     *)
(***************************************************************************)
EXTENDS Integers, Sequences

CONSTANT Escapes   \* the texts that are parsed

ASSUME EscapesAssumption == Escapes \subseteq Seq(0..255)

VARIABLES
  escape,    \* what is behind the \u
  utf8       \* what _parse_codepoint made of it: state and bytes

escapeVars == <<escape, utf8>>

-----------------------------------------------------------------------------

\* The code's hexadecimal constants as multiples of 0x400
Kibi == 1024

High(n) == 54 * Kibi <= n /\ n < 55 * Kibi    \* 0xd800 .. 0xdbff
Low(n)  == 55 * Kibi <= n /\ n < 56 * Kibi    \* 0xdc00 .. 0xdfff

\* input::getc: -1 behind the end
Getc(text, pos) == IF pos <= Len(text) THEN text[pos] ELSE -1

\* The value of a hexadecimal digit, or -1
Hex(c) ==
  IF c \in 48..57 THEN c - 48
  ELSE IF c \in 65..70 THEN c - 55
  ELSE IF c \in 97..102 THEN c - 87
  ELSE -1

\* _parse_quadhex: the number that four digits make, or -1
ParseQuadhex(text, pos) ==
  LET d(i) == Hex(Getc(text, pos + i))
  IN IF \E i \in 0..3 : d(i) = -1 THEN -1
     ELSE ((d(0) * 16 + d(1)) * 16 + d(2)) * 16 + d(3)

\* The character of a surrogate pair, or -1
AnySecond(first, second) ==              \* faulty: does not check the second
  (first - 54 * Kibi) * 1024 + ((second - 55 * Kibi) % 1024) + 64 * Kibi
Combine(first, second) ==
  IF Low(second) THEN (first - 54 * Kibi) * 1024 + ((second - 55 * Kibi) % 1024) + 64 * Kibi
  ELSE -1

\* The character of an escape: a first half needs another escape behind it.
Codepoint(text) ==
  LET first == ParseQuadhex(text, 1)
  IN IF Low(first) THEN -1
     ELSE IF ~High(first) THEN first
     ELSE IF Getc(text, 5) # 92 \/ Getc(text, 6) # 117 THEN -1
     ELSE Combine(first, ParseQuadhex(text, 7))

Utf8(n) ==
  IF n < 128 THEN <<n>>
  ELSE IF n < 2048 THEN <<192 + n \div 64, 128 + (n % 64)>>
  ELSE IF n < 64 * Kibi
  THEN <<224 + n \div 4096, 128 + ((n \div 64) % 64), 128 + (n % 64)>>
  ELSE <<240 + n \div (256 * Kibi), 128 + ((n \div 4096) % 64), 128 + ((n \div 64) % 64),
         128 + (n % 64)>>

-----------------------------------------------------------------------------

EscapeInit == escape \in Escapes /\ utf8 = [state |-> "unread", bytes |-> <<>>]

ParseCodepoint ==
  /\ utf8.state = "unread"
  /\ utf8' = IF Codepoint(escape) = -1 THEN [state |-> "refused", bytes |-> <<>>]
             ELSE [state |-> "read", bytes |-> Utf8(Codepoint(escape))]
  /\ UNCHANGED escape

EscapeNext == ParseCodepoint

EscapeSpec == EscapeInit /\ [][EscapeNext]_escapeVars

-----------------------------------------------------------------------------
(* Properties                                                               *)

\* Four digits at a position, and the 16-bit unit that they are by weight
UnitAt(text, pos) ==
  pos + 3 <= Len(text) /\ \A i \in pos..pos + 3 : Hex(text[i]) # -1
Unit(text, pos) ==
  4096 * Hex(text[pos]) + 256 * Hex(text[pos + 1]) + 16 * Hex(text[pos + 2]) + Hex(text[pos + 3])

\* What a text may spell in UTF-16: a unit that is no surrogate, or a high one
\* and a low one, the second behind a \u of its own; and the character it is
IsSingle(text) == UnitAt(text, 1) /\ ~High(Unit(text, 1)) /\ ~Low(Unit(text, 1))
IsPair(text) ==
  /\ UnitAt(text, 1) /\ High(Unit(text, 1))
  /\ UnitAt(text, 7) /\ Low(Unit(text, 7))
  /\ text[5] = 92 /\ text[6] = 117
Spelled(text) ==
  IF IsPair(text)
  THEN 64 * Kibi + (Unit(text, 1) - 54 * Kibi) * 1024 + (Unit(text, 7) - 55 * Kibi)
  ELSE Unit(text, 1)

\* b is the UTF-8 form of n, the shortest there is.
Follows(byte) == byte \in 128..191
IsUtf8(b, n) ==
  \/ n \in 0..127 /\ b = <<n>>
  \/ /\ n \in 128..2047 /\ Len(b) = 2
     /\ b[1] \in 192..223 /\ Follows(b[2])
     /\ n = (b[1] - 192) * 64 + (b[2] - 128)
  \/ /\ 2048 <= n /\ n < 64 * Kibi /\ Len(b) = 3
     /\ b[1] \in 224..239 /\ Follows(b[2]) /\ Follows(b[3])
     /\ n = ((b[1] - 224) * 64 + (b[2] - 128)) * 64 + (b[3] - 128)
  \/ /\ 64 * Kibi <= n /\ n < 1088 * Kibi /\ Len(b) = 4
     /\ b[1] \in 240..244 /\ Follows(b[2]) /\ Follows(b[3]) /\ Follows(b[4])
     /\ n = (((b[1] - 240) * 64 + (b[2] - 128)) * 64 + (b[3] - 128)) * 64 + (b[4] - 128)

\* An escape that picojson reads becomes the shortest UTF-8 form of the one
\* character that it spells; it refuses only what spells none, so a lone half
\* of a surrogate pair, or a digit that is none, is never read.
EscapesAreUtf8 ==
  /\ utf8.state = "read" =>
       (IsSingle(escape) \/ IsPair(escape)) /\ IsUtf8(utf8.bytes, Spelled(escape))
  /\ utf8.state = "refused" => ~IsSingle(escape) /\ ~IsPair(escape)

=============================================================================
