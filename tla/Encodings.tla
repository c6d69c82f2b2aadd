------------------------------ MODULE Encodings ------------------------------
(***************************************************************************)
(* The conversions of jwt-cpp that a token passes through on its way to    *)
(* verification: base64 in three alphabets (jwt-cpp/base.h) and the fixed  *)
(* length form of an ECDSA signature (jwt-cpp/jwt.h).  Texts are sequences *)
(* of character codes, binaries sequences of bytes, and a BIGNUM is the    *)
(* sequence of its digits to the base 256, the least first and the last    *)
(* not zero.                                                               *)
(***************************************************************************)
EXTENDS Integers, Sequences, FiniteSets, SequencesExt

CONSTANTS
  Binaries,      \* binaries to encode
  EncodedTexts,  \* texts to decode
  Numbers,       \* values of r and s of a signature
  Half           \* signature_length / 2

Byte      == 0..255
IsBignum(n) == n \in Seq(Byte) /\ (n # <<>> => n[Len(n)] # 0)

ASSUME EncodingsAssumption ==
  /\ Binaries \subseteq Seq(Byte) /\ EncodedTexts \subseteq Seq(Byte)
  /\ \A n \in Numbers : IsBignum(n)
  /\ Half \in Nat

-----------------------------------------------------------------------------
(* namespace alphabet                                                       *)

Alphabets == {"base64", "base64url", "percent"}

\* The two characters in which the alphabets differ
Plus(alphabet)  == IF alphabet = "base64" THEN 43 ELSE 45
Slash(alphabet) == IF alphabet = "base64" THEN 47 ELSE 95

\* data(): the character of a value below 64
Data(alphabet, v) ==
  IF v < 26 THEN 65 + v
  ELSE IF v < 52 THEN 71 + v
  ELSE IF v < 62 THEN v - 4
  ELSE IF v = 62 THEN Plus(alphabet) ELSE Slash(alphabet)

\* rdata(): the value of a character, -1 outside the alphabet
Rdata(alphabet, c) ==
  IF c \in 48..57 THEN c + 4
  ELSE IF c \in 65..90 THEN c - 65
  ELSE IF c \in 97..122 THEN c - 71
  ELSE IF c = Plus(alphabet) THEN 62
  ELSE IF c = Slash(alphabet) THEN 63
  ELSE -1

\* fill(): "=", or "%3d", or either of "%3D" and "%3d"
FillLength(alphabet) == IF alphabet = "base64" THEN 1 ELSE 3
Fills(alphabet) ==
  IF alphabet = "base64" THEN {<<61>>}
  ELSE IF alphabet = "base64url" THEN {<<37, 51, 100>>}
  ELSE {<<37, 51, 68>>, <<37, 51, 100>>}

\* The one fill of an alphabet that encodes
FillOf(alphabet) == IF alphabet = "base64" THEN <<61>> ELSE <<37, 51, 100>>

-----------------------------------------------------------------------------
(* namespace base                                                           *)

\* text has pattern behind its first n characters.
Has(text, n, pattern) ==
  /\ 0 <= n /\ n + Len(pattern) <= Len(text)
  /\ \A j \in 1..Len(pattern) : text[n + j] = pattern[j]

\* count_padding: how many fills end the text
FillAt(alphabet, text, k) ==
  \E f \in Fills(alphabet) : Has(text, Len(text) - k * FillLength(alphabet), f)
CountPadding(alphabet, text) ==
  Min({k \in 1..Len(text) + 1 : ~FillAt(alphabet, text, k)}) - 1

\* Three bytes as one number, and the parts of six bits that it consists of
Octet(bin, i)     == IF i <= Len(bin) THEN bin[i] ELSE 0
OctetTriple(bin, g) ==
  (Octet(bin, 3 * g + 1) * 256 + Octet(bin, 3 * g + 2)) * 256 + Octet(bin, 3 * g + 3)
SextetOf(triple, j) ==
  (IF j = 0 THEN ((triple \div 64) \div 64) \div 64
   ELSE IF j = 1 THEN (triple \div 64) \div 64
   ELSE IF j = 2 THEN triple \div 64 ELSE triple) % 64

Symbols(alphabet, bin) ==
  LET mod == Len(bin) % 3
  IN [i \in 1..(Len(bin) \div 3) * 4 + (IF mod = 0 THEN 0 ELSE mod + 1) |->
        Data(alphabet, SextetOf(OctetTriple(bin, (i - 1) \div 4), (i - 1) % 4))]

EncodeBase(alphabet, bin) ==
  LET mod == Len(bin) % 3
  IN Symbols(alphabet, bin) \o
       (IF mod = 0 THEN <<>>
        ELSE IF mod = 1 THEN FillOf(alphabet) \o FillOf(alphabet)
        ELSE FillOf(alphabet))

Failure(why) == [ok |-> "no", why |-> why, bin |-> <<>>]
Decoded(bin) == [ok |-> "yes", why |-> "", bin |-> bin]

\* The checks of decode in their order
Outside(alphabet, text, size) == \E i \in 1..size : Rdata(alphabet, text[i]) = -1
AnySize(alphabet, text, count, size) ==  \* faulty: does not check the size
  IF count > 2 THEN "too much fill"
  ELSE IF Outside(alphabet, text, size) THEN "not within alphabet" ELSE ""
Complaint(alphabet, text, count, size) ==
  IF count > 2 THEN "too much fill"
  ELSE IF (size + count) % 4 # 0 THEN "incorrect total size"
  ELSE IF Outside(alphabet, text, size) THEN "not within alphabet" ELSE ""

\* Four characters as one number, and the bytes that it consists of
Sextet(alphabet, text, size, i) == IF i <= size THEN Rdata(alphabet, text[i]) ELSE 0
SextetTriple(alphabet, text, size, g) ==
  ((Sextet(alphabet, text, size, 4 * g + 1) * 64 + Sextet(alphabet, text, size, 4 * g + 2)) * 64
     + Sextet(alphabet, text, size, 4 * g + 3)) * 64 + Sextet(alphabet, text, size, 4 * g + 4)
OctetOf(triple, j) ==
  (IF j = 0 THEN (triple \div 256) \div 256
   ELSE IF j = 1 THEN triple \div 256 ELSE triple) % 256

Octets(alphabet, text, count, size) ==
  [i \in 1..(size \div 4) * 3 + (IF count = 0 THEN 0 ELSE 3 - count) |->
     OctetOf(SextetTriple(alphabet, text, size, (i - 1) \div 3), (i - 1) % 3)]

DecodeBase(alphabet, text) ==
  LET count == CountPadding(alphabet, text)
      size  == Len(text) - count * FillLength(alphabet)
  IN IF Complaint(alphabet, text, count, size) # ""
     THEN Failure(Complaint(alphabet, text, count, size))
     ELSE Decoded(Octets(alphabet, text, count, size))

\* pad completes to a multiple of four, trim cuts at the first fill.
Pad(alphabet, text) ==
  LET mod  == Len(text) % 4
      fill == FillOf(alphabet)
  IN text \o (IF mod = 0 THEN <<>>
              ELSE IF mod = 1 THEN fill \o fill \o fill
              ELSE IF mod = 2 THEN fill \o fill ELSE fill)

TrimAll(alphabet, text) == text          \* faulty: leaves the fill
Trim(alphabet, text) ==
  LET found == {i \in 1..Len(text) : Has(text, i - 1, FillOf(alphabet))}
  IN IF found = {} THEN text ELSE SubSeq(text, 1, Min(found) - 1)

-----------------------------------------------------------------------------
(* algorithm::ecdsa: signatures                                             *)

\* bn2raw: the bytes of a number, the most significant first and none for
\* zero; raw2bn takes zeros in front too.
BnToRaw(n) == [i \in 1..Len(n) |-> n[Len(n) + 1 - i]]
RawToBn(bytes) ==
  LET significant == {i \in 1..Len(bytes) : bytes[i] # 0}
  IN IF significant = {} THEN <<>>
     ELSE [i \in 1..Len(bytes) + 1 - Min(significant) |-> bytes[Len(bytes) + 1 - i]]

\* insert(0, n, 0)
Widened(bytes) ==
  [i \in 1..Half |-> IF i <= Half - Len(bytes) THEN 0 ELSE bytes[i - (Half - Len(bytes))]]

\* der_to_p1363_signature: r and s, each padded to half of the length
ToP1363(r, s) ==
  IF Len(BnToRaw(r)) > Half \/ Len(BnToRaw(s)) > Half
  THEN Failure("bignum size exceeded expected length")
  ELSE Decoded(Widened(BnToRaw(r)) \o Widened(BnToRaw(s)))

\* p1363_to_der_signature: the two halves as numbers
FromP1363(signature) ==
  LET half == Len(signature) \div 2
  IN <<RawToBn(SubSeq(signature, 1, half)),
       RawToBn(SubSeq(signature, half + 1, Len(signature)))>>

-----------------------------------------------------------------------------
(* One conversion of every input                                            *)

VARIABLES query, reply

codeVars == <<query, reply>>

Queries ==
       [op : {"encode"}, alphabet : {"base64", "base64url"}, arg : Binaries]
  \cup [op : {"decode"}, alphabet : Alphabets, arg : EncodedTexts]
  \cup [op : {"sign"}, alphabet : {"none"}, arg : Numbers \X Numbers]

Unanswered == [op |-> "none"]

CodeInit == query \in Queries /\ reply = Unanswered

EncodeQuery ==
  /\ reply = Unanswered /\ query.op = "encode"
  /\ LET text == EncodeBase(query.alphabet, query.arg)
         part == Trim(query.alphabet, text)
     IN reply' = [op |-> "encode", text |-> text, part |-> part,
                  back |-> DecodeBase(query.alphabet, text),
                  again |-> DecodeBase(query.alphabet, Pad(query.alphabet, part))]
  /\ UNCHANGED query

DecodeQuery ==
  /\ reply = Unanswered /\ query.op = "decode"
  /\ reply' = [op |-> "decode", result |-> DecodeBase(query.alphabet, query.arg)]
  /\ UNCHANGED query

SignQuery ==
  /\ reply = Unanswered /\ query.op = "sign"
  /\ LET signature == ToP1363(query.arg[1], query.arg[2])
     IN reply' = [op |-> "sign", signature |-> signature, back |-> FromP1363(signature.bin)]
  /\ UNCHANGED query

CodeNext == EncodeQuery \/ DecodeQuery \/ SignQuery

CodeSpec == CodeInit /\ [][CodeNext]_codeVars

-----------------------------------------------------------------------------
(* Properties                                                               *)

\* Bit i of a binary, counted from 1 at its first byte's most significant one,
\* and zero behind the end; and six of them as a number.
Weight    == <<128, 64, 32, 16, 8, 4, 2, 1>>
Bit(bin, i) ==
  IF i <= 8 * Len(bin) THEN (bin[(i - 1) \div 8 + 1] \div Weight[((i - 1) % 8) + 1]) % 2 ELSE 0
SixBits(bin, k) ==
  32 * Bit(bin, 6 * k + 1) + 16 * Bit(bin, 6 * k + 2) + 8 * Bit(bin, 6 * k + 3)
    + 4 * Bit(bin, 6 * k + 4) + 2 * Bit(bin, 6 * k + 5) + Bit(bin, 6 * k + 6)

\* What encode writes, and trim leaves of it, are the bits of the binary six
\* by six, with neither more nor fewer characters than they need; decode
\* gives the binary back from the padded text and from the one that a token
\* carries, which trim has cut and pad completes.
Base64RoundTrip ==
  reply.op = "encode" =>
    /\ reply.part = [k \in 1..((8 * Len(query.arg) + 5) \div 6) |->
                       Data(query.alphabet, SixBits(query.arg, k - 1))]
    /\ reply.back = Decoded(query.arg)
    /\ reply.again = Decoded(query.arg)

\* The form of a signature that a token carries has the one length that its
\* algorithm prescribes, and verification recovers the same r and s from it,
\* also when one of them is shorter than the other.
SignatureRecovered ==
  reply.op = "sign" =>
    IF \E i \in 1..2 : Len(query.arg[i]) > Half THEN reply.signature.ok = "no"
    ELSE /\ reply.signature.ok = "yes"
         /\ Len(reply.signature.bin) = 2 * Half
         /\ reply.back = query.arg

\* Decoding undoes encoding.
RoundTrip == Base64RoundTrip /\ SignatureRecovered

\* A complete text: characters of the alphabet, then count fills that complete
\* them to a multiple of four.
Complete(alphabet, text, count) ==
  LET size == Len(text) - count * FillLength(alphabet)
  IN /\ size >= 0 /\ (size + count) % 4 = 0
     /\ \A i \in 1..size : Rdata(alphabet, text[i]) # -1
     /\ \A k \in 1..count : FillAt(alphabet, text, k)

\* bin is what a text of size characters stands for: six bits each, the last
\* character without those that complete no byte.
Stands(alphabet, text, count, size, bin) ==
  LET dropped == <<1, 4, 16>>[count + 1]
  IN /\ Len(bin) = (6 * size) \div 8
     /\ \A k \in 0..size - 2 : SixBits(bin, k) = Rdata(alphabet, text[k + 1])
     /\ size > 0 =>
          SixBits(bin, size - 1) = (Rdata(alphabet, text[size]) \div dropped) * dropped

\* decode accepts exactly the complete texts, and gives what they stand for: a
\* text that is cut off, padded too much or padded in its middle is refused,
\* never read differently or beyond its end.
DecodeExact ==
  reply.op = "decode" =>
    LET a == query.alphabet
        t == query.arg
    IN /\ reply.result.ok = "yes" <=> \E count \in 0..2 : Complete(a, t, count)
       /\ \A count \in 0..2 : Complete(a, t, count) =>
            Stands(a, t, count, Len(t) - count * FillLength(a), reply.result.bin)

=============================================================================
