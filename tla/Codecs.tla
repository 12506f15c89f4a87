------------------------------- MODULE Codecs -------------------------------
(***************************************************************************)
(* Three conversions whose result others rely on: numbers to base-62 text  *)
(* and back with its guard against overflow, the addresses that a host     *)
(* like 0x7f.1 or 2130706433 stands for, and the tags that a link keeps    *)
(* and a list is filtered by.                                              *)
(*                                                                         *)
(* A text is the sequence of its digits.  The sizes are small: a word of   *)
(* Word values, a byte of ByteSize values, radixes that keep their order.  *)
(***************************************************************************)
EXTENDS Naturals, Sequences, FiniteSets, FiniteSetsExt, SequencesExt

CONSTANTS
  Radix, Word,          \* base 62 and uint64: digits, and how many numbers there are
  MaxText,              \* bound: digits of a text
  ByteSize,             \* values of a byte
  Radixes,              \* of the prefixes "", "0" and "0x"
  NumberTexts,          \* parts of an address as written
  NonPublic,            \* address ranges: [first, last] pairs of numbers
  TagTexts,             \* tags as a client writes them
  MaxTags, MaxTagLength

ASSUME CodecAssumption ==
  /\ Radix \in Nat \ {0, 1} /\ Word \in Nat \ {0} /\ Radix <= Word /\ MaxText \in Nat
  /\ ByteSize \in Nat \ {0, 1} /\ MaxTags \in Nat \ {0} /\ MaxTagLength \in Nat \ {0}

ASSUME SampleAssumption ==
  /\ \A p \in DOMAIN Radixes : Radixes[p] \in Nat \ {0, 1}
  /\ \A part \in NumberTexts : part.prefix \in DOMAIN Radixes /\ part.digits \in Seq(Nat)
  /\ NonPublic \subseteq Nat \X Nat
  /\ \A tag \in TagTexts : tag.length \in Nat

VARIABLES
  sample,   \* what is converted
  result    \* what came out: <<>> before the conversion, and then <<value>>

codecVars == <<sample, result>>

\* A value, or an error.
Ok(v)    == [ok |-> TRUE, of |-> v]
NoValue  == [ok |-> FALSE]

-----------------------------------------------------------------------------
(* Base 62. A digit that is no character of the alphabet is Radix. *)

\* The remainders, the last one first in the buffer.
Digits[n \in Nat] == IF n < Radix THEN <<n>> ELSE Append(Digits[n \div Radix], n % Radix)

Encode(n) == Digits[n]

\* n > (max - v) / base refuses before the multiplication wraps around.
Push_ForgetsDigit(n, v) ==
  IF ~n.ok \/ v >= Radix \/ n.of > (Word - 1) \div Radix THEN NoValue
  ELSE Ok((n.of * Radix + v) % Word)

Push(n, v) ==
  IF ~n.ok \/ v >= Radix \/ n.of > (Word - 1 - v) \div Radix THEN NoValue
  ELSE Ok((n.of * Radix + v) % Word)

Decode(text) == IF text = <<>> THEN NoValue ELSE FoldLeft(Push, Ok(0), text)

-----------------------------------------------------------------------------
(* Addresses. A part is a prefix and the digits after it.                  *)

\* parseLooseUint: strconv refuses an empty body and digits beyond the base.
ParseLooseUint(part) ==
  LET base == Radixes[part.prefix]
  IN  IF part.digits = <<>> \/ \E d \in Range(part.digits) : d >= base THEN NoValue
      ELSE Ok(FoldLeft(LAMBDA n, d : n * base + d, 0, part.digits))

\* b to the power of k.
Power(b, k) == LET p[i \in Nat] == IF i = 0 THEN 1 ELSE b * p[i - 1] IN p[k]

Bytes(k) == Power(ByteSize, k)

\* inet_aton: the shorter the address, the more bytes its last part takes.
ParseLooseIPv4(parts) ==
  LET vals == [i \in DOMAIN parts |-> ParseLooseUint(parts[i])]
      fits(i, k) == vals[i].of < Bytes(k)
      byte(i) == vals[i].of * Bytes(4 - i)
      when(ok, n) == IF ok THEN Ok(n) ELSE NoValue
  IN  IF Len(parts) > 4 \/ \E v \in Range(vals) : ~v.ok THEN NoValue
      ELSE CASE Len(parts) = 1 -> when(fits(1, 4), vals[1].of)
             [] Len(parts) = 2 -> when(fits(1, 1) /\ fits(2, 3), byte(1) + vals[2].of)
             [] Len(parts) = 3 -> when(fits(1, 1) /\ fits(2, 1) /\ fits(3, 2),
                                       byte(1) + byte(2) + vals[3].of)
             [] Len(parts) = 4 -> when(\A i \in 1..4 : fits(i, 1),
                                       byte(1) + byte(2) + byte(3) + vals[4].of)

\* isNonPublicAddr.
IsNonPublicAddr(addr) == \E r \in NonPublic : r[1] <= addr /\ addr <= r[2]

\* IsPrivateHost, for a host that is no reserved name: what is no address is a
\* name, and passes.
IsPrivateHost(parts) ==
  LET addr == ParseLooseIPv4(parts) IN addr.ok /\ IsNonPublicAddr(addr.of)

-----------------------------------------------------------------------------
(* Tags: a name of a length, written with capitals or spaces or without.   *)

Blank == ""

\* ToLower and TrimSpace.
NormalizeTagFilter(raw) == [name |-> raw.name, length |-> raw.length]

Keep(out, raw) ==
  LET tag == NormalizeTagFilter(raw)
  IN  IF ~out.ok \/ tag.name = Blank THEN out
      ELSE IF tag.length > MaxTagLength THEN NoValue
      ELSE IF tag \in Range(out.of) THEN out ELSE Ok(Append(out.of, tag))

NormalizeTags(raw) ==
  LET out == FoldLeft(Keep, Ok(<<>>), raw)
  IN  IF out.ok /\ Len(out.of) > MaxTags THEN NoValue ELSE out

-----------------------------------------------------------------------------

Samples ==
  [kind : {"number"}, of : 0..(Word - 1)]
    \cup [kind : {"text"}, of : BoundedSeq(0..Radix, MaxText)]
    \cup [kind : {"address"}, of : UNION {[1..n -> NumberTexts] : n \in 1..5}]
    \cup [kind : {"tags"}, of : BoundedSeq(TagTexts, MaxTags + 2)]

Convert ==
  /\ result = <<>>
  /\ result' = CASE sample.kind = "number"  -> <<Encode(sample.of)>>
                 [] sample.kind = "text"    -> <<Decode(sample.of)>>
                 [] sample.kind = "address" -> <<IsPrivateHost(sample.of)>>
                 [] sample.kind = "tags"    -> <<NormalizeTags(sample.of)>>
  /\ UNCHANGED sample

CodecInit == sample \in Samples /\ result = <<>>

CodecSpec == CodecInit /\ [][Convert]_codecVars

-----------------------------------------------------------------------------
(* Properties. *)

Converted(kind) == result # <<>> /\ sample.kind = kind

\* The number that a text of digits writes, however long.
NumberOf(text, base) ==
  MapThenSumSet(LAMBDA i : text[i] * Power(base, Len(text) - i), DOMAIN text)

\* Every number has one shortest text, which means that number again: the texts of
\* two numbers never meet.
EncodeIsInverted ==
  Converted("number") =>
    /\ Decode(result[1]) = Ok(sample.of)
    /\ Len(result[1]) > 1 => result[1][1] # 0

\* A text is decoded to the number it writes, or refused: it never wraps around.
DecodeNeverWraps ==
  Converted("text") =>
    LET text  == sample.of
        valid == text # <<>> /\ \A d \in Range(text) : d < Radix
    IN  result[1] = IF valid /\ NumberOf(text, Radix) < Word THEN Ok(NumberOf(text, Radix))
                    ELSE NoValue

\* A host is judged by the address it stands for, in whatever notation: its parts
\* are numbers in bases of their own, each a byte, the last one what is left.
SpellingsAgree ==
  Converted("address") =>
    LET parts == sample.of
        n     == Len(parts)
        base(p)   == Radixes[p.prefix]
        number(i) == NumberOf(parts[i].digits, base(parts[i]))
        written   == /\ n <= 4
                     /\ \A p \in Range(parts) :
                          p.digits # <<>> /\ \A d \in Range(p.digits) : d < base(p)
                     /\ \A i \in 1..(n - 1) : number(i) < ByteSize
                     /\ number(n) < Bytes(5 - n)
        addr == MapThenSumSet(LAMBDA i : number(i) * Bytes(4 - i), 1..(n - 1)) + number(n)
    IN  result[1] <=> written /\ \E r \in NonPublic : addr \in r[1]..r[2]

\* A link is found by every tag it was given, as the client wrote it or otherwise,
\* and keeps each of them once; a list that is refused has too many or too long ones.
TagsAreFound ==
  Converted("tags") =>
    LET filters == {NormalizeTagFilter(raw) : raw \in {x \in Range(sample.of) : x.name # Blank}}
    IN  IF result[1].ok
        THEN Range(result[1].of) = filters /\ Len(result[1].of) = Cardinality(filters)
        ELSE Cardinality(filters) > MaxTags \/ \E f \in filters : f.length > MaxTagLength

\* The four conversions against their definitions.
CodecInv == EncodeIsInverted /\ DecodeNeverWraps /\ SpellingsAgree /\ TagsAreFound

=============================================================================
