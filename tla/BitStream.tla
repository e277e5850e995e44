------------------------------- MODULE BitStream -------------------------------
(***************************************************************************)
(* The Serialize functions of BitStream.h: the same calls are made by the  *)
(* writer and, in the same order, by the reader of what arrived.  Bytes    *)
(* have ByteBits bits; a short is two bytes, a uint24_t three of four.     *)
(* Floats are fractions: n of Unit stands for n / Unit.                    *)
(***************************************************************************)
EXTENDS Integers, Sequences
LOCAL Ext == INSTANCE SequencesExt

CONSTANTS Kinds,    \* the functions that are called
          ByteBits, \* 8
          Shorts,   \* values of a short
          Ends,     \* the bits of the ends of ranges and of the values given to them
          Unit,     \* the denominator of floats
          Tiny,     \* 0.00001, in steps of a double; a float has every second one
          Magnitudes, \* of vectors, in steps of a double
          Cuts,     \* how many bits may be lost at the end of the stream
          MaxStart, \* bound: no field begins behind it
          MaxFields \* bound

BitStreamAssumption ==
    /\ ByteBits \in Nat \ {0} /\ Unit \in Nat \ {0}
    /\ Shorts \cup Ends \subseteq 0 .. 2 ^ (2 * ByteBits) - 1 /\ Cuts \subseteq Nat
    /\ Tiny \in Nat /\ Tiny % 2 = 0 /\ Magnitudes \subseteq Nat /\ MaxStart \in Nat /\ MaxFields \in Nat

VARIABLES bits,       \* data, as far as numberOfBitsUsed
          written,    \* the fields that were written: kind, value, and what reader and writer know
          ends,       \* where each of them ends
          sent,       \* the stream is at the reader
          readOffset,
          got,        \* what each read returned
          writerBig, readerBig \* IsBigEndian of the two machines

vars == <<bits, written, ends, sent, readOffset, got, writerBig, readerBig>>

ShortBits == 2 * ByteBits
LongBits == 4 * ByteBits
ShortMax == 2 ^ ShortBits - 1
Magnitude(a) == IF a < 0 THEN -a ELSE a
Truth(b) == IF b THEN 1 ELSE 0

-----------------------------------------------------------------------------
(* Bytes and bits.                                                         *)

Memory(v, n, big) == [i \in 1 .. n |-> (v \div 2 ^ (ByteBits * (IF big THEN n - i ELSE i - 1))) % 2 ^ ByteBits]
Number(bytes, big) ==
    Ext!FoldLeft(LAMBDA a, b : a * 2 ^ ByteBits + b, 0, IF big THEN bytes ELSE Ext!Reverse(bytes))

\* DoEndianSwap and ReverseBytes: to or from the order of the network.
Swapped(bytes, big) == IF big THEN bytes ELSE Ext!Reverse(bytes)

LowBits(b, n) == [i \in 1 .. n |-> (b \div 2 ^ (n - i)) % 2]
NumberOf(s) == Ext!FoldLeft(LAMBDA a, b : 2 * a + b, 0, s)

\* WriteBits, right aligned: of the last byte the low bits.
WriteBits(bytes, n) ==
    Ext!FlattenSeq([i \in 1 .. n \div ByteBits |-> LowBits(bytes[i], ByteBits)])
    \o (IF n % ByteBits = 0 THEN <<>> ELSE LowBits(bytes[n \div ByteBits + 1], n % ByteBits))

\* The bytes ReadBits makes of n bits, the last one right aligned, in a variable of size bytes.
BytesOf(s, size) ==
    [i \in 1 .. size |->
        NumberOf(SubSeq(s, (i - 1) * ByteBits + 1, IF i * ByteBits < Len(s) THEN i * ByteBits ELSE Len(s)))]

\* What a read may return.
Result(ok, value, next) == {[ok |-> ok, value |-> value, next |-> next]}
Then(results, Continue(_)) == UNION {IF r.ok THEN Continue(r) ELSE {r} : r \in results}
Valued(results, Value(_)) == Then(results, LAMBDA r : Result(TRUE, Value(r.value), r.next))

ReadBits(at, n) ==
    IF at + n > Len(bits) THEN Result(FALSE, 0, at) ELSE Result(TRUE, SubSeq(bits, at + 1, at + n), at + n)

\* The next offset at the beginning of a byte.
AlignToByteBoundary(offset) == offset + ByteBits - (((offset - 1) % ByteBits) + 1)

-----------------------------------------------------------------------------
(* What is written, and what a read from an offset returns.                *)

WriteBool(b) == <<b>>
ReadBool(at) == Valued(ReadBits(at, 1), LAMBDA s : s[1])

\* A bool read into a variable that is not set if the stream has ended.
ReadFlag(at) ==
    UNION {IF r.ok THEN {r} ELSE Result(FALSE, 0, at) \cup Result(FALSE, 1, at) : r \in ReadBool(at)}

Write(v, n) == WriteBits(Swapped(Memory(v, n, writerBig), writerBig), n * ByteBits)
Read(at, n) == Valued(ReadBits(at, n * ByteBits), LAMBDA s : Number(Swapped(BytesOf(s, n), readerBig), readerBig))

HalfBits(n) == (n * ByteBits) \div 2
\* WriteCompressed of bytes: half of the bits when the others are zero.
WriteCompressed(v, n) ==
    IF v < 2 ^ (HalfBits(n)) THEN <<1>> \o LowBits(v, HalfBits(n)) ELSE <<0>> \o Write(v, n)
\* Mutant: success is that of the first read.
ReadCompressedHopes(at, n) ==
    Then(ReadBool(at), LAMBDA f :
        {[r EXCEPT !.ok = TRUE] :
            r \in IF f.value = 1 THEN Valued(ReadBits(f.next, HalfBits(n)), NumberOf) ELSE Read(f.next, n)})
ReadCompressed(at, n) ==
    Then(ReadBool(at), LAMBDA f :
        IF f.value = 1 THEN Valued(ReadBits(f.next, HalfBits(n)), NumberOf) ELSE Read(f.next, n))

\* WriteDelta and WriteCompressedDelta, of a field that is written so.
WriteDelta(v, last, field) == IF v = last THEN WriteBool(0) ELSE WriteBool(1) \o field

\* ReadDelta and ReadCompressedDelta, of a short.
ReadDelta(at, last, compressed) ==
    UNION {IF f.value = 1 THEN IF compressed THEN ReadCompressed(f.next, 2) ELSE Read(f.next, 2)
           ELSE IF f.ok THEN Result(TRUE, last, f.next) ELSE {f} : f \in ReadFlag(at)}

\* templateType(v) of a short that is signed or not, and its bits.
Short(v, signed) == IF signed THEN ((v + 2 ^ (ShortBits - 1)) % 2 ^ ShortBits) - 2 ^ (ShortBits - 1) ELSE v % 2 ^ ShortBits
Pattern(v) == v % 2 ^ ShortBits
RequiredBits(v) == CHOOSE n \in 0 .. ShortBits : Pattern(v) < 2 ^ n /\ (n > 0 => Pattern(v) >= 2 ^ (n - 1))

RangeBits(range) == RequiredBits(Short(range.max - range.min, range.signed))
Outside(v, range) == v < range.min \/ v > range.max

WriteBitsFromIntegerRange(v, range) ==
    LET offset == Memory(Pattern(Short(v - range.min, range.signed)), 2, writerBig)
        output == IF writerBig THEN Ext!Reverse(offset) ELSE offset
    IN  IF Outside(v, range) THEN WriteBool(1) \o Write(Pattern(v), 2)
        ELSE (IF range.outside THEN WriteBool(0) ELSE <<>>) \o WriteBits(output, RangeBits(range))

\* Mutant: the minimum is not added.
ReadBitsFromIntegerRangeRaw(at, range) ==
    LET inside(from) ==
            Valued(ReadBits(from, RangeBits(range)), LAMBDA s : Short(Number(BytesOf(s, 2), FALSE), range.signed))
    IN  IF range.outside
        THEN UNION {IF f.value = 1 THEN Valued(Read(f.next, 2), LAMBDA v : Short(v, range.signed))
                    ELSE inside(f.next) : f \in ReadFlag(at)}
        ELSE inside(at)

ReadBitsFromIntegerRange(at, range) ==
    LET memory(s) == IF readerBig THEN Ext!Reverse(BytesOf(s, 2)) ELSE BytesOf(s, 2)
        inside(from) ==
            Valued(ReadBits(from, RangeBits(range)),
                   LAMBDA s : Short(Number(memory(s), readerBig) + range.min, range.signed))
    IN  IF range.outside
        THEN UNION {IF f.value = 1 THEN Valued(Read(f.next, 2), LAMBDA v : Short(v, range.signed))
                    ELSE inside(f.next) : f \in ReadFlag(at)}
        ELSE inside(at)

\* A uint24_t: three bytes of its four, from the least one on, after an alignment.
Padding(offset) == [i \in 1 .. AlignToByteBoundary(offset) - offset |-> 0]
WriteUint24(v, offset) ==
    LET val == Memory(v, 4, writerBig)
        three == IF writerBig THEN <<val[4], val[3], val[2]>> ELSE <<val[1], val[2], val[3]>>
    IN  Padding(offset) \o WriteBits(three, 3 * ByteBits)
ReadUint24(at) ==
    LET val(b) == IF readerBig THEN <<0, b[3], b[2], b[1]>> ELSE <<b[1], b[2], b[3], 0>>
    IN  Valued(ReadBits(AlignToByteBoundary(at), 3 * ByteBits), LAMBDA s : Number(val(BytesOf(s, 3)), readerBig))

\* A SystemAddress of IP version 4: its complement and its port, in memory order of the network.
WriteAddress(address, port) ==
    Write(1, 1) \o WriteBits(Memory(2 ^ ShortBits - 1 - address, 2, TRUE), ShortBits) \o WriteBits(Memory(port, 2, TRUE), ShortBits)
\* Mutant: the version is not read.
ReadAddressOnly(at) ==
    Then(ReadBits(at, ShortBits), LAMBDA a :
        Valued(ReadBits(a.next, ShortBits), LAMBDA s : <<2 ^ ShortBits - 1 - NumberOf(a.value), NumberOf(s)>>))

\* The version is not set if the stream has ended.
ReadAddress(at) ==
    LET version == UNION {IF r.ok THEN {r} ELSE {[r EXCEPT !.value = v] : v \in 0 .. 1} : r \in Read(at, 1)}
        port(from, address) ==
            Valued(ReadBits(from, ShortBits), LAMBDA s : <<2 ^ ShortBits - 1 - address, NumberOf(s)>>)
    IN  UNION {IF v.value = 1
               THEN UNION {port(a.next, IF a.ok THEN NumberOf(a.value) ELSE 0) : a \in ReadBits(v.next, ShortBits)}
               ELSE Result(FALSE, 0, v.next) : v \in version}

\* A float between -1 and 1 in a short, the result cut to an integer.
FloatShort(n) == ((n + Unit) * ShortMax) \div (2 * Unit)
WriteFloat(n) == Write(FloatShort(n), 2)
ReadFloat(at) == Read(at, 2)

\* The same of a double in four bytes: 2 ^ LongBits has no place there, and
\* a conversion of it may give anything the processor does.
DoubleLongs(n) ==
    LET v == ((n + Unit) * 2 ^ LongBits) \div (2 * Unit)
    IN  IF v < 2 ^ LongBits THEN {v} ELSE {0, 2 ^ LongBits - 1}
ReadDouble(at) == Read(at, 4)

\* The nearest float of a double, the even one of two.
Float(m) == IF m % 2 = 0 THEN m ELSE IF m % 4 = 1 THEN m - 1 ELSE m + 1

WriteNormVector(d) == WriteFloat(d[1]) \o WriteFloat(d[2]) \o WriteFloat(d[3])
ReadThree(at) ==
    Then(ReadFloat(at), LAMBDA x : Then(ReadFloat(x.next), LAMBDA y :
        Valued(ReadFloat(y.next), LAMBDA z : <<x.value, y.value, z>>)))
\* Success is returned without a look at the three reads.
ReadNormVector(at) == {IF r.ok THEN r ELSE [r EXCEPT !.ok = TRUE, !.value = <<0, 0, 0>>] : r \in ReadThree(at)}

\* A vector: its length, and where that is not tiny its direction.
WriteVector(length, d) == Write(Float(length), 2) \o (IF length > Tiny THEN WriteNormVector(d) ELSE <<>>)
ReadVector(at) ==
    Then(Read(at, 2), LAMBDA m :
        IF m.value > Tiny THEN Valued(ReadThree(m.next), LAMBDA d : <<m.value, d>>)
        ELSE Result(TRUE, <<m.value, <<0, 0, 0>>>>, m.next))

\* A unit quaternion w, x, y, z: four signs and three lengths, from which w is calculated.
WriteNormQuat(q) ==
    [i \in 1 .. 4 |-> Truth(q[i] < 0)]
    \o Ext!FlattenSeq([i \in 1 .. 3 |-> Write((Magnitude(q[i + 1]) * ShortMax) \div Unit, 2)])
\* The square of w, and w's sign.
ReadNormQuat(at) ==
    LET sign(s, i) == IF s[i] = 1 THEN -1 ELSE 1
        difference(c) == ShortMax ^ 2 - c[1] ^ 2 - c[2] ^ 2 - c[3] ^ 2
    IN  Then(ReadBits(at, 4), LAMBDA s :
            Valued(ReadThree(s.next), LAMBDA c :
                [wNegative |-> s.value[1] = 1, wSquare |-> IF difference(c) < 0 THEN 0 ELSE difference(c),
                 xyz |-> [i \in 1 .. 3 |-> sign(s.value, i + 1) * c[i]]]))

\* The matrix of a rotation q: the quaternion's lengths from its diagonal, the signs
\* of x, y, z from the differences of the other elements, which are 4wx, 4wy, 4wz.
QuatOfMatrix(q) ==
    LET copysign(i) == IF q[1] * q[i] < 0 THEN -Magnitude(q[i]) ELSE Magnitude(q[i])
    IN  <<Magnitude(q[1]), copysign(2), copysign(3), copysign(4)>>
WriteOrthMatrix(q) == WriteNormQuat(QuatOfMatrix(q))
ReadOrthMatrix(at) == ReadNormQuat(at)

-----------------------------------------------------------------------------

Init ==
    /\ bits = <<>> /\ written = <<>> /\ ends = <<>> /\ sent = FALSE /\ readOffset = 0 /\ got = <<>>
    /\ writerBig \in BOOLEAN /\ readerBig \in BOOLEAN

\* The branch writeToBitstream of a Serialize function.
Put(kind, value, given, field) ==
    /\ ~sent /\ Len(written) < MaxFields /\ Len(bits) <= MaxStart
    /\ bits' = bits \o field
    /\ written' = Append(written, [kind |-> kind, value |-> value, given |-> given])
    /\ ends' = Append(ends, Len(bits'))
    /\ UNCHANGED <<sent, readOffset, got, writerBig, readerBig>>

\* The other one: the reader calls the function that was called here, until a read fails.
Take(kind, results) ==
    /\ sent /\ Len(got) < Len(written) /\ written[Len(got) + 1].kind = kind
    /\ \A k \in DOMAIN got : got[k].ok
    /\ \E r \in results :
        got' = Append(got, [ok |-> r.ok, value |-> r.value]) /\ readOffset' = r.next
    /\ UNCHANGED <<bits, written, ends, sent, writerBig, readerBig>>

Given == written[Len(got) + 1].given
NoneGiven == 0

\* The stream is sent; what is behind the cut does not arrive.
Send ==
    /\ ~sent /\ written # <<>>
    /\ \E cut \in Cuts : cut <= Len(bits) /\ bits' = SubSeq(bits, 1, Len(bits) - cut)
    /\ sent' = TRUE
    /\ UNCHANGED <<written, ends, readOffset, got, writerBig, readerBig>>

SerializeBool ==
    /\ "bool" \in Kinds
    /\ \/ \E b \in {0, 1} : Put("bool", b, NoneGiven, WriteBool(b))
       \/ Take("bool", ReadBool(readOffset))

Serialize ==
    /\ "short" \in Kinds
    /\ \/ \E v \in Shorts : Put("short", v, NoneGiven, Write(v, 2))
       \/ Take("short", Read(readOffset, 2))

SerializeDelta ==
    /\ "delta" \in Kinds
    /\ \/ \E v, last \in Shorts : Put("delta", v, last, WriteDelta(v, last, Write(v, 2)))
       \/ Take("delta", ReadDelta(readOffset, Given, FALSE))

\* Without a last value the value is always there.
SerializeDeltaFirst ==
    /\ "first" \in Kinds
    /\ \/ \E v \in Shorts : Put("first", v, NoneGiven, WriteBool(1) \o Write(v, 2))
       \/ Take("first", ReadDelta(readOffset, Given, FALSE))

\* Of a bool only itself is written, and read.
SerializeDeltaBool ==
    /\ "deltabool" \in Kinds
    /\ \/ \E b \in {0, 1} : Put("deltabool", b, NoneGiven, WriteBool(b))
       \/ Take("deltabool", ReadBool(readOffset))

\* There is no WriteDelta for a bool without a last value, but a ReadDelta.
SerializeDeltaFirstBool ==
    /\ "firstbool" \in Kinds
    /\ \/ \E b \in {0, 1} : Put("firstbool", b, NoneGiven, WriteBool(1) \o WriteBool(b))
       \/ Take("firstbool", ReadBool(readOffset))

SerializeCompressed ==
    /\ "compressed" \in Kinds
    /\ \/ \E v \in Shorts : Put("compressed", v, NoneGiven, WriteCompressed(v, 2))
       \/ Take("compressed", ReadCompressed(readOffset, 2))

SerializeCompressedDelta ==
    /\ "compresseddelta" \in Kinds
    /\ \/ \E v, last \in Shorts : Put("compresseddelta", v, last, WriteDelta(v, last, WriteCompressed(v, 2)))
       \/ Take("compresseddelta", ReadDelta(readOffset, Given, TRUE))

\* The short is cast to a byte, which has its values.
SerializeCasted ==
    /\ "casted" \in Kinds
    /\ \/ \E v \in Shorts : v < 2 ^ ByteBits /\ Put("casted", v, NoneGiven, Write(v % 2 ^ ByteBits, 1))
       \/ Take("casted", Read(readOffset, 1))

Range(min, max, signed, outside) == [min |-> min, max |-> max, signed |-> signed, outside |-> outside]

SerializeBitsFromIntegerRange ==
    /\ "range" \in Kinds
    /\ \/ \E signed, outside \in BOOLEAN : \E v, min, max \in {Short(p, signed) : p \in Ends} :
            LET range == Range(min, max, signed, outside)
            IN  /\ min < max
                /\ outside \/ ~Outside(v, range)
                /\ Put("range", v, range, WriteBitsFromIntegerRange(v, range))
       \/ Take("range", ReadBitsFromIntegerRange(readOffset, Given))

SerializeUint24 ==
    /\ "uint24" \in Kinds
    /\ \/ \E v \in Shorts : Put("uint24", v * 2 ^ ByteBits + 1, NoneGiven, WriteUint24(v * 2 ^ ByteBits + 1, Len(bits)))
       \/ Take("uint24", ReadUint24(readOffset))

SerializeAddress ==
    /\ "address" \in Kinds
    /\ \/ \E address, port \in Shorts : Put("address", <<address, port>>, NoneGiven, WriteAddress(address, port))
       \/ Take("address", ReadAddress(readOffset))

SerializeCompressedFloat ==
    /\ "float" \in Kinds
    /\ \/ \E n \in -Unit .. Unit : Put("float", n, NoneGiven, WriteFloat(n))
       \/ Take("float", ReadFloat(readOffset))

\* The end of the range is left out, unless a run is about it.
SerializeCompressedDouble ==
    /\ "double" \in Kinds \/ "doubleend" \in Kinds
    /\ \/ \E n \in -Unit .. Unit : \E long \in DoubleLongs(n) :
            (n = Unit => "doubleend" \in Kinds) /\ Put("double", n, NoneGiven, Write(long, 4))
       \/ Take("double", ReadDouble(readOffset))

Directions == {d \in (-Unit .. Unit) \X (-Unit .. Unit) \X (-Unit .. Unit) : d[1] ^ 2 + d[2] ^ 2 + d[3] ^ 2 = Unit ^ 2}
Quaternions ==
    {q \in (-Unit .. Unit) \X (-Unit .. Unit) \X (-Unit .. Unit) \X (-Unit .. Unit) :
        q[1] ^ 2 + q[2] ^ 2 + q[3] ^ 2 + q[4] ^ 2 = Unit ^ 2}

\* Success without a read is left out, unless a run is about it.
SerializeNormVector ==
    /\ "normvector" \in Kinds \/ "normvectorcut" \in Kinds
    /\ \/ \E d \in Directions : Put("normvector", d, NoneGiven, WriteNormVector(d))
       \/ /\ "normvectorcut" \in Kinds \/ \A k \in DOMAIN ends : ends[k] <= Len(bits)
          /\ Take("normvector", ReadNormVector(readOffset))

\* The length is a float's, unless a run is about doubles.
SerializeVector ==
    /\ "vector" \in Kinds \/ "vectordouble" \in Kinds
    /\ \/ \E m \in Magnitudes, d \in Directions :
            /\ m % 2 = 1 => "vectordouble" \in Kinds
            /\ Put("vector", <<m, d>>, NoneGiven, WriteVector(m, d))
       \/ Take("vector", ReadVector(readOffset))

SerializeNormQuat ==
    /\ "quat" \in Kinds
    /\ \/ \E q \in Quaternions : Put("quat", q, NoneGiven, WriteNormQuat(q))
       \/ Take("quat", ReadNormQuat(readOffset))

\* A half turn about an axis that is not between the positive ones is left out, unless a run is about it.
SerializeOrthMatrix ==
    /\ "matrix" \in Kinds \/ "halfturn" \in Kinds
    /\ \/ \E q \in Quaternions :
            /\ (q[1] = 0 /\ \E i, j \in 2 .. 4 : q[i] * q[j] < 0) => "halfturn" \in Kinds
            /\ Put("matrix", q, NoneGiven, WriteOrthMatrix(q))
       \/ Take("matrix", ReadOrthMatrix(readOffset))

Next ==
    \/ Send
    \/ SerializeBool \/ Serialize \/ SerializeDelta \/ SerializeDeltaFirst \/ SerializeDeltaBool \/ SerializeDeltaFirstBool
    \/ SerializeCompressed \/ SerializeCompressedDelta \/ SerializeCasted \/ SerializeBitsFromIntegerRange
    \/ SerializeUint24 \/ SerializeAddress \/ SerializeCompressedFloat \/ SerializeCompressedDouble
    \/ SerializeNormVector \/ SerializeVector \/ SerializeNormQuat \/ SerializeOrthMatrix

Spec == Init /\ [][Next]_vars

-----------------------------------------------------------------------------
(* Properties.                                                             *)

\* A fraction of the short's or long's range that is no more than one step below the value.
NearFloat(n, c, max) == (n + Unit) * max - 2 * Unit < c * 2 * Unit /\ c * 2 * Unit <= (n + Unit) * max
NearLength(a, c) == Magnitude(a) * ShortMax - Unit < Magnitude(c) * Unit /\ Magnitude(c) * Unit <= Magnitude(a) * ShortMax
NearPart(a, c) == NearLength(a, c) /\ (c # 0 => (a < 0) = (c < 0))
NearQuat(q, r) ==
    /\ \A i \in 1 .. 3 : NearPart(q[i + 1], r.xyz[i])
    /\ r.wNegative = (q[1] < 0)
    /\ Magnitude(r.wSquare * Unit ^ 2 - (q[1] * ShortMax) ^ 2) <= 2 * ShortMax * Unit * (Magnitude(q[2]) + Magnitude(q[3]) + Magnitude(q[4]))
Opposite(q) == [i \in 1 .. 4 |-> -q[i]]

\* The value that was read is the one that was written, as near as its size allows.
Near(f, value) ==
    CASE f.kind = "float" -> NearFloat(f.value, value, ShortMax)
      [] f.kind = "double" -> NearFloat(f.value, value, 2 ^ LongBits)
      [] f.kind = "normvector" -> \A i \in 1 .. 3 : NearFloat(f.value[i], value[i], ShortMax)
      [] f.kind = "vector" ->
            /\ Magnitude(value[1] - f.value[1]) <= 1
            /\ value[1] > Tiny => \A i \in 1 .. 3 : NearFloat(f.value[2][i], value[2][i], ShortMax)
      [] f.kind = "quat" -> NearQuat(f.value, value)
      [] f.kind = "matrix" -> NearQuat(f.value, value) \/ NearQuat(Opposite(f.value), value)
      [] OTHER -> value = f.value

\* Whatever is written, on a machine of whatever byte order, is what is read on another.
ReadsBack == \A k \in DOMAIN got : got[k].ok => Near(written[k], got[k].value)

\* The reader is where the writer was after the same calls.
InStep == got # <<>> /\ got[Len(got)].ok => readOffset = ends[Len(got)]

\* A read succeeds if and only if all the bits of its value arrived.
SucceedsIfThere == \A k \in DOMAIN got : got[k].ok = (ends[k] <= Len(bits))
===============================================================================
