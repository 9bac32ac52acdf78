---------------------------- MODULE SearchCodec ----------------------------
(***************************************************************************)
(* The byte codec of the search index (src/search/codec.rs): ascending     *)
(* lists of rows and positions are kept as differences, full blocks        *)
(* bit-packed at the width of their largest difference and the rest as     *)
(* variable-length integers.  A byte has ByteBits bits, so that a small    *)
(* list already fills several bytes.  And coalesce_ranges                  *)
(* (src/query/search.rs), which reads neighbouring ranges of an object     *)
(* with one request and cuts each one out of the answer.                   *)
(***************************************************************************)
EXTENDS Integers, Sequences, FiniteSets, SequencesExt

CONSTANTS
    BlockLen,       \* BLOCK_LEN
    ByteBits,       \* bits of a byte
    CoalesceGap,    \* COALESCE_GAP_BYTES
    CoalesceMax     \* COALESCE_MAX_BYTES

ASSUME CodecAssumption ==
    /\ BlockLen \in Nat \ {0} /\ ByteBits \in Nat \ {0, 1}
    /\ CoalesceGap \in Nat /\ CoalesceMax \in Nat

Atleast0(n) == IF n < 0 THEN 0 ELSE n

CeilDiv(a, b) == (a + b - 1) \div b

SumSeq(s) ==
    LET sum[i \in 0..Len(s)] == IF i = 0 THEN 0 ELSE sum[i - 1] + s[i]
    IN  sum[Len(s)]

\* The members of S in the order given by Lt.
Sorted(S, Lt(_, _)) ==
    [i \in 1..Cardinality(S) |-> CHOOSE x \in S : Cardinality({y \in S : Lt(y, x)}) = i - 1]

\* The low n digits of a number, least significant first.
Digits(number, base, n) == [i \in 1..n |-> (number \div base^(i - 1)) % base]

FromDigits(s, base) == SumSeq([i \in DOMAIN s |-> s[i] * base^(i - 1)])

\* What reading past the end of the bytes finds; the reader's offset shows it.
ByteAt(bytes, i) == IF i \in DOMAIN bytes THEN bytes[i] ELSE 0

----------------------------------------------------------------------------
\* put_vint, read_vint: all bytes but the last have the high bit set.
HighBit == 2^(ByteBits - 1)

PutDigits(d) == [i \in DOMAIN d |-> IF i < Len(d) THEN d[i] + HighBit ELSE d[i]]

PutVint(value) ==
    PutDigits(Digits(value, HighBit,
                     CHOOSE k \in 1..(value + 1) :
                       value < HighBit^k /\ (k = 1 \/ value >= HighBit^(k - 1))))

\* The number of bytes of the integer that starts at a byte.
VintLen(bytes, at) ==
    CHOOSE k \in 1..(Len(bytes) + 1) :
      /\ ByteAt(bytes, at + k - 1) < HighBit
      /\ \A j \in 1..(k - 1) : ByteAt(bytes, at + j - 1) >= HighBit

ReadDigits(bytes, at, n) ==
    [value |-> FromDigits([i \in 1..n |-> ByteAt(bytes, at + i - 1) % HighBit], HighBit),
     at |-> at + n]

ReadVint(bytes, at) == ReadDigits(bytes, at, VintLen(bytes, at))

----------------------------------------------------------------------------
\* bit_width, pack_bits, unpack_bits, packed_len.
BitWidth(max) == CHOOSE w \in 0..(max + 1) : max < 2^w /\ (w = 0 \/ max >= 2^(w - 1))

\* Variant: a partial last byte is not written.
PackedLenFloor(count, width) == (count * width) \div ByteBits

PackedLen(count, width) == CeilDiv(count * width, ByteBits)

PackBits(block, width) ==
    Digits(FromDigits(block, 2^width), 2^ByteBits, PackedLen(Len(block), width))

UnpackBits(packed, count, width) == Digits(FromDigits(packed, 2^ByteBits), 2^width, count)

----------------------------------------------------------------------------
\* encode_u32_list, decode_u32_list.

Deltas(values) ==
    [i \in DOMAIN values |-> IF i = 1 THEN values[1] ELSE Atleast0(values[i] - values[i - 1])]

LargestOf(s) == CHOOSE m \in ToSet(s) : \A n \in ToSet(s) : n <= m

EncodeBlock(block, width) == <<width>> \o PackBits(block, width)

\* The full blocks, then the rest one by one.
Pieces(count) == (count \div BlockLen) + (count % BlockLen)

EncodeDeltas(deltas) ==
    LET full == Len(deltas) \div BlockLen
        Block(b) == SubSeq(deltas, (b - 1) * BlockLen + 1, b * BlockLen)
    IN  FlattenSeq([n \in 1..Pieces(Len(deltas)) |->
                      IF n <= full THEN EncodeBlock(Block(n), BitWidth(LargestOf(Block(n))))
                      ELSE PutVint(deltas[full * (BlockLen - 1) + n])])

EncodeU32List(values) == EncodeDeltas(Deltas(values))

\* read_u32_list: the reader stands at start; values and where it stands afterwards.
ReadBlock(bytes, r, width) ==
    [deltas |-> r.deltas \o UnpackBits([i \in 1..PackedLen(BlockLen, width) |-> ByteAt(bytes, r.at + i)],
                                       BlockLen, width),
     at |-> r.at + 1 + PackedLen(BlockLen, width)]

ReadOne(r, vint) == [deltas |-> Append(r.deltas, vint.value), at |-> vint.at]

ReadNext(bytes, r, isBlock) ==
    IF isBlock THEN ReadBlock(bytes, r, ByteAt(bytes, r.at)) ELSE ReadOne(r, ReadVint(bytes, r.at))

RunningSums(r) ==
    [values |-> [i \in DOMAIN r.deltas |-> SumSeq(SubSeq(r.deltas, 1, i))], at |-> r.at]

ReadU32List(bytes, start, count) ==
    LET read[n \in 0..Pieces(count)] ==
          IF n = 0 THEN [deltas |-> <<>>, at |-> start] ELSE ReadNext(bytes, read[n - 1], n <= count \div BlockLen)
    IN  RunningSums(read[Pieces(count)])

\* Bytes that do not end where the list ends decode to nothing.
DecodeU32List(bytes, count) ==
    {r.values : r \in {l \in {ReadU32List(bytes, 1, count)} : l.at = Len(bytes) + 1}}

\* encode_positions, decode_positions: per row, the count and the list.
EncodePositions(rows, positionsOf) ==
    FlattenSeq([i \in DOMAIN rows |->
                  PutVint(Len(positionsOf[rows[i]])) \o EncodeU32List(positionsOf[rows[i]])])

AddList(r, list) == [lists |-> Append(r.lists, list.values), at |-> list.at]

ReadCounted(bytes, count) == ReadU32List(bytes, count.at, count.value)

AddRow(bytes, r) == AddList(r, ReadCounted(bytes, ReadVint(bytes, r.at)))

DecodePositions(bytes, rows) ==
    LET read[n \in 0..Len(rows)] ==
          IF n = 0 THEN [lists |-> <<>>, at |-> 1]
          ELSE AddRow(bytes, read[n - 1])
    IN  {r.lists : r \in {l \in {read[Len(rows)]} : l.at = Len(bytes) + 1}}

----------------------------------------------------------------------------
\* Ranges [start, end) of an object, from 0.

RangeOf(start, len) == [start |-> start, end |-> start + len]

Slice(file, r) == SubSeq(file, r.start + 1, r.end)

EarlierRange(a, b) == a.start < b.start \/ (a.start = b.start /\ a.end < b.end)

\* coalesce_ranges: in order of their start, a range joins the last request if the
\* gap is small and the request stays small.  plan[i] is the request ranges[i] is in.
InOrder(ranges) ==
    Sorted(DOMAIN ranges, LAMBDA i, j : \/ EarlierRange(ranges[i], ranges[j])
                                        \/ ranges[i] = ranges[j] /\ i < j)

JoinRange(c, i, r, n) ==
    IF n > 0 /\ r.start <= c.requests[n].end + CoalesceGap
             /\ Atleast0(r.end - c.requests[n].start) <= CoalesceMax
    THEN [requests |-> [c.requests EXCEPT ![n].end = IF r.end > @ THEN r.end ELSE @],
          plan |-> [c.plan EXCEPT ![i] = n]]
    ELSE [requests |-> Append(c.requests, r), plan |-> [c.plan EXCEPT ![i] = n + 1]]

CoalesceRanges(ranges) ==
    FoldLeft(LAMBDA c, i : JoinRange(c, i, ranges[i], Len(c.requests)),
             [requests |-> <<>>, plan |-> [i \in DOMAIN ranges |-> 0]], InOrder(ranges))

\* read_ranges: what the object store returns for the requests, cut up again.
CutOut(file, range, request) ==
    Slice(Slice(file, request),
          [start |-> range.start - request.start, end |-> range.end - request.start])

ReadPlanned(file, ranges, c) ==
    [i \in DOMAIN ranges |-> CutOut(file, ranges[i], c.requests[c.plan[i]])]

ReadRanges(file, ranges) == ReadPlanned(file, ranges, CoalesceRanges(ranges))
============================================================================
