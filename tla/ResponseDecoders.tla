--------------------------- MODULE ResponseDecoders ---------------------------
(***************************************************************************)
(* SlmpClient::completeAsync: how the body of a response becomes the       *)
(* values of the caller's arrays, or an error.                             *)
(*                                                                         *)
(* A body is [endCode, length, count, items, echo]: length bytes after the *)
(* end code.  count is the number its first two bytes make, where a        *)
(* decoder reads one; items the headers of the labels in it, [unit,        *)
(* length]; echo says whether a self test came back with its own data.     *)
(*                                                                         *)
(* A decoder yields [error, first, second, count]: the cells written to    *)
(* the first and to the second array of the caller, in the order of its    *)
(* indices, and the number reported to it.  A cell [at, size] says which   *)
(* half bytes of the body went there: a packed bit is half a byte.         *)
(***************************************************************************)
EXTENDS Integers, Sequences

HalfByte == 1
Byte == 2

NotReported == -1

Outcome(error, first, second, count) ==
    [error |-> error, first |-> first, second |-> second, count |-> count]
Failed(error) == Outcome(error, <<>>, <<>>, NotReported)
Values(first, second) == Outcome("Ok", first, second, NotReported)

Accept(condition, outcome) == IF condition THEN outcome ELSE Failed("ProtocolError")

Cell(at, size) == [at |-> at, size |-> size]

(* n cells of a size, the first at start, each stride after the one before *)
CellsFrom(start, n, size, stride) ==
    [k \in 1 .. n |-> Cell(start + (k - 1) * stride, size)]

Packed(start, n, size) == CellsFrom(start, n, size, size)
ByteCount(bits) == (bits + 1) \div 2

-----------------------------------------------------------------------------
TypeName(body) ==
    LET model == IF body.length < 16 THEN body.length ELSE 16 IN
    Values(Packed(0, model, Byte),
           IF body.length >= 18 THEN <<Cell(16 * Byte, 2 * Byte)>> ELSE <<>>)

(* Mistake: a body that is too short is decoded too. *)
WordsOfAnyLength(points, body) ==
    Accept(body.length <= 2 * points, Values(Packed(0, points, 2 * Byte), <<>>))

(* words, module buffer, link-direct and memory words *)
Words(points, body) ==
    Accept(body.length = 2 * points, Values(Packed(0, points, 2 * Byte), <<>>))

DWords(points, body) ==
    Accept(body.length = 4 * points, Values(Packed(0, points, 4 * Byte), <<>>))

Float32s(points, body) ==
    Accept(body.length = 4 * points, Values(Packed(0, points, 4 * Byte), <<>>))

(* Mistake: the second bit of the last byte is stored for an odd number too. *)
BitsInPairs(points, body) ==
    Accept(body.length >= ByteCount(points),
           Values(Packed(0, 2 * ByteCount(points), HalfByte), <<>>))

(* The high half of a byte is the bit with the lower number. A body may be  *)
(* longer than the bits it is asked for.                                    *)
Bits(points, body) ==
    Accept(body.length >= ByteCount(points), Values(Packed(0, points, HalfByte), <<>>))

ModuleOrLinkBits(points, body) ==
    Accept(body.length >= ByteCount(points), Values(Packed(0, points, HalfByte), <<>>))

(* Mistake: the double words are read from the start of the body. *)
RandomFromStart(words, dwords, body) ==
    Accept(body.length = 2 * words + 4 * dwords,
           Values(Packed(0, words, 2 * Byte), Packed(0, dwords, 4 * Byte)))

Random(words, dwords, body) ==
    Accept(body.length = 2 * words + 4 * dwords,
           Values(Packed(0, words, 2 * Byte),
                  Packed(words * 2 * Byte, dwords, 4 * Byte)))

(* extended random reads and monitor cycles *)
RandomExtOrMonitor(words, dwords, body) ==
    Accept(body.length = 2 * words + 4 * dwords,
           Values(Packed(0, words, 2 * Byte),
                  Packed(words * 2 * Byte, dwords, 4 * Byte)))

(* The points of all word blocks, then those of all bit blocks. *)
Block(wordPoints, bitPoints, body) ==
    Accept(body.length = 2 * (wordPoints + bitPoints),
           Values(Packed(0, wordPoints, 2 * Byte),
                  Packed(wordPoints * 2 * Byte, bitPoints, 2 * Byte)))

(* The size must agree with the body, with the request still in tx_buffer_, *)
(* and the data with the data sent.                                         *)
SelfTest(sent, capacity, body) ==
    IF \/ body.length < 2 \/ body.length # 2 + body.count
       \/ body.count # sent \/ ~body.echo
    THEN Failed("ProtocolError")
    ELSE IF capacity < body.count THEN Failed("InvalidArgument")
    ELSE Outcome("Ok", Packed(2 * Byte, body.count, Byte), <<>>, body.count)

(* Of the four words of a timer the last is not used. *)
TimerSpan == 8 * Byte
LongTimer(points, body) ==
    Accept(body.length >= 8 * points, Values(CellsFrom(0, points, 6 * Byte, TimerSpan), <<>>))

UnitBytes(length, body) ==
    Accept(body.length = length, Values(Packed(0, length, Byte), <<>>))

(* readExtendUnitWords: pairs of those bytes, in the same memory *)
UnitWords(length, body) ==
    Accept(body.length = 2 * length, Values(Packed(0, length, 2 * Byte), <<>>))

-----------------------------------------------------------------------------
(* Labels: a header of four bytes and the data, for each of the count the   *)
(* body claims. sizes are their data. What was decoded before an item       *)
(* that does not fit stays in the caller's array, and so does the header of *)
(* an item whose data does not: such a cell has size 0.                     *)
LabelsWithin(capacity, body, sizes) ==
    LET known(n) == n <= Len(sizes)
        upTo[n \in 0 .. body.count] ==
            IF n = 0 THEN [error |-> "Ok", offset |-> 2, cells |-> <<>>]
            ELSE LET before == upTo[n - 1]
                     data == before.offset + 4
                     end == data + (IF known(n) THEN sizes[n] ELSE 0)
                 IN IF before.error # "Ok" THEN before
                    ELSE IF data > body.length THEN [before EXCEPT !.error = "ProtocolError"]
                    ELSE IF end > body.length
                    THEN [before EXCEPT !.error = "ProtocolError",
                                        !.cells = Append(@, Cell(before.offset * Byte, 0))]
                    ELSE [error |-> "Ok", offset |-> end,
                          cells |-> Append(before.cells,
                                           Cell(data * Byte, (end - data) * Byte))]
        all == upTo[body.count]
    IN IF body.length < 2 THEN Failed("ProtocolError")
       ELSE IF body.count > capacity THEN Failed("BufferTooSmall")
       ELSE Outcome(all.error, all.cells, <<>>,
                    IF all.error = "Ok" THEN body.count ELSE NotReported)

ArrayData(items) ==
    [i \in DOMAIN items |->
        IF items[i].unit = 0 THEN 2 * items[i].length ELSE items[i].length]

ArrayLabels(capacity, body) == LabelsWithin(capacity, body, ArrayData(body.items))

RandomData(items) == [i \in DOMAIN items |-> items[i].length]

RandomLabels(capacity, body) == LabelsWithin(capacity, body, RandomData(body.items))

-----------------------------------------------------------------------------
(* Every other command is answered without data. *)
Nothing(body) == Accept(body.length = 0, Values(<<>>, <<>>))
=============================================================================
