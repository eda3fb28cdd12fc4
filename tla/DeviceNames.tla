------------------------------ MODULE DeviceNames ------------------------------
(***************************************************************************)
(* The address texts of the high-level facade (slmp_high_level.cpp): what  *)
(* "D100:U", "X1A:BIT" or "D50.3" stand for under a PLC profile.  A text   *)
(* is a record of its parts, a number the sequence of its digits, and a    *)
(* device code stands for every code the facade treats alike:              *)
(*   D   a word device (also SD, W, R, ZR, TN, ...)                        *)
(*   X   a bit device whose number is octal on the iQ-F                    *)
(*   M   a bit device that word units can read (also SM, L, F, V, B, SB)   *)
(*   TS  a bit device that they cannot (also S, DX, DY, CS, CC, ...)       *)
(*   G   a module buffer (also HG)                                         *)
(*   LTN, LTS, LTC   current value, contact and coil of a long timer       *)
(*                   (also of a long retentive timer)                      *)
(*   LCN, LCS        current value and contact (coil) of a long counter    *)
(*   LZ  a long index register                                             *)
(***************************************************************************)
EXTENDS Integers, Sequences

CONSTANTS
    WordBits,     \* 16
    NumberRange,  \* 2^32
    Octal,        \* 8, the base of X and Y on the iQ-F
    Decimal,      \* 10
    Hexadecimal   \* 16

ASSUME NameAssumption ==
    /\ WordBits \in Nat \ {0}
    /\ NumberRange \in Nat \ {0}
    /\ {Octal, Decimal, Hexadecimal} \subseteq Nat \ {0, 1}

(* The address profiles, by what they change: the iQ-F, the Q and L series, *)
(* and the others.  "none" is PlcProfile::Unspecified.                      *)
Profiles == {"iqf", "q", "iqr"}

WordCodes == {"D", "G", "LTN", "LCN", "LZ"}
BitCodes == {"X", "M", "TS", "LTS", "LTC", "LCS"}
Codes == WordCodes \cup BitCodes
LongTimerCodes == {"LTN", "LTS", "LTC"}
LongCounterCodes == {"LCN", "LCS"}

Types == {"BIT", "U", "S", "D", "L", "F"}
Bits == 0 .. WordBits - 1

(* kDeviceMetas *)
bit_unit(code) == code \in BitCodes
batchable_word(code) == code \in WordCodes \ {"G"}

(* isDeviceUnsupportedForPlcProfile *)
isDeviceUnsupported(code, p) ==
    \/ p = "iqf" /\ code \in LongTimerCodes
    \/ p = "q" /\ code \in LongTimerCodes \cup LongCounterCodes \cup {"LZ"}

(* effectiveDeviceRadix *)
effectiveDeviceRadix(code, p) ==
    IF code # "X" THEN Decimal ELSE IF p = "iqf" THEN Octal ELSE Hexadecimal

(* The width of a type, valueTypeUsesDword. *)
valueTypeUsesDword(type) == type \in {"D", "L", "F"}
WidthOf(type) == CASE type = "BIT" -> 1
                   [] valueTypeUsesDword(type) -> 2 * WordBits
                   [] OTHER -> WordBits

-----------------------------------------------------------------------------
(* A text: "D50.3" has type "dot" and bit 3, "D100:U" type "U" and bit -1;  *)
(* a text without a suffix, which is refused, has type "none".               *)
Text == [code : Codes, digits : Seq(Nat), type : Types \cup {"dot", "none"}, bit : Int]

AddressSpec == [code : Codes, number : Nat, type : Types, bit : Int]
Device == [code : Codes, number : Nat]

(* parseUnsignedNumber: the value wraps like the uint32_t it is kept in. *)
NumberOf(digits, radix) ==
    LET upTo[n \in 0 .. Len(digits)] ==
            IF n = 0 THEN 0 ELSE (upTo[n - 1] * radix + digits[n]) % NumberRange
    IN upTo[Len(digits)]

DigitsValid(digits, radix) ==
    digits # <<>> /\ \A i \in DOMAIN digits : digits[i] < radix

(* appendUnsignedText *)
DigitsOf(number, radix) ==
    LET text[n \in 0 .. number] ==
            IF n < radix THEN <<n>> ELSE Append(text[n \div radix], n % radix)
    IN text[number]

(* parseDeviceOnly *)
parseDeviceOnly(text, p) ==
    IF isDeviceUnsupported(text.code, p) THEN "UnsupportedDevice"
    ELSE IF ~DigitsValid(text.digits, effectiveDeviceRadix(text.code, p)) THEN "InvalidArgument"
    ELSE "Ok"

NumberIn(text, p) == NumberOf(text.digits, effectiveDeviceRadix(text.code, p))

(* getLongReadAccess *)
HasLongReadAccess(code) == code \in LongTimerCodes \cup LongCounterCodes

(* normalizeRequestedType, validateLongReadType *)
TypeFits(code, type) ==
    /\ bit_unit(code) <=> type = "BIT"
    /\ code \in {"LTN", "LCN"} => type \in {"D", "L"}

(* parseAddressSpecImpl: whether a text is accepted. *)
parseAddressSpec(text, p) ==
    IF text.type = "none" THEN "InvalidArgument"
    ELSE IF parseDeviceOnly(text, p) # "Ok" THEN parseDeviceOnly(text, p)
    ELSE IF text.type = "dot"
    THEN IF bit_unit(text.code) \/ text.bit \notin Bits THEN "InvalidArgument" ELSE "Ok"
    ELSE IF TypeFits(text.code, text.type) THEN "Ok" ELSE "InvalidArgument"

(* ... and the AddressSpec it becomes. *)
SpecOf(text, p) ==
    [code |-> text.code, number |-> NumberIn(text, p),
     type |-> IF text.type = "dot" THEN "BIT" ELSE text.type, bit |-> text.bit]

(* Mistake: the number is written in the base the table has for the device. *)
NormalByTable(text, p) ==
    [text EXCEPT !.digits =
        DigitsOf(NumberIn(text, p), IF text.code = "X" THEN Hexadecimal ELSE Decimal)]

(* normalizeAddress: parse, then formatAddressSpecImpl. *)
normalizeAddress(text, p) ==
    [text EXCEPT !.digits =
        DigitsOf(NumberIn(text, p), effectiveDeviceRadix(text.code, p))]

-----------------------------------------------------------------------------
(* The PLC's memory by the bit.  A cell is a bit of a device: a word device *)
(* has WordBits of them, a long one twice as many, a bit device one.        *)
IsLong(code) == code \in {"LTN", "LCN", "LZ"}

Cell(code, number, bit) == <<code, number, bit>>
BitCells(dev) == <<Cell(dev.code, dev.number, 0)>>

(* What a word unit at a device covers: the word, or the next WordBits bit  *)
(* devices.                                                                 *)
WordCells(dev) ==
    [i \in 1 .. WordBits |-> IF bit_unit(dev.code)
                             THEN Cell(dev.code, dev.number + i - 1, 0)
                             ELSE Cell(dev.code, dev.number, i - 1)]

(* A double-word unit: a long device, or two words in little-endian order. *)
DwordCells(dev) ==
    IF IsLong(dev.code)
    THEN [i \in 1 .. 2 * WordBits |-> Cell(dev.code, dev.number, i - 1)]
    ELSE WordCells(dev) \o WordCells([dev EXCEPT !.number = @ + 1])

(* What an accepted text means (slmp_high_level.h, parseAddressSpec): the   *)
(* cells of the value it names, the lowest bit first.                       *)
Denotes(text, p) ==
    LET dev == [code |-> text.code, number |-> NumberIn(text, p)] IN
    CASE text.type = "dot" -> <<Cell(dev.code, dev.number, text.bit)>>
      [] text.type = "BIT" -> BitCells(dev)
      [] valueTypeUsesDword(text.type) -> DwordCells(dev)
      [] OTHER -> WordCells(dev)

(* Memory is the set of the cells that are 1. *)
Sample(mem, cells) == [i \in DOMAIN cells |-> cells[i] \in mem]

(* Several values are stored at a time, each in cells of its own. *)
Store(mem, cells, bits) ==
    {c \in mem : \A i \in DOMAIN cells : \A j \in DOMAIN cells[i] : cells[i][j] # c}
        \cup UNION {{cells[i][j] : j \in {k \in DOMAIN cells[i] : bits[i][k]}} : i \in DOMAIN cells}

=============================================================================
