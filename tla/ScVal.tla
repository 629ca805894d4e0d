--------------------------------- MODULE ScVal ---------------------------------
(***************************************************************************)
(* internal/stellar/xdr.go: the contract values that arguments are encoded *)
(* to and results, statements and events decoded from.  A value is a       *)
(* record tagged with its type.  An i128 is two words, the high one signed *)
(* and the low one not, of 64 bits each in the code and of any even size   *)
(* here.                                                                   *)
(***************************************************************************)
EXTENDS Integers, Sequences

CONSTANTS
    Word,     \* 2^64: how many values a word has
    None      \* Go's nil

ASSUME WordAssumption == Word \in Nat \ {0} /\ Word % 2 = 0

Modulus == Word * Word

I128 == -(Modulus \div 2) .. Modulus \div 2 - 1

\* Bug: the high word is kept as it is.
SignedNot(u) == u

\* The conversions between uint64 and int64.
Signed(u) == IF u < Word \div 2 THEN u ELSE u - Word
Unsigned(i) == IF i >= 0 THEN i ELSE i + Word

\* Bug: the high word keeps the bits of a magnitude, not of a complement.
ScvI128Magnitude(v) ==
    [type |-> "i128", hi |-> Signed((IF v < 0 THEN -v ELSE v) \div Word),
     lo |-> (IF v < 0 THEN -v ELSE v) % Word]

\* For v \in I128: two's complement, cut in two words.
ScvI128(v) ==
    LET unsigned == IF v < 0 THEN Modulus + v ELSE v
    IN  [type |-> "i128", hi |-> Signed(unsigned \div Word), lo |-> unsigned % Word]

\* Bug: the sign is looked for in the low word.
DecodeI128LowSign(s) ==
    LET unsigned == Unsigned(s.hi) * Word + s.lo
    IN  IF s.lo < Word \div 2 THEN unsigned ELSE unsigned - Modulus

DecodeI128(s) ==
    LET unsigned == Unsigned(s.hi) * Word + s.lo
    IN  IF s.hi >= 0 THEN unsigned ELSE unsigned - Modulus

ScvAddress(a) == [type |-> "address", value |-> a]
ScvBytes(b) == [type |-> "bytes", value |-> b]
ScvU32(n) == [type |-> "u32", value |-> n]
ScvU64(n) == [type |-> "u64", value |-> n]
ScvString(s) == [type |-> "string", value |-> s]
ScvSymbol(s) == [type |-> "symbol", value |-> s]
ScvVec(items) == [type |-> "vec", value |-> items]
ScvVoid == [type |-> "void"]

\* The decoders of addresses, bytes, integers, strings, symbols and vectors, of a value of
\* their type; the contracts' values have the types their bindings expect.
Decode(s) == s.value

\* A unit enum is a vector of one symbol.
scvProtocol(p) == ScvVec(<<ScvSymbol(p)>>)
decodeUnitEnumVariant(s) == Decode(Decode(s)[1])

\* Rust's Option: Void stands for nil.
scvOptionalAddress(a) == IF a = None THEN ScvVoid ELSE ScvAddress(a)
decodeOptional(s) == IF s.type = "void" THEN None ELSE Decode(s)

=============================================================================
