----------------------------- MODULE ScValProofs -----------------------------
(***************************************************************************)
(* What encoding and decoding preserve, for every word size.               *)
(***************************************************************************)
EXTENDS ScVal, TLAPS

LEMMA DivMod ==
    ASSUME NEW u \in Nat, NEW w \in Nat \ {0}
    PROVE  /\ u \div w \in Nat /\ u % w \in 0 .. w - 1
           /\ u = ((u \div w) * w) + (u % w)
BY SMT

\* A word holds twice as many values as an int64 has that are not negative.
LEMMA HalfWord ==
    /\ Word \div 2 \in Nat \ {0} /\ Word = 2 * (Word \div 2)
    /\ Modulus \div 2 = (Word \div 2) * Word
<1> DEFINE h == Word \div 2
<1>1. h \in Nat \ {0} /\ Word = 2 * h
  BY WordAssumption
<1> HIDE DEF h
<1>2. Modulus = 2 * (h * Word) /\ h * Word \in Nat
  BY <1>1 DEF Modulus
<1>3. Modulus \div 2 = h * Word
  BY <1>2
<1> QED
  BY <1>1, <1>3 DEF h

LEMMA SignedRoundTrip ==
    ASSUME NEW q \in 0 .. Word - 1
    PROVE  Unsigned(Signed(q)) = q /\ (Signed(q) >= 0 <=> q < Word \div 2)
BY HalfWord, WordAssumption DEF Signed, Unsigned

\* The high word of a number tells on which side of a multiple of Word it is.
LEMMA HighWord ==
    ASSUME NEW u \in Nat, NEW n \in Nat, NEW w \in Nat \ {0}
    PROVE  u \div w < n <=> u < n * w
<1> DEFINE q == u \div w
           r == u % w
<1>1. q \in Nat /\ r \in 0 .. w - 1 /\ u = (q * w) + r
  BY DivMod
<1> HIDE DEF q, r
<1>2. CASE q < n
  <2>1. q + 1 <= n
    BY <1>1, <1>2
  <2>2. (q + 1) * w <= n * w
    BY <1>1, <2>1
  <2> QED
    BY <1>1, <1>2, <2>2
<1>3. CASE n <= q
  <2>1. n * w <= q * w
    BY <1>1, <1>3
  <2> QED
    BY <1>1, <1>3, <2>1
<1> QED
  BY <1>1, <1>2, <1>3 DEF q

\* The two words of an amount; the high one tells its sign.
LEMMA WordsOf ==
    ASSUME NEW v \in I128
    PROVE  LET u == IF v < 0 THEN Modulus + v ELSE v
               h == Word \div 2
           IN  /\ u \in Nat /\ u = ((u \div Word) * Word) + (u % Word)
               /\ u \div Word \in 0 .. Word - 1 /\ u % Word \in 0 .. Word - 1
               /\ u \div Word < h <=> v >= 0
<1> DEFINE u == IF v < 0 THEN Modulus + v ELSE v
           h == Word \div 2
<1>1. /\ h \in Nat \ {0} /\ Word = 2 * h /\ Word \in Nat \ {0}
      /\ h * Word \in Nat /\ Modulus = Word * Word /\ Modulus = 2 * (h * Word)
      /\ v \in -(h * Word) .. (h * Word) - 1
  BY HalfWord, WordAssumption DEF I128, Modulus
<1>2. u \in Nat /\ u < Word * Word /\ (u < h * Word <=> v >= 0)
  BY <1>1
<1> HIDE DEF h, u
<1>3. u \div Word \in Nat /\ u \div Word < Word /\ (u \div Word < h <=> v >= 0)
  BY <1>1, <1>2, HighWord, DivMod
<1>4. u = ((u \div Word) * Word) + (u % Word) /\ u % Word \in 0 .. Word - 1
  BY <1>1, <1>2, DivMod
<1>5. u \div Word \in 0 .. Word - 1
  BY <1>1, <1>3
<1> QED
  BY <1>2, <1>3, <1>4, <1>5 DEF h, u

\* What is encoded fits the words it is encoded in.
LEMMA I128Fits ==
    ASSUME NEW v \in I128
    PROVE  /\ ScvI128(v).hi \in -(Word \div 2) .. Word \div 2 - 1
           /\ ScvI128(v).lo \in 0 .. Word - 1
<1> DEFINE u == IF v < 0 THEN Modulus + v ELSE v
           q == u \div Word
<1>1. ScvI128(v).hi = Signed(q) /\ ScvI128(v).lo = u % Word
  BY DEF ScvI128
<1>2. q \in 0 .. Word - 1 /\ u % Word \in 0 .. Word - 1
  BY WordsOf
<1> HIDE DEF q, u
<1>3. Signed(q) \in -(Word \div 2) .. Word \div 2 - 1
  BY <1>2, HalfWord, WordAssumption DEF Signed
<1> QED
  BY <1>1, <1>2, <1>3

\* xdr.go:216-217, "reversing ScvI128's two's-complement Hi/Lo encoding": an
\* amount that ScvI128 takes comes back as it was, whatever its sign.
THEOREM I128RoundTrip == \A v \in I128 : DecodeI128(ScvI128(v)) = v
<1> SUFFICES ASSUME NEW v \in I128 PROVE DecodeI128(ScvI128(v)) = v
  OBVIOUS
<1> DEFINE u == IF v < 0 THEN Modulus + v ELSE v
           q == u \div Word
           r == u % Word
           h == Word \div 2
<1>1. ScvI128(v) = [type |-> "i128", hi |-> Signed(q), lo |-> r]
  BY DEF ScvI128
<1>2. u \in Nat /\ u = (q * Word) + r /\ q \in 0 .. Word - 1 /\ (q < h <=> v >= 0)
  BY WordsOf
<1> HIDE DEF q, r, h, u
<1>3. Unsigned(Signed(q)) = q /\ (Signed(q) >= 0 <=> v >= 0)
  BY <1>2, SignedRoundTrip DEF h
<1>4. DecodeI128(ScvI128(v)) = IF v >= 0 THEN u ELSE u - Modulus
  BY <1>1, <1>2, <1>3 DEF DecodeI128
<1>5. v \in Int /\ Modulus \in Int
  BY HalfWord, WordAssumption DEF I128, Modulus
<1> QED
  BY <1>4, <1>5 DEF u

=============================================================================
