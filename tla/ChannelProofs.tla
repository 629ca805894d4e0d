----------------------------- MODULE ChannelProofs -----------------------------
(***************************************************************************)
(* That custody's verdicts are true, that a channel pays the highest       *)
(* amount settled and never more, that a valid commitment can be settled   *)
(* until the deadline, and that the events tell what the getters do, for   *)
(* every number of channels, commitments, calls and ledgers and every word *)
(* size.                                                                   *)
(***************************************************************************)
EXTENDS Channel, ScValProofs, SequenceTheorems, FiniteSetTheorems

\* What the transaction of a call says of what the caller asked for.
Encodes(t, w) ==
    /\ t.fn = w.fn /\ t.channel = w.channel /\ t.signer = w.signer
    /\ w.fn \in {"top_up", "settle", "close"} =>
          w.amount \in I128 /\ t.args[1] = ScvI128(w.amount)
    /\ w.fn \in {"settle", "close"} =>
          \E sig \in Commitments : t.args[2] = ScvBytes(sig)

CallInv ==
    /\ DOMAIN tx = Call /\ DOMAIN want = Call
    /\ \A c \in Call :
          /\ pc[c] = "idle" => tx[c] = NoTx /\ fate[c] = "none" /\ out[c] = "none"
          /\ pc[c] = "send" => tx[c] # NoTx /\ fate[c] = "none"
          /\ fate[c] # "none" => tx[c] # NoTx
          /\ tx[c] # NoTx => want[c] \in Want[c] /\ Encodes(tx[c], want[c])
          /\ out[c] = "success" => fate[c] = "done"

\* A sequence of something, that begins with the Open event.
EventsInv ==
    /\ DOMAIN events = ChannelId
    /\ \A ch \in ChannelId :
          /\ \E S : events[ch] \in Seq(S)
          /\ Len(events[ch]) >= 1 /\ events[ch][1] = Opened(Terms[ch])

Announced(ch) ==
    \E i \in 1 .. Len(events[ch]) : events[ch][i] = Emitted("close", <<ScvU32(effective[ch])>>)

PastDeadline(ch) ==
    \E i \in 1 .. Len(events[ch]), l \in 0 .. ledger :
        events[ch][i] = Emitted("close", <<ScvU32(l)>>)

\* What is deposited and not withdrawn is there until a deadline has passed.
FundsInv ==
    \A ch \in ChannelId :
        /\ balance[ch] <= deposited[ch] - withdrawn[ch]
        /\ effective[ch] # None => Announced(ch)
        /\ balance[ch] = deposited[ch] - withdrawn[ch] \/ PastDeadline(ch)

Agreed(ch, amount) ==
    [channel |-> ch, network |-> Network, amount |-> amount, key |-> Terms[ch].key]

Settles(ch) == Executed(ch, {"settle", "close"})

PaidInv ==
    \A ch \in ChannelId :
        /\ withdrawn[ch] = 0 \/ \E c \in Settles(ch) : want[c].amount = withdrawn[ch]
        /\ \A c \in Settles(ch) :
              want[c].amount <= withdrawn[ch] /\ Agreed(ch, want[c].amount) \in Commitments

In(s, topic) == {i \in DOMAIN s : s[i].topic = topic}

WithdrawalsIn(s) == [i \in In(s, "withdraw") |-> DecodeChannelWithdrawEvent(s[i].fields)]
RefundsIn(s) == [i \in In(s, "refund") |-> DecodeChannelRefundEvent(s[i].fields)]

\* s tells that paid was withdrawn and back refunded, to the parties of terms.
Tells(s, terms, paid, back) ==
    /\ \A i \in In(s, "withdraw") :
          WithdrawalsIn(s)[i].to = terms.to /\ WithdrawalsIn(s)[i].amount \in Int
    /\ \A i \in In(s, "refund") :
          RefundsIn(s)[i].from = terms.from /\ RefundsIn(s)[i].amount \in Int
    /\ Total(WithdrawalsIn(s)) = paid
    /\ Total(RefundsIn(s)) = back

\* The events tell the money that has left the channel.
ToldInv ==
    \A ch \in ChannelId :
        Tells(events[ch], Terms[ch], withdrawn[ch], deposited[ch] - withdrawn[ch] - balance[ch])

TopUps(ch) == Executed(ch, {"top_up"})

\* A part of what was told.
Only(told, S) == [x \in S |-> told[x]]

\* What was deposited since the channel was opened is what one call of each
\* executed top-up asked for.
TopUpsInv ==
    \A ch \in ChannelId : \E T \in SUBSET TopUps(ch) :
        /\ IsFiniteSet(T)
        /\ {tx[c] : c \in T} = {tx[c] : c \in TopUps(ch)}
        /\ deposited[ch] - Terms[ch].amount = Total(Only(want, T))

IInv ==
    /\ TypeOK /\ CallInv /\ EventsInv /\ FundsInv /\ PaidInv /\ VerdictsAreTrue
    /\ ToldInv /\ TopUpsInv

-----------------------------------------------------------------------------
(* Totals.                                                                 *)

\* What holds of 0 and is kept by the successor holds of every number.
LEMMA Successors ==
    ASSUME NEW S, 0 \in S, \A n \in Nat : n \in S => n + 1 \in S
    PROVE  Nat \subseteq S
<1> DEFINE R == {p \in Nat \X Nat : p[1] < p[2]}
           Rest == {n \in Nat : n \notin S}
<1>1. IsWellFoundedOn(R, Nat)
  BY NatLessThanWellFounded DEF OpToRel
<1> HIDE DEF R
<1> SUFFICES ASSUME Rest # {} PROVE FALSE
  OBVIOUS
<1>2. PICK n \in Rest : \A m \in Rest : ~ (<<m, n>> \in R)
  BY <1>1, WFMin
<1>3. n \in Nat \ {0} /\ n - 1 \in Nat /\ n - 1 < n
  OBVIOUS
<1>4. n - 1 \notin Rest
  BY <1>2, <1>3 DEF R
<1> QED
  BY <1>3, <1>4

\* f gives every subset of D its total, taking away one element at a time.
TotalsThrough(f, told, D) ==
    f = [S \in SUBSET D |->
            IF S = {} THEN 0
            ELSE told[CHOOSE x \in S : TRUE].amount + f[S \ {CHOOSE x \in S : TRUE}]]

LEMMA ElementLess ==
    ASSUME NEW S, IsFiniteSet(S), NEW n \in Nat, Cardinality(S) = n + 1, NEW x \in S
    PROVE  IsFiniteSet(S \ {x}) /\ Cardinality(S \ {x}) = n
BY FS_RemoveElement

\* The function that MapThenSumSet picks exists: it is built up one size of
\* subsets at a time.
LEMMA TotalsAreDefined ==
    ASSUME NEW told, NEW D, IsFiniteSet(D)
    PROVE  \E f : TotalsThrough(f, told, D)
<1> DEFINE First(S) == CHOOSE x \in S : TRUE
           Good(f, n) ==
               \A S \in SUBSET D : Cardinality(S) <= n =>
                   f[S] = IF S = {} THEN 0 ELSE told[First(S)].amount + f[S \ {First(S)}]
           A == {n \in Nat : \E f : Good(f, n)}
<1>1. \A S \in SUBSET D : /\ IsFiniteSet(S) /\ Cardinality(S) \in Nat
                          /\ Cardinality(S) = 0 <=> S = {}
                          /\ Cardinality(S) <= Cardinality(D)
  BY FS_Subset, FS_CardinalityType, FS_EmptySet
<1>2. \A S \in SUBSET D : S # {} => First(S) \in S
  OBVIOUS
<1> HIDE DEF First
<1>3. 0 \in A
  <2> DEFINE f == [S \in SUBSET D |-> 0]
  <2>1. Good(f, 0)
    BY <1>1
  <2> QED
    BY <2>1
<1>4. ASSUME NEW n \in Nat, NEW f, Good(f, n) PROVE \E g : Good(g, n + 1)
  <2> DEFINE g == [S \in SUBSET D |->
                     IF Cardinality(S) = n + 1 THEN told[First(S)].amount + f[S \ {First(S)}]
                     ELSE f[S]]
  <2>1. ASSUME NEW S \in SUBSET D, Cardinality(S) <= n + 1
        PROVE  g[S] = IF S = {} THEN 0 ELSE told[First(S)].amount + g[S \ {First(S)}]
    <3>1. CASE S = {}
      <4>1. Cardinality(S) = 0 /\ Cardinality(S) <= n
        BY <1>1, <3>1
      <4>2. g[S] = f[S]
        BY <4>1
      <4>3. f[S] = 0
        BY <1>4, <3>1, <4>1
      <4> QED
        BY <3>1, <4>2, <4>3
    <3>2. CASE S # {}
      <4>1. /\ S \ {First(S)} \in SUBSET D
            /\ Cardinality(S \ {First(S)}) = Cardinality(S) - 1
        BY <1>1, <1>2, <3>2, FS_RemoveElement
      <4>2. Cardinality(S \ {First(S)}) # n + 1
        BY <1>1, <2>1, <4>1
      <4>3. g[S \ {First(S)}] = f[S \ {First(S)}]
        BY <4>1, <4>2
      <4>4. CASE Cardinality(S) = n + 1
        BY <3>2, <4>3, <4>4
      <4>5. CASE Cardinality(S) # n + 1
        <5>1. Cardinality(S) <= n /\ g[S] = f[S]
          BY <1>1, <2>1, <4>5
        <5>2. f[S] = told[First(S)].amount + f[S \ {First(S)}]
          BY <1>4, <3>2, <5>1
        <5> QED
          BY <3>2, <4>3, <5>1, <5>2
      <4> QED
        BY <4>4, <4>5
    <3> QED
      BY <3>1, <3>2
  <2> HIDE DEF g
  <2>2. Good(g, n + 1)
    BY <2>1
  <2> QED
    BY <2>2
<1>5. \A n \in Nat : n \in A => n + 1 \in A
  <2> HIDE DEF Good
  <2> QED
    BY <1>4
<1>6. Cardinality(D) \in A
  <2> HIDE DEF A
  <2>1. Cardinality(D) \in Nat
    BY FS_CardinalityType
  <2> QED
    BY <1>3, <1>5, <2>1, Successors
<1>7. PICK f : Good(f, Cardinality(D))
  BY <1>6
<1> DEFINE g == [S \in SUBSET D |-> f[S]]
<1>8. ASSUME NEW S \in SUBSET D
      PROVE  g[S] = IF S = {} THEN 0 ELSE told[First(S)].amount + g[S \ {First(S)}]
  <2>1. S \ {First(S)} \in SUBSET D
    OBVIOUS
  <2>2. f[S] = IF S = {} THEN 0 ELSE told[First(S)].amount + f[S \ {First(S)}]
    BY <1>1, <1>7
  <2> QED
    BY <2>1, <2>2
<1>9. TotalsThrough(g, told, D)
  <2>1. g = [S \in SUBSET D |-> g[S]]
    OBVIOUS
  <2> HIDE DEF g
  <2> QED
    BY <1>8, <2>1 DEF TotalsThrough, First
<1> QED
  BY <1>9

\* Total, as the function of subsets that it picks.
LEMMA TotalIs ==
    ASSUME NEW told, IsFiniteSet(DOMAIN told)
    PROVE  \E f : TotalsThrough(f, told, DOMAIN told) /\ Total(told) = f[DOMAIN told]
<1> DEFINE f == CHOOSE g : TotalsThrough(g, told, DOMAIN told)
<1>1. Total(told) = f[DOMAIN told]
  BY DEF Total, MapThenSumSet, MapThenFoldSet, TotalsThrough
<1>2. TotalsThrough(f, told, DOMAIN told)
  BY TotalsAreDefined
<1> QED
  BY <1>1, <1>2

\* The totals of the subsets are the totals of the parts.
LEMMA TotalOfPart ==
    ASSUME NEW told, NEW D, IsFiniteSet(D), NEW f, TotalsThrough(f, told, D), NEW T \in SUBSET D
    PROVE  Total(Only(told, T)) = f[T]
<1> DEFINE First(S) == CHOOSE x \in S : TRUE
           part == Only(told, T)
<1>1. DOMAIN part = T /\ IsFiniteSet(T) /\ \A x \in T : part[x] = told[x]
  BY FS_Subset DEF Only
<1> HIDE DEF part
<1>2. PICK g : TotalsThrough(g, part, T) /\ Total(part) = g[T]
  BY <1>1, TotalIs
<1>3. /\ \A S \in SUBSET D : f[S] = IF S = {} THEN 0 ELSE told[First(S)].amount + f[S \ {First(S)}]
      /\ \A S \in SUBSET T : g[S] = IF S = {} THEN 0 ELSE part[First(S)].amount + g[S \ {First(S)}]
  BY <1>2 DEF TotalsThrough
<1>4. \A S : S # {} => First(S) \in S
  OBVIOUS
<1> HIDE DEF First
<1> DEFINE A == {n \in Nat : \A S \in SUBSET T : Cardinality(S) = n => g[S] = f[S]}
<1>5. \A S \in SUBSET T : IsFiniteSet(S) /\ Cardinality(S) \in Nat /\ (Cardinality(S) = 0 <=> S = {})
  BY <1>1, FS_Subset, FS_CardinalityType, FS_EmptySet
<1>6. 0 \in A
  BY <1>3, <1>5
<1>7. ASSUME NEW n \in Nat, n \in A PROVE n + 1 \in A
  <2> SUFFICES ASSUME NEW S \in SUBSET T, Cardinality(S) = n + 1 PROVE g[S] = f[S]
    OBVIOUS
  <2>1. S # {} /\ First(S) \in S /\ IsFiniteSet(S)
    BY <1>4, <1>5
  <2>2. Cardinality(S \ {First(S)}) = n /\ S \ {First(S)} \in SUBSET T
    BY <2>1, ElementLess
  <2>3. g[S \ {First(S)}] = f[S \ {First(S)}]
    BY <1>7, <2>2
  <2>4. part[First(S)] = told[First(S)]
    BY <1>1, <2>1
  <2> QED
    BY <1>3, <2>1, <2>3, <2>4
<1>8. Cardinality(T) \in A
  <2> HIDE DEF A
  <2> QED
    BY <1>5, <1>6, <1>7, Successors
<1> QED
  BY <1>2, <1>8 DEF part

\* A total is that of any one and of the others, in any order.
LEMMA TotalOfRest ==
    ASSUME NEW told, NEW D, IsFiniteSet(D), \A x \in D : told[x].amount \in Int
    PROVE  /\ Total(Only(told, D)) \in Int
           /\ D = {} => Total(Only(told, D)) = 0
           /\ \A x \in D :
                 Total(Only(told, D)) = told[x].amount + Total(Only(told, D \ {x}))
<1> DEFINE First(S) == CHOOSE x \in S : TRUE
<1>1. PICK f : TotalsThrough(f, told, D)
  BY TotalsAreDefined
<1>2. \A S \in SUBSET D : Total(Only(told, S)) = f[S]
  BY <1>1, TotalOfPart
<1>3. \A S \in SUBSET D : f[S] = IF S = {} THEN 0 ELSE told[First(S)].amount + f[S \ {First(S)}]
  BY <1>1 DEF TotalsThrough
<1>4. \A S : S # {} => First(S) \in S
  OBVIOUS
<1> HIDE DEF First
<1>5. \A S \in SUBSET D : IsFiniteSet(S) /\ Cardinality(S) \in Nat /\ (Cardinality(S) = 0 <=> S = {})
  BY FS_Subset, FS_CardinalityType, FS_EmptySet
<1> DEFINE Fine(S) == f[S] \in Int /\ \A x \in S : f[S] = told[x].amount + f[S \ {x}]
           A == {n \in Nat : \A S \in SUBSET D : Cardinality(S) <= n => Fine(S)}
<1>6. 0 \in A
  <2>1. \A S \in SUBSET D : Cardinality(S) <= 0 => S = {}
    BY <1>5
  <2>2. Fine({})
    BY <1>3
  <2> HIDE DEF Fine
  <2> QED
    BY <2>1, <2>2
<1>7. ASSUME NEW n \in Nat, n \in A PROVE n + 1 \in A
  <2>0. \A S \in SUBSET D : Cardinality(S) <= n => Fine(S)
    BY <1>7
  <2>1. ASSUME NEW S \in SUBSET D, Cardinality(S) = n + 1 PROVE Fine(S)
    <3> DEFINE y == First(S)
    <3>1. S # {} /\ y \in S /\ IsFiniteSet(S)
      BY <1>4, <1>5, <2>1
    <3>2. \A x \in S : /\ S \ {x} \in SUBSET D /\ Cardinality(S \ {x}) = n
                       /\ IsFiniteSet(S \ {x})
      BY <2>1, <3>1, ElementLess
    <3> HIDE DEF y
    <3>3. \A x \in S : Fine(S \ {x})
      BY <2>0, <3>2
    <3>4. f[S] = told[y].amount + f[S \ {y}]
      BY <1>3, <3>1 DEF y
    <3>5. ASSUME NEW x \in S, x # y PROVE f[S] = told[x].amount + f[S \ {x}]
      <4>1. x \in S \ {y} /\ y \in S \ {x} /\ (S \ {y}) \ {x} = (S \ {x}) \ {y}
        BY <3>1, <3>5
      <4>2. /\ f[S \ {y}] = told[x].amount + f[(S \ {y}) \ {x}]
            /\ f[S \ {x}] = told[y].amount + f[(S \ {x}) \ {y}]
        BY <3>1, <3>3, <4>1
      <4>3. Fine((S \ {x}) \ {y})
        <5>1. (S \ {x}) \ {y} \in SUBSET D /\ Cardinality((S \ {x}) \ {y}) <= n
          <6>1. Cardinality((S \ {x}) \ {y}) = Cardinality(S \ {x}) - 1
            BY <3>2, <4>1, FS_RemoveElement
          <6> QED
            BY <3>2, <6>1
        <5> QED
          BY <2>0, <5>1
      <4>4. f[(S \ {x}) \ {y}] \in Int /\ told[x].amount \in Int /\ told[y].amount \in Int
        BY <3>1, <4>3
      <4> DEFINE rest == f[(S \ {x}) \ {y}]
      <4>5. f[S \ {y}] = told[x].amount + rest /\ f[S \ {x}] = told[y].amount + rest
        BY <4>1, <4>2
      <4> HIDE DEF rest
      <4> QED
        BY <3>4, <4>4, <4>5 DEF rest
    <3>6. f[S] \in Int
      <4>1. f[S \ {y}] \in Int /\ told[y].amount \in Int
        BY <3>1, <3>3
      <4> QED
        BY <3>4, <4>1
    <3> QED
      BY <3>4, <3>5, <3>6
  <2>2. \A S \in SUBSET D : Cardinality(S) <= n + 1 => Cardinality(S) <= n \/ Cardinality(S) = n + 1
    BY <1>5
  <2> HIDE DEF Fine
  <2> QED
    BY <2>0, <2>1, <2>2
<1>8. Cardinality(D) \in A
  <2> HIDE DEF A
  <2> QED
    BY <1>5, <1>6, <1>7, Successors
<1>9. Fine(D)
  <2>1. Cardinality(D) \in Nat /\ D \in SUBSET D
    BY <1>5
  <2> HIDE DEF Fine
  <2> QED
    BY <1>8, <2>1
<1>10. /\ Total(Only(told, D)) = f[D]
       /\ \A x \in D : Total(Only(told, D \ {x})) = f[D \ {x}]
  BY <1>2
<1>11. D = {} => f[D] = 0
  BY <1>3
<1> QED
  BY <1>9, <1>10, <1>11

-----------------------------------------------------------------------------
(* Encoding, and what it is that verifies. *)

\* Different amounts have different encodings.
LEMMA I128Injective ==
    ASSUME NEW v \in I128, NEW w \in I128, ScvI128(v) = ScvI128(w)
    PROVE  v = w
BY I128RoundTrip

LEMMA I128IsInt == I128 \subseteq Int /\ 0 \in I128
<1>1. Modulus \div 2 \in Nat \ {0}
  <2>1. Modulus \div 2 = (Word \div 2) * Word /\ Word \div 2 \in Nat \ {0} /\ Word \in Nat \ {0}
    BY HalfWord, WordAssumption
  <2>2. \A a, b \in Nat \ {0} : a * b \in Nat \ {0}
    OBVIOUS
  <2> QED
    BY <2>1, <2>2
<1> QED
  BY <1>1 DEF I128

LEMMA I128IsInterval ==
    ASSUME NEW v \in I128, NEW u \in Nat, u <= v
    PROVE  u \in I128
<1>1. Modulus \div 2 \in Int
  BY HalfWord, WordAssumption DEF Modulus
<1> QED
  BY <1>1, I128IsInt DEF I128

\* A signature verifies for a channel and an amount if and only if the
\* channel's key made it for them, on this network.
LEMMA VerifiesWhatIsAgreed ==
    ASSUME NEW ch \in ChannelId, NEW amount \in I128, NEW sig \in Commitments
    PROVE  /\ Verifies(Terms[ch].key, PrepareCommitment(ch, amount), sig)
                <=> sig = Agreed(ch, amount)
           /\ PrepareCommitment(ch, amount) = Prepared(ch, ScvI128(amount))
<1>1. /\ sig \in [channel : ChannelId, network : STRING, amount : I128, key : STRING]
  BY ConstantsAssumption
<1>2. PrepareCommitment(ch, amount) = Prepared(ch, ScvI128(amount))
  BY DEF PrepareCommitment
<1>3. PrepareCommitment(ch, amount) = BuildCommitment(sig.channel, sig.network, sig.amount)
        <=> /\ ScvI128(amount) = ScvI128(sig.amount) /\ ScvAddress(ch) = ScvAddress(sig.channel)
            /\ ScvBytes(Network) = ScvBytes(sig.network)
  BY DEF PrepareCommitment, Prepared, BuildCommitment
<1>4. @ <=> amount = sig.amount /\ ch = sig.channel /\ Network = sig.network
  BY <1>1, I128Injective DEF ScvAddress, ScvBytes
<1>5. sig = Agreed(ch, amount) <=>
        /\ amount = sig.amount /\ ch = sig.channel /\ Network = sig.network
        /\ sig.key = Terms[ch].key
  BY <1>1 DEF Agreed
<1> QED
  BY <1>2, <1>3, <1>4, <1>5 DEF Verifies

\* The decoded Open event tells the channel's key.
LEMMA OpenEventTellsTheKey ==
    ASSUME EventsInv, NEW ch \in ChannelId
    PROVE  OpenEvent(ch).commitmentKey = Terms[ch].key
<1>1. events[ch][1] = Opened(Terms[ch])
  BY DEF EventsInv
<1>2. Opened(Terms[ch]).fields[2] = ScvBytes(Terms[ch].key)
  BY DEF Opened, Emitted
<1>3. OpenEvent(ch).commitmentKey = Decode(events[ch][1].fields[2])
  BY DEF OpenEvent, DecodeChannelOpenEvent
<1> QED
  BY <1>1, <1>2, <1>3 DEF ScvBytes, Decode

-----------------------------------------------------------------------------
(* What the events tell of the money.                                      *)

\* Two sequences, whatever they are of.
LEMMA Concatenation ==
    ASSUME NEW A, NEW B, NEW s \in Seq(A), NEW r \in Seq(B)
    PROVE  /\ s \o r \in Seq(A \cup B)
           /\ Len(s \o r) = Len(s) + Len(r) /\ Len(s) \in Nat /\ Len(r) \in Nat
           /\ \A i \in 1 .. Len(s) : (s \o r)[i] = s[i]
           /\ \A i \in 1 .. Len(r) : (s \o r)[Len(s) + i] = r[i]
<1>1. s \in Seq(A \cup B) /\ r \in Seq(A \cup B)
  BY SeqMonotonic
<1>2. Len(s) \in Nat /\ Len(r) \in Nat
  BY LenProperties
<1> QED
  BY <1>1, <1>2, ConcatProperties
LEMMA OneMore ==
    ASSUME NEW S, NEW s \in Seq(S), NEW e
    PROVE  /\ s \o <<e>> \in Seq(S \cup {e})
           /\ Len(s) \in Nat /\ DOMAIN s = 1 .. Len(s)
           /\ DOMAIN (s \o <<e>>) = 1 .. Len(s) + 1
           /\ \A i \in 1 .. Len(s) : (s \o <<e>>)[i] = s[i]
           /\ (s \o <<e>>)[Len(s) + 1] = e
<1>1. <<e>> \in Seq({e}) /\ Len(<<e>>) = 1 /\ <<e>>[1] = e
  OBVIOUS
<1>2. /\ s \o <<e>> \in Seq(S \cup {e}) /\ Len(s \o <<e>>) = Len(s) + 1 /\ Len(s) \in Nat
      /\ \A i \in 1 .. Len(s) : (s \o <<e>>)[i] = s[i]
      /\ \A i \in 1 .. 1 : (s \o <<e>>)[Len(s) + i] = <<e>>[i]
  BY <1>1, Concatenation
<1> QED
  BY <1>1, <1>2

IsFcn(f) == f = [x \in DOMAIN f |-> f[x]]

\* One thing more that is told adds its amount to the total.
LEMMA TotalOfMore ==
    ASSUME NEW told, IsFcn(told), IsFiniteSet(DOMAIN told),
           NEW more, IsFcn(more), NEW y, y \notin DOMAIN told,
           DOMAIN more = DOMAIN told \cup {y},
           \A x \in DOMAIN told : more[x] = told[x],
           \A x \in DOMAIN more : more[x].amount \in Int
    PROVE  Total(more) = Total(told) + more[y].amount /\ Total(told) \in Int
<1> DEFINE D == DOMAIN told
           M == DOMAIN more
<1>1. IsFiniteSet(M) /\ M \ {y} = D /\ y \in M /\ D \subseteq M
  BY FS_AddElement
<1>2. Only(more, M) = more /\ Only(more, D) = told
  BY DEF Only, IsFcn
<1> HIDE DEF M, D
<1>3. /\ Total(Only(more, M)) = more[y].amount + Total(Only(more, M \ {y}))
      /\ Total(Only(more, M)) \in Int
  BY <1>1, TotalOfRest DEF M
<1>4. Total(Only(more, D)) \in Int
  <2>1. IsFiniteSet(D) /\ \A x \in D : more[x].amount \in Int
    BY <1>1 DEF D, M
  <2> QED
    BY <2>1, TotalOfRest
<1>5. Total(more) = more[y].amount + Total(told) /\ Total(told) \in Int /\ more[y].amount \in Int
  BY <1>1, <1>2, <1>3, <1>4 DEF M
<1> QED
  BY <1>5

LEMMA AmountsAreTold ==
    ASSUME NEW v \in I128, NEW a
    PROVE  /\ DecodeChannelWithdrawEvent(<<ScvAddress(a), ScvI128(v)>>).to = a
           /\ DecodeChannelWithdrawEvent(<<ScvAddress(a), ScvI128(v)>>).amount = v
           /\ DecodeChannelRefundEvent(<<ScvAddress(a), ScvI128(v)>>).from = a
           /\ DecodeChannelRefundEvent(<<ScvAddress(a), ScvI128(v)>>).amount = v
           /\ v \in Int
BY I128RoundTrip, I128IsInt
   DEF DecodeChannelWithdrawEvent, DecodeChannelRefundEvent, ScvAddress, Decode

\* An event adds what it tells, and nothing else.
LEMMA EventAdds ==
    ASSUME NEW S, NEW s \in Seq(S), NEW e, NEW terms, NEW paid \in Int, NEW back \in Int,
           Tells(s, terms, paid, back), NEW v \in I128
    PROVE  /\ e = Emitted("withdraw", <<ScvAddress(terms.to), ScvI128(v)>>) =>
                 Tells(s \o <<e>>, terms, paid + v, back)
           /\ e = Emitted("refund", <<ScvAddress(terms.from), ScvI128(v)>>) =>
                 Tells(s \o <<e>>, terms, paid, back + v)
           /\ e.topic \notin {"withdraw", "refund"} => Tells(s \o <<e>>, terms, paid, back)
<1> DEFINE r == s \o <<e>>
           n == Len(s) + 1
<1>1. /\ n \in Nat \ {0} /\ DOMAIN s = 1 .. n - 1 /\ DOMAIN r = 1 .. n
      /\ \A i \in 1 .. n - 1 : r[i] = s[i]
      /\ r[n] = e
  BY OneMore
<1> HIDE DEF r, n
<1>2. \A topic : /\ In(r, topic) = IF e.topic = topic THEN In(s, topic) \cup {n} ELSE In(s, topic)
                 /\ n \notin In(s, topic) /\ IsFiniteSet(In(s, topic))
                 /\ \A i \in In(s, topic) : r[i] = s[i]
  <2> TAKE topic
  <2>1. 1 .. n = (1 .. n - 1) \cup {n} /\ n \notin 1 .. n - 1
    BY <1>1
  <2>2. IsFiniteSet(1 .. n - 1)
    BY <1>1, FS_Interval
  <2>3. IsFiniteSet(In(s, topic))
    BY <1>1, <2>2, FS_Subset DEF In
  <2> QED
    BY <1>1, <2>1, <2>3 DEF In
<1>3. e.topic # "withdraw" => WithdrawalsIn(r) = WithdrawalsIn(s)
  BY <1>2 DEF WithdrawalsIn
<1>4. e.topic # "refund" => RefundsIn(r) = RefundsIn(s)
  BY <1>2 DEF RefundsIn
<1>5. \A q : /\ DOMAIN WithdrawalsIn(q) = In(q, "withdraw") /\ IsFcn(WithdrawalsIn(q))
             /\ DOMAIN RefundsIn(q) = In(q, "refund") /\ IsFcn(RefundsIn(q))
  BY DEF WithdrawalsIn, RefundsIn, IsFcn
<1>6. ASSUME e = Emitted("withdraw", <<ScvAddress(terms.to), ScvI128(v)>>)
      PROVE  Tells(r, terms, paid + v, back)
  <2> DEFINE d == DecodeChannelWithdrawEvent(e.fields)
  <2>1. e.topic = "withdraw" /\ d.to = terms.to /\ d.amount = v /\ v \in Int
    BY <1>6, AmountsAreTold DEF Emitted
  <2>2. In(r, "withdraw") = In(s, "withdraw") \cup {n}
    BY <1>2, <2>1
  <2>3. /\ WithdrawalsIn(r)[n] = d
        /\ \A i \in In(s, "withdraw") : WithdrawalsIn(r)[i] = WithdrawalsIn(s)[i]
    BY <1>1, <1>2, <2>2 DEF WithdrawalsIn
  <2> HIDE DEF d
  <2>4. \A i \in In(r, "withdraw") :
            WithdrawalsIn(r)[i].to = terms.to /\ WithdrawalsIn(r)[i].amount \in Int
    BY <2>1, <2>2, <2>3 DEF Tells
  <2>5. RefundsIn(r) = RefundsIn(s) /\ In(r, "refund") = In(s, "refund")
    BY <1>2, <1>4, <2>1
  <2>6. Total(WithdrawalsIn(r)) = Total(WithdrawalsIn(s)) + d.amount
    BY <1>2, <1>5, <2>2, <2>3, <2>4, TotalOfMore
  <2> QED
    BY <2>1, <2>4, <2>5, <2>6 DEF Tells
<1>7. ASSUME e = Emitted("refund", <<ScvAddress(terms.from), ScvI128(v)>>)
      PROVE  Tells(r, terms, paid, back + v)
  <2> DEFINE d == DecodeChannelRefundEvent(e.fields)
  <2>1. e.topic = "refund" /\ d.from = terms.from /\ d.amount = v /\ v \in Int
    BY <1>7, AmountsAreTold DEF Emitted
  <2>2. In(r, "refund") = In(s, "refund") \cup {n}
    BY <1>2, <2>1
  <2>3. /\ RefundsIn(r)[n] = d
        /\ \A i \in In(s, "refund") : RefundsIn(r)[i] = RefundsIn(s)[i]
    BY <1>1, <1>2, <2>2 DEF RefundsIn
  <2> HIDE DEF d
  <2>4. \A i \in In(r, "refund") :
            RefundsIn(r)[i].from = terms.from /\ RefundsIn(r)[i].amount \in Int
    BY <2>1, <2>2, <2>3 DEF Tells
  <2>5. WithdrawalsIn(r) = WithdrawalsIn(s) /\ In(r, "withdraw") = In(s, "withdraw")
    BY <1>2, <1>3, <2>1
  <2>6. Total(RefundsIn(r)) = Total(RefundsIn(s)) + d.amount
    BY <1>2, <1>5, <2>2, <2>3, <2>4, TotalOfMore
  <2> QED
    BY <2>1, <2>4, <2>5, <2>6 DEF Tells
<1>8. ASSUME e.topic \notin {"withdraw", "refund"} PROVE Tells(r, terms, paid, back)
  <2>1. /\ WithdrawalsIn(r) = WithdrawalsIn(s) /\ In(r, "withdraw") = In(s, "withdraw")
        /\ RefundsIn(r) = RefundsIn(s) /\ In(r, "refund") = In(s, "refund")
    BY <1>2, <1>3, <1>4, <1>8
  <2> QED
    BY <2>1 DEF Tells
<1> QED
  BY <1>6, <1>7, <1>8 DEF r

\* What a payment or a refund emits tells just that.
LEMMA TransfersAreTold ==
    ASSUME NEW S, NEW s \in Seq(S), NEW t, NEW paid \in Int, NEW back \in Int,
           Tells(s, Terms[t.channel], paid, back)
    PROVE  /\ Unpaid(t) \in I128 => Tells(s \o Withdraw(t), Terms[t.channel], paid + Unpaid(t), back)
           /\ \A a \in I128 : Tells(s \o RefundOf(t, a), Terms[t.channel], paid, back + a)
<1> DEFINE terms == Terms[t.channel]
<1>1. s \o <<>> = s
  BY ConcatEmptySeq
<1>2. ASSUME Unpaid(t) \in I128
      PROVE  Tells(s \o Withdraw(t), terms, paid + Unpaid(t), back)
  <2>1. CASE Unpaid(t) = 0
    <3>1. Withdraw(t) = <<>> /\ paid + Unpaid(t) = paid
      BY <2>1 DEF Withdraw
    <3> QED
      BY <1>1, <3>1
  <2>2. CASE Unpaid(t) # 0
    <3>1. PICK e : e = Emitted("withdraw", <<ScvAddress(terms.to), ScvI128(Unpaid(t))>>)
      OBVIOUS
    <3>2. Withdraw(t) = <<e>>
      BY <2>2, <3>1 DEF Withdraw
    <3> QED
      BY <1>2, <3>1, <3>2, EventAdds
  <2> QED
    BY <2>1, <2>2
<1>3. ASSUME NEW a \in I128
      PROVE  Tells(s \o RefundOf(t, a), terms, paid, back + a)
  <2>1. CASE a = 0
    <3>1. RefundOf(t, a) = <<>> /\ back + a = back
      BY <2>1 DEF RefundOf
    <3> QED
      BY <1>1, <3>1
  <2>2. CASE a # 0
    <3>1. PICK e : e = Emitted("refund", <<ScvAddress(terms.from), ScvI128(a)>>)
      OBVIOUS
    <3>2. RefundOf(t, a) = <<e>>
      BY <2>2, <3>1 DEF RefundOf
    <3> QED
      BY <3>1, <3>2, EventAdds
  <2> QED
    BY <2>1, <2>2
<1> QED
  BY <1>2, <1>3

\* A channel that was just opened tells of nothing that left it.
LEMMA OpenedTellsNothing ==
    ASSUME NEW ch \in ChannelId
    PROVE  Tells(<<Opened(Terms[ch])>>, Terms[ch], 0, 0)
<1> DEFINE e == Opened(Terms[ch])
<1>1. e.topic = "open"
  BY DEF Opened, Emitted
<1>2. \A topic : In(<<>>, topic) = {}
  BY DEF In
<1>3. ASSUME NEW told, DOMAIN told = {}, told = [i \in DOMAIN told |-> told[i]]
      PROVE  Total(told) = 0
  <2>1. Only(told, {}) = told /\ IsFiniteSet({})
    BY <1>3, FS_EmptySet DEF Only
  <2>2. Total(Only(told, {})) = 0
    BY <2>1, TotalOfRest
  <2> QED
    BY <2>1, <2>2
<1>4. Total(WithdrawalsIn(<<>>)) = 0 /\ Total(RefundsIn(<<>>)) = 0
  <2>1. PICK w, b : w = WithdrawalsIn(<<>>) /\ b = RefundsIn(<<>>)
    OBVIOUS
  <2>2. DOMAIN w = {} /\ w = [i \in DOMAIN w |-> w[i]] /\ DOMAIN b = {} /\ b = [i \in DOMAIN b |-> b[i]]
    BY <1>2, <2>1 DEF WithdrawalsIn, RefundsIn
  <2> QED
    BY <1>3, <2>1, <2>2
<1>5. Tells(<<>>, Terms[ch], 0, 0)
  BY <1>2, <1>4 DEF Tells
<1> HIDE DEF e
<1>6. <<>> \in Seq({e}) /\ <<>> \o <<e>> = <<e>>
  OBVIOUS
<1>7. Tells(<<>> \o <<e>>, Terms[ch], 0, 0)
  BY <1>1, <1>5, <1>6, I128IsInt, EventAdds
<1> QED
  BY <1>6, <1>7 DEF e

-----------------------------------------------------------------------------
LEMMA InitIInv == Init => IInv
<1> SUFFICES ASSUME Init PROVE IInv
  OBVIOUS
<1> USE DEF Init, SubmissionInit
<1>1. TypeOK
  <2>1. \A ch \in ChannelId : Terms[ch].amount \in I128 \cap Nat
    BY ConstantsAssumption
  <2>2. {deposited, withdrawn, balance} \subseteq [ChannelId -> I128 \cap Nat]
    BY <2>1, I128IsInt
  <2>3. ledger \in 0 .. MaxLedger
    BY ConstantsAssumption
  <2> QED
    BY <2>2, <2>3 DEF TypeOK, Phase, Fate, Outcome
<1>2. CallInv
  BY DEF CallInv
<1>3. EventsInv
  <2> SUFFICES ASSUME NEW ch \in ChannelId
               PROVE  /\ \E S : events[ch] \in Seq(S)
                      /\ Len(events[ch]) >= 1 /\ events[ch][1] = Opened(Terms[ch])
    BY DEF EventsInv
  <2> DEFINE e == Opened(Terms[ch])
  <2>1. events[ch] = <<e>> /\ DOMAIN events = ChannelId
    OBVIOUS
  <2> HIDE DEF e
  <2>2. <<e>> \in Seq({e}) /\ Len(<<e>>) = 1 /\ <<e>>[1] = e
    OBVIOUS
  <2>3. events[ch] \in Seq({e})
    BY <2>1, <2>2
  <2>4. \E S : events[ch] \in Seq(S)
    BY <2>3
  <2> QED
    BY <2>1, <2>2, <2>4 DEF e
<1>4. FundsInv
  BY <1>1, I128IsInt DEF FundsInv, TypeOK
<1>5. PaidInv
  BY DEF PaidInv, Settles, Executed
<1>6. VerdictsAreTrue
  BY DEF VerdictsAreTrue
<1>7. ToldInv
  <2> SUFFICES ASSUME NEW ch \in ChannelId
               PROVE  Tells(events[ch], Terms[ch], withdrawn[ch],
                            deposited[ch] - withdrawn[ch] - balance[ch])
    BY DEF ToldInv
  <2>1. events[ch] = <<Opened(Terms[ch])>>
    OBVIOUS
  <2>2. withdrawn[ch] = 0 /\ deposited[ch] - withdrawn[ch] - balance[ch] = 0
    BY <1>1, I128IsInt DEF TypeOK
  <2> QED
    BY <2>1, <2>2, OpenedTellsNothing
<1>8. TopUpsInv
  <2> SUFFICES ASSUME NEW ch \in ChannelId
               PROVE  \E T \in SUBSET TopUps(ch) :
                          /\ IsFiniteSet(T)
                          /\ {tx[c] : c \in T} = {tx[c] : c \in TopUps(ch)}
                          /\ deposited[ch] - Terms[ch].amount = Total(Only(want, T))
    BY DEF TopUpsInv
  <2>1. TopUps(ch) = {}
    BY DEF TopUps, Executed
  <2>2. IsFiniteSet({}) /\ Total(Only(want, {})) = 0
    BY FS_EmptySet, TotalOfRest
  <2>3. deposited[ch] - Terms[ch].amount = 0
    BY ConstantsAssumption
  <2> HIDE DEF Init, SubmissionInit
  <2> QED
    BY <2>1, <2>2, <2>3
<1> QED
  BY <1>1, <1>2, <1>3, <1>4, <1>5, <1>6, <1>7, <1>8 DEF IInv

\* The row that enters has the verdict of its own channel, amount and signature.
LEMMA SubmitKeepsIInv ==
    ASSUME IInv, NEW o \in Submitted, Submit(o)
    PROVE  IInv'
<1>1. PICK row : /\ row = [channel |-> o.channel, amount |-> o.amount, sig |-> o.sig,
                           valid |-> Verifies(OpenEvent(o.channel).commitmentKey,
                                              PrepareCommitment(o.channel, o.amount), o.sig)]
                 /\ rows' = rows \cup {row}
  BY DEF Submit
<1>2. /\ o.channel \in ChannelId /\ o.sig \in Commitments
      /\ o.amount \in I128 /\ o.amount > 0 /\ o.amount \in Int
  BY ConstantsAssumption DEF Submit
<1>3. /\ row.channel = o.channel /\ row.amount = o.amount /\ row.sig = o.sig
      /\ row.valid = Verifies(Terms[o.channel].key, PrepareCommitment(o.channel, o.amount), o.sig)
  BY <1>1, <1>2, OpenEventTellsTheKey DEF IInv
<1>4. UNCHANGED <<submission, contract, ledger, want>>
  BY DEF Submit
<1>5. TypeOK'
  <2>1. Entry(row) \in Custody!Entry
    <3>1. row.valid \in BOOLEAN
      BY <1>3 DEF Verifies
    <3> QED
      BY <1>2, <1>3, <3>1 DEF Entry, Custody!Entry
  <2>2. row.sig \in Commitments
    BY <1>2, <1>3
  <2> QED
    BY <1>1, <1>4, <2>1, <2>2 DEF IInv, TypeOK, Entry, submission, contract
<1>6. VerdictsAreTrue'
  <2>1. row.valid <=> row.sig = Agreed(row.channel, row.amount)
    BY <1>2, <1>3, VerifiesWhatIsAgreed
  <2> QED
    BY <1>1, <2>1 DEF IInv, VerdictsAreTrue, Agreed
<1>7. CallInv' /\ PaidInv'
  BY <1>4 DEF IInv, CallInv, PaidInv, Settles, Executed, submission, contract
<1>8. EventsInv' /\ FundsInv' /\ ToldInv'
  BY <1>4 DEF IInv, EventsInv, FundsInv, Announced, PastDeadline, ToldInv, contract
<1>9. TopUpsInv'
  BY <1>4 DEF IInv, TopUpsInv, TopUps, Executed, submission, contract
<1> QED
  BY <1>5, <1>6, <1>7, <1>8, <1>9 DEF IInv

\* What leaves the channels and the table alone, and settles nothing as done.
LEMMA QuietKeepsIInv ==
    ASSUME IInv, UNCHANGED <<contract, ledger, rows>>,
           pc' \in [Call -> Phase], fate' \in [Call -> Fate], out' \in [Call -> Outcome],
           CallInv',
           \A c \in Call : /\ fate'[c] = "done" <=> fate[c] = "done"
                           /\ fate[c] = "done" => want'[c] = want[c] /\ tx'[c] = tx[c]
    PROVE  IInv'
<1>1. TypeOK' /\ VerdictsAreTrue'
  BY DEF IInv, TypeOK, VerdictsAreTrue, contract
<1>2. EventsInv' /\ FundsInv' /\ ToldInv'
  BY DEF IInv, EventsInv, FundsInv, Announced, PastDeadline, ToldInv, contract
<1>3. \A ch \in ChannelId : Settles(ch)' = Settles(ch)
  BY DEF Settles, Executed
<1>4. PaidInv'
  <2>1. \A ch \in ChannelId : \A c \in Settles(ch) : want'[c] = want[c]
    BY DEF Settles, Executed
  <2> QED
    BY <1>3, <2>1 DEF IInv, PaidInv, contract
<1>5. TopUpsInv'
  <2> SUFFICES ASSUME NEW ch \in ChannelId
               PROVE  \E T \in SUBSET TopUps(ch)' :
                          /\ IsFiniteSet(T)
                          /\ {tx'[c] : c \in T} = {tx'[c] : c \in TopUps(ch)'}
                          /\ deposited'[ch] - Terms[ch].amount = Total(Only(want', T))
    BY DEF TopUpsInv
  <2>1. /\ TopUps(ch)' = TopUps(ch)
        /\ \A c \in TopUps(ch) : want'[c] = want[c] /\ tx'[c] = tx[c]
    BY DEF TopUps, Executed
  <2>2. PICK T \in SUBSET TopUps(ch) :
                 /\ IsFiniteSet(T)
                 /\ {tx[c] : c \in T} = {tx[c] : c \in TopUps(ch)}
                 /\ deposited[ch] - Terms[ch].amount = Total(Only(want, T))
    BY DEF IInv, TopUpsInv
  <2>3. Only(want', T) = Only(want, T)
    BY <2>1 DEF Only
  <2>4. {tx'[c] : c \in T} = {tx'[c] : c \in TopUps(ch)'}
    BY <2>1, <2>2
  <2>5. deposited' = deposited
    BY DEF contract
  <2> QED
    BY <2>1, <2>2, <2>3, <2>4, <2>5
<1> QED
  BY <1>1, <1>2, <1>4, <1>5 DEF IInv

\* What a call asks for is what its transaction says.
LEMMA BeginKeepsIInv ==
    ASSUME IInv, NEW c \in Call, Begin(c)
    PROVE  IInv'
<1>1. PICK w, amounts, args :
          /\ w \in Want[c]
          /\ Invoke(c, w, amounts, args)
          /\ w.fn \in {"top_up", "settle", "close"} =>
                amounts = {w.amount} /\ args[1] = ScvI128(w.amount)
          /\ w.fn \in {"settle", "close"} => \E sig \in Commitments : args[2] = ScvBytes(sig)
  <2>1. PICK w \in Want[c] :
            \/ TopUp(c, w) \/ CloseStart(c, w) \/ Refund(c, w)
            \/ \E row \in rows : Settle(c, w, row) \/ Close(c, w, row)
    BY DEF Begin
  <2>2. CASE TopUp(c, w)
    BY <2>2 DEF TopUp
  <2>3. CASE CloseStart(c, w) \/ Refund(c, w)
    BY <2>3 DEF CloseStart, Refund
  <2>4. CASE \E row \in rows : Settle(c, w, row) \/ Close(c, w, row)
    <3>1. PICK row \in rows : Settle(c, w, row) \/ Close(c, w, row)
      BY <2>4
    <3>2. Invoke(c, w, {w.amount}, settleOrCloseArgs(w.amount, row.sig))
      BY <3>1 DEF Settle, Close
    <3>3. /\ settleOrCloseArgs(w.amount, row.sig)[1] = ScvI128(w.amount)
          /\ settleOrCloseArgs(w.amount, row.sig)[2] = ScvBytes(row.sig)
          /\ row.sig \in Commitments
      BY DEF settleOrCloseArgs, IInv, TypeOK
    <3> QED
      BY <3>2, <3>3
  <2> QED
    BY <2>1, <2>2, <2>3, <2>4
<1>2. PICK t : t = [fn |-> w.fn, channel |-> w.channel, signer |-> w.signer, args |-> args]
  OBVIOUS
<1>3. /\ want' = [want EXCEPT ![c] = w] /\ UNCHANGED <<contract, ledger, rows>>
      /\ (amounts \subseteq I128 /\ Prepare(c, t)) \/ Refuse(c)
  BY <1>1, <1>2 DEF Invoke
<1>4. /\ pc[c] = "idle" /\ fate[c] = "none" /\ tx[c] = NoTx /\ UNCHANGED fate
      /\ pc' \in [Call -> Phase] /\ fate' \in [Call -> Fate] /\ out' \in [Call -> Outcome]
  BY <1>3 DEF Prepare, Refuse, End, IInv, TypeOK, CallInv, Phase, Outcome
<1>5. CASE amounts \subseteq I128 /\ Prepare(c, t)
  <2>1. Encodes(t, w) /\ t # NoTx
    BY <1>1, <1>2, <1>5 DEF Encodes, Prepare
  <2>2. /\ pc' = [pc EXCEPT ![c] = "send"] /\ tx' = [tx EXCEPT ![c] = t] /\ UNCHANGED out
    BY <1>5 DEF Prepare
  <2>3. CallInv'
    <3>1. /\ DOMAIN tx' = Call /\ DOMAIN want' = Call
          /\ \A d \in Call \ {c} : /\ pc'[d] = pc[d] /\ tx'[d] = tx[d] /\ fate'[d] = fate[d]
                                   /\ out'[d] = out[d] /\ want'[d] = want[d]
      BY <1>3, <1>4, <2>2 DEF IInv, TypeOK, CallInv
    <3>2. /\ pc'[c] = "send" /\ tx'[c] = t /\ fate'[c] = "none"
          /\ out'[c] = "none" /\ want'[c] = w
      BY <1>3, <1>4, <2>2 DEF IInv, TypeOK, CallInv
    <3> QED
      BY <1>1, <2>1, <3>1, <3>2 DEF IInv, CallInv
  <2>4. \A d \in Call : /\ fate'[d] = "done" <=> fate[d] = "done"
                        /\ fate[d] = "done" => want'[d] = want[d] /\ tx'[d] = tx[d]
    BY <1>3, <1>4, <2>2 DEF IInv, CallInv
  <2> QED
    BY <1>3, <1>4, <2>3, <2>4, QuietKeepsIInv
<1>6. CASE Refuse(c)
  <2>1. /\ pc' = [pc EXCEPT ![c] = "end"] /\ out' = [out EXCEPT ![c] = "error"] /\ UNCHANGED tx
    BY <1>6 DEF Refuse, End
  <2>2. CallInv'
    BY <1>3, <1>4, <2>1 DEF IInv, TypeOK, CallInv
  <2>3. \A d \in Call : /\ fate'[d] = "done" <=> fate[d] = "done"
                        /\ fate[d] = "done" => want'[d] = want[d] /\ tx'[d] = tx[d]
    BY <1>3, <1>4, <2>1 DEF IInv, CallInv
  <2> QED
    BY <1>3, <1>4, <2>2, <2>3, QuietKeepsIInv
<1> QED
  BY <1>3, <1>5, <1>6

\* Sending and answering: a success is one of what is done.
LEMMA AdvanceKeepsIInv ==
    ASSUME IInv, NEW c \in Call, Advance(c)
    PROVE  IInv'
<1>1. UNCHANGED <<contract, ledger, rows, want, tx>>
  BY DEF Advance, Send, SendRefused, SendUnanswered, Succeed, Fail, GiveUp, End
<1>2. /\ pc' \in [Call -> Phase] /\ fate' \in [Call -> Fate] /\ out' \in [Call -> Outcome]
      /\ \A d \in Call \ {c} : pc'[d] = pc[d] /\ fate'[d] = fate[d] /\ out'[d] = out[d]
      /\ fate'[c] = "done" <=> fate[c] = "done"
      /\ fate'[c] # "none" => tx[c] # NoTx
      /\ pc'[c] \in {"poll", "end"}
      /\ out'[c] = "success" => fate'[c] = "done"
  <2> USE DEF IInv, TypeOK, CallInv, Phase, Fate, Outcome
  <2>1. CASE Send(c)
    BY <2>1 DEF Send
  <2>2. CASE SendRefused(c) \/ SendUnanswered(c)
    BY <2>2 DEF SendRefused, SendUnanswered, End
  <2>3. CASE Succeed(c) \/ Fail(c) \/ GiveUp(c)
    BY <2>3 DEF Succeed, Fail, GiveUp, End
  <2> QED
    BY <2>1, <2>2, <2>3 DEF Advance
<1>3. CallInv'
  BY <1>1, <1>2 DEF IInv, CallInv
<1> QED
  BY <1>1, <1>2, <1>3, QuietKeepsIInv

LEMMA RejectKeepsIInv ==
    ASSUME IInv, NEW S \in SUBSET Call, Reject(S)
    PROVE  IInv'
<1>1. /\ UNCHANGED <<contract, ledger, rows, want, tx, pc, out>>
      /\ fate' = [c \in Call |-> IF c \in S THEN "void" ELSE fate[c]]
      /\ \A c \in S : fate[c] = "open"
  BY DEF Reject, Conclude
<1>2. fate' \in [Call -> Fate]
  BY <1>1 DEF IInv, TypeOK, Fate
<1>3. CallInv'
  BY <1>1 DEF IInv, CallInv
<1> QED
  BY <1>1, <1>2, <1>3, QuietKeepsIInv DEF IInv, TypeOK

\* A deadline that has passed stays passed.
LEMMA LedgerClosesKeepsIInv ==
    ASSUME IInv, LedgerCloses
    PROVE  IInv'
<1>1. /\ ledger' = ledger + 1 /\ ledger < MaxLedger /\ ledger \in 0 .. MaxLedger
      /\ UNCHANGED <<submission, contract, rows, want>>
  BY DEF LedgerCloses, IInv, TypeOK
<1>2. TypeOK' /\ VerdictsAreTrue'
  BY <1>1, ConstantsAssumption DEF IInv, TypeOK, VerdictsAreTrue, submission, contract
<1>3. CallInv' /\ PaidInv' /\ EventsInv' /\ ToldInv' /\ TopUpsInv'
  BY <1>1 DEF IInv, CallInv, PaidInv, Settles, Executed, EventsInv, ToldInv, TopUpsInv, TopUps,
              submission, contract
<1>4. FundsInv'
  <2>1. \A l \in 0 .. ledger : l \in 0 .. ledger'
    BY <1>1
  <2>2. UNCHANGED <<balance, deposited, withdrawn, effective, events>>
    BY <1>1 DEF contract
  <2> QED
    BY <2>1, <2>2 DEF IInv, FundsInv, Announced, PastDeadline
<1> QED
  BY <1>2, <1>3, <1>4 DEF IInv

-----------------------------------------------------------------------------
(* What is executed. *)

\* What the events and the money say of each other, and their types.
ContractInv ==
    /\ {deposited, withdrawn, balance} \subseteq [ChannelId -> I128 \cap Nat]
    /\ effective \in [ChannelId -> Nat \cup {None}]
    /\ EventsInv /\ FundsInv /\ ToldInv

\* What is emitted is told after all that was told before.
LEMMA EmitKeepsEvents ==
    ASSUME EventsInv, NEW ch \in ChannelId, NEW B, NEW r \in Seq(B), Emit(ch, r)
    PROVE  /\ EventsInv'
           /\ \A d \in ChannelId : \A i \in 1 .. Len(events[d]) :
                 i \in 1 .. Len(events'[d]) /\ events'[d][i] = events[d][i]
           /\ \A i \in 1 .. Len(r) : \E j \in 1 .. Len(events'[ch]) : events'[ch][j] = r[i]
<1>1. PICK A : events[ch] \in Seq(A)
  BY DEF EventsInv
<1>2. /\ DOMAIN events' = ChannelId
      /\ events'[ch] = events[ch] \o r
      /\ \A d \in ChannelId \ {ch} : events'[d] = events[d]
  BY DEF Emit, EventsInv
<1>3. /\ events'[ch] \in Seq(A \cup B)
      /\ Len(events'[ch]) = Len(events[ch]) + Len(r)
      /\ Len(events[ch]) \in Nat /\ Len(r) \in Nat
      /\ \A i \in 1 .. Len(events[ch]) : events'[ch][i] = events[ch][i]
      /\ \A i \in 1 .. Len(r) : events'[ch][Len(events[ch]) + i] = r[i]
  BY <1>1, <1>2, Concatenation
<1>4. \A d \in ChannelId : \A i \in 1 .. Len(events[d]) :
          i \in 1 .. Len(events'[d]) /\ events'[d][i] = events[d][i]
  BY <1>2, <1>3
<1>5. \A i \in 1 .. Len(r) : Len(events[ch]) + i \in 1 .. Len(events'[ch])
  BY <1>3
<1>6. ASSUME NEW d \in ChannelId
      PROVE  /\ \E S : events'[d] \in Seq(S)
             /\ Len(events'[d]) >= 1 /\ events'[d][1] = Opened(Terms[d])
  <2>1. Len(events[d]) >= 1 /\ events[d][1] = Opened(Terms[d]) /\ \E S : events[d] \in Seq(S)
    BY DEF EventsInv
  <2>2. CASE d = ch
    <3>1. Len(events'[ch]) >= 1 /\ 1 \in 1 .. Len(events[ch])
      BY <1>3, <2>1, <2>2
    <3> QED
      BY <1>3, <2>1, <2>2, <3>1
  <2>3. CASE d # ch
    BY <1>2, <2>1, <2>3
  <2> QED
    BY <2>2, <2>3
<1>7. EventsInv'
  BY <1>2, <1>6 DEF EventsInv
<1> QED
  BY <1>3, <1>4, <1>5, <1>7

\* What a channel announced stays announced, and what passed stays past.
LEMMA ToldStaysTold ==
    ASSUME ledger' = ledger, NEW d \in ChannelId,
           \A i \in 1 .. Len(events[d]) :
               i \in 1 .. Len(events'[d]) /\ events'[d][i] = events[d][i]
    PROVE  /\ PastDeadline(d) => PastDeadline(d)'
           /\ Announced(d) /\ effective'[d] = effective[d] => Announced(d)'
BY DEF PastDeadline, Announced

\* A transaction that a call could have prepared.
Sensible(t) ==
    /\ t.channel \in ChannelId
    /\ t.fn \in {"top_up", "settle", "close"} => \E a \in I128 : t.args[1] = ScvI128(a)

LEMMA AmountIsI128 ==
    ASSUME NEW t, Sensible(t), t.fn \in {"top_up", "settle", "close"}
    PROVE  AmountOf(t) \in I128
BY I128RoundTrip DEF Sensible, AmountOf

\* What is unpaid is never negative, and paying it pays up to the amount.
LEMMA UnpaidIsTheRest ==
    ASSUME TypeOK, NEW t, Sensible(t), t.fn \in {"settle", "close"}
    PROVE  /\ Unpaid(t) \in Nat
           /\ withdrawn[t.channel] + Unpaid(t) =
                 IF AmountOf(t) > withdrawn[t.channel] THEN AmountOf(t) ELSE withdrawn[t.channel]
           /\ withdrawn[t.channel] + Unpaid(t) \in I128 \cap Nat
<1>1. AmountOf(t) \in I128 /\ AmountOf(t) \in Int
  BY AmountIsI128, I128IsInt
<1>2. withdrawn[t.channel] \in I128 \cap Nat
  BY DEF TypeOK, Sensible
<1> QED
  BY <1>1, <1>2 DEF Unpaid

LEMMA TopUpKeepsContract ==
    ASSUME IInv, NEW t, Sensible(t), Accepts(t), ApplyTopUp(t), ledger' = ledger
    PROVE  ContractInv'
<1> DEFINE ch == t.channel
           a == AmountOf(t)
<1>1. a \in I128 /\ a \in Nat /\ deposited[ch] + a \in I128
  <2>1. t.fn = "top_up"
    BY DEF ApplyTopUp
  <2>2. a \in I128 /\ a \in Int
    BY <2>1, AmountIsI128, I128IsInt
  <2>3. a >= 0 /\ deposited[ch] + a \in I128
    BY <2>1 DEF Accepts
  <2> QED
    BY <2>2, <2>3
<1>2. /\ deposited' = [deposited EXCEPT ![ch] = @ + a] /\ balance' = [balance EXCEPT ![ch] = @ + a]
      /\ UNCHANGED <<withdrawn, effective, events>> /\ ch \in ChannelId
  BY DEF ApplyTopUp, Sensible
<1>3. /\ {deposited, withdrawn, balance} \subseteq [ChannelId -> I128 \cap Nat]
      /\ effective \in [ChannelId -> Nat \cup {None}]
      /\ balance[ch] <= deposited[ch] - withdrawn[ch]
  BY <1>2 DEF IInv, TypeOK, FundsInv
<1> HIDE DEF a, ch
<1>4. balance[ch] + a \in I128 \cap Nat /\ deposited[ch] + a \in I128 \cap Nat
  <2>1. balance[ch] \in Nat /\ deposited[ch] \in Nat /\ withdrawn[ch] \in Nat
    BY <1>2, <1>3
  <2>2. balance[ch] + a \in Nat /\ balance[ch] + a <= deposited[ch] + a
    BY <1>1, <1>3, <2>1
  <2> QED
    BY <1>1, <2>1, <2>2, I128IsInterval
<1>5. FundsInv'
  <2>1. \A d \in ChannelId : (PastDeadline(d) <=> PastDeadline(d)') /\ (Announced(d) <=> Announced(d)')
    BY <1>2 DEF PastDeadline, Announced
  <2> QED
    BY <1>1, <1>2, <1>3, <2>1, I128IsInt DEF IInv, FundsInv
<1>6. ToldInv'
  <2> SUFFICES ASSUME NEW d \in ChannelId
               PROVE  Tells(events[d], Terms[d], withdrawn[d],
                            deposited'[d] - withdrawn[d] - balance'[d])
    BY <1>2 DEF ToldInv
  <2>1. deposited'[d] - withdrawn[d] - balance'[d] = deposited[d] - withdrawn[d] - balance[d]
    BY <1>1, <1>2, <1>3
  <2> QED
    BY <2>1 DEF IInv, ToldInv
<1> QED
  BY <1>2, <1>3, <1>4, <1>5, <1>6 DEF ContractInv, IInv, EventsInv

\* The balance pays what is unpaid, and has no less left than is not withdrawn.
LEMMA PayingKeepsFunds ==
    ASSUME IInv, NEW t, Sensible(t), Accepts(t), t.fn \in {"settle", "close"}
    PROVE  LET ch == t.channel
           IN  /\ balance[ch] - Unpaid(t) \in I128 \cap Nat
               /\ withdrawn[ch] + Unpaid(t) \in I128 \cap Nat
               /\ Unpaid(t) \in Nat
               /\ balance[ch] - Unpaid(t) <= deposited[ch] - (withdrawn[ch] + Unpaid(t))
               /\ balance[ch] = deposited[ch] - withdrawn[ch] =>
                     balance[ch] - Unpaid(t) = deposited[ch] - (withdrawn[ch] + Unpaid(t))
<1> DEFINE ch == t.channel
<1>1. Unpaid(t) \in Nat /\ withdrawn[ch] + Unpaid(t) \in I128 \cap Nat
  BY UnpaidIsTheRest DEF IInv
<1>2. Unpaid(t) <= balance[ch]
  BY DEF Accepts
<1>3. /\ deposited[ch] \in Nat /\ withdrawn[ch] \in Nat /\ balance[ch] \in I128 \cap Nat
      /\ balance[ch] <= deposited[ch] - withdrawn[ch]
  BY DEF IInv, TypeOK, FundsInv, Sensible
<1> HIDE DEF ch
<1>4. balance[ch] - Unpaid(t) \in Nat /\ balance[ch] - Unpaid(t) <= balance[ch]
  BY <1>1, <1>2, <1>3
<1> QED
  BY <1>1, <1>3, <1>4, I128IsInterval DEF ch

LEMMA UnpaidIsI128 ==
    ASSUME IInv, NEW t, Sensible(t), t.fn \in {"settle", "close"}
    PROVE  Unpaid(t) \in Int /\ Unpaid(t) \in I128
<1>1. Unpaid(t) \in Nat /\ withdrawn[t.channel] + Unpaid(t) \in I128
  BY UnpaidIsTheRest DEF IInv
<1>2. withdrawn[t.channel] \in Nat
  BY DEF IInv, TypeOK, Sensible
<1>3. Unpaid(t) <= withdrawn[t.channel] + Unpaid(t)
  BY <1>1, <1>2
<1> QED
  BY <1>1, <1>3, I128IsInterval

\* What is emitted is a sequence of something.
LEMMA EmissionsAreSequences ==
    ASSUME NEW t
    PROVE  /\ \E B : Withdraw(t) \in Seq(B)
           /\ \A amount : \E B : RefundOf(t, amount) \in Seq(B)
           /\ \A e : <<e>> \in Seq({e}) /\ Len(<<e>>) = 1 /\ <<e>>[1] = e
<1>1. \A e : <<e>> \in Seq({e}) /\ Len(<<e>>) = 1 /\ <<e>>[1] = e
  OBVIOUS
<1>2. <<>> \in Seq({})
  OBVIOUS
<1>3. \E B : Withdraw(t) \in Seq(B)
  BY <1>1, <1>2 DEF Withdraw
<1>4. \A amount : \E B : RefundOf(t, amount) \in Seq(B)
  BY <1>1, <1>2 DEF RefundOf
<1> QED
  BY <1>1, <1>3, <1>4

\* The channel's events go on to tell, the others' are as they were.
LEMMA EmissionTells ==
    ASSUME TypeOK, EventsInv, ToldInv, NEW ch \in ChannelId, NEW r, Emit(ch, r),
           \A d \in ChannelId \ {ch} : /\ deposited'[d] = deposited[d] /\ withdrawn'[d] = withdrawn[d]
                                       /\ balance'[d] = balance[d],
           Tells(events[ch] \o r, Terms[ch], withdrawn'[ch],
                 deposited'[ch] - withdrawn'[ch] - balance'[ch])
    PROVE  ToldInv'
BY DEF EventsInv, ToldInv, Emit

\* What has left the channel so far is a whole number of units.
LEMMA LeftIsInt ==
    ASSUME TypeOK, EventsInv, ToldInv, NEW ch \in ChannelId
    PROVE  /\ withdrawn[ch] \in Int /\ deposited[ch] \in Int /\ balance[ch] \in Int
           /\ deposited[ch] - withdrawn[ch] - balance[ch] \in Int
           /\ Tells(events[ch], Terms[ch], withdrawn[ch],
                    deposited[ch] - withdrawn[ch] - balance[ch])
           /\ \E S : events[ch] \in Seq(S)
<1>1. withdrawn[ch] \in Nat /\ deposited[ch] \in Nat /\ balance[ch] \in Nat
  BY DEF TypeOK
<1> QED
  BY <1>1 DEF ToldInv, EventsInv

LEMMA SettleKeepsContract ==
    ASSUME IInv, NEW t, Sensible(t), Accepts(t), ApplySettle(t), ledger' = ledger
    PROVE  ContractInv'
<1> DEFINE ch == t.channel
<1>1. /\ t.fn = "settle" /\ ch \in ChannelId
      /\ withdrawn' = [withdrawn EXCEPT ![ch] = @ + Unpaid(t)]
      /\ balance' = [balance EXCEPT ![ch] = @ - Unpaid(t)]
      /\ Emit(ch, Withdraw(t)) /\ UNCHANGED <<deposited, effective>>
  BY DEF ApplySettle, Sensible
<1>2. /\ {deposited, withdrawn, balance} \subseteq [ChannelId -> I128 \cap Nat]
      /\ effective \in [ChannelId -> Nat \cup {None}] /\ FundsInv
  BY DEF IInv, TypeOK
<1>3. /\ balance[ch] - Unpaid(t) \in I128 \cap Nat
      /\ withdrawn[ch] + Unpaid(t) \in I128 \cap Nat
      /\ balance[ch] - Unpaid(t) <= deposited[ch] - (withdrawn[ch] + Unpaid(t))
      /\ balance[ch] = deposited[ch] - withdrawn[ch] =>
            balance[ch] - Unpaid(t) = deposited[ch] - (withdrawn[ch] + Unpaid(t))
  BY <1>1, PayingKeepsFunds
<1>4. PICK B : Withdraw(t) \in Seq(B)
  BY EmissionsAreSequences
<1> HIDE DEF ch
<1>5. /\ EventsInv'
      /\ \A d \in ChannelId : /\ PastDeadline(d) => PastDeadline(d)'
                              /\ Announced(d) => Announced(d)'
  <2>1. /\ EventsInv'
        /\ \A d \in ChannelId : \A i \in 1 .. Len(events[d]) :
              i \in 1 .. Len(events'[d]) /\ events'[d][i] = events[d][i]
    BY <1>1, <1>4, EmitKeepsEvents DEF IInv
  <2> QED
    BY <1>1, <2>1, ToldStaysTold
<1>6. FundsInv'
  BY <1>1, <1>2, <1>3, <1>5 DEF FundsInv
<1>7. ToldInv'
  <2> DEFINE left == deposited[ch] - withdrawn[ch] - balance[ch]
  <2>1. /\ withdrawn[ch] \in Int /\ deposited[ch] \in Int /\ balance[ch] \in Int /\ left \in Int
        /\ Tells(events[ch], Terms[ch], withdrawn[ch], left)
        /\ \E S : events[ch] \in Seq(S)
    BY <1>1, LeftIsInt DEF IInv
  <2>2. Unpaid(t) \in Int /\ Unpaid(t) \in I128
    BY <1>1, UnpaidIsI128
  <2>3. /\ withdrawn'[ch] = withdrawn[ch] + Unpaid(t) /\ deposited'[ch] = deposited[ch]
        /\ balance'[ch] = balance[ch] - Unpaid(t)
    BY <1>1, <1>2
  <2>4. deposited'[ch] - withdrawn'[ch] - balance'[ch] = left
    BY <2>1, <2>2, <2>3
  <2> HIDE DEF left
  <2>5. Tells(events[ch] \o Withdraw(t), Terms[ch], withdrawn[ch] + Unpaid(t), left)
    BY <2>1, <2>2, TransfersAreTold DEF ch
  <2>6. \A d \in ChannelId \ {ch} : /\ deposited'[d] = deposited[d] /\ withdrawn'[d] = withdrawn[d]
                                    /\ balance'[d] = balance[d]
    BY <1>1, <1>2
  <2> QED
    BY <1>1, <2>3, <2>4, <2>5, <2>6, EmissionTells DEF IInv
<1> QED
  BY <1>1, <1>2, <1>3, <1>5, <1>6, <1>7 DEF ContractInv

\* Closing announces the ledger it is in, so the deadline has passed.
LEMMA CloseKeepsContract ==
    ASSUME IInv, NEW t, Sensible(t), Accepts(t), ApplyClose(t), ledger' = ledger
    PROVE  ContractInv'
<1> DEFINE ch == t.channel
           left == balance[ch] - Unpaid(t)
           closed == Emitted("close", <<ScvU32(ledger)>>)
           closing == <<closed>>
<1>1. PICK r : /\ t.fn = "close" /\ ch \in ChannelId
               /\ withdrawn' = [withdrawn EXCEPT ![ch] = @ + Unpaid(t)]
               /\ effective' = [effective EXCEPT ![ch] = ledger]
               /\ \/ /\ balance' = [balance EXCEPT ![ch] = 0]
                     /\ r = Withdraw(t) \o closing \o RefundOf(t, left)
                  \/ balance' = [balance EXCEPT ![ch] = left] /\ r = Withdraw(t) \o closing
               /\ Emit(ch, r) /\ UNCHANGED deposited
  BY DEF ApplyClose, Sensible
<1>2. /\ {deposited, withdrawn, balance} \subseteq [ChannelId -> I128 \cap Nat]
      /\ effective \in [ChannelId -> Nat \cup {None}] /\ FundsInv
      /\ ledger \in Nat
  BY ConstantsAssumption DEF IInv, TypeOK
<1>3. /\ left \in I128 \cap Nat
      /\ withdrawn[ch] + Unpaid(t) \in I128 \cap Nat
      /\ left <= deposited[ch] - (withdrawn[ch] + Unpaid(t))
  BY <1>1, PayingKeepsFunds
<1>4. \E B : r \in Seq(B) /\ \E i \in 1 .. Len(r) : r[i] = closed
  <2> HIDE DEF closed, left
  <2>1. PICK A, B : Withdraw(t) \in Seq(A) /\ RefundOf(t, left) \in Seq(B)
    BY EmissionsAreSequences
  <2>2. closing \in Seq({closed}) /\ Len(closing) = 1 /\ closing[1] = closed
    BY EmissionsAreSequences
  <2> HIDE DEF closing
  <2>3. /\ Withdraw(t) \o closing \in Seq(A \cup {closed})
        /\ Len(Withdraw(t)) + 1 \in 1 .. Len(Withdraw(t) \o closing)
        /\ (Withdraw(t) \o closing)[Len(Withdraw(t)) + 1] = closed
    BY <2>1, <2>2, Concatenation
  <2>4. /\ Withdraw(t) \o closing \o RefundOf(t, left) \in Seq((A \cup {closed}) \cup B)
        /\ \A i \in 1 .. Len(Withdraw(t) \o closing) :
              /\ i \in 1 .. Len(Withdraw(t) \o closing \o RefundOf(t, left))
              /\ (Withdraw(t) \o closing \o RefundOf(t, left))[i] = (Withdraw(t) \o closing)[i]
    BY <2>1, <2>3, Concatenation
  <2> QED
    BY <1>1, <2>3, <2>4
<1> HIDE DEF ch, left, closing
<1>5. /\ EventsInv'
      /\ \A d \in ChannelId : /\ PastDeadline(d) => PastDeadline(d)'
                              /\ Announced(d) /\ effective'[d] = effective[d] => Announced(d)'
      /\ \E j \in 1 .. Len(events'[ch]) : events'[ch][j] = closed
  <2>1. /\ EventsInv'
        /\ \A d \in ChannelId : \A i \in 1 .. Len(events[d]) :
              i \in 1 .. Len(events'[d]) /\ events'[d][i] = events[d][i]
        /\ \A i \in 1 .. Len(r) : \E j \in 1 .. Len(events'[ch]) : events'[ch][j] = r[i]
    BY <1>1, <1>4, EmitKeepsEvents DEF IInv
  <2> QED
    BY <1>4, <2>1, ToldStaysTold
<1>6. PastDeadline(ch)' /\ Announced(ch)'
  <2>1. effective'[ch] = ledger /\ ledger \in 0 .. ledger'
    BY <1>1, <1>2
  <2>2. PICK j \in 1 .. Len(events'[ch]) : events'[ch][j] = Emitted("close", <<ScvU32(ledger)>>)
    BY <1>5
  <2> QED
    BY <2>1, <2>2 DEF PastDeadline, Announced
<1>7. balance'[ch] \in {0, left} /\ 0 <= left
  BY <1>1, <1>2, <1>3
<1>8. FundsInv'
  <2> SUFFICES ASSUME NEW d \in ChannelId
               PROVE  (/\ balance[d] <= deposited[d] - withdrawn[d]
                       /\ effective[d] # None => Announced(d)
                       /\ balance[d] = deposited[d] - withdrawn[d] \/ PastDeadline(d))'
    BY DEF FundsInv
  <2>1. CASE d = ch
    BY <1>1, <1>2, <1>3, <1>6, <1>7, <2>1
  <2>2. CASE d # ch
    BY <1>1, <1>2, <1>5, <2>2 DEF FundsInv
  <2> QED
    BY <2>1, <2>2
<1>9. withdrawn' \in [ChannelId -> I128 \cap Nat] /\ effective' \in [ChannelId -> Nat \cup {None}]
  BY <1>1, <1>2, <1>3
<1>10. balance' \in [ChannelId -> I128 \cap Nat]
  <2>1. 0 \in I128 \cap Nat
    BY I128IsInt
  <2> QED
    BY <1>1, <1>2, <1>3, <2>1
<1>11. ToldInv'
  <2> DEFINE terms == Terms[ch]
             gone == deposited[ch] - withdrawn[ch] - balance[ch]
  <2>1. /\ withdrawn[ch] \in Int /\ deposited[ch] \in Int /\ balance[ch] \in Int /\ gone \in Int
        /\ Tells(events[ch], terms, withdrawn[ch], gone)
    BY <1>1, LeftIsInt DEF IInv
  <2>2. PICK S : events[ch] \in Seq(S)
    BY <1>1 DEF IInv, EventsInv
  <2>3. Unpaid(t) \in Int /\ Unpaid(t) \in I128 /\ left \in Int /\ left \in I128
    BY <1>1, <1>3, UnpaidIsI128 DEF ch
  <2>4. withdrawn'[ch] = withdrawn[ch] + Unpaid(t) /\ deposited'[ch] = deposited[ch]
    BY <1>1, <1>2
  <2>5. PICK A, B : Withdraw(t) \in Seq(A) /\ RefundOf(t, left) \in Seq(B)
    BY EmissionsAreSequences
  <2>6. closing = <<closed>> /\ closing \in Seq({closed}) /\ closed.topic = "close"
    BY EmissionsAreSequences DEF closing, Emitted
  <2> HIDE DEF closed
  <2> DEFINE all == S \cup A \cup {closed} \cup B
             paid == events[ch] \o Withdraw(t)
             ended == paid \o closing
  <2>7. /\ events[ch] \in Seq(all) /\ Withdraw(t) \in Seq(all)
        /\ closing \in Seq(all) /\ RefundOf(t, left) \in Seq(all)
    <3>1. S \subseteq all /\ A \subseteq all /\ {closed} \subseteq all /\ B \subseteq all
      OBVIOUS
    <3> HIDE DEF all
    <3> QED
      BY <2>2, <2>5, <2>6, <3>1, SeqMonotonic
  <2> HIDE DEF all, gone, terms
  <2>8. paid \in Seq(all) /\ ended \in Seq(all) /\ Withdraw(t) \o closing \in Seq(all)
    BY <2>7, ConcatProperties
  <2>9. /\ events[ch] \o (Withdraw(t) \o closing) = ended
        /\ events[ch] \o (Withdraw(t) \o closing \o RefundOf(t, left)) = ended \o RefundOf(t, left)
    <3> HIDE DEF paid, ended
    <3>1. PICK a \in Seq(all), b \in Seq(all), c \in Seq(all), d \in Seq(all) :
              /\ a = events[ch] /\ b = Withdraw(t) /\ c = closing /\ d = RefundOf(t, left)
      BY <2>7
    <3>2. (a \o b) \o c = a \o (b \o c)
      BY ConcatAssociative
    <3>3. b \o c \in Seq(all)
      BY ConcatProperties
    <3>4. (a \o (b \o c)) \o d = a \o ((b \o c) \o d)
      BY <3>3, ConcatAssociative
    <3> QED
      BY <3>1, <3>2, <3>4, Zenon DEF paid, ended
  <2>10. Tells(paid, terms, withdrawn'[ch], gone)
    BY <2>1, <2>2, <2>3, <2>4, TransfersAreTold DEF ch, terms
  <2> HIDE DEF paid
  <2>11. withdrawn'[ch] \in Int
    BY <2>1, <2>3, <2>4
  <2>12. Tells(ended, terms, withdrawn'[ch], gone)
    BY <2>1, <2>6, <2>8, <2>10, <2>11, I128IsInt, EventAdds
  <2> HIDE DEF ended
  <2>13. Tells(ended \o RefundOf(t, left), terms, withdrawn'[ch], gone + left)
    BY <2>1, <2>3, <2>8, <2>11, <2>12, TransfersAreTold DEF ch, terms
  <2>14. \/ /\ balance' = [balance EXCEPT ![ch] = 0]
            /\ r = Withdraw(t) \o closing \o RefundOf(t, left)
         \/ balance' = [balance EXCEPT ![ch] = left] /\ r = Withdraw(t) \o closing
    BY <1>1
  <2>15. Tells(events[ch] \o r, terms, withdrawn'[ch],
               deposited'[ch] - withdrawn'[ch] - balance'[ch])
    <3>1. left = balance[ch] - Unpaid(t) /\ gone = deposited[ch] - withdrawn[ch] - balance[ch]
      BY DEF left, gone
    <3>2. CASE balance' = [balance EXCEPT ![ch] = 0]
                /\ r = Withdraw(t) \o closing \o RefundOf(t, left)
      <4>1. balance'[ch] = 0
        BY <1>1, <1>2, <3>2
      <4>2. deposited'[ch] - withdrawn'[ch] - balance'[ch] = gone + left
        BY <2>1, <2>3, <2>4, <3>1, <4>1
      <4> QED
        BY <2>9, <2>13, <3>2, <4>2
    <3>3. CASE balance' = [balance EXCEPT ![ch] = left] /\ r = Withdraw(t) \o closing
      <4>1. balance'[ch] = left
        BY <1>1, <1>2, <3>3
      <4>2. deposited'[ch] - withdrawn'[ch] - balance'[ch] = gone
        BY <2>1, <2>3, <2>4, <3>1, <4>1
      <4> QED
        BY <2>9, <2>12, <3>3, <4>2
    <3> QED
      BY <2>14, <3>2, <3>3
  <2>16. \A d \in ChannelId \ {ch} : /\ deposited'[d] = deposited[d] /\ withdrawn'[d] = withdrawn[d]
                                     /\ balance'[d] = balance[d]
    BY <1>1, <1>2
  <2> QED
    BY <1>1, <2>15, <2>16, EmissionTells DEF IInv, terms
<1> QED
  BY <1>1, <1>2, <1>5, <1>8, <1>9, <1>10, <1>11 DEF ContractInv

LEMMA CloseStartKeepsContract ==
    ASSUME IInv, NEW t, Sensible(t), Accepts(t), ApplyCloseStart(t), ledger' = ledger
    PROVE  ContractInv'
<1> DEFINE ch == t.channel
           at == ledger + Terms[ch].period
           closed == Emitted("close", <<ScvU32(at)>>)
           closing == <<closed>>
<1>1. /\ ch \in ChannelId /\ effective' = [effective EXCEPT ![ch] = at]
      /\ Emit(ch, closing) /\ UNCHANGED <<deposited, withdrawn, balance>>
  BY DEF ApplyCloseStart, Sensible
<1>2. at \in Nat /\ effective \in [ChannelId -> Nat \cup {None}] /\ FundsInv
  BY <1>1, ConstantsAssumption DEF IInv, TypeOK
<1>3. closing \in Seq({closed}) /\ 1 \in 1 .. Len(closing) /\ closing[1] = closed
  BY EmissionsAreSequences
<1> HIDE DEF ch, closing
<1>4. /\ EventsInv'
      /\ \A d \in ChannelId : \A i \in 1 .. Len(events[d]) :
            i \in 1 .. Len(events'[d]) /\ events'[d][i] = events[d][i]
      /\ \A i \in 1 .. Len(closing) : \E j \in 1 .. Len(events'[ch]) : events'[ch][j] = closing[i]
  <2>1. EventsInv
    BY DEF IInv
  <2> HIDE DEF closed, at
  <2> QED
    BY <1>1, <1>3, <2>1, EmitKeepsEvents
<1>5. /\ EventsInv'
      /\ \A d \in ChannelId : /\ PastDeadline(d) => PastDeadline(d)'
                              /\ Announced(d) /\ effective'[d] = effective[d] => Announced(d)'
      /\ \E j \in 1 .. Len(events'[ch]) : events'[ch][j] = closed
  <2> HIDE DEF closed
  <2> QED
    BY <1>3, <1>4, ToldStaysTold
<1>6. Announced(ch)'
  BY <1>1, <1>2, <1>5 DEF Announced
<1>7. FundsInv'
  BY <1>1, <1>2, <1>5, <1>6 DEF FundsInv
<1>8. ToldInv'
  <2> DEFINE gone == deposited[ch] - withdrawn[ch] - balance[ch]
  <2>1. /\ withdrawn[ch] \in Int /\ gone \in Int
        /\ Tells(events[ch], Terms[ch], withdrawn[ch], gone)
        /\ \E S : events[ch] \in Seq(S)
    BY <1>1, LeftIsInt DEF IInv
  <2> HIDE DEF gone
  <2>2. closing = <<closed>> /\ closed.topic = "close"
    BY DEF closing, Emitted
  <2> HIDE DEF closed
  <2>3. Tells(events[ch] \o closing, Terms[ch], withdrawn[ch], gone)
    BY <2>1, <2>2, I128IsInt, EventAdds
  <2> QED
    BY <1>1, <2>3, EmissionTells DEF IInv, gone
<1> QED
  BY <1>1, <1>2, <1>5, <1>7, <1>8 DEF ContractInv, IInv, TypeOK

\* A refund is taken after the deadline that was announced.
LEMMA RefundKeepsContract ==
    ASSUME IInv, NEW t, Sensible(t), Accepts(t), ApplyRefund(t), ledger' = ledger
    PROVE  ContractInv'
<1> DEFINE ch == t.channel
<1>1. /\ t.fn = "refund" /\ ch \in ChannelId
      /\ balance' = [balance EXCEPT ![ch] = 0]
      /\ Emit(ch, RefundOf(t, balance[ch])) /\ UNCHANGED <<deposited, withdrawn, effective>>
  BY DEF ApplyRefund, Sensible
<1>2. /\ {deposited, withdrawn, balance} \subseteq [ChannelId -> I128 \cap Nat]
      /\ effective \in [ChannelId -> Nat \cup {None}] /\ FundsInv /\ ledger \in Nat
  BY ConstantsAssumption DEF IInv, TypeOK
<1>3. effective[ch] # None /\ ledger >= effective[ch]
  BY <1>1 DEF Accepts
<1>4. effective[ch] \in 0 .. ledger /\ Announced(ch)
  BY <1>1, <1>2, <1>3 DEF FundsInv
<1>5. PastDeadline(ch)
  BY <1>4 DEF Announced, PastDeadline
<1>6. PICK B : RefundOf(t, balance[ch]) \in Seq(B)
  BY EmissionsAreSequences
<1> HIDE DEF ch
<1>7. /\ EventsInv'
      /\ \A d \in ChannelId : /\ PastDeadline(d) => PastDeadline(d)'
                              /\ Announced(d) => Announced(d)'
  <2>1. /\ EventsInv'
        /\ \A d \in ChannelId : \A i \in 1 .. Len(events[d]) :
              i \in 1 .. Len(events'[d]) /\ events'[d][i] = events[d][i]
    BY <1>1, <1>6, EmitKeepsEvents DEF IInv
  <2> QED
    BY <1>1, <2>1, ToldStaysTold
<1>8. 0 <= deposited[ch] - withdrawn[ch]
  <2>1. balance[ch] \in Nat /\ balance[ch] <= deposited[ch] - withdrawn[ch]
    BY <1>1, <1>2 DEF FundsInv
  <2> QED
    BY <1>1, <1>2, <2>1
<1>9. FundsInv'
  BY <1>1, <1>2, <1>5, <1>7, <1>8 DEF FundsInv
<1>10. ToldInv'
  <2> DEFINE gone == deposited[ch] - withdrawn[ch] - balance[ch]
  <2>1. /\ withdrawn[ch] \in Int /\ deposited[ch] \in Int /\ balance[ch] \in Int /\ gone \in Int
        /\ Tells(events[ch], Terms[ch], withdrawn[ch], gone)
        /\ \E S : events[ch] \in Seq(S)
    BY <1>1, LeftIsInt DEF IInv
  <2>2. balance'[ch] = 0 /\ balance[ch] \in I128
    BY <1>1, <1>2
  <2>3. deposited'[ch] - withdrawn'[ch] - balance'[ch] = gone + balance[ch]
    BY <1>1, <2>1, <2>2
  <2> HIDE DEF gone
  <2>4. Tells(events[ch] \o RefundOf(t, balance[ch]), Terms[ch], withdrawn[ch], gone + balance[ch])
    BY <2>1, <2>2, TransfersAreTold DEF ch
  <2>5. \A d \in ChannelId \ {ch} : balance'[d] = balance[d]
    BY <1>1, <1>2
  <2> QED
    BY <1>1, <2>3, <2>4, <2>5, EmissionTells DEF IInv
<1> QED
  BY <1>1, <1>2, <1>7, <1>9, <1>10, I128IsInt DEF ContractInv

\* A payment is of an amount the payer signed for this channel, and leaves
\* withdrawn the highest of them.
LEMMA ApplyPays ==
    ASSUME IInv, NEW c \in Call, LET t == tx[c] IN
           /\ t # NoTx /\ Accepts(t)
           /\ ApplyTopUp(t) \/ ApplySettle(t) \/ ApplyClose(t) \/ ApplyCloseStart(t) \/ ApplyRefund(t)
    PROVE  LET t == tx[c]
               ch == t.channel
           IN  IF t.fn \in {"settle", "close"}
               THEN /\ Agreed(ch, AmountOf(t)) \in Commitments
                    /\ withdrawn' = [withdrawn EXCEPT ![ch] =
                                        IF AmountOf(t) > @ THEN AmountOf(t) ELSE @]
               ELSE UNCHANGED withdrawn
<1> DEFINE t == tx[c]
           ch == t.channel
<1>1. /\ Sensible(t)
      /\ t.fn \in {"settle", "close"} => \E sig \in Commitments : t.args[2] = ScvBytes(sig)
  BY ConstantsAssumption DEF IInv, CallInv, Encodes, Sensible
<1>2. CASE t.fn \in {"settle", "close"}
  <2>1. withdrawn' = [withdrawn EXCEPT ![ch] = @ + Unpaid(t)]
    BY <1>2 DEF ApplyTopUp, ApplySettle, ApplyClose, ApplyCloseStart, ApplyRefund
  <2>2. withdrawn[ch] + Unpaid(t) = IF AmountOf(t) > withdrawn[ch] THEN AmountOf(t) ELSE withdrawn[ch]
    BY <1>1, <1>2, UnpaidIsTheRest DEF IInv
  <2>3. PICK sig \in Commitments : t.args[2] = ScvBytes(sig)
    BY <1>1, <1>2
  <2>4. PICK a \in I128 : t.args[1] = ScvI128(a)
    BY <1>1, <1>2 DEF Sensible
  <2>5. AmountOf(t) = a
    BY <2>4, I128RoundTrip DEF AmountOf
  <2>6. Verifies(Terms[ch].key, Prepared(ch, t.args[1]), Decode(t.args[2]))
    BY <1>2 DEF Accepts
  <2>7. Decode(t.args[2]) = sig
    BY <2>3 DEF ScvBytes, Decode
  <2>8. sig = Agreed(ch, a)
    BY <1>1, <2>4, <2>6, <2>7, VerifiesWhatIsAgreed DEF Sensible
  <2> HIDE DEF t
  <2>9. withdrawn' = [withdrawn EXCEPT ![ch] = IF AmountOf(t) > @ THEN AmountOf(t) ELSE @]
    BY <2>1, <2>2
  <2> QED
    BY <1>2, <2>5, <2>8, <2>9 DEF t
<1>3. CASE t.fn \notin {"settle", "close"}
  BY <1>3 DEF ApplyTopUp, ApplySettle, ApplyClose, ApplyCloseStart, ApplyRefund
<1> QED
  BY <1>2, <1>3

\* A top-up is counted once for all the calls S that sent the transaction.
LEMMA ApplyTopsUp ==
    ASSUME IInv, NEW S \in SUBSET Call, NEW c \in S,
           \A d \in S : fate[d] = "open" /\ tx[d] = tx[c],
           fate' = [d \in Call |-> IF d \in S THEN "done" ELSE fate[d]],
           UNCHANGED <<tx, want>>,
           \/ ApplyTopUp(tx[c]) \/ ApplySettle(tx[c]) \/ ApplyClose(tx[c])
           \/ ApplyCloseStart(tx[c]) \/ ApplyRefund(tx[c])
    PROVE  TopUpsInv'
<1> DEFINE t == tx[c]
           ch == t.channel
<1>1. /\ t # NoTx /\ ch \in ChannelId
      /\ \A d \in S : want[d].fn = t.fn /\ want[d].channel = ch /\ Encodes(t, want[d])
  BY ConstantsAssumption DEF IInv, CallInv, Encodes
<1> SUFFICES ASSUME NEW e \in ChannelId
             PROVE  \E T \in SUBSET TopUps(e)' :
                        /\ IsFiniteSet(T)
                        /\ {tx[d] : d \in T} = {tx[d] : d \in TopUps(e)'}
                        /\ deposited'[e] - Terms[e].amount = Total(Only(want, T))
  BY DEF TopUpsInv
<1>2. PICK T \in SUBSET TopUps(e) :
               /\ IsFiniteSet(T)
               /\ {tx[d] : d \in T} = {tx[d] : d \in TopUps(e)}
               /\ deposited[e] - Terms[e].amount = Total(Only(want, T))
  BY DEF IInv, TopUpsInv
<1>3. TopUps(e)' = TopUps(e) \cup {d \in S : t.fn = "top_up" /\ e = ch}
  BY <1>1 DEF TopUps, Executed
<1>4. CASE t.fn = "top_up" /\ e = ch
  <2>1. /\ TopUps(e)' = TopUps(e) \cup S
        /\ c \notin T /\ T \subseteq Call
    <3>1. T \subseteq TopUps(e)
      BY <1>2
    <3> QED
      BY <1>3, <1>4, <3>1 DEF TopUps, Executed
  <2>2. deposited' = [deposited EXCEPT ![ch] = @ + AmountOf(t)]
    BY <1>4 DEF ApplyTopUp, ApplySettle, ApplyClose, ApplyCloseStart, ApplyRefund
  <2>3. want[c].amount = AmountOf(t) /\ AmountOf(t) \in Int
    BY <1>1, <1>4, I128RoundTrip, I128IsInt DEF Encodes, AmountOf
  <2>4. \A d \in T \cup {c} : want[d].amount \in Int
    <3>1. ASSUME NEW d \in T PROVE want[d].amount \in Int
      <4>1. d \in Call /\ fate[d] = "done" /\ want[d].fn = "top_up"
        BY <1>2 DEF TopUps, Executed
      <4>2. Encodes(tx[d], want[d])
        BY <4>1 DEF IInv, CallInv
      <4> QED
        BY <4>1, <4>2, I128IsInt DEF Encodes
    <3> QED
      BY <2>3, <3>1
  <2>5. Total(Only(want, T \cup {c})) = want[c].amount + Total(Only(want, T))
    <3>1. IsFiniteSet(T \cup {c}) /\ (T \cup {c}) \ {c} = T /\ c \in T \cup {c}
      BY <1>2, <2>1, FS_AddElement
    <3> QED
      BY <2>4, <3>1, TotalOfRest
  <2>6. deposited[ch] \in Int /\ Terms[ch].amount \in Int /\ deposited'[ch] = deposited[ch] + AmountOf(t)
    <3>1. deposited \in [ChannelId -> I128 \cap Nat] /\ Terms[ch].amount \in Nat
      BY <1>1, ConstantsAssumption DEF IInv, TypeOK
    <3> HIDE DEF t, ch
    <3> QED
      BY <1>1, <2>2, <3>1
  <2>7. deposited'[e] - Terms[e].amount = Total(Only(want, T \cup {c}))
    <3>1. deposited[ch] - Terms[ch].amount = Total(Only(want, T))
      BY <1>2, <1>4
    <3> HIDE DEF t, ch
    <3> QED
      BY <1>4, <2>3, <2>5, <2>6, <3>1
  <2>8. T \cup {c} \subseteq TopUps(e)' /\ IsFiniteSet(T \cup {c})
    BY <1>2, <2>1, FS_AddElement
  <2>9. {tx[d] : d \in T \cup {c}} = {tx[d] : d \in TopUps(e)'}
    <3>1. \A d \in S : tx[d] = tx[c]
      OBVIOUS
    <3> HIDE DEF t, ch
    <3>2. {tx[d] : d \in T \cup {c}} = {tx[d] : d \in T} \cup {tx[c]}
      OBVIOUS
    <3>3. {tx[d] : d \in TopUps(e) \cup S} = {tx[d] : d \in TopUps(e)} \cup {tx[c]}
      BY <3>1
    <3> QED
      BY <1>2, <2>1, <3>2, <3>3
  <2> QED
    BY <2>7, <2>8, <2>9
<1>5. CASE ~(t.fn = "top_up" /\ e = ch)
  <2>1. TopUps(e)' = TopUps(e)
    BY <1>3, <1>5
  <2>2. deposited'[e] = deposited[e]
    <3>1. deposited \in [ChannelId -> I128 \cap Nat]
      BY DEF IInv, TypeOK
    <3> QED
      BY <1>5, <3>1 DEF ApplyTopUp, ApplySettle, ApplyClose, ApplyCloseStart, ApplyRefund
  <2> QED
    BY <1>2, <2>1, <2>2
<1> QED
  BY <1>4, <1>5

LEMMA ApplyKeepsIInv ==
    ASSUME IInv, NEW S \in SUBSET Call, Apply(S)
    PROVE  IInv'
<1>1. PICK c \in S :
          /\ Accepts(tx[c])
          /\ \/ ApplyTopUp(tx[c]) \/ ApplySettle(tx[c]) \/ ApplyClose(tx[c])
             \/ ApplyCloseStart(tx[c]) \/ ApplyRefund(tx[c])
  BY DEF Apply
<1>2. /\ \A d \in S : fate[d] = "open" /\ tx[d] = tx[c]
      /\ fate' = [d \in Call |-> IF d \in S THEN "done" ELSE fate[d]]
      /\ UNCHANGED <<pc, tx, out, ledger, rows, want>> /\ c \in Call
  BY <1>1 DEF Apply, Conclude
<1> DEFINE t == tx[c]
           ch == t.channel
<1>3. /\ t # NoTx /\ ch \in ChannelId /\ Sensible(t)
      /\ \A d \in S : Encodes(t, want[d])
  BY <1>1, <1>2, ConstantsAssumption DEF IInv, CallInv, Encodes, Sensible
<1>4. ContractInv'
  BY <1>1, <1>2, <1>3, TopUpKeepsContract, SettleKeepsContract, CloseKeepsContract,
     CloseStartKeepsContract, RefundKeepsContract
<1>5. TypeOK' /\ VerdictsAreTrue'
  BY <1>2, <1>4 DEF IInv, TypeOK, VerdictsAreTrue, ContractInv, Fate
<1>6. CallInv'
  BY <1>2 DEF IInv, CallInv
<1>7. PaidInv'
  <2>1. IF t.fn \in {"settle", "close"}
        THEN /\ Agreed(ch, AmountOf(t)) \in Commitments
             /\ withdrawn' = [withdrawn EXCEPT ![ch] = IF AmountOf(t) > @ THEN AmountOf(t) ELSE @]
        ELSE UNCHANGED withdrawn
    BY <1>1, <1>2, <1>3, ApplyPays
  <2>2. \A d \in S : /\ want[d].fn = t.fn /\ want[d].channel = ch
                     /\ t.fn \in {"settle", "close"} => want[d].amount = AmountOf(t)
    BY <1>3, I128RoundTrip DEF Encodes, AmountOf
  <2>3. \A e \in ChannelId :
            Settles(e)' = Settles(e) \cup {d \in S : t.fn \in {"settle", "close"} /\ e = ch}
    BY <1>2, <2>2 DEF Settles, Executed
  <2>4. \A e \in ChannelId : withdrawn[e] \in Int
    BY DEF IInv, TypeOK
  <2>5. t.fn \in {"settle", "close"} => AmountOf(t) \in Int
    BY <1>3, AmountIsI128, I128IsInt
  <2>6. \A e \in ChannelId : \A d \in Settles(e) : want[d].amount \in Int
    <3> SUFFICES ASSUME NEW e \in ChannelId, NEW d \in Settles(e) PROVE want[d].amount \in Int
      OBVIOUS
    <3>1. d \in Call /\ fate[d] = "done" /\ want[d].fn \in {"settle", "close"}
      BY DEF Settles, Executed
    <3>2. Encodes(tx[d], want[d])
      BY <3>1 DEF IInv, CallInv
    <3> QED
      BY <3>1, <3>2, I128IsInt DEF Encodes
  <2>7. \A e \in ChannelId :
          /\ withdrawn[e] = 0 \/ \E d \in Settles(e) : want[d].amount = withdrawn[e]
          /\ \A d \in Settles(e) :
                want[d].amount <= withdrawn[e] /\ Agreed(e, want[d].amount) \in Commitments
    BY DEF IInv, PaidInv
  <2> DEFINE Paid(e) ==
        /\ withdrawn'[e] = 0 \/ \E d \in Settles(e)' : want[d].amount = withdrawn'[e]
        /\ \A d \in Settles(e)' :
              want[d].amount <= withdrawn'[e] /\ Agreed(e, want[d].amount) \in Commitments
  <2>8. ASSUME NEW e \in ChannelId PROVE Paid(e)
    <3> HIDE DEF t
    <3>1. CASE t.fn \in {"settle", "close"} /\ e = ch
      <4>1. Settles(e)' = Settles(e) \cup S
        BY <2>3, <3>1
      <4>2. /\ withdrawn'[e] = IF AmountOf(t) > withdrawn[e] THEN AmountOf(t) ELSE withdrawn[e]
            /\ Agreed(e, AmountOf(t)) \in Commitments
        BY <2>1, <3>1 DEF IInv, TypeOK
      <4>3. /\ \A d \in S : want[d].amount = AmountOf(t)
            /\ AmountOf(t) \in Int /\ withdrawn[e] \in Int
        BY <2>2, <2>4, <2>5, <3>1
      <4> QED
        BY <1>1, <2>6, <2>7, <4>1, <4>2, <4>3
    <3>2. CASE ~(t.fn \in {"settle", "close"} /\ e = ch)
      <4>1. Settles(e)' = Settles(e)
        BY <2>3, <3>2
      <4>2. withdrawn'[e] = withdrawn[e]
        BY <2>1, <3>2 DEF IInv, TypeOK
      <4> QED
        BY <2>7, <4>1, <4>2
    <3> QED
      BY <3>1, <3>2
  <2> QED
    BY <1>2, <2>8 DEF PaidInv, Agreed
<1>8. TopUpsInv'
  BY <1>1, <1>2, <1>3, ApplyTopsUp
<1> QED
  BY <1>4, <1>5, <1>6, <1>7, <1>8 DEF IInv, ContractInv

-----------------------------------------------------------------------------
LEMMA NextKeepsIInv == IInv /\ [Next]_vars => IInv'
<1> SUFFICES ASSUME IInv, [Next]_vars PROVE IInv'
  OBVIOUS
<1>1. ASSUME NEW o \in Submitted, Submit(o) PROVE IInv'
  BY <1>1, SubmitKeepsIInv
<1>2. ASSUME NEW c \in Call, Begin(c) PROVE IInv'
  BY <1>2, BeginKeepsIInv
<1>3. ASSUME NEW c \in Call, Advance(c) PROVE IInv'
  BY <1>3, AdvanceKeepsIInv
<1>4. ASSUME NEW S \in SUBSET Call, Apply(S) PROVE IInv'
  BY <1>4, ApplyKeepsIInv
<1>5. ASSUME NEW S \in SUBSET Call, Reject(S) PROVE IInv'
  BY <1>5, RejectKeepsIInv
<1>6. CASE LedgerCloses
  BY <1>6, LedgerClosesKeepsIInv
<1>7. CASE UNCHANGED vars
  <2>1. UNCHANGED <<contract, ledger, rows, want, pc, tx, fate, out>>
    BY <1>7 DEF vars, submission
  <2>2. CallInv'
    BY <2>1 DEF IInv, CallInv
  <2> QED
    BY <2>1, <2>2, QuietKeepsIInv DEF IInv, TypeOK
<1> QED
  BY <1>1, <1>2, <1>3, <1>4, <1>5, <1>6, <1>7 DEF Next

\* IInv is an invariant: what is deposited and not withdrawn is in the channel
\* until a deadline its events told has passed, and what is withdrawn is the
\* highest amount that was executed.
THEOREM Invariance == Spec => []IInv
<1>1. IInv /\ [Next]_vars => IInv'
  BY NextKeepsIInv
<1> QED
  BY <1>1, InitIInv, PTL DEF Spec

\* The variables have their types: the channel's money stays within the 128
\* bits it is encoded in, never below zero.
THEOREM TypeCorrect == Spec => []TypeOK
<1>1. IInv => TypeOK
  BY DEF IInv
<1> QED
  BY <1>1, Invariance, PTL

\* Custody calls valid exactly what the channel's key signed for this channel,
\* amount and network: channel.go's two ways to build a commitment agree.
THEOREM VerdictsAreRight == Spec => []VerdictsAreTrue
<1>1. IInv => VerdictsAreTrue
  BY DEF IInv
<1> QED
  BY <1>1, Invariance, PTL

\* A channel pays the highest amount that was settled and no sum of them, and
\* each is an amount the payer signed.
THEOREM PaysTheHighest == Spec => []PaidIsCommitted
<1>1. IInv => PaidIsCommitted
  <2> SUFFICES ASSUME IInv, NEW ch \in ChannelId
               PROVE  LET paid == {want[c].amount : c \in Executed(ch, {"settle", "close"})}
                      IN  /\ Withdrawn(ch) \in paid \cup {0}
                          /\ \A amount \in paid :
                                /\ amount <= Withdrawn(ch)
                                /\ [channel |-> ch, network |-> Network, amount |-> amount,
                                    key |-> Terms[ch].key] \in Commitments
                          /\ \A c \in Call :
                                out[c] = "success" /\ want[c].channel = ch
                                    /\ want[c].fn \in {"settle", "close"}
                                  => want[c].amount <= Withdrawn(ch)
    BY DEF PaidIsCommitted
  <2>1. Withdrawn(ch) = withdrawn[ch]
    BY I128RoundTrip DEF IInv, TypeOK, Withdrawn
  <2>2. /\ withdrawn[ch] = 0 \/ \E c \in Settles(ch) : want[c].amount = withdrawn[ch]
        /\ \A c \in Settles(ch) :
              want[c].amount <= withdrawn[ch] /\ Agreed(ch, want[c].amount) \in Commitments
    BY DEF IInv, PaidInv
  <2>3. \A c \in Call : out[c] = "success" => fate[c] = "done"
    BY DEF IInv, CallInv
  <2> QED
    BY <2>1, <2>2, <2>3 DEF Settles, Executed, Agreed
<1> QED
  BY <1>1, Invariance, PTL

\* What a channel's decoded events tell is what its getters answer, and every
\* executed top-up is in what was deposited, once for each transaction.
THEOREM EventsTellTheMoney == Spec => []EventsAndGettersAgree
<1>1. IInv => EventsAndGettersAgree
  <2> SUFFICES ASSUME IInv, NEW ch \in ChannelId
               PROVE  LET topups == Executed(ch, {"top_up"})
                      IN  /\ Withdrawn(ch) = Total(Withdrawals(ch))
                          /\ Balance(ch) = Deposited(ch) - Withdrawn(ch) - Total(Refunds(ch))
                          /\ OpenEvent(ch) =
                                [from |-> From(ch), commitmentKey |-> Terms[ch].key,
                                 to |-> To(ch), token |-> Token(ch), amount |-> Terms[ch].amount,
                                 refundWaitingPeriod |-> RefundWaitingPeriod(ch)]
                          /\ \A i \in DOMAIN Withdrawals(ch) : Withdrawals(ch)[i].to = To(ch)
                          /\ \A i \in DOMAIN Refunds(ch) : Refunds(ch)[i].from = From(ch)
                          /\ \E T \in SUBSET topups :
                                /\ {tx[c] : c \in T} = {tx[c] : c \in topups}
                                /\ Deposited(ch) - OpenEvent(ch).amount
                                      = Total([c \in T |-> want[c]])
    BY DEF EventsAndGettersAgree
  <2>1. /\ Withdrawn(ch) = withdrawn[ch] /\ Deposited(ch) = deposited[ch]
        /\ Balance(ch) = balance[ch]
        /\ withdrawn[ch] \in Int /\ deposited[ch] \in Int /\ balance[ch] \in Int
    BY I128RoundTrip DEF IInv, TypeOK, Withdrawn, Deposited, Balance
  <2>2. Tells(events[ch], Terms[ch], withdrawn[ch], deposited[ch] - withdrawn[ch] - balance[ch])
    BY DEF IInv, ToldInv
  <2>3. Withdrawals(ch) = WithdrawalsIn(events[ch]) /\ Refunds(ch) = RefundsIn(events[ch])
    BY DEF Withdrawals, Refunds, WithdrawalsIn, RefundsIn, Telling, In
  <2>4. Total(Withdrawals(ch)) = withdrawn[ch]
        /\ Total(Refunds(ch)) = deposited[ch] - withdrawn[ch] - balance[ch]
    BY <2>2, <2>3 DEF Tells
  <2>5. Balance(ch) = Deposited(ch) - Withdrawn(ch) - Total(Refunds(ch))
    BY <2>1, <2>4
  <2>6. OpenEvent(ch) =
           [from |-> From(ch), commitmentKey |-> Terms[ch].key, to |-> To(ch),
            token |-> Token(ch), amount |-> Terms[ch].amount,
            refundWaitingPeriod |-> RefundWaitingPeriod(ch)]
    <3>1. events[ch][1] = Opened(Terms[ch])
      BY DEF IInv, EventsInv
    <3>2. DecodeI128(ScvI128(Terms[ch].amount)) = Terms[ch].amount
      BY ConstantsAssumption, I128RoundTrip
    <3> QED
      BY <3>1, <3>2 DEF OpenEvent, DecodeChannelOpenEvent, Opened, Emitted, From, To, Token,
                        RefundWaitingPeriod, ScvBytes, ScvAddress, ScvU32, Decode
  <2>7. /\ \A i \in DOMAIN Withdrawals(ch) : Withdrawals(ch)[i].to = To(ch)
        /\ \A i \in DOMAIN Refunds(ch) : Refunds(ch)[i].from = From(ch)
    <3>1. To(ch) = Terms[ch].to /\ From(ch) = Terms[ch].from
      BY DEF To, From, ScvAddress, Decode
    <3>2. /\ DOMAIN Withdrawals(ch) = In(events[ch], "withdraw")
          /\ DOMAIN Refunds(ch) = In(events[ch], "refund")
      BY DEF Withdrawals, Refunds, Telling, In
    <3> QED
      BY <2>2, <2>3, <3>1, <3>2 DEF Tells
  <2>8. \E T \in SUBSET TopUps(ch) :
            /\ {tx[c] : c \in T} = {tx[c] : c \in TopUps(ch)}
            /\ Deposited(ch) - OpenEvent(ch).amount = Total([c \in T |-> want[c]])
    <3>1. OpenEvent(ch).amount = Terms[ch].amount
      BY <2>6
    <3> QED
      BY <2>1, <3>1 DEF IInv, TopUpsInv, Only
  <2> QED
    BY <2>1, <2>4, <2>5, <2>6, <2>7, <2>8 DEF TopUps
<1> QED
  BY <1>1, Invariance, PTL

\* Until a deadline that the channel's Close events told has passed, a valid
\* commitment that the deposits cover can be settled.
THEOREM ValidIsPayable == Spec => []ValidRowsArePayable
<1>1. IInv => ValidRowsArePayable
  <2> SUFFICES ASSUME IInv, NEW row \in rows, row.valid,
                      row.amount <= Deposited(row.channel),
                      \A i \in DOMAIN events[row.channel] : ~IsPast(events[row.channel][i])
               PROVE  LET ch == row.channel
                          t == [fn |-> "settle", channel |-> ch, signer |-> To(ch),
                                args |-> settleOrCloseArgs(row.amount, row.sig)]
                      IN  Accepts(t) /\ Withdrawn(ch) + Unpaid(t) >= row.amount
    BY DEF ValidRowsArePayable
  <2> DEFINE ch == row.channel
             t == [fn |-> "settle", channel |-> ch, signer |-> To(ch),
                   args |-> settleOrCloseArgs(row.amount, row.sig)]
  <2>1. /\ ch \in ChannelId /\ row.sig \in Commitments
        /\ row.amount \in I128 /\ row.amount \in Nat
    BY DEF IInv, TypeOK, Entry, Custody!Entry
  <2>2. row.sig = Agreed(ch, row.amount)
    BY DEF IInv, VerdictsAreTrue, Agreed
  <2>3. /\ t.fn = "settle" /\ t.channel = ch /\ t.signer = Terms[ch].to
        /\ t.args[1] = ScvI128(row.amount) /\ t.args[2] = ScvBytes(row.sig)
    BY DEF settleOrCloseArgs, To, ScvAddress, Decode
  <2> HIDE DEF t
  <2>4. /\ AmountOf(t) = row.amount /\ Sensible(t)
        /\ Deposited(ch) = deposited[ch] /\ Withdrawn(ch) = withdrawn[ch]
        /\ deposited[ch] \in Nat /\ withdrawn[ch] \in Nat
    BY <2>1, <2>3, I128RoundTrip
    DEF AmountOf, Sensible, Deposited, Withdrawn, IInv, TypeOK
  <2>5. /\ Unpaid(t) \in Nat
        /\ withdrawn[ch] + Unpaid(t) =
              IF row.amount > withdrawn[ch] THEN row.amount ELSE withdrawn[ch]
    BY <2>3, <2>4, UnpaidIsTheRest DEF IInv
  <2>6. ~PastDeadline(ch)
    <3> SUFFICES ASSUME NEW i \in 1 .. Len(events[ch]), NEW l \in 0 .. ledger,
                        events[ch][i] = Emitted("close", <<ScvU32(l)>>)
                 PROVE  FALSE
      BY DEF PastDeadline
    <3>1. IsPast(events[ch][i])
      BY DEF IsPast, Emitted, DecodeChannelCloseEvent, Decode, ScvU32
    <3>2. i \in DOMAIN events[ch]
      BY <2>1 DEF IInv, EventsInv
    <3> QED
      BY <3>1, <3>2
  <2>7. balance[ch] = deposited[ch] - withdrawn[ch]
    BY <2>1, <2>6 DEF IInv, FundsInv
  <2>8. Verifies(Terms[ch].key, Prepared(ch, t.args[1]), Decode(t.args[2]))
    <3>1. Decode(t.args[2]) = row.sig
      BY <2>3 DEF ScvBytes, Decode
    <3> QED
      BY <2>1, <2>2, <2>3, <3>1, VerifiesWhatIsAgreed
  <2>9. Unpaid(t) <= balance[ch]
    <3>1. balance[ch] \in Nat
      BY <2>1 DEF IInv, TypeOK
    <3>2. row.amount <= deposited[ch]
      BY <2>4
    <3> HIDE DEF ch
    <3> QED
      BY <2>1, <2>4, <2>5, <2>7, <3>1, <3>2
  <2>10. Accepts(t)
    BY <2>3, <2>8, <2>9 DEF Accepts
  <2> QED
    BY <2>1, <2>4, <2>5, <2>10 DEF t
<1> QED
  BY <1>1, Invariance, PTL

-----------------------------------------------------------------------------
(* The parts that Channel is composed of.                                  *)

LEMMA CallsSubmit == IInv /\ [Next]_vars => [SubmissionNext]_submission
<1> SUFFICES ASSUME IInv, [Next]_vars PROVE [SubmissionNext]_submission
  OBVIOUS
<1>1. ASSUME NEW c \in Call, Begin(c) PROVE SubmissionNext
  <2>1. PICK t : Prepare(c, t) \/ Refuse(c)
    BY <1>1 DEF Begin, TopUp, Settle, Close, CloseStart, Refund, Invoke
  <2>2. Prepare(c, t) => t = tx'[c]
    BY DEF Prepare, IInv, CallInv
  <2> QED
    BY <2>1, <2>2 DEF SubmissionNext
<1>2. ASSUME NEW c \in Call, Advance(c) PROVE SubmissionNext
  BY <1>2 DEF Advance, SubmissionNext
<1>3. ASSUME NEW S \in SUBSET Call, Apply(S) \/ Reject(S) PROVE SubmissionNext
  BY <1>3 DEF Apply, Reject, SubmissionNext
<1>4. CASE (\E o \in Submitted : Submit(o)) \/ LedgerCloses
  BY <1>4 DEF Submit, LedgerCloses
<1>5. CASE UNCHANGED vars
  BY <1>5 DEF vars
<1> QED
  BY <1>1, <1>2, <1>3, <1>4, <1>5 DEF Next

\* The calls of channel.go go through invokeAndSubmit in every step, and do
\* nothing with a transaction that it does not allow: what module Invoke is
\* proved to implement is all that this module takes of the write path.
THEOREM CallsAreSubmissions == Spec => SubmissionSpec
<1>1. Init => SubmissionInit
  BY DEF Init
<1> QED
  BY <1>1, Invariance, CallsSubmit, PTL DEF Spec, SubmissionSpec

\* The table of commitments is the ledger that module Custody implements, also
\* while calls are under way and the contract moves.
THEOREM CommitmentsAreALedger == Spec => Custody!Spec
<1> DEFINE stored == {Entry(row) : row \in rows}
<1>1. Init => Custody!Init
  BY DEF Init, Custody!Init
<1>2. IInv /\ IInv' /\ [Next]_vars => [Custody!Next]_<<stored, {}>>
  <2> SUFFICES ASSUME IInv, IInv', [Next]_vars PROVE [Custody!Next]_<<stored, {}>>
    OBVIOUS
  <2>1. CASE UNCHANGED rows
    BY <2>1 DEF Entry
  <2>2. ASSUME NEW o \in Submitted, Submit(o) PROVE Custody!Next
    <3>1. PICK row : rows' = rows \cup {row} /\ Custody!Store(Entry(row))
      BY <2>2 DEF Submit
    <3>2. Entry(row) \in Custody!Entry
      BY <3>1 DEF IInv, TypeOK, Entry
    <3> QED
      BY <3>1, <3>2 DEF Custody!Next
  <2>3. UNCHANGED rows \/ \E o \in Submitted : Submit(o)
    BY DEF Next, vars, Begin, TopUp, Settle, Close, CloseStart, Refund, Invoke, Advance, Apply,
           Reject, LedgerCloses
  <2> QED
    BY <2>1, <2>2, <2>3
<1> HIDE DEF stored
<1> QED
  BY <1>1, <1>2, Invariance, PTL DEF Spec, Custody!Spec, stored

=============================================================================
