---------------------------- MODULE RegistryProofs ----------------------------
(***************************************************************************)
(* That statements read as they were asked for, that Anchor returns its    *)
(* own number, that a dispute is resolved only as its consumer agreed, and *)
(* that the registry's events tell what its reads tell, for every number   *)
(* of calls, parties and entries, and every word size.                     *)
(***************************************************************************)
EXTENDS Registry, ScValProofs, SequenceTheorems, FiniteSetTheorems

StatementFields ==
    {"operator", "consumer", "period_start", "period_end", "usage_root", "request_count",
     "token", "amount_billed", "amount_settled", "price_book_version", "protocol",
     "channel", "anchored_ledger", "status"}

\* The stored fields m are what a call of Anchor with w asked for.
Describes(m, w) ==
    /\ DOMAIN m = StatementFields
    /\ m.operator = ScvAddress(w.signer) /\ m.consumer = ScvAddress(w.consumer)
    /\ m.period_start = ScvU32(w.periodStart) /\ m.period_end = ScvU32(w.periodEnd)
    /\ m.usage_root = ScvBytes(w.root) /\ m.request_count = ScvU64(w.requestCount)
    /\ m.token = ScvAddress(w.token)
    /\ m.price_book_version = ScvU32(w.priceBookVersion)
    /\ m.amount_billed = ScvI128(w.billed) /\ m.amount_settled = ScvI128(w.settled)
    /\ m.protocol = scvProtocol(w.protocol) /\ m.channel = scvOptionalAddress(w.channel)

\* The transaction t is what a caller that wants w sends.
Encodes(t, w) ==
    /\ t.fn = w.fn
    /\ w.fn = "anchor" =>
          w \in AnchorWant /\ {w.billed, w.settled} \subseteq I128 /\ t.args = AnchorArgs(w)
    /\ w.fn = "open_dispute" =>
          w \in OpenDisputeWant /\ t.args = OpenDisputeArgs(w)
    /\ w.fn = "resolve_dispute" =>
          /\ w \in ResolveDisputeWant /\ w.credited \in I128 /\ t.entry \in entries
          /\ t.args = ResolveDisputeArgs(w.signer, w.seq, w.resolution, w.credited)

TypeInv ==
    /\ pc \in [Call -> Phase]
    /\ \A c \in Call : pc[c] # "idle" => want[c] \in Want[c]
    /\ fate \in [Call -> Fate]
    /\ out \in [Call -> Outcome]
    /\ number \in [Call -> Nat]

CallInv ==
    /\ DOMAIN tx = Call /\ DOMAIN want = Call /\ DOMAIN result = Call
    /\ \A c \in Call :
          /\ pc[c] = "idle" => tx[c] = NoTx /\ fate[c] = "none" /\ out[c] = "none"
          /\ pc[c] = "send" => tx[c] # NoTx /\ fate[c] = "none"
          /\ fate[c] # "none" => tx[c] # NoTx
          /\ tx[c] # NoTx => Encodes(tx[c], want[c])
          /\ out[c] = "success" =>
                fate[c] = "done" /\ (want[c].fn = "anchor" => number[c] = Decode(result[c]))

\* An entry is for the arguments that its consumer built.
EntriesInv ==
    /\ IsFiniteSet(entries)
    /\ \A e \in entries :
          /\ e.nonce \in 1 .. MaxEntries /\ e.of \in Agreement /\ e.of.credited \in I128
          /\ e.args = ResolveDisputeArgs(e.of.operator, e.of.seq, e.of.resolution, e.of.credited)

Anchored(c, o, seq) ==
    /\ fate[c] = "done" /\ want[c].fn = "anchor" /\ want[c].signer = o
    /\ result[c] = ScvU64(seq) /\ Describes(Statement(o, seq), want[c])

\* Each statement is some executed call's, and each executed call has its own.
StatementsInv ==
    /\ DOMAIN statements = Party
    /\ \A o \in Party :
          /\ \E S : statements[o] \in Seq(S)
          /\ \A seq \in DOMAIN statements[o] : \E c \in Call : Anchored(c, o, seq)
    /\ \A c \in Call : fate[c] = "done" /\ want[c].fn = "anchor" =>
          \E seq \in DOMAIN statements[want[c].signer] : Anchored(c, want[c].signer, seq)

\* The dispute d was resolved as e's consumer and some executed call agree.
ResolvedBy(d, e) ==
    /\ e.of.operator = d.operator /\ e.of.seq = d.seq
    /\ ScvAddress(e.of.consumer) = d.fields.consumer
    /\ d.fields.resolution_hash = ScvBytes(e.of.resolution)
    /\ d.fields.amount_credited = ScvI128(e.of.credited)
    /\ \E c \in Call :
          /\ fate[c] = "done" /\ want[c].fn = "resolve_dispute"
          /\ <<want[c].signer, want[c].seq, want[c].resolution, want[c].credited>>
               = <<d.operator, d.seq, e.of.resolution, e.of.credited>>

IsOpen(d) == d.fields.resolution_hash = ScvVoid

DisputesInv ==
    /\ \A d \in disputes :
          /\ d.operator \in Party /\ d.seq \in DOMAIN statements[d.operator]
          /\ d.fields.consumer = Statement(d.operator, d.seq).consumer
          /\ IF IsOpen(d)
             THEN /\ HasStatus(d.operator, d.seq, "Disputed")
                  /\ d.fields.amount_credited = ScvI128(0)
             ELSE /\ HasStatus(d.operator, d.seq, "Resolved")
                  /\ \E e \in entries : ResolvedBy(d, e)
    /\ \A o \in Party, seq \in Nat : HasStatus(o, seq, "Disputed") =>
          \E d \in disputes : d.operator = o /\ d.seq = seq

AnchorFields(o, seq) ==
    LET s == Statement(o, seq)
    IN  <<s.operator, s.consumer, ScvU64(seq), s.usage_root, s.amount_billed,
          s.amount_settled, s.protocol>>

DisputeFields(d) ==
    <<ScvAddress(d.operator), d.fields.consumer, ScvU64(d.seq), d.fields.reason_hash>>

ResolveFields(d) ==
    <<ScvAddress(d.operator), d.fields.consumer, ScvU64(d.seq), d.fields.resolution_hash,
      d.fields.amount_credited>>

\* Each event is about what is stored, and all that is stored has its event.
EventsInv ==
    /\ \E S : events \in Seq(S)
    /\ \A f : f \in Fields("anchor") <=>
                \E o \in Party : \E seq \in DOMAIN statements[o] : f = AnchorFields(o, seq)
    /\ \A f : f \in Fields("dispute") <=> \E d \in disputes : f = DisputeFields(d)
    /\ \A f : f \in Fields("resolve") <=>
                \E d \in disputes : ~IsOpen(d) /\ f = ResolveFields(d)

\* The dispute with these fields was opened after its statement was anchored,
\* and resolved after it was opened, in the first n ledgers.
InOrder(anchored, fields, n) ==
    \E j, k \in Nat :
        /\ anchored = ScvU32(j) /\ fields.opened_ledger = ScvU32(k) /\ j < k /\ k <= n
        /\ IF fields.resolution_hash = ScvVoid
           THEN fields.resolved_ledger = ScvVoid
           ELSE \E l \in Nat : k < l /\ l <= n /\ fields.resolved_ledger = ScvU32(l)

LedgersInv ==
    /\ \A o \in Party : \A seq \in DOMAIN statements[o] :
          \E j \in Nat : j <= Len(events) /\ Statement(o, seq).anchored_ledger = ScvU32(j)
    /\ \A d \in disputes :
          InOrder(Statement(d.operator, d.seq).anchored_ledger, d.fields, Len(events))

IInv ==
    /\ TypeInv /\ CallInv /\ EntriesInv
    /\ StatementsInv /\ DisputesInv /\ EventsInv /\ LedgersInv

-----------------------------------------------------------------------------
(* Encoding. *)

LEMMA I128Injective ==
    ASSUME NEW v \in I128, NEW w \in I128, ScvI128(v) = ScvI128(w)
    PROVE  v = w
BY I128RoundTrip

LEMMA ZeroIsI128 == 0 \in I128
<1>1. Modulus \div 2 \in Nat \ {0}
  <2>1. Modulus \div 2 = (Word \div 2) * Word /\ Word \div 2 \in Nat \ {0} /\ Word \in Nat \ {0}
    BY HalfWord, WordAssumption
  <2>2. \A a, b \in Nat \ {0} : a * b \in Nat \ {0}
    OBVIOUS
  <2> QED
    BY <2>1, <2>2
<1> QED
  BY <1>1 DEF I128

LEMMA ProtocolRoundTrip ==
    ASSUME NEW p
    PROVE  decodeUnitEnumVariant(scvProtocol(p)) = p
BY DEF decodeUnitEnumVariant, scvProtocol, ScvVec, ScvSymbol, Decode

LEMMA OptionalRoundTrip ==
    ASSUME NEW a
    PROVE  decodeOptional(scvOptionalAddress(a)) = a
<1>1. CASE a = None
  BY <1>1 DEF decodeOptional, scvOptionalAddress, ScvVoid
<1>2. CASE a # None
  <2>1. scvOptionalAddress(a) = [type |-> "address", value |-> a]
    BY <1>2 DEF scvOptionalAddress, ScvAddress
  <2>2. scvOptionalAddress(a).type = "address" /\ scvOptionalAddress(a).value = a
    BY <2>1
  <2> QED
    BY <2>2 DEF decodeOptional, Decode
<1> QED
  BY <1>1, <1>2

\* Reading a statement gives back what was asked for.
LEMMA DescribedIsSaid ==
    ASSUME NEW m, NEW w \in AnchorWant, {w.billed, w.settled} \subseteq I128, Describes(m, w)
    PROVE  Says(decodeStatement(m), w)
<1> DEFINE s == decodeStatement(m)
<1>1. /\ s.operator = w.signer /\ s.consumer = w.consumer /\ s.token = w.token
      /\ s.periodStart = w.periodStart /\ s.periodEnd = w.periodEnd /\ s.root = w.root
      /\ s.requestCount = w.requestCount /\ s.priceBookVersion = w.priceBookVersion
  BY DEF Describes, decodeStatement, Decode, ScvAddress, ScvU32, ScvU64, ScvBytes
<1>2. s.billed = w.billed /\ s.settled = w.settled
  BY I128RoundTrip DEF Describes, decodeStatement
<1>3. s.protocol = w.protocol
  BY ProtocolRoundTrip DEF Describes, decodeStatement
<1>4. s.channel = w.channel
  BY OptionalRoundTrip DEF Describes, decodeStatement
<1> HIDE DEF s
<1>5. \A field \in Terms : s[field] = w[field]
  BY <1>1, <1>2, <1>3, <1>4 DEF Terms
<1> QED
  BY <1>1, <1>5 DEF Says, s

\* A statement describes one call's wants only.
LEMMA DescribesOne ==
    ASSUME NEW m, NEW v \in AnchorWant, NEW w \in AnchorWant,
           {v.billed, v.settled, w.billed, w.settled} \subseteq I128,
           Describes(m, v), Describes(m, w)
    PROVE  v = w
<1>1. /\ v.signer = w.signer /\ v.consumer = w.consumer /\ v.token = w.token
      /\ v.periodStart = w.periodStart /\ v.periodEnd = w.periodEnd /\ v.root = w.root
      /\ v.requestCount = w.requestCount /\ v.priceBookVersion = w.priceBookVersion
  BY DEF Describes, ScvAddress, ScvU32, ScvU64, ScvBytes
<1>2. v.billed = w.billed /\ v.settled = w.settled
  BY I128Injective DEF Describes
<1>3. v.protocol = w.protocol
  <2>1. scvProtocol(v.protocol) = scvProtocol(w.protocol)
    BY DEF Describes
  <2> QED
    BY <2>1, ProtocolRoundTrip
<1>4. v.channel = w.channel
  <2>1. scvOptionalAddress(v.channel) = scvOptionalAddress(w.channel)
    BY DEF Describes
  <2> QED
    BY <2>1, OptionalRoundTrip
<1> QED
  BY <1>1, <1>2, <1>3, <1>4 DEF AnchorWant

-----------------------------------------------------------------------------
(* What the invariant says. *)

\* An executed anchor had amounts that encode.
LEMMA ExecutedAnchors ==
    ASSUME CallInv, NEW c \in Call, fate[c] # "none", want[c].fn = "anchor"
    PROVE  /\ want[c] \in AnchorWant /\ {want[c].billed, want[c].settled} \subseteq I128
           /\ pc[c] # "idle" /\ IsAnchor(c)
BY DEF CallInv, Encodes, IsAnchor

LEMMA IInvImpliesTypeOK == IInv => TypeOK
<1> SUFFICES ASSUME IInv PROVE TypeOK
  OBVIOUS
<1>1. ASSUME NEW o \in Party, NEW seq \in DOMAIN statements[o]
      PROVE  IsI128(Statement(o, seq).amount_billed) /\ IsI128(Statement(o, seq).amount_settled)
  <2>1. PICK c \in Call : Anchored(c, o, seq)
    BY <1>1 DEF IInv, StatementsInv
  <2>2. {want[c].billed, want[c].settled} \subseteq I128
    BY <2>1, ExecutedAnchors DEF IInv, Anchored
  <2> QED
    BY <2>1, <2>2, I128Fits DEF Anchored, Describes, IsI128
<1>2. ASSUME NEW d \in disputes
      PROVE  d.operator \in Party /\ IsI128(d.fields.amount_credited)
  <2>1. \E v \in I128 : d.fields.amount_credited = ScvI128(v)
    BY ZeroIsI128 DEF IInv, DisputesInv, EntriesInv, ResolvedBy
  <2>2. d.operator \in Party
    BY DEF IInv, DisputesInv
  <2> QED
    BY <2>1, <2>2, I128Fits DEF IsI128
<1> QED
  BY <1>1, <1>2 DEF IInv, TypeInv, EntriesInv, TypeOK

\* A stored statement of an executed call reads as that call asked.
LEMMA AnchoredIsRead ==
    ASSUME IInv, NEW c \in Call, NEW o \in Party, NEW seq \in DOMAIN statements[o],
           Anchored(c, o, seq)
    PROVE  IsAnchored(c, o, seq)
<1>1. /\ want[c] \in AnchorWant /\ {want[c].billed, want[c].settled} \subseteq I128
      /\ IsAnchor(c)
  BY ExecutedAnchors DEF IInv, Anchored
<1> QED
  BY <1>1, DescribedIsSaid DEF Anchored, IsAnchored, GetStatement

LEMMA IInvImpliesStatementsAreAsAsked == IInv => StatementsAreAsAsked
<1> SUFFICES ASSUME IInv PROVE StatementsAreAsAsked
  OBVIOUS
<1>1. ASSUME NEW o \in Party, NEW seq \in DOMAIN statements[o]
      PROVE  \E c \in Call : IsAnchored(c, o, seq)
  BY <1>1, AnchoredIsRead DEF IInv, StatementsInv
<1>2. ASSUME NEW c \in Call, fate[c] = "done", IsAnchor(c)
      PROVE  \E seq \in DOMAIN statements[want[c].signer] : IsAnchored(c, want[c].signer, seq)
  <2>1. PICK seq \in DOMAIN statements[want[c].signer] : Anchored(c, want[c].signer, seq)
    BY <1>2 DEF IInv, StatementsInv, IsAnchor
  <2>2. want[c].signer \in Party
    BY <1>2, ExecutedAnchors DEF IInv, IsAnchor, AnchorWant
  <2> QED
    BY <2>1, <2>2, AnchoredIsRead
<1> QED
  BY <1>1, <1>2 DEF StatementsAreAsAsked

\* The number a successful call returned is its own statement's.
LEMMA ReturnedIsAnchored ==
    ASSUME IInv, NEW c \in Call, out[c] = "success", IsAnchor(c)
    PROVE  /\ want[c] \in AnchorWant /\ {want[c].billed, want[c].settled} \subseteq I128
           /\ number[c] \in DOMAIN statements[want[c].signer]
           /\ Describes(Statement(want[c].signer, number[c]), want[c])
<1>1. fate[c] = "done" /\ want[c].fn = "anchor" /\ number[c] = Decode(result[c])
  BY DEF IInv, CallInv, IsAnchor
<1>2. PICK seq \in DOMAIN statements[want[c].signer] : Anchored(c, want[c].signer, seq)
  BY <1>1 DEF IInv, StatementsInv
<1>3. number[c] = seq
  BY <1>1, <1>2 DEF Anchored, ScvU64, Decode
<1> QED
  BY <1>1, <1>2, <1>3, ExecutedAnchors DEF IInv, Anchored

LEMMA IInvImpliesAnchorReturnsItsOwn == IInv => AnchorReturnsItsOwn
<1> SUFFICES ASSUME IInv, NEW c \in Call, out[c] = "success", IsAnchor(c)
             PROVE  /\ number[c] \in ListStatements(want[c].signer, want[c].consumer)
                    /\ Says(GetStatement(want[c].signer, number[c]), want[c])
                    /\ \A d \in Call :
                          out[d] = "success" /\ IsAnchor(d) /\ want[d].signer = want[c].signer
                            /\ number[d] = number[c] => want[d] = want[c]
  BY DEF AnchorReturnsItsOwn
<1>1. number[c] \in ListStatements(want[c].signer, want[c].consumer)
  BY ReturnedIsAnchored DEF ListStatements, Describes
<1>2. Says(GetStatement(want[c].signer, number[c]), want[c])
  BY ReturnedIsAnchored, DescribedIsSaid DEF GetStatement
<1>3. ASSUME NEW d \in Call, out[d] = "success", IsAnchor(d),
             want[d].signer = want[c].signer, number[d] = number[c]
      PROVE  want[d] = want[c]
  <2>1. /\ want[c] \in AnchorWant /\ {want[c].billed, want[c].settled} \subseteq I128
        /\ Describes(Statement(want[c].signer, number[c]), want[c])
    BY ReturnedIsAnchored
  <2>2. /\ want[d] \in AnchorWant /\ {want[d].billed, want[d].settled} \subseteq I128
        /\ Describes(Statement(want[c].signer, number[c]), want[d])
    BY <1>3, ReturnedIsAnchored
  <2> QED
    BY <2>1, <2>2, DescribesOne
<1> QED
  BY <1>1, <1>2, <1>3

LEMMA OpenIsUnresolved ==
    ASSUME IInv, NEW d \in disputes
    PROVE  IsOpen(d) <=> GetDispute(d).resolution = None
<1>1. CASE IsOpen(d)
  BY <1>1 DEF IsOpen, GetDispute, decodeDispute, decodeOptional, ScvVoid
<1>2. CASE ~IsOpen(d)
  <2>1. PICK e \in entries : ResolvedBy(d, e)
    BY <1>2 DEF IInv, DisputesInv
  <2>2. e.of.resolution \in Digest
    BY <2>1, CallersAssumption DEF IInv, EntriesInv
  <2>3. GetDispute(d).resolution = e.of.resolution
    BY <2>1 DEF ResolvedBy, GetDispute, decodeDispute, decodeOptional, ScvBytes, Decode
  <2> QED
    BY <1>2, <2>2, <2>3, CallersAssumption
<1> QED
  BY <1>1, <1>2

\* The ledgers that are read are those of LedgersInv.
LEMMA ReadsInOrder ==
    ASSUME IInv, NEW d \in disputes
    PROVE  /\ GetStatement(d.operator, d.seq).anchoredLedger < GetDispute(d).openedLedger
           /\ IF IsOpen(d) THEN GetDispute(d).resolvedLedger = None
              ELSE GetDispute(d).openedLedger < GetDispute(d).resolvedLedger
<1>1. PICK j, k \in Nat :
          /\ Statement(d.operator, d.seq).anchored_ledger = ScvU32(j)
          /\ d.fields.opened_ledger = ScvU32(k) /\ j < k
          /\ IF IsOpen(d) THEN d.fields.resolved_ledger = ScvVoid
             ELSE \E l \in Nat : k < l /\ d.fields.resolved_ledger = ScvU32(l)
  BY DEF IInv, LedgersInv, InOrder, IsOpen
<1>2. GetStatement(d.operator, d.seq).anchoredLedger = j /\ GetDispute(d).openedLedger = k
  BY <1>1 DEF GetStatement, decodeStatement, GetDispute, decodeDispute, ScvU32, Decode
<1>3. CASE IsOpen(d)
  BY <1>1, <1>2, <1>3 DEF GetDispute, decodeDispute, decodeOptional, ScvVoid
<1>4. CASE ~IsOpen(d)
  <2>1. PICK l \in Nat : k < l /\ d.fields.resolved_ledger = ScvU32(l)
    BY <1>1, <1>4
  <2>2. GetDispute(d).resolvedLedger = l
    BY <2>1 DEF GetDispute, decodeDispute, decodeOptional, ScvU32, Decode
  <2> QED
    BY <1>1, <1>2, <1>4, <2>1, <2>2
<1> QED
  BY <1>3, <1>4

LEMMA IInvImpliesResolvedAsAgreed == IInv => ResolvedAsAgreed
<1> SUFFICES ASSUME IInv, NEW d \in disputes
             PROVE  LET r == GetDispute(d)
                        s == GetStatement(d.operator, d.seq)
                    IN  /\ s.anchoredLedger < r.openedLedger
                        /\ IF r.resolution = None
                           THEN s.status = "Disputed" /\ r.resolvedLedger = None
                           ELSE /\ s.status = "Resolved" /\ r.openedLedger < r.resolvedLedger
                                /\ \E e \in entries :
                                     e.of = [operator |-> d.operator, consumer |-> r.consumer,
                                             seq |-> d.seq, resolution |-> r.resolution,
                                             credited |-> r.credited]
                                /\ \E c \in Call :
                                     /\ fate[c] = "done" /\ want[c].fn = "resolve_dispute"
                                     /\ <<want[c].signer, want[c].seq, want[c].resolution,
                                          want[c].credited>>
                                          = <<d.operator, d.seq, r.resolution, r.credited>>
  BY DEF ResolvedAsAgreed
<1> DEFINE r == GetDispute(d)
           s == GetStatement(d.operator, d.seq)
<1>1. \A status : HasStatus(d.operator, d.seq, status) => s.status = status
  BY ProtocolRoundTrip DEF HasStatus, GetStatement, decodeStatement
<1>2. CASE IsOpen(d)
  <2>1. s.status = "Disputed" /\ r.resolution = None
    BY <1>1, <1>2, OpenIsUnresolved DEF IInv, DisputesInv
  <2>2. s.anchoredLedger < r.openedLedger /\ r.resolvedLedger = None
    BY <1>2, ReadsInOrder
  <2> HIDE DEF r, s
  <2>3. /\ s.anchoredLedger < r.openedLedger
        /\ r.resolution = None
        /\ s.status = "Disputed" /\ r.resolvedLedger = None
    BY <2>1, <2>2
  <2> QED
    BY <2>3 DEF r, s
<1>3. CASE ~IsOpen(d)
  <2>1. PICK e \in entries : ResolvedBy(d, e)
    BY <1>3 DEF IInv, DisputesInv
  <2>2. /\ e.of \in [operator : Party, consumer : Party, seq : Nat, resolution : Digest,
                     credited : Int]
        /\ e.of.credited \in I128
    BY <2>1, CallersAssumption DEF IInv, EntriesInv
  <2>3. r.consumer = e.of.consumer
    BY <2>1 DEF ResolvedBy, GetDispute, decodeDispute, ScvAddress, Decode
  <2>4. r.resolution = e.of.resolution
    BY <2>1 DEF ResolvedBy, GetDispute, decodeDispute, decodeOptional, ScvBytes, Decode
  <2>5. r.credited = e.of.credited
    BY <2>1, <2>2, I128RoundTrip DEF ResolvedBy, GetDispute, decodeDispute
  <2>6. r.resolution # None /\ s.status = "Resolved"
    BY <1>1, <1>3, OpenIsUnresolved DEF IInv, DisputesInv
  <2>9. s.anchoredLedger < r.openedLedger /\ r.openedLedger < r.resolvedLedger
    BY <1>3, ReadsInOrder
  <2> HIDE DEF r, s
  <2>7. e.of = [operator |-> d.operator, consumer |-> r.consumer, seq |-> d.seq,
                resolution |-> r.resolution, credited |-> r.credited]
    BY <2>1, <2>2, <2>3, <2>4, <2>5 DEF ResolvedBy
  <2>8. \E c \in Call :
           /\ fate[c] = "done" /\ want[c].fn = "resolve_dispute"
           /\ <<want[c].signer, want[c].seq, want[c].resolution, want[c].credited>>
                = <<d.operator, d.seq, r.resolution, r.credited>>
    BY <2>1, <2>4, <2>5 DEF ResolvedBy
  <2> QED
    BY <2>1, <2>6, <2>7, <2>8, <2>9 DEF r, s
<1> QED
  BY <1>2, <1>3

LEMMA IInvImpliesEventsTellTheSame == IInv => EventsTellTheSame
<1> SUFFICES ASSUME IInv PROVE EventsTellTheSame
  OBVIOUS
<1>1. {DecodeStatementAnchorEvent(f) : f \in Fields("anchor")} =
       UNION {{LET s == GetStatement(o, seq) IN
               [operator |-> s.operator, consumer |-> s.consumer, seq |-> seq,
                root |-> s.root, billed |-> s.billed, settled |-> s.settled,
                protocol |-> s.protocol] : seq \in DOMAIN statements[o]} : o \in Party}
  <2> DEFINE Read(o, seq) ==
        LET s == GetStatement(o, seq) IN
        [operator |-> s.operator, consumer |-> s.consumer, seq |-> seq,
         root |-> s.root, billed |-> s.billed, settled |-> s.settled, protocol |-> s.protocol]
  <2>1. \A o \in Party : \A seq \in DOMAIN statements[o] :
            DecodeStatementAnchorEvent(AnchorFields(o, seq)) = Read(o, seq)
    BY DEF DecodeStatementAnchorEvent, AnchorFields, GetStatement, decodeStatement, ScvU64, Decode
  <2> HIDE DEF Read
  <2>2. \A f : f \in Fields("anchor") <=>
            \E o \in Party : \E seq \in DOMAIN statements[o] : f = AnchorFields(o, seq)
    BY DEF IInv, EventsInv
  <2>3. {DecodeStatementAnchorEvent(f) : f \in Fields("anchor")} =
          UNION {{Read(o, seq) : seq \in DOMAIN statements[o]} : o \in Party}
    BY <2>1, <2>2
  <2> QED
    BY <2>3 DEF Read
<1>2. {DecodeStatementDisputeEvent(f) : f \in Fields("dispute")} =
       {LET r == GetDispute(d) IN
        [operator |-> d.operator, consumer |-> r.consumer, seq |-> d.seq,
         reason |-> r.reason] : d \in disputes}
  <2> DEFINE Read(d) ==
        LET r == GetDispute(d) IN
        [operator |-> d.operator, consumer |-> r.consumer, seq |-> d.seq, reason |-> r.reason]
  <2>1. \A d \in disputes : DecodeStatementDisputeEvent(DisputeFields(d)) = Read(d)
    BY DEF DecodeStatementDisputeEvent, DisputeFields, GetDispute, decodeDispute, ScvU64,
           ScvAddress, Decode
  <2> HIDE DEF Read
  <2>2. \A f : f \in Fields("dispute") <=> \E d \in disputes : f = DisputeFields(d)
    BY DEF IInv, EventsInv
  <2>3. {DecodeStatementDisputeEvent(f) : f \in Fields("dispute")} = {Read(d) : d \in disputes}
    BY <2>1, <2>2
  <2> QED
    BY <2>3 DEF Read
<1>3. {DecodeStatementResolveEvent(f) : f \in Fields("resolve")} =
       {LET r == GetDispute(d) IN
        [operator |-> d.operator, consumer |-> r.consumer, seq |-> d.seq,
         resolution |-> r.resolution, credited |-> r.credited] :
            d \in {x \in disputes : GetDispute(x).resolution # None}}
  <2> DEFINE Read(d) ==
        LET r == GetDispute(d) IN
        [operator |-> d.operator, consumer |-> r.consumer, seq |-> d.seq,
         resolution |-> r.resolution, credited |-> r.credited]
             resolved == {x \in disputes : GetDispute(x).resolution # None}
  <2>1. \A d \in disputes : ~IsOpen(d) =>
            DecodeStatementResolveEvent(ResolveFields(d)) = Read(d)
    <3> SUFFICES ASSUME NEW d \in disputes, ~IsOpen(d)
                 PROVE  DecodeStatementResolveEvent(ResolveFields(d)) = Read(d)
      OBVIOUS
    <3>1. PICK e \in entries : ResolvedBy(d, e)
      BY DEF IInv, DisputesInv
    <3>2. decodeOptional(d.fields.resolution_hash) = Decode(d.fields.resolution_hash)
      BY <3>1 DEF ResolvedBy, decodeOptional, ScvBytes
    <3> QED
      BY <3>2 DEF DecodeStatementResolveEvent, ResolveFields, GetDispute, decodeDispute, ScvU64,
                  ScvAddress, Decode
  <2> HIDE DEF Read
  <2>2. \A f : f \in Fields("resolve") <=> \E d \in resolved : f = ResolveFields(d)
    BY OpenIsUnresolved DEF IInv, EventsInv
  <2>3. \A d \in resolved : d \in disputes /\ ~IsOpen(d)
    BY OpenIsUnresolved
  <2> HIDE DEF resolved
  <2>4. {DecodeStatementResolveEvent(f) : f \in Fields("resolve")} = {Read(d) : d \in resolved}
    BY <2>1, <2>2, <2>3
  <2> QED
    BY <2>4 DEF Read, resolved
<1> QED
  BY <1>1, <1>2, <1>3 DEF EventsTellTheSame

-----------------------------------------------------------------------------
(* Steps that leave the registry alone. *)

LEMMA InitIInv == Init => IInv
<1> SUFFICES ASSUME Init PROVE IInv
  OBVIOUS
<1> USE DEF Init, SubmissionInit
<1>1. TypeInv
  BY DEF TypeInv, Phase, Fate, Outcome
<1>2. CallInv
  BY DEF CallInv
<1>3. EntriesInv
  BY FS_EmptySet DEF EntriesInv
<1>4. <<>> \in Seq({}) /\ DOMAIN <<>> = {}
  OBVIOUS
<1>5. StatementsInv
  <2>1. \A o \in Party : statements[o] = <<>>
    OBVIOUS
  <2>2. \A o \in Party : statements[o] \in Seq({}) /\ DOMAIN statements[o] = {}
    BY <1>4, <2>1
  <2> QED
    BY <2>2 DEF StatementsInv
<1>6. DisputesInv
  <2>1. \A o \in Party : DOMAIN statements[o] = {}
    BY <1>4
  <2> QED
    BY <2>1 DEF DisputesInv, HasStatus
<1>7. EventsInv
  <2>1. events = <<>> /\ \A o \in Party : DOMAIN statements[o] = {}
    BY <1>4
  <2>2. \A topic : Fields(topic) = {}
    BY <1>4, <2>1 DEF Fields
  <2> QED
    BY <1>4, <2>1, <2>2 DEF EventsInv
<1>8. LedgersInv
  <2>1. \A o \in Party : DOMAIN statements[o] = {}
    BY <1>4
  <2> QED
    BY <2>1 DEF LedgersInv
<1> QED
  BY <1>1, <1>2, <1>3, <1>5, <1>6, <1>7, <1>8 DEF IInv

\* What leaves statements, disputes and events alone, takes no entry away, and
\* settles nothing as done.
LEMMA QuietKeepsIInv ==
    ASSUME IInv, UNCHANGED <<statements, disputes, events>>, entries \subseteq entries',
           TypeInv', CallInv', EntriesInv',
           \A c \in Call : /\ fate'[c] = "done" <=> fate[c] = "done"
                           /\ fate[c] = "done" => want'[c] = want[c] /\ result'[c] = result[c]
    PROVE  IInv'
<1>1. \A c \in Call : \A o, seq : Anchored(c, o, seq)' <=> Anchored(c, o, seq)
  BY DEF Anchored, Statement
<1>2. StatementsInv'
  BY <1>1 DEF IInv, StatementsInv
<1>3. \A d, e : ResolvedBy(d, e)' <=> ResolvedBy(d, e)
  BY DEF ResolvedBy
<1>4. DisputesInv'
  <2>1. \A o, seq, status : HasStatus(o, seq, status)' <=> HasStatus(o, seq, status)
    BY DEF HasStatus, Statement
  <2> QED
    BY <1>3, <2>1 DEF IInv, DisputesInv, IsOpen, Statement
<1>5. EventsInv'
  BY DEF IInv, EventsInv, Fields, AnchorFields, DisputeFields, ResolveFields, IsOpen, Statement
<1>6. LedgersInv'
  BY DEF IInv, LedgersInv, Statement
<1> QED
  BY <1>2, <1>4, <1>5, <1>6 DEF IInv

LEMMA BeginKeepsIInv ==
    ASSUME IInv, NEW c \in Call, Begin(c)
    PROVE  IInv'
<1>1. PICK w, amounts, t :
          /\ w \in Want[c]
          /\ Invoke(c, w, amounts, t)
          /\ amounts \subseteq I128 => Encodes(t, w)
  <2>1. PICK w \in Want[c] :
            \/ Anchor(c, w) \/ OpenDispute(c, w)
            \/ \E entry \in entries : ResolveDispute(c, w, entry)
    BY DEF Begin
  <2>2. w \in AnchorWant \cup OpenDisputeWant \cup ResolveDisputeWant
    BY CallersAssumption
  <2>3. CASE Anchor(c, w)
    <3>1. w.fn = "anchor" /\ w \in AnchorWant
      BY <2>2, <2>3 DEF Anchor, OpenDisputeWant, ResolveDisputeWant
    <3> QED
      BY <2>3, <3>1 DEF Anchor, Encodes
  <2>4. CASE OpenDispute(c, w)
    <3>1. w.fn = "open_dispute" /\ w \in OpenDisputeWant
      BY <2>2, <2>4 DEF OpenDispute, AnchorWant, ResolveDisputeWant
    <3> QED
      BY <2>4, <3>1 DEF OpenDispute, Encodes
  <2>5. CASE \E entry \in entries : ResolveDispute(c, w, entry)
    <3>1. PICK entry \in entries : ResolveDispute(c, w, entry)
      BY <2>5
    <3>2. w.fn = "resolve_dispute" /\ w \in ResolveDisputeWant
      BY <2>2, <3>1 DEF ResolveDispute, AnchorWant, OpenDisputeWant
    <3> QED
      BY <3>1, <3>2 DEF ResolveDispute, Encodes
  <2> QED
    BY <2>1, <2>3, <2>4, <2>5
<1>2. /\ want' = [want EXCEPT ![c] = w]
      /\ UNCHANGED <<entries, number, statements, disputes, events, result>>
      /\ (amounts \subseteq I128 /\ Prepare(c, t)) \/ Refuse(c)
  BY <1>1 DEF Invoke, contract
<1>3. /\ pc[c] = "idle" /\ fate[c] = "none" /\ tx[c] = NoTx /\ out[c] = "none"
      /\ UNCHANGED fate
  BY <1>2 DEF Prepare, Refuse, IInv, CallInv
<1>4. /\ DOMAIN want' = Call /\ want'[c] = w
      /\ \A d \in Call \ {c} : want'[d] = want[d]
  BY <1>2 DEF IInv, CallInv
<1>5. \A u, v : Encodes(u, v)' <=> Encodes(u, v)
  BY <1>2 DEF Encodes
<1>6. TypeInv' /\ CallInv'
  <2>1. CASE amounts \subseteq I128 /\ Prepare(c, t)
    <3>1. /\ pc' = [pc EXCEPT ![c] = "send"] /\ tx' = [tx EXCEPT ![c] = t] /\ UNCHANGED out
          /\ Encodes(t, w) /\ t # NoTx
      BY <1>1, <2>1 DEF Prepare
    <3>2. TypeInv'
      BY <1>1, <1>2, <1>3, <1>4, <3>1 DEF IInv, TypeInv, Phase
    <3>3. /\ DOMAIN tx' = Call /\ tx'[c] = t /\ pc'[c] = "send"
          /\ \A d \in Call \ {c} : tx'[d] = tx[d] /\ pc'[d] = pc[d]
      BY <3>1 DEF IInv, CallInv, TypeInv
    <3>4. CallInv'
      BY <1>2, <1>3, <1>4, <1>5, <3>1, <3>3 DEF IInv, CallInv
    <3> QED
      BY <3>2, <3>4
  <2>2. CASE Refuse(c)
    <3>1. /\ pc' = [pc EXCEPT ![c] = "end"] /\ out' = [out EXCEPT ![c] = "error"] /\ UNCHANGED tx
      BY <2>2 DEF Refuse, End
    <3>2. TypeInv'
      BY <1>1, <1>2, <1>3, <1>4, <3>1 DEF IInv, TypeInv, Phase, Outcome
    <3>3. /\ pc'[c] = "end" /\ out'[c] = "error"
          /\ \A d \in Call \ {c} : out'[d] = out[d] /\ pc'[d] = pc[d]
      BY <3>1 DEF IInv, TypeInv
    <3>4. CallInv'
      BY <1>2, <1>3, <1>4, <1>5, <3>1, <3>3 DEF IInv, CallInv
    <3> QED
      BY <3>2, <3>4
  <2> QED
    BY <1>2, <2>1, <2>2
<1>7. EntriesInv'
  BY <1>2 DEF IInv, EntriesInv
<1> QED
  BY <1>2, <1>3, <1>4, <1>6, <1>7, QuietKeepsIInv

\* A new entry has a nonce of its own and the arguments its consumer built.
LEMMA AuthorizeKeepsIInv ==
    ASSUME IInv, NEW a \in Agreement, Authorize(a)
    PROVE  IInv'
<1>1. PICK e : /\ e = [nonce |-> Cardinality(entries) + 1, of |-> a,
                       args |-> ResolveDisputeArgs(a.operator, a.seq, a.resolution, a.credited)]
               /\ entries' = entries \cup {e}
  BY DEF Authorize
<1>2. /\ Cardinality(entries) < MaxEntries /\ a.credited \in I128
      /\ UNCHANGED <<want, number, pc, tx, fate, out, statements, disputes, events, result>>
  BY DEF Authorize, submission, contract
<1>3. Cardinality(entries) \in Nat /\ IsFiniteSet(entries')
  BY <1>1, FS_CardinalityType, FS_AddElement DEF IInv, EntriesInv
<1>4. Cardinality(entries) + 1 \in 1 .. MaxEntries
  BY <1>2, <1>3, CallersAssumption
<1>5. EntriesInv'
  BY <1>1, <1>2, <1>3, <1>4 DEF IInv, EntriesInv
<1>6. TypeInv'
  BY <1>2 DEF IInv, TypeInv
<1>7. CallInv'
  <2>1. \A t, w : Encodes(t, w) => Encodes(t, w)'
    BY <1>1 DEF Encodes
  <2> QED
    BY <1>2, <2>1 DEF IInv, CallInv
<1> QED
  BY <1>1, <1>2, <1>5, <1>6, <1>7, QuietKeepsIInv

\* Sending, and every answer.
LEMMA AnswerKeepsIInv ==
    ASSUME IInv, NEW c \in Call, Advance(c) \/ Return(c)
    PROVE  IInv'
<1>1. UNCHANGED <<entries, want, tx, statements, disputes, events, result>>
  BY DEF Advance, Return, Send, SendRefused, SendUnanswered, Succeed, Fail, GiveUp, End, contract
<1>2. /\ pc' \in [Call -> Phase] /\ fate' \in [Call -> Fate] /\ out' \in [Call -> Outcome]
      /\ \A d \in Call \ {c} : pc'[d] = pc[d] /\ fate'[d] = fate[d] /\ out'[d] = out[d]
      /\ fate'[c] = "done" <=> fate[c] = "done"
      /\ fate'[c] # "none" => tx[c] # NoTx
      /\ pc'[c] \in {"poll", "end"} /\ pc[c] # "idle"
      /\ out'[c] = "success" => fate'[c] = "done" /\ (out[c] = "success" \/ Return(c))
  <2> USE DEF IInv, TypeInv, CallInv, Phase, Fate, Outcome
  <2>1. CASE Advance(c) /\ Send(c)
    BY <2>1 DEF Send
  <2>2. CASE Advance(c) /\ (SendRefused(c) \/ SendUnanswered(c))
    BY <2>2 DEF SendRefused, SendUnanswered, End
  <2>3. CASE Advance(c) /\ (Fail(c) \/ GiveUp(c))
    BY <2>3 DEF Fail, GiveUp, End
  <2>4. CASE Return(c)
    BY <2>4 DEF Return, Succeed, End
  <2> QED
    BY <2>1, <2>2, <2>3, <2>4 DEF Advance
<1>3. /\ number' \in [Call -> Nat]
      /\ \A d \in Call \ {c} : number'[d] = number[d]
      /\ ~Return(c) => number' = number
      /\ Return(c) /\ want[c].fn = "anchor" => number'[c] = Decode(result[c])
  <2>1. CASE Return(c)
    <3>1. /\ fate[c] = "done"
          /\ number' = [number EXCEPT ![c] = IF tx[c].fn = "anchor" THEN Decode(result[c]) ELSE @]
      BY <2>1 DEF Return, Succeed
    <3>2. tx[c].fn = want[c].fn
      BY <3>1 DEF IInv, CallInv, Encodes
    <3>3. want[c].fn = "anchor" => Decode(result[c]) \in Nat
      <4> SUFFICES ASSUME want[c].fn = "anchor" PROVE Decode(result[c]) \in Nat
        OBVIOUS
      <4>1. PICK seq \in DOMAIN statements[want[c].signer] : Anchored(c, want[c].signer, seq)
        BY <3>1 DEF IInv, StatementsInv
      <4>2. want[c].signer \in Party
        BY <3>1, ExecutedAnchors DEF IInv, AnchorWant
      <4>3. seq \in Nat
        BY <4>1, <4>2 DEF IInv, StatementsInv
      <4> QED
        BY <4>1, <4>3 DEF Anchored, ScvU64, Decode
    <3> QED
      BY <2>1, <3>1, <3>2, <3>3 DEF IInv, TypeInv
  <2>2. CASE ~Return(c)
    BY <2>2 DEF Advance, IInv, TypeInv
  <2> QED
    BY <2>1, <2>2
<1>4. TypeInv'
  BY <1>1, <1>2, <1>3 DEF IInv, TypeInv
<1>5. CallInv'
  <2>1. \A t, w : Encodes(t, w)' <=> Encodes(t, w)
    BY <1>1 DEF Encodes
  <2> QED
    BY <1>1, <1>2, <1>3, <2>1 DEF IInv, CallInv
<1>6. EntriesInv'
  BY <1>1 DEF IInv, EntriesInv
<1> QED
  BY <1>1, <1>2, <1>4, <1>5, <1>6, QuietKeepsIInv

LEMMA RejectKeepsIInv ==
    ASSUME IInv, NEW S \in SUBSET Call, Reject(S)
    PROVE  IInv'
<1>1. /\ UNCHANGED <<entries, want, number, tx, pc, out, statements, disputes, events, result>>
      /\ fate' = [c \in Call |-> IF c \in S THEN "void" ELSE fate[c]]
      /\ \A c \in S : fate[c] = "open"
  BY DEF Reject, Conclude, contract
<1>2. TypeInv'
  BY <1>1 DEF IInv, TypeInv, Fate
<1>3. CallInv'
  <2>1. \A t, w : Encodes(t, w)' <=> Encodes(t, w)
    BY <1>1 DEF Encodes
  <2> QED
    BY <1>1, <2>1 DEF IInv, CallInv
<1>4. EntriesInv'
  BY <1>1 DEF IInv, EntriesInv
<1> QED
  BY <1>1, <1>2, <1>3, <1>4, QuietKeepsIInv

-----------------------------------------------------------------------------
(* What is executed. *)

LEMMA EmitAddsFields ==
    ASSUME EventsInv, NEW topic, NEW fields, Emit(topic, fields)
    PROVE  /\ \E S : events' \in Seq(S)
           /\ Len(events) \in Nat /\ Len(events') = Len(events) + 1
           /\ \A tp, f : f \in Fields(tp)' <=> f \in Fields(tp) \/ (tp = topic /\ f = fields)
<1>1. PICK A : events \in Seq(A)
  BY DEF EventsInv
<1> DEFINE e == [topic |-> topic, fields |-> fields]
           n == Len(events) + 1
<1>2. /\ events' = Append(events, e) /\ events \in Seq(A \cup {e})
  BY <1>1, SeqMonotonic DEF Emit
<1>3. e.topic = topic /\ e.fields = fields
  OBVIOUS
<1> HIDE DEF e
<1>4. /\ events' \in Seq(A \cup {e}) /\ Len(events') = n /\ Len(events) \in Nat
      /\ \A i \in 1 .. Len(events) : events'[i] = events[i]
      /\ events'[n] = e
  BY <1>2, AppendProperties, LenProperties
<1>5. DOMAIN events = 1 .. Len(events) /\ DOMAIN events' = 1 .. n
  BY <1>1, <1>4, LenProperties
<1>6. ASSUME NEW tp, NEW f
      PROVE  f \in Fields(tp)' <=> f \in Fields(tp) \/ (tp = topic /\ f = fields)
  <2>1. f \in Fields(tp) <=>
          \E i \in 1 .. Len(events) : events[i].topic = tp /\ f = events[i].fields
    BY <1>5 DEF Fields
  <2>2. f \in Fields(tp)' <=>
          \E i \in 1 .. n : events'[i].topic = tp /\ f = events'[i].fields
    BY <1>5 DEF Fields
  <2>3. 1 .. n = (1 .. Len(events)) \cup {n}
    BY <1>4
  <2> HIDE DEF n
  <2> QED
    BY <1>3, <1>4, <2>1, <2>2, <2>3
<1> QED
  BY <1>4, <1>6

LEMMA LaterIsInOrder ==
    ASSUME NEW anchored, NEW fields, NEW n \in Nat, InOrder(anchored, fields, n)
    PROVE  InOrder(anchored, fields, n + 1)
BY DEF InOrder

LEMMA WhatAnchorStores ==
    ASSUME NEW w
    PROVE  /\ \A ledger : Describes(StatementOf(AnchorArgs(w), ledger), w)
           /\ AnchorArgs(w)[1] = ScvAddress(w.signer)
BY DEF Describes, StatementFields, StatementOf, AnchorArgs

LEMMA ProtocolsDiffer ==
    ASSUME NEW p, NEW q, scvProtocol(p) = scvProtocol(q)
    PROVE  p = q
BY ProtocolRoundTrip

\* What is executed, for the calls S that sent the transaction t.
Executing(S, t) ==
    /\ S # {} /\ \A d \in S : fate[d] = "open" /\ Encodes(t, want[d])
    /\ fate' = [d \in Call |-> IF d \in S THEN "done" ELSE fate[d]]
    /\ UNCHANGED <<want, entries>>

LEMMA AnchorIsExecuted ==
    ASSUME IInv, NEW S \in SUBSET Call, NEW t, Executing(S, t), ApplyAnchor(S, t)
    PROVE  /\ StatementsInv' /\ DisputesInv' /\ EventsInv' /\ LedgersInv'
           /\ DOMAIN result' = Call /\ \A d \in Call \ S : result'[d] = result[d]
<1>1. PICK c \in S : c \in Call /\ Encodes(t, want[c])
  BY DEF Executing
<1> DEFINE w == want[c]
<1>2. /\ t.fn = "anchor" /\ w.fn = "anchor" /\ w \in AnchorWant /\ t.args = AnchorArgs(w)
  BY <1>1 DEF ApplyAnchor, Encodes
<1>3. PICK o, n : /\ o \in Party /\ n = Len(statements[o]) + 1
                  /\ t.args[1] = ScvAddress(o) /\ Decode(t.args[1]) = o
  BY <1>2, WhatAnchorStores DEF ScvAddress, Decode, AnchorWant
<1> DEFINE m == StatementOf(t.args, Ledger)
           seq == ScvU64(n)
<1>4. /\ statements' = [statements EXCEPT ![o] = Append(@, m)]
      /\ Emit("anchor", <<t.args[1], t.args[2], seq, t.args[5], t.args[8], t.args[9], t.args[11]>>)
      /\ result' = [d \in Call |-> IF d \in S THEN seq ELSE result[d]]
      /\ UNCHANGED disputes
  BY <1>3 DEF ApplyAnchor
<1>5. /\ DOMAIN statements' = Party
      /\ statements'[o] = Append(statements[o], m)
      /\ \A p \in Party \ {o} : statements'[p] = statements[p]
  BY <1>3, <1>4 DEF IInv, StatementsInv
<1>6. /\ \E A : statements'[o] \in Seq(A)
      /\ DOMAIN statements'[o] = DOMAIN statements[o] \cup {n} /\ n \notin DOMAIN statements[o]
      /\ \A i \in DOMAIN statements[o] : statements'[o][i] = statements[o][i]
      /\ statements'[o][n] = m
  <2> HIDE DEF m
  <2>1. PICK A : statements[o] \in Seq(A)
    BY <1>3 DEF IInv, StatementsInv
  <2>2. statements[o] \in Seq(A \cup {m})
    BY <2>1, SeqMonotonic
  <2>3. /\ statements'[o] \in Seq(A \cup {m}) /\ Len(statements'[o]) = n
        /\ \A i \in 1 .. Len(statements[o]) : statements'[o][i] = statements[o][i]
        /\ statements'[o][n] = m
    BY <1>3, <1>5, <2>2, AppendProperties
  <2>4. /\ DOMAIN statements[o] = 1 .. Len(statements[o]) /\ Len(statements[o]) \in Nat
        /\ DOMAIN statements'[o] = 1 .. n
    BY <2>1, <2>3, LenProperties
  <2> QED
    BY <1>3, <2>3, <2>4
<1>7. /\ m.status = scvProtocol("Anchored") /\ m.anchored_ledger = Ledger
      /\ \A d \in S : d \in Call /\ want[d].fn = "anchor" /\ want[d].signer = o /\ Describes(m, want[d])
  <2>1. ASSUME NEW d \in S
        PROVE  want[d].fn = "anchor" /\ want[d].signer = o /\ Describes(m, want[d])
    <3>1. want[d].fn = "anchor" /\ t.args = AnchorArgs(want[d])
      BY <1>2 DEF Executing, Encodes
    <3>2. t.args[1] = ScvAddress(want[d].signer)
      BY <3>1, WhatAnchorStores
    <3> QED
      BY <1>3, <3>1, <3>2, WhatAnchorStores DEF ScvAddress
  <2>2. m.status = scvProtocol("Anchored") /\ m.anchored_ledger = Ledger
    BY DEF StatementOf
  <2> QED
    BY <1>2, <2>1, <2>2
<1> HIDE DEF m, w
<1>8. /\ DOMAIN result' = Call /\ \A d \in Call \ S : result'[d] = result[d]
      /\ \A d \in S : result'[d] = ScvU64(n) /\ fate'[d] = "done" /\ fate[d] = "open"
      /\ \A d \in Call \ S : fate'[d] = fate[d]
      /\ UNCHANGED <<want, entries>>
  BY <1>4 DEF Executing
<1>9. \A p \in Party : \A i \in DOMAIN statements[p] :
          i \in DOMAIN statements'[p] /\ Statement(p, i)' = Statement(p, i)
  BY <1>5, <1>6 DEF Statement
<1>10. StatementsInv'
  <2>1. \A d \in Call : \A p \in Party : \A i \in DOMAIN statements[p] :
            Anchored(d, p, i) => Anchored(d, p, i)'
    BY <1>8, <1>9 DEF Anchored
  <2>2. \A d \in S : Anchored(d, o, n)'
    BY <1>6, <1>7, <1>8 DEF Anchored, Statement
  <2>3. ASSUME NEW p \in Party
        PROVE  /\ \E A : statements'[p] \in Seq(A)
               /\ \A i \in DOMAIN statements'[p] : \E d \in Call : Anchored(d, p, i)'
    <3>1. CASE p = o
      BY <1>1, <1>6, <2>1, <2>2, <3>1 DEF IInv, StatementsInv
    <3>2. CASE p # o
      BY <1>5, <2>1, <3>2 DEF IInv, StatementsInv
    <3> QED
      BY <3>1, <3>2
  <2>4. ASSUME NEW d \in Call, fate'[d] = "done", want'[d].fn = "anchor"
        PROVE  \E i \in DOMAIN statements'[want'[d].signer] : Anchored(d, want[d].signer, i)'
    <3>1. CASE d \in S
      BY <1>6, <1>7, <1>8, <2>2, <3>1
    <3>2. CASE d \notin S
      <4>1. fate[d] = "done" /\ want[d].fn = "anchor"
        BY <1>8, <2>4, <3>2
      <4>2. PICK i \in DOMAIN statements[want[d].signer] : Anchored(d, want[d].signer, i)
        BY <4>1 DEF IInv, StatementsInv
      <4>3. want[d].signer \in Party
        BY <4>1, ExecutedAnchors DEF IInv, AnchorWant
      <4> QED
        BY <1>8, <1>9, <2>1, <4>2, <4>3
    <3> QED
      BY <3>1, <3>2
  <2> QED
    BY <1>5, <1>8, <2>3, <2>4 DEF StatementsInv
<1>11. DisputesInv'
  <2>1. \A p \in Party : \A i \in DOMAIN statements[p] : \A status :
            HasStatus(p, i, status) => HasStatus(p, i, status)'
    BY <1>9 DEF HasStatus
  <2>2. \A p \in Party, i \in Nat : HasStatus(p, i, "Disputed")' => HasStatus(p, i, "Disputed")
    <3> SUFFICES ASSUME NEW p \in Party, NEW i \in Nat, HasStatus(p, i, "Disputed")'
                 PROVE  HasStatus(p, i, "Disputed")
      OBVIOUS
    <3>1. scvProtocol("Anchored") # scvProtocol("Disputed")
      BY ProtocolsDiffer
    <3>2. ~(p = o /\ i = n)
      BY <1>6, <1>7, <3>1 DEF HasStatus, Statement
    <3>3. i \in DOMAIN statements[p]
      BY <1>5, <1>6, <3>2 DEF HasStatus
    <3> QED
      BY <1>9, <3>3 DEF HasStatus
  <2>3. \A d, e : ResolvedBy(d, e) => ResolvedBy(d, e)'
    BY <1>8 DEF ResolvedBy
  <2>4. ASSUME NEW d \in disputes
        PROVE  (/\ d.operator \in Party /\ d.seq \in DOMAIN statements[d.operator]
                /\ d.fields.consumer = Statement(d.operator, d.seq).consumer
                /\ IF IsOpen(d)
                   THEN /\ HasStatus(d.operator, d.seq, "Disputed")
                        /\ d.fields.amount_credited = ScvI128(0)
                   ELSE /\ HasStatus(d.operator, d.seq, "Resolved")
                        /\ \E e \in entries : ResolvedBy(d, e))'
    BY <1>8, <1>9, <2>1, <2>3 DEF IInv, DisputesInv, IsOpen
  <2> QED
    BY <1>4, <2>2, <2>4 DEF IInv, DisputesInv
<1>12. EventsInv'
  <2> DEFINE emitted == <<t.args[1], t.args[2], seq, t.args[5], t.args[8], t.args[9], t.args[11]>>
  <2>1. emitted = AnchorFields(o, n)'
    BY <1>6 DEF AnchorFields, Statement, m, StatementOf
  <2> HIDE DEF emitted
  <2>2. /\ \E A : events' \in Seq(A)
        /\ \A tp, f : f \in Fields(tp)' <=> f \in Fields(tp) \/ (tp = "anchor" /\ f = emitted)
    BY <1>4, EmitAddsFields DEF IInv, emitted
  <2>3. \A p \in Party : \A i \in DOMAIN statements[p] : AnchorFields(p, i)' = AnchorFields(p, i)
    BY <1>9 DEF AnchorFields
  <2>4. \A f : f \in Fields("anchor")' <=>
            \E p \in Party : \E i \in DOMAIN statements'[p] : f = AnchorFields(p, i)'
    <3>1. \A f : f \in Fields("anchor") <=>
              \E p \in Party : \E i \in DOMAIN statements[p] : f = AnchorFields(p, i)
      BY DEF IInv, EventsInv
    <3>2. \A p \in Party : \A i : i \in DOMAIN statements'[p] <=>
              i \in DOMAIN statements[p] \/ (p = o /\ i = n)
      BY <1>5, <1>6
    <3> QED
      BY <1>3, <2>1, <2>2, <2>3, <3>1, <3>2
  <2>5. /\ \A f : f \in Fields("dispute")' <=> f \in Fields("dispute")
        /\ \A f : f \in Fields("resolve")' <=> f \in Fields("resolve")
    BY <2>2
  <2>6. \A d \in disputes : /\ DisputeFields(d)' = DisputeFields(d) /\ IsOpen(d)' = IsOpen(d)
                           /\ ResolveFields(d)' = ResolveFields(d)
    BY DEF DisputeFields, ResolveFields, IsOpen
  <2> QED
    BY <1>4, <2>2, <2>4, <2>5, <2>6 DEF IInv, EventsInv
<1>13. LedgersInv'
  <2>1. Len(events) \in Nat /\ Len(events') = Len(events) + 1
    BY <1>4, EmitAddsFields DEF IInv
  <2>2. \A p \in Party : \A i \in DOMAIN statements'[p] :
            i \in DOMAIN statements[p] \/ (p = o /\ i = n)
    BY <1>5, <1>6
  <2>3. ASSUME NEW p \in Party, NEW i \in DOMAIN statements'[p]
        PROVE  \E j \in Nat : j <= Len(events') /\ Statement(p, i)'.anchored_ledger = ScvU32(j)
    <3>1. CASE i \in DOMAIN statements[p]
      BY <1>9, <2>1, <3>1 DEF IInv, LedgersInv
    <3>2. CASE p = o /\ i = n
      <4>1. Statement(p, i)'.anchored_ledger = ScvU32(Len(events) + 1)
        BY <1>6, <1>7, <3>2 DEF Statement, Ledger
      <4> QED
        BY <2>1, <4>1
    <3> QED
      BY <2>2, <3>1, <3>2
  <2>4. ASSUME NEW d \in disputes'
        PROVE  InOrder(Statement(d.operator, d.seq).anchored_ledger, d.fields, Len(events))'
    <3>1. /\ InOrder(Statement(d.operator, d.seq).anchored_ledger, d.fields, Len(events))
          /\ d.operator \in Party /\ d.seq \in DOMAIN statements[d.operator]
      BY <1>4 DEF IInv, DisputesInv, LedgersInv
    <3>2. Statement(d.operator, d.seq)' = Statement(d.operator, d.seq)
      BY <1>9, <3>1
    <3> QED
      BY <2>1, <3>1, <3>2, LaterIsInOrder
  <2> QED
    BY <2>3, <2>4 DEF LedgersInv
<1> QED
  BY <1>8, <1>10, <1>11, <1>12, <1>13

\* Statements that differ in their status at most.
SameTerms(m, n) ==
    /\ DOMAIN m = StatementFields /\ DOMAIN n = StatementFields
    /\ \A field \in StatementFields \ {"status"} : m[field] = n[field]

LEMMA SameTermsFields ==
    ASSUME NEW m, NEW n, SameTerms(m, n)
    PROVE  /\ m.operator = n.operator /\ m.consumer = n.consumer /\ m.token = n.token
           /\ m.period_start = n.period_start /\ m.period_end = n.period_end
           /\ m.usage_root = n.usage_root /\ m.request_count = n.request_count
           /\ m.amount_billed = n.amount_billed /\ m.amount_settled = n.amount_settled
           /\ m.price_book_version = n.price_book_version /\ m.protocol = n.protocol
           /\ m.channel = n.channel /\ m.anchored_ledger = n.anchored_ledger
BY DEF SameTerms, StatementFields

\* A new status is all that changes, in one statement only.
LEMMA OnlyTheStatusChanges ==
    ASSUME StatementsInv, NEW o \in Party, NEW seq \in DOMAIN statements[o], NEW status,
           statements' = [statements EXCEPT ![o][seq] = WithStatus(@, status)]
    PROVE  /\ DOMAIN statements' = Party
           /\ \A p \in Party :
                 /\ \E S : statements'[p] \in Seq(S)
                 /\ DOMAIN statements'[p] = DOMAIN statements[p]
                 /\ \A i \in DOMAIN statements[p] :
                       /\ SameTerms(Statement(p, i)', Statement(p, i))
                       /\ p # o \/ i # seq => Statement(p, i)' = Statement(p, i)
           /\ Statement(o, seq)'.status = scvProtocol(status)
<1>1. PICK A : statements[o] \in Seq(A)
  BY DEF StatementsInv
<1>2. PICK m : m = WithStatus(statements[o][seq], status)
  OBVIOUS
<1>3. /\ DOMAIN statements' = Party
      /\ statements'[o] = [statements[o] EXCEPT ![seq] = m]
      /\ \A p \in Party \ {o} : statements'[p] = statements[p]
  BY <1>2 DEF StatementsInv
<1>4. /\ statements[o] \in Seq(A \cup {m}) /\ DOMAIN statements[o] = 1 .. Len(statements[o])
      /\ Len(statements[o]) \in Nat
  BY <1>1, SeqMonotonic, LenProperties
<1>5. /\ statements'[o] \in Seq(A \cup {m}) /\ Len(statements'[o]) = Len(statements[o])
      /\ \A j \in 1 .. Len(statements[o]) :
            statements'[o][j] = IF j = seq THEN m ELSE statements[o][j]
  BY <1>3, <1>4, ExceptSeq
<1>6. DOMAIN statements'[o] = DOMAIN statements[o]
  BY <1>4, <1>5, LenProperties
<1>0. \A p \in Party : \A i \in DOMAIN statements[p] :
          DOMAIN statements[p][i] = StatementFields
  BY DEF StatementsInv, Anchored, Describes, Statement
<1>7. SameTerms(m, statements[o][seq]) /\ m.status = scvProtocol(status)
  <2>1. "status" \in StatementFields
    BY DEF StatementFields
  <2> QED
    BY <1>2, <1>0, <2>1 DEF SameTerms, WithStatus
<1>8. \A p \in Party : \A i \in DOMAIN statements[p] :
          SameTerms(statements[p][i], statements[p][i])
  BY <1>0 DEF SameTerms
<1> QED
  BY <1>3, <1>4, <1>5, <1>6, <1>7, <1>8 DEF StatementsInv, Statement

\* Statements stay what they are whatever their status, and what was executed
\* stays so.
LEMMA StatusKeepsStatements ==
    ASSUME IInv, NEW S \in SUBSET Call, NEW t, Executing(S, t), t.fn # "anchor", result' = result,
           DOMAIN statements' = Party,
           \A p \in Party :
               /\ \E A : statements'[p] \in Seq(A)
               /\ DOMAIN statements'[p] = DOMAIN statements[p]
               /\ \A i \in DOMAIN statements[p] : SameTerms(Statement(p, i)', Statement(p, i))
    PROVE  /\ StatementsInv'
           /\ \A d, e : ResolvedBy(d, e) => ResolvedBy(d, e)'
           /\ \A p \in Party : \A i \in DOMAIN statements[p] :
                 AnchorFields(p, i)' = AnchorFields(p, i)
<1>1. /\ \A d \in S : fate[d] = "open" /\ want[d].fn # "anchor"
      /\ \A d \in Call : fate'[d] = IF d \in S THEN "done" ELSE fate[d]
      /\ want' = want
  BY DEF Executing, Encodes
<1>2. \A m, n, w : SameTerms(m, n) /\ Describes(n, w) => Describes(m, w)
  BY SameTermsFields DEF SameTerms, Describes
<1>3. \A d \in Call : \A p \in Party : \A i \in DOMAIN statements[p] :
          Anchored(d, p, i) => Anchored(d, p, i)'
  BY <1>1, <1>2 DEF Anchored
<1>4. ASSUME NEW d \in Call, fate'[d] = "done", want'[d].fn = "anchor"
      PROVE  \E i \in DOMAIN statements'[want'[d].signer] : Anchored(d, want[d].signer, i)'
  <2>1. fate[d] = "done" /\ want[d].fn = "anchor"
    BY <1>1, <1>4
  <2>2. PICK i \in DOMAIN statements[want[d].signer] : Anchored(d, want[d].signer, i)
    BY <2>1 DEF IInv, StatementsInv
  <2>3. want[d].signer \in Party
    BY <2>1, ExecutedAnchors DEF IInv, AnchorWant
  <2>4. PICK p : p = want[d].signer
    OBVIOUS
  <2>5. Anchored(d, p, i)' /\ i \in DOMAIN statements'[p]
    BY <1>3, <2>2, <2>3, <2>4
  <2> QED
    BY <1>1, <2>4, <2>5
<1>5. StatementsInv'
  BY <1>1, <1>3, <1>4 DEF IInv, StatementsInv
<1>6. \A d, e : ResolvedBy(d, e) => ResolvedBy(d, e)'
  BY <1>1 DEF ResolvedBy
<1>7. \A p \in Party : \A i \in DOMAIN statements[p] : AnchorFields(p, i)' = AnchorFields(p, i)
  BY SameTermsFields DEF AnchorFields
<1> QED
  BY <1>5, <1>6, <1>7

LEMMA OpenDisputeIsExecuted ==
    ASSUME IInv, NEW S \in SUBSET Call, NEW t, Executing(S, t), Accepts(t), ApplyOpenDispute(t)
    PROVE  StatementsInv' /\ DisputesInv' /\ EventsInv' /\ LedgersInv' /\ result' = result
<1>1. PICK w : w \in OpenDisputeWant /\ t.fn = "open_dispute" /\ t.args = OpenDisputeArgs(w)
  BY DEF Executing, Encodes, ApplyOpenDispute
<1>2. PICK o, seq : /\ o = Decode(t.args[1]) /\ seq = Decode(t.args[2]) /\ o \in Party /\ seq \in Nat
                    /\ t.args[1] = ScvAddress(o) /\ t.args[2] = ScvU64(seq)
  BY <1>1 DEF OpenDisputeArgs, OpenDisputeWant, ScvAddress, ScvU64, Decode
<1>3. /\ HasStatus(o, seq, "Anchored") /\ seq \in DOMAIN statements[o]
      /\ Statement(o, seq).consumer = t.args[3]
  BY <1>1, <1>2 DEF Accepts, HasStatus
<1> DEFINE new ==
      [operator |-> o, seq |-> seq,
       fields |-> [consumer |-> t.args[3], reason_hash |-> t.args[4],
                   opened_ledger |-> Ledger, resolution_hash |-> ScvVoid,
                   amount_credited |-> ScvI128(0), resolved_ledger |-> ScvVoid]]
<1>4. /\ disputes' = disputes \cup {new}
      /\ statements' = [statements EXCEPT ![o][seq] = WithStatus(@, "Disputed")]
      /\ Emit("dispute", <<t.args[1], t.args[3], t.args[2], t.args[4]>>)
      /\ UNCHANGED result
  <2>1. disputes' = disputes \cup {new}
    BY <1>2 DEF ApplyOpenDispute
  <2>2. statements' = [statements EXCEPT ![o][seq] = WithStatus(@, "Disputed")]
    BY <1>2 DEF ApplyOpenDispute
  <2>3. Emit("dispute", <<t.args[1], t.args[3], t.args[2], t.args[4]>>) /\ UNCHANGED result
    BY DEF ApplyOpenDispute
  <2> QED
    BY <2>1, <2>2, <2>3
<1>5. /\ new.operator = o /\ new.seq = seq /\ IsOpen(new)
      /\ new.fields.consumer = t.args[3] /\ new.fields.reason_hash = t.args[4]
      /\ new.fields.amount_credited = ScvI128(0)
      /\ new.fields.opened_ledger = Ledger /\ new.fields.resolved_ledger = ScvVoid
  BY DEF IsOpen
<1> HIDE DEF new
<1>6. /\ DOMAIN statements' = Party
      /\ \A p \in Party :
            /\ \E A : statements'[p] \in Seq(A)
            /\ DOMAIN statements'[p] = DOMAIN statements[p]
            /\ \A i \in DOMAIN statements[p] :
                  /\ SameTerms(Statement(p, i)', Statement(p, i))
                  /\ p # o \/ i # seq => Statement(p, i)' = Statement(p, i)
      /\ Statement(o, seq)'.status = scvProtocol("Disputed")
  <2>1. StatementsInv /\ o \in Party /\ seq \in DOMAIN statements[o]
    BY <1>2, <1>3 DEF IInv
  <2>2. statements' = [statements EXCEPT ![o][seq] = WithStatus(@, "Disputed")]
    BY <1>4
  <2> QED
    BY <2>1, <2>2, OnlyTheStatusChanges
<1>7. /\ StatementsInv'
      /\ \A d, e : ResolvedBy(d, e) => ResolvedBy(d, e)'
      /\ \A p \in Party : \A i \in DOMAIN statements[p] : AnchorFields(p, i)' = AnchorFields(p, i)
  BY <1>1, <1>4, <1>6, StatusKeepsStatements
<1>8. \A d \in disputes : d.operator # o \/ d.seq # seq
  <2> SUFFICES ASSUME NEW d \in disputes, d.operator = o, d.seq = seq PROVE FALSE
    OBVIOUS
  <2>1. HasStatus(o, seq, "Disputed") \/ HasStatus(o, seq, "Resolved")
    BY DEF IInv, DisputesInv
  <2> QED
    BY <1>3, <2>1, ProtocolsDiffer DEF HasStatus
<1>9. /\ \A p \in Party : \A i, status :
            p # o \/ i # seq => (HasStatus(p, i, status)' <=> HasStatus(p, i, status))
      /\ HasStatus(o, seq, "Disputed")'
  BY <1>2, <1>3, <1>6 DEF HasStatus
<1>10. DisputesInv'
  <2>1. ASSUME NEW d \in disputes'
        PROVE  (/\ d.operator \in Party /\ d.seq \in DOMAIN statements[d.operator]
                /\ d.fields.consumer = Statement(d.operator, d.seq).consumer
                /\ IF IsOpen(d)
                   THEN /\ HasStatus(d.operator, d.seq, "Disputed")
                        /\ d.fields.amount_credited = ScvI128(0)
                   ELSE /\ HasStatus(d.operator, d.seq, "Resolved")
                        /\ \E e \in entries : ResolvedBy(d, e))'
    <3>1. CASE d = new
      <4>1. Statement(o, seq)'.consumer = Statement(o, seq).consumer
        BY <1>2, <1>3, <1>6, SameTermsFields
      <4> QED
        BY <1>2, <1>3, <1>6, <1>5, <1>9, <3>1, <4>1 DEF IsOpen
    <3>2. CASE d \in disputes
      <4>1. /\ d.operator \in Party /\ d.seq \in DOMAIN statements[d.operator]
            /\ d.fields.consumer = Statement(d.operator, d.seq).consumer
            /\ IF IsOpen(d)
               THEN /\ HasStatus(d.operator, d.seq, "Disputed")
                    /\ d.fields.amount_credited = ScvI128(0)
               ELSE /\ HasStatus(d.operator, d.seq, "Resolved")
                    /\ \E e \in entries : ResolvedBy(d, e)
        BY <3>2 DEF IInv, DisputesInv
      <4>2. d.operator # o \/ d.seq # seq
        BY <1>8, <3>2
      <4> QED
        BY <1>6, <1>7, <1>9, <4>1, <4>2 DEF Executing, IsOpen
    <3> QED
      BY <1>4, <3>1, <3>2
  <2>2. ASSUME NEW p \in Party, NEW i \in Nat, HasStatus(p, i, "Disputed")'
        PROVE  \E d \in disputes' : d.operator = p /\ d.seq = i
    <3>1. CASE p = o /\ i = seq
      BY <1>4, <1>5, <3>1
    <3>2. CASE ~(p = o /\ i = seq)
      BY <1>4, <1>9, <2>2, <3>2 DEF IInv, DisputesInv
    <3> QED
      BY <3>1, <3>2
  <2> QED
    BY <2>1, <2>2 DEF DisputesInv
<1>11. EventsInv'
  <2>1. PICK emitted : emitted = <<t.args[1], t.args[3], t.args[2], t.args[4]>>
    OBVIOUS
  <2>2. emitted = DisputeFields(new)
    BY <1>2, <1>5, <2>1 DEF DisputeFields
  <2>3. /\ \E A : events' \in Seq(A)
        /\ \A tp, f : f \in Fields(tp)' <=> f \in Fields(tp) \/ (tp = "dispute" /\ f = emitted)
    BY <1>4, <2>1, EmitAddsFields DEF IInv
  <2>4. \A f : f \in Fields("anchor")' <=>
            \E p \in Party : \E i \in DOMAIN statements'[p] : f = AnchorFields(p, i)'
    BY <1>6, <1>7, <2>3 DEF IInv, EventsInv
  <2>5. \A f : f \in Fields("dispute")' <=> \E d \in disputes' : f = DisputeFields(d)
    BY <1>4, <2>2, <2>3 DEF IInv, EventsInv
  <2>6. \A f : f \in Fields("resolve")' <=> \E d \in disputes' : ~IsOpen(d) /\ f = ResolveFields(d)
    BY <1>4, <1>5, <2>3 DEF IInv, EventsInv
  <2>7. \A d : /\ DisputeFields(d)' = DisputeFields(d) /\ IsOpen(d)' = IsOpen(d)
               /\ ResolveFields(d)' = ResolveFields(d)
    BY DEF DisputeFields, ResolveFields, IsOpen
  <2> QED
    BY <2>3, <2>4, <2>5, <2>6, <2>7 DEF EventsInv
<1>12. LedgersInv'
  <2>1. Len(events) \in Nat /\ Len(events') = Len(events) + 1
    BY <1>4, EmitAddsFields DEF IInv
  <2>2. /\ \A p \in Party : \A i \in DOMAIN statements[p] :
              Statement(p, i)'.anchored_ledger = Statement(p, i).anchored_ledger
        /\ \A p \in Party : DOMAIN statements'[p] = DOMAIN statements[p]
    BY <1>6, SameTermsFields
  <2>3. ASSUME NEW d \in disputes'
        PROVE  InOrder(Statement(d.operator, d.seq).anchored_ledger, d.fields, Len(events))'
    <3>1. CASE d = new
      <4>1. PICK j \in Nat : j <= Len(events) /\ Statement(o, seq).anchored_ledger = ScvU32(j)
        BY <1>2, <1>3 DEF IInv, LedgersInv
      <4>2. /\ Statement(o, seq)'.anchored_ledger = ScvU32(j)
            /\ d.fields.opened_ledger = ScvU32(Len(events) + 1)
            /\ d.fields.resolution_hash = ScvVoid /\ d.fields.resolved_ledger = ScvVoid
            /\ d.operator = o /\ d.seq = seq
        BY <1>2, <1>3, <1>5, <2>2, <3>1, <4>1 DEF Ledger, IsOpen
      <4>3. InOrder(Statement(o, seq)'.anchored_ledger, d.fields, Len(events) + 1)
        BY <2>1, <4>1, <4>2 DEF InOrder
      <4> QED
        BY <2>1, <4>2, <4>3
    <3>2. CASE d \in disputes
      <4>1. /\ InOrder(Statement(d.operator, d.seq).anchored_ledger, d.fields, Len(events))
            /\ d.operator \in Party /\ d.seq \in DOMAIN statements[d.operator]
        BY <3>2 DEF IInv, DisputesInv, LedgersInv
      <4> QED
        BY <2>1, <2>2, <4>1, LaterIsInOrder
    <3> QED
      BY <1>4, <3>1, <3>2
  <2> QED
    BY <2>1, <2>2, <2>3 DEF IInv, LedgersInv
<1> QED
  BY <1>4, <1>7, <1>10, <1>11, <1>12

\* The arguments the operator sends are those the consumer signed, so what is
\* resolved is what both meant.
LEMMA ResolveDisputeIsExecuted ==
    ASSUME IInv, NEW S \in SUBSET Call, NEW t, Executing(S, t), Accepts(t), ApplyResolveDispute(t)
    PROVE  StatementsInv' /\ DisputesInv' /\ EventsInv' /\ LedgersInv' /\ result' = result
<1>1. PICK c, w :
          /\ c \in S /\ w = want[c] /\ w \in ResolveDisputeWant /\ t.fn = "resolve_dispute"
          /\ w.credited \in I128 /\ t.entry \in entries
          /\ t.args = ResolveDisputeArgs(w.signer, w.seq, w.resolution, w.credited)
  BY DEF Executing, Encodes, ApplyResolveDispute
<1>2. PICK o, seq : /\ o = Decode(t.args[1]) /\ seq = Decode(t.args[2]) /\ o \in Party /\ seq \in Nat
                    /\ t.args[1] = ScvAddress(o) /\ t.args[2] = ScvU64(seq)
                    /\ o = w.signer /\ seq = w.seq
  BY <1>1 DEF ResolveDisputeArgs, ResolveDisputeWant, ScvAddress, ScvU64, Decode
<1>3. /\ HasStatus(o, seq, "Disputed") /\ seq \in DOMAIN statements[o]
      /\ t.entry.args = t.args
      /\ Statement(o, seq).consumer = ScvAddress(t.entry.of.consumer)
  BY <1>1, <1>2 DEF Accepts, HasStatus
<1>0. PICK ledger : ledger = Ledger
  OBVIOUS
<1> DEFINE R(d) ==
      IF d.operator = o /\ d.seq = seq
      THEN [operator |-> o, seq |-> seq,
            fields |-> [consumer |-> d.fields.consumer, reason_hash |-> d.fields.reason_hash,
                        opened_ledger |-> d.fields.opened_ledger,
                        resolution_hash |-> t.args[3], amount_credited |-> t.args[4],
                        resolved_ledger |-> ledger]]
      ELSE d
           Concerns(d) == d.operator = o /\ d.seq = seq
<1>4. /\ disputes' = {R(d) : d \in disputes}
      /\ Emit("resolve", <<t.args[1], Statement(o, seq).consumer, t.args[2], t.args[3], t.args[4]>>)
      /\ result' = result
  BY <1>2, <1>0 DEF ApplyResolveDispute
<1>5. /\ \A d : ~Concerns(d) => R(d) = d
      /\ \A d : Concerns(d) =>
            /\ Concerns(R(d))
            /\ R(d).fields.consumer = d.fields.consumer
            /\ R(d).fields.reason_hash = d.fields.reason_hash
            /\ R(d).fields.resolution_hash = t.args[3]
            /\ R(d).fields.amount_credited = t.args[4]
            /\ R(d).fields.opened_ledger = d.fields.opened_ledger
            /\ R(d).fields.resolved_ledger = ledger
  OBVIOUS
<1> HIDE DEF R
<1>6. /\ DOMAIN statements' = Party
      /\ \A p \in Party :
            /\ \E A : statements'[p] \in Seq(A)
            /\ DOMAIN statements'[p] = DOMAIN statements[p]
            /\ \A i \in DOMAIN statements[p] :
                  /\ SameTerms(Statement(p, i)', Statement(p, i))
                  /\ p # o \/ i # seq => Statement(p, i)' = Statement(p, i)
      /\ Statement(o, seq)'.status = scvProtocol("Resolved")
  <2>1. StatementsInv /\ o \in Party /\ seq \in DOMAIN statements[o]
    BY <1>2, <1>3 DEF IInv
  <2>2. statements' = [statements EXCEPT ![o][seq] = WithStatus(@, "Resolved")]
    BY <1>2 DEF ApplyResolveDispute
  <2> QED
    BY <2>1, <2>2, OnlyTheStatusChanges
<1>7. /\ StatementsInv'
      /\ \A d, e : ResolvedBy(d, e) => ResolvedBy(d, e)'
      /\ \A p \in Party : \A i \in DOMAIN statements[p] : AnchorFields(p, i)' = AnchorFields(p, i)
  BY <1>1, <1>4, <1>6, StatusKeepsStatements
<1>8. /\ \A p \in Party : \A i, status :
            p # o \/ i # seq => (HasStatus(p, i, status)' <=> HasStatus(p, i, status))
      /\ HasStatus(o, seq, "Resolved")' /\ ~HasStatus(o, seq, "Disputed")'
  <2>1. scvProtocol("Resolved") # scvProtocol("Disputed")
    BY ProtocolsDiffer
  <2> QED
    BY <1>2, <1>3, <1>6, <2>1 DEF HasStatus
<1>9. \A d \in disputes : Concerns(d) => IsOpen(d)
  <2> SUFFICES ASSUME NEW d \in disputes, Concerns(d), ~IsOpen(d) PROVE FALSE
    OBVIOUS
  <2>1. HasStatus(o, seq, "Resolved")
    BY DEF IInv, DisputesInv
  <2> QED
    BY <1>3, <2>1, ProtocolsDiffer DEF HasStatus
<1>10. t.args[3] = ScvBytes(w.resolution) /\ t.args[4] = ScvI128(w.credited)
  BY <1>1 DEF ResolveDisputeArgs
<1>11. \A d : /\ Concerns(d) => ~IsOpen(R(d))
              /\ ~Concerns(d) => (IsOpen(R(d)) <=> IsOpen(d))
  <2>1. t.args[3] # ScvVoid
    BY <1>10 DEF ScvBytes, ScvVoid
  <2> QED
    BY <1>5, <2>1 DEF IsOpen
<1>12. ASSUME NEW d \in disputes, Concerns(d)
       PROVE  ResolvedBy(R(d), t.entry)'
  <2>1. /\ t.entry.of.credited \in I128
        /\ t.args = ResolveDisputeArgs(t.entry.of.operator, t.entry.of.seq,
                                       t.entry.of.resolution, t.entry.of.credited)
    BY <1>1, <1>3 DEF IInv, EntriesInv
  <2>2. /\ t.entry.of.operator = o /\ t.entry.of.seq = seq
        /\ t.args[3] = ScvBytes(t.entry.of.resolution)
        /\ t.args[4] = ScvI128(t.entry.of.credited)
    <3>1. /\ t.args[1] = ScvAddress(t.entry.of.operator)
          /\ t.args[2] = ScvU64(t.entry.of.seq)
          /\ t.args[3] = ScvBytes(t.entry.of.resolution)
          /\ t.args[4] = ScvI128(t.entry.of.credited)
      BY <2>1 DEF ResolveDisputeArgs
    <3>2. ScvAddress(o) = ScvAddress(t.entry.of.operator) /\ ScvU64(seq) = ScvU64(t.entry.of.seq)
      BY <1>2, <3>1
    <3>3. o = t.entry.of.operator /\ seq = t.entry.of.seq
      BY <3>2 DEF ScvAddress, ScvU64
    <3> QED
      BY <3>1, <3>3
  <2>3. t.entry.of.resolution = w.resolution /\ t.entry.of.credited = w.credited
    BY <1>1, <1>10, <2>1, <2>2, I128Injective DEF ScvBytes
  <2>4. R(d).fields.consumer = ScvAddress(t.entry.of.consumer)
    BY <1>3, <1>5, <1>12 DEF IInv, DisputesInv
  <2>5. /\ c \in Call /\ fate'[c] = "done" /\ want'[c] = w /\ w.fn = "resolve_dispute"
    BY <1>1 DEF Executing, ResolveDisputeWant
  <2>6. /\ R(d).operator = o /\ R(d).seq = seq
        /\ R(d).fields.resolution_hash = ScvBytes(t.entry.of.resolution)
        /\ R(d).fields.amount_credited = ScvI128(t.entry.of.credited)
    BY <1>5, <1>12, <2>2
  <2>7. \E b \in Call :
            /\ fate'[b] = "done" /\ want'[b].fn = "resolve_dispute"
            /\ <<want'[b].signer, want'[b].seq, want'[b].resolution, want'[b].credited>>
                 = <<o, seq, t.entry.of.resolution, t.entry.of.credited>>
    BY <1>2, <2>3, <2>5
  <2> QED
    BY <2>2, <2>4, <2>6, <2>7 DEF ResolvedBy
<1>13. DisputesInv'
  <2>1. ASSUME NEW x \in disputes'
        PROVE  (/\ x.operator \in Party /\ x.seq \in DOMAIN statements[x.operator]
                /\ x.fields.consumer = Statement(x.operator, x.seq).consumer
                /\ IF IsOpen(x)
                   THEN /\ HasStatus(x.operator, x.seq, "Disputed")
                        /\ x.fields.amount_credited = ScvI128(0)
                   ELSE /\ HasStatus(x.operator, x.seq, "Resolved")
                        /\ \E e \in entries : ResolvedBy(x, e))'
    <3>1. PICK d \in disputes : x = R(d)
      BY <1>4
    <3>2. /\ d.operator \in Party /\ d.seq \in DOMAIN statements[d.operator]
          /\ d.fields.consumer = Statement(d.operator, d.seq).consumer
          /\ IF IsOpen(d)
             THEN /\ HasStatus(d.operator, d.seq, "Disputed")
                  /\ d.fields.amount_credited = ScvI128(0)
             ELSE /\ HasStatus(d.operator, d.seq, "Resolved")
                  /\ \E e \in entries : ResolvedBy(d, e)
      BY DEF IInv, DisputesInv
    <3>3. IsOpen(x)' <=> IsOpen(x)
      BY DEF IsOpen
    <3>4. CASE Concerns(d)
      <4>1. ResolvedBy(x, t.entry)' /\ t.entry \in entries'
        BY <1>1, <1>12, <3>1, <3>4 DEF Executing
      <4>2. ~IsOpen(x)
        BY <1>11, <3>1, <3>4
      <4>3. /\ x.operator = o /\ x.seq = seq
            /\ x.fields.consumer = Statement(o, seq).consumer
        BY <1>5, <3>1, <3>2, <3>4
      <4>4. Statement(o, seq)'.consumer = Statement(o, seq).consumer
        BY <1>2, <1>3, <1>6, SameTermsFields
      <4> QED
        BY <1>2, <1>3, <1>6, <1>8, <3>3, <4>1, <4>2, <4>3, <4>4
    <3>5. CASE ~Concerns(d)
      <4>1. x = d
        BY <1>5, <3>1, <3>5
      <4> QED
        BY <1>6, <1>7, <1>8, <3>2, <3>3, <3>5, <4>1 DEF Executing
    <3> QED
      BY <3>4, <3>5
  <2>2. ASSUME NEW p \in Party, NEW i \in Nat, HasStatus(p, i, "Disputed")'
        PROVE  \E x \in disputes' : x.operator = p /\ x.seq = i
    <3>1. ~(p = o /\ i = seq)
      BY <1>8, <2>2
    <3>2. HasStatus(p, i, "Disputed")
      BY <1>8, <2>2, <3>1
    <3>3. PICK d \in disputes : d.operator = p /\ d.seq = i
      BY <3>2 DEF IInv, DisputesInv
    <3> QED
      BY <1>4, <1>5, <3>1, <3>3
  <2> QED
    BY <2>1, <2>2 DEF DisputesInv
<1>14. EventsInv'
  <2>1. PICK emitted :
            emitted = <<t.args[1], Statement(o, seq).consumer, t.args[2], t.args[3], t.args[4]>>
    OBVIOUS
  <2>2. /\ \E A : events' \in Seq(A)
        /\ \A tp, f : f \in Fields(tp)' <=> f \in Fields(tp) \/ (tp = "resolve" /\ f = emitted)
    BY <1>4, <2>1, EmitAddsFields DEF IInv
  <2>3. \A f : f \in Fields("anchor")' <=>
            \E p \in Party : \E i \in DOMAIN statements'[p] : f = AnchorFields(p, i)'
    BY <1>6, <1>7, <2>2 DEF IInv, EventsInv
  <2>4. \A d \in disputes : DisputeFields(R(d)) = DisputeFields(d)
    BY <1>5 DEF DisputeFields
  <2>5. \A f : f \in Fields("dispute")' <=> \E x \in disputes' : f = DisputeFields(x)
    BY <1>4, <2>2, <2>4 DEF IInv, EventsInv
  <2>6. \A d \in disputes : Concerns(d) => ResolveFields(R(d)) = emitted
    <3> SUFFICES ASSUME NEW d \in disputes, Concerns(d) PROVE ResolveFields(R(d)) = emitted
      OBVIOUS
    <3>1. d.fields.consumer = Statement(o, seq).consumer
      BY DEF IInv, DisputesInv
    <3> QED
      BY <1>2, <1>5, <2>1, <3>1 DEF ResolveFields
  <2>7. \E d \in disputes : Concerns(d)
    BY <1>2, <1>3 DEF IInv, DisputesInv
  <2>8. \A f : f \in Fields("resolve")' <=> \E x \in disputes' : ~IsOpen(x) /\ f = ResolveFields(x)
    <3>1. \A f : f \in Fields("resolve") <=> \E d \in disputes : ~IsOpen(d) /\ f = ResolveFields(d)
      BY DEF IInv, EventsInv
    <3> HIDE DEF Concerns
    <3>2. ASSUME NEW f, f \in Fields("resolve")'
          PROVE  \E x \in disputes' : ~IsOpen(x) /\ f = ResolveFields(x)
      <4>1. CASE f = emitted
        BY <1>4, <1>11, <2>6, <2>7, <4>1
      <4>2. CASE f \in Fields("resolve")
        BY <1>4, <1>5, <1>9, <3>1, <4>2
      <4> QED
        BY <2>2, <3>2, <4>1, <4>2
    <3>3. ASSUME NEW f, NEW x \in disputes', ~IsOpen(x), f = ResolveFields(x)
          PROVE  f \in Fields("resolve")'
      <4>1. PICK d \in disputes : x = R(d)
        BY <1>4
      <4>2. CASE Concerns(d)
        BY <2>2, <2>6, <3>3, <4>1, <4>2
      <4>3. CASE ~Concerns(d)
        BY <1>5, <2>2, <3>1, <3>3, <4>1, <4>3
      <4> QED
        BY <4>2, <4>3
    <3> QED
      BY <3>2, <3>3
  <2>9. \A d : /\ DisputeFields(d)' = DisputeFields(d) /\ IsOpen(d)' = IsOpen(d)
               /\ ResolveFields(d)' = ResolveFields(d)
    BY DEF DisputeFields, ResolveFields, IsOpen
  <2> QED
    BY <2>2, <2>3, <2>5, <2>8, <2>9 DEF EventsInv
<1>15. LedgersInv'
  <2>1. Len(events) \in Nat /\ Len(events') = Len(events) + 1
    BY <1>4, EmitAddsFields DEF IInv
  <2>2. /\ \A p \in Party : \A i \in DOMAIN statements[p] :
              Statement(p, i)'.anchored_ledger = Statement(p, i).anchored_ledger
        /\ \A p \in Party : DOMAIN statements'[p] = DOMAIN statements[p]
    BY <1>6, SameTermsFields
  <2>3. ASSUME NEW x \in disputes'
        PROVE  InOrder(Statement(x.operator, x.seq).anchored_ledger, x.fields, Len(events))'
    <3>1. PICK d \in disputes : x = R(d)
      BY <1>4
    <3>2. /\ InOrder(Statement(d.operator, d.seq).anchored_ledger, d.fields, Len(events))
          /\ d.operator \in Party /\ d.seq \in DOMAIN statements[d.operator]
      BY DEF IInv, DisputesInv, LedgersInv
    <3>3. CASE Concerns(d)
      <4>1. PICK j, k \in Nat :
                /\ Statement(d.operator, d.seq).anchored_ledger = ScvU32(j)
                /\ d.fields.opened_ledger = ScvU32(k) /\ j < k /\ k <= Len(events)
        BY <3>2 DEF InOrder
      <4>2. /\ x.operator = d.operator /\ x.seq = d.seq
            /\ x.fields.opened_ledger = ScvU32(k)
            /\ x.fields.resolution_hash # ScvVoid
            /\ x.fields.resolved_ledger = ScvU32(Len(events) + 1)
        BY <1>5, <1>11, <1>0, <3>1, <3>3, <4>1 DEF IsOpen, Ledger
      <4>3. InOrder(Statement(x.operator, x.seq)'.anchored_ledger, x.fields, Len(events) + 1)
        BY <2>1, <2>2, <3>2, <4>1, <4>2 DEF InOrder
      <4> QED
        BY <2>1, <4>3
    <3>4. CASE ~Concerns(d)
      <4>1. x = d
        BY <1>5, <3>1, <3>4
      <4> QED
        BY <2>1, <2>2, <3>2, <4>1, LaterIsInOrder
    <3> QED
      BY <3>3, <3>4
  <2> QED
    BY <2>1, <2>2, <2>3 DEF IInv, LedgersInv
<1> QED
  BY <1>4, <1>7, <1>13, <1>14, <1>15

LEMMA ApplyKeepsIInv ==
    ASSUME IInv, NEW S \in SUBSET Call, Apply(S)
    PROVE  IInv'
<1>1. PICK c \in S : /\ Accepts(tx[c])
                     /\ \/ ApplyAnchor(S, tx[c]) \/ ApplyOpenDispute(tx[c])
                        \/ ApplyResolveDispute(tx[c])
  BY DEF Apply
<1>2. PICK t : t = tx[c]
  OBVIOUS
<1>3. /\ \A d \in S : fate[d] = "open" /\ tx[d] = t
      /\ fate' = [d \in Call |-> IF d \in S THEN "done" ELSE fate[d]]
      /\ UNCHANGED <<pc, tx, out, entries, want, number>>
  BY <1>1, <1>2 DEF Apply, Conclude
<1>4. Executing(S, t)
  BY <1>1, <1>2, <1>3 DEF IInv, CallInv, Executing
<1>5. /\ StatementsInv' /\ DisputesInv' /\ EventsInv' /\ LedgersInv'
      /\ DOMAIN result' = Call /\ \A d \in Call \ S : result'[d] = result[d]
  <2>1. CASE ApplyAnchor(S, t)
    BY <1>4, <2>1, AnchorIsExecuted
  <2>2. CASE ApplyOpenDispute(t)
    BY <1>1, <1>2, <1>4, <2>2, OpenDisputeIsExecuted DEF IInv, CallInv
  <2>3. CASE ApplyResolveDispute(t)
    BY <1>1, <1>2, <1>4, <2>3, ResolveDisputeIsExecuted DEF IInv, CallInv
  <2> QED
    BY <1>1, <1>2, <2>1, <2>2, <2>3
<1>6. TypeInv'
  BY <1>3 DEF IInv, TypeInv, Fate
<1>7. CallInv'
  <2>1. \A u, w : Encodes(u, w)' <=> Encodes(u, w)
    BY <1>3 DEF Encodes
  <2> QED
    BY <1>3, <1>5, <2>1 DEF IInv, CallInv
<1>8. EntriesInv'
  BY <1>3 DEF IInv, EntriesInv
<1> QED
  BY <1>5, <1>6, <1>7, <1>8 DEF IInv

-----------------------------------------------------------------------------
LEMMA NextKeepsIInv == IInv /\ [Next]_vars => IInv'
<1> SUFFICES ASSUME IInv, [Next]_vars PROVE IInv'
  OBVIOUS
<1>1. ASSUME NEW a \in Agreement, Authorize(a) PROVE IInv'
  BY <1>1, AuthorizeKeepsIInv
<1>2. ASSUME NEW c \in Call, Begin(c) PROVE IInv'
  BY <1>2, BeginKeepsIInv
<1>3. ASSUME NEW c \in Call, Advance(c) \/ Return(c) PROVE IInv'
  BY <1>3, AnswerKeepsIInv
<1>4. ASSUME NEW S \in SUBSET Call, Apply(S) PROVE IInv'
  BY <1>4, ApplyKeepsIInv
<1>5. ASSUME NEW S \in SUBSET Call, Reject(S) PROVE IInv'
  BY <1>5, RejectKeepsIInv
<1>6. CASE UNCHANGED vars
  <2>1. UNCHANGED <<statements, disputes, events, entries, want, result, number, pc, tx, fate, out>>
    BY <1>6 DEF vars, submission
  <2>2. TypeInv' /\ EntriesInv'
    BY <2>1 DEF IInv, TypeInv, EntriesInv
  <2>3. CallInv'
    <3>1. \A u, w : Encodes(u, w)' <=> Encodes(u, w)
      BY <2>1 DEF Encodes
    <3> QED
      BY <2>1, <3>1 DEF IInv, CallInv
  <2> QED
    BY <2>1, <2>2, <2>3, QuietKeepsIInv
<1> QED
  BY <1>1, <1>2, <1>3, <1>4, <1>5, <1>6 DEF Next

\* IInv is an invariant: each statement, dispute and event is there because of
\* calls that were executed and entries that were signed.
THEOREM Invariance == Spec => []IInv
<1>1. IInv /\ [Next]_vars => IInv'
  BY NextKeepsIInv
<1> QED
  BY <1>1, InitIInv, PTL DEF Spec

\* The variables have their types: every amount that is stored fits the two
\* words it is encoded in.
THEOREM TypeCorrect == Spec => []TypeOK
BY Invariance, IInvImpliesTypeOK, PTL

\* A statement that can be read is one that an executed call of Anchor asked
\* for, in every field, under the number the network gave that call, and each
\* executed call has its statement.
THEOREM ReadsAsAsked == Spec => []StatementsAreAsAsked
BY Invariance, IInvImpliesStatementsAreAsAsked, PTL

\* Anchor returns the number of its own statement, whatever else its operator
\* anchors meanwhile (invoke.go:97-100).
THEOREM ReturnsItsOwn == Spec => []AnchorReturnsItsOwn
BY Invariance, IInvImpliesAnchorReturnsItsOwn, PTL

\* A dispute that reads as resolved was resolved as its consumer signed and as
\* its operator asked, in a ledger after the one it was opened in.
THEOREM ResolvedAsSigned == Spec => []ResolvedAsAgreed
BY Invariance, IInvImpliesResolvedAsAgreed, PTL

\* The decoded events tell what the decoded reads tell, no more and no less.
THEOREM EventsAgree == Spec => []EventsTellTheSame
BY Invariance, IInvImpliesEventsTellTheSame, PTL

-----------------------------------------------------------------------------
LEMMA CallsSubmit == IInv /\ [Next]_vars => [SubmissionNext]_submission
<1> SUFFICES ASSUME IInv, [Next]_vars PROVE [SubmissionNext]_submission
  OBVIOUS
<1>1. ASSUME NEW c \in Call, Begin(c) PROVE SubmissionNext
  <2>1. PICK t : Prepare(c, t) \/ Refuse(c)
    BY <1>1 DEF Begin, Anchor, OpenDispute, ResolveDispute, Invoke
  <2>2. Prepare(c, t) => t = tx'[c]
    BY DEF Prepare, IInv, CallInv
  <2> QED
    BY <2>1, <2>2 DEF SubmissionNext
<1>2. ASSUME NEW c \in Call, Advance(c) \/ Return(c) PROVE SubmissionNext
  BY <1>2 DEF Advance, Return, SubmissionNext
<1>3. ASSUME NEW S \in SUBSET Call, Apply(S) \/ Reject(S) PROVE SubmissionNext
  BY <1>3 DEF Apply, Reject, SubmissionNext
<1>4. ASSUME NEW a \in Agreement, Authorize(a) PROVE UNCHANGED submission
  BY <1>4 DEF Authorize
<1>5. CASE UNCHANGED vars
  BY <1>5 DEF vars
<1> QED
  BY <1>1, <1>2, <1>3, <1>4, <1>5 DEF Next

\* The calls of registry.go go through invokeAndSubmit in every step, and do
\* nothing with a transaction that it does not allow: what module Invoke is
\* proved to implement is all that this module takes of the write path.
THEOREM CallsAreSubmissions == Spec => SubmissionSpec
<1>1. Init => SubmissionInit
  BY DEF Init
<1> QED
  BY <1>1, Invariance, CallsSubmit, PTL DEF Spec, SubmissionSpec

=============================================================================
