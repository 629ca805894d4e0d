------------------------------- MODULE Registry -------------------------------
(***************************************************************************)
(* internal/stellar/registry.go and the registry's events of events.go:    *)
(* operators anchor statements, consumers open disputes, and a dispute is  *)
(* resolved by a call of the operator that carries an authorization entry  *)
(* the consumer signed elsewhere, for arguments it built itself.           *)
(*                                                                         *)
(* A call encodes its arguments and is then what module Submission says:   *)
(* simulated, sent, settled at any later time, answered or not.  The       *)
(* contract is external.  It answers with values that the binding decodes: *)
(* results and statements by field name, events by position.               *)
(***************************************************************************)
EXTENDS ScVal, FiniteSets, Submission

CONSTANTS
    Party,        \* operators and consumers
    Digest,       \* usage roots, reasons and resolutions
    Want,         \* Want[c]: what the caller of c may ask for
    Agreement,    \* what a consumer may be asked to authorize
    MaxEntries    \* bound: authorization entries signed

VARIABLES
    statements,   \* statements[o]: the operator's statements, by sequence number
    disputes,     \* the disputes, [operator, seq, fields]
    events,       \* what the contract has emitted, [topic, fields]
    entries,      \* signed entries; `of' is what the consumer had in mind
    want,         \* want[c]: the arguments of the Go call
    result,       \* result[c]: the contract's return value
    number        \* number[c]: the sequence number Anchor returned

vars == <<submission, statements, disputes, events, entries, want, result, number>>

contract == <<statements, disputes, events, result>>

AnchorWant ==
    [fn : {"anchor"}, signer : Party, consumer : Party, periodStart : Nat, periodEnd : Nat,
     root : Digest, requestCount : Nat, token : Party, billed : Int, settled : Int,
     priceBookVersion : Nat, protocol : STRING, channel : Party \cup {None}]

OpenDisputeWant ==
    [fn : {"open_dispute"}, signer : Party, operator : Party, seq : Nat, reason : Digest]

ResolveDisputeWant ==
    [fn : {"resolve_dispute"}, signer : Party, seq : Nat, resolution : Digest,
     credited : Int]

ASSUME CallersAssumption ==
    /\ \A c \in Call : Want[c] \subseteq AnchorWant \cup OpenDisputeWant \cup ResolveDisputeWant
    /\ Agreement \subseteq [operator : Party, consumer : Party, seq : Nat,
                            resolution : Digest, credited : Int]
    /\ None \notin Party \cup Digest
    /\ MaxEntries \in Nat

Init ==
    /\ SubmissionInit
    /\ statements = [o \in Party |-> <<>>]
    /\ disputes = {}
    /\ events = <<>>
    /\ entries = {}
    /\ want = [c \in Call |-> None]
    /\ result = [c \in Call |-> None]
    /\ number = [c \in Call |-> 0]

-----------------------------------------------------------------------------
(* Arguments, and what is decoded. *)

AnchorArgs(w) ==
    <<ScvAddress(w.signer), ScvAddress(w.consumer), ScvU32(w.periodStart),
      ScvU32(w.periodEnd), ScvBytes(w.root), ScvU64(w.requestCount), ScvAddress(w.token),
      ScvI128(w.billed), ScvI128(w.settled), ScvU32(w.priceBookVersion),
      scvProtocol(w.protocol), scvOptionalAddress(w.channel)>>

OpenDisputeArgs(w) ==
    <<ScvAddress(w.operator), ScvU64(w.seq), ScvAddress(w.signer), ScvBytes(w.reason)>>

\* Bug: a credit is not told from a charge.
ResolveDisputeArgsUnsigned(operator, seq, resolution, credited) ==
    <<ScvAddress(operator), ScvU64(seq), ScvBytes(resolution),
      ScvI128(IF credited < 0 THEN -credited ELSE credited)>>

\* Built by the operator for its call and by the consumer for its entry.
ResolveDisputeArgs(operator, seq, resolution, credited) ==
    <<ScvAddress(operator), ScvU64(seq), ScvBytes(resolution), ScvI128(credited)>>

\* Bug: the ends of the period are taken from each other's fields.
decodeStatementSwapped(m) ==
    [operator |-> Decode(m.operator), consumer |-> Decode(m.consumer),
     periodStart |-> Decode(m.period_end), periodEnd |-> Decode(m.period_start),
     root |-> Decode(m.usage_root), requestCount |-> Decode(m.request_count),
     token |-> Decode(m.token),
     billed |-> DecodeI128(m.amount_billed), settled |-> DecodeI128(m.amount_settled),
     priceBookVersion |-> Decode(m.price_book_version),
     protocol |-> decodeUnitEnumVariant(m.protocol), channel |-> decodeOptional(m.channel),
     anchoredLedger |-> Decode(m.anchored_ledger), status |-> decodeUnitEnumVariant(m.status)]

decodeStatement(m) ==
    [operator |-> Decode(m.operator), consumer |-> Decode(m.consumer),
     periodStart |-> Decode(m.period_start), periodEnd |-> Decode(m.period_end),
     root |-> Decode(m.usage_root), requestCount |-> Decode(m.request_count),
     token |-> Decode(m.token),
     billed |-> DecodeI128(m.amount_billed), settled |-> DecodeI128(m.amount_settled),
     priceBookVersion |-> Decode(m.price_book_version),
     protocol |-> decodeUnitEnumVariant(m.protocol), channel |-> decodeOptional(m.channel),
     anchoredLedger |-> Decode(m.anchored_ledger), status |-> decodeUnitEnumVariant(m.status)]

decodeDispute(m) ==
    [consumer |-> Decode(m.consumer), reason |-> Decode(m.reason_hash),
     openedLedger |-> Decode(m.opened_ledger),
     resolution |-> decodeOptional(m.resolution_hash),
     credited |-> DecodeI128(m.amount_credited),
     resolvedLedger |-> decodeOptional(m.resolved_ledger)]

\* Bug: the event's fields are taken to be in the order of the Go struct of a
\* statement, where the root comes before the sequence number.
DecodeStatementAnchorEventReordered(f) ==
    [operator |-> Decode(f[1]), consumer |-> Decode(f[2]), seq |-> Decode(f[4]),
     root |-> Decode(f[3]), billed |-> DecodeI128(f[5]), settled |-> DecodeI128(f[6]),
     protocol |-> decodeUnitEnumVariant(f[7])]

DecodeStatementAnchorEvent(f) ==
    [operator |-> Decode(f[1]), consumer |-> Decode(f[2]), seq |-> Decode(f[3]),
     root |-> Decode(f[4]), billed |-> DecodeI128(f[5]), settled |-> DecodeI128(f[6]),
     protocol |-> decodeUnitEnumVariant(f[7])]

DecodeStatementDisputeEvent(f) ==
    [operator |-> Decode(f[1]), consumer |-> Decode(f[2]), seq |-> Decode(f[3]),
     reason |-> Decode(f[4])]

DecodeStatementResolveEvent(f) ==
    [operator |-> Decode(f[1]), consumer |-> Decode(f[2]), seq |-> Decode(f[3]),
     resolution |-> Decode(f[4]), credited |-> DecodeI128(f[5])]

-----------------------------------------------------------------------------
(* The contract: external. *)

Used(entry) == \E c \in Call : fate[c] = "done" /\ tx[c].entry = entry

Statement(o, seq) == statements[o][seq]

HasStatus(o, seq, status) ==
    seq \in DOMAIN statements[o] /\ Statement(o, seq).status = scvProtocol(status)

\* Whether the contract accepts t now.  An entry authorizes the exact arguments
\* it was signed for, once.
Accepts(t) ==
    LET o == Decode(t.args[1])
        seq == Decode(t.args[2])
    IN  \/ t.fn = "anchor"
        \/ /\ t.fn = "open_dispute"
           /\ HasStatus(o, seq, "Anchored")
           /\ Statement(o, seq).consumer = t.args[3]
        \/ /\ t.fn = "resolve_dispute"
           /\ HasStatus(o, seq, "Disputed")
           /\ t.entry.args = t.args /\ ~Used(t.entry)
           /\ Statement(o, seq).consumer = ScvAddress(t.entry.of.consumer)

StatementOf(args, ledger) ==
    [operator |-> args[1], consumer |-> args[2], period_start |-> args[3],
     period_end |-> args[4], usage_root |-> args[5], request_count |-> args[6],
     token |-> args[7], amount_billed |-> args[8], amount_settled |-> args[9],
     price_book_version |-> args[10], protocol |-> args[11], channel |-> args[12],
     anchored_ledger |-> ledger, status |-> scvProtocol("Anchored")]

WithStatus(s, status) == [s EXCEPT !.status = scvProtocol(status)]

\* The ledger in which a transaction is applied: each in one of its own.
Ledger == ScvU32(Len(events) + 1)

Emit(topic, fields) == events' = Append(events, [topic |-> topic, fields |-> fields])

\* anchor returns the sequence number it assigns.
ApplyAnchor(S, t) ==
    LET o == Decode(t.args[1])
        seq == ScvU64(Len(statements[o]) + 1)
    IN  /\ t.fn = "anchor"
        /\ statements' = [statements EXCEPT ![o] = Append(@, StatementOf(t.args, Ledger))]
        /\ Emit("anchor", <<t.args[1], t.args[2], seq, t.args[5], t.args[8],
                            t.args[9], t.args[11]>>)
        /\ result' = [c \in Call |-> IF c \in S THEN seq ELSE result[c]]
        /\ UNCHANGED disputes

ApplyOpenDispute(t) ==
    LET o == Decode(t.args[1])
        seq == Decode(t.args[2])
    IN  /\ t.fn = "open_dispute"
        /\ statements' = [statements EXCEPT ![o][seq] = WithStatus(@, "Disputed")]
        /\ disputes' = disputes \cup
             {[operator |-> o, seq |-> seq,
               fields |-> [consumer |-> t.args[3], reason_hash |-> t.args[4],
                           opened_ledger |-> Ledger, resolution_hash |-> ScvVoid,
                           amount_credited |-> ScvI128(0), resolved_ledger |-> ScvVoid]]}
        /\ Emit("dispute", <<t.args[1], t.args[3], t.args[2], t.args[4]>>)
        /\ UNCHANGED result

ApplyResolveDispute(t) ==
    LET o == Decode(t.args[1])
        seq == Decode(t.args[2])
        Resolved(d) ==
            IF d.operator = o /\ d.seq = seq
            THEN [operator |-> o, seq |-> seq,
                  fields |-> [consumer |-> d.fields.consumer,
                              reason_hash |-> d.fields.reason_hash,
                              opened_ledger |-> d.fields.opened_ledger,
                              resolution_hash |-> t.args[3],
                              amount_credited |-> t.args[4], resolved_ledger |-> Ledger]]
            ELSE d
    IN  /\ t.fn = "resolve_dispute"
        /\ statements' = [statements EXCEPT ![o][seq] = WithStatus(@, "Resolved")]
        /\ disputes' = {Resolved(d) : d \in disputes}
        /\ Emit("resolve", <<t.args[1], Statement(o, seq).consumer, t.args[2],
                             t.args[3], t.args[4]>>)
        /\ UNCHANGED result

-----------------------------------------------------------------------------
(* The callers. *)

\* A call whose arguments encode is simulated against the contract as it is
\* now; ScvI128 refuses an amount beyond i128, and nothing is sent.
Invoke(c, w, amounts, t) ==
    /\ want' = [want EXCEPT ![c] = w]
    /\ \/ amounts \subseteq I128 /\ Accepts(t) /\ Prepare(c, t)
       \/ Refuse(c)
    /\ UNCHANGED <<entries, number>> /\ UNCHANGED contract

Anchor(c, w) ==
    /\ w.fn = "anchor"
    /\ Invoke(c, w, {w.billed, w.settled},
              [fn |-> w.fn, args |-> AnchorArgs(w), entry |-> None])

OpenDispute(c, w) ==
    /\ w.fn = "open_dispute"
    /\ Invoke(c, w, {}, [fn |-> w.fn, args |-> OpenDisputeArgs(w), entry |-> None])

ResolveDispute(c, w, entry) ==
    /\ w.fn = "resolve_dispute"
    /\ Invoke(c, w, {w.credited},
              [fn |-> w.fn, entry |-> entry,
               args |-> ResolveDisputeArgs(w.signer, w.seq, w.resolution, w.credited)])

\* The consumer builds the arguments and signs an entry for them, wherever its
\* key is: AuthorizeInvocation.
Authorize(a) ==
    /\ Cardinality(entries) < MaxEntries
    /\ a.credited \in I128
    /\ entries' = entries \cup
         {[nonce |-> Cardinality(entries) + 1, of |-> a,
           args |-> ResolveDisputeArgs(a.operator, a.seq, a.resolution, a.credited)]}
    /\ UNCHANGED <<want, number>> /\ UNCHANGED submission /\ UNCHANGED contract

\* Bug: Anchor answers with the last number of the operator's list.
ReturnLatest(c) ==
    /\ Succeed(c)
    /\ number' = [number EXCEPT ![c] =
           IF tx[c].fn = "anchor" THEN Len(statements[Decode(tx[c].args[1])]) ELSE @]
    /\ UNCHANGED <<entries, want>> /\ UNCHANGED contract

\* Anchor answers with the number in its own transaction's result.
Return(c) ==
    /\ Succeed(c)
    /\ number' = [number EXCEPT ![c] =
           IF tx[c].fn = "anchor" THEN Decode(result[c]) ELSE @]
    /\ UNCHANGED <<entries, want>> /\ UNCHANGED contract

\* Sending, and every answer but a success.
Advance(c) ==
    /\ Send(c) \/ SendRefused(c) \/ SendUnanswered(c) \/ Fail(c) \/ GiveUp(c)
    /\ UNCHANGED <<entries, want, number>> /\ UNCHANGED contract

-----------------------------------------------------------------------------
(* The transactions that were sent. *)

\* A transaction is applied, for all the calls S that sent it.
Apply(S) ==
    /\ Conclude(S, "done")
    /\ \E c \in S :
         /\ Accepts(tx[c])
         /\ ApplyAnchor(S, tx[c]) \/ ApplyOpenDispute(tx[c]) \/ ApplyResolveDispute(tx[c])
    /\ UNCHANGED <<entries, want, number>>

\* It is refused, by the contract as it is now or for reasons of its own.
Reject(S) ==
    /\ Conclude(S, "void")
    /\ UNCHANGED <<entries, want, number>> /\ UNCHANGED contract

Begin(c) ==
    \E w \in Want[c] :
        \/ Anchor(c, w) \/ OpenDispute(c, w)
        \/ \E entry \in entries : ResolveDispute(c, w, entry)

Next ==
    \/ \E a \in Agreement : Authorize(a)
    \/ \E c \in Call : Begin(c) \/ Advance(c) \/ Return(c)
    \/ \E S \in SUBSET Call : Apply(S) \/ Reject(S)

Spec == Init /\ [][Next]_vars

-----------------------------------------------------------------------------
IsI128(s) == s.hi \in -(Word \div 2) .. Word \div 2 - 1 /\ s.lo \in 0 .. Word - 1

TypeOK ==
    /\ \A o \in Party : \A seq \in DOMAIN statements[o] :
          IsI128(Statement(o, seq).amount_billed) /\ IsI128(Statement(o, seq).amount_settled)
    /\ \A d \in disputes : d.operator \in Party /\ IsI128(d.fields.amount_credited)
    /\ \A e \in entries : e.nonce \in 1 .. MaxEntries /\ e.of \in Agreement
    /\ pc \in [Call -> Phase]
    /\ \A c \in Call : pc[c] # "idle" => want[c] \in Want[c]
    /\ fate \in [Call -> Fate]
    /\ out \in [Call -> Outcome]
    /\ number \in [Call -> Nat]

GetStatement(o, seq) == decodeStatement(Statement(o, seq))

\* Bug: the consumer and the operator change places in the arguments.
ListStatementsSwapped(o, consumer) ==
    {seq \in DOMAIN statements[consumer] : Statement(consumer, seq).consumer = ScvAddress(o)}

\* The numbers of the operator's statements against the consumer.
ListStatements(o, consumer) ==
    {seq \in DOMAIN statements[o] : Statement(o, seq).consumer = ScvAddress(consumer)}

Terms ==
    {"consumer", "periodStart", "periodEnd", "root", "requestCount", "token", "billed",
     "settled", "priceBookVersion", "protocol", "channel"}

\* What GetStatement returns is what the caller of Anchor asked for.
Says(s, w) == s.operator = w.signer /\ \A field \in Terms : s[field] = w[field]

IsAnchor(c) == pc[c] # "idle" /\ want[c].fn = "anchor"

IsAnchored(c, o, seq) ==
    /\ fate[c] = "done" /\ IsAnchor(c) /\ want[c].signer = o
    /\ result[c] = ScvU64(seq)
    /\ Says(GetStatement(o, seq), want[c])

\* A statement that can be read is one that a call of Anchor asked for, in every
\* field and to the last unit of its amounts, under the number that the network
\* gave that call; and every call that was executed has its statement: no lost
\* answer, repetition or shared transaction makes one more or one less.
StatementsAreAsAsked ==
    /\ \A o \in Party : \A seq \in DOMAIN statements[o] :
          \E c \in Call : IsAnchored(c, o, seq)
    /\ \A c \in Call : fate[c] = "done" /\ IsAnchor(c) =>
          \E seq \in DOMAIN statements[want[c].signer] : IsAnchored(c, want[c].signer, seq)

\* Anchor returns the number of its own statement (invoke.go:97-100, "the
\* contract call's real on-chain return value [...] not the value simulation
\* predicted"), whatever the operator's other calls anchor meanwhile; two calls
\* of one operator get the same number only if they asked for the same.
AnchorReturnsItsOwn ==
    \A c \in Call : out[c] = "success" /\ IsAnchor(c) =>
        /\ number[c] \in ListStatements(want[c].signer, want[c].consumer)
        /\ Says(GetStatement(want[c].signer, number[c]), want[c])
        /\ \A d \in Call :
              out[d] = "success" /\ IsAnchor(d) /\ want[d].signer = want[c].signer
                /\ number[d] = number[c] => want[d] = want[c]

GetDispute(d) == decodeDispute(d.fields)

\* A dispute that reads as resolved was resolved as the consumer agreed when it
\* signed, and as the operator asked; until then it has neither a resolution nor
\* a ledger of one.  What reads as anchored, opened and resolved was so in this
\* order.
ResolvedAsAgreed ==
    \A d \in disputes :
        LET r == GetDispute(d)
            s == GetStatement(d.operator, d.seq)
        IN  /\ s.anchoredLedger < r.openedLedger
            /\ IF r.resolution = None
               THEN s.status = "Disputed" /\ r.resolvedLedger = None
               ELSE /\ s.status = "Resolved" /\ r.openedLedger < r.resolvedLedger
                    /\ \E e \in entries :
                         e.of = [operator |-> d.operator, consumer |-> r.consumer,
                                 seq |-> d.seq, resolution |-> r.resolution,
                                 credited |-> r.credited]
                    /\ \E c \in Call :
                         /\ fate[c] = "done" /\ want[c].fn = "resolve_dispute"
                         /\ <<want[c].signer, want[c].seq, want[c].resolution, want[c].credited>>
                              = <<d.operator, d.seq, r.resolution, r.credited>>

Fields(topic) == {events[i].fields : i \in {j \in DOMAIN events : events[j].topic = topic}}

\* Two ways to know the registry agree: decoding its events, as an indexer
\* does, and reading its statements and disputes.
EventsTellTheSame ==
    /\ {DecodeStatementAnchorEvent(f) : f \in Fields("anchor")} =
       UNION {{LET s == GetStatement(o, seq) IN
               [operator |-> s.operator, consumer |-> s.consumer, seq |-> seq,
                root |-> s.root, billed |-> s.billed, settled |-> s.settled,
                protocol |-> s.protocol] : seq \in DOMAIN statements[o]} : o \in Party}
    /\ {DecodeStatementDisputeEvent(f) : f \in Fields("dispute")} =
       {LET r == GetDispute(d) IN
        [operator |-> d.operator, consumer |-> r.consumer, seq |-> d.seq,
         reason |-> r.reason] : d \in disputes}
    /\ {DecodeStatementResolveEvent(f) : f \in Fields("resolve")} =
       {LET r == GetDispute(d) IN
        [operator |-> d.operator, consumer |-> r.consumer, seq |-> d.seq,
         resolution |-> r.resolution, credited |-> r.credited] :
            d \in {x \in disputes : GetDispute(x).resolution # None}}

=============================================================================
