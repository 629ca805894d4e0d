-------------------------------- MODULE Channel --------------------------------
(***************************************************************************)
(* internal/stellar/channel.go and the channel's events of events.go, with *)
(* internal/custody between the payers and the channel: a payer signs      *)
(* cumulative commitments, custody stores them with a verdict, the         *)
(* recipient settles or closes with what custody stored, and the funder    *)
(* tops up, starts to close, and takes back what is left.                  *)
(*                                                                         *)
(* A call encodes its arguments and is then what module Submission says;   *)
(* what enters custody is what module CommitmentLedger says.  The contract *)
(* is external: what it does is what the bindings' comments say of it.     *)
(***************************************************************************)
EXTENDS ScVal, FiniteSets, SequencesExt, Submission

CONSTANTS
    ChannelId,    \* the deployed channel contracts
    Terms,        \* Terms[ch]: what ch was opened with
    Network,      \* the network they are deployed on, as the passphrase gives it
    Commitments,  \* what the payers' commitment keys have signed
    Submitted,    \* the commitments that are submitted to custody
    Want,         \* Want[c]: what the caller of c may ask for
    MaxLedger     \* bound: the last ledger

VARIABLES
    deposited, withdrawn, balance,   \* of each channel, for the contract
    effective,    \* effective[ch]: from when it can be refunded, None if never
    events,       \* events[ch]: what it has emitted, [topic, fields]
    ledger,       \* the current ledger
    rows,         \* the commitments table
    want          \* want[c]: the arguments of the Go call

contract == <<deposited, withdrawn, balance, effective, events>>

vars == <<submission, contract, ledger, rows, want>>

Function == {"top_up", "settle", "close", "close_start", "refund"}

ASSUME ConstantsAssumption ==
    /\ None \notin ChannelId \cup Int
    /\ \A ch \in ChannelId : Terms[ch].amount \in I128 \cap Nat /\ Terms[ch].period \in Nat
    /\ Commitments \subseteq [channel : ChannelId, network : STRING, amount : I128, key : STRING]
    /\ Submitted \subseteq [channel : ChannelId, amount : Int, sig : Commitments]
    /\ \A c \in Call : \A w \in Want[c] :
          w.fn \in Function /\ w.channel \in ChannelId /\ w.amount \in Int
    /\ MaxLedger \in Nat

-----------------------------------------------------------------------------
(* Commitments, arguments, and what is decoded. *)

\* Bug: a commitment names no channel.
BuildCommitmentAnywhere(ch, network, amount) ==
    [amount |-> ScvI128(amount), domain |-> ScvSymbol("chancmmt"),
     network |-> ScvBytes(network)]

\* A map's entries by key.  What a funder signs, without asking the contract.
BuildCommitment(ch, network, amount) ==
    [amount |-> ScvI128(amount), channel |-> ScvAddress(ch),
     domain |-> ScvSymbol("chancmmt"), network |-> ScvBytes(network)]

\* What the contract takes to be signed: external.
Prepared(ch, amount) ==
    [amount |-> amount, channel |-> ScvAddress(ch),
     domain |-> ScvSymbol("chancmmt"), network |-> ScvBytes(Network)]

PrepareCommitment(ch, amount) == Prepared(ch, ScvI128(amount))

\* ed25519.Verify, in custody and in the contract.
Verifies(key, message, sig) ==
    sig.key = key /\ message = BuildCommitment(sig.channel, sig.network, sig.amount)

settleOrCloseArgs(amount, sig) == <<ScvI128(amount), ScvBytes(sig)>>

\* Bug: the recipient is taken for the funder.
DecodeChannelOpenEventSwapped(f) ==
    [from |-> Decode(f[3]), commitmentKey |-> Decode(f[2]), to |-> Decode(f[1]),
     token |-> Decode(f[4]), amount |-> DecodeI128(f[5]), refundWaitingPeriod |-> Decode(f[6])]

DecodeChannelOpenEvent(f) ==
    [from |-> Decode(f[1]), commitmentKey |-> Decode(f[2]), to |-> Decode(f[3]),
     token |-> Decode(f[4]), amount |-> DecodeI128(f[5]), refundWaitingPeriod |-> Decode(f[6])]

\* Bug: the last ledger before it, for the first one of it.
DecodeChannelCloseEventLate(f) == [effectiveAtLedger |-> Decode(f[1]) + 1]

DecodeChannelCloseEvent(f) == [effectiveAtLedger |-> Decode(f[1])]

DecodeChannelWithdrawEvent(f) == [to |-> Decode(f[1]), amount |-> DecodeI128(f[2])]

DecodeChannelRefundEvent(f) == [from |-> Decode(f[1]), amount |-> DecodeI128(f[2])]

OpenEvent(ch) == DecodeChannelOpenEvent(events[ch][1].fields)

-----------------------------------------------------------------------------
(* The contract: external. *)

Emitted(topic, fields) == [topic |-> topic, fields |-> fields]

Opened(t) ==
    Emitted("open", <<ScvAddress(t.from), ScvBytes(t.key), ScvAddress(t.to),
                      ScvAddress(t.token), ScvI128(t.amount), ScvU32(t.period)>>)

Init ==
    /\ SubmissionInit
    /\ deposited = [ch \in ChannelId |-> Terms[ch].amount]
    /\ withdrawn = [ch \in ChannelId |-> 0]
    /\ balance = deposited
    /\ effective = [ch \in ChannelId |-> None]
    /\ events = [ch \in ChannelId |-> <<Opened(Terms[ch])>>]
    /\ ledger = 0
    /\ rows = {}
    /\ want = [c \in Call |-> None]

AmountOf(t) == DecodeI128(t.args[1])

\* A cumulative amount pays what it has above all that was paid before.
Unpaid(t) ==
    IF AmountOf(t) > withdrawn[t.channel] THEN AmountOf(t) - withdrawn[t.channel] ELSE 0

\* Whether the contract accepts t now.
Accepts(t) ==
    LET ch == t.channel
        terms == Terms[ch]
    IN  \/ /\ t.fn = "top_up" /\ t.signer = terms.from
           /\ AmountOf(t) >= 0 /\ deposited[ch] + AmountOf(t) \in I128
        \/ /\ t.fn \in {"settle", "close"} /\ t.signer = terms.to
           /\ Verifies(terms.key, Prepared(ch, t.args[1]), Decode(t.args[2]))
           /\ Unpaid(t) <= balance[ch]
        \/ t.fn = "close_start" /\ t.signer = terms.from /\ effective[ch] = None
        \/ /\ t.fn = "refund" /\ t.signer = terms.from
           /\ effective[ch] # None /\ ledger >= effective[ch]

Emit(ch, emitted) == events' = [events EXCEPT ![ch] = @ \o emitted]

\* Transfers are told of, when there is something to transfer.
Withdraw(t) ==
    IF Unpaid(t) = 0 THEN <<>>
    ELSE <<Emitted("withdraw", <<ScvAddress(Terms[t.channel].to), ScvI128(Unpaid(t))>>)>>

RefundOf(t, amount) ==
    IF amount = 0 THEN <<>>
    ELSE <<Emitted("refund", <<ScvAddress(Terms[t.channel].from), ScvI128(amount)>>)>>

ApplyTopUp(t) ==
    /\ t.fn = "top_up"
    /\ deposited' = [deposited EXCEPT ![t.channel] = @ + AmountOf(t)]
    /\ balance' = [balance EXCEPT ![t.channel] = @ + AmountOf(t)]
    /\ UNCHANGED <<withdrawn, effective, events>>

ApplySettle(t) ==
    /\ t.fn = "settle"
    /\ withdrawn' = [withdrawn EXCEPT ![t.channel] = @ + Unpaid(t)]
    /\ balance' = [balance EXCEPT ![t.channel] = @ - Unpaid(t)]
    /\ Emit(t.channel, Withdraw(t))
    /\ UNCHANGED <<deposited, effective>>

\* It is closed at once; the refund is attempted, and may not succeed.
ApplyClose(t) ==
    LET left == balance[t.channel] - Unpaid(t)
        closing == <<Emitted("close", <<ScvU32(ledger)>>)>>
    IN  /\ t.fn = "close"
        /\ withdrawn' = [withdrawn EXCEPT ![t.channel] = @ + Unpaid(t)]
        /\ effective' = [effective EXCEPT ![t.channel] = ledger]
        /\ \/ /\ balance' = [balance EXCEPT ![t.channel] = 0]
              /\ Emit(t.channel, Withdraw(t) \o closing \o RefundOf(t, left))
           \/ /\ balance' = [balance EXCEPT ![t.channel] = left]
              /\ Emit(t.channel, Withdraw(t) \o closing)
        /\ UNCHANGED deposited

ApplyCloseStart(t) ==
    LET at == ledger + Terms[t.channel].period
    IN  /\ t.fn = "close_start"
        /\ effective' = [effective EXCEPT ![t.channel] = at]
        /\ Emit(t.channel, <<Emitted("close", <<ScvU32(at)>>)>>)
        /\ UNCHANGED <<deposited, withdrawn, balance>>

ApplyRefund(t) ==
    /\ t.fn = "refund"
    /\ balance' = [balance EXCEPT ![t.channel] = 0]
    /\ Emit(t.channel, RefundOf(t, balance[t.channel]))
    /\ UNCHANGED <<deposited, withdrawn, effective>>

-----------------------------------------------------------------------------
(* Custody and the callers. *)

\* Custody keeps one row per channel and amount, with its verdict.
Entry(row) == [channel |-> row.channel, amount |-> row.amount, valid |-> row.valid]

Custody ==
    INSTANCE CommitmentLedger WITH
        Channel <- ChannelId, Amount <- I128 \cap (Nat \ {0}),
        stored <- {Entry(row) : row \in rows}, told <- {}

\* Bug: a commitment over no money, or over less than none, is verified too.
SubmitAnyAmount(o) ==
    LET row == [channel |-> o.channel, amount |-> o.amount, sig |-> o.sig,
                valid |-> Verifies(OpenEvent(o.channel).commitmentKey,
                                   PrepareCommitment(o.channel, o.amount), o.sig)]
    IN  /\ o.amount \in I128
        /\ rows' = rows \cup {row}
        /\ Custody!Store(Entry(row))
        /\ UNCHANGED <<submission, contract, ledger, want>>

\* Submit: verified under the key that the channel's Open event tells
\* (verify.go:69-72), over what prepare_commitment answers, and stored.
Submit(o) ==
    LET row == [channel |-> o.channel, amount |-> o.amount, sig |-> o.sig,
                valid |-> Verifies(OpenEvent(o.channel).commitmentKey,
                                   PrepareCommitment(o.channel, o.amount), o.sig)]
    IN  /\ o.amount \in I128 /\ o.amount > 0
        /\ rows' = rows \cup {row}
        /\ Custody!Store(Entry(row))
        /\ UNCHANGED <<submission, contract, ledger, want>>

\* A call whose amount encodes is simulated against the contract as it is now.
Invoke(c, w, amounts, args) ==
    LET t == [fn |-> w.fn, channel |-> w.channel, signer |-> w.signer, args |-> args]
    IN  /\ want' = [want EXCEPT ![c] = w]
        /\ \/ amounts \subseteq I128 /\ Accepts(t) /\ Prepare(c, t)
           \/ Refuse(c)
        /\ UNCHANGED <<contract, ledger, rows>>

TopUp(c, w) ==
    w.fn = "top_up" /\ Invoke(c, w, {w.amount}, <<ScvI128(w.amount)>>)

\* The recipient settles with what custody holds.
Settle(c, w, row) ==
    /\ w.fn = "settle" /\ <<row.channel, row.amount>> = <<w.channel, w.amount>>
    /\ Invoke(c, w, {w.amount}, settleOrCloseArgs(w.amount, row.sig))

Close(c, w, row) ==
    /\ w.fn = "close" /\ <<row.channel, row.amount>> = <<w.channel, w.amount>>
    /\ Invoke(c, w, {w.amount}, settleOrCloseArgs(w.amount, row.sig))

CloseStart(c, w) == w.fn = "close_start" /\ Invoke(c, w, {}, <<>>)

Refund(c, w) == w.fn = "refund" /\ Invoke(c, w, {}, <<>>)

\* Sending, and every answer.
Advance(c) ==
    /\ \/ Send(c) \/ SendRefused(c) \/ SendUnanswered(c)
       \/ Succeed(c) \/ Fail(c) \/ GiveUp(c)
    /\ UNCHANGED <<contract, ledger, rows, want>>

\* A transaction is applied, for all the calls S that sent it.
Apply(S) ==
    /\ Conclude(S, "done")
    /\ \E c \in S :
         /\ Accepts(tx[c])
         /\ \/ ApplyTopUp(tx[c]) \/ ApplySettle(tx[c]) \/ ApplyClose(tx[c])
            \/ ApplyCloseStart(tx[c]) \/ ApplyRefund(tx[c])
    /\ UNCHANGED <<ledger, rows, want>>

\* It is refused, by the contract as it is now or for reasons of its own.
Reject(S) ==
    /\ Conclude(S, "void")
    /\ UNCHANGED <<contract, ledger, rows, want>>

LedgerCloses ==
    /\ ledger < MaxLedger
    /\ ledger' = ledger + 1
    /\ UNCHANGED <<submission, contract, rows, want>>

Begin(c) ==
    \E w \in Want[c] :
        \/ TopUp(c, w) \/ CloseStart(c, w) \/ Refund(c, w)
        \/ \E row \in rows : Settle(c, w, row) \/ Close(c, w, row)

Next ==
    \/ \E o \in Submitted : Submit(o)
    \/ \E c \in Call : Begin(c) \/ Advance(c)
    \/ \E S \in SUBSET Call : Apply(S) \/ Reject(S)
    \/ LedgerCloses

Spec == Init /\ [][Next]_vars

-----------------------------------------------------------------------------
\* The getters.
Deposited(ch) == DecodeI128(ScvI128(deposited[ch]))
Withdrawn(ch) == DecodeI128(ScvI128(withdrawn[ch]))
Balance(ch) == DecodeI128(ScvI128(balance[ch]))
From(ch) == Decode(ScvAddress(Terms[ch].from))
To(ch) == Decode(ScvAddress(Terms[ch].to))
Token(ch) == Decode(ScvAddress(Terms[ch].token))
RefundWaitingPeriod(ch) == Decode(ScvU32(Terms[ch].period))

TypeOK ==
    /\ {deposited, withdrawn, balance} \subseteq [ChannelId -> I128 \cap Nat]
    /\ effective \in [ChannelId -> Nat \cup {None}]
    /\ \A row \in rows : row.sig \in Commitments /\ Entry(row) \in Custody!Entry
    /\ ledger \in 0 .. MaxLedger
    /\ pc \in [Call -> Phase]
    /\ fate \in [Call -> Fate]
    /\ out \in [Call -> Outcome]

\* Custody calls a commitment valid if and only if the channel's own key signed
\* this very amount for this very channel and network: BuildCommitment and
\* PrepareCommitment agree (channel.go:132-141), and nothing signed for another
\* channel, network or amount passes for it.
VerdictsAreTrue ==
    \A row \in rows :
        row.valid <=> row.sig = [channel |-> row.channel, network |-> Network,
                                 amount |-> row.amount, key |-> Terms[row.channel].key]

Executed(ch, fns) == {c \in Call : fate[c] = "done" /\ want[c].fn \in fns /\ want[c].channel = ch}

\* The recipient was paid the highest amount that a settle or close of its was
\* executed for, in whatever order they came and however often, never the sum;
\* each is an amount the payer signed for this channel; and no answer of
\* success is about a payment that is not there.
PaidIsCommitted ==
    \A ch \in ChannelId :
        LET paid == {want[c].amount : c \in Executed(ch, {"settle", "close"})}
        IN  /\ Withdrawn(ch) \in paid \cup {0}
            /\ \A amount \in paid :
                  /\ amount <= Withdrawn(ch)
                  /\ [channel |-> ch, network |-> Network, amount |-> amount,
                      key |-> Terms[ch].key] \in Commitments
            /\ \A c \in Call :
                  out[c] = "success" /\ want[c].channel = ch /\ want[c].fn \in {"settle", "close"}
                    => want[c].amount <= Withdrawn(ch)

\* The amounts that were decoded, or asked for, together.
Total(told) == MapThenSumSet(LAMBDA x : told[x].amount, DOMAIN told)

Telling(ch, topic) == {i \in DOMAIN events[ch] : events[ch][i].topic = topic}

Withdrawals(ch) ==
    [i \in Telling(ch, "withdraw") |-> DecodeChannelWithdrawEvent(events[ch][i].fields)]

Refunds(ch) == [i \in Telling(ch, "refund") |-> DecodeChannelRefundEvent(events[ch][i].fields)]

\* Two ways to know a channel agree, its decoded events and its getters: what
\* the events withdraw and refund is what the getters miss of the deposits, and
\* the terms are the same.  A top-up has no event; each that succeeded is in
\* Deposited, one execution for all that sent the same transaction.
EventsAndGettersAgree ==
    \A ch \in ChannelId :
        LET topups == Executed(ch, {"top_up"})
        IN  /\ Withdrawn(ch) = Total(Withdrawals(ch))
            /\ Balance(ch) = Deposited(ch) - Withdrawn(ch) - Total(Refunds(ch))
            /\ OpenEvent(ch) = [from |-> From(ch), commitmentKey |-> Terms[ch].key,
                                to |-> To(ch), token |-> Token(ch), amount |-> Terms[ch].amount,
                                refundWaitingPeriod |-> RefundWaitingPeriod(ch)]
            /\ \A i \in DOMAIN Withdrawals(ch) : Withdrawals(ch)[i].to = To(ch)
            /\ \A i \in DOMAIN Refunds(ch) : Refunds(ch)[i].from = From(ch)
            /\ \E T \in SUBSET topups :
                  /\ {tx[c] : c \in T} = {tx[c] : c \in topups}
                  /\ Deposited(ch) - OpenEvent(ch).amount = Total([c \in T |-> want[c]])

IsPast(e) == e.topic = "close" /\ DecodeChannelCloseEvent(e.fields).effectiveAtLedger <= ledger

\* Before the ledger that the channel's decoded Close events name, everything
\* that was deposited was paid to the recipient or can be: a valid commitment
\* that the deposits cover is one that Settle can still be called for.
ValidRowsArePayable ==
    \A row \in rows :
        LET ch == row.channel
            t == [fn |-> "settle", channel |-> ch, signer |-> To(ch),
                  args |-> settleOrCloseArgs(row.amount, row.sig)]
        IN  row.valid /\ row.amount <= Deposited(ch)
              /\ (\A i \in DOMAIN events[ch] : ~IsPast(events[ch][i]))
            => Accepts(t) /\ Withdrawn(ch) + Unpaid(t) >= row.amount

=============================================================================
