-------------------------------- MODULE Invoke --------------------------------
(***************************************************************************)
(* internal/stellar: invokeAndSubmit, the one path by which every binding  *)
(* (price_book, statement_registry, one-way-channel) writes to the chain,  *)
(* with the network it talks to and callers that try again after an error. *)
(* It implements module Submission.                                        *)
(*                                                                         *)
(* A call fetches its account's sequence number, simulates, simulates      *)
(* again when another party's authorization is attached, signs, sends and  *)
(* polls.  Between any two of these steps other calls of the same account  *)
(* move, ledgers close, and transactions given up on are still applied:    *)
(* nothing in a transaction limits the time in which it is valid.          *)
(*                                                                         *)
(* A transaction is identified by its content, as its hash is.             *)
(***************************************************************************)
EXTENDS Integers, FiniteSets

CONSTANTS
    Call,          \* calls of InvokeAndSubmit and InvokeAndSubmitWithAuth
    Account,
    Source,        \* Source[c]: the signer of c
    Operation,     \* contract, function and arguments
    Party,         \* other parties that sign authorization entries
    Nonce,         \* nonces of the entries they sign
    Signer,        \* Signer[n]: the party whose entry has the nonce n
    Requires,      \* Requires[op]: whose authorization the contract asks for;
                   \* SourceAccount stands for the transaction's own signer
    Asks,          \* Asks[c]: what the caller of c may ask for
    SourceAccount, Unsigned, NoAsk, NoTx,
    Validity,      \* authValidityLedgers
    PollTurns,     \* pollTimeout / pollInterval
    MaxLedger      \* bound: the last ledger of a behaviour

VARIABLES
    ledger,      \* the current ledger
    accSeq,      \* accSeq[a]: sequence number in a's ledger entry
    pool,        \* transactions the network holds for inclusion
    applied,     \* [tx, result] of the transactions in closed ledgers
    expiry,      \* expiry[n]: last ledger of the entry of nonce n; 0 before it exists
    pc,
    ask,         \* ask[c]: operation, and nonces of the extra entries
    tx,          \* tx[c]: the transaction being built, sent or polled
    turns,       \* turns[c]: how often pollTransaction has waited, while it runs
    sent,        \* history: the network has taken tx[c] from c
    out          \* out[c]: how the call ended

vars == <<ledger, accSeq, pool, applied, expiry, pc, ask, tx, turns, sent, out>>

network == <<ledger, accSeq, pool, applied, expiry>>

call == <<pc, ask, tx, turns, sent, out>>

Ask == [op : Operation, extra : SUBSET Nonce]

\* An authorization entry by its credentials: SourceAccount has no address of
\* its own, and what simulation records is not signed.
Entry == [address : Party \cup {SourceAccount}, nonce : Nonce \cup {Unsigned}]

\* covered: the footprint reserves the nonces of the entries attached.
Tx == [source : Account, seq : Nat, op : Operation, auth : SUBSET Entry, covered : BOOLEAN]

ASSUME ConstantsAssumption ==
    /\ Source \in [Call -> Account]
    /\ Signer \in [Nonce -> Party]
    /\ Requires \in [Operation -> SUBSET (Party \cup {SourceAccount})]
    /\ \A c \in Call : Asks[c] \subseteq Ask
    /\ \A c \in Call : \A a \in Asks[c] : {Signer[n] : n \in a.extra} \subseteq Requires[a.op]
    /\ SourceAccount \notin Party /\ Unsigned \notin Nonce
    /\ NoAsk \notin Ask /\ NoTx \notin Tx
    /\ {Validity, MaxLedger} \subseteq Nat \ {0} /\ PollTurns \in Nat

Result == {"ok", "contract", "auth", "trap"}

PC == {"idle", "fetch", "simulate", "resimulate", "send", "poll", "end"}

\* "error": nothing was sent, or sendTransaction refused it.  "failed": settled
\* with FAILED.  "unanswered": the caller gets an error, and the transaction has
\* been, or may yet be, applied.
Answer == {"none", "success", "failed", "error", "unanswered"}

Settled(t) == \E x \in applied : x.tx = t

Executed(t) == [tx |-> t, result |-> "ok"] \in applied

Nonces(t) == {e.nonce : e \in t.auth} \ {Unsigned}

AuthUsed(n) == \E x \in applied : x.result = "ok" /\ n \in Nonces(x.tx)

\* No signed entry is expired or used.
Valid(t) == \A n \in Nonces(t) : ledger <= expiry[n] /\ ~AuthUsed(n)

\* Every party whose authorization is needed has signed.
Signed(t) == \A e \in t.auth : e.address # SourceAccount => e.nonce # Unsigned

\* Beside a signed entry there is an unsigned one of the same address.
Shadowed(t) ==
    \E e, f \in t.auth :
        e.address = f.address /\ e.nonce = Unsigned /\ f.nonce # Unsigned

Init ==
    /\ ledger = 1
    /\ accSeq = [a \in Account |-> 0]
    /\ pool = {}
    /\ applied = {}
    /\ expiry = [n \in Nonce |-> 0]
    /\ pc = [c \in Call |-> "idle"]
    /\ ask = [c \in Call |-> NoAsk]
    /\ tx = [c \in Call |-> NoTx]
    /\ turns = [c \in Call |-> 0]
    /\ sent = [c \in Call |-> FALSE]
    /\ out = [c \in Call |-> "none"]

-----------------------------------------------------------------------------
(* The network. *)

CloseLedger ==
    /\ ledger < MaxLedger
    /\ ledger' = ledger + 1
    /\ UNCHANGED <<accSeq, pool, applied, expiry>> /\ UNCHANGED call

\* What applying t may result in: a trap at a nonce outside the footprint or at
\* an unsigned entry found first, an authorization that is missing, used or
\* expired, an error of the contract, or success.
ResultOf(t) ==
    IF (Nonces(t) # {} /\ ~t.covered) \/ Shadowed(t) THEN {"trap"}
    ELSE IF ~Signed(t) \/ ~Valid(t) THEN {"auth"}
    ELSE {"ok", "contract"}

\* A pooled transaction with its account's next number is applied.
Include(t) ==
    /\ t \in pool
    /\ t.seq = accSeq[t.source] + 1
    /\ \E r \in ResultOf(t) : applied' = applied \cup {[tx |-> t, result |-> r]}
    /\ accSeq' = [accSeq EXCEPT ![t.source] = t.seq]
    /\ pool' = pool \ {t}
    /\ UNCHANGED <<ledger, expiry>> /\ UNCHANGED call

\* A pooled transaction is dropped and never applied.
Drop(t) ==
    /\ t \in pool
    /\ pool' = pool \ {t}
    /\ UNCHANGED <<ledger, accSeq, applied, expiry>> /\ UNCHANGED call

\* AuthorizeInvocation: the other party signs its entry, valid for Validity
\* ledgers after the one it has seen.
Authorize(n) ==
    /\ expiry[n] = 0
    /\ \E seen \in 1 .. ledger : expiry' = [expiry EXCEPT ![n] = seen + Validity]
    /\ UNCHANGED <<ledger, accSeq, pool, applied>> /\ UNCHANGED call

-----------------------------------------------------------------------------
(* invokeAndSubmit. *)

\* A caller calls; it may be a caller who tries again after an error.
Invoke(c) ==
    /\ pc[c] = "idle"
    /\ \E a \in Asks[c] :
         /\ \A n \in a.extra : expiry[n] > 0
         /\ ask' = [ask EXCEPT ![c] = a]
    /\ pc' = [pc EXCEPT ![c] = "fetch"]
    /\ UNCHANGED <<tx, turns, sent, out>> /\ UNCHANGED network

Goto(c, phase) ==
    /\ pc' = [pc EXCEPT ![c] = phase]
    /\ UNCHANGED <<ask, turns, out>>

Return(c, answer) ==
    /\ pc' = [pc EXCEPT ![c] = "end"]
    /\ out' = [out EXCEPT ![c] = answer]
    /\ turns' = [turns EXCEPT ![c] = 0]
    /\ UNCHANGED ask

\* Bug: the fetched number is counted down.
BuildBackwards(c) ==
    [source |-> Source[c], seq |-> accSeq[Source[c]] - 1, op |-> ask[c].op,
     auth |-> {}, covered |-> FALSE]

\* The transaction of c, with the number after the account's and no auth yet.
Build(c) ==
    [source |-> Source[c], seq |-> accSeq[Source[c]] + 1, op |-> ask[c].op,
     auth |-> {}, covered |-> FALSE]

\* fetchSequenceNumber answers.
FetchSequence(c) ==
    /\ pc[c] = "fetch"
    /\ tx' = [tx EXCEPT ![c] = Build(c)]
    /\ Goto(c, "simulate")
    /\ UNCHANGED sent /\ UNCHANGED network

\* An RPC error or a simulation error ends the call before anything is sent.
FailBeforeSend(c) ==
    /\ pc[c] \in {"fetch", "simulate", "resimulate"}
    /\ Return(c, "error")
    /\ tx' = [tx EXCEPT ![c] = NoTx]
    /\ UNCHANGED sent /\ UNCHANGED network

\* What the first simulation records for op.
Recorded(op) == [address : Requires[op], nonce : {Unsigned}]

\* What AuthorizeInvocation has signed.
Extra(nonces) == {[address |-> Signer[n], nonce |-> n] : n \in nonces}

\* Bug: the recorded and the extra entries are concatenated.
concatAuthEntries(recorded, extra) == recorded \cup extra

\* Extra entries supersede what is recorded for the same address.
mergeAuthEntries(recorded, extra) ==
    {e \in recorded : e.address = SourceAccount \/ \A x \in extra : x.address # e.address}
        \cup extra

\* t with the entries of the final operation.
Attach(t, entries) ==
    [source |-> t.source, seq |-> t.seq, op |-> t.op, auth |-> entries, covered |-> t.covered]

\* Bug: the footprint is taken from the simulation without the extra entries.
SimulateOnce(c) ==
    /\ pc[c] = "simulate"
    /\ tx' = [tx EXCEPT ![c] =
                 Attach(@, mergeAuthEntries(Recorded(ask[c].op), Extra(ask[c].extra)))]
    /\ Goto(c, "send")
    /\ UNCHANGED sent /\ UNCHANGED network

\* The first simulation, with no entry attached, succeeds.  With extra entries
\* the call is simulated again.
Simulate(c) ==
    /\ pc[c] = "simulate"
    /\ tx' = [tx EXCEPT ![c] =
                 Attach(@, mergeAuthEntries(Recorded(ask[c].op), Extra(ask[c].extra)))]
    /\ Goto(c, IF ask[c].extra = {} THEN "send" ELSE "resimulate")
    /\ UNCHANGED sent /\ UNCHANGED network

\* t with the footprint of a simulation that has seen its entries.
Covering(t) ==
    [source |-> t.source, seq |-> t.seq, op |-> t.op, auth |-> t.auth, covered |-> TRUE]

\* The second simulation, with every entry attached, succeeds: no signed one is
\* used or expired.  It is not taken to notice one that is not signed.
Resimulate(c) ==
    /\ pc[c] = "resimulate"
    /\ Valid(tx[c])
    /\ tx' = [tx EXCEPT ![c] = Covering(tx[c])]
    /\ Goto(c, "send")
    /\ UNCHANGED sent /\ UNCHANGED network

\* sendTransaction: the network takes a transaction with the next number of an
\* account that has no other one waiting.
Acceptable(t) ==
    /\ \A u \in pool : u.source # t.source
    /\ t.seq = accSeq[t.source] + 1

\* The network takes c's transaction, or already holds it.
Taken(c) ==
    /\ tx[c] \in pool \/ Acceptable(tx[c])
    /\ pool' = pool \cup {tx[c]}
    /\ sent' = [sent EXCEPT ![c] = TRUE]

\* Bug: DUPLICATE is an unexpected status, and an error.
SendAcceptedOnlyPending(c) ==
    /\ pc[c] = "send"
    /\ Taken(c)
    /\ IF tx[c] \in pool
       THEN Return(c, "error")
       ELSE Goto(c, "poll")
    /\ UNCHANGED tx /\ UNCHANGED <<ledger, accSeq, applied, expiry>>

\* PENDING, or DUPLICATE for a transaction it already holds: poll.
SendAccepted(c) ==
    /\ pc[c] = "send"
    /\ Taken(c)
    /\ Goto(c, "poll")
    /\ UNCHANGED tx /\ UNCHANGED <<ledger, accSeq, applied, expiry>>

\* ERROR, or any other status, TRY_AGAIN_LATER among them: an error.
SendRejected(c) ==
    /\ pc[c] = "send"
    /\ tx[c] \notin pool
    /\ Return(c, "error")
    /\ UNCHANGED <<tx, sent>> /\ UNCHANGED network

\* Bug: a request that got no answer is taken for a refused one.
SendLostRejected(c) ==
    /\ pc[c] = "send"
    /\ UNCHANGED <<pool, sent>> \/ Taken(c)
    /\ Return(c, "error")
    /\ UNCHANGED tx /\ UNCHANGED <<ledger, accSeq, applied, expiry>>

\* sendTransaction's answer, or the request itself, is lost.
SendLost(c) ==
    /\ pc[c] = "send"
    /\ UNCHANGED <<pool, sent>> \/ Taken(c)
    /\ Return(c, "unanswered")
    /\ UNCHANGED tx /\ UNCHANGED <<ledger, accSeq, applied, expiry>>

\* Bug: the answer of the simulation is returned before the transaction settles.
PollTooEarly(c) ==
    /\ pc[c] = "poll"
    /\ Return(c, "success")
    /\ UNCHANGED <<tx, sent>> /\ UNCHANGED network

\* The status of a transaction that getTransaction finds.
StatusOf(result) == IF result = "ok" THEN "SUCCESS" ELSE "FAILED"

\* It is found.  Any status but SUCCESS is a failure; after SUCCESS the return
\* value may not decode.
PollSettled(c) ==
    /\ pc[c] = "poll"
    /\ \E x \in applied :
         /\ x.tx = tx[c]
         /\ \E answer \in IF StatusOf(x.result) # "SUCCESS" THEN {"failed"}
                          ELSE {"success", "unanswered"} : Return(c, answer)
    /\ UNCHANGED <<tx, sent>> /\ UNCHANGED network

\* Bug: the deadline is set anew when it has passed.
PollAgainAnew(c) ==
    /\ pc[c] = "poll"
    /\ turns' = [turns EXCEPT ![c] = IF @ = PollTurns THEN 0 ELSE @ + 1]
    /\ UNCHANGED <<pc, ask, tx, sent, out>> /\ UNCHANGED network

\* NOT_FOUND, also of a transaction that the node has yet to see applied:
\* pollTransaction waits for pollInterval before it asks again, and the deadline
\* passes with the last turn at the latest.
PollAgain(c) ==
    /\ pc[c] = "poll"
    /\ turns[c] < PollTurns
    /\ turns' = [turns EXCEPT ![c] = @ + 1]
    /\ UNCHANGED <<pc, ask, tx, sent, out>> /\ UNCHANGED network

\* NOT_FOUND after the deadline, which slow answers may bring on in any turn; an
\* RPC error; or the context is done while it waits.
PollGivesUp(c) ==
    /\ pc[c] = "poll"
    /\ Return(c, "unanswered")
    /\ UNCHANGED <<tx, sent>> /\ UNCHANGED network

Advance(c) ==
    \/ FetchSequence(c) \/ FailBeforeSend(c) \/ Simulate(c) \/ Resimulate(c)
    \/ SendAccepted(c) \/ SendRejected(c) \/ SendLost(c)
    \/ PollSettled(c) \/ PollAgain(c) \/ PollGivesUp(c)

Next ==
    \/ CloseLedger
    \/ \E t \in pool : Include(t) \/ Drop(t)
    \/ \E n \in Nonce : Authorize(n)
    \/ \E c \in Call : Invoke(c) \/ Advance(c)

Spec == Init /\ [][Next]_vars

\* Every RPC is bounded by the HTTP client's timeout, every wait by pollInterval.
Fairness == \A c \in Call : WF_vars(Advance(c))

FairSpec == Spec /\ Fairness

-----------------------------------------------------------------------------
TypeOK ==
    /\ ledger \in 1 .. MaxLedger
    /\ accSeq \in [Account -> Nat]
    /\ pool \subseteq Tx
    /\ applied \subseteq [tx : Tx, result : Result]
    /\ expiry \in [Nonce -> Nat]
    /\ pc \in [Call -> PC]
    /\ ask \in [Call -> Ask \cup {NoAsk}]
    /\ tx \in [Call -> Tx \cup {NoTx}]
    /\ turns \in [Call -> 0 .. PollTurns]
    /\ sent \in [Call -> BOOLEAN]
    /\ out \in [Call -> Answer]

\* A reported outcome is the one in the ledger, whatever other calls of the
\* account, lost answers and earlier tries did meanwhile.
OutcomeIsOnChain ==
    \A c \in Call :
        /\ out[c] = "success" => Executed(tx[c])
        /\ out[c] = "failed" =>
              Settled(tx[c]) /\ tx[c] \notin pool /\ ~Executed(tx[c])

\* A transaction with another party's signed entry never traps for a nonce
\* outside its footprint, nor for an unsigned entry of that party beside it.
NoAvoidableTrap == \A x \in applied : x.result # "trap"

\* What the network has executed for an operation, and what it still holds.
Executions(op) == {t \in {x.tx : x \in applied} : t.op = op /\ Executed(t)}

Waiting(op) == {t \in pool : t.op = op}

\* The calls that asked for it and were not told that it has no effect.
Claimants(op) ==
    {c \in Call : ask[c] # NoAsk /\ ask[c].op = op /\ out[c] \notin {"failed", "error"}}

\* Each execution, past or to come, is on behalf of a call of its own that was
\* not told otherwise: callers who try again only after a definite answer, or
\* who call at the same time, never have more done than they asked for; and
\* what carries another party's entry is done at most once.
ExecutionsAreOwned ==
    \A op \in Operation :
        /\ Cardinality(Executions(op) \cup Waiting(op)) <= Cardinality(Claimants(op))
        /\ \A t, u \in Executions(op) : Nonces(t) \cap Nonces(u) # {} => t = u

\* Every call returns, whether or not its transaction ever settles.
EveryCallReturns == \A c \in Call : pc[c] # "idle" ~> pc[c] = "end"

-----------------------------------------------------------------------------
(* The refinement mapping to Submission. *)

Preparing(c) == pc[c] \in {"fetch", "simulate", "resimulate"}

PhaseOf(c) == IF Preparing(c) THEN "idle" ELSE pc[c]

TxOf(c) == IF Preparing(c) THEN NoTx ELSE tx[c]

FateOf(c) ==
    IF ~sent[c] THEN "none"
    ELSE IF Executed(tx[c]) THEN "done"
    ELSE IF Settled(tx[c]) THEN "void" ELSE "open"

Promise == INSTANCE Submission WITH
    pc <- [c \in Call |-> PhaseOf(c)],
    tx <- [c \in Call |-> TxOf(c)],
    fate <- [c \in Call |-> FateOf(c)]

\* Sequence numbers, two simulations, duplicate sends, lost answers and polls
\* come to what the bindings rely on: one transaction for each call, settled
\* once, at the same time for all that sent it, and a true answer.
ImplementsSubmission == Promise!SubmissionSpec

=============================================================================
