# A TLA+ development of Tallybook

Tallybook is settlement bookkeeping for services that charge per HTTP request
over Stellar. This directory holds TLA+ models of its core, the TLC
configurations that check them on small instances, and TLAPS proofs for every
instance of what matters most: the custody store, the migration runner, the
write path, the registry and the channel built on it, metering with its prices,
and the Merkle tree of a statement. Every definition is translated from the Go and SQL under
`src/internal`; `PROJECT.json` maps each to its lines.

    tlc -workers 2 -config Custody_concurrent.cfg MCCustody    # one run
    tlapm CustodyProofs.tla       # the proofs; also the other *Proofs modules

## 1. The system

| Component | Code | State it keeps | Operations | Modelled in |
|---|---|---|---|---|
| Custody of commitments | `custody/`, `migrations/0003` | the `commitments` table | `Submit`, `VerifyCommitment`, the trigger | `Custody`, `CommitmentLedger` |
| Migration runner | `store/migrate.go` | the schema, `schema_migrations` | `Migrate` | `Migrate` |
| Metering | `httpapi/metering.go`, `store/requests.go`, `migrations/0002` | the `requests` table | `Middleware`, `RecordRequest` | `Metering` |
| Pricing | `meter/` | an immutable `Catalog` | `ParseSchedule`, `NewCatalog`, `VersionAt`, `Price` | `PriceBook`, `Metering` |
| Leaf encoding | `merkle/leaf.go` | none | `EndpointHash`, `Leaf` | `Leaf`, `Metering` |
| Merkle tree | `merkle/tree.go` | none | `BuildTree`, `Fold`, `VerifyProof` | `Merkle` |
| Write path | `stellar/invoke.go` | none; the network's | `InvokeAndSubmit`, `AuthorizeInvocation` | `Submission`, `Invoke` |
| Price book | `stellar/pricebook.go` | none; the contract's | `Publish`, `GetVersion` | `PriceBook`, `Metering` |
| Statement registry | `stellar/registry.go` | none; the contract's | `Anchor`, `OpenDispute`, `ResolveDispute`, reads | `Registry` |
| Channel | `stellar/channel.go` | none; the contract's | `TopUp`, `Settle`, `Close`, `CloseStart`, `Refund`, getters, commitments | `Channel` |
| XDR values, events | `stellar/{xdr,events}.go` | none | encoding, decoding | `ScVal`, and the users of each event |
| RPC client | `stellar/rpc.go` | none | HTTP | no; statuses in `Invoke` |
| Configuration | `config/` | none after startup | `Load` | no |
| Billing periods | `migrations/0001` | a table no code uses yet | none | no |

How they interact. A service starts, calls `Migrate`, and builds a `Pricer`
from the price book. Each HTTP request passes `Middleware`, which asks the
network for the ledger, the `Pricer` for the charge and `RecordRequest` for a
row, before the wrapped handler runs. A payer's commitment goes to
`Store.Submit`, which simulates `prepare_commitment` on the channel contract,
verifies the signature and inserts a row. Writes to the chain (publishing a
price, anchoring a statement, resolving a dispute, settling a channel) all go
through `invokeAndSubmit`. A statement anchors the root of a Merkle tree over the
billed requests. The repository holds these packages and no `main`: what joins
them is named by comments only.

What is hard, and what makes each part right:

* *Custody*: an INSERT runs a trigger, probes a unique index and commits, and
  another INSERT may be between any two of these; a caller may be gone while
  its statement goes on. Right means: persisted before acknowledged, one row per
  key, a verdict that is the row's own, amounts that do not go back.
* *Migrate*: nothing serialises services that start together. Right means:
  applied exactly once, in order, and all services get there.
* *Metering*: time passes between reading the ledger, pricing, recording and
  serving. Right means: nothing served unrecorded, and every row priced as the
  price book says for the ledger it is stamped with.
* *Pricing*: a version is written, read and announced in different orders, and
  a rule is found by one identity and billed under another. Right means: the
  charge is what the published document says, and the leaf tells which rule.
* *Write path*: sequence numbers are read and used later, transactions given up
  on are still applied, equal calls share one transaction. Right means: reported
  outcomes are the chain's, and every execution is some caller's own.
* *Registry*: two parties build one call in two processes, an operator's anchors
  overlap, and values cross the wire by position and by name. Right means: a
  statement reads as it was asked for, `Anchor` returns its own number, and a
  dispute is resolved only as its consumer agreed.
* *Channel*: what the payer signed locally, custody stored and the contract
  verifies must be one message; settles come late, twice and in any order while
  the funder moves to take the rest. Right means: the recipient is paid the
  highest amount it settled, never the sum, and can settle until the deadline.
* *Merkle*: an odd node is promoted, so leaves lie at different depths. Right
  means: every proof folds to the root, whatever the number of leaves.

`PROJECT.json` lists the hazards line by line, each with the properties that
would catch it.

## 2. The modules

**`CommitmentLedger`** says what custody promises, without processes, database
or failures: entries are stored once per channel and amount, never change, and
are told only when stored. `MonotoneSpec` adds that amounts only grow.

**`Custody`** has one process per call of `Submit` with the backend that runs
its statement. `pc` follows the call: `verify` (RPC), `trigger`, `index`,
`commit`, `reply`, `readback`. `rows` is the committed table; a process at
`commit` is an open transaction, invisible but making others with its key
wait. `waiting` says whether the caller is still there, so that cancellation
and crash (`Abandon`, `ServiceCrash`) leave the statement running. `acked` and
`known` are history. Signatures and keys are values; `Signed` is the set of
commitments that verify. PostgreSQL is modelled at READ COMMITTED, its default,
which the code does not change: a trigger's query sees rows committed by then.
Amount 0 stands for all amounts that are not positive, `MaxAmount + 1` for all
beyond i128. `Submit` takes the channel twice: a `ChannelReader` that it simulates
`prepare_commitment` with, and `sc.Channel` that the row is stored under
(`store.go:121`). Nothing in the code compares the two. `Verifies` takes them to be
one channel, which is an assumption about the callers; with two, a row could hold
a verdict about another channel's commitment.

**`Migrate`** has one process per service. `CREATE TABLE IF NOT EXISTS` takes
two steps because PostgreSQL looks and creates in two steps. `times` counts how
often a migration's SQL was committed, `recorded` is `schema_migrations`.
`Rerunnable` holds the migrations whose SQL would succeed twice, for which the
primary key is the only protection.

**`PriceBook`** has schedules and their versions. A document is a sequence of
rules as they are written; `Trim`, `ToUpper` and `Rooted` say what the string
functions do to the few texts there are. `RuleKey`, `Parses` and `Lookup` are
`ParseSchedule` and `Schedule.Lookup`. A version goes to the contract by
position (`PublishArgs`), is read back by field name (`decodePriceBookVersion`)
and announced by position (`DecodePriceBookPublishEvent`); `Record`,
`PublishEvent` and `PublishedAt` are the contract's, and external.

**`Leaf`** has `EndpointHash` and the leaf of a billed request.

**`Metering`** has one process per request, the ledger, the price book, and a
service whose catalog is the book at the time it started, read in either way: a
sequence that `NewCatalog` sorts (stated as its result: the entries in ascending
order) and `VersionAt` scans from its end. The
contract's `version_at` is stated over the set of recorded versions, and
`PricedAsPublished` compares the two. How a service fills its catalog is not in
the repository; the model takes what the comment on `Catalog` says of it. Clients
send any of `Call`: a route, with a `RequestInfo` or without one, well formed or
not, and what `Validate` lets pass is what the row says of who paid how. The
table's columns and CHECK constraints (`Storable`) are stated apart from it. An
INSERT may outlive its request (`orphan`). A row's `id` and `consumer` stand for
the columns of those names; `route` and `known`, the versions that the price book
had when the service started, are history.

**`Submission`** is the abstract write path: a call is refused or sends one
transaction, which is settled once, at any later time or never, also after its
caller has gone; the caller is told the truth, or that it is not known. Calls
that send the very same transaction share its execution (`Conclude`).

**`Invoke`** implements it, with callers, some of which ask for the same, and the
network: account sequence numbers, pooled transactions, applied ones, the second
party's authorization entry with its nonce and expiry. A transaction is its
content, as its hash is, so equal concurrent calls meet in the pool
(`DUPLICATE`). The first simulation records an unsigned entry for each party that
the operation asks for, and `mergeAuthEntries` lets the extra entries supersede
those of their address; an unsigned entry left beside a signed one makes the
transaction trap (`Shadowed`). The second simulation is not taken to notice that,
since the code does not rely on it. A caller may also ask without the entry it
needs. `pollTransaction` asks, waits and asks again: `turns` counts the waits, and
`PollTurns`, the timeout over the interval, bounds them; slow answers bring the
deadline on earlier. Any status but `SUCCESS` is a failure to the code; the network
of the model answers `SUCCESS` or `FAILED`, as `StatusOf` says. The network's
actions (`Include`, `Drop`, `Acceptable`, `ResultOf`) are external and as
permissive as the code's comments allow.

**`ScVal`** has the tagged contract values. An i128 is two words, the high one
signed, for any even word size `Word` (2^64 in the code).

**`Registry`** extends `Submission`: a call of `Anchor`, `OpenDispute` or
`ResolveDispute` encodes its arguments, is simulated against the contract as it
is then, and goes its way. `Authorize` is the consumer's `AuthorizeInvocation`
over arguments it builds itself; the operator pairs any signed entry with
arguments of its own. The contract (`Accepts`, `ApplyAnchor`, ...) is external:
it stores the values it is given under their field names and emits them by
position, so what the code must get right, the argument vectors and the
decoders, is the code's. `want` and the entries' `of` are history: what the
callers meant, in Go values. Every argument of `anchor` and every field that the
decoders read is a field of its own, so that a swap of two of one type is seen:
the callers' values of one type differ. The contract stamps what it stores with
its ledger, one for each transaction applied. Of `uint32` and `uint64` only the
values are modelled, which no code here computes with; the width of an i128 is.

**`Channel`** composes three parts: the calls of `channel.go` (each a
`Submission`), the abstract `CommitmentLedger` that `Custody` implements, and
the contract with its funds. `BuildCommitment` is what a funder signs,
`PrepareCommitment` what the contract answers and custody verifies, under the
key that the decoded Open event tells (`verify.go:69-72` asks for that key). The
recipient settles or closes with rows of custody. The contract is external and
follows the comments of `channel.go` and `events.go`: a cumulative amount pays
what it has above all that was paid before (nothing to pay is no error); a close
is effective at once, says so in a Close event, and its refund may not succeed;
`close_start` is effective `RefundWaitingPeriod` ledgers later.

**`Merkle`** takes one step per turn of `BuildTree`'s inner loop. A hash is a
term, so hashes do not collide, and the hash of a sorted pair depends on the
unordered pair.

Each `MC` module gives constants for TLC. Operators whose comment starts with
"Bug:" are not part of any specification: each is a plausible mistake in the
definition after it, and shows that some property would notice.

## 3. What the runs show

| Run | Bounds | Shows |
|---|---|---|
| `Custody_concurrent` | 2 calls, 1 channel, amounts 1-2, 3 keys | the six invariants of `Custody`; it implements `CommitmentLedger!Spec`; every call ends |
| `Migrate_rolling` | 2 services, 2 and 3 migrations, 3 failures | exactly once, in order; the schema converges, every start returns |
| `Metering_safety` | 2 requests, 3 routes, 3 schedules, 3 ledgers | fails closed, priced as published, leaves tell the rule |
| `Invoke_account` | 3 calls of 1 account, 2 operations, 3 ledgers | outcomes, whose executions they are, authorization; it implements `Submission`; every call returns |
| `Registry_dispute` | 2 anchors, 1 dispute, 2 resolutions, 2 entries, words of 2 bits | statements read as asked, `Anchor`'s number, resolutions as agreed, events against reads |
| `Channel_settle` | 4 calls, 2 channels, 5 commitments, 2 ledgers, words of 2 bits | verdicts, what is paid, until when it can be, events against getters |
| `Merkle_build` | 0-20 leaves, cap 4 | proofs, their length, the root |

Why the bounds are enough. The custody races are between two statements on one
channel; a third adds no new pair, and the proofs cover any number. Amounts 1
and 2 give a lower, an equal and a higher one, and `Offered` has each with a
signature that verifies and without. Two builds of two and three
migrations give a service that knows fewer, and the middle migration is the
rerunnable one. Three ledgers and three versions give a request before, at and
after an effective ledger, and a version published after the service started.
`MCCall` has a request of each protocol and one for each way to fail `Validate`. Of the three schedules the second changes a price,
adds a route and is written in lower case and with spaces, and the third has one
rule twice in two spellings, so that no service can start with it; each way to
refuse a document is an assumption of `MCMetering`. A word of two bits puts the
end of i128 at 7, below `MaxNumeric`, which keeps the gap between the two
ranges; `MaxUnits` lets counts reach zero and one beyond BIGINT. `MaxInteger`, the
end of INTEGER, lets every version and ledger through in `Metering_safety`, so that
the third version's charges count, and refuses the third ledger in
`Metering_range`. One account
is what makes sequence numbers collide, the third call asks for either operation
once more, `Validity = 1` lets an entry expire within three ledgers, and a poll may
wait `PollTurns` = 1 time, so that it ends in its first turn or in the last. In
`Registry` the range is -8 to 7: the run has both ends, -1, a full low word and
-9, which `ScvI128` refuses. In `Channel` the payer signs amounts 3 and 5 under
deposits of 4, for two channels and two networks, so that a settle may be
covered, not yet covered, late, or for another channel; 8 is beyond i128 and -3
is signed but not a payment. Twenty leaves pass the cap of 2^4 and every shape
of odd levels below it. Cut-offs in guards are `MaxLedger`, `MaxFailures` and
`MaxEntries`; `MaxAmount`, `MaxUnits`, `MaxInteger`, `MaxNumeric` and `Word` stand
for ranges of the code, and `PollTurns` for its timeout. The largest runs are
`Metering_safety` (3.3 million distinct states), `Registry_dispute` (0.7 million)
and `Invoke_account` (0.5 million, with its liveness property): one to two and a
half minutes each with two workers.

Five runs end in a counterexample. Each checks one sentence of the repository:

* `Custody_race`: "must never be written" (`0003_commitments.sql:31-32`). Two
  racing Submits leave 2 and then 1.
* `Custody_retry`: "a retry ... is safe" (`store.go:110`). A retry of an
  amount below a later one is refused: the trigger precedes `ON CONFLICT`.
* `Custody_record`: "Record is a persisted commitments row" (`store.go:55`). A
  retry's Record carries the retry's own signature and key.
* `Migrate_race`: "Migrate can be called freely on every service startup"
  (`migrate.go:86-88`). The slower of two services fails to start. It
  converges when started again (`Migrate_rolling`).
* `Metering_range`: the charge "has to fit in the i128 range"
  (`schedule.go:34`). Only the unit price is bounded.

Seen while reading, without a run: `metering_test.go:183-185` says that every
failure is "a 500, next never called, and nothing recorded", but a lost answer
to a committed INSERT is a 500 with a row (`RecordUnanswered`);
`metering.go:33-34` names `stellar.Client`
as the `LedgerSource`, but it has no `CurrentLedger`; `schedule.go:78-79` says
path templates are taken verbatim, but line 98 trims them; `Lookup` ignores the
case of a method and `EndpointHash` does not, although `leaf.go:36-40` and
`schedule.go:45-50` say that they agree (`LeavesTellTheRule` needs routes
configured in upper case).

### Fairness

`Custody`: the RPC and the database answer or fail in bounded time, so a call
in `Advance` keeps moving (WF). The probe of the unique index needs strong
fairness: the key can be taken and freed again and again, and PostgreSQL wakes
the waiters each time. Failures, cancellation and crashes are not fair.
`Migrate`: database steps are fair, and whoever runs the services starts one
that is not up. `Invoke`: each RPC is bounded by the client's timeout
(`rpc.go:21`) and each wait of `pollTransaction` by `pollInterval`, so a call in
`Advance` keeps moving (WF); that polling comes to an end is not assumed but
follows from its deadline. The network is not fair at all.
`Metering`, `Registry`, `Channel` and `Merkle` have no liveness properties: every
step of a request is bounded by its context, the calls of the bindings end as
those of `Invoke` do, and `BuildTree` is a terminating loop.

Deadlock is checked in `Custody`, `Migrate` and `Merkle`. `Metering`, `Invoke`,
`Registry` and `Channel` may stop when every request or call is over and the last
ledger has closed.

## 4. What is proved

`CustodyProofs` proves, for every `Proc`, `Channel`, `Signer`, `Signature`,
`Signed` and `MaxAmount` that satisfy `ConstantsAssumption`, the six invariants of
`Custody_concurrent` and its refinement, and, assuming that there is a single
process, that it implements `CommitmentLedger!MonotoneSpec` too
(`ImplementsMonotoneLedger`).

The argument. None of the invariants is inductive alone: that two rows never
share a key depends on what an open transaction has checked, and that depends
on where every other statement is. `IInv` is the conjunction of the stated
invariants with `CallInv`, which says of each call what its place in the code
has established (a submission in flight is well formed; past `verify` the
verdict is that of its own signature; at `reply` its row is in the table; at
`readback` some row has its key). One lemma per action shows that `IInv` is
preserved; `Invariance` combines them, and each theorem takes its conjunct. The
refinement then needs only that `Commit` maps to `Store`, `Reply` and
`ReadBack` to `Tell`, and the rest to stuttering. `SerialIsMonotone` adds
`SerialInv`: with one process, the trigger's check still holds when the row is
committed, which is exactly what a second process breaks.

`MeteringProofs` proves `FailsClosed` for every number of requests, versions,
ledgers and units. `FailsClosed` is not inductive: that a request is recorded
once depends on its having no row before its INSERT, and that a refused request
has none depends on refusals coming before the INSERT. `RequestInv` says both,
phase by phase; an `orphan`, an INSERT whose request is gone, is the phase in
which a row may still come, and it excludes the answer that promises none. A
crash turns INSERTs at work into orphans.

The same module proves `PricedAsPublished`, `LeavesTellTheRule` and the types of
`Metering` for any documents, routes and ledgers. `PricedAsPublished` compares
every row with what `version_at` answered of the book when the service started: a
version published later is one the row may miss, and nothing else is. `PricingInv`
is about the book (versions are numbered as they come, and no two take effect
together), the catalog (the versions in `known`, in the order they take effect)
and each charge (`Charged`: the last version in force of those that were known,
and the price of every rule it has for the route). `Charged` survives `Publish`
because a new version is in no catalog yet. The lemmas are the algorithms: the order
`NewCatalog` sorts by exists (`SortedCatalog`), the walk of `VersionAt` ends at the
last version in force (`VersionAtIsLast`), `Lookup` finds the only rule there is,
since a document that parses has no two with one key (`LookupFindsTheRule`), and
a catalog is the same whether read by fields or from events (`EntriesOfTheBook`).

`InvokeProofs` proves, for any number of calls, accounts, operations, nonces and
ledgers, `TypeOK`, `OutcomeIsOnChain`, `NoAvoidableTrap`, `ExecutionsAreOwned` and
the refinement `ImplementsSubmission`. What makes an outcome final is that a settled transaction
can never be taken or included again: `IInv` says that the sequence number of
every applied transaction is at most its account's, that a pooled one is not
settled, that what a call is polling was taken from it, and (`Sound`) that what
waits or was applied with another party's entry has a footprint with its nonce
and no unsigned entry beside it, which is what `mergeAuthEntries` is for
(`MergedIsSound`). The
refinement's hard step is `Include`: it settles one transaction for all the calls
that sent it, and those are exactly the ones whose `tx` is that transaction.
`ExecutionsAreOwned` needs one invariant more, `Answered`: what the network has
taken was sent by a call that is not told of an error, and two executed
transactions never share another party's entry. So every execution, past or to
come, names a claimant of its own operation, and no two name the same one.

`ScValProofs` proves `I128RoundTrip`: for every even `Word`, `DecodeI128`
gives back every amount `ScvI128` takes. The argument splits the unsigned number
into its words (`DivMod`) and shows that the high word is below half a word
exactly when the number is below half the modulus (`HighWord`). `I128Fits` adds
that the words of an amount are in range. The proofs of `Registry` and `Channel`
rest on them: two amounts with one encoding are one amount.

`MigrateProofs` proves, for any number of services and migrations, the five
invariants of `Migrate_rolling`. `ServiceInv` is what they need: a service that
has inserted its row and not committed is at a migration that nobody has
recorded, and nobody else is about to, which is what the primary key and
PostgreSQL's wait for it provide. `CommitKeepsIInv` is the step that matters: a
commit records the least migration its service found pending, all before it are
recorded already, and none but this one changes.

`RegistryProofs` proves, for any number of parties, calls and entries, the five
invariants of `Registry_dispute`. `IInv` says of each thing the contract stores
where it is from. `StatementsInv` pairs each statement with the executed call of
`Anchor` whose result is its number, and each such call with its statement, and
`StatementsAreAsAsked` states both directions: a statement reads as some executed
call asked, and no executed call lacks its statement. `LedgersInv` orders the
ledgers that a statement and its dispute are stamped with.
`DisputesInv` gives each resolved dispute the entry its consumer signed and the
call its operator made; the contract compares the arguments of the two, so they
meant the same because encoding is injective. `EventsInv` pairs each event with
what is stored. A dispute or a resolution changes the status of a statement that
others still point to (`OnlyTheStatusChanges`).

`ChannelProofs` proves, for any number of channels, commitments, calls and
ledgers, its four invariants and the type invariant. `PaidInv` says that what a channel has paid is the greatest amount
settled, and each settled amount one the payer signed: it is what is paid and
not a sum because the contract subtracts what it paid before. `FundsInv` says
that the rest of the deposits is still there until a deadline that the decoded
events have told is past; with it, a valid row that the deposits cover finds its
money. One lemma per function of the contract shows that a call of it preserves
both.

`EventsAndGettersAgree` compares a sequence of events with balances. `ToldInv`
says that what the events from any set of positions tell adds up to what was
withdrawn and refunded. `TopUpsInv` chooses one call for each execution of a
top-up, however many calls sent the transaction; what was deposited since the
channel was opened is what the chosen calls asked for. A transaction has no
sequence number here, so equal values may be several executions: the property
says that at least one call is chosen for each value. The lemmas are a small theory of totals
over finite sets of positions: a total over a set is the total over a part plus
that over the rest (`TotalOfPart`, `TotalOfRest`), so an appended event adds
exactly its own amount (`EventAdds`).

`MerkleProofs` proves the five invariants of `Merkle_build` for every set of
sequences of leaves and every cap. The invariant `AtHeight` describes the
loop of `BuildTree` in the middle: after h levels, node j stands for the leaves
from j * 2^h up to the next such boundary or the end, and is the root that the
recursive definition gives them; a promoted odd node is the case in which there
is no right half, and that is why it needs no sibling. Each leaf's proof so far
folds to its node, because folding one sibling more is one step of the fold.
That 2^(n + 1) is twice 2^n, which no prover knows, comes from counting the
subsets of 1 .. n (`PowerStep`); each level adds one to the exponent, which
bounds the length of a proof and makes the cap exact. No other leaf verifies
with a proof because leaves differ and a fold is injective in its leaf
(`FoldIsInjective`), which rests on hashes not colliding.

Two theorems compose components. `CallsAreSubmissions`, in `RegistryProofs` and
in `ChannelProofs`, says that the module's calls implement `Submission`, the
specification that `InvokeProofs` proves of `invokeAndSubmit`: the contract
bindings take of the write path what was proved of it and no more.
`CommitmentsAreALedger` says the same of the channel's table of commitments and
`CommitmentLedger`, which `CustodyProofs` proves of the store.

The provers cannot instantiate an induction theorem, which takes an operator. The
two inductions needed, over sizes of sets and of levels, are therefore proved as
the absence of a least counterexample, with the well-foundedness of Nat, and
each recursive function is shown to satisfy its own equation first.

Only model-checked: the liveness properties, since the prover handles neither
fairness nor ENABLED. Every invariant that a passing run checks is a theorem.

## 5. Not modelled, and why

JSON, base64, the generated XDR types and HTTP keep no state. Configuration is
read once, and validated before anything else exists. The billing-period table
has no code yet. Fees, resource limits and the contents of contracts are
external. `VerifyUsage` hands a proof to the contract and decodes a boolean: the
fold is `Merkle`'s `VerifyProof`. `ExtendStatementTTL` changes nothing that a
binding reads. Decoders take values of the type they expect: a contract that
answers with another is not the one the bindings are for. Hashes do not collide,
and no method contains a space.

## 6. Plan

Done, in order of importance: `CommitmentLedger`, `Custody`, `CustodyProofs`,
`Migrate`, `Metering`, `MeteringProofs`, `Submission`, `Invoke`, `InvokeProofs`,
`Merkle`, `ScVal`, `ScValProofs`, `Registry`, `Channel`, `PriceBook`, `Leaf`,
`MigrateProofs`, `ChannelProofs`, `RegistryProofs`, `MerkleProofs`.

Next: an abstract specification of metering (a bill that only grows, served
implies billed) with its refinement; `VerifyUsage` over the tree of `Merkle` and
the leaves of `Metering`, once a service joins them.

Proofs worth having next: that refinement of the bill; that what a statement
anchors is the tree over the leaves of what was charged, from `LeavesTellTheRule`
and `ProofsVerify`.
