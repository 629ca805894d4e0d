------------------------------- MODULE Custody -------------------------------
(***************************************************************************)
(* internal/custody: Store.Submit, VerifyCommitment and the commitments    *)
(* table with its BEFORE INSERT trigger, under concurrent calls.           *)
(*                                                                         *)
(* A member of Proc is one call of Submit together with the PostgreSQL     *)
(* backend that runs its INSERT.  The two can come apart: a caller whose   *)
(* context ends, or whose service crashes, goes away while the backend     *)
(* still finishes the statement.  waiting[p] says whether the caller is    *)
(* still there.                                                            *)
(*                                                                         *)
(*   pc[p]      where the call is                                          *)
(*   "idle"     no call and no statement                                   *)
(*   "verify"   in VerifyCommitment, waiting for prepare_commitment        *)
(*   "trigger"  INSERT sent; the BEFORE INSERT trigger has not run yet     *)
(*   "index"    trigger passed; the unique index has not been probed yet   *)
(*   "commit"   row written, transaction not committed: invisible to       *)
(*              others, but its key makes them wait                        *)
(*   "reply"    transaction committed, answer not yet with the caller      *)
(*   "readback" INSERT returned no row; the SELECT that follows            *)
(*                                                                         *)
(* READ COMMITTED: the SELECT MAX inside the (volatile) trigger function   *)
(* sees the rows committed at that moment and no others.                   *)
(***************************************************************************)
EXTENDS Integers, FiniteSets

CONSTANTS
    Proc,          \* calls of Submit that can be under way together
    Channel,       \* payment channels
    MaxAmount,     \* the largest i128: no larger amount can be simulated
    Signer,        \* keys a caller may hold as TrustedSignerKey
    WellFormedKey, \* those of ed25519.PublicKeySize bytes
    Signature,     \* signatures a payer may send
    Signed,        \* the commitments whose signature ed25519.Verify accepts
    Offered,       \* the submissions that callers make
    NilAmount,     \* the nil *big.Int
    NoCommitment   \* "no call": the value of sc[p] when p is idle

Amount == 1 .. MaxAmount

\* SubmittedCommitment as a caller may fill it in.  0 stands for every
\* amount that is not positive, MaxAmount + 1 for every one beyond i128.
Submission ==
    [channel : Channel, amount : {NilAmount} \cup (0 .. MaxAmount + 1),
     signer : Signer, sig : Signature]

ASSUME ConstantsAssumption ==
    /\ MaxAmount \in Nat \ {0}
    /\ NilAmount \notin Int
    /\ WellFormedKey \subseteq Signer
    /\ NoCommitment \notin Submission
    /\ Offered \subseteq Submission

VARIABLES
    rows,      \* committed rows of the commitments table
    pc,        \* pc[p]: see above
    waiting,   \* waiting[p]: the caller of Submit is still there
    sc,        \* sc[p]: the argument of the call
    verdict,   \* verdict[p]: what VerifyCommitment returned
    out,       \* out[p]: how the last call of p answered
    acked,     \* history: every Record Submit has returned
    known      \* history: known[p] is rows as it was when p's call began

vars == <<rows, pc, waiting, sc, verdict, out, acked, known>>

Row == [channel : Channel, amount : Amount, signer : WellFormedKey,
        sig : Signature, valid : BOOLEAN]

Record == [row : Row, already : BOOLEAN]

PC == {"idle", "verify", "trigger", "index", "commit", "reply", "readback"}

\* Answers after which nothing of the call can be in the table.
Rejection == {"nil_amount", "incomplete", "regression"}

Answer == Rejection \cup {"none", "recorded", "already", "failed"}

-----------------------------------------------------------------------------
\* Bug: the length of TrustedSignerKey is not checked.
WellFormedAnyKey(c) == c.amount # NilAmount /\ c.amount > 0

\* The checks before the RPC: verify.go:78-86, and store.go:122-124.
WellFormed(c) ==
    c.amount # NilAmount /\ c.amount > 0 /\ c.signer \in WellFormedKey

\* ed25519.Verify over the bytes prepare_commitment predicts.  Submit takes the
\* ChannelReader that predicts them and sc.Channel, under which the row is
\* stored, separately; its callers are taken to pass one channel as both.
Verifies(c) == c \in Signed

\* The commitment a row or a submission is about, whatever its verdict.
Commitment(r) ==
    [channel |-> r.channel, amount |-> r.amount,
     signer |-> r.signer, sig |-> r.sig]

\* The row the INSERT of submission c with verdict v writes.
RowOf(c, v) ==
    [channel |-> c.channel, amount |-> c.amount, signer |-> c.signer,
     sig |-> c.sig, valid |-> v]

\* UNIQUE (channel, cumulative_amount).
SameKey(a, b) == a.channel = b.channel /\ a.amount = b.amount

\* The trigger's condition: a stored row of the channel is higher, whatever
\* its verdict.
IsRegression(c) == \E r \in rows : r.channel = c.channel /\ r.amount > c.amount

-----------------------------------------------------------------------------
Init ==
    /\ rows = {}
    /\ pc = [p \in Proc |-> "idle"]
    /\ waiting = [p \in Proc |-> FALSE]
    /\ sc = [p \in Proc |-> NoCommitment]
    /\ verdict = [p \in Proc |-> FALSE]
    /\ out = [p \in Proc |-> "none"]
    /\ acked = {}
    /\ known = [p \in Proc |-> {}]

\* p's call and statement are over.  A caller still waiting gets answer a.
Finish(p, a) ==
    /\ pc' = [pc EXCEPT ![p] = "idle"]
    /\ out' = [out EXCEPT ![p] = IF waiting[p] THEN a ELSE @]
    /\ waiting' = [waiting EXCEPT ![p] = FALSE]
    /\ sc' = [sc EXCEPT ![p] = NoCommitment]
    /\ verdict' = [verdict EXCEPT ![p] = FALSE]
    /\ known' = [known EXCEPT ![p] = {}]

\* p goes on to its next phase, everything else of it unchanged.
Goto(p, phase) ==
    /\ pc' = [pc EXCEPT ![p] = phase]
    /\ UNCHANGED <<waiting, sc, out, known>>

\* Submit with an argument it refuses before asking anyone.
RejectArguments(p, c) ==
    /\ pc[p] = "idle"
    /\ ~WellFormed(c)
    /\ out' = [out EXCEPT ![p] =
                 IF c.amount = NilAmount THEN "nil_amount" ELSE "incomplete"]
    /\ UNCHANGED <<rows, pc, waiting, sc, verdict, acked, known>>

\* Submit enters VerifyCommitment and asks for prepare_commitment.
BeginSubmit(p, c) ==
    /\ pc[p] = "idle"
    /\ WellFormed(c)
    /\ pc' = [pc EXCEPT ![p] = "verify"]
    /\ waiting' = [waiting EXCEPT ![p] = TRUE]
    /\ sc' = [sc EXCEPT ![p] = c]
    /\ out' = [out EXCEPT ![p] = "none"]
    /\ known' = [known EXCEPT ![p] = rows]
    /\ UNCHANGED <<rows, verdict, acked>>

\* prepare_commitment did not answer, or the amount is no i128: the call ends
\* with ErrVerificationIncomplete and nothing is stored.
VerifyFails(p) ==
    /\ pc[p] = "verify"
    /\ Finish(p, "incomplete")
    /\ UNCHANGED <<rows, acked>>

\* Bug: Submit takes any completed simulation for a valid commitment.
VerifyAlwaysValid(p) ==
    /\ pc[p] = "verify"
    /\ sc[p].amount <= MaxAmount
    /\ verdict' = [verdict EXCEPT ![p] = TRUE]
    /\ Goto(p, "trigger")
    /\ UNCHANGED <<rows, acked>>

\* A verdict is reached, good or bad, and the INSERT is sent.
VerifyCompletes(p) ==
    /\ pc[p] = "verify"
    /\ sc[p].amount <= MaxAmount
    /\ verdict' = [verdict EXCEPT ![p] = Verifies(sc[p])]
    /\ Goto(p, "trigger")
    /\ UNCHANGED <<rows, acked>>

\* Bug: the trigger compares with another row than the channel's highest.
TriggerPassesAnyway(p) ==
    /\ pc[p] = "trigger"
    /\ Goto(p, "index")
    /\ UNCHANGED <<rows, verdict, acked>>

\* commitments_reject_regression returns NEW.
TriggerPasses(p) ==
    /\ pc[p] = "trigger"
    /\ ~IsRegression(sc[p])
    /\ Goto(p, "index")
    /\ UNCHANGED <<rows, verdict, acked>>

\* commitments_reject_regression raises TB001: ErrMonotonicViolation.
TriggerRaises(p) ==
    /\ pc[p] = "trigger"
    /\ IsRegression(sc[p])
    /\ Finish(p, "regression")
    /\ UNCHANGED <<rows, acked>>

\* Bug: the probe waits for a transaction that is itself only probing.
KeyUnclaimed(p) ==
    \A q \in Proc \ {p} : pc[q] \in {"index", "commit"} => ~SameKey(sc[q], sc[p])

\* The probe of the unique index waits while another transaction has written
\* the same key and has not ended.
KeyFree(p) ==
    \A q \in Proc \ {p} : pc[q] = "commit" => ~SameKey(sc[q], sc[p])

\* ON CONFLICT DO NOTHING: a committed row has the key.  Submit sees
\* pgx.ErrNoRows and reads the row back.
ConflictFound(p) ==
    /\ pc[p] = "index"
    /\ KeyFree(p)
    /\ \E r \in rows : SameKey(r, sc[p])
    /\ IF waiting[p]
       THEN Goto(p, "readback") /\ UNCHANGED verdict
       ELSE Finish(p, "failed")
    /\ UNCHANGED <<rows, acked>>

\* Bug: the unique constraint is missing, so no other writer is waited for.
WriteTupleAtOnce(p) ==
    /\ pc[p] = "index"
    /\ Goto(p, "commit")
    /\ UNCHANGED <<rows, verdict, acked>>

\* No row has the key: the row is written, in a transaction still open.
WriteTuple(p) ==
    /\ pc[p] = "index"
    /\ KeyFree(p)
    /\ \A r \in rows : ~SameKey(r, sc[p])
    /\ Goto(p, "commit")
    /\ UNCHANGED <<rows, verdict, acked>>

\* Bug: the row is acknowledged although its transaction rolled back.
CommitDropped(p) ==
    /\ pc[p] = "commit"
    /\ Goto(p, "reply")
    /\ UNCHANGED <<rows, verdict, acked>>

\* The statement's transaction commits.
Commit(p) ==
    /\ pc[p] = "commit"
    /\ rows' = rows \cup {RowOf(sc[p], verdict[p])}
    /\ IF waiting[p]
       THEN Goto(p, "reply") /\ UNCHANGED verdict
       ELSE Finish(p, "failed")
    /\ UNCHANGED acked

\* Submit returns the Record of the row it inserted.
Reply(p) ==
    /\ pc[p] = "reply"
    /\ acked' = acked \cup {[row |-> RowOf(sc[p], verdict[p]), already |-> FALSE]}
    /\ Finish(p, "recorded")
    /\ UNCHANGED rows

\* Bug: the retry is answered with the retry's own verdict.
ReadBackOwnVerdict(p) ==
    /\ pc[p] = "readback"
    /\ acked' = acked \cup {[row |-> RowOf(sc[p], verdict[p]), already |-> TRUE]}
    /\ Finish(p, "already")
    /\ UNCHANGED rows

\* Submit returns a Record with the id and verdict of the stored row, and the
\* caller's own signature and signer key.
ReadBack(p) ==
    /\ pc[p] = "readback"
    /\ \E r \in rows :
         /\ SameKey(r, sc[p])
         /\ acked' = acked \cup {[row |-> RowOf(sc[p], r.valid), already |-> TRUE]}
    /\ Finish(p, "already")
    /\ UNCHANGED rows

-----------------------------------------------------------------------------
\* The statement fails before it commits (no connection in the pool, a lost
\* connection, a backend or server that goes down): nothing is stored.
StatementFails(p) ==
    /\ pc[p] \in {"trigger", "index", "commit", "readback"}
    /\ Finish(p, "failed")
    /\ UNCHANGED <<rows, acked>>

\* Bug: an INSERT with no answer is reported as an incomplete verification.
AbandonAsIncomplete(p) ==
    /\ waiting[p]
    /\ pc[p] \in {"trigger", "index", "commit"}
    /\ waiting' = [waiting EXCEPT ![p] = FALSE]
    /\ out' = [out EXCEPT ![p] = "incomplete"]
    /\ UNCHANGED <<rows, pc, sc, verdict, acked, known>>

\* The caller's context ends, or its connection breaks, while the backend goes
\* on: Submit returns an error and cannot know what became of the row.
Abandon(p) ==
    /\ waiting[p]
    /\ pc[p] \in {"trigger", "index", "commit"}
    /\ waiting' = [waiting EXCEPT ![p] = FALSE]
    /\ out' = [out EXCEPT ![p] = "failed"]
    /\ UNCHANGED <<rows, pc, sc, verdict, acked, known>>

\* The answer to a committed INSERT is lost on its way.
ReplyLost(p) ==
    /\ pc[p] = "reply"
    /\ Finish(p, "failed")
    /\ UNCHANGED <<rows, acked>>

\* The service crashes: every caller is gone, every call that is not inside
\* the database with it.  Backends finish what they were sent.
ServiceCrash ==
    LET inDatabase == {"trigger", "index", "commit"}
        Lost(p) == pc[p] \notin inDatabase
    IN  /\ \E p \in Proc : waiting[p]
        /\ pc' = [p \in Proc |-> IF Lost(p) THEN "idle" ELSE pc[p]]
        /\ waiting' = [p \in Proc |-> FALSE]
        /\ sc' = [p \in Proc |-> IF Lost(p) THEN NoCommitment ELSE sc[p]]
        /\ verdict' = [p \in Proc |-> IF Lost(p) THEN FALSE ELSE verdict[p]]
        /\ known' = [p \in Proc |-> IF Lost(p) THEN {} ELSE known[p]]
        /\ out' = [p \in Proc |-> "none"]
        /\ UNCHANGED <<rows, acked>>

-----------------------------------------------------------------------------
Submit(p) == \E c \in Offered : RejectArguments(p, c) \/ BeginSubmit(p, c)

\* The steps that the code and the database take by themselves.
Advance(p) ==
    \/ VerifyCompletes(p) \/ VerifyFails(p)
    \/ TriggerPasses(p) \/ TriggerRaises(p)
    \/ Commit(p) \/ Reply(p) \/ ReadBack(p)

ProbeIndex(p) == ConflictFound(p) \/ WriteTuple(p)

Fail(p) == StatementFails(p) \/ Abandon(p) \/ ReplyLost(p)

Next ==
    \/ \E p \in Proc : Submit(p) \/ Advance(p) \/ ProbeIndex(p) \/ Fail(p)
    \/ ServiceCrash

Spec == Init /\ [][Next]_vars

\* The RPC and the database answer or fail in bounded time, so a call keeps
\* moving.  PostgreSQL wakes a transaction that waits for another's key each
\* time the other ends, which is strong fairness of the probe.
Fairness == \A p \in Proc : WF_vars(Advance(p)) /\ SF_vars(ProbeIndex(p))

FairSpec == Spec /\ Fairness

-----------------------------------------------------------------------------
\* Every variable stays in its range.
TypeOK ==
    /\ rows \subseteq Row
    /\ pc \in [Proc -> PC]
    /\ waiting \in [Proc -> BOOLEAN]
    /\ sc \in [Proc -> Submission \cup {NoCommitment}]
    /\ verdict \in [Proc -> BOOLEAN]
    /\ out \in [Proc -> Answer]
    /\ acked \subseteq Record
    /\ known \in [Proc -> SUBSET Row]

\* The commitments table, the rows of open transactions included, never holds
\* two rows for one channel and cumulative amount: a retry, however it
\* interleaves with the first attempt, records nothing twice.
OneRowPerKey ==
    /\ \A r, s \in rows : SameKey(r, s) => r = s
    /\ \A p \in Proc : pc[p] = "commit" =>
          /\ \A r \in rows : ~SameKey(r, sc[p])
          /\ \A q \in Proc \ {p} : pc[q] = "commit" => ~SameKey(sc[q], sc[p])

\* The verdict in a row is the outcome of verifying that row's own signature
\* under that row's own key, so a settler that filters on valid never settles
\* an unverified commitment, whatever raced or was retried.
VerdictIsTheRows == \A r \in rows : r.valid <=> Verifies(Commitment(r))

\* Persist before acknowledging: whatever Submit has ever returned, crashes and
\* lost answers included, is about a row that is in the table with the same
\* verdict, and a Record not marked AlreadyRecorded is that row exactly.
AckedAreDurable ==
    \A a \in acked : \E r \in rows :
        /\ SameKey(r, a.row)
        /\ r.valid = a.row.valid
        /\ ~a.already => r = a.row

\* What remains of the monotonic invariant under concurrency: a commitment
\* never gets into the table below a row of its channel that was already
\* committed when its Submit began.
NoKnownRegression ==
    \A p \in Proc : pc[p] \in {"index", "commit", "reply"} =>
        \A r \in known[p] : r.channel = sc[p].channel => r.amount <= sc[p].amount

\* A caller told that nothing was written has no statement left in the
\* database that could still write the row.
NothingAfterRejection ==
    \A p \in Proc : out[p] \in Rejection => pc[p] = "idle"

\* The refinement mapping: the entry of the abstract ledger that a row stands
\* for, the entries stored, and the entries acknowledged.
EntryOf(r) == [channel |-> r.channel, amount |-> r.amount, valid |-> r.valid]

StoredEntries == {EntryOf(r) : r \in rows}

ToldEntries == {EntryOf(a.row) : a \in acked}

Ledger == INSTANCE CommitmentLedger WITH
    stored <- StoredEntries, told <- ToldEntries

\* Rows enter once per key, are never changed or lost, and are acknowledged
\* only when they are there.
ImplementsLedger == Ledger!Spec

\* The promise of 0003_commitments.sql:30-32 as a refinement: a channel's rows
\* enter in increasing order.  It holds when one call runs at a time.
ImplementsMonotoneLedger == Ledger!MonotoneSpec

\* Every call ends: none waits forever for a key that another has written.
EveryCallEnds == \A p \in Proc : pc[p] # "idle" ~> pc[p] = "idle"

-----------------------------------------------------------------------------
\* 0003_commitments.sql:30-32, "a commitment whose cumulative_amount is lower
\* than the highest already stored for its channel must never be written".
NeverWrittenBelowHighest ==
    [][\A r \in rows' \ rows, s \in rows :
           r.channel = s.channel => s.amount <= r.amount]_vars

\* store.go:110-115, "A retry with the exact same (channel, cumulative_amount)
\* is safe": no Submit whose key is in the table is refused as a regression.
RetryIsNeverRefused ==
    [][\A p \in Proc : TriggerRaises(p) =>
           ~\E r \in rows : SameKey(r, sc[p])]_vars

\* store.go:55, "Record is a persisted commitments row".
RecordIsAPersistedRow == \A a \in acked : a.row \in rows

=============================================================================
