-------------------------- MODULE CommitmentLedger --------------------------
(***************************************************************************)
(* What internal/custody promises about payment-channel commitments, with  *)
(* no processes, no database and no failures in it: a ledger that keeps at *)
(* most one entry per (channel, cumulative_amount), never alters or loses  *)
(* one, and acknowledges to a payer only what it already holds (store.go,  *)
(* "Persist before acknowledging").                                        *)
(*                                                                         *)
(* MonotoneSpec adds the promise of 0003_commitments.sql:30-32, that the   *)
(* amounts of one channel enter the ledger in increasing order.  Custody   *)
(* implements Spec always, MonotoneSpec only without concurrency.          *)
(***************************************************************************)
EXTENDS Integers

CONSTANTS
    Channel,    \* the payment channels
    Amount      \* the cumulative amounts a commitment can carry

VARIABLES
    stored,     \* the entries of the ledger
    told        \* the entries acknowledged to a payer

Entry == [channel : Channel, amount : Amount, valid : BOOLEAN]

TypeOK == stored \subseteq Entry /\ told \subseteq Entry

Init == stored = {} /\ told = {}

\* A commitment and its verdict enter the ledger, once per channel and amount.
Store(e) ==
    /\ \A f \in stored : <<f.channel, f.amount>> # <<e.channel, e.amount>>
    /\ stored' = stored \cup {e}
    /\ UNCHANGED told

\* The same, above everything the channel already holds.
StoreAbove(e) ==
    /\ \A f \in stored : f.channel = e.channel => f.amount < e.amount
    /\ stored' = stored \cup {e}
    /\ UNCHANGED told

\* A payer is told of an entry the ledger holds, possibly again.
Tell(e) ==
    /\ e \in stored
    /\ told' = told \cup {e}
    /\ UNCHANGED stored

Next == \E e \in Entry : Store(e) \/ Tell(e)

MonotoneNext == \E e \in Entry : StoreAbove(e) \/ Tell(e)

Spec == Init /\ [][Next]_<<stored, told>>

MonotoneSpec == Init /\ [][MonotoneNext]_<<stored, told>>

=============================================================================
