------------------------------- MODULE MCChannel -------------------------------
(***************************************************************************)
(* An instance of Channel for TLC: a payer has two channels under one key, *)
(* signs two commitments for the first and others that must not pass for   *)
(* them, and the recipient settles and closes while the funder tops up,    *)
(* starts to close and refunds.                                            *)
(***************************************************************************)
EXTENDS Channel

CONSTANTS ch1, ch2, settle, last, fund, back

Opening(amount) ==
    [from |-> "funder", to |-> "recipient", token |-> "token", key |-> "payer",
     amount |-> amount, period |-> 1]

MCTerms == (ch1 :> Opening(4)) @@ (ch2 :> Opening(5))

Sig(ch, network, amount, key) ==
    [channel |-> ch, network |-> network, amount |-> amount, key |-> key]

MCCommitments ==
    {Sig(ch1, "testnet", 3, "payer"), Sig(ch1, "testnet", 5, "payer"),
     Sig(ch2, "testnet", 5, "payer"), Sig(ch1, "mainnet", 5, "payer"),
     Sig(ch1, "testnet", -3, "payer")}

MCSubmitted == {[channel |-> ch1, amount |-> s.amount, sig |-> s] : s \in MCCommitments}

Ask(fn, signer, amounts) ==
    {[fn |-> fn, signer |-> signer, channel |-> ch1, amount |-> n] : n \in amounts}

MCWant ==
    (settle :> Ask("settle", "recipient", {3}))
      @@ (last :> Ask("settle", "recipient", {5}) \cup Ask("close", "recipient", {3}))
      @@ (fund :> Ask("top_up", "funder", {8}) \cup Ask("close_start", "funder", {0}))
      @@ (back :> Ask("top_up", "funder", {2}) \cup Ask("refund", "funder", {0}))

=============================================================================
