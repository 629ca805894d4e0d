------------------------------ MODULE MCRegistry ------------------------------
(***************************************************************************)
(* An instance of Registry for TLC: an operator anchors two statements     *)
(* against a consumer at the same time, perhaps the same one twice, the    *)
(* consumer disputes the first, and the operator tries two resolutions,    *)
(* with words of two bits.                                                 *)
(***************************************************************************)
EXTENDS Registry

CONSTANTS operator, consumer, channel, token, h1, h2, a1, a2, open, r1, r2

Anchoring(root, billed, settled, protocol, chan) ==
    [fn |-> "anchor", signer |-> operator, consumer |-> consumer,
     periodStart |-> 1, periodEnd |-> 2, root |-> root, requestCount |-> 3,
     token |-> token, billed |-> billed, settled |-> settled,
     priceBookVersion |-> 4, protocol |-> protocol, channel |-> chan]

Opening(seq) ==
    [fn |-> "open_dispute", signer |-> consumer, operator |-> operator,
     seq |-> seq, reason |-> h1]

Resolving(resolution, credited) ==
    [fn |-> "resolve_dispute", signer |-> operator, seq |-> 1,
     resolution |-> resolution, credited |-> credited]

\* Amounts at the ends of i128 and beyond them, about zero, and a full low word.
MCWant ==
    [c \in Call |->
        CASE c = a1 -> {Anchoring(h1, n, 3, "X402", None) : n \in {-9, -8, 7}}
          [] c = a2 -> {Anchoring(h2, -1, 5, "MppSession", channel),
                        Anchoring(h1, -8, 3, "X402", None)}
          [] c = open -> {Opening(1)}
          [] c = r1 -> {Resolving(h1, 3)}
          [] c = r2 -> {Resolving(h2, -3)}]

MCAgreement ==
    {[operator |-> operator, consumer |-> consumer, seq |-> 1,
      resolution |-> r[1], credited |-> r[2]] : r \in {<<h1, 3>>, <<h2, -3>>}}

=============================================================================
