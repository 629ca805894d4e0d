------------------------------ MODULE MCCustody ------------------------------
(***************************************************************************)
(* Instances of Custody for TLC.  A payer signs with the channel's current *)
(* commitment key; a caller may also hold a stale key, under which the     *)
(* same signature does not verify, or bytes that are no key at all.        *)
(***************************************************************************)
EXTENDS Custody

CONSTANTS current, stale, short

MCSigner == {current, stale, short}

MCWellFormedKey == {current, stale}

MCSigned == {[channel |-> c, amount |-> n, signer |-> current, sig |-> s] :
                c \in Channel, n \in Amount, s \in Signature}

\* A lower amount comes under either key, or with one that is none; a higher
\* one, one beyond i128 and an amount that is none come under the current key.
MCOffered ==
    {o \in Submission : o.signer = current \/ o.amount = 1}

=============================================================================
