------------------------------- MODULE MCInvoke -------------------------------
(***************************************************************************)
(* Instances of Invoke for TLC: one operator account that anchors a        *)
(* statement and resolves a dispute with the consumer's entry, while a     *)
(* third call asks for the one or the other once more.                     *)
(***************************************************************************)
EXTENDS Invoke

CONSTANTS anchor, again, resolve, operator, consumer, nonce

MCSource == [c \in Call |-> operator]

Anchoring == [op |-> "anchor", extra |-> {}]

Resolving == [op |-> "resolve_dispute", extra |-> {nonce}]

\* Its consumer has not signed: the entry that simulation records stays.
Unauthorized == [op |-> "resolve_dispute", extra |-> {}]

MCOperation == {Anchoring.op, Resolving.op}

MCRequires ==
    [op \in MCOperation |->
        IF op = Resolving.op THEN {SourceAccount, consumer} ELSE {SourceAccount}]

MCSigner == [n \in Nonce |-> consumer]

MCAsks ==
    [c \in Call |->
        CASE c = anchor -> {Anchoring, Unauthorized}
          [] c = resolve -> {Resolving}
          [] c = again -> {Anchoring, Resolving}]

=============================================================================
