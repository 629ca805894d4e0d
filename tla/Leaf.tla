--------------------------------- MODULE Leaf ---------------------------------
(***************************************************************************)
(* internal/merkle/leaf.go: the leaf of a billed request, as the           *)
(* statement_registry contract computes it.  Hashes do not collide.        *)
(***************************************************************************)
EXTENDS ScVal

sha256(bytes) == <<"sha256", bytes>>

\* Of the method and the path with a space between them; no method has one.
EndpointHash(method, path) == sha256(<<method, path>>)

\* Bug: the request's own ID is not part of its record.
encodeRecordAnonymous(r) ==
    [amount |-> ScvI128(r.amount), consumer |-> ScvAddress(r.consumer),
     endpoint |-> ScvBytes(r.endpoint), ledger |-> ScvU32(r.ledger),
     price_v |-> ScvU32(r.version), units |-> ScvU64(r.units)]

\* A map's entries by key.
encodeRecord(r) ==
    [amount |-> ScvI128(r.amount), consumer |-> ScvAddress(r.consumer),
     endpoint |-> ScvBytes(r.endpoint), ledger |-> ScvU32(r.ledger),
     price_v |-> ScvU32(r.version), reqid |-> ScvBytes(r.id), units |-> ScvU64(r.units)]

\* For an amount in I128; scvI128 refuses the others.
Leaf(r) == sha256(sha256(encodeRecord(r)))

=============================================================================
