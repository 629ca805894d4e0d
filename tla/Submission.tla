------------------------------ MODULE Submission ------------------------------
(***************************************************************************)
(* What internal/stellar's invokeAndSubmit promises to the bindings that   *)
(* call it, with no sequence numbers, signatures, footprints or polling:   *)
(* a call that is simulated with success sends one transaction, which is   *)
(* settled once, at any later time or never, also after the caller has     *)
(* gone; and what the caller is told of its outcome is true.               *)
(*                                                                         *)
(* Calls that send the very same transaction share its one execution: the  *)
(* network answers DUPLICATE to the later ones (invoke.go:490).            *)
(*                                                                         *)
(* Module Invoke implements it; Registry and Channel build on it.          *)
(***************************************************************************)

CONSTANTS
    Call,   \* calls of InvokeAndSubmit and InvokeAndSubmitWithAuth
    NoTx

VARIABLES
    pc,     \* pc[c]: where the call is
    tx,     \* tx[c]: the transaction the call is to send
    fate,   \* fate[c]: what has become of it, "none" while it is not sent
    out     \* out[c]: what the caller was told

submission == <<pc, tx, fate, out>>

Phase == {"idle", "send", "poll", "end"}

Fate == {"none", "open", "done", "void"}

\* "error": nothing was sent, or it was refused.  "failed": settled without
\* effect.  "unanswered": an error, but it was or may yet be executed.
Outcome == {"none", "success", "failed", "error", "unanswered"}

SubmissionInit ==
    /\ pc = [c \in Call |-> "idle"]
    /\ tx = [c \in Call |-> NoTx]
    /\ fate = [c \in Call |-> "none"]
    /\ out = [c \in Call |-> "none"]

\* The arguments encode and the simulation succeeds: t is what will be sent.
Prepare(c, t) ==
    /\ pc[c] = "idle" /\ t # NoTx
    /\ pc' = [pc EXCEPT ![c] = "send"]
    /\ tx' = [tx EXCEPT ![c] = t]
    /\ UNCHANGED <<fate, out>>

End(c, outcome) ==
    /\ pc' = [pc EXCEPT ![c] = "end"]
    /\ out' = [out EXCEPT ![c] = outcome]
    /\ UNCHANGED tx

\* An argument does not encode, a read fails, or the simulation does.
Refuse(c) == pc[c] = "idle" /\ End(c, "error") /\ UNCHANGED fate

Send(c) ==
    /\ pc[c] = "send"
    /\ pc' = [pc EXCEPT ![c] = "poll"]
    /\ fate' = [fate EXCEPT ![c] = "open"]
    /\ UNCHANGED <<tx, out>>

SendRefused(c) == pc[c] = "send" /\ End(c, "error") /\ UNCHANGED fate

\* No answer: it was sent, or it was not.
SendUnanswered(c) ==
    /\ pc[c] = "send"
    /\ \E f \in {"none", "open"} : fate' = [fate EXCEPT ![c] = f]
    /\ End(c, "unanswered")

\* One transaction, sent by the calls S, is settled.
Conclude(S, f) ==
    /\ S # {} /\ \A c \in S : fate[c] = "open"
    /\ \A c, d \in S : tx[c] = tx[d]
    /\ fate' = [c \in Call |-> IF c \in S THEN f ELSE fate[c]]
    /\ UNCHANGED <<pc, tx, out>>

\* Bug: a transaction that is not settled yet counts as one that succeeded.
SucceedUnsettled(c) ==
    /\ pc[c] = "poll" /\ fate[c] # "void"
    /\ End(c, "success") /\ UNCHANGED fate

Succeed(c) ==
    /\ pc[c] = "poll" /\ fate[c] = "done"
    /\ End(c, "success") /\ UNCHANGED fate

Fail(c) ==
    /\ pc[c] = "poll" /\ fate[c] = "void"
    /\ End(c, "failed") /\ UNCHANGED fate

\* The poll ends, or the answer does not decode.
GiveUp(c) == pc[c] = "poll" /\ End(c, "unanswered") /\ UNCHANGED fate

SubmissionNext ==
    \/ \E c \in Call :
          \/ \E t \in {tx'[c]} : Prepare(c, t)
          \/ Refuse(c)
          \/ Send(c) \/ SendRefused(c) \/ SendUnanswered(c)
          \/ Succeed(c) \/ Fail(c) \/ GiveUp(c)
    \/ \E S \in SUBSET Call, f \in {"done", "void"} : Conclude(S, f)

SubmissionSpec == SubmissionInit /\ [][SubmissionNext]_submission

=============================================================================
