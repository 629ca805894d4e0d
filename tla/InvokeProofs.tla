----------------------------- MODULE InvokeProofs -----------------------------
(***************************************************************************)
(* What invokeAndSubmit preserves, for every number of calls, accounts,    *)
(* operations and entries: the inductive invariant, and from it that the   *)
(* outcomes reported are those in the ledger, that no transaction traps    *)
(* for want of an entry, and that the write path implements Submission.    *)
(***************************************************************************)
EXTENDS Invoke, FiniteSetTheorems, TLAPS

\* Where a call is, and what it has by then.
CallsInOrder ==
    \A c \in Call :
        /\ pc[c] # "idle" => ask[c] \in Ask
        /\ pc[c] \in {"idle", "fetch"} => tx[c] = NoTx /\ ~sent[c]
        /\ pc[c] \in {"simulate", "resimulate", "send", "poll"} => tx[c] \in Tx
        /\ sent[c] => tx[c] \in Tx /\ pc[c] \in {"poll", "end"}
        /\ pc[c] = "poll" => sent[c]
        /\ pc[c] # "end" => out[c] = "none"

\* A transaction is applied at most once, each with a number its account has
\* reached, and what is waiting has not been applied and was sent by a call.
LedgerInOrder ==
    /\ \A x \in applied : x.tx.seq <= accSeq[x.tx.source]
    /\ \A x, y \in applied : x.tx = y.tx => x = y
    /\ \A t \in pool : ~Settled(t) /\ \E c \in Call : sent[c] /\ tx[c] = t

\* Nothing is sent with a footprint or with entries that would make it trap.
Sound(t) == (Nonces(t) # {} => t.covered) /\ ~Shadowed(t)

SentAreSound ==
    /\ \A c \in Call : pc[c] \in {"send", "poll"} => Sound(tx[c])
    /\ \A c \in Call : pc[c] = "resimulate" => ~Shadowed(tx[c])
    /\ \A t \in pool : Sound(t)

Told ==
    \A c \in Call :
        /\ out[c] = "success" => sent[c] /\ Executed(tx[c])
        /\ out[c] = "failed" => sent[c] /\ Settled(tx[c]) /\ ~Executed(tx[c])

IInv == TypeOK /\ CallsInOrder /\ LedgerInOrder /\ SentAreSound /\ NoAvoidableTrap /\ Told

LEMMA InitIInv == Init => IInv
BY ConstantsAssumption
   DEF Init, IInv, TypeOK, CallsInOrder, LedgerInOrder, SentAreSound, NoAvoidableTrap,
       Told, PC, Answer, Settled

LEMMA NoTurns == 0 \in 0 .. PollTurns
BY ConstantsAssumption

LEMMA BuildIsTx ==
    ASSUME TypeOK, NEW c \in Call, ask[c] \in Ask
    PROVE  Build(c) \in Tx
BY ConstantsAssumption DEF TypeOK, Build, Ask, Tx

\* Merging leaves no unsigned entry beside a signed one of the same address,
\* and no signed one where none was given.
LEMMA MergedIsSound ==
    ASSUME NEW t \in Tx, NEW a \in Ask
    PROVE  LET u == Attach(t, mergeAuthEntries(Recorded(a.op), Extra(a.extra)))
           IN  /\ u \in Tx /\ u.op = t.op /\ ~Shadowed(u)
               /\ a.extra = {} => Nonces(u) = {}
<1> DEFINE R == Recorded(a.op)
           X == Extra(a.extra)
           m == mergeAuthEntries(R, X)
<1>1. \A e \in R : e \in Entry /\ e.nonce = Unsigned
  BY ConstantsAssumption DEF Recorded, Entry, Ask
<1>2. \A e \in X : e \in Entry /\ e.nonce \in a.extra /\ e.nonce # Unsigned
                   /\ e.address # SourceAccount
  BY ConstantsAssumption DEF Extra, Entry, Ask
<1>3. \A e \in m : \/ e \in X
                   \/ e \in R /\ (e.address = SourceAccount \/ \A x \in X : x.address # e.address)
  BY DEF mergeAuthEntries
<1> HIDE DEF R, X, m
<1>4. m \in SUBSET Entry
  BY <1>1, <1>2, <1>3
<1>5. \A e, f \in m : e.nonce = Unsigned /\ f.nonce # Unsigned => e.address # f.address
  BY <1>1, <1>2, <1>3
<1>6. a.extra = {} => \A e \in m : e.nonce = Unsigned
  BY <1>1, <1>2, <1>3
<1>7. Attach(t, m) \in Tx /\ Attach(t, m).op = t.op /\ Attach(t, m).auth = m
  BY <1>4 DEF Attach, Tx
<1>8. ~Shadowed(Attach(t, m)) /\ (a.extra = {} => Nonces(Attach(t, m)) = {})
  BY <1>5, <1>6, <1>7 DEF Shadowed, Nonces
<1> QED
  BY <1>7, <1>8 DEF m, R, X

LEMMA CoveringIsTx ==
    ASSUME NEW t \in Tx
    PROVE  /\ Covering(t) \in Tx /\ Covering(t).covered
           /\ Shadowed(Covering(t)) <=> Shadowed(t)
BY DEF Covering, Tx, Shadowed

\* What a call does before it sends: nothing but its own state changes.
LEMMA PrepareKeepsIInv ==
    ASSUME IInv, NEW c \in Call,
           \/ Invoke(c) \/ FetchSequence(c) \/ FailBeforeSend(c)
           \/ Simulate(c) \/ Resimulate(c)
    PROVE  IInv'
<1> USE DEF IInv
<1>1. CASE Invoke(c)
  <2>1. ask'[c] \in Ask
    BY <1>1, ConstantsAssumption DEF Invoke, TypeOK
  <2>2. TypeOK' /\ CallsInOrder'
    BY <1>1, <2>1 DEF Invoke, network, TypeOK, CallsInOrder, PC
  <2> QED
    BY <1>1, <2>2 DEF Invoke, network, LedgerInOrder, SentAreSound, NoAvoidableTrap, Told,
                      Settled, Executed, TypeOK, CallsInOrder
<1>2. CASE FetchSequence(c)
  <2>1. Build(c) \in Tx
    BY <1>2, BuildIsTx DEF FetchSequence, CallsInOrder
  <2>2. TypeOK' /\ CallsInOrder'
    BY <1>2, <2>1 DEF FetchSequence, Goto, network, TypeOK, CallsInOrder, PC
  <2> QED
    BY <1>2, <2>1, <2>2 DEF FetchSequence, Goto, network, LedgerInOrder, SentAreSound,
                      NoAvoidableTrap, Told, Settled, Executed, TypeOK, CallsInOrder
<1>3. CASE FailBeforeSend(c)
  <2>2. TypeOK' /\ CallsInOrder'
    BY <1>3, NoTurns DEF FailBeforeSend, Return, network, TypeOK, CallsInOrder, PC, Answer
  <2> QED
    BY <1>3, <2>2 DEF FailBeforeSend, Return, network, LedgerInOrder, SentAreSound,
                      NoAvoidableTrap, Told, Settled, Executed, TypeOK, CallsInOrder
<1>4. CASE Simulate(c)
  <2> DEFINE u == Attach(tx[c], mergeAuthEntries(Recorded(ask[c].op), Extra(ask[c].extra)))
  <2>1. u \in Tx /\ ~Shadowed(u) /\ (ask[c].extra = {} => Nonces(u) = {})
    BY <1>4, MergedIsSound DEF Simulate, CallsInOrder
  <2>2. tx' = [tx EXCEPT ![c] = u]
    BY <1>4 DEF Simulate
  <2> HIDE DEF u
  <2>3. TypeOK' /\ CallsInOrder'
    BY <1>4, <2>1, <2>2 DEF Simulate, Goto, network, TypeOK, CallsInOrder, PC
  <2>4. SentAreSound'
    BY <1>4, <2>1, <2>2 DEF Simulate, Goto, network, TypeOK, SentAreSound, Sound
  <2> QED
    BY <1>4, <2>3, <2>4 DEF Simulate, Goto, network, LedgerInOrder,
                      NoAvoidableTrap, Told, Settled, Executed, TypeOK, CallsInOrder
<1>5. CASE Resimulate(c)
  <2>1. /\ Covering(tx[c]) \in Tx /\ Covering(tx[c]).covered
        /\ ~Shadowed(Covering(tx[c]))
    BY <1>5, CoveringIsTx DEF Resimulate, CallsInOrder, SentAreSound
  <2>2. TypeOK' /\ CallsInOrder'
    BY <1>5, <2>1 DEF Resimulate, Goto, network, TypeOK, CallsInOrder, PC
  <2>3. SentAreSound'
    BY <1>5, <2>1 DEF Resimulate, Goto, network, TypeOK, CallsInOrder, SentAreSound, Sound
  <2> QED
    BY <1>5, <2>2, <2>3 DEF Resimulate, Goto, network, LedgerInOrder,
                      NoAvoidableTrap, Told, Settled, Executed, TypeOK, CallsInOrder
<1> QED
  BY <1>1, <1>2, <1>3, <1>4, <1>5

\* A transaction that is taken is not among those applied: its number is the
\* next one, or it is waiting already.
LEMMA TakenIsUnsettled ==
    ASSUME IInv, NEW c \in Call, tx[c] \in Tx, Taken(c)
    PROVE  ~Settled(tx[c])
<1>1. CASE tx[c] \in pool
  BY <1>1 DEF IInv, LedgerInOrder
<1>2. CASE Acceptable(tx[c])
  <2> SUFFICES ASSUME NEW x \in applied, x.tx = tx[c] PROVE FALSE
    BY DEF Settled
  <2>1. /\ x.tx.seq <= accSeq[x.tx.source] /\ x.tx.seq = accSeq[x.tx.source] + 1
        /\ x.tx.source \in Account
    BY <1>2 DEF Acceptable, IInv, LedgerInOrder, Tx
  <2> QED
    BY <2>1 DEF IInv, TypeOK
<1> QED
  BY <1>1, <1>2 DEF Taken

LEMMA SendKeepsIInv ==
    ASSUME IInv, NEW c \in Call,
           SendAccepted(c) \/ SendRejected(c) \/ SendLost(c)
    PROVE  IInv'
<1> USE DEF IInv
<1>1. CASE SendRejected(c)
  <2>2. TypeOK' /\ CallsInOrder'
    BY <1>1, NoTurns DEF SendRejected, Return, network, TypeOK, CallsInOrder, PC, Answer
  <2> QED
    BY <1>1, <2>2 DEF SendRejected, Return, network, LedgerInOrder, SentAreSound,
                      NoAvoidableTrap, Told, Settled, Executed, TypeOK, CallsInOrder
<1>2. CASE SendLost(c) /\ UNCHANGED <<pool, sent>>
  <2>2. TypeOK' /\ CallsInOrder'
    BY <1>2, NoTurns DEF SendLost, Return, network, TypeOK, CallsInOrder, PC, Answer
  <2> QED
    BY <1>2, <2>2 DEF SendLost, Return, network, LedgerInOrder, SentAreSound,
                      NoAvoidableTrap, Told, Settled, Executed, TypeOK, CallsInOrder
<1>3. CASE Taken(c) /\ (SendAccepted(c) \/ SendLost(c))
  <2>1. tx[c] \in Tx /\ Sound(tx[c]) /\ ~sent[c]
    BY <1>3 DEF SendAccepted, SendLost, CallsInOrder, SentAreSound
  <2>2. ~Settled(tx[c])
    BY <1>3, <2>1, TakenIsUnsettled
  <2>3. TypeOK' /\ CallsInOrder'
    BY <1>3, <2>1, NoTurns DEF SendAccepted, SendLost, Taken, Goto, Return, TypeOK,
                      CallsInOrder, PC, Answer
  <2>4. LedgerInOrder'
    BY <1>3, <2>1, <2>2 DEF SendAccepted, SendLost, Taken, Goto, Return, TypeOK,
                      LedgerInOrder, Settled
  <2>5. SentAreSound'
    BY <1>3, <2>1 DEF SendAccepted, SendLost, Taken, Goto, Return, TypeOK, SentAreSound, Sound
  <2>6. NoAvoidableTrap' /\ Told'
    BY <1>3, <2>1 DEF SendAccepted, SendLost, Taken, Goto, Return, TypeOK, CallsInOrder,
                      NoAvoidableTrap, Told, Settled, Executed
  <2> QED
    BY <2>3, <2>4, <2>5, <2>6
<1> QED
  BY <1>1, <1>2, <1>3 DEF SendAccepted, SendLost

LEMMA PollKeepsIInv ==
    ASSUME IInv, NEW c \in Call, PollSettled(c) \/ PollAgain(c) \/ PollGivesUp(c)
    PROVE  IInv'
<1> USE DEF IInv
<1>0. TypeOK' /\ CallsInOrder'
  <2>1. CASE PollAgain(c)
    <3>1. turns[c] + 1 \in 0 .. PollTurns
      BY <2>1, ConstantsAssumption DEF PollAgain, TypeOK
    <3> QED
      BY <2>1, <3>1 DEF PollAgain, network, TypeOK, CallsInOrder
  <2>2. CASE PollSettled(c) \/ PollGivesUp(c)
    BY <2>2, NoTurns DEF PollSettled, PollGivesUp, StatusOf, Return, network, TypeOK,
                         CallsInOrder, PC, Answer
  <2> QED
    BY <2>1, <2>2
<1>1. TypeOK' /\ CallsInOrder' /\ LedgerInOrder' /\ SentAreSound' /\ NoAvoidableTrap'
  BY <1>0 DEF PollSettled, PollAgain, PollGivesUp, Return, network, TypeOK, CallsInOrder,
         LedgerInOrder, SentAreSound, NoAvoidableTrap, Settled
<1>2. CASE PollGivesUp(c)
  BY <1>1, <1>2 DEF PollGivesUp, Return, network, TypeOK, Told, Settled, Executed
<1>3. CASE PollSettled(c)
  <2>1. sent[c]
    BY <1>3 DEF PollSettled, CallsInOrder
  <2>2. PICK x \in applied, answer \in {"success", "unanswered", "failed"} :
            /\ x.tx = tx[c] /\ Return(c, answer)
            /\ answer = "success" => x.result = "ok"
            /\ answer = "failed" => x.result # "ok"
    BY <1>3 DEF PollSettled, StatusOf
  <2>3. x = [tx |-> tx[c], result |-> x.result]
    BY <2>2 DEF TypeOK
  <2>4. answer = "success" => Executed(tx[c])
    BY <2>2, <2>3 DEF Executed
  <2>5. answer = "failed" => Settled(tx[c]) /\ ~Executed(tx[c])
    BY <2>2, <2>3 DEF Executed, Settled, LedgerInOrder
  <2>6. Told'
    BY <1>3, <2>1, <2>2, <2>4, <2>5
       DEF PollSettled, Return, network, TypeOK, Told, Settled, Executed
  <2> QED
    BY <1>1, <2>6
<1>4. CASE PollAgain(c)
  BY <1>1, <1>4 DEF PollAgain, network, Told, Settled, Executed
<1> QED
  BY <1>2, <1>3, <1>4

\* The network never lets a sound transaction trap.
LEMMA SoundNeverTraps ==
    ASSUME NEW t, Sound(t), NEW r \in ResultOf(t)
    PROVE  r \in Result /\ r # "trap"
BY DEF Sound, ResultOf, Result

LEMMA IncludeKeepsIInv ==
    ASSUME IInv, NEW t \in pool, Include(t)
    PROVE  IInv'
<1> USE DEF IInv
<1>1. t \in Tx /\ ~Settled(t) /\ Sound(t) /\ t.source \in Account /\ t.seq \in Nat
  BY DEF TypeOK, LedgerInOrder, SentAreSound, Tx
<1>2. PICK r \in Result \ {"trap"} : applied' = applied \cup {[tx |-> t, result |-> r]}
  BY <1>1, SoundNeverTraps DEF Include
<1>3. TypeOK'
  BY <1>1, <1>2 DEF Include, call, TypeOK
<1>4. CallsInOrder' /\ SentAreSound' /\ NoAvoidableTrap'
  BY <1>2 DEF Include, call, CallsInOrder, SentAreSound, NoAvoidableTrap
<1>5. LedgerInOrder'
  <2>1. \A x \in applied' : x.tx.seq <= accSeq'[x.tx.source]
    <3> SUFFICES ASSUME NEW x \in applied' PROVE x.tx.seq <= accSeq'[x.tx.source]
      OBVIOUS
    <3>1. CASE x \in applied
      <4>1. /\ x.tx.seq <= accSeq[x.tx.source] /\ x.tx.source \in Account
            /\ x.tx.seq \in Nat /\ accSeq[x.tx.source] \in Nat
        BY <3>1 DEF LedgerInOrder, TypeOK, Tx
      <4> QED
        BY <1>1, <4>1 DEF Include, TypeOK
    <3>2. CASE x.tx = t
      BY <1>1, <3>2 DEF Include, TypeOK
    <3> QED
      BY <1>2, <3>1, <3>2
  <2>2. \A x, y \in applied' : x.tx = y.tx => x = y
    BY <1>1, <1>2 DEF LedgerInOrder, Settled
  <2>3. \A u \in pool' : ~Settled(u)' /\ \E c \in Call : sent'[c] /\ tx'[c] = u
    BY <1>2 DEF Include, call, LedgerInOrder, Settled
  <2> QED
    BY <2>1, <2>2, <2>3 DEF LedgerInOrder
<1>6. Told'
  BY <1>1, <1>2 DEF Include, call, Told, Settled, Executed
<1> QED
  BY <1>3, <1>4, <1>5, <1>6

LEMMA NetworkKeepsIInv ==
    ASSUME IInv,
           \/ CloseLedger
           \/ \E t \in pool : Drop(t)
           \/ \E n \in Nonce : Authorize(n)
    PROVE  IInv'
<1> USE DEF IInv, call
<1>1. CASE CloseLedger
  BY <1>1, ConstantsAssumption
     DEF CloseLedger, TypeOK, CallsInOrder, LedgerInOrder, SentAreSound,
         NoAvoidableTrap, Told, Settled, Executed
<1>2. ASSUME NEW t \in pool, Drop(t) PROVE IInv'
  BY <1>2 DEF Drop, TypeOK, CallsInOrder, LedgerInOrder, SentAreSound,
              NoAvoidableTrap, Told, Settled, Executed
<1>3. ASSUME NEW n \in Nonce, Authorize(n) PROVE IInv'
  <2>1. PICK seen \in 1 .. ledger : expiry' = [expiry EXCEPT ![n] = seen + Validity]
    BY <1>3 DEF Authorize
  <2>2. expiry' \in [Nonce -> Nat]
    BY <2>1, ConstantsAssumption DEF TypeOK
  <2> QED
    BY <1>3, <2>2 DEF Authorize, TypeOK, CallsInOrder, LedgerInOrder, SentAreSound,
              NoAvoidableTrap, Told, Settled, Executed
<1> QED
  BY <1>1, <1>2, <1>3

LEMMA StepKeepsIInv == IInv /\ [Next]_vars => IInv'
<1> SUFFICES ASSUME IInv, [Next]_vars PROVE IInv'
  OBVIOUS
<1>1. CASE UNCHANGED vars
  BY <1>1 DEF vars, IInv, TypeOK, CallsInOrder, LedgerInOrder, SentAreSound,
              NoAvoidableTrap, Told, Settled, Executed
<1>2. CASE CloseLedger \/ \E n \in Nonce : Authorize(n)
  BY <1>2, NetworkKeepsIInv
<1>3. ASSUME NEW t \in pool, Include(t) \/ Drop(t) PROVE IInv'
  BY <1>3, IncludeKeepsIInv, NetworkKeepsIInv
<1>4. ASSUME NEW c \in Call, Invoke(c) \/ Advance(c) PROVE IInv'
  BY <1>4, PrepareKeepsIInv, SendKeepsIInv, PollKeepsIInv DEF Advance
<1> QED
  BY <1>1, <1>2, <1>3, <1>4 DEF Next

\* The inductive invariant holds in every reachable state.
THEOREM Invariance == Spec => []IInv
BY InitIInv, StepKeepsIInv, PTL DEF Spec

\* Every variable of the write path stays in its range.
THEOREM TypeCorrect == Spec => []TypeOK
BY Invariance, PTL DEF IInv

LEMMA SentIsNotWaiting ==
    ASSUME IInv, NEW c \in Call, out[c] = "failed"
    PROVE  tx[c] \notin pool
BY DEF IInv, Told, LedgerInOrder

\* What a call reports of its transaction is what the ledger says of it.
THEOREM OutcomesAreOnChain == Spec => []OutcomeIsOnChain
<1>1. IInv => OutcomeIsOnChain
  BY SentIsNotWaiting DEF IInv, Told, OutcomeIsOnChain
<1> QED
  BY <1>1, Invariance, PTL

\* No transaction traps for its footprint or for an unsigned entry.
THEOREM TrapsAreAvoided == Spec => []NoAvoidableTrap
BY Invariance, PTL DEF IInv

-----------------------------------------------------------------------------
(* Who answers for what is executed.                                       *)

Callers == {c \in Call : ask[c] # NoAsk}

\* A transaction carries what its call asked for; what the network has taken
\* was sent by a call that is not told of an error; and two executed
\* transactions do not share another party's entry.
Answered ==
    /\ IsFiniteSet(Callers)
    /\ \A c \in Call : tx[c] # NoTx => tx[c].op = ask[c].op
    /\ \A c \in Call : sent[c] => out[c] # "error"
    /\ \A x \in applied : \E c \in Call : sent[c] /\ tx[c] = x.tx
    /\ \A x, y \in applied :
          /\ x.result = "ok" /\ y.result = "ok"
          /\ Nonces(x.tx) \cap Nonces(y.tx) # {}
          => x.tx = y.tx

LEMMA InitAnswered == Init => Answered
<1> SUFFICES ASSUME Init PROVE Answered
  OBVIOUS
<1>1. Callers = {}
  BY DEF Init, Callers
<1> QED
  BY <1>1, FS_EmptySet DEF Init, Answered

\* A call that asks is one caller more; the other steps leave the set alone.
LEMMA InvokeKeepsAnswered ==
    ASSUME IInv, Answered, NEW c \in Call, Invoke(c)
    PROVE  Answered'
<1>1. Callers' \in SUBSET (Callers \cup {c})
  BY DEF Invoke, Callers, IInv, TypeOK
<1>2. IsFiniteSet(Callers \cup {c})
  BY FS_AddElement DEF Answered
<1>3. IsFiniteSet(Callers')
  BY <1>1, <1>2, FS_Subset
<1>4. \A d \in Call : tx'[d] # NoTx => tx'[d].op = ask'[d].op
  BY DEF Invoke, Answered, IInv, TypeOK, CallsInOrder
<1> QED
  BY <1>3, <1>4 DEF Invoke, network, Answered

LEMMA AdvanceKeepsAnswered ==
    ASSUME IInv, Answered, NEW c \in Call, Advance(c)
    PROVE  Answered'
<1>1. ask' = ask /\ Callers' = Callers /\ applied' = applied
  BY DEF Advance, FetchSequence, FailBeforeSend, Simulate, Resimulate, SendAccepted,
         SendRejected, SendLost, PollSettled, PollAgain, PollGivesUp, Goto, Return, network, Callers
<1>2. \A d \in Call : sent[d] => sent'[d] /\ tx'[d] = tx[d]
  BY DEF Advance, FetchSequence, FailBeforeSend, Simulate, Resimulate, SendAccepted,
         SendRejected, SendLost, PollSettled, PollAgain, PollGivesUp, Goto, Return, network, Taken,
         IInv, TypeOK, CallsInOrder
<1>3. \A d \in Call : tx'[d] # NoTx => tx'[d].op = ask[d].op
  <2>1. CASE FetchSequence(c)
    BY <2>1 DEF FetchSequence, Build, Answered, IInv, TypeOK
  <2>2. CASE FailBeforeSend(c)
    BY <2>2 DEF FailBeforeSend, Answered, IInv, TypeOK
  <2>3. CASE Resimulate(c)
    BY <2>3, ConstantsAssumption DEF Resimulate, Covering, Answered, IInv, TypeOK, CallsInOrder
  <2>4. CASE Simulate(c)
    BY <2>4, ConstantsAssumption DEF Simulate, Attach, Answered, IInv, TypeOK, CallsInOrder
  <2>5. CASE UNCHANGED tx
    BY <2>5 DEF Answered
  <2> QED
    BY <2>1, <2>2, <2>3, <2>4, <2>5
       DEF Advance, SendAccepted, SendRejected, SendLost, PollSettled, PollAgain, PollGivesUp
<1>4. \A d \in Call : sent'[d] => out'[d] # "error"
  <2>1. CASE FetchSequence(c) \/ FailBeforeSend(c) \/ Simulate(c) \/ Resimulate(c)
    BY <2>1 DEF FetchSequence, FailBeforeSend, Simulate, Resimulate, Goto, Return,
                Answered, IInv, TypeOK, CallsInOrder
  <2>2. CASE SendAccepted(c) \/ SendRejected(c) \/ SendLost(c)
    BY <2>2 DEF SendAccepted, SendRejected, SendLost, Taken, Goto, Return,
                Answered, IInv, TypeOK, CallsInOrder
  <2>3. CASE PollSettled(c) \/ PollAgain(c) \/ PollGivesUp(c)
    BY <2>3 DEF PollSettled, PollAgain, PollGivesUp, StatusOf, Return, Answered, IInv, TypeOK, CallsInOrder
  <2> QED
    BY <2>1, <2>2, <2>3 DEF Advance
<1>5. \A x \in applied : \E d \in Call : sent'[d] /\ tx'[d] = x.tx
  BY <1>2 DEF Answered
<1> QED
  BY <1>1, <1>3, <1>4, <1>5 DEF Answered

\* An entry is used by one transaction: the network refuses the second.
LEMMA IncludeKeepsAnswered ==
    ASSUME IInv, Answered, NEW t \in pool, Include(t)
    PROVE  Answered'
<1>1. t \in Tx /\ \E c \in Call : sent[c] /\ tx[c] = t
  BY DEF IInv, TypeOK, LedgerInOrder
<1>2. PICK r \in ResultOf(t) : applied' = applied \cup {[tx |-> t, result |-> r]}
  BY DEF Include
<1>3. r = "ok" => \A n \in Nonces(t) : ~AuthUsed(n)
  BY DEF ResultOf, Valid
<1>4. \A x, y \in applied' :
          /\ x.result = "ok" /\ y.result = "ok"
          /\ Nonces(x.tx) \cap Nonces(y.tx) # {}
          => x.tx = y.tx
  BY <1>2, <1>3 DEF Answered, AuthUsed
<1>5. \A x \in applied' : \E c \in Call : sent'[c] /\ tx'[c] = x.tx
  BY <1>1, <1>2 DEF Include, call, Answered
<1> QED
  BY <1>4, <1>5 DEF Include, call, Answered, Callers

LEMMA StepKeepsAnswered == IInv /\ Answered /\ [Next]_vars => Answered'
<1> SUFFICES ASSUME IInv, Answered, [Next]_vars PROVE Answered'
  OBVIOUS
<1>1. CASE \/ UNCHANGED vars \/ CloseLedger
           \/ \E n \in Nonce : Authorize(n)
           \/ \E t \in pool : Drop(t)
  <2>1. UNCHANGED call /\ UNCHANGED applied
    BY <1>1 DEF vars, call, CloseLedger, Authorize, Drop
  <2> QED
    BY <2>1 DEF call, Answered, Callers
<1>2. ASSUME NEW t \in pool, Include(t) PROVE Answered'
  BY <1>2, IncludeKeepsAnswered
<1>3. ASSUME NEW c \in Call, Invoke(c) \/ Advance(c) PROVE Answered'
  BY <1>3, InvokeKeepsAnswered, AdvanceKeepsAnswered
<1> QED
  BY <1>1, <1>2, <1>3 DEF Next

\* Each transaction executed or waiting for an operation has a claimant that
\* sent it.
LEMMA EachHasAClaimant ==
    ASSUME IInv, Answered, NEW op \in Operation,
           NEW t \in Executions(op) \cup Waiting(op)
    PROVE  \E c \in Claimants(op) : tx[c] = t
<1>1. PICK c \in Call : sent[c] /\ tx[c] = t
  BY DEF Executions, Waiting, Executed, Answered, IInv, LedgerInOrder
<1>2. tx[c] # NoTx /\ ask[c] \in Ask /\ t.op = op
  BY <1>1, ConstantsAssumption DEF Executions, Waiting, IInv, TypeOK, CallsInOrder
<1>3. ask[c] # NoAsk /\ ask[c].op = op /\ out[c] # "error"
  BY <1>1, <1>2, ConstantsAssumption DEF Answered
<1>4. out[c] # "failed"
  BY <1>1, SentIsNotWaiting DEF Executions, Waiting, IInv, Told
<1> QED
  BY <1>1, <1>3, <1>4 DEF Claimants

\* A claimant for each of them, and no claimant for two.
LEMMA NoMoreThanClaimants ==
    ASSUME IInv, Answered, NEW op \in Operation
    PROVE  Cardinality(Executions(op) \cup Waiting(op)) <= Cardinality(Claimants(op))
<1> DEFINE S == Executions(op) \cup Waiting(op)
           T == Claimants(op)
           f == [t \in S |-> CHOOSE c \in T : tx[c] = t]
<1>1. \A t \in S : f[t] \in T /\ tx[f[t]] = t
  BY EachHasAClaimant
<1>2. f \in Injection(S, T)
  BY <1>1 DEF Injection, IsInjective
<1>3. IsFiniteSet(T)
  <2>1. T \in SUBSET Callers
    BY DEF Claimants, Callers
  <2> QED
    BY <2>1, FS_Subset DEF Answered
<1> HIDE DEF S, T, f
<1>4. Cardinality(S) <= Cardinality(T)
  BY <1>2, <1>3, FS_Injection
<1> QED
  BY <1>4 DEF S, T

\* Executions, past or to come, never outnumber the calls that asked for them
\* and were not told otherwise, and another party's entry is used once.
THEOREM ExecutionsHaveOwners == Spec => []ExecutionsAreOwned
<1>1. IInv /\ Answered => ExecutionsAreOwned
  <2> SUFFICES ASSUME IInv, Answered, NEW op \in Operation
               PROVE  \A t, u \in Executions(op) :
                          Nonces(t) \cap Nonces(u) # {} => t = u
    BY NoMoreThanClaimants DEF ExecutionsAreOwned
  <2> QED
    BY DEF Executions, Executed, Answered
<1> QED
  BY <1>1, InitIInv, StepKeepsIInv, InitAnswered, StepKeepsAnswered, PTL DEF Spec

-----------------------------------------------------------------------------
(* The refinement: each step of the write path is a step of Submission.    *)

USE DEF Promise!submission

LEMMA InitMaps == Init => Promise!SubmissionInit
BY DEF Init, Promise!SubmissionInit, PhaseOf, TxOf, FateOf, Preparing

LEMMA PrepareMaps ==
    ASSUME IInv, NEW c \in Call,
           \/ Invoke(c) \/ FetchSequence(c) \/ FailBeforeSend(c)
           \/ Simulate(c) \/ Resimulate(c)
    PROVE  [Promise!SubmissionNext]_(Promise!submission)
<1> USE DEF IInv
<1>0. \A d \in Call : FateOf(d)' = FateOf(d)
  BY DEF Invoke, FetchSequence, FailBeforeSend, Simulate, Resimulate, network,
         FateOf, Executed, Settled, TypeOK, CallsInOrder
<1>1. CASE Invoke(c)
  BY <1>0, <1>1 DEF Invoke, TypeOK, CallsInOrder, PhaseOf, TxOf, Preparing
<1>6. CASE FetchSequence(c)
  BY <1>0, <1>6 DEF FetchSequence, Goto, TypeOK, PhaseOf, TxOf, Preparing
<1>2. CASE FailBeforeSend(c)
  <2>1. Promise!Refuse(c)
    BY <1>0, <1>2 DEF FailBeforeSend, Return, TypeOK, PhaseOf, TxOf, Preparing,
                      Promise!Refuse, Promise!End
  <2> QED
    BY <2>1 DEF Promise!SubmissionNext
<1>3. CASE Simulate(c) /\ ask[c].extra # {}
  BY <1>0, <1>3 DEF Simulate, Goto, TypeOK, PhaseOf, TxOf, Preparing
<1>4. CASE (Simulate(c) /\ ask[c].extra = {}) \/ Resimulate(c)
  <2>1. tx'[c] \in Tx /\ tx' = [tx EXCEPT ![c] = tx'[c]]
    <3>1. CASE Simulate(c)
      BY <3>1, MergedIsSound DEF Simulate, TypeOK, CallsInOrder
    <3>2. CASE Resimulate(c)
      BY <3>2, CoveringIsTx DEF Resimulate, TypeOK, CallsInOrder
    <3> QED
      BY <1>4, <3>1, <3>2
  <2>2. /\ pc' = [pc EXCEPT ![c] = "send"] /\ UNCHANGED out
        /\ Preparing(c)
    BY <1>4 DEF Simulate, Resimulate, Goto, Preparing
  <2>3. PICK t : t = TxOf(c)' /\ t = tx'[c] /\ t # NoTx
    BY <2>1, <2>2, ConstantsAssumption DEF TypeOK, TxOf, Preparing
  <2>4. Promise!Prepare(c, t)
    BY <1>0, <2>1, <2>2, <2>3 DEF TypeOK, PhaseOf, TxOf, Preparing, Promise!Prepare
  <2> QED
    BY <2>3, <2>4 DEF Promise!SubmissionNext
<1> QED
  BY <1>1, <1>2, <1>3, <1>4, <1>6

LEMMA SendMaps ==
    ASSUME IInv, NEW c \in Call,
           SendAccepted(c) \/ SendRejected(c) \/ SendLost(c)
    PROVE  [Promise!SubmissionNext]_(Promise!submission)
<1> USE DEF IInv
<1>0. pc[c] = "send" /\ tx[c] \in Tx /\ ~sent[c] /\ UNCHANGED tx /\ UNCHANGED applied
  BY DEF SendAccepted, SendRejected, SendLost, network, CallsInOrder
<1>1. CASE SendRejected(c)
  <2>1. Promise!SendRefused(c)
    BY <1>0, <1>1 DEF SendRejected, Return, network, TypeOK, PhaseOf, TxOf, FateOf, Executed,
                      Settled, Preparing, Promise!SendRefused, Promise!End
  <2> QED
    BY <2>1 DEF Promise!SubmissionNext
<1>2. ASSUME Taken(c)
      PROVE  [d \in Call |-> FateOf(d)]' =
                 [[d \in Call |-> FateOf(d)] EXCEPT ![c] = "open"]
  <2>1. ~Settled(tx[c]) /\ ~Executed(tx[c])
    BY <1>0, <1>2, TakenIsUnsettled DEF Settled, Executed
  <2> QED
    BY <1>0, <1>2, <2>1 DEF Taken, TypeOK, FateOf, Executed, Settled
<1>3. CASE SendAccepted(c)
  <2>1. Promise!Send(c)
    BY <1>0, <1>2, <1>3 DEF SendAccepted, Goto, TypeOK, PhaseOf, TxOf, Preparing, Promise!Send
  <2> QED
    BY <2>1 DEF Promise!SubmissionNext
<1>4. CASE SendLost(c)
  <2>1. \E f \in {"none", "open"} :
            [d \in Call |-> FateOf(d)]' = [[d \in Call |-> FateOf(d)] EXCEPT ![c] = f]
    <3>1. CASE Taken(c)
      BY <1>2, <3>1
    <3>2. CASE UNCHANGED sent
      BY <1>0, <3>2 DEF FateOf, Executed, Settled
    <3> QED
      BY <1>4, <3>1, <3>2 DEF SendLost
  <2>2. Promise!SendUnanswered(c)
    BY <1>0, <1>4, <2>1 DEF SendLost, Return, TypeOK, PhaseOf, TxOf, Preparing,
                            Promise!SendUnanswered, Promise!End
  <2> QED
    BY <2>2 DEF Promise!SubmissionNext
<1> QED
  BY <1>1, <1>3, <1>4

LEMMA PollMaps ==
    ASSUME IInv, NEW c \in Call, PollSettled(c) \/ PollAgain(c) \/ PollGivesUp(c)
    PROVE  [Promise!SubmissionNext]_(Promise!submission)
<1> USE DEF IInv
<1>0. /\ pc[c] = "poll" /\ sent[c] /\ tx[c] \in Tx
      /\ UNCHANGED <<tx, sent, applied>>
  BY DEF PollSettled, PollAgain, PollGivesUp, network, CallsInOrder
<1>1. ASSUME NEW answer, Return(c, answer) PROVE Promise!End(c, answer)
  BY <1>0, <1>1 DEF Return, TypeOK, PhaseOf, TxOf, Preparing, Promise!End
<1>2. [d \in Call |-> FateOf(d)]' = [d \in Call |-> FateOf(d)]
  BY <1>0 DEF FateOf, Executed, Settled
<1>3. ASSUME Return(c, "unanswered") PROVE Promise!SubmissionNext
  <2>1. Promise!GiveUp(c)
    BY <1>0, <1>1, <1>2, <1>3 DEF PhaseOf, Preparing, Promise!GiveUp
  <2> QED
    BY <2>1 DEF Promise!SubmissionNext
<1>4. CASE PollGivesUp(c)
  BY <1>3, <1>4 DEF PollGivesUp
<1>5. CASE PollSettled(c)
  <2>1. PICK x \in applied, answer \in {"success", "unanswered", "failed"} :
            /\ x.tx = tx[c] /\ Return(c, answer)
            /\ answer = "success" => x.result = "ok"
            /\ answer = "failed" => x.result # "ok"
    BY <1>5 DEF PollSettled, StatusOf
  <2>2. x = [tx |-> tx[c], result |-> x.result]
    BY <2>1 DEF TypeOK
  <2>3. answer = "success" => FateOf(c) = "done"
    BY <1>0, <2>1, <2>2 DEF FateOf, Executed
  <2>4. answer = "failed" => FateOf(c) = "void"
    BY <1>0, <2>1, <2>2 DEF FateOf, Executed, Settled, LedgerInOrder
  <2>5. CASE answer = "success"
    <3>1. Promise!Succeed(c)
      BY <1>0, <1>1, <1>2, <2>1, <2>3, <2>5 DEF PhaseOf, Preparing, Promise!Succeed
    <3> QED
      BY <3>1 DEF Promise!SubmissionNext
  <2>6. CASE answer = "failed"
    <3>1. Promise!Fail(c)
      BY <1>0, <1>1, <1>2, <2>1, <2>4, <2>6 DEF PhaseOf, Preparing, Promise!Fail
    <3> QED
      BY <3>1 DEF Promise!SubmissionNext
  <2> QED
    BY <1>3, <2>1, <2>5, <2>6
<1>6. CASE PollAgain(c)
  BY <1>0, <1>2, <1>6 DEF PollAgain, PhaseOf, TxOf, Preparing
<1> QED
  BY <1>4, <1>5, <1>6

LEMMA IncludeMaps ==
    ASSUME IInv, NEW t \in pool, Include(t)
    PROVE  Promise!SubmissionNext
<1> DEFINE S == {c \in Call : sent[c] /\ tx[c] = t}
<1> USE DEF IInv
<1>1. t \in Tx /\ ~Settled(t) /\ Sound(t) /\ S # {} /\ S \in SUBSET Call
  BY DEF TypeOK, LedgerInOrder, SentAreSound
<1>2. PICK r \in Result \ {"trap"} : applied' = applied \cup {[tx |-> t, result |-> r]}
  BY <1>1, SoundNeverTraps DEF Include
<1>3. PICK f \in {"done", "void"} : f = IF r = "ok" THEN "done" ELSE "void"
  OBVIOUS
<1>4. UNCHANGED <<pc, tx, sent, out>>
  BY DEF Include, call
<1>5. \A c \in S : FateOf(c) = "open" /\ FateOf(c)' = f
  BY <1>1, <1>2, <1>3, <1>4 DEF FateOf, Executed, Settled
<1>6. \A c \in Call \ S : FateOf(c)' = FateOf(c)
  BY <1>1, <1>2, <1>4 DEF FateOf, Executed, Settled
<1>7. \A c \in S : TxOf(c) = t
  BY DEF TxOf, Preparing, CallsInOrder
<1>8. Promise!Conclude(S, f)
  BY <1>1, <1>4, <1>5, <1>6, <1>7 DEF PhaseOf, TxOf, Preparing, Promise!Conclude
<1> QED
  BY <1>1, <1>8 DEF Promise!SubmissionNext

LEMMA StepMaps == IInv /\ [Next]_vars => [Promise!SubmissionNext]_(Promise!submission)
<1> SUFFICES ASSUME IInv, [Next]_vars
             PROVE  [Promise!SubmissionNext]_(Promise!submission)
  OBVIOUS
<1>1. CASE \/ UNCHANGED vars \/ CloseLedger
           \/ \E n \in Nonce : Authorize(n)
           \/ \E t \in pool : Drop(t)
  <2>1. UNCHANGED call /\ UNCHANGED applied
    BY <1>1 DEF vars, call, CloseLedger, Authorize, Drop
  <2> QED
    BY <2>1 DEF call, PhaseOf, TxOf, FateOf, Executed, Settled, Preparing
<1>2. ASSUME NEW t \in pool, Include(t)
      PROVE  [Promise!SubmissionNext]_(Promise!submission)
  BY <1>2, IncludeMaps
<1>3. ASSUME NEW c \in Call, Invoke(c) \/ Advance(c)
      PROVE  [Promise!SubmissionNext]_(Promise!submission)
  BY <1>3, PrepareMaps, SendMaps, PollMaps DEF Advance
<1> QED
  BY <1>1, <1>2, <1>3 DEF Next

\* The write path implements what the bindings rely on: one transaction for
\* each call, settled once for all that sent it, and a true answer.
THEOREM SubmissionImplemented == Spec => ImplementsSubmission
BY Invariance, InitMaps, StepMaps, PTL DEF Spec, ImplementsSubmission, Promise!SubmissionSpec

=============================================================================
