---------------------------- MODULE CustodyProofs ----------------------------
(***************************************************************************)
(* Theorems about Custody, for every set of calls, channels, keys and      *)
(* signatures and every largest amount.                                    *)
(*                                                                         *)
(* The properties of Custody are not inductive: that an acknowledged       *)
(* commitment is in the table follows from what a call has done before it  *)
(* answers.  CallInv records that, phase by phase, and IInv, its           *)
(* conjunction with the properties, is preserved by every step.            *)
(***************************************************************************)
EXTENDS Custody, TLAPS

\* Phases in which the INSERT of a call is, or has been, in the database.
Sent == {"trigger", "index", "commit", "reply", "readback"}

\* What is known of a call by the phase it is in.
CallInv ==
    \A p \in Proc :
        /\ waiting[p] => pc[p] # "idle"
        /\ pc[p] # "idle" => sc[p] \in Submission /\ WellFormed(sc[p])
        /\ pc[p] \in Sent =>
              /\ sc[p].amount \in Amount
              /\ verdict[p] <=> Verifies(sc[p])
        /\ pc[p] = "reply" => RowOf(sc[p], verdict[p]) \in rows
        /\ pc[p] = "readback" => \E r \in rows : SameKey(r, sc[p])
        /\ known[p] \subseteq rows

IInv ==
    /\ TypeOK
    /\ CallInv
    /\ OneRowPerKey
    /\ VerdictIsTheRows
    /\ AckedAreDurable
    /\ NoKnownRegression
    /\ NothingAfterRejection

-----------------------------------------------------------------------------
\* A row built from a sent, well-formed call is a row of the table's type, and
\* its verdict is its own.
LEMMA SentRow ==
    ASSUME NEW c \in Submission, WellFormed(c), c.amount \in Amount,
           NEW v \in BOOLEAN, v <=> Verifies(c)
    PROVE  /\ RowOf(c, v) \in Row
           /\ Commitment(RowOf(c, v)) = c
           /\ RowOf(c, v).valid <=> Verifies(Commitment(RowOf(c, v)))
           /\ RowOf(c, v).channel = c.channel
           /\ RowOf(c, v).amount = c.amount
<1>1. RowOf(c, v) \in Row
  BY DEF RowOf, Row, Submission, WellFormed
<1>2. Commitment(RowOf(c, v)) = c
  BY DEF RowOf, Commitment, Submission
<1>3. RowOf(c, v).valid = v /\ RowOf(c, v).channel = c.channel
                            /\ RowOf(c, v).amount = c.amount
  BY DEF RowOf
<1> QED
  BY <1>1, <1>2, <1>3

\* Every call starts idle and every set starts empty.
LEMMA InitIInv == Init => IInv
BY DEF Init, IInv, TypeOK, CallInv, OneRowPerKey, VerdictIsTheRows,
       AckedAreDurable, NoKnownRegression, NothingAfterRejection,
       PC, Answer, Rejection, Sent

\* A call that ends without a new row and without an acknowledgement disturbs
\* nothing.
LEMMA FinishKeepsIInv ==
    ASSUME IInv, NEW p \in Proc, NEW a \in Answer, Finish(p, a),
           UNCHANGED <<rows, acked>>
    PROVE  IInv'
<1> USE DEF IInv, Finish
<1>1. TypeOK'
  BY DEF TypeOK, PC, Answer
<1>2. CallInv'
  BY DEF CallInv, TypeOK, Sent, SameKey, WellFormed, Verifies, RowOf
<1>3. OneRowPerKey'
  BY DEF OneRowPerKey, SameKey, TypeOK
<1>4. VerdictIsTheRows' /\ AckedAreDurable'
  BY DEF VerdictIsTheRows, AckedAreDurable, Verifies, Commitment, SameKey
<1>5. NoKnownRegression'
  BY DEF NoKnownRegression, TypeOK
<1>6. NothingAfterRejection'
  BY DEF NothingAfterRejection, TypeOK
<1> QED
  BY <1>1, <1>2, <1>3, <1>4, <1>5, <1>6

\* A call that only moves to its next phase, with the verdict it already has,
\* keeps the invariant when what that phase says of it holds.
LEMMA GotoKeepsIInv ==
    ASSUME IInv, NEW p \in Proc, NEW phase \in Sent, Goto(p, phase),
           pc[p] \in Sent, UNCHANGED <<rows, verdict, acked>>,
           phase \in {"index", "commit", "reply"} =>
              \A r \in known[p] : r.channel = sc[p].channel => r.amount <= sc[p].amount,
           phase = "commit" =>
              /\ \A r \in rows : ~SameKey(r, sc[p])
              /\ KeyFree(p),
           phase = "readback" => \E r \in rows : SameKey(r, sc[p]),
           phase # "reply"
    PROVE  IInv'
<1> USE DEF IInv, Goto
<1>1. TypeOK'
  BY DEF TypeOK, PC, Sent
<1>2. CallInv'
  BY DEF CallInv, TypeOK, Sent, SameKey, WellFormed, Verifies, RowOf
<1>3. OneRowPerKey'
  BY DEF OneRowPerKey, SameKey, TypeOK, KeyFree
<1>4. VerdictIsTheRows' /\ AckedAreDurable'
  BY DEF VerdictIsTheRows, AckedAreDurable, Verifies, Commitment, SameKey
<1>5. NoKnownRegression'
  BY DEF NoKnownRegression, TypeOK
<1>6. NothingAfterRejection'
  BY DEF NothingAfterRejection, TypeOK, Sent
<1> QED
  BY <1>1, <1>2, <1>3, <1>4, <1>5, <1>6

\* A refused argument only changes the answer of an idle call.
LEMMA RejectArgumentsKeepsIInv ==
    ASSUME IInv, NEW p \in Proc, NEW c \in Submission, RejectArguments(p, c)
    PROVE  IInv'
<1> USE DEF IInv, RejectArguments
<1>1. TypeOK'
  BY DEF TypeOK, Answer, Rejection
<1>2. CallInv'
  BY DEF CallInv, TypeOK, Sent
<1>3. OneRowPerKey' /\ VerdictIsTheRows' /\ AckedAreDurable'
  BY DEF OneRowPerKey, VerdictIsTheRows, AckedAreDurable
<1>4. NoKnownRegression' /\ NothingAfterRejection'
  BY DEF NoKnownRegression, NothingAfterRejection, TypeOK
<1> QED
  BY <1>1, <1>2, <1>3, <1>4

\* A call that begins knows the rows of this moment.
LEMMA BeginSubmitKeepsIInv ==
    ASSUME IInv, NEW p \in Proc, NEW c \in Submission, BeginSubmit(p, c)
    PROVE  IInv'
<1> USE DEF IInv, BeginSubmit
<1>1. TypeOK'
  BY DEF TypeOK, PC, Answer
<1>2. CallInv'
  BY DEF CallInv, TypeOK, Sent
<1>3. OneRowPerKey'
  BY DEF OneRowPerKey, TypeOK
<1>4. VerdictIsTheRows' /\ AckedAreDurable'
  BY DEF VerdictIsTheRows, AckedAreDurable
<1>5. NoKnownRegression'
  BY DEF NoKnownRegression, TypeOK
<1>6. NothingAfterRejection'
  BY DEF NothingAfterRejection, TypeOK, Rejection
<1> QED
  BY <1>1, <1>2, <1>3, <1>4, <1>5, <1>6

\* The amount prepare_commitment accepted is one the table can hold, and the
\* verdict is that of the call's own commitment.
LEMMA VerifyCompletesKeepsIInv ==
    ASSUME IInv, NEW p \in Proc, VerifyCompletes(p)
    PROVE  IInv'
<1> USE DEF IInv, VerifyCompletes, Goto
<1>1. sc[p] \in Submission /\ WellFormed(sc[p])
  BY DEF CallInv
<1>2. sc[p].amount \in Amount
  BY <1>1, ConstantsAssumption DEF Submission, WellFormed, Amount
<1>3. Verifies(sc[p]) \in BOOLEAN
  BY DEF Verifies
<1>4. TypeOK'
  BY <1>3 DEF TypeOK, PC
<1>5. CallInv'
  BY <1>1, <1>2, <1>3 DEF CallInv, TypeOK, Sent
<1>6. OneRowPerKey'
  BY DEF OneRowPerKey, TypeOK
<1>7. VerdictIsTheRows' /\ AckedAreDurable'
  BY DEF VerdictIsTheRows, AckedAreDurable
<1>8. NoKnownRegression' /\ NothingAfterRejection'
  BY DEF NoKnownRegression, NothingAfterRejection, TypeOK
<1> QED
  BY <1>4, <1>5, <1>6, <1>7, <1>8

\* What the trigger saw includes what the call knew when it began.
LEMMA TriggerPassesKeepsIInv ==
    ASSUME IInv, NEW p \in Proc, TriggerPasses(p)
    PROVE  IInv'
<1>1. \A r \in known[p] : r.channel = sc[p].channel => r.amount <= sc[p].amount
  <2> SUFFICES ASSUME NEW r \in known[p], r.channel = sc[p].channel
               PROVE  r.amount <= sc[p].amount
    OBVIOUS
  <2>1. r \in rows /\ r.amount \in Int
    BY ConstantsAssumption DEF IInv, CallInv, TypeOK, Row, Amount
  <2>2. sc[p].amount \in Int
    BY ConstantsAssumption DEF IInv, CallInv, TriggerPasses, Sent, Amount
  <2> QED
    BY <2>1, <2>2 DEF TriggerPasses, IsRegression
<1> QED
  BY <1>1, GotoKeepsIInv DEF TriggerPasses, Sent

\* The two outcomes of the index probe: each is what the next phase needs.
LEMMA ProbeIndexKeepsIInv ==
    ASSUME IInv, NEW p \in Proc, ProbeIndex(p)
    PROVE  IInv'
<1>1. \A r \in known[p] : pc[p] = "index" =>
        (r.channel = sc[p].channel => r.amount <= sc[p].amount)
  BY DEF IInv, NoKnownRegression
<1>2. CASE ConflictFound(p) /\ waiting[p]
  BY <1>2, GotoKeepsIInv DEF ConflictFound, Sent
<1>3. CASE ConflictFound(p) /\ ~waiting[p]
  BY <1>3, FinishKeepsIInv DEF ConflictFound, Answer
<1>4. CASE WriteTuple(p)
  BY <1>1, <1>4, GotoKeepsIInv DEF WriteTuple, Sent
<1> QED
  BY <1>2, <1>3, <1>4 DEF ProbeIndex

\* A commit makes visible one row, with a key no row and no other open
\* transaction has, and with the verdict of its own signature.
LEMMA CommitKeepsIInv ==
    ASSUME IInv, NEW p \in Proc, Commit(p)
    PROVE  IInv'
<1> DEFINE new == RowOf(sc[p], verdict[p])
<1>1. /\ sc[p] \in Submission /\ WellFormed(sc[p]) /\ sc[p].amount \in Amount
      /\ verdict[p] \in BOOLEAN /\ (verdict[p] <=> Verifies(sc[p]))
  BY DEF IInv, CallInv, TypeOK, Commit, Sent
<1>2. /\ new \in Row
      /\ new.valid <=> Verifies(Commitment(new))
      /\ new.channel = sc[p].channel /\ new.amount = sc[p].amount
  BY <1>1, SentRow
<1>3. \A r \in rows : ~SameKey(r, sc[p])
  BY DEF IInv, OneRowPerKey, Commit
<1>4. rows' = rows \cup {new} /\ acked' = acked
  BY DEF Commit
<1>5. /\ pc' = [pc EXCEPT ![p] = IF waiting[p] THEN "reply" ELSE "idle"]
      /\ waiting' = waiting
      /\ sc' = [sc EXCEPT ![p] = IF waiting[p] THEN @ ELSE NoCommitment]
      /\ verdict' = [verdict EXCEPT ![p] = IF waiting[p] THEN @ ELSE FALSE]
      /\ known' = [known EXCEPT ![p] = IF waiting[p] THEN @ ELSE {}]
      /\ out' = out
  <2>1. CASE waiting[p]
    BY <2>1 DEF Commit, Goto, IInv, TypeOK
  <2>2. CASE ~waiting[p]
    <3>1. Finish(p, "failed")
      BY <2>2 DEF Commit
    <3>2. waiting' = waiting
      <4>1. waiting[p] = FALSE
        BY <2>2 DEF IInv, TypeOK
      <4> QED
        BY <3>1, <4>1 DEF Finish, IInv, TypeOK
    <3>3. out' = out
      BY <2>2, <3>1 DEF Finish, IInv, TypeOK
    <3> QED
      BY <2>2, <3>1, <3>2, <3>3 DEF Finish
  <2> QED
    BY <2>1, <2>2
<1> HIDE DEF new
<1>6. TypeOK'
  BY <1>2, <1>4, <1>5 DEF IInv, TypeOK, PC
<1>7. CallInv'
  <2>1. waiting[p] => RowOf(sc'[p], verdict'[p]) = new
    BY <1>5 DEF new, IInv, TypeOK
  <2> QED
    BY <2>1, <1>4, <1>5 DEF IInv, CallInv, TypeOK, Sent, SameKey, Commit
<1>8. OneRowPerKey'
  <2>1. \A r, s \in rows' : SameKey(r, s) => r = s
    BY <1>2, <1>3, <1>4 DEF IInv, OneRowPerKey, SameKey
  <2>2. ASSUME NEW q \in Proc, pc'[q] = "commit"
        PROVE  /\ q # p /\ pc[q] = "commit" /\ sc'[q] = sc[q]
               /\ ~SameKey(new, sc[q])
    <3>1. q # p /\ pc[q] = "commit" /\ sc'[q] = sc[q]
      BY <1>5, <2>2 DEF IInv, TypeOK
    <3>2. ~SameKey(sc[p], sc[q])
      BY <3>1 DEF IInv, OneRowPerKey, Commit, SameKey
    <3> QED
      BY <3>1, <3>2, <1>2 DEF SameKey
  <2> QED
    BY <2>1, <2>2, <1>4 DEF IInv, OneRowPerKey
<1>9. VerdictIsTheRows'
  BY <1>2, <1>4 DEF IInv, VerdictIsTheRows, Verifies
<1>10. AckedAreDurable'
  BY <1>4 DEF IInv, AckedAreDurable
<1>11. NoKnownRegression'
  BY <1>5 DEF IInv, NoKnownRegression, TypeOK, Commit
<1>12. NothingAfterRejection'
  BY <1>5 DEF IInv, NothingAfterRejection, TypeOK, Commit
<1> QED
  BY <1>6, <1>7, <1>8, <1>9, <1>10, <1>11, <1>12 DEF IInv

\* The answer of a fresh commitment is the row its transaction committed.
LEMMA ReplyKeepsIInv ==
    ASSUME IInv, NEW p \in Proc, Reply(p)
    PROVE  IInv'
<1> DEFINE new == RowOf(sc[p], verdict[p])
           rec == [row |-> new, already |-> FALSE]
<1>1. new \in rows
  BY DEF IInv, CallInv, Reply
<1>2. rec \in Record
  BY <1>1 DEF Record, IInv, TypeOK
<1>3. acked' = acked \cup {rec} /\ rows' = rows /\ Finish(p, "recorded")
  BY DEF Reply
<1> HIDE DEF new
<1>4. AckedAreDurable'
  BY <1>1, <1>3 DEF IInv, AckedAreDurable, SameKey
<1>5. TypeOK'
  BY <1>2, <1>3 DEF IInv, TypeOK, Finish, PC, Answer
<1> HIDE DEF rec
<1>6. CallInv'
  BY <1>3 DEF IInv, CallInv, TypeOK, Finish, Sent, SameKey, WellFormed, Verifies, RowOf
<1>7. OneRowPerKey' /\ VerdictIsTheRows'
  BY <1>3 DEF IInv, OneRowPerKey, VerdictIsTheRows, SameKey, TypeOK, Finish
<1>8. NoKnownRegression' /\ NothingAfterRejection'
  BY <1>3 DEF IInv, NoKnownRegression, NothingAfterRejection, TypeOK, Finish
<1> QED
  BY <1>4, <1>5, <1>6, <1>7, <1>8 DEF IInv

\* The answer of a retry carries the key and the verdict of a stored row.
LEMMA ReadBackKeepsIInv ==
    ASSUME IInv, NEW p \in Proc, ReadBack(p)
    PROVE  IInv'
<1>1. PICK r \in rows : /\ SameKey(r, sc[p])
                        /\ acked' = acked \cup {[row |-> RowOf(sc[p], r.valid),
                                                 already |-> TRUE]}
  BY DEF ReadBack
<1> DEFINE told == RowOf(sc[p], r.valid)
           rec == [row |-> told, already |-> TRUE]
<1>2. rows' = rows /\ Finish(p, "already")
  BY DEF ReadBack
<1>3. /\ sc[p] \in Submission /\ WellFormed(sc[p]) /\ sc[p].amount \in Amount
      /\ r.valid \in BOOLEAN
  BY DEF IInv, CallInv, TypeOK, ReadBack, Sent, Row
<1>4. told \in Row /\ told.valid = r.valid /\ SameKey(r, told)
  BY <1>1, <1>3 DEF RowOf, Row, SameKey, Submission, WellFormed
<1>5. rec \in Record
  BY <1>4 DEF Record
<1> HIDE DEF told
<1>6. AckedAreDurable'
  BY <1>1, <1>2, <1>4 DEF IInv, AckedAreDurable, told
<1>7. TypeOK'
  BY <1>1, <1>2, <1>5 DEF IInv, TypeOK, Finish, PC, Answer, told
<1>8. CallInv'
  BY <1>2 DEF IInv, CallInv, TypeOK, Finish, Sent, SameKey, WellFormed, Verifies, RowOf
<1>9. OneRowPerKey' /\ VerdictIsTheRows'
  BY <1>2 DEF IInv, OneRowPerKey, VerdictIsTheRows, SameKey, TypeOK, Finish
<1>10. NoKnownRegression' /\ NothingAfterRejection'
  BY <1>2 DEF IInv, NoKnownRegression, NothingAfterRejection, TypeOK, Finish
<1> QED
  BY <1>6, <1>7, <1>8, <1>9, <1>10 DEF IInv

\* A caller that gives up leaves its statement as it is.
LEMMA AbandonKeepsIInv ==
    ASSUME IInv, NEW p \in Proc, Abandon(p)
    PROVE  IInv'
<1> USE DEF IInv, Abandon
<1>1. TypeOK'
  BY DEF TypeOK, Answer
<1>2. CallInv'
  BY DEF CallInv, TypeOK, Sent, SameKey
<1>3. OneRowPerKey' /\ VerdictIsTheRows' /\ AckedAreDurable'
  BY DEF OneRowPerKey, VerdictIsTheRows, AckedAreDurable
<1>4. NoKnownRegression' /\ NothingAfterRejection'
  BY DEF NoKnownRegression, NothingAfterRejection, TypeOK, Rejection
<1> QED
  BY <1>1, <1>2, <1>3, <1>4

\* A crash of the service ends the calls outside the database and nothing else.
LEMMA ServiceCrashKeepsIInv ==
    ASSUME IInv, ServiceCrash
    PROVE  IInv'
<1> USE DEF IInv, ServiceCrash
<1>1. TypeOK'
  BY DEF TypeOK, PC, Answer
<1>2. CallInv'
  BY DEF CallInv, TypeOK, Sent, PC, SameKey, WellFormed, Verifies, RowOf
<1>3. OneRowPerKey'
  BY DEF OneRowPerKey, TypeOK, SameKey
<1>4. VerdictIsTheRows' /\ AckedAreDurable'
  BY DEF VerdictIsTheRows, AckedAreDurable
<1>5. NoKnownRegression' /\ NothingAfterRejection'
  BY DEF NoKnownRegression, NothingAfterRejection, TypeOK, Rejection
<1> QED
  BY <1>1, <1>2, <1>3, <1>4, <1>5

\* A step that changes nothing.
LEMMA StutterKeepsIInv ==
    ASSUME IInv, UNCHANGED vars
    PROVE  IInv'
BY DEF IInv, vars, TypeOK, CallInv, OneRowPerKey, VerdictIsTheRows, SameKey,
       AckedAreDurable, NoKnownRegression, NothingAfterRejection

\* Every step of every call preserves the inductive invariant.
LEMMA StepKeepsIInv == IInv /\ [Next]_vars => IInv'
<1> SUFFICES ASSUME IInv, [Next]_vars
             PROVE  IInv'
  OBVIOUS
<1>1. ASSUME NEW p \in Proc, Submit(p)
      PROVE  IInv'
  BY <1>1, RejectArgumentsKeepsIInv, BeginSubmitKeepsIInv, ConstantsAssumption DEF Submit
<1>2. ASSUME NEW p \in Proc, Advance(p)
      PROVE  IInv'
  <2>1. CASE VerifyCompletes(p)
    BY <2>1, VerifyCompletesKeepsIInv
  <2>2. CASE VerifyFails(p)
    BY <2>2, FinishKeepsIInv DEF VerifyFails, Answer, Rejection
  <2>3. CASE TriggerPasses(p)
    BY <2>3, TriggerPassesKeepsIInv
  <2>4. CASE TriggerRaises(p)
    BY <2>4, FinishKeepsIInv DEF TriggerRaises, Answer, Rejection
  <2>5. CASE Commit(p)
    BY <2>5, CommitKeepsIInv
  <2>6. CASE Reply(p)
    BY <2>6, ReplyKeepsIInv
  <2>7. CASE ReadBack(p)
    BY <2>7, ReadBackKeepsIInv
  <2> QED
    BY <1>2, <2>1, <2>2, <2>3, <2>4, <2>5, <2>6, <2>7 DEF Advance
<1>3. ASSUME NEW p \in Proc, ProbeIndex(p)
      PROVE  IInv'
  BY <1>3, ProbeIndexKeepsIInv
<1>4. ASSUME NEW p \in Proc, Fail(p)
      PROVE  IInv'
  <2>1. CASE StatementFails(p)
    BY <2>1, FinishKeepsIInv DEF StatementFails, Answer
  <2>2. CASE Abandon(p)
    BY <2>2, AbandonKeepsIInv
  <2>3. CASE ReplyLost(p)
    BY <2>3, FinishKeepsIInv DEF ReplyLost, Answer
  <2> QED
    BY <1>4, <2>1, <2>2, <2>3 DEF Fail
<1>5. CASE ServiceCrash
  BY <1>5, ServiceCrashKeepsIInv
<1>6. CASE UNCHANGED vars
  BY <1>6, StutterKeepsIInv
<1> QED
  BY <1>1, <1>2, <1>3, <1>4, <1>5, <1>6 DEF Next

\* The inductive invariant holds in every reachable state.
THEOREM Invariance == Spec => []IInv
<1> QED
  BY InitIInv, StepKeepsIInv, PTL DEF Spec

-----------------------------------------------------------------------------
\* Every variable stays in its range.
THEOREM TypeCorrect == Spec => []TypeOK
<1>1. IInv => TypeOK
  BY DEF IInv
<1> QED
  BY <1>1, Invariance, PTL

\* No interleaving of attempts, retries and failures puts two rows for one
\* channel and cumulative amount into the table, open transactions included.
THEOREM NoDuplicateRow == Spec => []OneRowPerKey
<1>1. IInv => OneRowPerKey
  BY DEF IInv
<1> QED
  BY <1>1, Invariance, PTL

\* The stored verdict is always that of the stored signature and key.
THEOREM VerdictFaithful == Spec => []VerdictIsTheRows
<1>1. IInv => VerdictIsTheRows
  BY DEF IInv
<1> QED
  BY <1>1, Invariance, PTL

\* Whatever was acknowledged is in the table, with the acknowledged verdict.
THEOREM AcknowledgedIsDurable == Spec => []AckedAreDurable
<1>1. IInv => AckedAreDurable
  BY DEF IInv
<1> QED
  BY <1>1, Invariance, PTL

\* No commitment is stored below a row that was committed before its Submit.
THEOREM KnownRowsAreRespected == Spec => []NoKnownRegression
<1>1. IInv => NoKnownRegression
  BY DEF IInv
<1> QED
  BY <1>1, Invariance, PTL

\* A rejected call has no statement left that could write its row.
THEOREM RejectionIsFinal == Spec => []NothingAfterRejection
<1>1. IInv => NothingAfterRejection
  BY DEF IInv
<1> QED
  BY <1>1, Invariance, PTL

-----------------------------------------------------------------------------
\* Only a commit touches the table, only an answer the acknowledgements.
LEMMA WhoWrites ==
    ASSUME [Next]_vars
    PROVE  \/ rows' = rows /\ acked' = acked
           \/ \E p \in Proc : Commit(p) /\ acked' = acked
           \/ \E p \in Proc : (Reply(p) \/ ReadBack(p)) /\ rows' = rows
<1>1. ASSUME NEW p \in Proc, Submit(p) \/ ProbeIndex(p) \/ Fail(p)
      PROVE  rows' = rows /\ acked' = acked
  BY <1>1 DEF Submit, RejectArguments, BeginSubmit, ProbeIndex, ConflictFound,
              WriteTuple, Fail, StatementFails, Abandon, ReplyLost
<1>2. ASSUME NEW p \in Proc, Advance(p)
      PROVE  \/ rows' = rows /\ acked' = acked
             \/ Commit(p) /\ acked' = acked
             \/ (Reply(p) \/ ReadBack(p)) /\ rows' = rows
  BY <1>2 DEF Advance, VerifyCompletes, VerifyFails, TriggerPasses,
              TriggerRaises, Commit, Reply, ReadBack
<1>3. ServiceCrash \/ UNCHANGED vars => rows' = rows /\ acked' = acked
  BY DEF ServiceCrash, vars
<1> QED
  BY <1>1, <1>2, <1>3 DEF Next

\* A row stands for an entry, and the refinement mapping is its image.
LEMMA Mapping ==
    /\ \A r \in Row : EntryOf(r) \in Ledger!Entry
    /\ \A r : EntryOf(r).channel = r.channel /\ EntryOf(r).amount = r.amount
BY DEF EntryOf, Row, Ledger!Entry

\* A commit is a Store of the entry of its row.  When the row's amount is above
\* every other of its channel, it is a StoreAbove.
LEMMA CommitStores ==
    ASSUME IInv, NEW p \in Proc, Commit(p), acked' = acked
    PROVE  \E e \in Ledger!Entry :
              /\ Ledger!Store(e)
              /\ (\A r \in rows : r.channel = sc[p].channel =>
                                     r.amount <= sc[p].amount)
                    => Ledger!StoreAbove(e)
<1> DEFINE new == RowOf(sc[p], verdict[p])
<1>1. /\ sc[p] \in Submission /\ WellFormed(sc[p]) /\ sc[p].amount \in Amount
      /\ verdict[p] \in BOOLEAN /\ (verdict[p] <=> Verifies(sc[p]))
  BY DEF IInv, CallInv, TypeOK, Commit, Sent
<1>2. /\ new \in Row
      /\ new.channel = sc[p].channel /\ new.amount = sc[p].amount
  BY <1>1, SentRow
<1>3. \A r \in rows : ~SameKey(r, new)
  BY <1>2 DEF IInv, OneRowPerKey, Commit, SameKey
<1>4. rows' = rows \cup {new}
  BY DEF Commit
<1>5. \A r \in rows : r.amount \in Int
  BY ConstantsAssumption DEF IInv, TypeOK, Row, Amount
<1>6. new.amount \in Int
  BY <1>1, <1>2, ConstantsAssumption DEF Amount
<1> HIDE DEF new
<1> DEFINE e == EntryOf(new)
<1>7. e \in Ledger!Entry
  BY <1>2, Mapping
<1>8. Ledger!Store(e)
  <2>1. \A r \in rows : <<r.channel, r.amount>> # <<new.channel, new.amount>>
    BY <1>3 DEF SameKey
  <2> QED
    BY <2>1, <1>4, Mapping DEF Ledger!Store, StoredEntries, ToldEntries
<1>9. ASSUME \A r \in rows : r.channel = sc[p].channel => r.amount <= sc[p].amount
      PROVE  Ledger!StoreAbove(e)
  <2>1. \A r \in rows : r.channel = new.channel => r.amount < new.amount
    BY <1>9, <1>2, <1>3, <1>5, <1>6 DEF SameKey
  <2> QED
    BY <2>1, <1>4, Mapping DEF Ledger!StoreAbove, StoredEntries, ToldEntries
<1> QED
  BY <1>7, <1>8, <1>9

\* An answer is a Tell of the entry of a stored row.
LEMMA AnswerTells ==
    ASSUME IInv, NEW p \in Proc, Reply(p) \/ ReadBack(p), rows' = rows
    PROVE  \E e \in Ledger!Entry : Ledger!Tell(e)
<1>1. PICK r \in rows, row \in Row, b \in BOOLEAN :
        /\ acked' = acked \cup {[row |-> row, already |-> b]}
        /\ SameKey(r, row) /\ row.valid = r.valid
  <2>1. CASE Reply(p)
    BY <2>1 DEF Reply, IInv, CallInv, TypeOK, SameKey
  <2>2. CASE ReadBack(p)
    <3>1. PICK r \in rows :
             /\ SameKey(r, sc[p])
             /\ acked' = acked \cup {[row |-> RowOf(sc[p], r.valid),
                                      already |-> TRUE]}
      BY <2>2 DEF ReadBack
    <3>2. /\ sc[p] \in Submission /\ WellFormed(sc[p]) /\ sc[p].amount \in Amount
          /\ r.valid \in BOOLEAN
      BY <2>2 DEF IInv, CallInv, TypeOK, ReadBack, Sent, Row
    <3>3. /\ RowOf(sc[p], r.valid) \in Row
          /\ SameKey(r, RowOf(sc[p], r.valid))
          /\ RowOf(sc[p], r.valid).valid = r.valid
      BY <3>1, <3>2 DEF RowOf, Row, SameKey, Submission, WellFormed
    <3> QED
      BY <3>1, <3>3
  <2> QED
    BY <2>1, <2>2
<1> DEFINE e == EntryOf(r)
<1>2. e = EntryOf(row)
  BY <1>1 DEF EntryOf, SameKey
<1>3. e \in Ledger!Entry
  BY <1>2, Mapping
<1>4. Ledger!Tell(e)
  <2> DEFINE rec == [row |-> row, already |-> b]
  <2>1. rec.row = row
    OBVIOUS
  <2>2. acked' = acked \cup {rec}
    BY <1>1
  <2> HIDE DEF rec, e
  <2>3. ToldEntries' = ToldEntries \cup {EntryOf(row)}
    BY <2>1, <2>2 DEF ToldEntries
  <2>4. e \in StoredEntries
    BY DEF StoredEntries, e
  <2>5. StoredEntries' = StoredEntries
    BY DEF StoredEntries
  <2> QED
    BY <1>2, <2>3, <2>4, <2>5 DEF Ledger!Tell
<1> QED
  BY <1>3, <1>4

\* Initial states map to initial states.
LEMMA InitMaps == Init => Ledger!Init
BY DEF Init, Ledger!Init, StoredEntries, ToldEntries

\* Every step maps to a step of the abstract ledger or to a stutter.
LEMMA StepMaps ==
    IInv /\ [Next]_vars => [Ledger!Next]_<<StoredEntries, ToldEntries>>
<1> SUFFICES ASSUME IInv, [Next]_vars
             PROVE  [Ledger!Next]_<<StoredEntries, ToldEntries>>
  OBVIOUS
<1>1. CASE rows' = rows /\ acked' = acked
  BY <1>1 DEF StoredEntries, ToldEntries
<1>2. ASSUME NEW p \in Proc, Commit(p), acked' = acked
      PROVE  Ledger!Next
  BY <1>2, CommitStores DEF Ledger!Next
<1>3. ASSUME NEW p \in Proc, Reply(p) \/ ReadBack(p), rows' = rows
      PROVE  Ledger!Next
  BY <1>3, AnswerTells DEF Ledger!Next
<1> QED
  BY <1>1, <1>2, <1>3, WhoWrites

\* The commitments table with Submit implements the abstract ledger: entries
\* are stored once per key, never changed, never lost, and told only when they
\* are stored.
THEOREM LedgerImplemented == Spec => ImplementsLedger
<1> QED
  BY InitMaps, StepMaps, Invariance, PTL DEF Spec, ImplementsLedger, Ledger!Spec

-----------------------------------------------------------------------------
\* With one call at a time, nothing is committed between the trigger of a
\* statement and its own commit.
SerialInv ==
    \A p \in Proc : pc[p] \in {"index", "commit"} =>
        \A r \in rows : r.channel = sc[p].channel => r.amount <= sc[p].amount

\* SerialInv is inductive, relative to IInv, when there is only one call.
LEMMA StepKeepsSerialInv ==
    ASSUME \A p, q \in Proc : p = q, IInv, SerialInv, [Next]_vars
    PROVE  SerialInv'
<1> SUFFICES ASSUME NEW p \in Proc, pc'[p] \in {"index", "commit"},
                    NEW r \in rows', r.channel = sc'[p].channel
             PROVE  r.amount <= sc'[p].amount
  BY DEF SerialInv
<1>1. CASE TriggerPasses(p)
  <2>1. r \in rows /\ r.amount \in Int /\ sc'[p] = sc[p]
    BY <1>1, ConstantsAssumption DEF TriggerPasses, Goto, IInv, TypeOK, Row, Amount
  <2>2. sc[p].amount \in Int
    BY <1>1, ConstantsAssumption DEF TriggerPasses, IInv, CallInv, Sent, Amount
  <2> QED
    BY <1>1, <2>1, <2>2 DEF TriggerPasses, IsRegression
<1>2. ASSUME rows' = rows, sc'[p] = sc[p], pc[p] \in {"index", "commit"}
      PROVE  r.amount <= sc'[p].amount
  BY <1>2 DEF SerialInv
<1>3. CASE Advance(p)
  <2>1. ~VerifyFails(p) /\ ~TriggerRaises(p) /\ ~Reply(p) /\ ~ReadBack(p)
    BY DEF VerifyFails, TriggerRaises, Reply, ReadBack, Finish, IInv, TypeOK
  <2>2. ~VerifyCompletes(p) /\ ~Commit(p)
    BY DEF VerifyCompletes, Commit, Goto, Finish, IInv, TypeOK
  <2> QED
    BY <1>1, <1>3, <2>1, <2>2 DEF Advance
<1>4. CASE Submit(p) \/ ProbeIndex(p) \/ Fail(p) \/ ServiceCrash \/ UNCHANGED vars
  <2>1. CASE Submit(p)
    BY <2>1 DEF Submit, RejectArguments, BeginSubmit, IInv, TypeOK
  <2>2. CASE ProbeIndex(p)
    BY <1>2, <2>2 DEF ProbeIndex, ConflictFound, WriteTuple, Goto, Finish, IInv, TypeOK
  <2>3. CASE Fail(p)
    BY <1>2, <2>3 DEF Fail, StatementFails, Abandon, ReplyLost, Finish, IInv, TypeOK
  <2>4. CASE ServiceCrash
    BY <1>2, <2>4 DEF ServiceCrash, IInv, TypeOK
  <2>5. CASE UNCHANGED vars
    BY <1>2, <2>5 DEF vars
  <2> QED
    BY <1>4, <2>1, <2>2, <2>3, <2>4, <2>5
<1> QED
  BY <1>3, <1>4 DEF Next

\* 0003_commitments.sql:30-32 holds when no two calls overlap: the amounts of
\* a channel then enter the table in increasing order.
THEOREM SerialIsMonotone ==
    ASSUME \A p, q \in Proc : p = q
    PROVE  Spec => ImplementsMonotoneLedger
<1>1. Init => SerialInv
  BY DEF Init, SerialInv
<1>2. IInv /\ SerialInv /\ [Next]_vars => SerialInv'
  BY StepKeepsSerialInv
<1>3. IInv /\ SerialInv /\ [Next]_vars
        => [Ledger!MonotoneNext]_<<StoredEntries, ToldEntries>>
  <2> SUFFICES ASSUME IInv, SerialInv, [Next]_vars
               PROVE  [Ledger!MonotoneNext]_<<StoredEntries, ToldEntries>>
    OBVIOUS
  <2>1. CASE rows' = rows /\ acked' = acked
    BY <2>1 DEF StoredEntries, ToldEntries
  <2>2. ASSUME NEW p \in Proc, Commit(p), acked' = acked
        PROVE  Ledger!MonotoneNext
    <3>1. \A r \in rows : r.channel = sc[p].channel => r.amount <= sc[p].amount
      BY <2>2 DEF SerialInv, Commit
    <3> QED
      BY <2>2, <3>1, CommitStores DEF Ledger!MonotoneNext
  <2>3. ASSUME NEW p \in Proc, Reply(p) \/ ReadBack(p), rows' = rows
        PROVE  Ledger!MonotoneNext
    BY <2>3, AnswerTells DEF Ledger!MonotoneNext
  <2> QED
    BY <2>1, <2>2, <2>3, WhoWrites
<1> QED
  BY <1>1, <1>2, <1>3, InitMaps, Invariance, PTL
     DEF Spec, ImplementsMonotoneLedger, Ledger!MonotoneSpec

=============================================================================
