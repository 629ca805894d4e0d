----------------------------- MODULE MigrateProofs -----------------------------
(***************************************************************************)
(* That services starting together apply each migration exactly once and   *)
(* in order, for every number of services, migrations and failures.        *)
(***************************************************************************)
EXTENDS Migrate, WellFoundedInduction, TLAPS

\* A nonempty set of numbers has a least one.
LEMMA MinOfNat ==
    ASSUME NEW S \in SUBSET Nat, S # {}
    PROVE  Min(S) \in S /\ \A y \in S : Min(S) <= y
<1> DEFINE R == {p \in Nat \X Nat : p[1] < p[2]}
<1>0. IsWellFoundedOn(R, Nat)
  BY NatLessThanWellFounded DEF OpToRel
<1> HIDE DEF R
<1>1. PICK x \in S : \A y \in S : ~ (<<y, x>> \in R)
  BY <1>0, WFMin
<1>2. \A y \in S : x <= y
  <2> TAKE y \in S
  <2>1. ~ (y < x)
    BY <1>1 DEF R
  <2> QED
    BY <2>1
<1> QED
  BY <1>2 DEF Min

LEMMA KnownAreMigrations ==
    /\ Migration \subseteq Nat \ {0}
    /\ \A s \in Service : Known[s] \in Nat \ {0} /\ 1 .. Known[s] \subseteq Migration
BY ConstantsAssumption DEF Migration

\* The migration a service is at is the least it has to apply.
LEMMA CurrentIsLeast ==
    ASSUME NEW s \in Service, Pending(s) # {}
    PROVE  /\ Current(s) \in Pending(s)
           /\ \A m \in Pending(s) : Current(s) <= m
BY MinOfNat, KnownAreMigrations DEF Pending, Current

-----------------------------------------------------------------------------
Applying == {"exec", "record", "commit"}

\* What the place of a service in Migrate says of the table of versions: what it
\* has read or applied is recorded, and once its row is inserted nobody else has
\* recorded, or is about to record, the migration it is at.
ServiceInv ==
    \A s \in Service :
        /\ applied[s] \subseteq recorded
        /\ pc[s] \in {"create", "creating", "read"} => newly[s] = {}
        /\ pc[s] \in Applying => Pending(s) # {}
        /\ pc[s] = "commit" =>
              /\ Current(s) \notin recorded
              /\ \A t \in Service \ {s} : pc[t] = "commit" => Current(t) # Current(s)

IInv ==
    /\ TypeOK
    /\ ServiceInv
    /\ AppliedOnceIffRecorded
    /\ RecordedIsAPrefix
    /\ DoneIsCurrent
    /\ NewlyAppliedIsExclusive

LEMMA InitIInv == Init => IInv
<1> SUFFICES ASSUME Init PROVE IInv
  OBVIOUS
<1>1. TypeOK
  <2>1. times \in [Migration -> Nat]
    BY DEF Init
  <2>2. pc \in [Service -> PC] /\ failures \in 0 .. MaxFailures
    BY ConstantsAssumption DEF Init, PC
  <2>3. applied \in [Service -> SUBSET Migration] /\ newly \in [Service -> SUBSET Migration]
    BY DEF Init
  <2> QED
    BY <2>1, <2>2, <2>3 DEF Init, TypeOK
<1>2. ServiceInv
  BY DEF Init, ServiceInv, Applying
<1>3. AppliedOnceIffRecorded /\ RecordedIsAPrefix /\ DoneIsCurrent /\ NewlyAppliedIsExclusive
  BY DEF Init, AppliedOnceIffRecorded, RecordedIsAPrefix, DoneIsCurrent,
         NewlyAppliedIsExclusive
<1> QED
  BY <1>1, <1>2, <1>3 DEF IInv

\* A service that moves on without changing what is recorded, or what it has
\* read and applied, need only justify its new place.
LEMMA MoveKeepsIInv ==
    ASSUME IInv, NEW s \in Service, NEW phase \in PC, Goto(s, phase),
           tracking' \in BOOLEAN, failures' \in 0 .. MaxFailures,
           UNCHANGED <<times, recorded, applied, newly>>,
           phase \in {"create", "creating", "read"} => newly[s] = {},
           phase \in Applying => Pending(s) # {},
           phase = "commit" =>
               /\ Current(s) \notin recorded
               /\ \A t \in Service \ {s} : pc[t] = "commit" => Current(t) # Current(s),
           phase = "done" => 1 .. Known[s] \subseteq recorded
    PROVE  IInv'
<1>1. \A t \in Service : Pending(t)' = Pending(t) /\ Current(t)' = Current(t)
  BY DEF Pending, Current
<1>2. /\ pc' \in [Service -> PC] /\ pc'[s] = phase
      /\ \A t \in Service \ {s} : pc'[t] = pc[t]
  BY DEF IInv, TypeOK, Goto
<1>3. TypeOK'
  BY <1>2 DEF IInv, TypeOK
<1>4. ServiceInv'
  BY <1>1, <1>2 DEF IInv, ServiceInv
<1>5. (AppliedOnceIffRecorded /\ RecordedIsAPrefix /\ NewlyAppliedIsExclusive)'
  BY DEF IInv, AppliedOnceIffRecorded, RecordedIsAPrefix, NewlyAppliedIsExclusive
<1>6. DoneIsCurrent'
  BY <1>2 DEF IInv, DoneIsCurrent
<1> QED
  BY <1>3, <1>4, <1>5, <1>6 DEF IInv

\* A commit records the least migration that is pending: those before it are
\* recorded, and it was not.
LEMMA CommitKeepsIInv ==
    ASSUME IInv, NEW s \in Service, pc[s] = "commit", Committed(s),
           NEW phase \in {"next", "failed"}, Goto(s, phase),
           newly' = newly \/ newly' = [newly EXCEPT ![s] = @ \cup {Current(s)}],
           failures' \in 0 .. MaxFailures, UNCHANGED <<tracking, applied>>
    PROVE  IInv'
<1> DEFINE m == Current(s)
<1>1. /\ m \in 1 .. Known[s] /\ m \notin applied[s] \cup newly[s]
      /\ 1 .. m - 1 \subseteq recorded /\ m \notin recorded /\ m \in Migration
  <2>1. Pending(s) # {}
    BY DEF IInv, ServiceInv, Applying
  <2>2. m \in Pending(s) /\ \A k \in Pending(s) : m <= k
    BY <2>1, CurrentIsLeast
  <2>3. m \in 1 .. Known[s] /\ m \notin applied[s] \cup newly[s] /\ m \in Migration
    BY <2>2, KnownAreMigrations DEF Pending
  <2>4. \A k \in 1 .. m - 1 : k \in applied[s] \cup newly[s]
    BY <2>2, <2>3, KnownAreMigrations DEF Pending
  <2> QED
    BY <2>3, <2>4 DEF IInv, ServiceInv, NewlyAppliedIsExclusive
<1>2. /\ pc' \in [Service -> PC] /\ pc'[s] = phase
      /\ \A t \in Service \ {s} : pc'[t] = pc[t]
  BY DEF IInv, TypeOK, Goto, PC
<1>3. /\ newly' \in [Service -> SUBSET Migration]
      /\ newly[s] \subseteq newly'[s] /\ newly'[s] \subseteq newly[s] \cup {m}
      /\ \A t \in Service \ {s} : newly'[t] = newly[t]
  BY <1>1 DEF IInv, TypeOK
<1>4. \A t \in Service \ {s} : Pending(t)' = Pending(t) /\ Current(t)' = Current(t)
  BY <1>3 DEF Pending, Current
<1>5. recorded' = recorded \cup {m} /\ times' = [times EXCEPT ![m] = @ + 1]
  BY DEF Committed
<1>6. \A t \in Service \ {s} : pc[t] = "commit" => Current(t) # m
  BY DEF IInv, ServiceInv
<1> HIDE DEF m
<1>7. TypeOK'
  BY <1>1, <1>2, <1>3, <1>5 DEF IInv, TypeOK
<1>8. ServiceInv'
  BY <1>2, <1>3, <1>4, <1>5, <1>6 DEF IInv, ServiceInv, Applying
<1>9. AppliedOnceIffRecorded'
  BY <1>1, <1>5 DEF IInv, TypeOK, AppliedOnceIffRecorded
<1>10. RecordedIsAPrefix'
  <2>1. 1 .. m \subseteq recorded'
    BY <1>1, <1>5, KnownAreMigrations
  <2> QED
    BY <1>5, <2>1 DEF IInv, RecordedIsAPrefix
<1>11. DoneIsCurrent'
  BY <1>2, <1>5 DEF IInv, DoneIsCurrent
<1>12. NewlyAppliedIsExclusive'
  BY <1>1, <1>3, <1>5 DEF IInv, TypeOK, NewlyAppliedIsExclusive
<1> QED
  BY <1>7, <1>8, <1>9, <1>10, <1>11, <1>12 DEF IInv

LEMMA StartKeepsIInv ==
    ASSUME IInv, NEW s \in Service, Start(s)
    PROVE  IInv'
<1>1. /\ pc' \in [Service -> PC] /\ pc'[s] = "create"
      /\ \A t \in Service \ {s} : pc'[t] = pc[t]
      /\ applied' \in [Service -> SUBSET Migration] /\ applied'[s] = {}
      /\ newly' \in [Service -> SUBSET Migration] /\ newly'[s] = {}
      /\ \A t \in Service \ {s} : applied'[t] = applied[t] /\ newly'[t] = newly[t]
      /\ UNCHANGED <<tracking, times, recorded, failures>>
  BY DEF Start, Goto, IInv, TypeOK, PC
<1>2. \A t \in Service \ {s} : Pending(t)' = Pending(t) /\ Current(t)' = Current(t)
  BY <1>1 DEF Pending, Current
<1>3. ServiceInv'
  BY <1>1, <1>2 DEF IInv, ServiceInv, Applying
<1> QED
  BY <1>1, <1>3 DEF IInv, TypeOK, AppliedOnceIffRecorded, RecordedIsAPrefix, DoneIsCurrent,
                    NewlyAppliedIsExclusive

\* What is read is what is recorded, and nothing is newly applied yet.
LEMMA ReadKeepsIInv ==
    ASSUME IInv, NEW s \in Service, ReadApplied(s)
    PROVE  IInv'
<1>1. /\ pc' \in [Service -> PC] /\ pc'[s] = "next"
      /\ \A t \in Service \ {s} : pc'[t] = pc[t]
      /\ applied' \in [Service -> SUBSET Migration] /\ applied'[s] = recorded
      /\ \A t \in Service \ {s} : applied'[t] = applied[t]
      /\ newly[s] = {}
      /\ UNCHANGED <<tracking, times, recorded, newly, failures>>
  BY DEF ReadApplied, Goto, IInv, TypeOK, ServiceInv, PC
<1>2. \A t \in Service \ {s} : Pending(t)' = Pending(t) /\ Current(t)' = Current(t)
  BY <1>1 DEF Pending, Current
<1>3. ServiceInv'
  BY <1>1, <1>2 DEF IInv, ServiceInv, Applying
<1> QED
  BY <1>1, <1>3 DEF IInv, TypeOK, AppliedOnceIffRecorded, RecordedIsAPrefix, DoneIsCurrent,
                    NewlyAppliedIsExclusive

\* Every step of Migrate keeps the invariant.
LEMMA AdvanceKeepsIInv ==
    ASSUME IInv, NEW s \in Service, Advance(s)
    PROVE  IInv'
<1>0. /\ tracking \in BOOLEAN /\ failures \in 0 .. MaxFailures /\ pc \in [Service -> PC]
      /\ pc[s] \in {"create", "creating", "read"} => newly[s] = {}
      /\ pc[s] \in Applying => Pending(s) # {}
  BY DEF IInv, TypeOK, ServiceInv
<1>1. CASE LookForTable(s)
  <2>1. PICK phase \in {"read", "creating"} :
            /\ pc[s] = "create" /\ Goto(s, phase)
            /\ UNCHANGED <<tracking, times, recorded, applied, newly, failures>>
    BY <1>1 DEF LookForTable
  <2> QED
    BY <1>0, <2>1, MoveKeepsIInv DEF PC, Applying
<1>2. CASE CreateTable(s)
  <2>1. PICK phase \in {"failed", "read"} :
            /\ pc[s] = "creating" /\ Goto(s, phase) /\ tracking' = TRUE
            /\ UNCHANGED <<times, recorded, applied, newly, failures>>
    BY <1>2 DEF CreateTable
  <2> QED
    BY <1>0, <2>1, MoveKeepsIInv DEF PC, Applying
<1>3. CASE ReadApplied(s)
  BY <1>3, ReadKeepsIInv
<1>4. CASE NextMigration(s) /\ Pending(s) = {}
  <2>1. Goto(s, "done") /\ UNCHANGED <<tracking, times, recorded, applied, newly, failures>>
    BY <1>4 DEF NextMigration
  <2>2. 1 .. Known[s] \subseteq recorded
    BY <1>4 DEF Pending, IInv, ServiceInv, NewlyAppliedIsExclusive
  <2> QED
    BY <1>0, <2>1, <2>2, MoveKeepsIInv DEF PC, Applying
<1>5. CASE NextMigration(s) /\ Pending(s) # {}
  <2>1. Goto(s, "exec") /\ UNCHANGED <<tracking, times, recorded, applied, newly, failures>>
    BY <1>5 DEF NextMigration
  <2> QED
    BY <1>0, <1>5, <2>1, MoveKeepsIInv DEF PC, Applying
<1>6. CASE ExecSQL(s)
  <2>1. PICK phase \in {"failed", "record"} :
            /\ pc[s] = "exec" /\ Goto(s, phase)
            /\ UNCHANGED <<tracking, times, recorded, applied, newly, failures>>
    BY <1>6 DEF ExecSQL
  <2> QED
    BY <1>0, <2>1, MoveKeepsIInv DEF PC, Applying
<1>7. CASE RecordVersion(s) /\ Current(s) \in recorded
  <2>1. Goto(s, "failed") /\ UNCHANGED <<tracking, times, recorded, applied, newly, failures>>
    BY <1>7 DEF RecordVersion
  <2> QED
    BY <1>0, <2>1, MoveKeepsIInv DEF PC, Applying
<1>8. CASE RecordVersion(s) /\ Current(s) \notin recorded
  <2>1. /\ pc[s] = "record" /\ Goto(s, "commit")
        /\ UNCHANGED <<tracking, times, recorded, applied, newly, failures>>
        /\ \A t \in Service \ {s} : pc[t] = "commit" => Current(t) # Current(s)
    BY <1>8 DEF RecordVersion, InTransaction
  <2> QED
    BY <1>0, <1>8, <2>1, MoveKeepsIInv DEF PC, Applying
<1>9. CASE CommitTx(s)
  <2>1. /\ pc[s] = "commit" /\ Committed(s) /\ Goto(s, "next")
        /\ newly' = [newly EXCEPT ![s] = @ \cup {Current(s)}]
        /\ UNCHANGED <<tracking, applied, failures>>
    BY <1>9 DEF CommitTx
  <2> QED
    BY <1>0, <2>1, CommitKeepsIInv
<1> QED
  BY <1>1, <1>2, <1>3, <1>4, <1>5, <1>6, <1>7, <1>8, <1>9 DEF Advance

LEMMA FailureKeepsIInv ==
    ASSUME IInv, NEW s \in Service, Fail(s) \/ CommitReplyLost(s)
    PROVE  IInv'
<1>1. failures' \in 0 .. MaxFailures
  BY ConstantsAssumption DEF Fail, CommitReplyLost, Failure, IInv, TypeOK
<1>2. CASE Fail(s)
  <2>1. Goto(s, "failed") /\ UNCHANGED <<tracking, times, recorded, applied, newly>>
    BY <1>2 DEF Fail
  <2> QED
    BY <1>1, <2>1, MoveKeepsIInv DEF PC, Applying, IInv, TypeOK
<1>3. CASE CommitReplyLost(s)
  <2>1. /\ pc[s] = "commit" /\ Committed(s) /\ Goto(s, "failed")
        /\ UNCHANGED <<tracking, applied, newly>>
    BY <1>3 DEF CommitReplyLost
  <2> QED
    BY <1>1, <2>1, CommitKeepsIInv
<1> QED
  BY <1>2, <1>3

-----------------------------------------------------------------------------
\* The inductive invariant of Migrate (migrate.go:107-150) holds in every
\* reachable state.
THEOREM Invariance == Spec => []IInv
<1>1. IInv /\ [Next]_vars => IInv'
  <2> SUFFICES ASSUME IInv, [Next]_vars PROVE IInv'
    OBVIOUS
  <2>1. CASE UNCHANGED vars
    BY <2>1 DEF vars, IInv, TypeOK, ServiceInv, Pending, Current, AppliedOnceIffRecorded,
                RecordedIsAPrefix, DoneIsCurrent, NewlyAppliedIsExclusive
  <2>2. ASSUME NEW s \in Service, Start(s) PROVE IInv'
    BY <2>2, StartKeepsIInv
  <2>3. ASSUME NEW s \in Service, Advance(s) PROVE IInv'
    BY <2>3, AdvanceKeepsIInv
  <2>4. ASSUME NEW s \in Service, Fail(s) \/ CommitReplyLost(s) PROVE IInv'
    BY <2>4, FailureKeepsIInv
  <2> QED
    BY <2>1, <2>2, <2>3, <2>4 DEF Next
<1> QED
  BY <1>1, InitIInv, PTL DEF Spec

\* Every variable of Migrate stays in its range.
THEOREM TypeCorrect == Spec => []TypeOK
<1>1. IInv => TypeOK
  BY DEF IInv
<1> QED
  BY <1>1, Invariance, PTL

\* "A schema change and its migrations row are never applied without each
\* other" (migrate.go:98-99), and each is applied once, whatever races and
\* fails, and whether or not its SQL could run twice.
THEOREM AppliedOnce == Spec => []AppliedOnceIffRecorded
<1>1. IInv => AppliedOnceIffRecorded
  BY DEF IInv
<1> QED
  BY <1>1, Invariance, PTL

\* "No later migration runs on top of a database state that failed to reach
\* the one before it" (migrate.go:99-100).
THEOREM AppliedInOrder == Spec => []RecordedIsAPrefix
<1>1. IInv => RecordedIsAPrefix
  BY DEF IInv
<1> QED
  BY <1>1, Invariance, PTL

\* A service whose Migrate has returned has every migration it was built with.
THEOREM StartedIsCurrent == Spec => []DoneIsCurrent
<1>1. IInv => DoneIsCurrent
  BY DEF IInv
<1> QED
  BY <1>1, Invariance, PTL

\* No two services report the same migration as newly applied.
THEOREM ReportedOnce == Spec => []NewlyAppliedIsExclusive
<1>1. IInv => NewlyAppliedIsExclusive
  BY DEF IInv
<1> QED
  BY <1>1, Invariance, PTL

=============================================================================
