------------------------------- MODULE Migrate -------------------------------
(***************************************************************************)
(* internal/store: Migrate, called by every service when it starts, with   *)
(* several services starting together against one database.  Nothing in    *)
(* the code serialises them: what protects the schema is that each         *)
(* migration's SQL and its schema_migrations row share a transaction, and  *)
(* that version is a primary key.                                          *)
(*                                                                         *)
(* Migrations are numbered 1, 2, ... in the ascending order ParseMigrations*)
(* gives them; a service built earlier may know fewer of them.             *)
(*                                                                         *)
(*   pc[s]       "down"     not running                                    *)
(*               "create"   about to create the tracking table             *)
(*               "creating" its table did not exist when it looked         *)
(*               "read"     about to read the recorded versions            *)
(*               "exec"     in a transaction, SQL not run                  *)
(*               "record"   SQL run, row not inserted                      *)
(*               "commit"   row inserted, transaction open                 *)
(*               "next"     between two migrations                         *)
(*               "done", "failed"   Migrate has returned                   *)
(***************************************************************************)
EXTENDS Integers, FiniteSetsExt

CONSTANTS
    Service,      \* services that call Migrate when they start
    Known,        \* Known[s]: how many migrations s was built with
    Rerunnable,   \* migrations whose SQL succeeds when run again
    MaxFailures   \* bound: failures of the environment in a behaviour

ASSUME ConstantsAssumption ==
    /\ Known \in [Service -> Nat \ {0}]
    /\ Rerunnable \subseteq Nat
    /\ MaxFailures \in Nat

VARIABLES
    tracking,   \* schema_migrations exists
    times,      \* times[m]: how often m's SQL has been committed
    recorded,   \* versions in schema_migrations
    pc,
    applied,    \* applied[s]: the versions s has read
    newly,      \* newly[s]: newlyApplied, what s has committed itself
    failures

vars == <<tracking, times, recorded, pc, applied, newly, failures>>

Migration == UNION {1 .. Known[s] : s \in Service}

PC == {"down", "create", "creating", "read", "next", "exec", "record",
       "commit", "done", "failed"}

Init ==
    /\ tracking = FALSE
    /\ times = [m \in Migration |-> 0]
    /\ recorded = {}
    /\ pc = [s \in Service |-> "down"]
    /\ applied = [s \in Service |-> {}]
    /\ newly = [s \in Service |-> {}]
    /\ failures = 0

-----------------------------------------------------------------------------
Goto(s, phase) == pc' = [pc EXCEPT ![s] = phase]

\* The migrations the loop of s has still to apply, and the one it is at.
Pending(s) == 1 .. Known[s] \ (applied[s] \cup newly[s])

Current(s) == Min(Pending(s))

\* Another open transaction has run, or recorded, the migration s is at.
InTransaction(t, phases, m) == pc[t] \in phases /\ Current(t) = m

\* A service starts, or starts again, and calls Migrate.
Start(s) ==
    /\ pc[s] \in {"down", "failed", "done"}
    /\ Goto(s, "create")
    /\ applied' = [applied EXCEPT ![s] = {}]
    /\ newly' = [newly EXCEPT ![s] = {}]
    /\ UNCHANGED <<tracking, times, recorded, failures>>

\* CREATE TABLE IF NOT EXISTS looks whether the table exists ...
LookForTable(s) ==
    /\ pc[s] = "create"
    /\ Goto(s, IF tracking THEN "read" ELSE "creating")
    /\ UNCHANGED <<tracking, times, recorded, applied, newly, failures>>

\* ... and creates it when it did not.  PostgreSQL does not repeat the look:
\* if another session has created the table since, the catalogue's unique
\* index makes the statement fail.
CreateTable(s) ==
    /\ pc[s] = "creating"
    /\ Goto(s, IF tracking THEN "failed" ELSE "read")
    /\ tracking' = TRUE
    /\ UNCHANGED <<times, recorded, applied, newly, failures>>

\* appliedVersions.
ReadApplied(s) ==
    /\ pc[s] = "read"
    /\ applied' = [applied EXCEPT ![s] = recorded]
    /\ Goto(s, "next")
    /\ UNCHANGED <<tracking, times, recorded, newly, failures>>

\* The loop's test: nothing pending, or begin a transaction.
NextMigration(s) ==
    /\ pc[s] = "next"
    /\ Goto(s, IF Pending(s) = {} THEN "done" ELSE "exec")
    /\ UNCHANGED <<tracking, times, recorded, applied, newly, failures>>

\* Bug: a migration waits for every transaction begun for it, run or not.
ExecSQLAfterOthers(s) ==
    /\ pc[s] = "exec"
    /\ \A t \in Service \ {s} : ~InTransaction(t, {"exec", "record", "commit"}, Current(s))
    /\ Goto(s, IF times[Current(s)] > 0 THEN "failed" ELSE "record")
    /\ UNCHANGED <<tracking, times, recorded, applied, newly, failures>>

\* tx.Exec(m.SQL).  SQL that creates objects waits for another transaction
\* that has created them, and fails, rolling back, once that has committed.
ExecSQL(s) ==
    LET m == Current(s)
    IN  /\ pc[s] = "exec"
        /\ m \notin Rerunnable =>
              \A t \in Service \ {s} : ~InTransaction(t, {"record", "commit"}, m)
        /\ Goto(s, IF times[m] > 0 /\ m \notin Rerunnable
                   THEN "failed" ELSE "record")
        /\ UNCHANGED <<tracking, times, recorded, applied, newly, failures>>

\* Bug: schema_migrations has no primary key.
RecordAnyway(s) ==
    /\ pc[s] = "record"
    /\ Goto(s, "commit")
    /\ UNCHANGED <<tracking, times, recorded, applied, newly, failures>>

\* The INSERT of the version.  Its primary key makes it wait for another
\* transaction that has inserted it, and fail once that has committed.
RecordVersion(s) ==
    LET m == Current(s)
    IN  /\ pc[s] = "record"
        /\ \A t \in Service \ {s} : ~InTransaction(t, {"commit"}, m)
        /\ Goto(s, IF m \in recorded THEN "failed" ELSE "commit")
        /\ UNCHANGED <<tracking, times, recorded, applied, newly, failures>>

\* Bug: versions are recorded counting from 0.
CommittedFromZero(s) ==
    /\ times' = [times EXCEPT ![Current(s)] = @ + 1]
    /\ recorded' = recorded \cup {Current(s) - 1}

\* What a commit makes visible.
Committed(s) ==
    /\ times' = [times EXCEPT ![Current(s)] = @ + 1]
    /\ recorded' = recorded \cup {Current(s)}

\* Bug: the row is inserted outside the transaction that ran the SQL.
CommitOnlySQL(s) ==
    /\ pc[s] = "commit"
    /\ times' = [times EXCEPT ![Current(s)] = @ + 1]
    /\ newly' = [newly EXCEPT ![s] = @ \cup {Current(s)}]
    /\ Goto(s, "next")
    /\ UNCHANGED <<tracking, recorded, applied, failures>>

CommitTx(s) ==
    /\ pc[s] = "commit"
    /\ Committed(s)
    /\ newly' = [newly EXCEPT ![s] = @ \cup {Current(s)}]
    /\ Goto(s, "next")
    /\ UNCHANGED <<tracking, applied, failures>>

\* The environment fails the service, a bounded number of times.
Failure ==
    /\ failures < MaxFailures
    /\ failures' = failures + 1

\* Bug: the loop goes on with the next migration after one has failed.
SkipFailed(s) ==
    /\ Failure
    /\ pc[s] \in {"exec", "record", "commit"}
    /\ Goto(s, "next")
    /\ applied' = [applied EXCEPT ![s] = @ \cup {Current(s)}]
    /\ UNCHANGED <<tracking, times, recorded, newly>>

\* A statement fails, or the service crashes: an open transaction rolls back
\* and Migrate returns what it had applied before.
Fail(s) ==
    /\ Failure
    /\ pc[s] \notin {"down", "done", "failed"}
    /\ Goto(s, "failed")
    /\ UNCHANGED <<tracking, times, recorded, applied, newly>>

\* The commit takes effect and its answer is lost: Migrate reports a failure
\* to commit and does not list the migration it has applied.
CommitReplyLost(s) ==
    /\ Failure
    /\ pc[s] = "commit"
    /\ Committed(s)
    /\ Goto(s, "failed")
    /\ UNCHANGED <<tracking, applied, newly>>

-----------------------------------------------------------------------------
Advance(s) ==
    \/ LookForTable(s) \/ CreateTable(s) \/ ReadApplied(s) \/ NextMigration(s)
    \/ ExecSQL(s) \/ RecordVersion(s) \/ CommitTx(s)

Next ==
    \E s \in Service : Start(s) \/ Advance(s) \/ Fail(s) \/ CommitReplyLost(s)

Spec == Init /\ [][Next]_vars

\* The database answers or fails, and whoever runs the services starts a
\* service that is not up.
Fairness ==
    \A s \in Service :
        WF_vars(Advance(s)) /\ WF_vars(pc[s] # "done" /\ Start(s))

FairSpec == Spec /\ Fairness

-----------------------------------------------------------------------------
TypeOK ==
    /\ tracking \in BOOLEAN
    /\ times \in [Migration -> Nat]
    /\ recorded \subseteq Migration
    /\ pc \in [Service -> PC]
    /\ applied \in [Service -> SUBSET Migration]
    /\ newly \in [Service -> SUBSET Migration]
    /\ failures \in 0 .. MaxFailures

\* "A schema change and its migrations row are never applied without each
\* other" (migrate.go:98-99): every migration has been committed once if it is
\* recorded and never otherwise, although services race and their SQL may be
\* such that running it twice would succeed.
AppliedOnceIffRecorded ==
    \A m \in Migration : times[m] = IF m \in recorded THEN 1 ELSE 0

\* "No later migration runs on top of a database state that failed to reach
\* the one before it" (migrate.go:99-100), whichever services applied them.
RecordedIsAPrefix ==
    \A m \in recorded : 1 .. m \subseteq recorded

\* A service that goes on after Migrate has every migration it was built with.
DoneIsCurrent ==
    \A s \in Service : pc[s] = "done" => 1 .. Known[s] \subseteq recorded

\* What Migrate reports as newly applied was applied by this call alone: no
\* two services ever report the same migration.
NewlyAppliedIsExclusive ==
    /\ \A s \in Service : newly[s] \subseteq recorded \ applied[s]
    /\ \A s, t \in Service : s # t => newly[s] \cap newly[t] = {}

\* "A fresh database and one that's already current both converge to the same
\* schema" (migrate.go:103-105): losing a race only delays a service.
Converges == <>[](recorded = Migration)

\* A start of Migrate always returns: no two services wait for each other.
StartReturns ==
    \A s \in Service :
        pc[s] = "create" ~> pc[s] \in {"done", "failed"}

\* "Migrate can be called freely on every service startup"
\* (migrate.go:86-88): with nothing failing, no start of a service fails.
StartNeverFails == \A s \in Service : pc[s] # "failed"

=============================================================================
