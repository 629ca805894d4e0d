------------------------------ MODULE MCMigrate ------------------------------
(***************************************************************************)
(* Instances of Migrate for TLC: two services of one build, or one of them *)
(* built before the last migration was written.                            *)
(***************************************************************************)
EXTENDS Migrate

CONSTANTS old, new

SameBuild == [s \in {old, new} |-> 3]

RollingBuild == [s \in {old, new} |-> IF s = old THEN 2 ELSE 3]

=============================================================================
