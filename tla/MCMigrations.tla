---------------------------- MODULE MCMigrations ----------------------------
(* Instances of Migrations for TLC: a first migration that creates a table  *)
(* as MigrationBuilder.createTable does and fills it with a raw statement   *)
(* that has a checkpoint, and a second one, which depends on it, of two     *)
(* ALTER TABLE ... ADD COLUMN, the first marked idempotent.                 *)
EXTENDS Migrations

CONSTANTS m1, m2, r1, r2

InOrder == <<m1, m2>>
OutOfOrder == <<m2, m1>>

TwoSteps == [m \in Ids |-> 2]
SecondOnFirst == [m \in Ids |-> IF m = m2 THEN {m1} \cap Ids ELSE {}]

Kinds == [s \in Steps |->
            CASE s = <<m1, 1>> -> "guarded" [] s = <<m1, 2>> -> "repeats" [] OTHER -> "strict"]
NeedsTable == [s \in Steps |-> IF s = <<m1, 1>> THEN {} ELSE {<<m1, 1>>}]
NeedsNothing == [s \in Steps |-> {}]

FirstSteps == {s \in Steps : s[2] = 1}
TheFill == {<<m1, 2>>}

=============================================================================
