------------------------------ MODULE MCAuditLog ------------------------------
(* AuditLog with data of which one value does not survive the data column. *)
EXTENDS AuditLog, TLC

CONSTANTS plain, large

\* A large number that write hashes as 1e+20; JSONB gives back its digits, which is
\* what "plain" holds.
ReadBackLarge == [d \in {plain, large} |-> plain]

\* Neither the calls nor the columns outside the hash are told apart by anything.
Symmetry == Permutations(Writers) \cup Permutations(Columns)
=============================================================================
