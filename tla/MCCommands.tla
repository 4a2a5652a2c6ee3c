----------------------------- MODULE MCCommands -----------------------------
(***************************************************************************)
(* Instances of Commands for TLC.                                          *)
(***************************************************************************)
EXTENDS Commands, TLC

\* No operator of Commands distinguishes one name from another.  Used with
\* invariants only.
SecretNames == Permutations(Names)

=============================================================================
