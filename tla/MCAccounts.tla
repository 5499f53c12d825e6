----------------------------- MODULE MCAccounts -----------------------------
(* Instances of Accounts for TLC.                                          *)
EXTENDS Accounts, TLC

CONSTANTS r1, r2, r3, lower, upper, other

Three == {r1, r2, r3}

\* Two spellings of one address, and another address.
Emails == {lower, upper, other}
Lowercase == [e \in Emails |-> IF e = upper THEN lower ELSE e]

OneEmail == {lower}
AsWritten == [e \in OneEmail |-> e]

RequestSymmetry == Permutations(Request)

=============================================================================
