---------------------------- MODULE MCPrintAssets -----------------------------
(* Instances of PrintAssets for TLC.                                       *)
EXTENDS PrintAssets, TLC

CONSTANTS A, B, p, q, waybills, s1

\* An account has an authorisation and a template, or nothing.
TwoOffers == {{waybills, s1}, {}}

NoLegacy == {{}}
OldRows == {{waybills, s1}}

\* Accounts are alike, and so are passwords.
Symmetry == Permutations({A, B}) \cup Permutations({p, q})
===============================================================================
