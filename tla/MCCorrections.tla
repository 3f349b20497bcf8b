----------------------------- MODULE MCCorrections -----------------------------
(* Instances of Corrections for TLC. *)
EXTENDS Corrections, TLC

CONSTANTS i1, i2, v1, v2

PoolSymmetry == Permutations(Pool)

\* no expert seed, one expert seed
NoSeeds == <<>>
OneSeed == <<[ident |-> i1, val |-> v1]>>

\* edits of the value column only; edits of either or both columns
ValueEdits == [ident : {Keep}, val : Values]
AllEdits   == Change
================================================================================
