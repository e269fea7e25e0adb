------------------------------ MODULE MCLedger ------------------------------
(* The instance of the ledger that TLC checks, with the money outside it:  *)
(* client keys are interchangeable, and no state with more than MaxRows    *)
(* rows is explored further.                                               *)
EXTENDS MoneyFlow, TLC

CONSTANT MaxRows

JournalBound == Cardinality(journal) <= MaxRows

KeySymmetry == Permutations(Keys)
=============================================================================
