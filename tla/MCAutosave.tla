----------------------------- MODULE MCAutosave -----------------------------
EXTENDS Autosave, TLC
DocSym == Permutations(Doc)
=============================================================================
