----------------------------- MODULE MCCleaners -----------------------------
EXTENDS Cleaners, TLC

CONSTANTS a, b, r1, r2

CleanerSymmetry == Permutations({a, b}) \cup Permutations({r1, r2})
=============================================================================
