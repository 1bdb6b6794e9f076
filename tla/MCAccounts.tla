----------------------------- MODULE MCAccounts -----------------------------
EXTENDS Accounts, TLC

CONSTANTS u1, u2, u3, r1, r2

AccountSymmetry == Permutations({u1, u2, u3}) \cup Permutations({r1, r2})
                   \cup Permutations(Password)
=============================================================================
