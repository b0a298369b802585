--------------------------- MODULE MCAuthAccounts ---------------------------
EXTENDS AuthAccounts, TLC

\* Requests of one route are interchangeable, and so are the passwords.
Symmetry == Permutations(SignIns) \cup Permutations(Resets) \cup Permutations(Passwords)
=============================================================================
