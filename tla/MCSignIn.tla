------------------------------ MODULE MCSignIn ------------------------------
EXTENDS SignIn, TLC

\* Browsers are interchangeable, and so are the ordinary roles: any is initial.
Symmetry == Permutations(Context) \union Permutations(BusinessRole)
=============================================================================
