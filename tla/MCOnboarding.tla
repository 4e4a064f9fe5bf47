---------------------------- MODULE MCOnboarding -----------------------------
\* Model checking of Onboarding: rows, addresses and callers are interchangeable.
EXTENDS Onboarding, TLC

Symmetry == Permutations(Codes) \cup Permutations(Invitations) \cup Permutations(Callers)
            \cup Permutations(Emails) \cup Permutations(Phones)
=============================================================================
