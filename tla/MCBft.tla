------------------------------- MODULE MCBft --------------------------------
\* Instances of the agreement protocol for TLC.
EXTENDS Bft, TLC

CONSTANTS a, b

\* Values are only compared for equality.
SymmetricValues == Permutations({a, b})

\* What a commit requires does not depend on who commits, and all it does is to
\* stop its validator from proposing.  So a state is continued only if nobody but
\* the last validator, which never leads here, has committed: a second commit is
\* checked, and what could follow it also follows without it.
LastCommitsFirst == \A r \in Honest : committed[r] # None => r = N - 1
=============================================================================
