---------------------------- MODULE MCAtomicWrite ---------------------------
\* Three calls that race for one artifact; the calls are interchangeable, and
\* so are the values.
EXTENDS AtomicWrite, TLC

CONSTANTS w1, w2, w3, v1, v2

MCWriters == {w1, w2, w3}
MCValues  == {v1, v2}
Symmetric == Permutations(MCWriters) \cup Permutations(MCValues)
=============================================================================
