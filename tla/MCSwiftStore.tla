---------------------------- MODULE MCSwiftStore ----------------------------
\* Small instances of SwiftStore for TLC.
EXTENDS SwiftStore, TLC

CONSTANTS a, b, k1, k2

BothBackends == {"badger", "redis"}
BadgerOnly == {"badger"}
ClientSymmetry == Permutations({a, b})
=============================================================================
