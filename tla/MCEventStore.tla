---------------------------- MODULE MCEventStore ----------------------------
EXTENDS EventStore, TLC
CONSTANTS a, b
MCShapes == {<<"delta", 1>>, <<"started", 2>>, <<"anchor", 1>>}
Symmetry == Permutations(Threads)
=============================================================================
