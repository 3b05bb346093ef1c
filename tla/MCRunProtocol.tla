--------------------------- MODULE MCRunProtocol ---------------------------
EXTENDS DocumentedClaims, TLC

CONSTANTS b1, b2

NoDeps == [b \in Bundles |-> {}]
Chain == [b \in Bundles |-> IF b = b2 THEN {b1} ELSE {}]
WorkerSymmetry == Permutations(Workers)
=============================================================================
