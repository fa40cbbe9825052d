--------------------------- MODULE MCOfferIndexer ---------------------------
EXTENDS OfferIndexer, TLC

CONSTANTS o1, o2, n1, n2

OneOfEach == o1 :> n1 @@ o2 :> n2

\* The service may rest only when all is handled: anything else is a deadlock.
Finished == Settled /\ UNCHANGED vars
MCSpec == Init /\ [][Next \/ Finished]_vars
MCFairSpec == MCSpec /\ Fairness
=============================================================================
