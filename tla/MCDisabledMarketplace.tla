----------------------- MODULE MCDisabledMarketplace -----------------------
EXTENDS DisabledMarketplace, TLC

CONSTANTS m1, m2, k1, k2, k3

TwoRowsAndOne == k1 :> m1 @@ k2 :> m1 @@ k3 :> m2

\* The service may rest only when every block and every change is handled.
Finished == AtRest /\ changes = 0 /\ UNCHANGED vars
Alike == Permutations(Callers) \cup Permutations({k1, k2})
\* The copy expires only while no block is in hand (a consumed change drops it at any time).
Calm == cached # None /\ cached' = None /\ changes' = changes => \A w \in Workers : slot[w].pc = "idle"
\* With one worker, a block that waits in the queue changes nothing: it comes when the one before is through.
InTurn == chain' # chain => pending = {}
\* All marketplaces are enabled at first: the first call that counts disables one.
DisableFirst == calls = 0 => \A c \in Callers : call'[c].pc = "idle" \/ call'[c].op = "disable"
MCSpec == Init /\ [][(Next \/ Finished) /\ Calm /\ InTurn /\ DisableFirst]_vars
=============================================================================
