---------------------------- MODULE MCAssetLikes ----------------------------
EXTENDS AssetLikes, TLC

\* How gentle the schedule of a behaviour is, chosen at its start.
VARIABLE apart
mcVars == <<vars, apart>>

Alike == Permutations(Users) \cup Permutations(Clients)

Busy == {c \in Clients : ~At(c, "idle")}

\* Nothing is left to do.
Finished == AtRest /\ UNCHANGED vars
MCNext == (Next \/ Finished) /\ UNCHANGED apart

\* Keys expire only while no call is in hand.
RestNext == MCNext /\ (spent'.expiries # spent.expiries => Busy = {})
RestInit == Init /\ apart = FALSE
RestSpec == RestInit /\ [][RestNext]_mcVars

\* Redis does not have the counter, or a batch is about to set it again.
Refilling == count = None \/ \E c \in Clients : call[c].pc \in {"query", "fill"}
\* While the counter is refilled, calls do not meet and no like is removed: what the
\* refill read would be stale.
Warm == Refilling => Cardinality(Busy) <= 1 /\ \A c \in Busy : call[c].op # "remove"
\* No user has two calls in hand, nothing crashes and Redis loses no increment.
Apart == /\ \A c, d \in Busy : c # d => user(c) # user(d)
         /\ spent.cache = 0 /\ spent.crashes = 0

\* Either calls stay apart and keys expire between them, or calls meet, Redis
\* and the process fail, and no key expires.
ScheduledNext ==
  /\ RestNext /\ Warm'
  /\ IF apart THEN Apart' ELSE spent'.expiries = 0
ScheduledInit == Init /\ apart \in BOOLEAN
ScheduledSpec == ScheduledInit /\ [][ScheduledNext]_mcVars

\* The counter is exact as long as calls stay apart, no call meets a refill and one
\* statement fails at most
\* (assets-likes.service.ts:98-127).
ExactWhenApart == apart /\ spent.failures <= 1 => CountIsExact
\* A cached answer is fresh as long as calls stay apart (assets-likes.service.ts:168-178).
FreshWhenApart == apart => ShownIsFresh
=============================================================================
