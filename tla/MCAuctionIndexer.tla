-------------------------- MODULE MCAuctionIndexer --------------------------
EXTENDS AuctionIndexer, TLC

\* The bidders are interchangeable.
Symmetry == Permutations(Bidders) \cup Permutations(Workers)

\* The price of a price event is saved, with the whole row that was read, by a
\* promise nobody awaits: a bid or the end of the auction that comes meanwhile sees
\* the old price, or is overwritten. In these runs the chain waits for the promise.
PriceSettles == log # <<>> /\ Last(log).event.kind = "price" => Settled

\* The service may rest only when all is handled: anything else is a deadlock.
Finished == Settled /\ UNCHANGED vars
MCNext == (Next /\ (emitted' # emitted => PriceSettles)) \/ Finished
MCSpec == Init /\ [][MCNext]_vars
MCFairSpec == MCSpec /\ Fairness

\* A calm schedule: a block is reverted only when the service is at rest, and
\* the chain goes on only when that revert is handled.
CalmNext == MCNext /\ (reverts' # reverts => Settled) /\ (emitted' # emitted => revertQueue = <<>>)
CalmSpec == Init /\ [][CalmNext]_vars

\* A history is about the auctions that take bids, or about those that sell by
\* the piece, to one buyer and without reverts.
Sells == log # <<>> /\ log[1].event.a \in Sft
OneTrade ==
  /\ \A i \in DOMAIN log : (log[i].event.a \in Sft) = Sells
  /\ Sells => /\ reverts = 0
              /\ Cardinality({log[i].event.who : i \in DOMAIN log} \cap Bidders) <= 1
SalesSpec == Init /\ [][CalmNext /\ OneTrade']_vars

\* The status of an auction that sells by the piece is the chain's.
SalesFollowChain == Sells => StatusFollowsChain
=============================================================================
