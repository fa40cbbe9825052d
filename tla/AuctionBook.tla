---------------------------- MODULE AuctionBook ----------------------------
(***************************************************************************)
(* What the indexed orders of the bidding auctions promise a reader of the *)
(* tables, whatever handlers and promises write them: bids only go up, one *)
(* bid at most wins, it is the highest, and nothing is bid after that.     *)
(***************************************************************************)
EXTENDS Integers

CONSTANTS Auctions, Bidders, MaxAmount

VARIABLES
  bids,   \* bids[a]: the recorded bids of auction a
  won     \* won[a]: those among them that are marked as bought

Bid == [who : Bidders, amount : 1..MaxAmount]

Init == bids = [a \in Auctions |-> {}] /\ won = [a \in Auctions |-> {}]

Outbid(a, b) ==
  /\ won[a] = {}
  /\ \A c \in bids[a] : c.amount < b.amount
  /\ bids' = [bids EXCEPT ![a] = @ \cup {b}]
  /\ UNCHANGED won

Win(a, b) ==
  /\ won[a] = {} /\ b \in bids[a]
  /\ \A c \in bids[a] : c.amount <= b.amount
  /\ won' = [won EXCEPT ![a] = {b}]
  /\ UNCHANGED bids

Next == \E a \in Auctions, b \in Bid : Outbid(a, b) \/ Win(a, b)

Spec == Init /\ [][Next]_<<bids, won>>
=============================================================================
