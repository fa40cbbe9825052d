--------------------------- MODULE MCAuctionCaches ---------------------------
EXTENDS AuctionCaches, TLC
=============================================================================
