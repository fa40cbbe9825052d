------------------------ MODULE MCMarketplaceReindex ------------------------
EXTENDS MarketplaceReindex, TLC

MCBefores == {None, 3}
============================================================================
