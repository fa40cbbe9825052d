--------------------------- MODULE MCCampaignTiers ---------------------------
EXTENDS CampaignTiers, TLC
=============================================================================
