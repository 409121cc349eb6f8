------------------------------ MODULE MCLiveBars ------------------------------
EXTENDS LiveBars
=============================================================================
