------------------------- MODULE MC_AccountResponse -------------------------
EXTENDS AccountResponse
=============================================================================
