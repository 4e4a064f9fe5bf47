------------------------- MODULE MCDeliveryJourney -------------------------
\* Model checking of DeliveryJourney with the ledger's own handlers running.
EXTENDS DeliveryJourney, TLC

=============================================================================
