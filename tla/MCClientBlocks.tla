--------------------------- MODULE MCClientBlocks ---------------------------
\* ClientBlocks on a small instance: its configurations give every constant a
\* set of model values.
EXTENDS ClientBlocks
=============================================================================
