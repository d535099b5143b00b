--------------------------- MODULE MCUsageMetering ---------------------------
EXTENDS UsageMetering
==============================================================================
