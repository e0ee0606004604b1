--------------------------- MODULE MCUOSScheduler ---------------------------
\* A small UOS; its target ids may be row ids, in and out of order, or not.
EXTENDS UOSScheduler, TLC
=============================================================================
