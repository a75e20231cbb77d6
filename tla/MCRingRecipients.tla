-------------------------- MODULE MCRingRecipients --------------------------
EXTENDS RingRecipients, TLC
=============================================================================
