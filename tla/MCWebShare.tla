---------------------------- MODULE MCWebShare ----------------------------
EXTENDS WebShare
=============================================================================
