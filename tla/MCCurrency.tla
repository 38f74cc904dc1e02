----------------------------- MODULE MCCurrency -----------------------------
EXTENDS Currency, TLC
CONSTANTS note, config, reader, door, detector, borrower
=============================================================================
