----------------------------- MODULE MCTrayMenu -----------------------------
EXTENDS TrayMenuProperties
=============================================================================
