----------------------------- MODULE MCOverview -----------------------------
EXTENDS OverviewProperties
=============================================================================
