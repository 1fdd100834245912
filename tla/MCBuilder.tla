------------------------------- MODULE MCBuilder ------------------------------
EXTENDS Builder
=============================================================================
