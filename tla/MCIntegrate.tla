---------------------------- MODULE MCIntegrate ----------------------------
\* Hosts for model checking: one of each kind.
EXTENDS Integrate, TLC
=============================================================================
