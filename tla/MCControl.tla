------------------------------ MODULE MCControl ------------------------------
\* The interpreter on shallow nestings.
EXTENDS Control
=============================================================================
