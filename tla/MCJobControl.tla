---------------------------- MODULE MCJobControl ----------------------------
\* Job control on a small table.
EXTENDS JobControl
=============================================================================
