----------------------------- MODULE MCReports ------------------------------
EXTENDS Reports

CONSTANTS s1, s2, r1, r2

=============================================================================
