----------------------------- MODULE MCRSHExtract -----------------------------
EXTENDS RSHExtract

\* X + 1, X^2 + X + 1, X^3 + X + 1, X^4 + X + 1
MCIrrep == <<{1, 0}, {2, 1, 0}, {3, 1, 0}, {4, 1, 0}>>
=============================================================================
