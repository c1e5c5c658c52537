---------------------------- MODULE MCHttpClient ----------------------------
EXTENDS HttpClient, TLC

CONSTANTS s1, s2

SenderSymmetry == Permutations({s1, s2})
=============================================================================
