----------------------------- MODULE MCTcbTable -----------------------------
EXTENDS TcbTable, TLC

\* The clients are alike: no definition names one of them.
Alike == Permutations(Clients)
=============================================================================
