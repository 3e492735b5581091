----------------------------- MODULE MCPreparation -----------------------------
\* Rows and queries on a line, with rows at the same distance of a query.
EXTENDS Preparation

RowAt == <<0, 2, 2, 5, 4, 9>>
QueryAt == <<1, 4>>
MCDistance ==
  [qr \in (0 .. 1) \X Gids |->
     LET a == QueryAt[qr[1] + 1]
         b == RowAt[qr[2] + 1]
     IN (a - b) * (a - b)]

Dataset(format, method, rows, header, lossy) ==
  [format |-> format, method |-> method, lowMem |-> FALSE, rows |-> rows, header |-> header,
   queries |-> 2, lossy |-> lossy]

MCSources ==
  {Dataset("fbin", "bruteforce", 6, 9, {}),
   Dataset("bvecs", "diskann", 9, 0, {3}),
   Dataset("synthetic", "bruteforce", 0, 0, {}),
   Dataset("i8bin", "bruteforce", 4, 9, {}),
   [Dataset("bvecs", "bruteforce", 9, 0, {}) EXCEPT !.lowMem = TRUE]}
=============================================================================
