-------------------------------- MODULE Figures --------------------------------
(***************************************************************************)
(* What the plotters draw from the rows of a table: for each system the    *)
(* points of its curve, its bar or its one point.  Colors, labels and the  *)
(* order of the legend are left out.                                       *)
(***************************************************************************)
EXTENDS Tables

\* The points of a curve: rows that lack either value are left out.
series(table, x, y) ==
  Keep([i \in DOMAIN table |-> [x |-> fnan(table[i][x]), y |-> fnan(table[i][y])]],
       LAMBDA p : p.x # None /\ p.y # None)

Drawn(curves) == [s \in {s \in DOMAIN curves : curves[s] # <<>>} |-> curves[s]]

plot_series(table, x, y) ==
  LET by == rows_by_system(table)
  IN Drawn([s \in DOMAIN by |-> series(by[s], x, y)])

\* Two panels over one axis.
plot_dual(table, x, top, bottom) == <<plot_series(table, x, top), plot_series(table, x, bottom)>>

\* One bar for each system that has a value: the largest of its rows.
plot_bar(table, y) ==
  LET by == rows_by_system(table)
      values(s) == Keep([i \in DOMAIN by[s] |-> fnan(by[s][i][y])], LAMBDA v : v # None)
  IN [s \in {s \in DOMAIN by : values(s) # <<>>} |-> MaxOf(values(s))]

\* One point for each system: its last row that has both values.
plot_pareto(table, x, y) ==
  LET curves == plot_series(table, x, y)
  IN [s \in DOMAIN curves |-> Last(curves[s])]

Draw(f, table) ==
  LET p == FAMILIES[f]
  IN CASE p.plot = "series" -> plot_series(table, p.x, p.y)
       [] p.plot = "dual"   -> plot_dual(table, p.x, p.y, p.below)
       [] p.plot = "bar"    -> plot_bar(table, p.y)
       [] p.plot = "pareto" -> plot_pareto(table, p.x, p.y)
=============================================================================
