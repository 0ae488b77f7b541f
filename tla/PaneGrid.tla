------------------------------- MODULE PaneGrid -------------------------------
(***************************************************************************)
(* planPaneGrid: in which order the panes of the agent tab are split, and  *)
(* from which pane each is split off.  Up to six panes the plans extend    *)
(* one another, since agents arrive one at a time; a larger grid is laid   *)
(* out in rows first, then each row in columns.                            *)
(***************************************************************************)
EXTENDS Naturals, Sequences

MaxGridPanes == 16

\* Splits <<parent slot, new slot>> shared by the grids of up to six panes.
StableSplits == << <<0, 1>>, <<0, 2>>, <<1, 3>>, <<1, 4>>, <<3, 5>> >>

Columns(n) == CHOOSE c \in 1 .. n : c * c >= n /\ (c - 1) * (c - 1) < n
RowsOf(n)  == (n + Columns(n) - 1) \div Columns(n)

\* The first rows take one pane more until the remainder is used up.
RowStart(n, row) ==
  LET larger == n % RowsOf(n)
  IN  row * (n \div RowsOf(n)) + (IF row < larger THEN row ELSE larger)

RowStarts(n) == {RowStart(n, row) : row \in 0 .. RowsOf(n) - 1}

Splits(n) ==
  IF n <= 6 THEN SubSeq(StableSplits, 1, n - 1)
  ELSE [i \in 1 .. RowsOf(n) - 1 |-> <<RowStart(n, i - 1), RowStart(n, i)>>]
         \o SelectSeq([s \in 1 .. n - 1 |-> <<s - 1, s>>],
                      LAMBDA split : split[2] \notin RowStarts(n))

\* In every grid the pane that is split exists by then, each slot but the
\* first is split off exactly once, and a grid of up to six panes grows into
\* the next one without moving a pane.
GridSound ==
  \A n \in 1 .. MaxGridPanes :
    /\ DOMAIN Splits(n) = 1 .. n - 1
    /\ \A i \in 1 .. n - 1 :
         /\ Splits(n)[i][1] \in {0} \cup {Splits(n)[j][2] : j \in 1 .. i - 1}
         /\ Splits(n)[i][2] \in 1 .. n - 1
         /\ \A j \in 1 .. i - 1 : Splits(n)[j][2] # Splits(n)[i][2]
    /\ n < 6 => SubSeq(Splits(n + 1), 1, n - 1) = Splits(n)

\* The first split of the plan for n panes whose new slot is not held yet.
NextSplitOf(n, held) ==
  LET plan == Splits(n)
      i    == CHOOSE i \in DOMAIN plan :
                /\ plan[i][2] \notin held
                /\ \A j \in 1 .. i - 1 : plan[j][2] \in held
  IN  plan[i]
=============================================================================
