------------------------------- MODULE MCMfs -------------------------------
(***************************************************************************)
(* Mfs on a card with a small file A, a directory D and a file E without a *)
(* cluster in the root and a file B of two clusters in D.                  *)
(***************************************************************************)
EXTENDS Mfs

Entry(name, kind, start, size) == [name |-> name, kind |-> kind, start |-> start, size |-> size]

MCDirs == {0, 1}
Sub == <<Entry(".", "dir", 3, 0), Entry("..", "dir", 0, 0), Entry("B", "file", 4, 4),
         Entry("", "end", 0, 0)>>
Root == <<Entry("V", "label", 0, 0), Entry("D", "dir", 3, 0), Entry("A", "file", 6, 1),
          Entry("E", "file", 0, 0), Entry("", "end", 0, 0)>>

MCCard == (0 :> Root) @@ (1 :> Sub) @@ (-2 :> <<0, 0, 0>>) @@ (2 :> <<1, 0, 1>>)
            @@ (3 :> <<0, 1, 1>>) @@ (4 :> <<1, 0, 0>>) @@ (5 :> <<0, 0, 0>>) @@ (6 :> <<0, 0, 0>>)

\* FAT[0] and FAT[1] hold no cluster; clusters 7 and 8 are free.
MCFat == [n \in 0..8 |-> IF n = 4 THEN 5 ELSE IF n >= 7 THEN 0 ELSE -1]

MCText == {<<1>>, <<0, 1>>}
Cluster == {<<1, 0, 1>>}       \* as long as a cluster

P(abs, names) == [abs |-> abs, names |-> names]
MCPath == {P(TRUE, <<>>), P(TRUE, <<"A">>), P(TRUE, <<"E">>), P(TRUE, <<"D", ".">>),
           P(FALSE, <<"D">>), P(FALSE, <<"B">>), P(FALSE, <<>>)}

\* The card is one that the theorems are about.
ASSUME LayoutAssumption == Layout
=============================================================================
