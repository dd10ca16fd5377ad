----------------------------- MODULE MCWatchEntry -----------------------------
(* WatchEntry on a few entries: every kind, with and without a delay, local  *)
(* and remote, with absolute, relative, mixed and misordered limits.         *)
EXTENDS WatchEntry

B(n) == [bytes |-> n, percent |-> None]
P(n) == [bytes |-> None, percent |-> n]
Block(w, c, f) == [warning |-> w, critical |-> c, full |-> f]

MCSizes  == {0, 1, 2, 4}
MCTotals == {0, 4}

Entry(kind, delay, remote, space, size, empty) ==
  [kind |-> kind, delay |-> delay, remote |-> remote, space |-> space,
   size |-> size, allow_empty |-> empty]

MCEntries ==
  {Entry("directory", d, r, s, None, FALSE) :
     d \in {None, 1}, r \in BOOLEAN,
     s \in {None,
            Block(P(500), P(250), B(0)),     \* ordered once resolved
            Block(B(1), P(500), None),       \* misordered once resolved
            Block(P(375), B(2), None),       \* equal once resolved, a tie
            Block(None, None, P(125))}}      \* 12.5 % of 4, rounds to zero
  \cup
  {Entry("file", d, FALSE, None, s, a) :
     d \in {None, 1}, a \in BOOLEAN,
     s \in {None, Block(B(1), B(2), B(4)), Block(B(2), None, B(1)),
            Block(None, None, None), Block(B(0), None, None)}}
===============================================================================
