---- MODULE MCChronicle ----
(***************************************************************************)
(* An instance of Chronicle for TLC: three scopes over two dates, with two *)
(* trades in one second whose identifiers are out of order, four markets   *)
(* of which one is not in any event, and atlases that chain the others in  *)
(* different ways.                                                         *)
(***************************************************************************)
EXTENDS Chronicle

Trade(id, time, market, wallet) == [id |-> id, time |-> time, market |-> market, wallet |-> wallet]
ThreeScopes == <<<<Trade(3, 1, 1, "a"), Trade(5, 11, 1, "a")>>,
                 <<Trade(4, 2, 2, "b"), Trade(1, 2, 3, "a"), Trade(7, 14, 2, "b")>>,
                 <<Trade(2, 1, 5, "c"), Trade(6, 15, 2, "c")>>>>

TwoSplits == <<[id |-> "train", start |-> 0, end |-> 10],
               [id |-> "test", start |-> 12, end |-> 20]>>
Train == {"train"}

Market(events, closed) == [events |-> events, closed |-> closed, replayable |-> TRUE]
SomeAtlases ==
    {<<Market(<<1, 2>>, 5), Market(<<3, 4>>, 7), Market(<<2, 3>>, 6), Market(<<>>, 15)>>,
     <<Market(<<1, 2>>, 5), Market(<<3, 4>>, 14), Market(<<4, 2>>, 6), Market(<<>>, 8)>>,
     <<Market(<<1, 2>>, 5), Market(<<3, 4>>, Open), Market(<<1>>, 6), Market(<<>>, Open)>>}
====
