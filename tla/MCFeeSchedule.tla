---- MODULE MCFeeSchedule ----
EXTENDS FeeSchedule

Row(c, time, tx) == [condition |-> c, time |-> time, tx |-> tx]

\* Two markets over two days; transaction 2 has a trade of both; 6 is behind the
\* cutover; 4 and 7 are on no tape.
TwoMarkets == <<Row(1, 0, 1), Row(1, 2, 5), Row(1, 3, 2), Row(2, 3, 2), Row(2, 5, 3), Row(1, 6, 6)>>
Times == <<0, 3, 5, 4, 2, 6, 4>>
Listing == <<{2, 4, 5, 6}, {2, 3, 4, 7}>>

\* p, q, r and t are tariffs; r is none of the registered ones; a fee that agrees
\* with no tariff is {}.
No == {None}
Shown(a, b, c, d, e) ==
    <<<<No, No>>, <<a, b>>, <<No, c>>, <<{"p", "q"}, {"p", "q"}>>, <<d, No>>, <<e, No>>, <<No, {"q", "t"}>>>>

\* The contracts change with the cutover, or only after 6, or before 3 already.
Sharp == {1, 2, 3, 4, 5, 7}
Borders(d) == {Sharp, IF d = {} THEN Sharp \cup {6} ELSE Sharp \ {3}}
SomeReceipts == UNION {
    {<<Shown(a, b, c, d, e), v>> :
        a \in {{"p"}, {"q", "t"}}, b \in {No, {"p"}, {"q", "t"}}, c \in {{Zero}, {"p", "q"}},
        e \in {{Zero}, {"p", "q"}}, v \in Borders(d)} : d \in {{}, {"p"}}}
SomeInfos == {<<{}, {"p", "q", "t"}>>, <<{"p", "r"}, {"p", "q", "t"}>>, <<{"p", "q", "t"}, {}>>}
====
