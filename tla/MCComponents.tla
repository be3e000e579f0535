----------------------------- MODULE MCComponents -----------------------------
(* Values for checking Components.                                             *)
EXTENDS Components

\* Calibrations: upright; a different response in each direction; askew; degenerate.
V(a, b) == [x |-> a, y |-> b]
Matrix(first, second) == [a \in 1..2 |-> [d \in {1, -1} |-> IF a = 1 THEN first[d] ELSE second[d]]]
Even(a, b) == [d \in {1, -1} |-> V(d * a, d * b)]
MCMatrices ==
  {Matrix(Even(1, 0), Even(0, 1)),
   Matrix([d \in {1, -1} |-> V(IF d = 1 THEN 1 ELSE -2, 0)],
          [d \in {1, -1} |-> V(0, IF d = 1 THEN 2 ELSE -1)]),
   Matrix(Even(6, 1), Even(0, 3)),
   Matrix(Even(1, 1), Even(1, 1))}
MCShapes == {[w |-> 100, h |-> 60], [w |-> 40, h |-> 60]}

\* Opening, closing and empty elements (the latter with an apostrophe and a ">" in a quoted
\* attribute), declarations, and text with a quotation mark.
MCTokens ==
  {<<"<", ">">>, <<"<", "/", ">">>, <<"<", "q", "a", ">", "q", "/", ">">>, <<"<", "?", ">">>,
   <<">", "q">>}

Response(first, second) == [s \in {"T1", "T2"} |-> IF s = "T1" THEN first ELSE second]
MCTruths == {Response(<<1, 0>>, <<0, 1>>), Response(<<-1, 1>>, <<1, 2>>)}
MCErrors == {<<2, 1>>, <<-1, 2>>}
===============================================================================
