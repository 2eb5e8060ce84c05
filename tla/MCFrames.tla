------------------------------ MODULE MCFrames ------------------------------
EXTENDS Frames
\* Variables: by value, by reference, many of them, with an initial value, and arrays.
V(name, size) == [name |-> name, size |-> size, byref |-> FALSE, copies |-> 1, lower |-> <<>>, counts |-> <<>>, init |-> <<>>, table |-> 0]
R(name, size) == [V(name, size) EXCEPT !.byref = TRUE]
Many(n, size) == [V("others", size) EXCEPT !.copies = n]
With(v, table, init) == [v EXCEPT !.table = table, !.init = init]
A(name, size, table, lower, counts) == [V(name, size) EXCEPT !.table = table, !.lower = lower, !.counts = counts]
F(params, locals, result) == [params |-> params, locals |-> locals, result |-> result]

T(n) == 18000 + 32 * n
Bytes2 == [maxSteps |-> 4, maxDepth |-> 2, globals |-> <<V("g", 1), V("h", 2)>>,
           functions |-> <<F(<<V("b", 1), R("w", 2)>>, <<V("x", 1), V("y", 2)>>, 2)>>]
Longs2 == [maxSteps |-> 3, maxDepth |-> 2, globals |-> <<V("l", 4), V("r", 5)>>,
           functions |-> <<F(<<V("p", 4), V("q", 5), R("s", 4)>>, <<V("u", 4), V("v", 5)>>, 5),
                           F(<<V("p", 5), R("q", 5), V("n", 4)>>, <<>>, 4)>>]
Arrays1 == [maxSteps |-> 3, maxDepth |-> 2, globals |-> <<A("ga", 1, T(0), <<0>>, <<2>>), V("g", 1)>>,
            functions |-> <<F(<<R("e", 1), [A("pa", 1, 0, <<>>, <<0>>) EXCEPT !.byref = TRUE]>>,
                              <<V("x", 1), A("la", 1, T(1), <<1>>, <<2>>)>>, 0)>>]
Arrays2 == [maxSteps |-> 3, maxDepth |-> 2, globals |-> <<V("g", 2), A("ga", 2, T(0), <<1>>, <<2>>)>>,
            functions |-> <<F(<<V("w", 2)>>, <<With(A("la", 2, T(1), <<0, 3>>, <<2, 2>>), T(1), <<1, 2, 3, 4, 5, 6, 7, 8>>)>>, 2)>>]
Arrays3 == [maxSteps |-> 4, maxDepth |-> 2, globals |-> <<V("g", 5), A("ga", 4, T(0), <<0>>, <<2>>)>>,
            functions |-> <<F(<<R("w", 4)>>, <<A("la", 4, T(1), <<0>>, <<2>>), With(A("lf", 5, T(2), <<2>>, <<2>>), T(2), <<10, 11, 12, 13, 14, 15, 16, 17, 18, 19>>)>>, 0)>>]
Far == [maxSteps |-> 3, maxDepth |-> 1, globals |-> <<V("g", 1), V("h", 2), V("k", 4)>>,
        functions |-> <<F(<<Many(61, 2), V("b", 1), V("w", 2), R("s", 1), V("z", 4)>>,
                          <<Many(125, 1), V("x", 1), V("y", 2), With(V("u", 4), T(1), <<9, 8, 7, 6>>)>>, 1)>>]
MCKits == {Bytes2, Longs2, Arrays1, Arrays2, Arrays3, Far}
=============================================================================
