------------------------------ MODULE MCOutput ------------------------------
EXTENDS Output

Symmetry == Permutations(Hosts)

\* Values that contain one another and one of several lines.
MCValues == <<<<"a", "b">>, <<"a", "b", "c", Newline, "x", "c">>>>

\* Writes that split the values, return the carriage in a line and end one in mid-write.
MCChunks == {<<Return, "a">>, <<"b", "c", Newline, "x">>}

MCWrites == <<4, 2>>

=============================================================================
