-------------------------------- MODULE MCSeed --------------------------------
\* An instance of Seed for TLC: every shape of three chunks without commits,
\* and two chunks with every claim of few commits.
EXTENDS Seed

AChunk(id, requires, commits, formed) ==
    [id |-> id, requires |-> requires, commits |-> commits, formed |-> formed]

Parents == {<<>>, <<"a">>, <<"b">>, <<"c">>, <<"z">>, <<"a", "b">>}

File(a, b, c, id, formed) ==
    [chunks |-> <<AChunk("a", a, <<>>, TRUE), AChunk("b", b, <<>>, formed), AChunk(id, c, <<>>, TRUE)>>,
     fork   |-> <<>>]

Shapes ==
    {File(p, q, r, "c", TRUE) : p, q, r \in Parents} \union
    {File(<<>>, p, q, id, f) : p, q \in {<<>>, <<"a">>}, id \in {"a", "c"}, f \in BOOLEAN}

Claimed ==
    {[chunks |-> <<AChunk("a", <<>>, s, TRUE), AChunk("b", <<>>, t, TRUE)>>, fork |-> u] :
        s \in {<<1>>, <<1, 2>>, <<2, 2>>, <<9>>}, t \in {<<1>>, <<2, 3>>},
        u \in {<<>>, <<1>>, <<9>>}}

\* A child of one commit on a parent of two.
Child == [chunks |-> <<AChunk("a", <<>>, <<1, 2>>, TRUE), AChunk("b", <<"a">>, <<3>>, TRUE)>>,
          fork   |-> <<>>]

MCFiles == Shapes \union Claimed \union {Child}
=============================================================================
