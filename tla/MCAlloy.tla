------------------------------- MODULE MCAlloy -------------------------------
\* An instance of Alloy for TLC: version 1 cannot validate; "good" runs with
\* every version, "old" no longer with version 3, which accepts it, and "bad"
\* with none.  Version 3 mentions version 2, as 1.9.10 does 1.9.1, and version 1
\* was built with a compiler that has the number of version 3.
EXTENDS Alloy

CONSTANTS good, old, bad, dropIn

Accepted == {<<v, good>> : v \in Versions} \union {<<1, old>>, <<2, old>>, <<3, old>>}

Surviving == Accepted \ {<<3, old>>}

Mentioned == {<<v, v>> : v \in Versions} \union {<<3, 2>>, <<1, 3>>}

Asks(uninstall, v, c, custom, drop) ==
    [uninstall |-> uninstall, version |-> v, config |-> c, custom |-> custom,
     override |-> drop, validate |-> TRUE, settle |-> TRUE]

\* One play for each branch of the role, most of them of version 2 or 3.
MCWishes ==
    {Asks(FALSE, v, c, FALSE, None) : v \in {1, 2, 3}, c \in {good, old}} \union
    {Asks(FALSE, v, bad, FALSE, None) : v \in {1, 2}} \union
    {Asks(FALSE, 2, c, TRUE, None) : c \in {good, None}} \union
    {Asks(FALSE, 2, good, FALSE, dropIn)} \union
    {Asks(FALSE, 2, None, FALSE, None), Asks(TRUE, 2, None, FALSE, None)}
=============================================================================
