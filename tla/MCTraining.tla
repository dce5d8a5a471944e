------------------------------ MODULE MCTraining ------------------------------
EXTENDS Training

MCItemLists == {<<"a", "b", "c">>, <<"c", "b", "a">>, <<"a", "a">>}

MCRatios == {[train |-> 34, validation |-> 33, test |-> 33],
             [train |-> 70, validation |-> 20, test |-> 10]}

\* Two draws of one seed, in tenths.
MCDraws == [seed \in {1} |-> <<3, 8>>]

\* A test set with one class, and one whose annotations are empty.
MCTestSets == {{"vehicle"}, {}}
=============================================================================
