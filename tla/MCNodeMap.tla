------------------------------ MODULE MCNodeMap ------------------------------
(***************************************************************************)
(* A small instance of NodeMap for TLC.                                    *)
(***************************************************************************)
EXTENDS NodeMap

Survey(lat, lon) == <<[lat |-> <<lat>>, lon |-> <<lon>>, unknown |-> FALSE]>>
Entry(id, intervals, position) == [id |-> id, intervals |-> intervals, position |-> position]

\* One entry of each sort the loaders tell apart.
SomeEntries == {
    Entry(<<"a">>, <<>>, <<>>),
    Entry(<<"a">>, <<>>, Survey(-33, -70)),
    Entry(<<"a">>, <<>>, Survey(-33, 0)),
    Entry(<<"b">>, <<>>, Survey(91, -70)),
    Entry(<<"b">>, <<[device |-> <<600>>, environment |-> <<>>]>>, <<>>),
    Entry(<<"b">>, <<[device |-> <<0>>]>>, <<>>),
    Entry(<<>>, <<>>, Survey(-33, -70)) }
=============================================================================
