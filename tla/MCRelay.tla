------------------------------ MODULE MCRelay ------------------------------
(* Instances of MoqRelay for TLC: one publisher with the two tracks of the  *)
(* simulation's MOQ_Partial configuration, scaled down, and one or two      *)
(* subscribers.                                                             *)
EXTENDS MoqRelay, TLC

CONSTANTS bbox, pcloud, car, s1, s2

McBoth     == {s1, s2}
McOne      == {s1}
McCar      == {car}
McNone     == {}
McAnyPeer  == {s1, car}

McTracks          == {bbox, pcloud}
McPublisherOf     == [t \in Tracks |-> car]
McPriority        == [t \in Tracks |-> IF t = bbox THEN 0 ELSE 1]
McObjectsPerGroup == [t \in Tracks |-> IF t = bbox THEN 1 ELSE 2]
McSingles         == [t \in Tracks |-> 1]
McObjectBytes     == [t \in Tracks |-> IF t = bbox THEN 1 ELSE 3]

\* Both tracks send objects of one chunk.
McTwoBytes        == [t \in Tracks |-> 2]

\* Only the bulk track has a delivery timeout, or none has.
McBulkOnly        == [t \in Tracks |-> IF t = bbox THEN 0 ELSE 1]
McReliable        == [t \in Tracks |-> 0]

\* The subscribers are interchangeable as long as none is named in a constant.
McSymmetry == Permutations(Subscribers)
=============================================================================
