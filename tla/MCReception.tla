---------------------------- MODULE MCReception ----------------------------
(* An instance of StreamReception for TLC: the control stream with two      *)
(* frames, and two object streams, one of them with two objects.            *)
EXTENDS StreamReception

McStreams    == {0, 4, 8}
McEnds       == [s \in McStreams |-> IF s = 0 THEN <<1, 2>>
                                     ELSE IF s = 4 THEN <<1, 3>> ELSE <<1>>]
McResettable == {4, 8}
McDones      == {1, 2}
=============================================================================
