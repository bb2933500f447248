---------------------------- MODULE MCPublisher ----------------------------
(* Instances of MoqPublisher for TLC.  The two tracks are those of the      *)
(* simulation's MOQ_Partial configuration, scaled down: BBox is small,      *)
(* urgent and alone in its group; PCloud is larger than one write, less     *)
(* urgent, and shares a group's stream between two objects.                 *)
EXTENDS MoqPublisher, TLC

CONSTANTS bbox, pcloud

McTracks          == {bbox, pcloud}
McPriority        == (bbox :> 0) @@ (pcloud :> 1)
McObjectsPerGroup == (bbox :> 1) @@ (pcloud :> 2)
McObjectBytes     == (bbox :> 1) @@ (pcloud :> 3)
McSendInterval    == (bbox :> 2) @@ (pcloud :> 3)

\* Both tracks have a delivery timeout, or only the bulk track, or none.
McPartial         == (bbox :> 1) @@ (pcloud :> 2)
McBulkOnly        == (bbox :> 0) @@ (pcloud :> 2)
McReliable        == (bbox :> 0) @@ (pcloud :> 0)
=============================================================================
