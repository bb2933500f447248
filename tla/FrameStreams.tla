---------------------------- MODULE FrameStreams ----------------------------
(***************************************************************************)
(* What stream reception promises: the frames of each stream are handled   *)
(* one by one, in the order the peer sent them, whole and once each, until *)
(* the stream is abandoned; nothing of an abandoned stream is handled.     *)
(***************************************************************************)
EXTENDS Integers, Sequences

CONSTANTS Streams,
          Frames     \* Frames[s]: the frames the peer has for stream s, a sequence

VARIABLES handled,   \* handled[s]: the frames handled
          abandoned  \* the streams given up

Init ==
  /\ handled = [s \in Streams |-> <<>>]
  /\ abandoned = {}

HandleNext(s) ==
  /\ s \notin abandoned
  /\ Len(handled[s]) < Len(Frames[s])
  /\ handled' = [handled EXCEPT ![s] = Append(@, Frames[s][Len(@) + 1])]
  /\ UNCHANGED abandoned

Abandon(s) ==
  /\ abandoned' = abandoned \cup {s}
  /\ UNCHANGED handled

Next == \E s \in Streams : HandleNext(s) \/ Abandon(s)

Spec == Init /\ [][Next]_<<handled, abandoned>>
=============================================================================
