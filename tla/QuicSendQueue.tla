--------------------------- MODULE QuicSendQueue ---------------------------
(***************************************************************************)
(* The sending half of one QUIC connection, as the applications see it.    *)
(*                                                                         *)
(* QUIC itself lives in the project's INET fork, outside this repository.  *)
(* What is modelled is what the applications rely on and their comments    *)
(* state:                                                                  *)
(*   - send() and resetStream() are asynchronous: the request is a message *)
(*     that QUIC handles in a later event of the same instant, so the      *)
(*     occupancy an application reads never includes its own fresh writes; *)
(*   - bytes leave the queue only when they are acknowledged, or when the  *)
(*     stream they belong to is reset;                                     *)
(*   - admission is connection-wide and all-or-nothing: once the occupancy *)
(*     reaches the limit every later write, on every stream, is discarded  *)
(*     until the occupancy has fallen below the low-water mark;            *)
(*   - "full", "drain" and "rejected" are indications, delivered to the    *)
(*     application in later events; "drain" is raised on every downward    *)
(*     crossing of the low-water mark.                                     *)
(*                                                                         *)
(* A connection is a record; each operator below returns the connection    *)
(* after one operation, so a module with several connections (the relay)   *)
(* and a module with one (the publisher) use the same definitions.         *)
(* Control frames are counted as zero bytes of occupancy.                  *)
(***************************************************************************)
EXTENDS Integers, Sequences, Functions

CONSTANTS Streams,        \* the data streams of the connection
          SendQueueLimit, \* quic.sendQueueLimit: occupancy at which admission stops
          LowWaterMark    \* sendQueueLimit * sendQueueLowWaterRatio

Indications == {"full", "drain", "rejected"}

Requests == [op : {"data", "reset", "control"}, on : SUBSET Streams, len : Nat]

Connections ==
    [held     : [Streams -> Nat],          \* bytes queued or unacknowledged, per stream
     accept   : BOOLEAN,                   \* acceptDataFromApp
     requests : Seq(Requests),             \* sends and resets QUIC has not handled yet
     inds     : Seq(Indications),          \* indications the application has not handled yet
     rejected : SUBSET {"data", "control"}] \* kinds of write QUIC has discarded

FreshConnection ==
    [held     |-> [s \in Streams |-> 0],
     accept   |-> TRUE,
     requests |-> <<>>,
     inds     |-> <<>>,
     rejected |-> {}]

\* Quic::getSendQueueLength: bytes unsent plus bytes sent and not acknowledged.
Occupancy(c) == SumFunction(c.held)

-----------------------------------------------------------------------------
\* What the application asks for.

SendData(c, s, n) ==
    [c EXCEPT !.requests = Append(@, [op |-> "data", on |-> {s}, len |-> n])]

SendControl(c) ==
    [c EXCEPT !.requests = Append(@, [op |-> "control", on |-> {}, len |-> 0])]

\* One request stands for the resets one handler issues: they name distinct
\* streams, so their order does not matter.
ResetStreams(c, S) ==
    IF S = {} THEN c
    ELSE [c EXCEPT !.requests = Append(@, [op |-> "reset", on |-> S, len |-> 0])]

-----------------------------------------------------------------------------
\* What QUIC does.

\* The connection once its queue holds h: admission closes when the occupancy
\* reaches the limit, and reopens on the way down through the low-water mark.
WithHeld(c, h) ==
    LET before  == Occupancy(c)
        after   == SumFunction(h)
        full    == c.accept /\ after >= SendQueueLimit
        drained == before >= LowWaterMark /\ after < LowWaterMark
    IN  [c EXCEPT !.held   = h,
                  !.accept = IF full THEN FALSE ELSE IF drained THEN TRUE ELSE @,
                  !.inds   = IF full THEN Append(@, "full")
                             ELSE IF drained THEN Append(@, "drain") ELSE @]

\* QUIC handles the oldest request.
HandleRequest(c) ==
    LET r    == Head(c.requests)
        rest == [c EXCEPT !.requests = Tail(@)]
    IN  CASE r.op = "reset" ->
               WithHeld(rest, [s \in Streams |-> IF s \in r.on THEN 0 ELSE c.held[s]])
          [] r.op = "data" /\ c.accept ->
               WithHeld(rest, [s \in Streams |->
                                 IF s \in r.on THEN c.held[s] + r.len ELSE c.held[s]])
          [] r.op = "control" /\ c.accept -> rest
          [] OTHER ->
               [rest EXCEPT !.inds     = Append(@, "rejected"),
                            !.rejected = @ \cup ({r.op} \ {"reset"})]

\* The peer acknowledges one more byte of stream s.
Acknowledge(c, s) == WithHeld(c, [c.held EXCEPT ![s] = @ - 1])

\* The application takes the oldest indication.
TakeIndication(c) == [c EXCEPT !.inds = Tail(@)]
=============================================================================
