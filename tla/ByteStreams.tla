----------------------------- MODULE ByteStreams -----------------------------
(***************************************************************************)
(* Bytes that arrive on a stream: they are appended to a buffer, and the   *)
(* receive loop takes whole frames off its front.  The loop is the same in *)
(* every application; what a frame is, is the parser's.                    *)
(***************************************************************************)
EXTENDS Integers, Sequences

Byte == 0 .. 255
Bytes == Seq(Byte)

\* What is behind the first i bytes of b.
Behind(b, i) == SubSeq(b, i + 1, Len(b))

\* The receive loop: parse[b] says how many bytes at the front of b are whole, none if it has
\* to wait for more, and which frames they are.
Parsed(parse, bytes) ==
  LET from[i \in 0 .. Len(bytes)] ==
        LET r == parse[Behind(bytes, i)]
        IN  IF r.consumed = 0 THEN [frames |-> <<>>, buffer |-> Behind(bytes, i)]
            ELSE [frames |-> r.frames \o from[i + r.consumed].frames,
                  buffer |-> from[i + r.consumed].buffer]
  IN  from[0]

\* Bytes arrive behind those in the buffer.
Arrived(parse, buffer, bytes) == Parsed(parse, buffer \o bytes)
=============================================================================
