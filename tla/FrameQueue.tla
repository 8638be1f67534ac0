----------------------------- MODULE FrameQueue -----------------------------
(***************************************************************************)
(* What eth_receive_packet promises of the controller's receive buffer:    *)
(* frames are handed over in the order in which they were received, each   *)
(* once, whole or cut to the caller's buffer, or empty when the receive    *)
(* status vector reports an error.                                         *)
(***************************************************************************)
EXTENDS Integers, Sequences

CONSTANTS Frames,    \* frames: records with fields id, len and ok
          MaxData    \* the longest frame the caller's buffer holds

VARIABLES queue,     \* received frames that were not handed over
          packet     \* the data handed over last: a sequence of <<id, k>>

vars == <<queue, packet>>
----------------------------------------------------------------------------
Shorter(m, n) == IF m < n THEN m ELSE n

\* The first bytes of a frame, numbered from one.
DataOf(frame) ==
    IF frame.ok THEN [k \in 1 .. Shorter(frame.len, MaxData) |-> <<frame.id, k>>]
                ELSE << >>

Init == queue = << >> /\ packet = << >>

Receive(frame) ==
    /\ queue' = Append(queue, frame)
    /\ UNCHANGED packet

HandOver ==
    /\ queue # << >>
    /\ packet' = DataOf(Head(queue))
    /\ queue' = Tail(queue)

Next == HandOver \/ \E frame \in Frames : Receive(frame)

Spec == Init /\ [][Next]_vars
=============================================================================
