------------------------------ MODULE PcmFifo ------------------------------
(***************************************************************************)
(* What a voip::RingBuffer promises to the two audio threads it decouples: *)
(* a bounded first-in first-out queue of PCM samples.  A push appends what *)
(* fits and drops the rest; a pop takes samples from the front.  Samples   *)
(* are numbered in the order in which push accepted them.                  *)
(***************************************************************************)
EXTENDS Naturals, Sequences

CONSTANT
    Room           \* samples the buffer can hold

VARIABLES
    queue,         \* the samples held
    written        \* samples accepted so far

FifoInit == queue = <<>> /\ written = 0

\* push accepts n samples.
FifoPush(n) ==
    /\ Len(queue) + n <= Room
    /\ queue' = queue \o [i \in 1..n |-> written + i]
    /\ written' = written + n

\* pop hands out n samples.
FifoPop(n) ==
    /\ n <= Len(queue)
    /\ queue' = SubSeq(queue, n + 1, Len(queue))
    /\ written' = written

FifoNext == \E n \in 1..Room : FifoPush(n) \/ FifoPop(n)

FifoSpec == FifoInit /\ [][FifoNext]_<<queue, written>>
=============================================================================
