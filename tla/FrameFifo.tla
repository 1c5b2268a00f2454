------------------------------ MODULE FrameFifo ------------------------------
(***************************************************************************)
(* What the receiver of the serial line promises the layers above it: a    *)
(* bounded queue of frames, each a run of bytes as they came on the line,  *)
(* in the order of their coming.  A byte is its number on the line.        *)
(***************************************************************************)
EXTENDS Naturals, Sequences

CONSTANTS Capacity, RxSize, MaxBytes

VARIABLE fifo

\* Runs of consecutive bytes, the empty one included.
Runs == {[i \in 1 .. l |-> a + i - 1] : a \in 1 .. MaxBytes, l \in 0 .. RxSize}

Later(f, q) == \A i \in DOMAIN f, j \in DOMAIN q : \A m \in DOMAIN q[j] : f[i] > q[j][m]

Init == fifo = <<>>

Put == \E f \in Runs :
         /\ Len(fifo) < Capacity /\ Later(f, fifo)
         /\ fifo' = Append(fifo, f)

\* Taken, or given up: the oldest.
Get == fifo # <<>> /\ fifo' = Tail(fifo)

Replace == \E f \in Runs :
             /\ Len(fifo) = Capacity /\ Later(f, fifo)
             /\ fifo' = Append(Tail(fifo), f)

Next == Put \/ Get \/ Replace

Spec == Init /\ [][Next]_fifo
================================================================================
