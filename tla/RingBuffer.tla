------------------------------- MODULE RingBuffer -------------------------------
(***************************************************************************)
(* circular_buffer (api/utils.cpp): bytes go in at end_index_, in one      *)
(* piece or, past the end of data_, in two, and come out at beg_index_ in  *)
(* the same way.  What does not fit, or is not there, is left.             *)
(***************************************************************************)
EXTENDS Naturals, Sequences, FiniteSetsExt

CONSTANTS CAPACITY, RingBytes

RingBufferAssumption == CAPACITY \in Nat \ {0} /\ RingBytes # {}

VARIABLES beg_index_, end_index_, size_, data_,
          kept,       \* history: what has been written and not yet read
          out         \* what the last read returned, and what it should have

vars == <<beg_index_, end_index_, size_, data_, kept, out>>

At   == 0 .. CAPACITY - 1
Blank == CHOOSE b \in RingBytes : TRUE

TypeOK ==
    /\ beg_index_ \in At /\ end_index_ \in At /\ size_ \in 0 .. CAPACITY
    /\ data_ \in [At -> RingBytes]

Init ==
    /\ beg_index_ = 0 /\ end_index_ = 0 /\ size_ = 0
    /\ data_ = [k \in At |-> Blank]
    /\ kept = <<>> /\ out = [read |-> <<>>, due |-> <<>>]

Least(a, b) == IF a < b THEN a ELSE b

\* (mutant) an index that reaches the end stays there
Advance_past(index, n) ==
    IF n <= CAPACITY - index THEN index + n ELSE n - (CAPACITY - index)

\* The index behind n bytes from index on, in one piece or in two.
Advance(index, n) ==
    IF n <= CAPACITY - index
    THEN IF index + n = CAPACITY THEN 0 ELSE index + n
    ELSE n - (CAPACITY - index)

\* Where the k-th byte of a piece or two lies.
Cell(index, k) ==
    LET size_1 == CAPACITY - index
    IN  IF k <= size_1 THEN index + k - 1 ELSE k - size_1 - 1

write(bytes) ==
    LET n == Least(Len(bytes), CAPACITY - size_)
    IN /\ data_' = [c \in At |->
                      IF \E k \in 1 .. n : Cell(end_index_, k) = c
                      THEN bytes[CHOOSE k \in 1 .. n : Cell(end_index_, k) = c]
                      ELSE data_[c]]
       /\ end_index_' = Advance(end_index_, n) /\ size_' = size_ + n
       /\ kept' = kept \o SubSeq(bytes, 1, n)
       /\ UNCHANGED <<beg_index_, out>>

read(len) ==
    LET n == Least(len, size_)
    IN /\ out' = [read |-> [k \in 1 .. n |-> data_[Cell(beg_index_, k)]],
                  due  |-> SubSeq(kept, 1, n)]
       /\ beg_index_' = Advance(beg_index_, n) /\ size_' = size_ - n
       /\ kept' = SubSeq(kept, n + 1, Len(kept))
       /\ UNCHANGED <<end_index_, data_>>

Amounts == 1 .. CAPACITY + 1

Next == \E len \in Amounts : read(len) \/ \E bytes \in [1 .. len -> RingBytes] : write(bytes)

Spec == Init /\ [][Next]_vars

--------------------------------------------------------------------------------
(* Properties.                                                             *)

(* What comes out is what went in, in order, wherever the end of the array *)
(* cuts it; and the three counts agree, full and empty told apart.         *)
InOrder ==
    /\ out.read = out.due
    /\ size_ = Len(kept) /\ (end_index_ + CAPACITY - beg_index_) % CAPACITY = size_ % CAPACITY
    /\ \A k \in 1 .. size_ : data_[Cell(beg_index_, k)] = kept[k]
================================================================================
