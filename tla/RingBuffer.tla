----------------------------- MODULE RingBuffer -----------------------------
(***************************************************************************)
(* were1_ring_buffer: positions that only grow, taken modulo the size when  *)
(* the memory is touched.  A buffer is a record of the two positions and of *)
(* what each cell holds.  Nothing in it knows whether there is room: the    *)
(* writer has to.  The positions are 64 bits wide and do not wrap around.   *)
(***************************************************************************)
EXTENDS Integers, SequencesExt

CONSTANT Size

ASSUME SizeAssumption == Size \in Nat \ {0}

Cells == 0 .. Size - 1

Cell(position) == position % Size

\* A new buffer; the memory is a new file, filled with zeros.
Initialized == [write |-> 0, read |-> 0, data |-> [c \in Cells |-> 0]]

\* How much of n bytes write_start and read_start grant: up to the end of
\* the memory.
Contiguous(position, n) ==
    LET max == Size - Cell(position)
    IN IF n > max THEN max ELSE n

BytesAvailable(b) == b.write - b.read

\* memcpy of the n bytes that begin with byte first to a granted place
Copied(b, first, n) ==
    [b EXCEPT !.data = [c \in Cells |->
        IF c \in Cell(b.write) .. Cell(b.write) + n - 1
        THEN first + c - Cell(b.write)
        ELSE @[c]]]

\* The n bytes that begin at cell c
Bytes(b, c, n) == [i \in 1 .. n |-> b.data[c + i - 1]]

\* Fault: the write position is forgotten.
ResetRead(b) == [b EXCEPT !.read = 0]

Reset(b) == [b EXCEPT !.write = 0, !.read = 0]

=============================================================================
