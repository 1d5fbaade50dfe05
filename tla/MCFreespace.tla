----------------------------- MODULE MCFreespace ----------------------------
(* Small ROMs for the freespace finder: a LoROM bank of 8 bytes, a RATS tag *)
(* of 2, so that $80000 becomes 8 and a megabyte 16.                       *)
EXTENDS Freespace

\* ROM bytes in use from the start: one in the middle and one in the last
\* bytes of a bank, and a bank with a hole.
MCUsed == { {9}, {15}, {16, 17, 23} }
=============================================================================
