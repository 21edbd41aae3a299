----------------------------- MODULE MCSlotQueue -----------------------------
(* SlotQueue for TLC: three slots, so that the free list is reordered and a  *)
(* tag is reused while two others are at different points of their cycle.    *)
EXTENDS SlotQueue

==============================================================================
