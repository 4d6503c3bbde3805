---------------------------- MODULE MC_PacketPool ----------------------------
(* A small instance of PacketPool; its slots are interchangeable.            *)
EXTENDS PacketPool, TLC

SlotSymmetry == Permutations(Slots)
=============================================================================
