------------------------------- MODULE MCKfs -------------------------------
(* KfsVolume on a disk with a ring of three superblocks and eight blocks.  A *)
(* torn block matches no checksum, as the old contents of a free block do  *)
(* not, so only the superblocks are torn.                                  *)
EXTENDS KfsInvariant, TLC


MCAddr == (1 .. 3) \cup (4 .. 11)
MCGarbage == [kind |-> "garbage"]
MCTearable == 1 .. 3
Symmetry == Permutations(File) \cup Permutations(Value \ Small)
MCFaults == {"data", "op", "tree", "bitmap", "flush", "reload"}
LateFlushError == {"land"}
SlotReadError == {"mount"}
=============================================================================
