------------------------------- MODULE MCVm -------------------------------
(* User memory for TLC.  The first space has three pages that can be       *)
(* mapped, enough for a region to be cut at both ends; the second has one  *)
(* of those and a page of heap next to it.  Eight frames are enough for    *)
(* one space, but leave two when both are loaded.                          *)
EXTENDS Vm, TLC

CONSTANTS s1, s2, file

MCFrames == 1 .. 8
MCSpan == (0 :> 1) @@ (1 :> 4) @@ (2 :> 8)
MCLoader == {1}
MCFilePages == (file :> 2)
MCRequests == {[prot |-> {"r", "w"}, shared |-> FALSE, file |-> None, offset |-> 0],
               [prot |-> {"r"}, shared |-> TRUE, file |-> file, offset |-> 0]}
MCProts == {{}, {"r", "w"}}
MCFixed == 3 .. 5
MCTouched == (s1 :> 3 .. 5) @@ (s2 :> {2, 3})
MCStored == {3, 4}

(* Which frame is where matters only to FramesExact. *)
View == <<regions, [s \in Spaces |-> DOMAIN nodes[s]], ptes, breaks, panic,
          Free, Cardinality(orphans), used = {FrameAt(x) : x \in Places} \cup orphans,
          Cardinality({FrameAt(x) : x \in Places}), orphans \cap {FrameAt(x) : x \in Places} = {}>>
============================================================================
