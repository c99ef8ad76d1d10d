---------------------------- MODULE BlockDevice ----------------------------
(***************************************************************************)
(* A data disk as kernel/src/block.rs presents it to a filesystem: block   *)
(* reads and writes, and a flush.  The disk may cache writes and make them *)
(* durable in any order until it is told to flush, so for every address    *)
(* the module keeps what a read returns (`view') and everything the medium *)
(* could hold if the power failed now (`media').                           *)
(***************************************************************************)
CONSTANTS Addr,       \* the addresses the volume uses, in blocks
          Garbage,    \* a torn block: it matches no checksum
          Tearable    \* the addresses where a write may be left half done

VARIABLES view,       \* Addr -> the contents a read returns
          media       \* Addr -> the contents a power failure may leave

device == <<view, media>>

-----------------------------------------------------------------------------
Torn(a) == IF a \in Tearable THEN {Garbage} ELSE {}

MediaAfter(written) ==
    [a \in Addr |-> IF a \in DOMAIN written
                    THEN media[a] \cup {written[a]} \cup Torn(a)
                    ELSE media[a]]

(* block::write that succeeds, of the blocks in the domain of `written': a *)
(* later power failure may still leave the old contents, or half of a block. *)
Write(written) ==
    /\ view' = [a \in Addr |-> IF a \in DOMAIN written THEN written[a] ELSE view[a]]
    /\ media' = MediaAfter(written)

(* block::write that reports an error: any part of it may have happened. *)
WriteFails(written) ==
    /\ \E done \in SUBSET DOMAIN written, torn \in SUBSET (DOMAIN written \cap Tearable) :
          view' = [a \in Addr |-> IF a \in torn THEN Garbage
                                  ELSE IF a \in done THEN written[a] ELSE view[a]]
    /\ media' = MediaAfter(written)

(* block::flush: everything written so far is durable. *)
Flush ==
    /\ media' = [a \in Addr |-> {view[a]}]
    /\ UNCHANGED view

(* block::flush that reports an error promises nothing about any write. *)
FlushFails == UNCHANGED device

(* After a power failure: what one unsettled address turns out to hold. *)
Settle(a) ==
    /\ media[a] # {view[a]}
    /\ \E c \in media[a] :
          /\ view' = [view EXCEPT ![a] = c]
          /\ media' = [media EXCEPT ![a] = {c}]

Settled == \A a \in Addr : media[a] = {view[a]}
=============================================================================
