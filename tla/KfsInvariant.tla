---------------------------- MODULE KfsInvariant ----------------------------
(***************************************************************************)
(* The inductive invariant behind the safety of KfsVolume: what the        *)
(* committed state looks like on the disk, how the state being built       *)
(* relates to it, and what each slot of the ring may hold.  It holds when  *)
(* the device reports no error once a superblock is on its way to the disk *)
(* and none while mount reads the ring (see the runs that allow those).    *)
(***************************************************************************)
EXTENDS KfsVolume

EarlyFaultsOnly == Faults \cap {"superblock", "land", "mount"} = {}

(* A superblock whose bitmap marks exactly the blocks it leads to. *)
WellFormed(s) ==
    /\ s \in Superblocks
    /\ BitsOf(s) = BlocksOf(Pointers(s))
    /\ OnePerBlock(Pointers(s)) /\ NotShared(TreeOf(s))
    /\ \A p \in Pointers(s) : p.birth <= s.txg

CommittedBlocks == BlocksOf(Pointers(sb))

OnMedia(S) == \A p \in S : media[p.block] = {p.sum}

(* The disk's cache holds what was last written. *)
DeviceInv == \A a \in Addr : view[a] \in media[a]

CommittedInv == WellFormed(sb) /\ Durable(sb)

(* While a commit lands, its superblock may be on the disk: it leads to a  *)
(* state that is complete there.                                           *)
NextReady == WellFormed(NextSb) /\ OnMedia(Pointers(NextSb))

Older(c) == c = sb \/ c.kind # "sb" \/ (c \in Superblocks /\ c.txg < sb.txg)

SlotInv ==
    \A s \in SbSlot : \A c \in media[s] :
        \/ Older(c)
        \/ /\ phase \in {"land", "off"}
           /\ s = SlotOf(NextTxg) /\ c = NextSb /\ NextReady

(* A block of the state being built is one of the committed state's or was *)
(* written for the next txg; Fs::free tells which by the birth.            *)
BirthInv ==
    \A p \in LivePointers :
        /\ p.birth <= NextTxg
        /\ p.birth <= sb.txg <=> p.block \in CommittedBlocks

LiveInv ==
    /\ bits = BlocksOf(LivePointers)
    /\ OnePerBlock(LivePointers) /\ NotShared(tree)
    /\ held = CommittedBlocks \ bits
    /\ BirthInv
    /\ \A p \in LivePointers : view[p.block] = p.sum

(* What each phase of a commit has established. *)
PhaseInv ==
    /\ phase = "idle" => ~dirty
    /\ phase \in {"tree", "bitmap", "flush", "superblock", "land"} => dirty
    /\ phase \in {"bitmap", "flush", "superblock", "land"} => root.sum.tree = tree
    /\ phase \in {"flush", "superblock", "land"} => BitmapOf(index).sum.bits = bits
    /\ phase \in {"superblock", "land"} => OnMedia(LivePointers)
    /\ phase = "land" => view[SlotOf(NextTxg)] = NextSb

IInv ==
    /\ TypeOK /\ DeviceInv /\ CommittedInv /\ SlotInv
    /\ Mounted => LiveInv /\ PhaseInv
=============================================================================
