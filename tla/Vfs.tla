--------------------------------- MODULE Vfs ---------------------------------
(***************************************************************************)
(* Moving and copying from one volume to another (vfs.rs).  No volume can  *)
(* do it alone: a move is a copy, made of calls to both, and a removal of  *)
(* the original, or of what there is of the copy if it fails.  Any call    *)
(* can fail, and the power be cut before any.                              *)
(*                                                                         *)
(* One file, or a folder of files, under names that the two volumes tell   *)
(* apart (two names that are one to FAT16 make the copy fail).  What moves *)
(* stay within a volume do is in KfsVolume and Fat16.                      *)
(***************************************************************************)
EXTENDS Naturals, FiniteSets

CONSTANTS Inside,   \* bound: the files of the folder
          OthersAt \* the steps at which another task makes things where the copy goes

ASSUME VfsAssumption ==
    IsFiniteSet(Inside) /\ "itself" \notin Inside /\ OthersAt \subseteq {"begin", "copy", "remove", "clean"}

VARIABLES what,   \* what is moved or copied: a file or a folder
          op,     \* rename or copy
          volume, \* "from" and "to" -> what is there under the path itself and the names in it
          step,   \* where the call is
          todo,   \* what copy_across has still to look at
          now,    \* what it has found missing at the destination and is about to make
          theirs, \* history: what the other task has made and not removed
          blind   \* history: a look failed at something that was there

Items == IF what = "file" THEN {"itself"} ELSE Inside \cup {"itself"}
FilesMoved == IF what = "file" THEN {"itself"} ELSE Inside
Outcomes == {"done", "failed", "refused"}
On(side, content) == {i \in Items : volume[side][i] = content}

vfsVars == <<what, op, volume, step, todo, now, theirs, blind>>

VfsInit ==
    /\ what \in {"file", "folder"} /\ op \in {"rename", "copy"}
    /\ volume = [side \in {"from", "to"} |-> [i \in Items |-> IF side = "from" THEN "ours" ELSE "none"]]
    /\ step = "begin" /\ todo = {"itself"} /\ now = {} /\ theirs = {} /\ blind = FALSE

(* stat_path(to).is_ok(): a look that fails sees nothing, whatever there   *)
(* is.                                                                     *)
Sees(i) == volume["to"][i] # "none" /\ blind' = blind
SeesNothing(i) == blind' = (blind \/ volume["to"][i] # "none")

(* rename's look at the destination; copy has none of its own.             *)
Begin ==
    /\ step = "begin"
    /\ \/ op = "rename" /\ Sees("itself") /\ step' = "refused"
       \/ op = "rename" /\ SeesNothing("itself") /\ step' = "copy"
       \/ op = "copy" /\ blind' = blind /\ step' = "copy"
    /\ UNCHANGED <<what, op, volume, todo, now, theirs>>

(* A plausible bug: the original goes, whatever became of the copy.        *)
GoesOn == IF op = "rename" THEN "remove" ELSE "failed"
(* Where the failure of copy_across leads: half a copy is removed.         *)
CopyFailed == IF op = "rename" THEN "clean" ELSE "failed"

(* copy_across looks for the next at the destination, and at the original, *)
(* which it may find missing or fail to read.                              *)
Look ==
    /\ step = "copy" /\ now = {} /\ todo # {}
    /\ \E i \in todo :
        \/ SeesNothing(i) /\ now' = {i} /\ step' = step
        \/ (Sees(i) \/ SeesNothing(i)) /\ now' = now /\ step' = CopyFailed
    /\ UNCHANGED <<what, op, volume, todo, theirs>>

(* ... and makes it: write_file replaces a file that is there by now,      *)
(* create_dir finds that there is one.                                     *)
Make ==
    /\ step = "copy"
    /\ \E i \in now :
        /\ i \notin FilesMoved => volume["to"][i] = "none"
        /\ volume' = [volume EXCEPT !["to"][i] = "ours"]
        /\ LET more == (todo \ {i}) \cup IF i \in FilesMoved THEN {} ELSE On("from", "ours") \ {i}
           IN  /\ todo' = more
               /\ step' = CASE more # {} -> "copy" [] more = {} /\ op = "rename" -> "remove" [] OTHER -> "done"
    /\ now' = {}
    /\ UNCHANGED <<what, op, theirs, blind>>
MakeFails ==
    /\ step = "copy" /\ now # {}
    /\ step' = CopyFailed /\ now' = {}
    /\ UNCHANGED <<what, op, volume, todo, theirs, blind>>

(* remove, which takes the files out of a folder before the folder, and    *)
(* may fail before any of them.                                            *)
Removes(side, end) ==
    /\ \/ \E i \in Items : /\ volume[side][i] # "none"
                           /\ i = "itself" => On(side, "none") = Items \ {i}
                           /\ volume' = [volume EXCEPT ![side][i] = "none"]
                           /\ step' = IF i = "itself" THEN end ELSE step
       \/ volume' = volume /\ step' = "failed"
    /\ UNCHANGED <<what, op, todo, now, theirs, blind>>
RemoveOriginal == step = "remove" /\ Removes("from", "done")
RemoveCopy == step = "clean" /\ Removes("to", "failed")

(* Another task, which makes something where there is nothing.             *)
Other ==
    /\ step \in OthersAt
    /\ \E i \in On("to", "none") :
        /\ i = "itself" \/ volume["to"]["itself"] # "none"
        /\ volume' = [volume EXCEPT !["to"][i] = "other"]
        /\ theirs' = theirs \cup {i}
    /\ UNCHANGED <<what, op, step, todo, now, blind>>

VfsNext == Begin \/ Look \/ Make \/ MakeFails \/ RemoveOriginal \/ RemoveCopy \/ Other

VfsSpec == VfsInit /\ [][VfsNext]_vfsVars

-----------------------------------------------------------------------------
VfsTypeOK ==
    /\ what \in {"file", "folder"} /\ op \in {"rename", "copy"}
    /\ volume \in [{"from", "to"} -> [Items -> {"none", "ours", "other"}]]
    /\ step \in Outcomes \cup {"begin", "copy", "remove", "clean"}
    /\ todo \subseteq Items /\ now \subseteq todo /\ theirs \subseteq Items /\ blind \in BOOLEAN

(* Whatever fails and whenever the power is cut: every file is whole in    *)
(* one place at least, a call that says it moved or copied did so with all *)
(* of them, and one that says it failed has left all of them together, at  *)
(* one end or the other.  What another task had there is overwritten or    *)
(* removed only after a look at the destination failed on it.              *)
NothingLost ==
    /\ FilesMoved \subseteq On("from", "ours") \cup On("to", "ours")
    /\ step = "done" => On("to", "ours") = Items /\ On("from", "ours") = IF op = "rename" THEN {} ELSE Items
    /\ step \in {"failed", "refused"} => \E side \in {"from", "to"} : FilesMoved \subseteq On(side, "ours")
    /\ ~blind => theirs \subseteq On("to", "other")
=============================================================================
