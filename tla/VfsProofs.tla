------------------------------ MODULE VfsProofs ------------------------------
(***************************************************************************)
(* That a move or a copy between volumes loses nothing, for any set of     *)
(* files in the folder, as long as other tasks keep away from the          *)
(* destination once the call has begun.                                    *)
(***************************************************************************)
EXTENDS Vfs, TLAPS

Alone == OthersAt \subseteq {"begin"}

Ours(side) == \A i \in Items : volume[side][i] = "ours"

(* What is true at each step.  While the copy is made, the original is     *)
(* whole, and what is not in todo has been made.                           *)
Copying ==
    /\ step \in {"begin", "copy", "clean"} => Ours("from")
    /\ step = "begin" => todo = {"itself"} /\ now = {} /\ \A i \in Items : volume["to"][i] # "ours"
    /\ step = "copy" => \/ todo = {"itself"}
                        \/ "itself" \notin todo /\ todo # {} /\ \A i \in Items \ todo : volume["to"][i] = "ours"
    /\ step \in {"clean", "remove"} => op = "rename"
    /\ step = "remove" => Ours("to")

(* Who came before, at the beginning, is in the way of all of it, as long  *)
(* as the looks see it.                                                    *)
InTheWay ==
    ~blind =>
        /\ \A i \in theirs : volume["to"][i] = "other"
        /\ theirs # {} => volume["to"]["itself"] = "other"
        /\ theirs # {} => step \in {"begin", "copy", "refused", "failed"}
        /\ theirs # {} /\ step = "copy" => now = {} /\ todo = {"itself"} /\ op = "copy"

Ended ==
    /\ step = "done" => Ours("to") /\ \A i \in Items : volume["from"][i] = IF op = "rename" THEN "none" ELSE "ours"
    /\ step \in {"failed", "refused"} => \E side \in {"from", "to"} : Ours(side)

IInv == VfsTypeOK /\ Copying /\ InTheWay /\ Ended

LEMMA ItemsFacts == "itself" \in Items /\ FilesMoved \subseteq Items
  BY DEF Items, FilesMoved

LEMMA InitIInv == VfsInit => IInv
  <1> SUFFICES ASSUME VfsInit PROVE IInv
    OBVIOUS
  <1>1. VfsTypeOK
    BY ItemsFacts DEF VfsInit, VfsTypeOK, Items, Outcomes
  <1>2. Copying /\ InTheWay /\ Ended
    BY ItemsFacts DEF VfsInit, Copying, InTheWay, Ended, Ours, Items
  <1> QED
    BY <1>1, <1>2 DEF IInv

(* What is moved or copied stays the same.                                 *)
LEMMA ItemsStay == [VfsNext]_vfsVars => what' = what /\ Items' = Items /\ FilesMoved' = FilesMoved
  BY DEF VfsNext, vfsVars, Begin, Look, Make, MakeFails, RemoveOriginal, RemoveCopy, Removes, Other, Items, FilesMoved

LEMMA BeginStep == ASSUME IInv, Begin, Items' = Items PROVE IInv'
  <1>1. VfsTypeOK'
    BY DEF IInv, Begin, Sees, SeesNothing, VfsTypeOK, Outcomes
  <1>2. Copying'
    BY DEF IInv, Begin, Copying, Ours
  <1>3. InTheWay'
    BY DEF IInv, Begin, Sees, SeesNothing, InTheWay, Copying, VfsTypeOK
  <1>4. Ended'
    BY DEF IInv, Begin, Ended, Copying, Ours
  <1> QED
    BY <1>1, <1>2, <1>3, <1>4 DEF IInv

(* Both Look and MakeFails may end the copy with nothing changed.          *)
LEMMA FailedCopy ==
    ASSUME IInv, step = "copy", step' = CopyFailed, now' \subseteq now, Items' = Items,
           UNCHANGED <<what, op, volume, todo, theirs>>, blind' \in BOOLEAN, blind => blind'
    PROVE  IInv'
  <1>1. step' = (IF op = "rename" THEN "clean" ELSE "failed")
    BY DEF CopyFailed
  <1>2. VfsTypeOK'
    BY <1>1 DEF IInv, VfsTypeOK, Outcomes
  <1>3. Copying'
    BY <1>1 DEF IInv, Copying, Ours
  <1>4. InTheWay'
    BY <1>1 DEF IInv, InTheWay
  <1>5. Ended'
    BY <1>1 DEF IInv, Ended, Copying, Ours
  <1> QED
    BY <1>2, <1>3, <1>4, <1>5 DEF IInv

LEMMA LookStep == ASSUME IInv, Look, Items' = Items PROVE IInv'
  <1>1. PICK i \in todo : \/ SeesNothing(i) /\ now' = {i} /\ step' = step
                          \/ (Sees(i) \/ SeesNothing(i)) /\ now' = now /\ step' = CopyFailed
    BY DEF Look
  <1>2. blind' \in BOOLEAN /\ (blind => blind')
    BY <1>1 DEF Sees, SeesNothing, IInv, VfsTypeOK
  <1>3. CASE now' = now /\ step' = CopyFailed
    BY <1>2, <1>3, FailedCopy DEF Look
  <1>4. CASE SeesNothing(i) /\ now' = {i} /\ step' = step
    <2>1. ~blind' => ~blind /\ volume["to"][i] = "none"
      BY <1>4 DEF SeesNothing, IInv, VfsTypeOK
    <2>2. ~blind' => theirs = {}
      BY <2>1 DEF IInv, InTheWay, Look
    <2>3. VfsTypeOK'
      BY <1>2, <1>4 DEF IInv, VfsTypeOK, Look
    <2>4. Copying'
      BY <1>4 DEF IInv, Copying, Ours, Look
    <2>5. InTheWay' /\ Ended'
      BY <1>4, <2>2 DEF IInv, InTheWay, Ended, Ours, Look
    <2> QED
      BY <2>3, <2>4, <2>5 DEF IInv
  <1> QED
    BY <1>1, <1>3, <1>4

LEMMA MakeStep == ASSUME Alone, IInv, Make, Items' = Items, FilesMoved' = FilesMoved PROVE IInv'
  <1>1. PICK i \in now :
          /\ i \notin FilesMoved => volume["to"][i] = "none"
          /\ volume' = [volume EXCEPT !["to"][i] = "ours"]
          /\ LET more == (todo \ {i}) \cup IF i \in FilesMoved THEN {} ELSE On("from", "ours") \ {i}
             IN  /\ todo' = more
                 /\ step' = CASE more # {} -> "copy" [] more = {} /\ op = "rename" -> "remove" [] OTHER -> "done"
    BY DEF Make
  <1>2. step = "copy" /\ now' = {} /\ UNCHANGED <<what, op, theirs, blind>>
    BY DEF Make
  <1>3. i \in todo /\ i \in Items /\ (~blind => theirs = {})
    BY <1>1, <1>2 DEF IInv, VfsTypeOK, InTheWay
  <1>4. /\ todo' \subseteq Items
        /\ step' = IF todo' # {} THEN "copy" ELSE IF op = "rename" THEN "remove" ELSE "done"
    BY <1>1, <1>3 DEF IInv, VfsTypeOK, On
  <1>5. /\ volume' \in [{"from", "to"} -> [Items -> {"none", "ours", "other"}]]
        /\ volume'["from"] = volume["from"]
        /\ volume'["to"] = [volume["to"] EXCEPT ![i] = "ours"]
    BY <1>1, <1>3 DEF IInv, VfsTypeOK
  <1>6. "itself" \notin todo' /\ \A j \in Items \ todo' : volume'["to"][j] = "ours"
    <2>1. CASE todo = {"itself"}
      <3>1. i = "itself"
        BY <1>3, <2>1
      <3>2. CASE what = "file"
        BY <1>1, <1>5, <2>1, <3>1, <3>2 DEF Items, FilesMoved, IInv, VfsTypeOK
      <3>3. CASE what = "folder"
        <4>1. i \notin FilesMoved
          BY <3>1, <3>3, VfsAssumption DEF FilesMoved
        <4>2. On("from", "ours") = Items
          BY <1>2 DEF IInv, Copying, Ours, On
        <4>3. todo' = Items \ {i}
          BY <1>1, <2>1, <3>1, <4>1, <4>2
        <4> QED
          BY <1>5, <3>1, <4>3 DEF IInv, VfsTypeOK
      <3> QED
        BY <3>2, <3>3 DEF IInv, VfsTypeOK
    <2>2. CASE "itself" \notin todo /\ \A j \in Items \ todo : volume["to"][j] = "ours"
      <3>1. i \in FilesMoved
        BY <1>3, <2>2 DEF Items, FilesMoved
      <3>2. todo' = todo \ {i}
        BY <1>1, <3>1
      <3> QED
        BY <1>5, <2>2, <3>2 DEF IInv, VfsTypeOK
    <2> QED
      BY <1>2, <2>1, <2>2 DEF IInv, Copying
  <1>7. VfsTypeOK'
    BY <1>2, <1>3, <1>4, <1>5 DEF IInv, VfsTypeOK, Outcomes
  <1>8. Ours("from") /\ Ours("from")'
    BY <1>2, <1>5 DEF IInv, Copying, Ours
  <1>9. Copying'
    BY <1>2, <1>4, <1>6, <1>8 DEF Copying, Ours
  <1>10. InTheWay'
    BY <1>2, <1>3 DEF InTheWay
  <1>11. Ended'
    BY <1>2, <1>4, <1>6, <1>8 DEF Ended, Ours
  <1> QED
    BY <1>7, <1>9, <1>10, <1>11 DEF IInv

LEMMA MakeFailsStep == ASSUME IInv, MakeFails, Items' = Items PROVE IInv'
  <1>1. blind' \in BOOLEAN /\ (blind => blind')
    BY DEF MakeFails, IInv, VfsTypeOK
  <1> QED
    BY <1>1, FailedCopy DEF MakeFails

(* The removal of the original takes place only with a whole copy.         *)
LEMMA RemoveOriginalStep == ASSUME IInv, RemoveOriginal, Items' = Items PROVE IInv'
  <1>1. /\ step = "remove" /\ op = "rename" /\ (~blind => theirs = {}) /\ Ours("to")
        /\ UNCHANGED <<what, op, todo, now, theirs, blind>>
    BY DEF RemoveOriginal, Removes, IInv, Copying, InTheWay
  <1>2. CASE volume' = volume /\ step' = "failed"
    <2>1. VfsTypeOK' /\ Copying' /\ InTheWay'
      BY <1>1, <1>2 DEF IInv, VfsTypeOK, Outcomes, Copying, InTheWay, Ours
    <2>2. Ended'
      BY <1>1, <1>2 DEF Ended, Ours
    <2> QED
      BY <2>1, <2>2 DEF IInv
  <1>3. ASSUME NEW i \in Items, i = "itself" => On("from", "none") = Items \ {i},
               volume' = [volume EXCEPT !["from"][i] = "none"],
               step' = IF i = "itself" THEN "done" ELSE step
        PROVE  IInv'
    <2>1. /\ volume' \in [{"from", "to"} -> [Items -> {"none", "ours", "other"}]]
          /\ volume'["to"] = volume["to"]
          /\ volume'["from"] = [volume["from"] EXCEPT ![i] = "none"]
      BY <1>3 DEF IInv, VfsTypeOK
    <2>2. VfsTypeOK'
      BY <1>1, <1>3, <2>1 DEF IInv, VfsTypeOK, Outcomes
    <2>3. Ours("to")'
      BY <1>1, <2>1 DEF Ours
    <2>4. Copying' /\ InTheWay'
      BY <1>1, <1>3, <2>3 DEF Copying, InTheWay
    <2>5. i = "itself" => \A j \in Items : volume'["from"][j] = "none"
      BY <1>3, <2>1 DEF On, IInv, VfsTypeOK
    <2>6. Ended'
      BY <1>1, <1>3, <2>3, <2>5 DEF Ended
    <2> QED
      BY <2>2, <2>4, <2>6 DEF IInv
  <1> QED
    BY <1>2, <1>3 DEF RemoveOriginal, Removes

(* The removal of half a copy takes place only with a whole original.      *)
LEMMA RemoveCopyStep == ASSUME IInv, RemoveCopy, Items' = Items PROVE IInv'
  <1>1. /\ step = "clean" /\ op = "rename" /\ (~blind => theirs = {}) /\ Ours("from")
        /\ UNCHANGED <<what, op, todo, now, theirs, blind>>
    BY DEF RemoveCopy, Removes, IInv, Copying, InTheWay
  <1>2. PICK i \in Items : volume' = volume \/ volume' = [volume EXCEPT !["to"][i] = "none"]
    BY ItemsFacts DEF RemoveCopy, Removes
  <1>3. step' \in {"clean", "failed"}
    BY <1>1 DEF RemoveCopy, Removes
  <1>4. /\ volume' \in [{"from", "to"} -> [Items -> {"none", "ours", "other"}]]
        /\ volume'["from"] = volume["from"]
    BY <1>2 DEF IInv, VfsTypeOK
  <1>5. VfsTypeOK'
    BY <1>1, <1>3, <1>4 DEF IInv, VfsTypeOK, Outcomes
  <1>6. Ours("from")'
    BY <1>1, <1>4 DEF Ours
  <1>7. Copying' /\ InTheWay' /\ Ended'
    BY <1>1, <1>3, <1>6 DEF Copying, InTheWay, Ended
  <1> QED
    BY <1>5, <1>7 DEF IInv

LEMMA OtherStep == ASSUME Alone, IInv, Other, Items' = Items PROVE IInv'
  <1>1. PICK i \in On("to", "none") :
          /\ i = "itself" \/ volume["to"]["itself"] # "none"
          /\ volume' = [volume EXCEPT !["to"][i] = "other"]
          /\ theirs' = theirs \cup {i}
    BY DEF Other
  <1>2. /\ step = "begin" /\ i \in Items /\ volume["to"][i] = "none"
        /\ UNCHANGED <<what, op, step, todo, now, blind>>
    BY <1>1 DEF Other, On, Alone
  <1>3. /\ volume' \in [{"from", "to"} -> [Items -> {"none", "ours", "other"}]]
        /\ volume'["from"] = volume["from"]
        /\ volume'["to"] = [volume["to"] EXCEPT ![i] = "other"]
    BY <1>1, <1>2 DEF IInv, VfsTypeOK
  <1>4. VfsTypeOK'
    BY <1>1, <1>2, <1>3 DEF IInv, VfsTypeOK
  <1>5. Copying'
    BY <1>2, <1>3 DEF IInv, VfsTypeOK, Copying, Ours
  <1>6. volume["to"]["itself"] \in {"none", "other"}
    BY <1>2, ItemsFacts DEF IInv, VfsTypeOK, Copying
  <1>7. InTheWay'
    BY <1>1, <1>2, <1>3, <1>6, ItemsFacts DEF IInv, VfsTypeOK, InTheWay
  <1>8. Ended'
    BY <1>2 DEF Ended
  <1> QED
    BY <1>4, <1>5, <1>7, <1>8 DEF IInv

LEMMA NextIInv == ASSUME Alone, IInv, [VfsNext]_vfsVars PROVE IInv'
  <1>1. what' = what /\ Items' = Items /\ FilesMoved' = FilesMoved
    BY ItemsStay
  <1>2. CASE Begin
    BY <1>1, <1>2, BeginStep
  <1>3. CASE Look
    BY <1>1, <1>3, LookStep
  <1>4. CASE Make
    BY <1>1, <1>4, MakeStep
  <1>5. CASE MakeFails
    BY <1>1, <1>5, MakeFailsStep
  <1>6. CASE RemoveOriginal
    BY <1>1, <1>6, RemoveOriginalStep
  <1>7. CASE RemoveCopy
    BY <1>1, <1>7, RemoveCopyStep
  <1>8. CASE Other
    BY <1>1, <1>8, OtherStep
  <1>9. CASE UNCHANGED vfsVars
    BY <1>1, <1>9 DEF vfsVars, IInv, VfsTypeOK, Copying, InTheWay, Ended, Ours
  <1> QED
    BY <1>2, <1>3, <1>4, <1>5, <1>6, <1>7, <1>8, <1>9 DEF VfsNext

LEMMA IInvSafe == ASSUME IInv PROVE NothingLost
  <1>1. \E side \in {"from", "to"} : Ours(side)
    BY DEF IInv, VfsTypeOK, Outcomes, Copying, Ended
  <1>2. FilesMoved \subseteq On("from", "ours") \cup On("to", "ours")
    BY <1>1, ItemsFacts DEF Ours, On
  <1>3. step = "done" => On("to", "ours") = Items /\ On("from", "ours") = IF op = "rename" THEN {} ELSE Items
    BY DEF IInv, Ended, Ours, On
  <1>4. step \in {"failed", "refused"} => \E side \in {"from", "to"} : FilesMoved \subseteq On(side, "ours")
    BY <1>1, ItemsFacts DEF Ours, On
  <1>5. ~blind => theirs \subseteq On("to", "other")
    BY DEF IInv, InTheWay, VfsTypeOK, On
  <1> QED
    BY <1>2, <1>3, <1>4, <1>5 DEF NothingLost

(* Whatever call fails and wherever the power is cut, a move or a copy     *)
(* between volumes loses no file of its own and reports what it has done,  *)
(* and what was in the way stays unless a look at the destination failed   *)
(* on it; whatever the folder holds, and as long as nobody writes at the   *)
(* destination after the call has begun.                                   *)
THEOREM MovesLoseNothing == ASSUME Alone PROVE VfsSpec => []NothingLost
  <1>1. VfsInit => IInv
    BY InitIInv
  <1>2. IInv /\ [VfsNext]_vfsVars => IInv'
    BY NextIInv
  <1>3. IInv => NothingLost
    BY IInvSafe
  <1> QED
    BY <1>1, <1>2, <1>3, PTL DEF VfsSpec

(* Type correctness of a move or a copy, under the same condition.         *)
THEOREM MoveTypes == ASSUME Alone PROVE VfsSpec => []VfsTypeOK
  <1>1. VfsInit => IInv
    BY InitIInv
  <1>2. IInv /\ [VfsNext]_vfsVars => IInv'
    BY NextIInv
  <1>3. IInv => VfsTypeOK
    BY DEF IInv
  <1> QED
    BY <1>1, <1>2, <1>3, PTL DEF VfsSpec
=============================================================================
