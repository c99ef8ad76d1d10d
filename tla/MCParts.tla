------------------------------- MODULE MCParts -------------------------------
(***************************************************************************)
(* Eight parts that share no state, model-checked in one run: the kernel's *)
(* heap, KonjacFS's tree, the FAT16 driver, moves between volumes, and     *)
(* DOOM's moving sectors, memory, player's weapons and flow of states.     *)
(* A behaviour is one of the part chosen at its beginning; the others stay *)
(* as they begin.                                                          *)
(***************************************************************************)
EXTENDS DoomFlow, DoomMovers, DoomWeapons, DoomZone, Vfs, Fat16, Heap, TLC

VARIABLE part

VARIABLES root, committed, freed, changes, folder, before

CONSTANTS BLOCK, HEADER, ITEM_HEADER, INTERIOR_ENTRY, HashSlots, MaxChanges

MCEnding == ("m1" :> "level") @@ ("m2" :> "text") @@ ("m3" :> "victory")
MCPages == [i \in 0 .. 5 |-> i % 2 = 0]

(* The lumps' lengths. *)
MCLumpLength == ("x" :> 1) @@ ("y" :> 2)

MCFiles == {<<"a">>, <<"d", "a">>, <<"d", "b">>}
MCPaths == MCFiles \cup {<<"d">>}

(* Names: two pairs with the same hash, and two on their own.  Entries     *)
(* fill five eighths of a block, half of one or an eighth.                 *)
MCHash == ("a" :> 0) @@ ("c" :> 0) @@ ("d" :> 2) @@ ("e" :> 4) @@ ("f" :> 4) @@ ("b" :> 6)
MCLength == ("a" :> 3) @@ ("b" :> 0) @@ ("c" :> 4) @@ ("d" :> 3) @@ ("e" :> 4) @@ ("f" :> 4)

(* Two sectors with tag 1, of which 2 is the stair after 1 and the ring    *)
(* around it; behind a door line and with tag 2, sector 3.                 *)
L(by, ev, type, tag, side, once) == [by |-> by, ev |-> ev, type |-> type, tag |-> tag, side |-> side, once |-> once]
MCTag == <<1, 1, 2>>
MCBeside == <<2, 1, 3>>
MCLines == <<
    L("cross", "EV_DoPlat", "perpetual", 1, 0, FALSE), L("use", "EV_DoPlat", "raise", 1, 0, FALSE),
    L("cross", "EV_StopPlat", "", 1, 0, FALSE),
    L("use", "EV_DoCeiling", "raiseToHighest", 1, 0, FALSE), L("cross", "EV_DoCeiling", "crushAndRaise", 1, 0, FALSE),
    L("cross", "EV_CeilingCrushStop", "", 1, 0, FALSE),
    L("use", "EV_DoFloor", "raiseFloor", 1, 0, FALSE), L("cross", "EV_BuildStairs", "", 1, 0, FALSE),
    L("use", "EV_DoDonut", "", 1, 0, FALSE),
    L("use", "EV_DoDoor", "close", 2, 0, FALSE), L("use", "manual", "normal", 0, 3, FALSE),
    L("use", "manual", "open", 0, 3, FALSE)>>

(* A game for each of the interplays: the two shotguns and their shells,   *)
(* the fist, the chain saw and bullets, death and what undoes it, cells.   *)
G(mode, arms, extras) == [mode |-> mode, arms |-> arms \cup {"fist", "pistol"}, extras |-> extras]
MCGames == {
    G("commercial", {"shotgun", "supershotgun"}, {"arsenal"}), G("registered", {"chaingun", "chainsaw"}, {"backpack"}),
    G("registered", {"missile", "chainsaw"}, {"choppers", "god"}), G("registered", {"plasma", "bfg"}, {"arsenal"})}
MCMaxAmmo == [clip |-> 1, shell |-> 3, cell |-> 3, misl |-> 1]

treeVars == <<root, committed, freed, changes, folder, before>>

T == INSTANCE KfsTree WITH Names <- DOMAIN MCHash, Hash <- MCHash, Length <- MCLength, Slots <- HashSlots

ASSUME PartsAssumption == T!TreeAssumption

PartsInit ==
    /\ part \in {"fat16", "movers", "zone", "flow", "weapons", "vfs", "tree", "heap"}
    /\ Init /\ (part # "flow" => gamemap = "m1")
    /\ FatInit /\ MoversInit /\ ZoneInit /\ WeaponsInit /\ VfsInit /\ T!Init /\ HeapInit
    /\ part # "vfs" => what = "file" /\ op = "copy"
    /\ part # "weapons" => game.mode = "commercial"

PartsNext ==
    \/ part = "flow" /\ Next /\ UNCHANGED <<part, fatVars, moverVars, zoneVars, weaponVars, vfsVars, treeVars, heapVars>>
    \/ part = "fat16" /\ FatNext /\ UNCHANGED <<part, vars, moverVars, zoneVars, weaponVars, vfsVars, treeVars, heapVars>>
    \/ part = "movers" /\ MoversNext /\ UNCHANGED <<part, vars, fatVars, zoneVars, weaponVars, vfsVars, treeVars, heapVars>>
    \/ part = "zone" /\ ZoneNext /\ UNCHANGED <<part, vars, fatVars, moverVars, weaponVars, vfsVars, treeVars, heapVars>>
    \/ part = "weapons" /\ WeaponsNext /\ UNCHANGED <<part, vars, fatVars, moverVars, zoneVars, vfsVars, treeVars, heapVars>>
    \/ part = "vfs" /\ VfsNext /\ UNCHANGED <<part, vars, fatVars, moverVars, zoneVars, weaponVars, treeVars, heapVars>>
    \/ part = "tree" /\ T!Next /\ UNCHANGED <<part, vars, fatVars, moverVars, zoneVars, weaponVars, vfsVars, heapVars>>
    \/ part = "heap" /\ HeapNext /\ UNCHANGED <<part, vars, fatVars, moverVars, zoneVars, weaponVars, vfsVars, treeVars>>

all == <<part, vars, fatVars, moverVars, zoneVars, weaponVars, vfsVars, treeVars, heapVars>>
FlowTic == part = "flow" /\ Tic /\ UNCHANGED <<part, fatVars, moverVars, zoneVars, weaponVars, vfsVars, treeVars, heapVars>>

PartsSpec == PartsInit /\ [][PartsNext]_all /\ WF_all(FlowTic)

(* The properties of the parts, which most of their modules state under    *)
(* names of their own: IntermissionPaired and NotInterrupted in DoomFlow,  *)
(* ZoneSound and OwnersExact in DoomZone, NoDangling and Revivable in      *)
(* DoomMovers, Armed in DoomWeapons, NothingLost in Vfs, HeapExact in      *)
(* Heap, ChainsApart, Accounted, OthersSurvive and OthersUnwritten in      *)
(* Fat16.  They are true of what they are about while another part runs.   *)

(* The type invariants of all of them.                                     *)
PartsTypeOK ==
    /\ TypeOK
    /\ part = "fat16" => FatTypeOK
    /\ part = "movers" => MoversTypeOK
    /\ part = "zone" => ZoneTypeOK
    /\ part = "weapons" => WeaponsTypeOK
    /\ part = "vfs" => VfsTypeOK
    /\ part = "tree" => T!TypeOK
    /\ part = "heap" => HeapTypeOK

(* KfsTree: scans give the folder's entries, and look-ups find its names.  *)
FolderExact == part = "tree" => T!FolderExact

(* KfsTree: nodes fit in blocks, and what is committed is not touched.     *)
TreeSound == part = "tree" => T!TreeSound

(* DoomFlow: the title page comes again and again.                         *)
TitleReturns == part = "flow" => AttractLoop
=============================================================================
