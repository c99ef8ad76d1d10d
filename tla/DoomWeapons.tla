----------------------------- MODULE DoomWeapons -----------------------------
(***************************************************************************)
(* The player's weapons in DOOM (p_pspr.c): the chain of states in which   *)
(* the weapon on the screen is raised, fired and lowered, the ammunition   *)
(* it uses, and what changes both in between: keys, pick-ups, cheats,      *)
(* death, a new level.                                                     *)
(*                                                                         *)
(* A weapon is changed and fired by the action routines of its states,     *)
(* which set states in their turn.  Ammunition is looked at when the       *)
(* trigger is pulled and taken some states later.  One player; the muzzle  *)
(* flash, which nothing depends on, is left out.  There are no second      *)
(* bodies of the player (voodoo dolls): a player has health while it is    *)
(* alive.                                                                  *)
(***************************************************************************)
EXTENDS Integers, Sequences

CONSTANTS Games,    \* bound: the modes of the game, with the weapons there are in each, and the extras
          MaxAmmo,  \* ammunition -> how much can be carried without a backpack
          BfgCells, \* deh_bfg_cells_per_shot (and 40, which it is, in P_CheckAmmo)
          Bottom    \* bound: steps from the top of the screen to WEAPONBOTTOM

Ammo == {"clip", "shell", "cell", "misl"}
Weapons == {"fist", "pistol", "shotgun", "chaingun", "missile", "plasma", "bfg", "chainsaw", "supershotgun"}
AmmoOf == [fist |-> "noammo", pistol |-> "clip", shotgun |-> "shell", chaingun |-> "clip", missile |-> "misl",
           plasma |-> "cell", bfg |-> "cell", chainsaw |-> "noammo", supershotgun |-> "shell"]
wp_nochange == "nochange"

ASSUME WeaponsAssumption ==
    /\ Games \subseteq [mode : {"registered", "commercial"}, arms : {a \in SUBSET Weapons : {"fist", "pistol"} \subseteq a},
                       extras : SUBSET {"backpack", "arsenal", "choppers", "god"}]
    /\ MaxAmmo \in [Ammo -> Nat \ {0}]
    /\ BfgCells \in Nat \ {0} /\ Bottom \in Nat \ {0, 1}

VARIABLES game,  \* the one of Games that is played
          player \* its fields as in player_t; health only as zero or not; shown and frame
                 \* are the weapon's psprite, sy its height in steps from the top

weaponVars == <<game, player>>

Player == [ready : Weapons, pending : Weapons \cup {wp_nochange}, owned : SUBSET Weapons,
           ammo : [Ammo -> Int], maxammo : [Ammo -> Nat], backpack : BOOLEAN, health : BOOLEAN,
           playerstate : {"LIVE", "DEAD", "REBORN"}, attackdown : BOOLEAN,
           shown : Weapons, frame : 0 .. 10, sy : 0 .. Bottom]

-----------------------------------------------------------------------------
(* The states (info.c): 1 is ready, 2 going down, 3 coming up, and the     *)
(* attack begins with 4.  States in a row that change nothing here are     *)
(* one, and those of the chain saw being ready, which alternate, too.      *)
Attack == [fist |-> <<"none", "ReFire">>, pistol |-> <<"none", "Fire", "none", "ReFire">>,
           shotgun |-> <<"none", "Fire", "none", "ReFire">>, chaingun |-> <<"FireCGun", "FireCGun", "ReFire">>,
           missile |-> <<"none", "Fire", "ReFire">>, plasma |-> <<"Fire", "ReFire">>,
           bfg |-> <<"none", "Fire", "ReFire">>, chainsaw |-> <<"none", "ReFire">>,
           supershotgun |-> <<"none", "Fire", "none", "CheckReload", "none", "ReFire", "ReFire">>]
LastOf(w) == 3 + Len(Attack[w])
ActionOf(w, i) ==
    CASE i = 1 -> "WeaponReady" [] i = 2 -> "Lower" [] i = 3 -> "Raise" [] OTHER -> Attack[w][i - 3]
NextState(w, i) == IF i <= 3 THEN i ELSE IF i = LastOf(w) THEN 1 ELSE i + 1
(* States of no tics and of one; any other lasts some.                     *)
Instant(w, i) == w \in {"chaingun", "missile", "chainsaw"} /\ i = LastOf(w)
Brief(w, i) == i \in {2, 3} \/ (i = 1 /\ w # "chainsaw")

Shot(w) == IF w = "bfg" THEN BfgCells ELSE IF w = "supershotgun" THEN 2 ELSE 1
Enough(p) == AmmoOf[p.ready] = "noammo" \/ p.ammo[AmmoOf[p.ready]] >= Shot(p.ready)

(* The weapon that is taken when the ammunition of the ready one is out:   *)
(* the first of these.                                                     *)
Preferred(p) ==
    LET has(w, a, least) == w \in p.owned /\ p.ammo[a] > least
    IN  IF has("plasma", "cell", 0) THEN "plasma"
        ELSE IF has("supershotgun", "shell", 2) /\ game.mode = "commercial" THEN "supershotgun"
        ELSE IF has("chaingun", "clip", 0) THEN "chaingun"
        ELSE IF has("shotgun", "shell", 0) THEN "shotgun"
        ELSE IF p.ammo["clip"] > 0 THEN "pistol"
        ELSE IF "chainsaw" \in p.owned THEN "chainsaw"
        ELSE IF has("missile", "misl", 0) THEN "missile"
        ELSE IF has("bfg", "cell", BfgCells) THEN "bfg"
        ELSE "fist"

-----------------------------------------------------------------------------
(* The action routines, which set states, which call action routines: a    *)
(* state and its routine are one operator where the state is known.        *)
(* attack is the fire button in player->cmd.                               *)

Shows(p, w, i) == [p EXCEPT !.shown = w, !.frame = i]

(* The state is the one coming up, whose A_Raise takes the weapon a first  *)
(* step up, and not to the top.                                            *)
P_BringUpWeapon(p) ==
    Shows([p EXCEPT !.pending = wp_nochange, !.sy = Bottom - 1],
          IF p.pending = wp_nochange THEN p.ready ELSE p.pending, 3)

A_Lower(p) ==
    IF p.sy + 1 < Bottom THEN [p EXCEPT !.sy = @ + 1]
    ELSE IF p.playerstate = "DEAD" THEN [p EXCEPT !.sy = Bottom]
    ELSE IF ~p.health THEN [p EXCEPT !.sy = @ + 1, !.frame = 0]
    ELSE P_BringUpWeapon([p EXCEPT !.ready = p.pending])

Lowered(p) == A_Lower(Shows(p, p.ready, 2))

P_CheckAmmo(p) == IF Enough(p) THEN p ELSE Lowered([p EXCEPT !.pending = Preferred(p)])

(* DecreaseAmmo by A_FirePistol, A_FireShotgun, ..., A_FireBFG.            *)
Fire(p) == IF AmmoOf[p.ready] = "noammo" THEN p ELSE [p EXCEPT !.ammo[AmmoOf[p.ready]] = @ - Shot(p.ready)]

(* A plausible bug: the second bullet of the chain gun is not looked for.  *)
FireUnlooked(p) == Fire(p)
A_FireCGun(p) == IF p.ammo["clip"] = 0 THEN p ELSE Fire(p)

Shoots(p) ==
    LET a == ActionOf(p.shown, p.frame)
    IN  IF a = "Fire" THEN Fire(p) ELSE IF a = "FireCGun" THEN A_FireCGun(p) ELSE p

P_FireWeapon(p) == IF Enough(p) THEN Shoots(Shows(p, p.ready, 4)) ELSE P_CheckAmmo(p)

A_WeaponReady(p, attack) ==
    LET top == [p EXCEPT !.sy = 0]
    IN  IF p.pending # wp_nochange \/ ~p.health THEN Lowered(p)
        ELSE IF ~attack THEN [top EXCEPT !.attackdown = FALSE]
        ELSE IF p.attackdown /\ p.ready \in {"missile", "bfg"} THEN top
        ELSE P_FireWeapon([p EXCEPT !.attackdown = TRUE])

A_ReFire(p, attack) == IF attack /\ p.pending = wp_nochange /\ p.health THEN P_FireWeapon(p) ELSE P_CheckAmmo(p)

A_Raise(p, attack) ==
    IF p.sy - 1 > 0 THEN [p EXCEPT !.sy = @ - 1]
    ELSE A_WeaponReady(Shows([p EXCEPT !.sy = 0], p.ready, 1), attack)

Routine(p, attack) ==
    LET a == ActionOf(p.shown, p.frame)
    IN  CASE a = "WeaponReady" -> A_WeaponReady(p, attack)
          [] a = "Lower" -> A_Lower(p)
          [] a = "Raise" -> A_Raise(p, attack)
          [] a = "ReFire" -> A_ReFire(p, attack)
          [] a = "CheckReload" -> P_CheckAmmo(p)
          [] OTHER -> Shoots(p)

(* After a state of no tics comes the ready one, which lasts.              *)
P_SetPsprite(p, w, i, attack) ==
    LET q == Routine(Shows(p, w, i), attack)
    IN  IF q.frame # 0 /\ Instant(q.shown, q.frame)
        THEN Routine(Shows(q, q.shown, NextState(q.shown, q.frame)), attack) ELSE q

(* P_MovePsprites: the tics of the state run out, or do not yet.           *)
P_MovePsprites(p, attack) ==
    IF p.frame = 0 THEN {p}
    ELSE {P_SetPsprite(p, p.shown, NextState(p.shown, p.frame), attack)}
         \cup IF Brief(p.shown, p.frame) THEN {} ELSE {p}

P_SetupPsprites(p) == P_BringUpWeapon([p EXCEPT !.frame = 0, !.pending = p.ready])

-----------------------------------------------------------------------------
(* What happens to the player.                                             *)

(* P_DamageMobj with more than the player has, P_KillMobj, P_DropWeapon.   *)
Kill(p) == Lowered([p EXCEPT !.health = FALSE, !.playerstate = "DEAD"])

(* P_GiveAmmo, with the weapon it brings up when there was none of it.     *)
Better(p, a) ==
    CASE a = "clip" /\ p.ready = "fist" -> IF "chaingun" \in p.owned THEN "chaingun" ELSE "pistol"
      [] a = "shell" /\ p.ready \in {"fist", "pistol"} -> "shotgun"
      [] a = "cell" /\ p.ready \in {"fist", "pistol"} -> "plasma"
      [] a = "misl" /\ p.ready = "fist" -> "missile"
      [] OTHER -> "none"
P_GiveAmmo(p, a, num) ==
    LET most == p.maxammo[a]
        q == [p EXCEPT !.ammo[a] = IF @ + num > most THEN most ELSE @ + num]
    IN  IF p.ammo[a] = most THEN p
        ELSE IF p.ammo[a] = 0 /\ Better(p, a) \in p.owned THEN [q EXCEPT !.pending = Better(p, a)] ELSE q

P_GiveWeapon(p, w, num) ==
    LET q == IF AmmoOf[w] = "noammo" THEN p ELSE P_GiveAmmo(p, AmmoOf[w], num)
    IN  IF w \in p.owned THEN q ELSE [q EXCEPT !.owned = @ \cup {w}, !.pending = w]

(* A backpack, and what it has of each kind of ammunition.                 *)
WithOne(p, a) == P_GiveAmmo(p, a, 1)
Backpack(p) ==
    LET q == IF p.backpack THEN p ELSE [p EXCEPT !.backpack = TRUE, !.maxammo = [a \in Ammo |-> 2 * p.maxammo[a]]]
    IN  WithOne(WithOne(WithOne(WithOne(q, "clip"), "shell"), "cell"), "misl")

(* G_PlayerReborn: all but the psprites is as when the game began.         *)
G_PlayerReborn(p) ==
    [p EXCEPT !.ready = "pistol", !.pending = "pistol", !.owned = {"fist", "pistol"},
              !.ammo = [a \in Ammo |-> IF a = "clip" THEN MaxAmmo[a] ELSE 0],
              !.maxammo = MaxAmmo, !.backpack = FALSE, !.health = TRUE, !.attackdown = TRUE]

P_SpawnPlayer(p) ==
    P_SetupPsprites([(IF p.playerstate = "REBORN" THEN G_PlayerReborn(p) ELSE p) EXCEPT !.playerstate = "LIVE"])

(* The weapon a key asks for (P_PlayerThink).  The fist is not asked for   *)
(* in vain only with a chain saw in hand and strength; the keys know no    *)
(* super shotgun.                                                          *)
Wanted(p, w, strength) ==
    CASE w = "fist" /\ "chainsaw" \in p.owned /\ ~(p.ready = "chainsaw" /\ strength) -> "chainsaw"
      [] w = "shotgun" /\ game.mode = "commercial" /\ "supershotgun" \in p.owned /\ p.ready # "supershotgun" -> "supershotgun"
      [] OTHER -> w

ChangeWeapon(p, w, strength) ==
    LET new == Wanted(p, w, strength) IN IF new \in p.owned /\ new # p.ready THEN [p EXCEPT !.pending = new] ELSE p

-----------------------------------------------------------------------------
WeaponsInit ==
    /\ game \in Games
    /\ LET new == [ready |-> "fist", pending |-> wp_nochange, owned |-> {}, ammo |-> MaxAmmo, maxammo |-> MaxAmmo,
                   backpack |-> FALSE, health |-> FALSE, playerstate |-> "REBORN", attackdown |-> FALSE,
                   shown |-> "fist", frame |-> 0, sy |-> 0]
       IN  player = P_SpawnPlayer(new)

(* P_PlayerThink of the living, who may be killed by the floor first.      *)
Think ==
    /\ player.playerstate = "LIVE"
    /\ \E p \in {player, Kill(player)}, attack \in BOOLEAN :
        \E q \in {p} \cup {ChangeWeapon(p, w, strength) : w \in game.arms \ {"supershotgun"}, strength \in BOOLEAN} :
            player' \in P_MovePsprites(q, attack)
    /\ UNCHANGED game

(* ... and P_DeathThink, where use asks for another life.                  *)
DeathThink ==
    /\ player.playerstate = "DEAD"
    /\ \E attack \in BOOLEAN, use \in BOOLEAN : \E p \in P_MovePsprites(player, attack) :
        player' = IF use THEN [p EXCEPT !.playerstate = "REBORN"] ELSE p
    /\ UNCHANGED game

Die ==
    /\ player.playerstate = "LIVE"
    /\ player' = Kill(player)
    /\ UNCHANGED game

(* P_TouchSpecialThing, by a body with health: that of the dead may slide. *)
Touch ==
    /\ player.health
    /\ \/ \E w \in game.arms : player' = P_GiveWeapon(player, w, 2)
       \/ \E w \in game.arms : AmmoOf[w] # "noammo" /\ player' = P_GiveAmmo(player, AmmoOf[w], 1)
       \/ "backpack" \in game.extras /\ player' = Backpack(player)
    /\ UNCHANGED game

(* The cheats of ST_Responder: idfa, idchoppers and iddqd.                 *)
Cheat ==
    /\ \/ "arsenal" \in game.extras /\ player' = [player EXCEPT !.owned = @ \cup game.arms, !.ammo = player.maxammo]
       \/ "choppers" \in game.extras /\ player' = [player EXCEPT !.owned = @ \cup {"chainsaw"}]
       \/ "god" \in game.extras /\ player' = [player EXCEPT !.health = TRUE]
    /\ UNCHANGED game

(* The level ends, and G_DoLoadLevel loads the next: the dead begin again. *)
NextLevel ==
    /\ player.playerstate # "REBORN"
    /\ player' = P_SpawnPlayer([player EXCEPT !.playerstate = IF @ = "DEAD" THEN "REBORN" ELSE @])
    /\ UNCHANGED game

(* G_Ticker, G_DoReborn and G_DoLoadLevel: the same level from the start.  *)
Reborn ==
    /\ player.playerstate = "REBORN"
    /\ player' = P_SpawnPlayer(player)
    /\ UNCHANGED game

WeaponsNext == Think \/ DeathThink \/ Die \/ Touch \/ Cheat \/ NextLevel \/ Reborn

WeaponsSpec == WeaponsInit /\ [][WeaponsNext]_weaponVars

-----------------------------------------------------------------------------
WeaponsTypeOK == game \in Games /\ player \in Player

(* Whatever the order of keys, shots, pick-ups, cheats, deaths and levels: *)
(* the player holds a weapon it owns and changes to one it owns, what it   *)
(* sees is the weapon its triggers fire, and ammunition, which is looked   *)
(* at in one state and taken in a later one, is never less than none nor   *)
(* more than can be carried.                                               *)
Armed ==
    /\ player.ready \in player.owned /\ player.shown = player.ready /\ player.frame # 0
    /\ player.pending \in player.owned \cup {wp_nochange}
    /\ \A a \in Ammo : player.ammo[a] \in 0 .. player.maxammo[a]
=============================================================================
