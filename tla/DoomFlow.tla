------------------------------ MODULE DoomFlow ------------------------------
(***************************************************************************)
(* What DOOM is showing: the loop of title pages and demos (d_main.c),     *)
(* the user's game and its changes of state (g_game.c), the intermission   *)
(* (wi_stuff.c), the finale (f_finale.c) and the menu's requests           *)
(* (m_menu.c), as a tic runs them (d_net.c RunTic, G_Ticker).              *)
(*                                                                         *)
(* Whoever wants the state changed writes gameaction, and the last to      *)
(* write is heard.  The menu runs between tics; a save or a pause travels  *)
(* to its tic in a command, and other tics may run before.  One player,    *)
(* no network, demos of one player.  Errors of files end the program and   *)
(* are left out.                                                           *)
(***************************************************************************)
EXTENDS Integers

CONSTANTS Maps,        \* the levels
          Ending,      \* map -> what follows it: "level"; "text", a finale before the next
                       \* level; "cast" or "victory", the end of the game
          Pages,       \* demosequence -> a page is shown; otherwise a demo is played
          DemoLength,  \* bound: tics of a demo
          PageTics     \* bound: tics a page is shown

ASSUME FlowAssumption ==
    /\ Ending \in [Maps -> {"level", "text", "cast", "victory"}]
    /\ DOMAIN Pages = 0 .. 5 /\ Pages[0]
    /\ DemoLength \in Nat /\ PageTics \in Nat

VARIABLES gameaction, gamestate, oldgamestate, gamemap,
          advancedemo, demosequence, pagetic, demoplayback, demo_p,
          usergame, playerstate, paused,
          send,      \* sendsave, sendpause
          queued,    \* the special buttons of a command on its way
          menu,      \* the question the menu waits to have answered
          wi,        \* the intermission: how often its pictures are loaded, and if it is over
          asked,     \* history: the user has asked for the title
          pc

vars == <<gameaction, gamestate, oldgamestate, gamemap, advancedemo, demosequence, pagetic, demoplayback,
          demo_p, usergame, playerstate, paused, send, queued, menu, wi, asked, pc>>
demo == <<advancedemo, demosequence, pagetic>>
user == <<send, queued, menu, asked>>

GameActions == {"nothing", "loadlevel", "newgame", "loadgame", "savegame", "playdemo", "completed",
                "victory", "worlddone", "screenshot"}
GameStates == {"LEVEL", "INTERMISSION", "FINALE", "DEMOSCREEN"}

-----------------------------------------------------------------------------
(* The menu and the keyboard, between tics.                                *)

Between == pc = "idle"

Request(action) ==
    /\ gameaction' = action
    /\ UNCHANGED <<gamestate, oldgamestate, gamemap, demo, demoplayback, demo_p, usergame, playerstate, paused, wi, pc>>

M_ChooseSkill  == Between /\ Request("newgame") /\ menu' = "closed" /\ UNCHANGED <<send, queued, asked>>
M_LoadSelect   == Between /\ Request("loadgame") /\ menu' = "closed" /\ UNCHANGED <<send, queued, asked>>
G_ScreenShot   == Between /\ Request("screenshot") /\ UNCHANGED user

(* M_SaveGame and M_EndGame look at the game when the menu opens, M_DoSave *)
(* and M_EndGameResponse do not look again.                                *)
Opens(question) ==
    /\ Between /\ menu' = question /\ usergame
    /\ question = "save" => gamestate = "LEVEL"
    /\ Request(gameaction)
    /\ UNCHANGED <<send, queued, asked>>

M_DoSave ==
    /\ Between /\ menu = "save"
    /\ menu' = "closed" /\ send' = "save"
    /\ Request(gameaction) /\ UNCHANGED <<queued, asked>>

(* The pause key, which during pages and demos opens the menu instead.  If *)
(* a save waits to be sent too, it takes the pause's place.                *)
SendPause ==
    /\ Between
    /\ gameaction = "nothing" => ~demoplayback /\ gamestate # "DEMOSCREEN"
    /\ send' = IF send = "save" THEN "save" ELSE "pause"
    /\ Request(gameaction) /\ UNCHANGED <<queued, menu, asked>>

G_BuildTiccmd ==
    /\ Between /\ send # "none" /\ queued = "none"
    /\ queued' = send /\ send' = "none"
    /\ Request(gameaction) /\ UNCHANGED <<menu, asked>>

(* M_EndGameResponse: D_StartTitle.                                        *)
D_StartTitle ==
    /\ Between /\ menu = "end"
    /\ menu' = "closed" /\ asked' = TRUE
    /\ gameaction' = "nothing" /\ demosequence' = -1 /\ advancedemo' = TRUE
    /\ UNCHANGED <<gamestate, oldgamestate, gamemap, pagetic, demoplayback, demo_p, usergame, playerstate,
                   paused, send, queued, wi, pc>>

User == M_ChooseSkill \/ M_LoadSelect \/ G_ScreenShot \/ Opens("save") \/ Opens("end") \/ M_DoSave
        \/ SendPause \/ G_BuildTiccmd \/ D_StartTitle

-----------------------------------------------------------------------------
(* A tic begins: the next page or demo, then reborn players.               *)

Turn == (demosequence + 1) % 6

(* Plausible bug: a dead player's wish to begin anew survives the game.    *)
Spared(s) == s
PlayerAfter(s) == "live"

D_DoAdvanceDemo ==
    /\ Between /\ advancedemo
    /\ playerstate' = PlayerAfter(playerstate)
    /\ advancedemo' = FALSE /\ usergame' = FALSE /\ paused' = FALSE /\ asked' = FALSE
    /\ demosequence' = Turn
    /\ IF Pages[Turn] THEN gamestate' = "DEMOSCREEN" /\ pagetic' = PageTics /\ gameaction' = "nothing"
       ELSE gameaction' = "playdemo" /\ UNCHANGED <<gamestate, pagetic>>
    /\ pc' = "reborn"
    /\ UNCHANGED <<oldgamestate, gamemap, demoplayback, demo_p, send, queued, menu, wi>>

NoAdvance == Between /\ ~advancedemo /\ pc' = "reborn"
             /\ UNCHANGED <<gameaction, gamestate, oldgamestate, gamemap, demo, demoplayback, demo_p, usergame,
                            playerstate, paused, user, wi>>

G_DoReborn ==
    /\ pc = "reborn"
    /\ gameaction' = IF playerstate = "reborn" THEN "loadlevel" ELSE gameaction
    /\ pc' = "actions"
    /\ UNCHANGED <<gamestate, oldgamestate, gamemap, demo, demoplayback, demo_p, usergame, playerstate, paused, user, wi>>

-----------------------------------------------------------------------------
(* gameaction, as long as there is one.                                    *)

Acts(action) == pc = "actions" /\ gameaction = action

G_DoLoadLevel(player) ==
    /\ gamestate' = "LEVEL" /\ gameaction' = "nothing"
    /\ playerstate' = player           \* P_SpawnPlayer
    /\ send' = "none" /\ paused' = FALSE

(* Plausible bug: a demo that is playing goes on under the new game.       *)
G_InitNewOverDemo(map, player) ==
    /\ G_DoLoadLevel(player)
    /\ usergame' = TRUE /\ gamemap' = map
    /\ UNCHANGED demoplayback
G_InitNew(map, player) ==
    /\ G_DoLoadLevel(player)
    /\ usergame' = TRUE /\ demoplayback' = FALSE /\ gamemap' = map

LoadLevel ==
    /\ Acts("loadlevel") /\ G_DoLoadLevel("live")
    /\ UNCHANGED <<oldgamestate, gamemap, demo, demoplayback, demo_p, usergame, queued, menu, wi, asked, pc>>

G_DoNewGame ==
    /\ Acts("newgame")
    /\ \E map \in Maps : G_InitNew(map, "live")
    /\ UNCHANGED <<oldgamestate, demo, demo_p, queued, menu, wi, asked, pc>>

(* A game that was saved when the player was dead comes back so.           *)
G_DoLoadGame ==
    /\ Acts("loadgame")
    /\ \E map \in Maps, player \in {"live", "dead"} : G_InitNew(map, player)
    /\ UNCHANGED <<oldgamestate, demo, demo_p, queued, menu, wi, asked, pc>>

Nothing ==
    /\ gameaction' = "nothing"
    /\ UNCHANGED <<gamestate, oldgamestate, gamemap, demo, demoplayback, demo_p, usergame, playerstate, paused, user, wi, pc>>

(* The file is gone or is of another version; a save; a screen shot.       *)
LoadGameFails == Acts("loadgame") /\ Nothing
G_DoSaveGame == Acts("savegame") /\ Nothing
V_ScreenShot == Acts("screenshot") /\ Nothing

G_DoPlayDemo ==
    /\ Acts("playdemo")
    /\ \E map \in Maps : G_DoLoadLevel("live") /\ gamemap' = map
    /\ usergame' = FALSE /\ demoplayback' = TRUE /\ demo_p' = 0
    /\ UNCHANGED <<oldgamestate, demo, queued, menu, wi, asked, pc>>

G_DoCompleted ==
    /\ Acts("completed")
    /\ IF Ending[gamemap] = "victory" THEN gameaction' = "victory" /\ UNCHANGED <<gamestate, wi>>
       ELSE gameaction' = "nothing" /\ gamestate' = "INTERMISSION" /\ wi' = [loaded |-> wi.loaded + 1, over |-> FALSE]
    /\ UNCHANGED <<oldgamestate, gamemap, demo, demoplayback, demo_p, usergame, playerstate, paused, user, pc>>

Victory ==
    /\ Acts("victory")
    /\ gameaction' = "nothing" /\ gamestate' = "FINALE"
    /\ UNCHANGED <<oldgamestate, gamemap, demo, demoplayback, demo_p, usergame, playerstate, paused, user, wi, pc>>

G_DoWorldDone ==
    /\ Acts("worlddone")
    /\ G_DoLoadLevel("live") /\ \E map \in Maps : gamemap' = map
    /\ UNCHANGED <<oldgamestate, demo, demoplayback, demo_p, usergame, queued, menu, wi, asked, pc>>

Action == LoadLevel \/ G_DoNewGame \/ G_DoLoadGame \/ LoadGameFails \/ G_DoSaveGame \/ V_ScreenShot
          \/ G_DoPlayDemo \/ G_DoCompleted \/ Victory \/ G_DoWorldDone

-----------------------------------------------------------------------------
(* The commands of this tic, and WI_End.                                   *)

DemoEnds == demoplayback /\ demo_p = DemoLength

(* G_ReadDemoTiccmd; at its end G_CheckDemoStatus, and this tic has the    *)
(* user's command.  The queued command is that of this tic or of a later   *)
(* one.                                                                    *)
Buttons(now) == IF now /\ (~demoplayback \/ DemoEnds) THEN queued ELSE "none"

Unload == oldgamestate = "INTERMISSION" /\ gamestate # "INTERMISSION"

Commands ==
    /\ pc = "actions" /\ gameaction = "nothing"
    /\ demoplayback' = (demoplayback /\ ~DemoEnds)
    /\ advancedemo' = (advancedemo \/ DemoEnds)
    /\ demo_p' = IF demoplayback /\ ~DemoEnds THEN demo_p + 1 ELSE demo_p
    /\ \E now \in BOOLEAN :
           /\ queued' = IF now THEN "none" ELSE queued
           /\ paused' = IF Buttons(now) = "pause" THEN ~paused ELSE paused
           /\ gameaction' = IF Buttons(now) = "save" THEN "savegame" ELSE gameaction
    /\ wi' = IF Unload THEN [wi EXCEPT !.loaded = @ - 1] ELSE wi
    /\ pc' = "main"
    /\ UNCHANGED <<gamestate, oldgamestate, gamemap, demosequence, pagetic, usergame, playerstate, send, menu, asked>>

-----------------------------------------------------------------------------
(* The main actions of the state the tic found; oldgamestate is taken      *)
(* before them.                                                            *)

(* Plausible bug: it is taken after them.                                  *)
RememberedAfter == oldgamestate' = gamestate'
Remembered == oldgamestate' = gamestate

Ticker(state) ==
    /\ pc = "main" /\ gamestate = state /\ Remembered
    /\ pc' = "idle"
    /\ UNCHANGED <<gamemap, demoplayback, demo_p, usergame, paused, user>>

(* The player dies, asks to begin again, or somebody ends the level.       *)
P_Ticker ==
    /\ gamestate' = gamestate
    /\ Ticker("LEVEL")
    /\ playerstate' \in IF paused THEN {playerstate} ELSE IF playerstate = "live" THEN {"live", "dead"} ELSE {"dead", "reborn"}
    /\ gameaction' \in IF paused THEN {gameaction} ELSE {gameaction, "completed"}
    /\ UNCHANGED <<demo, wi>>

(* The countdown ends once, with G_WorldDone, which may go straight to a   *)
(* finale.                                                                 *)
WI_Ticker ==
    /\ \/ /\ UNCHANGED <<gamestate, gameaction, wi>>
       \/ /\ ~wi.over /\ wi' = [wi EXCEPT !.over = TRUE]
          /\ IF Ending[gamemap] \in {"text", "cast"} THEN gamestate' = "FINALE" /\ gameaction' = "nothing"
             ELSE gameaction' = "worlddone" /\ UNCHANGED gamestate
    /\ Ticker("INTERMISSION")
    /\ UNCHANGED <<demo, playerstate>>

F_Ticker ==
    /\ gamestate' = gamestate
    /\ Ticker("FINALE")
    /\ gameaction' \in IF Ending[gamemap] = "text" THEN {gameaction, "worlddone"} ELSE {gameaction}
    /\ UNCHANGED <<demo, playerstate, wi>>

D_PageTicker ==
    /\ gamestate' = gamestate
    /\ Ticker("DEMOSCREEN")
    /\ IF pagetic = 0 THEN advancedemo' = TRUE /\ UNCHANGED pagetic
       ELSE pagetic' = pagetic - 1 /\ UNCHANGED advancedemo
    /\ UNCHANGED <<demosequence, gameaction, playerstate, wi>>

-----------------------------------------------------------------------------
(* D_DoomMain ends with D_StartTitle; gamestate is 0, GS_LEVEL.            *)
Init ==
    /\ gameaction = "nothing" /\ gamestate = "LEVEL" /\ oldgamestate = "LEVEL" /\ gamemap \in Maps
    /\ advancedemo = TRUE /\ demosequence = -1 /\ pagetic = 0
    /\ demoplayback = FALSE /\ demo_p = 0
    /\ usergame = FALSE /\ playerstate = "live" /\ paused = FALSE
    /\ send = "none" /\ queued = "none" /\ menu = "closed"
    /\ wi = [loaded |-> 0, over |-> FALSE]
    /\ asked = FALSE /\ pc = "idle"

Tic == D_DoAdvanceDemo \/ NoAdvance \/ G_DoReborn \/ Action \/ Commands
       \/ P_Ticker \/ WI_Ticker \/ F_Ticker \/ D_PageTicker

Next == User \/ Tic

(* TryRunTics runs tics as time goes by, whatever the user does.           *)
Spec == Init /\ [][Next]_vars /\ WF_vars(Tic)

-----------------------------------------------------------------------------
TypeOK ==
    /\ gameaction \in GameActions /\ {gamestate, oldgamestate} \subseteq GameStates /\ gamemap \in Maps
    /\ demosequence \in -1 .. 5 /\ pagetic \in 0 .. PageTics /\ demo_p \in 0 .. DemoLength
    /\ playerstate \in {"live", "dead", "reborn"}
    /\ {send, queued} \subseteq {"none", "save", "pause"} /\ menu \in {"closed", "save", "end"}
    /\ \A b \in {advancedemo, demoplayback, usergame, paused, asked, wi.over} : b \in BOOLEAN
    /\ pc \in {"idle", "reborn", "actions", "main"}

(* The pictures of the intermission are there whenever it is drawn or      *)
(* ticks, and each is loaded and released in turn: WI_Start is never       *)
(* called twice without WI_End, nor WI_End twice (it would release lumps   *)
(* nobody has cached).                                                     *)
IntermissionPaired ==
    /\ wi.loaded \in {0, 1}
    /\ gamestate = "INTERMISSION" => wi.loaded = 1
    /\ pc = "idle" => (wi.loaded = 1 <=> oldgamestate = "INTERMISSION" \/ gamestate = "INTERMISSION")

(* The loop of pages and demos does not take the game away from the user,  *)
(* who has to ask for the title; and what plays as a demo is no game of    *)
(* the user's.                                                             *)
NotInterrupted == usergame => (advancedemo => asked) /\ ~demoplayback

(* Without a game of the user's, whatever keys are pressed, the title page *)
(* comes again and again: no demo, no dead player, no level that ends in a *)
(* demo and no lost request stops the loop.                                *)
AttractLoop == <>[]~usergame => []<>(gamestate = "DEMOSCREEN" /\ demosequence = 0)
=============================================================================
