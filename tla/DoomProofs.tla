----------------------------- MODULE DoomProofs -----------------------------
(***************************************************************************)
(* DOOM.  Of the flow of states: that the intermission is loaded and       *)
(* released in turn, and that the loop of demos leaves the user's game     *)
(* alone, for any levels and any length of pages and demos.  Both rest on  *)
(* what a tic may find: who wrote gameaction last, and which states of the *)
(* game that leaves possible.  Of the zone: that its blocks fill it and    *)
(* agree with those they are for, in a zone of any size, for any lumps.    *)
(* That rests on a description of the ring of blocks (IsRing), what a      *)
(* split and a merge do to it, and where the loops of Z_Malloc and         *)
(* Z_FreeTags may stand while blocks are merged under them.  Of the moving *)
(* sectors: that no sector points at a mover that is gone, and that what   *)
(* was stopped can be set going again, in any level.  That rests on what a *)
(* spawn does to the list, memory and arrays (New, Grown), and on how what *)
(* is there agrees at the time of each call (InPlace).  Of the weapons:    *)
(* that ammunition never becomes less than none, in any game; it is looked *)
(* at some states before it is taken, and what may happen to the player in *)
(* between is what Holds says of it.                                       *)
(***************************************************************************)
EXTENDS DoomFlow, DoomZone, DoomMovers, DoomWeapons, FiniteSetTheorems, SequenceTheorems, WellFoundedInduction, TLAPS

(* The level's end is on the screen. *)
INTER(state) == state = "INTERMISSION"

(* The intermission's pictures are there from WI_Start, in the tic that    *)
(* enters it, to WI_End, in the tic after it was left: outside the main    *)
(* actions, as long as either state is the intermission; during them, as   *)
(* long as the present one is.  It is entered with nothing left to do in   *)
(* that tic, and from a level that was one the tic before.                 *)
Pictures ==
    /\ wi \in [loaded : {0, 1}, over : BOOLEAN]
    /\ pc \in {"idle", "reborn", "actions", "main"}
    /\ pc = "main" => (wi.loaded = 1 <=> INTER(gamestate))
    /\ pc # "main" => (wi.loaded = 1 <=> INTER(oldgamestate) \/ INTER(gamestate))
    /\ pc # "main" /\ INTER(gamestate) /\ ~INTER(oldgamestate) => pc = "actions" /\ gameaction = "nothing"
    /\ gameaction = "completed" => gamestate = "LEVEL" /\ oldgamestate = "LEVEL"
    /\ pc = "main" => gameaction \in {"nothing", "savegame"}

(* The wish for the next page or demo is heard before any game begins, and *)
(* no page is shown while the user plays.                                  *)
UserGames ==
    /\ NotInterrupted
    /\ pc \in {"reborn", "actions"} => ~advancedemo
    /\ usergame => gamestate # "DEMOSCREEN"

-----------------------------------------------------------------------------
(* Nothing is loaded to begin with, and nobody plays. *)
LEMMA InitFlow == Init => Pictures /\ UserGames
  BY DEF Init, Pictures, UserGames, NotInterrupted, INTER

(* Between two tics, requests only say what the next one shall do. *)
LEMMA UserFlow == ASSUME Pictures, UserGames, User PROVE Pictures' /\ UserGames'
  <1>1. /\ pc = "idle"
        /\ UNCHANGED <<gamestate, oldgamestate, demoplayback, usergame, wi, pc>>
        /\ gameaction' = gameaction \/ gameaction' \in {"newgame", "loadgame", "screenshot", "nothing"}
        /\ (advancedemo' = advancedemo /\ asked' = asked) \/ asked' = TRUE
    BY DEF User, M_ChooseSkill, M_LoadSelect, G_ScreenShot, Opens, M_DoSave, SendPause, G_BuildTiccmd,
           D_StartTitle, Request, Between, demo, user
  <1>2. Pictures'
    BY <1>1 DEF Pictures, INTER
  <1>3. UserGames'
    BY <1>1 DEF UserGames, NotInterrupted
  <1> QED
    BY <1>2, <1>3

(* A tic before its actions.                                               *)
LEMMA BeginFlow ==
    ASSUME Pictures, UserGames, D_DoAdvanceDemo \/ NoAdvance \/ G_DoReborn PROVE Pictures' /\ UserGames'
  <1>1. CASE D_DoAdvanceDemo
    BY <1>1 DEF D_DoAdvanceDemo, Between, Pictures, UserGames, NotInterrupted, INTER
  <1>2. CASE NoAdvance
    BY <1>2 DEF NoAdvance, Between, demo, user, Pictures, UserGames, NotInterrupted, INTER
  <1>3. CASE G_DoReborn
    BY <1>3 DEF G_DoReborn, demo, user, Pictures, UserGames, NotInterrupted, INTER
  <1> QED
    BY <1>1, <1>2, <1>3

(* What every action of gameaction does: it leaves nothing to do, or the   *)
(* end of the game; and no page is shown by any.                           *)
LEMMA ActionFlow == ASSUME Pictures, UserGames, Action PROVE Pictures' /\ UserGames'
  <1>1. CASE LoadLevel
    BY <1>1 DEF LoadLevel, Acts, G_DoLoadLevel, demo, Pictures, UserGames, NotInterrupted, INTER
  <1>2. CASE G_DoNewGame
    BY <1>2 DEF G_DoNewGame, Acts, G_InitNew, G_DoLoadLevel, demo, Pictures, UserGames, NotInterrupted, INTER
  <1>3. CASE G_DoLoadGame
    BY <1>3 DEF G_DoLoadGame, Acts, G_InitNew, G_DoLoadLevel, demo, Pictures, UserGames, NotInterrupted, INTER
  <1>4. CASE LoadGameFails \/ G_DoSaveGame \/ V_ScreenShot
    BY <1>4 DEF LoadGameFails, G_DoSaveGame, V_ScreenShot, Nothing, Acts, demo, user, Pictures, UserGames, NotInterrupted, INTER
  <1>5. CASE G_DoPlayDemo
    BY <1>5 DEF G_DoPlayDemo, Acts, G_DoLoadLevel, demo, Pictures, UserGames, NotInterrupted, INTER
  <1>6. CASE G_DoCompleted
    <2>1. /\ pc = "actions" /\ gamestate = "LEVEL" /\ oldgamestate = "LEVEL" /\ wi.loaded = 0
          /\ UNCHANGED <<oldgamestate, advancedemo, demoplayback, usergame, asked, pc>>
      BY <1>6 DEF G_DoCompleted, Acts, demo, user, Pictures, INTER
    <2>2. \/ gameaction' = "victory" /\ UNCHANGED <<gamestate, wi>>
          \/ gameaction' = "nothing" /\ gamestate' = "INTERMISSION" /\ wi' = [loaded |-> 1, over |-> FALSE]
      BY <1>6, <2>1 DEF G_DoCompleted
    <2>3. wi' \in [loaded : {0, 1}, over : BOOLEAN]
      <3>1. [loaded |-> 1, over |-> FALSE] \in [loaded : {0, 1}, over : BOOLEAN]
        OBVIOUS
      <3>2. wi' = wi \/ wi' = [loaded |-> 1, over |-> FALSE]
        BY <2>2, Zenon
      <3> QED
        BY <3>1, <3>2, Zenon DEF Pictures
    <2>4. Pictures'
      BY <2>1, <2>2, <2>3 DEF Pictures, INTER
    <2>5. UserGames'
      BY <2>1, <2>2 DEF UserGames, NotInterrupted
    <2> QED
      BY <2>4, <2>5
  <1>7. CASE Victory
    BY <1>7 DEF Victory, Acts, demo, user, Pictures, UserGames, NotInterrupted, INTER
  <1>8. CASE G_DoWorldDone
    BY <1>8 DEF G_DoWorldDone, Acts, G_DoLoadLevel, demo, Pictures, UserGames, NotInterrupted, INTER
  <1> QED
    BY <1>1, <1>2, <1>3, <1>4, <1>5, <1>6, <1>7, <1>8 DEF Action

(* The players' commands, once no action is left. *)
LEMMA CommandsFlow == ASSUME Pictures, UserGames, Commands PROVE Pictures' /\ UserGames'
  <1>1. /\ pc = "actions" /\ gameaction = "nothing" /\ pc' = "main"
        /\ UNCHANGED <<gamestate, oldgamestate, usergame, asked>>
        /\ gameaction' \in {"nothing", "savegame"}
        /\ demoplayback' = (demoplayback /\ ~DemoEnds)
        /\ advancedemo' = (advancedemo \/ DemoEnds)
        /\ wi' = IF Unload THEN [wi EXCEPT !.loaded = @ - 1] ELSE wi
    BY DEF Commands
  <1>2. wi' \in [loaded : {0, 1}, over : BOOLEAN] /\ (wi'.loaded = 1 <=> INTER(gamestate))
    <2>1. CASE Unload
      <3>1. wi.loaded = 1 /\ wi' = [wi EXCEPT !.loaded = 0] /\ ~INTER(gamestate)
        BY <1>1, <2>1 DEF Unload, Pictures, INTER
      <3> QED
        BY <3>1 DEF Pictures
    <2>2. CASE ~Unload
      BY <1>1, <2>2 DEF Unload, Pictures, INTER
    <2> QED
      BY <2>1, <2>2
  <1>3. Pictures'
    BY <1>1, <1>2 DEF Pictures, INTER
  <1>4. DemoEnds => demoplayback
    BY DEF DemoEnds
  <1>5. UserGames'
    BY <1>1, <1>4, Zenon DEF UserGames, NotInterrupted
  <1> QED
    BY <1>3, <1>5

(* The main actions.  oldgamestate is what they found.                     *)
LEMMA TickerFlow ==
    ASSUME Pictures, UserGames, P_Ticker \/ WI_Ticker \/ F_Ticker \/ D_PageTicker
    PROVE  Pictures' /\ UserGames'
  <1>1. CASE P_Ticker
    BY <1>1 DEF P_Ticker, Ticker, Remembered, demo, user, Pictures, UserGames, NotInterrupted, INTER
  <1>2. CASE WI_Ticker
    <2>1. /\ pc = "main" /\ INTER(gamestate) /\ oldgamestate' = gamestate /\ pc' = "idle"
          /\ UNCHANGED <<advancedemo, demoplayback, usergame, asked>>
          /\ gamestate' = gamestate \/ gamestate' = "FINALE"
          /\ gameaction' = gameaction \/ gameaction' \in {"nothing", "worlddone"}
          /\ wi' = wi \/ wi' = [wi EXCEPT !.over = TRUE]
      BY <1>2 DEF WI_Ticker, Ticker, Remembered, demo, user, INTER
    <2>2. wi' \in [loaded : {0, 1}, over : BOOLEAN] /\ wi'.loaded = 1
      BY <2>1 DEF Pictures
    <2>3. Pictures'
      BY <2>1, <2>2 DEF Pictures, INTER
    <2>4. UserGames'
      BY <2>1 DEF UserGames, NotInterrupted, INTER
    <2> QED
      BY <2>3, <2>4
  <1>3. CASE F_Ticker
    BY <1>3 DEF F_Ticker, Ticker, Remembered, demo, user, Pictures, UserGames, NotInterrupted, INTER
  <1>4. CASE D_PageTicker
    BY <1>4 DEF D_PageTicker, Ticker, Remembered, demo, user, Pictures, UserGames, NotInterrupted, INTER
  <1> QED
    BY <1>1, <1>2, <1>3, <1>4

(* So the two are inductive together. *)
LEMMA NextFlow == Pictures /\ UserGames /\ [Next]_vars => Pictures' /\ UserGames'
  <1> SUFFICES ASSUME Pictures, UserGames, [Next]_vars PROVE Pictures' /\ UserGames'
    OBVIOUS
  <1>1. CASE UNCHANGED vars
    BY <1>1 DEF vars, Pictures, UserGames, NotInterrupted, INTER
  <1> QED
    BY <1>1, UserFlow, BeginFlow, ActionFlow, CommandsFlow, TickerFlow DEF Next, Tic

(* And hold in every state. *)
LEMMA SpecFlow == Spec => [](Pictures /\ UserGames)
  <1>1. Init => Pictures /\ UserGames
    BY InitFlow
  <1>2. Pictures /\ UserGames /\ [Next]_vars => Pictures' /\ UserGames'
    BY NextFlow
  <1> QED
    BY <1>1, <1>2, PTL DEF Spec

(* The types of DoomFlow's variables: numbers and names, and yes or no.    *)
Words ==
    /\ gameaction \in GameActions /\ gamestate \in GameStates /\ oldgamestate \in GameStates /\ gamemap \in Maps
    /\ playerstate \in {"live", "dead", "reborn"} /\ menu \in {"closed", "save", "end"}
    /\ send \in {"none", "save", "pause"} /\ queued \in {"none", "save", "pause"}
    /\ pc \in {"idle", "reborn", "actions", "main"}
Counts == demosequence \in -1 .. 5 /\ pagetic \in 0 .. PageTics /\ demo_p \in 0 .. DemoLength
Answers ==
    /\ advancedemo \in BOOLEAN /\ demoplayback \in BOOLEAN /\ usergame \in BOOLEAN
    /\ paused \in BOOLEAN /\ asked \in BOOLEAN

(* A step of the flow keeps the types. *)
LEMMA NextWords == ASSUME Words, [Next]_vars PROVE Words'
<1>1. CASE User
  BY <1>1 DEF Words, User, M_ChooseSkill, M_LoadSelect, G_ScreenShot, Opens, M_DoSave, SendPause, G_BuildTiccmd,
           D_StartTitle, Request, Between, demo, user, GameActions
<1>2. CASE D_DoAdvanceDemo \/ NoAdvance \/ G_DoReborn
  BY <1>2 DEF Words, D_DoAdvanceDemo, NoAdvance, G_DoReborn, PlayerAfter, demo, user, GameActions, GameStates
<1>3. CASE Action
  BY <1>3 DEF Words, Action, LoadLevel, G_DoNewGame, G_DoLoadGame, LoadGameFails, G_DoSaveGame, V_ScreenShot,
           G_DoPlayDemo, G_DoCompleted, Victory, G_DoWorldDone, G_InitNew, G_DoLoadLevel, Nothing, demo, user,
           GameActions, GameStates
<1>4. CASE Commands
  BY <1>4 DEF Words, Commands, GameActions
<1>5. CASE P_Ticker \/ WI_Ticker \/ F_Ticker \/ D_PageTicker
  BY <1>5 DEF Words, P_Ticker, WI_Ticker, F_Ticker, D_PageTicker, Ticker, Remembered, user, GameActions, GameStates
<1>6. CASE UNCHANGED vars
  BY <1>6 DEF Words, vars
<1>. QED  BY <1>1, <1>2, <1>3, <1>4, <1>5, <1>6 DEF Next, Tic

(* The demo loop's counters stay in their ranges. *)
LEMMA NextCounts == ASSUME Counts, [Next]_vars PROVE Counts'
<1>1. /\ demosequence' \in {demosequence, -1, (demosequence + 1) % 6}
      /\ pagetic' \in {pagetic, PageTics} \/ (pagetic # 0 /\ pagetic' = pagetic - 1)
      /\ demo_p' \in {demo_p, 0} \/ (demo_p # DemoLength /\ demo_p' = demo_p + 1)
  <2>1. CASE User
    BY <2>1 DEF User, M_ChooseSkill, M_LoadSelect, G_ScreenShot, Opens, M_DoSave, SendPause, G_BuildTiccmd,
             D_StartTitle, Request, demo
  <2>2. CASE D_DoAdvanceDemo \/ NoAdvance \/ G_DoReborn
    BY <2>2 DEF D_DoAdvanceDemo, NoAdvance, G_DoReborn, demo, Turn
  <2>3. CASE Action
    BY <2>3 DEF Action, LoadLevel, G_DoNewGame, G_DoLoadGame, LoadGameFails, G_DoSaveGame, V_ScreenShot,
             G_DoPlayDemo, G_DoCompleted, Victory, G_DoWorldDone, Nothing, demo
  <2>4. CASE Commands
    BY <2>4 DEF Commands, DemoEnds
  <2>5. CASE P_Ticker \/ WI_Ticker \/ F_Ticker \/ D_PageTicker
    BY <2>5 DEF P_Ticker, WI_Ticker, F_Ticker, D_PageTicker, Ticker, demo
  <2>6. CASE UNCHANGED vars
    BY <2>6 DEF vars
  <2>. QED  BY <2>1, <2>2, <2>3, <2>4, <2>5, <2>6 DEF Next, Tic
<1>. QED  BY <1>1, FlowAssumption DEF Counts

(* What is yes or no stays so. *)
LEMMA NextAnswers == ASSUME Answers, [Next]_vars PROVE Answers'
<1>1. CASE User
  BY <1>1, Zenon DEF Answers, User, M_ChooseSkill, M_LoadSelect, G_ScreenShot, Opens, M_DoSave, SendPause, G_BuildTiccmd,
           D_StartTitle, Request, demo, user
<1>2. CASE D_DoAdvanceDemo \/ NoAdvance \/ G_DoReborn
  BY <1>2, Zenon DEF Answers, D_DoAdvanceDemo, NoAdvance, G_DoReborn, demo, user
<1>3. CASE Action
  BY <1>3, Zenon DEF Answers, Action, LoadLevel, G_DoNewGame, G_DoLoadGame, LoadGameFails, G_DoSaveGame, V_ScreenShot,
           G_DoPlayDemo, G_DoCompleted, Victory, G_DoWorldDone, G_InitNew, G_DoLoadLevel, Nothing, demo, user
<1>4. CASE Commands
  BY <1>4, Zenon DEF Answers, Commands
<1>5. CASE P_Ticker \/ WI_Ticker \/ F_Ticker \/ D_PageTicker
  BY <1>5, Zenon DEF Answers, P_Ticker, WI_Ticker, F_Ticker, D_PageTicker, Ticker, demo, user
<1>6. CASE UNCHANGED vars
  BY <1>6, Zenon DEF Answers, vars
<1>. QED  BY <1>1, <1>2, <1>3, <1>4, <1>5, <1>6 DEF Next, Tic

(* Type correctness of the flow of states: the loop of pages goes round in *)
(* its six steps, and no demo is read past its end.                        *)
THEOREM FlowTypes == Spec => []TypeOK
<1>1. Init => Words /\ Counts /\ Answers
  <2>. SUFFICES ASSUME Init PROVE Words /\ Counts /\ Answers
    OBVIOUS
  <2>1. Words
    BY DEF Init, Words, GameActions, GameStates
  <2>2. Counts
    BY FlowAssumption DEF Init, Counts
  <2>3. Answers
    BY Zenon DEF Init, Answers
  <2>. QED  BY <2>1, <2>2, <2>3
<1>2. Words /\ Counts /\ Answers /\ [Next]_vars => Words' /\ Counts' /\ Answers'
  BY NextWords, NextCounts, NextAnswers
<1>3. Words /\ Counts /\ Answers /\ Pictures => TypeOK
  <2>. SUFFICES ASSUME Words, Counts, Answers, Pictures PROVE TypeOK
    OBVIOUS
  <2>1. wi.over \in BOOLEAN
    BY DEF Pictures
  <2>2. \A b \in {advancedemo, demoplayback, usergame, paused, asked, wi.over} : b \in BOOLEAN
    BY <2>1, Zenon DEF Answers
  <2>. QED  BY <2>2 DEF TypeOK, Words, Counts
<1>. QED  BY <1>1, <1>2, <1>3, SpecFlow, PTL DEF Spec

(* WI_Start and WI_End alternate, and the pictures are there whenever the  *)
(* intermission is drawn or ticks: whatever is asked for between two tics, *)
(* whatever the levels lead to, and in the tics that enter and leave it.   *)
THEOREM IntermissionsArePaired == Spec => []IntermissionPaired
  <1>1. Pictures => IntermissionPaired
    BY DEF Pictures, IntermissionPaired, INTER
  <1> QED
    BY <1>1, SpecFlow, PTL

(* No page and no demo takes the user's game away unless it was asked for, *)
(* and none plays under it.                                                *)
THEOREM GamesAreNotInterrupted == Spec => []NotInterrupted
  <1>1. UserGames => NotInterrupted
    BY DEF UserGames
  <1> QED
    BY <1>1, SpecFlow, PTL

-----------------------------------------------------------------------------
(* The ring.                                                               *)

Header == [size : 0 .. ZoneSize, tag : 1 .. PU_CACHE, user : Lumps \cup {NoUser},
           id : BOOLEAN, next : ZoneAddresses, prev : ZoneAddresses]

End(b, a) == IF b[a].next = Blocklist THEN ZoneSize + 1 ELSE b[a].next

(* Links go both ways round, and blocks fill the zone from 1 to its end.   *)
Linked(b, R) ==
    /\ b[Blocklist].next = 1
    /\ \A a \in R \cup {Blocklist} :
           /\ b[a].next \in R \cup {Blocklist} /\ b[b[a].next].prev = a
           /\ b[a].prev \in R \cup {Blocklist} /\ b[b[a].prev].next = a
Filled(b, R) == \A a \in R : b[a].size \in Nat \ {0} /\ a + b[a].size = End(b, a)
IsRing(b, R) == R \subseteq 1 .. ZoneSize /\ Linked(b, R) /\ Filled(b, R)

(* No two free blocks are neighbours.                                      *)
Apart(b, R) == \A a \in R : b[a].next # Blocklist => b[a].tag # PU_FREE \/ b[b[a].next].tag # PU_FREE

-----------------------------------------------------------------------------
(* The invariant.                                                          *)

Blocks == Ring(block) \cup {Blocklist}

(* Ring R of memory b has what is held and cached; in Z_FreeTags (freeing) *)
(* also what is not held any more, as long as it has not been freed.       *)
OwnedBy(b, R, given, lumps, freeing) ==
    /\ \A a \in DOMAIN given :
           /\ a \in R /\ b[a].tag = given[a].tag /\ given[a].tag \in {PU_STATIC, PU_LEVEL}
           /\ b[a].size >= given[a].size /\ b[a].id /\ b[a].user = NoUser
           /\ freeing => ~OfLevel(given[a].tag)
    /\ \A l \in Lumps : lumps[l] # Null =>
           /\ lumps[l] \in R /\ b[lumps[l]].user = l /\ b[lumps[l]].tag # PU_FREE
           /\ b[lumps[l]].size > LumpLength[l]
    /\ \A a \in R : b[a].tag # PU_FREE =>
           IF b[a].user = NoUser THEN a \in DOMAIN given \/ (freeing /\ OfLevel(b[a].tag))
           ELSE lumps[b[a].user] = a

Owned == OwnedBy(block, Ring(block), held, cache, call.pc = "tags")

(* Z_Malloc: what was asked for; where the scan stands.  The block before  *)
(* base cannot be merged with it, and neither can the one it began after.  *)
Asked ==
    /\ call.size \in Nat \ {0} /\ call.tag \in {PU_STATIC, PU_LEVEL, PU_CACHE}
    /\ call.user \in Lumps \cup {NoUser}
    /\ IF call.user = NoUser THEN call.tag # PU_CACHE
       ELSE cache[call.user] = Null /\ call.size > LumpLength[call.user]
Scanning ==
    /\ call.base \in Blocks /\ call.rover \in Blocks /\ call.start \in Blocks
    /\ block[call.start].tag # PU_FREE /\ block[block[call.base].prev].tag # PU_FREE
    /\ call.rover = call.base \/ (block[call.base].tag = PU_FREE /\ block[call.base].next = call.rover)
HasFound ==
    /\ call.base \in Blocks /\ call.rover \in ZoneAddresses /\ call.start \in Blocks
    /\ block[call.base].tag = PU_FREE /\ block[call.base].size >= call.size

(* Z_FreeTags: nothing behind the rover is of the level.  It may stand on  *)
(* the header of a block that has just been merged.                        *)
Ahead(r) == \A a \in Ring(block) : OfLevel(block[a].tag) => r # Blocklist /\ a >= r
Freeing ==
    /\ call.base = Null /\ call.start = Null /\ call.rover \in ZoneAddresses
    /\ \/ call.rover \in Blocks /\ Ahead(call.rover)
       \/ call.rover # Blocklist /\ block[call.rover].tag = PU_FREE
          /\ block[call.rover].next \in Blocks /\ Ahead(block[call.rover].next)

Call == [pc : {"idle", "scan", "found", "tags"}, base : ZoneAddresses, rover : ZoneAddresses, start : ZoneAddresses,
         size : Nat, tag : 1 .. PU_CACHE, user : Lumps \cup {NoUser}]
Calling ==
    /\ call \in Call
    /\ call.pc = "idle" => call = NoCall
    /\ call.pc = "scan" => Asked /\ Scanning
    /\ call.pc = "found" => Asked /\ HasFound
    /\ call.pc = "tags" => Freeing

Kept ==
    /\ block \in [ZoneAddresses -> Header] /\ cache \in [Lumps -> ZoneAddresses]
    /\ block[Blocklist].tag = PU_STATIC
    /\ IsRing(block, Ring(block)) /\ Apart(block, Ring(block))
    /\ mainrover \in Blocks

ZoneInv == Kept /\ Owned /\ Calling
-----------------------------------------------------------------------------
(* Induction, with sets for predicates.                                    *)

(* A set of natural numbers that is not empty has a least one.             *)
LEMMA Least == ASSUME NEW S \in SUBSET Nat, S # {} PROVE \E x \in S : \A y \in S : x <= y
  <1>1. PICK x \in S : \A y \in S : ~(<<y, x>> \in OpToRel(<, Nat))
    BY NatLessThanWellFounded, WFMin, Zenon
  <1>2. ASSUME NEW y \in S, y < x PROVE FALSE
    <2>1. <<y, x>> \in {ss \in Nat \X Nat : ss[1] < ss[2]}
      BY <1>2
    <2>2. <<y, x>> \in OpToRel(<, Nat)
      BY <2>1, Zenon DEF OpToRel
    <2> QED
      BY <1>1, <2>2, Zenon
  <1> QED
    BY <1>2

(* A set that has 0, and with each number the next, has them all.          *)
LEMMA Induction ==
    ASSUME NEW S \in SUBSET Nat, 0 \in S, \A n \in S : n + 1 \in S
    PROVE  \A n \in Nat : n \in S
<1>. SUFFICES ASSUME NEW n \in Nat, n \notin S PROVE FALSE
  OBVIOUS
<1>. DEFINE T == Nat \ S
<1>1. PICK m \in T : \A k \in T : m <= k
  BY Least
<1>2. m # 0 /\ m - 1 \in Nat /\ m - 1 \notin T
  BY <1>1
<1>3. m - 1 \in S
  BY <1>2
<1>4. (m - 1) + 1 \in S
  BY <1>3
<1>. QED  BY <1>1, <1>4


-----------------------------------------------------------------------------
(* The walk round the ring.                                                *)

Onward(b, p) == IF p = Blocklist THEN Blocklist ELSE b[p].next
Walk(b, i, f) == f = [n \in 0 .. i |-> IF n = 0 THEN b[Blocklist].next ELSE Onward(b, f[n - 1])]
Walks(b, i) == \E f : Walk(b, i, f)

(* There is a walk of any length.                                          *)
LEMMA WalkExists ==
    ASSUME NEW b, NEW i \in Nat
    PROVE  Walks(b, i)
<1>. DEFINE S == {n \in Nat : Walks(b, n)}
<1>1. 0 \in S
  <2>. DEFINE f == [n \in 0 .. 0 |-> b[Blocklist].next]
  <2>1. f = [n \in 0 .. 0 |-> IF n = 0 THEN b[Blocklist].next ELSE Onward(b, f[n - 1])]
    OBVIOUS
  <2>. QED  BY <2>1 DEF Walk, Walks
<1>2. ASSUME NEW n \in S PROVE n + 1 \in S
  <2>1. PICK f : Walk(b, n, f)
    BY <1>2 DEF Walks
  <2>. DEFINE g == [k \in 0 .. n + 1 |-> IF k = n + 1 THEN Onward(b, f[n]) ELSE f[k]]
  <2>2. ASSUME NEW k \in 0 .. n + 1
        PROVE  g[k] = IF k = 0 THEN b[Blocklist].next ELSE Onward(b, g[k - 1])
    <3>1. CASE k = n + 1
      BY <3>1
    <3>2. CASE k # n + 1
      <4>1. k \in 0 .. n /\ (k # 0 => k - 1 \in 0 .. n)
        BY <3>2
      <4>2. f[k] = IF k = 0 THEN b[Blocklist].next ELSE Onward(b, f[k - 1])
        BY <2>1, <4>1 DEF Walk
      <4>. QED  BY <3>2, <4>1, <4>2
    <3>. QED  BY <3>1, <3>2
  <2>3. g = [k \in 0 .. n + 1 |-> IF k = 0 THEN b[Blocklist].next ELSE Onward(b, g[k - 1])]
    BY <2>2
  <2>. HIDE DEF g
  <2>. QED  BY <2>3 DEF Walk, Walks
<1>3. \A n \in Nat : n \in S
  <2>1. S \in SUBSET Nat
    OBVIOUS
  <2>. HIDE DEF S
  <2>. QED  BY <1>1, <1>2, <2>1, Induction
<1>. QED  BY <1>3

(* What Ring is.                                                           *)
LEMMA RingIsWalk ==
    ASSUME NEW b
    PROVE  \E f : Walk(b, ZoneSize, f) /\ Ring(b) = {f[n] : n \in 0 .. ZoneSize} \ {Blocklist}
<1>. DEFINE walk == CHOOSE f : Walk(b, ZoneSize, f)
<1>1. Walk(b, ZoneSize, walk)
  BY WalkExists, ZoneAssumption DEF Walks
<1>2. Ring(b) = {walk[n] : n \in 0 .. ZoneSize} \ {Blocklist}
  BY DEF Ring, Walk, Onward
<1>. QED  BY <1>1, <1>2

(* GameSizes and constants.                                                    *)
LEMMA Numbers == ZoneSize \in Nat /\ ZoneSize > 1 /\ Blocklist = 0 /\ ZoneAddresses = 0 .. ZoneSize
  BY ZoneAssumption DEF Blocklist, ZoneAddresses

(* A block of a ring.                                                      *)
LEMMA BlockIs ==
    ASSUME NEW b, NEW R, IsRing(b, R), NEW a \in R
    PROVE  /\ a \in Nat /\ 1 <= a /\ a <= ZoneSize /\ a # Blocklist
           /\ b[a].next \in R \cup {Blocklist} /\ b[b[a].next].prev = a
           /\ b[a].prev \in R \cup {Blocklist} /\ b[b[a].prev].next = a
           /\ b[a].size \in Nat /\ 1 <= b[a].size
           /\ a + b[a].size = IF b[a].next = Blocklist THEN ZoneSize + 1 ELSE b[a].next
<1>1. a \in 1 .. ZoneSize
  BY DEF IsRing
<1>2. a \in Nat /\ 1 <= a /\ a <= ZoneSize /\ a # Blocklist
  BY <1>1, Numbers
<1>3. /\ b[a].next \in R \cup {Blocklist} /\ b[b[a].next].prev = a
      /\ b[a].prev \in R \cup {Blocklist} /\ b[b[a].prev].next = a
  BY DEF IsRing, Linked
<1>4. b[a].size \in Nat \ {0} /\ a + b[a].size = End(b, a)
  BY DEF IsRing, Filled
<1>. QED  BY <1>2, <1>3, <1>4 DEF End

(* Every step of the walk is further on than the number of steps made, and *)
(* it does not leave the ring.                                             *)
LEMMA WalkAdvances ==
    ASSUME NEW b, NEW R, IsRing(b, R), NEW f, Walk(b, ZoneSize, f)
    PROVE  \A n \in 0 .. ZoneSize : f[n] \in R \cup {Blocklist} /\ (f[n] # Blocklist => f[n] > n)
<1>. DEFINE S == {n \in Nat : n <= ZoneSize => f[n] \in R \cup {Blocklist} /\ (f[n] # Blocklist => f[n] > n)}
<1>0. S \in SUBSET Nat
  OBVIOUS
<1>1. 0 \in S
  <2>1. f[0] = b[Blocklist].next
    BY Numbers DEF Walk
  <2>. QED  BY <2>1, Numbers DEF IsRing, Linked
<1>2. ASSUME NEW n \in S PROVE n + 1 \in S
  <2>. SUFFICES ASSUME n + 1 <= ZoneSize
                PROVE f[n + 1] \in R \cup {Blocklist} /\ (f[n + 1] # Blocklist => f[n + 1] > n + 1)
    OBVIOUS
  <2>1. n + 1 \in 0 .. ZoneSize /\ n + 1 # 0 /\ (n + 1) - 1 = n
    BY Numbers
  <2>2. f[n + 1] = Onward(b, f[n])
    BY <2>1 DEF Walk
  <2>3. f[n] \in R \cup {Blocklist} /\ (f[n] # Blocklist => f[n] > n)
    BY Numbers
  <2>4. CASE f[n] = Blocklist
    BY <2>2, <2>4 DEF Onward
  <2>5. CASE f[n] # Blocklist
    <3>1. f[n] \in R /\ f[n + 1] = b[f[n]].next
      BY <2>2, <2>3, <2>5 DEF Onward
    <3>2. /\ b[f[n]].next \in R \cup {Blocklist} /\ f[n] \in Nat
          /\ b[f[n]].size \in Nat /\ b[f[n]].size >= 1
          /\ f[n] + b[f[n]].size = IF b[f[n]].next = Blocklist THEN ZoneSize + 1 ELSE b[f[n]].next
      BY <3>1, BlockIs
    <3>. QED  BY <2>3, <2>5, <3>1, <3>2
  <2>. QED  BY <2>4, <2>5
<1>3. \A n \in Nat : n \in S
  <2>. HIDE DEF S
  <2>. QED  BY <1>0, <1>1, <1>2, Induction
<1>. QED  BY <1>3, Numbers

(* What comes before a block is at a lower address.                        *)
LEMMA Before ==
    ASSUME NEW b, NEW R, IsRing(b, R), NEW a \in R, a # 1
    PROVE  /\ b[a].prev \in R /\ b[b[a].prev].next = a /\ b[a].prev < a
           /\ b[a].prev + b[b[a].prev].size = a
<1>1. a \in Nat /\ a # Blocklist /\ b[a].prev \in R \cup {Blocklist} /\ b[b[a].prev].next = a
  BY BlockIs
<1>2. b[Blocklist].next = 1
  BY DEF IsRing, Linked
<1>3. b[a].prev \in R
  BY <1>1, <1>2
<1>4. /\ b[a].prev \in Nat /\ b[b[a].prev].size \in Nat /\ 1 <= b[b[a].prev].size
      /\ b[a].prev + b[b[a].prev].size = a
  BY <1>1, <1>3, BlockIs
<1>. QED  BY <1>1, <1>3, <1>4

(* So the walk comes by all of them.                                       *)
LEMMA RingIs ==
    ASSUME NEW b, NEW R, IsRing(b, R)
    PROVE  Ring(b) = R
<1>1. PICK f : Walk(b, ZoneSize, f) /\ Ring(b) = {f[n] : n \in 0 .. ZoneSize} \ {Blocklist}
  BY RingIsWalk
<1>2. \A n \in 0 .. ZoneSize : f[n] \in R \cup {Blocklist} /\ (f[n] # Blocklist => f[n] > n)
  BY <1>1, WalkAdvances
<1>3. R \subseteq Nat /\ \A a \in R : 1 <= a /\ a <= ZoneSize
  BY BlockIs
<1>4. ASSUME NEW a \in R, ~ \E n \in 0 .. ZoneSize : f[n] = a PROVE FALSE
  <2>. DEFINE S == {c \in R : ~ \E n \in 0 .. ZoneSize : f[n] = c}
  <2>1. PICK c \in S : \A d \in S : c <= d
    <3>1. S \in SUBSET Nat /\ S # {}
      BY <1>3, <1>4
    <3>. HIDE DEF S
    <3>. QED  BY <3>1, Least
  <2>2. c # 1
    <3>1. f[0] = b[Blocklist].next
      BY <1>1, Numbers DEF Walk
    <3>2. f[0] = 1
      BY <3>1 DEF IsRing, Linked
    <3>. QED  BY <3>2, Numbers
  <2>3. b[c].prev \in R /\ b[b[c].prev].next = c /\ b[c].prev < c
    BY <2>2, Before
  <2>4. b[c].prev \notin S
    <3>1. b[c].prev \in Nat /\ c \in Nat
      BY <2>3, <1>3
    <3>. QED  BY <2>1, <2>3, <3>1
  <2>5. PICK n \in 0 .. ZoneSize : f[n] = b[c].prev
    BY <2>3, <2>4
  <2>6. n < b[c].prev /\ b[c].prev # Blocklist
    BY <1>2, <1>3, <2>3, <2>5, Numbers
  <2>7. n + 1 \in 0 .. ZoneSize /\ n + 1 # 0 /\ (n + 1) - 1 = n
    <3>1. b[c].prev \in Nat /\ c \in Nat /\ c <= ZoneSize
      BY <2>3, <1>3
    <3>. QED  BY <2>3, <2>6, <3>1, Numbers
  <2>8. f[n + 1] = Onward(b, f[n])
    BY <1>1, <2>7 DEF Walk
  <2>9. f[n + 1] = c
    BY <2>3, <2>5, <2>6, <2>8 DEF Onward
  <2>. QED  BY <2>7, <2>9
<1>5. Blocklist \notin R
  BY <1>3, Numbers
<1>. QED  BY <1>1, <1>2, <1>4, <1>5

(* Nothing begins inside a block.                                          *)
LEMMA NoneInside ==
    ASSUME NEW b, NEW R, IsRing(b, R), NEW a \in R, NEW c \in R, a < c
    PROVE  b[a].next # Blocklist /\ b[a].next <= c
<1>. DEFINE Inside(x, d) == x < d /\ d < x + b[x].size
            S == {d \in R : \E x \in R : Inside(x, d)}
<1>1. R \subseteq Nat /\ \A x \in R : x >= 1 /\ b[x].size \in Nat
  BY BlockIs
<1>2. S = {}
  <2>. SUFFICES ASSUME S # {} PROVE FALSE
    OBVIOUS
  <2>1. PICK d \in S : \A e \in S : d <= e
    <3>1. S \in SUBSET Nat
      BY <1>1
    <3>. HIDE DEF S
    <3>. QED  BY <3>1, Least
  <2>2. PICK x \in R : Inside(x, d)
    OBVIOUS
  <2>3. d \in R /\ d \in Nat /\ x \in Nat /\ x >= 1 /\ d # 1
    <3>1. d \in R
      OBVIOUS
    <3>2. d \in Nat /\ x \in Nat /\ x >= 1 /\ b[x].size \in Nat
      BY <1>1, <3>1
    <3>. QED  BY <2>2, <3>1, <3>2
  <2>4. /\ b[d].prev \in R /\ b[d].prev \in Nat /\ b[d].prev < d
        /\ b[d].prev + b[b[d].prev].size = d /\ b[x].size \in Nat
    BY <1>1, <2>3, Before
  <2>5. x # b[d].prev
    BY <2>2, <2>3, <2>4
  <2>6. CASE x < b[d].prev
    <3>1. Inside(x, b[d].prev)
      BY <2>2, <2>3, <2>4, <2>6
    <3>2. b[d].prev \in S
      BY <3>1, <2>4
    <3>. QED  BY <2>1, <2>3, <2>4, <3>2
  <2>7. CASE b[d].prev < x
    <3>1. Inside(b[d].prev, x)
      BY <2>2, <2>3, <2>4, <2>7
    <3>2. x \in S
      BY <3>1, <2>4
    <3>. QED  BY <2>1, <2>2, <2>3, <3>2
  <2>. QED  BY <2>3, <2>4, <2>5, <2>6, <2>7
<1>3. ~ (c < a + b[a].size)
  BY <1>2
<1>4. /\ a \in Nat /\ c \in Nat /\ c <= ZoneSize /\ b[a].size \in Nat
      /\ a + b[a].size = IF b[a].next = Blocklist THEN ZoneSize + 1 ELSE b[a].next
  BY BlockIs
<1>. QED  BY <1>3, <1>4, Numbers

-----------------------------------------------------------------------------
(* What changes to headers do to the ring.                                 *)

Headers == [ZoneAddresses -> Header]
SameLook(b, d, c) == d[c].tag = b[c].tag /\ d[c].user = b[c].user /\ d[c].id = b[c].id
SameLinks(b, d, c) == d[c].size = b[c].size /\ d[c].next = b[c].next /\ d[c].prev = b[c].prev

Mark(b, a) == [b EXCEPT ![a] = [@ EXCEPT !.tag = PU_FREE, !.user = NoUser, !.id = FALSE]]
Join(b, x, y) == [b EXCEPT ![x].size = @ + b[y].size, ![x].next = b[y].next, ![b[y].next].prev = x]

(* A header in memory.                                                     *)
LEMMA HeaderIs ==
    ASSUME NEW b \in Headers, NEW a \in ZoneAddresses
    PROVE  /\ b[a] \in Header
           /\ b[a].size \in 0 .. ZoneSize /\ b[a].tag \in 1 .. PU_CACHE /\ b[a].user \in Lumps \cup {NoUser}
           /\ b[a].id \in BOOLEAN /\ b[a].next \in ZoneAddresses /\ b[a].prev \in ZoneAddresses
  BY DEF Headers, Header

(* The ring is in the links and sizes of its blocks.                       *)
LEMMA LinksMakeRing ==
    ASSUME NEW b, NEW d, NEW R, IsRing(b, R), \A c \in R \cup {Blocklist} : SameLinks(b, d, c)
    PROVE  IsRing(d, R)
<1>1. \A c \in R \cup {Blocklist} : d[c].next = b[c].next /\ d[c].prev = b[c].prev
  BY DEF SameLinks
<1>2. Linked(d, R)
  <2>1. \A a \in R \cup {Blocklist} :
            /\ b[a].next \in R \cup {Blocklist} /\ b[b[a].next].prev = a
            /\ b[a].prev \in R \cup {Blocklist} /\ b[b[a].prev].next = a
    BY DEF IsRing, Linked
  <2>2. \A a \in R \cup {Blocklist} :
            /\ d[a].next \in R \cup {Blocklist} /\ d[d[a].next].prev = a
            /\ d[a].prev \in R \cup {Blocklist} /\ d[d[a].prev].next = a
    BY <1>1, <2>1
  <2>3. d[Blocklist].next = 1
    BY <1>1 DEF IsRing, Linked
  <2>. QED  BY <2>2, <2>3 DEF Linked
<1>3. \A c \in R : d[c].size = b[c].size
  BY DEF SameLinks
<1>4. Filled(d, R)
  BY <1>1, <1>3 DEF IsRing, Filled, End
<1>. QED  BY <1>2, <1>4 DEF IsRing

(* A block that is marked free stays where it is.                          *)
LEMMA MarkIs ==
    ASSUME NEW b \in Headers, NEW a \in ZoneAddresses
    PROVE  /\ Mark(b, a) \in Headers /\ Mark(b, a)[a].tag = PU_FREE
           /\ \A c \in ZoneAddresses : SameLinks(b, Mark(b, a), c)
           /\ \A c \in ZoneAddresses \ {a} : SameLook(b, Mark(b, a), c)
<1>. DEFINE h == [b[a] EXCEPT !.tag = PU_FREE, !.user = NoUser, !.id = FALSE]
            m == Mark(b, a)
<1>1. b[a] \in Header
  BY HeaderIs
<1>2. /\ h \in Header /\ h.tag = PU_FREE
      /\ h.size = b[a].size /\ h.next = b[a].next /\ h.prev = b[a].prev
  <2>1. PU_FREE \in 1 .. PU_CACHE
    BY DEF PU_FREE, PU_CACHE
  <2>. QED  BY <1>1, <2>1 DEF Header
<1>3. m = [b EXCEPT ![a] = h]
  BY DEF Mark
<1>4. m \in Headers /\ m[a] = h /\ \A c \in ZoneAddresses \ {a} : m[c] = b[c]
  <2>. HIDE DEF h, m
  <2>. QED  BY <1>2, <1>3 DEF Headers
<1>. HIDE DEF m, h
<1>5. \A c \in ZoneAddresses : SameLinks(b, m, c)
  BY <1>2, <1>4 DEF SameLinks
<1>6. \A c \in ZoneAddresses \ {a} : SameLook(b, m, c)
  BY <1>4 DEF SameLook
<1>. QED  BY <1>2, <1>4, <1>5, <1>6 DEF m

(* What joining two neighbours changes.                                    *)
Joined(b, d, x, y) ==
    /\ d \in Headers
    /\ \A c \in ZoneAddresses : SameLook(b, d, c)
    /\ d[x].size = b[x].size + b[y].size /\ d[x].next = b[y].next
    /\ \A c \in ZoneAddresses \ {x} : d[c].size = b[c].size /\ d[c].next = b[c].next
    /\ d[b[y].next].prev = x
    /\ \A c \in ZoneAddresses \ {b[y].next} : d[c].prev = b[c].prev
Neighbours(b, R, x, y) == x \in R /\ y \in R /\ b[x].next = y

(* What comes after two neighbours is neither of them.                     *)
LEMMA NeighboursAre ==
    ASSUME NEW b, NEW R, IsRing(b, R), NEW x, NEW y, Neighbours(b, R, x, y)
    PROVE  /\ x \in ZoneAddresses /\ y \in ZoneAddresses /\ b[y].next \in ZoneAddresses
           /\ b[y].next # x /\ b[y].next # y /\ x # y /\ b[y].prev = x /\ x # Blocklist /\ y # Blocklist
           /\ b[y].next \in R \cup {Blocklist} /\ x + (b[x].size + b[y].size) <= ZoneSize + 1
<1>1. x \in R /\ y \in R /\ b[x].next = y
  BY DEF Neighbours
<1>2. /\ x \in Nat /\ 1 <= x /\ x <= ZoneSize /\ b[x].size \in Nat /\ 1 <= b[x].size
      /\ y # Blocklist => x + b[x].size = y
      /\ b[y].prev = x
  BY <1>1, BlockIs
<1>3. /\ y \in Nat /\ 1 <= y /\ y <= ZoneSize /\ y # Blocklist /\ b[y].size \in Nat /\ 1 <= b[y].size
      /\ y + b[y].size = IF b[y].next = Blocklist THEN ZoneSize + 1 ELSE b[y].next
      /\ b[y].next \in R \cup {Blocklist}
  BY <1>1, BlockIs
<1>4. \A c \in R : c \in Nat /\ c <= ZoneSize
  BY BlockIs
<1>5. x + b[x].size = y
  BY <1>2, <1>3
<1>6. y + b[y].size <= ZoneSize + 1
  BY <1>3, <1>4, Numbers
<1>7. b[y].next = Blocklist \/ (b[y].next \in Nat /\ b[y].next > y)
  BY <1>3, <1>4
<1>8. x < y /\ x # Blocklist
  BY <1>2, <1>3, <1>5, Numbers
<1>9. b[y].next # x /\ b[y].next # y
  BY <1>2, <1>3, <1>7, <1>8
<1>10. x + (b[x].size + b[y].size) <= ZoneSize + 1
  BY <1>2, <1>3, <1>5, <1>6, Numbers
<1>11. x \in ZoneAddresses /\ y \in ZoneAddresses /\ b[y].next \in ZoneAddresses
  BY <1>2, <1>3, <1>4, Numbers
<1>. QED  BY <1>2, <1>3, <1>8, <1>9, <1>10, <1>11

(* That is what joining changes.                                           *)
LEMMA JoinIs ==
    ASSUME NEW b \in Headers, NEW R, IsRing(b, R), NEW x, NEW y, Neighbours(b, R, x, y)
    PROVE  Joined(b, Join(b, x, y), x, y)
<1>. DEFINE n == b[y].next
            h == [b[x] EXCEPT !.size = b[x].size + b[y].size, !.next = n]
            g == [b[n] EXCEPT !.prev = x]
            d == Join(b, x, y)
<1>1. /\ x \in ZoneAddresses /\ y \in ZoneAddresses /\ n \in ZoneAddresses /\ n # x /\ n # y /\ x # y
      /\ x # Blocklist /\ x + (b[x].size + b[y].size) <= ZoneSize + 1
  BY NeighboursAre
<1>2. b[x] \in Header /\ b[n] \in Header /\ b[x].size \in 0 .. ZoneSize /\ b[y].size \in 0 .. ZoneSize
  <2>. HIDE DEF n
  <2>. QED  BY <1>1, HeaderIs
<1>3. b[x].size + b[y].size \in 0 .. ZoneSize
  BY <1>1, <1>2, Numbers
<1>4. /\ h \in Header /\ h.size = b[x].size + b[y].size /\ h.next = n /\ h.prev = b[x].prev
      /\ h.tag = b[x].tag /\ h.user = b[x].user /\ h.id = b[x].id
  <2>. HIDE DEF n
  <2>. QED  BY <1>1, <1>2, <1>3 DEF Header
<1>5. /\ g \in Header /\ g.prev = x /\ g.size = b[n].size /\ g.next = b[n].next
      /\ g.tag = b[n].tag /\ g.user = b[n].user /\ g.id = b[n].id
  <2>. HIDE DEF n
  <2>. QED  BY <1>1, <1>2 DEF Header
<1>6. d = [[b EXCEPT ![x] = h] EXCEPT ![n] = g]
  <2>1. d = [[[b EXCEPT ![x] = [b[x] EXCEPT !.size = b[x].size + b[y].size]]
                EXCEPT ![x].next = n] EXCEPT ![n].prev = x]
    BY DEF Join
  <2>. HIDE DEF n, d
  <2>2. [[b EXCEPT ![x] = [b[x] EXCEPT !.size = b[x].size + b[y].size]] EXCEPT ![x].next = n] = [b EXCEPT ![x] = h]
    BY <1>1 DEF Headers
  <2>. HIDE DEF h
  <2>3. [b EXCEPT ![x] = h][n] = b[n]
    BY <1>1 DEF Headers
  <2>4. d = [[b EXCEPT ![x] = h] EXCEPT ![n].prev = x]
    BY <2>1, <2>2
  <2>. QED  BY <2>3, <2>4
<1>7. d \in Headers /\ d[x] = h /\ d[n] = g /\ \A c \in ZoneAddresses \ {x, n} : d[c] = b[c]
  <2>. HIDE DEF n, h, g, d
  <2>. QED  BY <1>1, <1>4, <1>5, <1>6 DEF Headers
<1>. HIDE DEF h, g, d
<1>8. \A c \in ZoneAddresses : SameLook(b, d, c)
  <2>1. SameLook(b, d, x) /\ SameLook(b, d, n)
    BY <1>4, <1>5, <1>7 DEF SameLook
  <2>2. \A c \in ZoneAddresses \ {x, n} : SameLook(b, d, c)
    BY <1>7 DEF SameLook
  <2>. QED  BY <2>1, <2>2
<1>9. /\ \A c \in ZoneAddresses \ {x} : d[c].size = b[c].size /\ d[c].next = b[c].next
      /\ \A c \in ZoneAddresses \ {n} : d[c].prev = b[c].prev
  BY <1>1, <1>4, <1>5, <1>7
<1>. QED  BY <1>1, <1>4, <1>5, <1>7, <1>8, <1>9 DEF Joined, d

(* The ring without the second of the two.                                 *)
LEMMA JoinRing ==
    ASSUME NEW b, NEW R, IsRing(b, R), NEW x, NEW y, Neighbours(b, R, x, y), NEW d, Joined(b, d, x, y)
    PROVE  IsRing(d, R \ {y})
<1>. DEFINE n == b[y].next
            Q == R \ {y}
<1>1. /\ x \in R /\ y \in R /\ b[x].next = y /\ n # x /\ n # y /\ x # y /\ b[y].prev = x
      /\ x # Blocklist /\ y # Blocklist /\ n \in R \cup {Blocklist}
  BY NeighboursAre DEF Neighbours
<1>2. /\ d[x].size = b[x].size + b[y].size /\ d[x].next = n
      /\ \A c \in ZoneAddresses \ {x} : d[c].size = b[c].size /\ d[c].next = b[c].next
      /\ d[n].prev = x
      /\ \A c \in ZoneAddresses \ {n} : d[c].prev = b[c].prev
  BY DEF Joined
<1>3. R \subseteq 1 .. ZoneSize /\ R \cup {Blocklist} \subseteq ZoneAddresses
  BY BlockIs, Numbers DEF IsRing
<1>4. \A a \in R \cup {Blocklist} :
          /\ b[a].next \in R \cup {Blocklist} /\ b[b[a].next].prev = a
          /\ b[a].prev \in R \cup {Blocklist} /\ b[b[a].prev].next = a
  BY DEF IsRing, Linked
<1>. HIDE DEF n
<1>5. b[n].prev = y
  BY <1>1, <1>4 DEF n
<1>6. ASSUME NEW a \in Q \cup {Blocklist}
      PROVE  d[a].next \in Q \cup {Blocklist} /\ d[d[a].next].prev = a
  <2>1. CASE a = x
    BY <2>1, <1>1, <1>2
  <2>2. CASE a # x
    <3>1. a \in R \cup {Blocklist} /\ a # y /\ d[a].next = b[a].next
      BY <1>1, <1>2, <1>3, <2>2
    <3>2. b[a].next \in R \cup {Blocklist} /\ b[b[a].next].prev = a
      BY <1>4, <3>1
    <3>3. b[a].next # y /\ b[a].next # n
      BY <1>1, <1>5, <3>1, <3>2, <2>2
    <3>4. d[b[a].next].prev = a
      BY <1>2, <1>3, <3>2, <3>3
    <3>. QED  BY <3>1, <3>2, <3>3, <3>4
  <2>. QED  BY <2>1, <2>2
<1>7. ASSUME NEW a \in Q \cup {Blocklist}
      PROVE  d[a].prev \in Q \cup {Blocklist} /\ d[d[a].prev].next = a
  <2>1. CASE a = n
    BY <2>1, <1>1, <1>2
  <2>2. CASE a # n
    <3>1. a \in R \cup {Blocklist} /\ a # y /\ d[a].prev = b[a].prev
      BY <1>1, <1>2, <1>3, <2>2
    <3>2. b[a].prev \in R \cup {Blocklist} /\ b[b[a].prev].next = a
      BY <1>4, <3>1
    <3>3. b[a].prev # y /\ b[a].prev # x
      BY <1>1, <3>1, <3>2, <2>2 DEF n
    <3>4. d[b[a].prev].next = a
      BY <1>2, <1>3, <3>2, <3>3
    <3>. QED  BY <3>1, <3>2, <3>3, <3>4
  <2>. QED  BY <2>1, <2>2
<1>8. d[Blocklist].next = 1
  <2>1. d[Blocklist].next = b[Blocklist].next
    BY <1>1, <1>2, <1>3
  <2>. QED  BY <2>1 DEF IsRing, Linked
<1>9. Linked(d, Q)
  BY <1>6, <1>7, <1>8 DEF Linked
<1>10. ASSUME NEW a \in Q PROVE d[a].size \in Nat \ {0} /\ a + d[a].size = End(d, a)
  <2>1. a \in R /\ b[a].size \in Nat /\ 1 <= b[a].size /\ a \in Nat
        /\ a + b[a].size = IF b[a].next = Blocklist THEN ZoneSize + 1 ELSE b[a].next
    BY BlockIs
  <2>2. CASE a # x
    <3>1. d[a].size = b[a].size /\ d[a].next = b[a].next
      BY <1>2, <1>3, <2>1, <2>2
    <3>. QED  BY <2>1, <3>1 DEF End
  <2>3. CASE a = x
    <3>1. b[y].size \in Nat /\ y \in Nat /\ y + b[y].size = IF n = Blocklist THEN ZoneSize + 1 ELSE n
      BY <1>1, BlockIs DEF n
    <3>2. x + b[x].size = y
      BY <1>1, <2>1, <2>3
    <3>3. x + (b[x].size + b[y].size) = y + b[y].size
      BY <2>1, <2>3, <3>1, <3>2
    <3>. QED  BY <1>2, <2>1, <2>3, <3>1, <3>3 DEF End
  <2>. QED  BY <2>2, <2>3
<1>11. Filled(d, Q)
  BY <1>10 DEF Filled
<1>. QED  BY <1>3, <1>9, <1>11 DEF IsRing

-----------------------------------------------------------------------------
(* Freeing a block.                                                        *)

(* Nobody but self, which is free, has a free neighbour after it, and the  *)
(* one before self is not free.                                            *)
ApartBut(b, R, self) ==
    /\ \A c \in R : c # self /\ b[c].next # Blocklist => b[c].tag # PU_FREE \/ b[b[c].next].tag # PU_FREE
    /\ self \in R /\ b[self].tag = PU_FREE

(* What is left of ring R of b in ring Q of d once a is freed, as part of  *)
(* self: all but free blocks, as they were.                                *)
Untouched(b, d, c) == SameLook(b, d, c) /\ d[c].size = b[c].size
Rest(b, R, a, d, Q, self) ==
    /\ d \in Headers /\ IsRing(d, Q) /\ Q \subseteq R
    /\ d[Blocklist].tag = PU_STATIC
    /\ self = IF b[b[a].prev].tag = PU_FREE THEN b[a].prev ELSE a
    /\ self \in Q /\ d[self].tag = PU_FREE /\ d[self].prev = b[self].prev
    /\ \A c \in R : c # a /\ b[c].tag # PU_FREE => c \in Q /\ Untouched(b, d, c)
    /\ \A c \in Q : d[c].tag # PU_FREE => c # a /\ Untouched(b, d, c)

MarkAndJoin(b, a) ==
    IF Mark(b, a)[b[a].prev].tag = PU_FREE THEN Join(Mark(b, a), b[a].prev, a) ELSE Mark(b, a)
SelfOf(b, a) == IF b[b[a].prev].tag = PU_FREE THEN b[a].prev ELSE a
RingAfter(b, R, a) == IF b[b[a].prev].tag = PU_FREE THEN R \ {a} ELSE R

Before1(b, R, a) ==
    /\ b \in Headers /\ IsRing(b, R) /\ Apart(b, R) /\ b[Blocklist].tag = PU_STATIC
    /\ a \in R /\ b[a].tag # PU_FREE

(* The block is marked and joined with the one before.                     *)
LEMMA FirstHalf ==
    ASSUME NEW b, NEW R, NEW a, Before1(b, R, a)
    PROVE  /\ Rest(b, R, a, MarkAndJoin(b, a), RingAfter(b, R, a), SelfOf(b, a))
           /\ ApartBut(MarkAndJoin(b, a), RingAfter(b, R, a), SelfOf(b, a))
           /\ MarkAndJoin(b, a)[SelfOf(b, a)].next = b[a].next
           /\ \A c \in ZoneAddresses \ {SelfOf(b, a)} : MarkAndJoin(b, a)[c].next = b[c].next
           /\ b[a].next \in RingAfter(b, R, a) \cup {Blocklist}
           /\ MarkAndJoin(b, a)[b[a].next].tag = b[b[a].next].tag
<1>. DEFINE p == b[a].prev
            n == b[a].next
            m == Mark(b, a)
<1>0. /\ b \in Headers /\ IsRing(b, R) /\ Apart(b, R) /\ b[Blocklist].tag = PU_STATIC
      /\ a \in R /\ b[a].tag # PU_FREE /\ PU_STATIC # PU_FREE
  BY DEF Before1, PU_STATIC, PU_FREE
<1>1. /\ a \in Nat /\ a # Blocklist /\ p \in R \cup {Blocklist} /\ b[p].next = a /\ n \in R \cup {Blocklist} /\ b[n].prev = a
      /\ b[a].size \in Nat /\ 1 <= b[a].size /\ a + b[a].size = IF n = Blocklist THEN ZoneSize + 1 ELSE n
  BY <1>0, BlockIs
<1>2. R \subseteq ZoneAddresses /\ Blocklist \in ZoneAddresses /\ a \in ZoneAddresses /\ p \in ZoneAddresses /\ n \in ZoneAddresses
  <2>1. \A c \in R : c \in Nat /\ c <= ZoneSize
    BY <1>0, BlockIs
  <2>2. R \subseteq ZoneAddresses /\ Blocklist \in ZoneAddresses
    BY <2>1, Numbers
  <2>. QED  BY <1>0, <1>1, <2>2
<1>3. /\ m \in Headers /\ m[a].tag = PU_FREE
      /\ \A c \in ZoneAddresses : m[c].size = b[c].size /\ m[c].next = b[c].next /\ m[c].prev = b[c].prev
      /\ \A c \in ZoneAddresses \ {a} : SameLook(b, m, c)
  BY <1>0, <1>2, MarkIs DEF SameLinks
<1>4. IsRing(m, R)
  <2>1. \A c \in R \cup {Blocklist} : SameLinks(b, m, c)
    BY <1>2, <1>3 DEF SameLinks
  <2>. QED  BY <1>0, <2>1, LinksMakeRing
<1>5. p # a
  <2>1. \A c \in R : c \in Nat /\ 1 <= c /\ c <= ZoneSize
    BY <1>0, BlockIs
  <2>. QED  BY <1>0, <1>1, <2>1, NeighboursAre, Numbers DEF Neighbours
<1>6. n # a
  BY <1>1, <1>2, Numbers
<1>7. m[p].tag = b[p].tag /\ m[n].tag = b[n].tag /\ m[Blocklist].tag = PU_STATIC
  BY <1>0, <1>1, <1>2, <1>3, <1>5, <1>6 DEF SameLook
<1>. HIDE DEF m
<1>8. \A c \in R : c # a /\ b[c].next # Blocklist => b[c].next \in R /\ (c # p => b[c].next # a)
  <2>1. \A c \in R : b[c].next \in R \cup {Blocklist} /\ b[b[c].next].prev = c
    BY <1>0, BlockIs
  <2>. QED  BY <2>1
<1>9. \A c \in R \ {a} : m[c].tag = b[c].tag
  BY <1>2, <1>3 DEF SameLook
<1>10. \A c \in R : b[c].next # Blocklist => b[c].tag # PU_FREE \/ b[b[c].next].tag # PU_FREE
  BY <1>0 DEF Apart
<1>11. CASE b[p].tag = PU_FREE
  <2>. DEFINE d == Join(m, p, a)
              Q == R \ {a}
  <2>1. Neighbours(m, R, p, a) /\ p \in R
    BY <1>0, <1>1, <1>2, <1>3, <1>11 DEF Neighbours
  <2>2. Joined(m, d, p, a)
    BY <1>3, <1>4, <2>1, JoinIs
  <2>3. IsRing(d, Q)
    BY <1>4, <2>1, <2>2, JoinRing
  <2>4. /\ d \in Headers /\ \A c \in ZoneAddresses : SameLook(m, d, c)
        /\ d[p].next = m[a].next
        /\ \A c \in ZoneAddresses \ {p} : d[c].size = m[c].size /\ d[c].next = m[c].next
        /\ \A c \in ZoneAddresses \ {m[a].next} : d[c].prev = m[c].prev
    BY <2>2 DEF Joined
  <2>5. MarkAndJoin(b, a) = d /\ RingAfter(b, R, a) = Q /\ SelfOf(b, a) = p
    BY <1>7, <1>11 DEF MarkAndJoin, RingAfter, SelfOf, m
  <2>. HIDE DEF d
  <2>6. m[a].next = n /\ d[p].next = n
    BY <1>2, <1>3, <2>4
  <2>7. \A c \in ZoneAddresses \ {a, p} : Untouched(b, d, c)
    BY <1>3, <2>4 DEF Untouched, SameLook
  <2>8. d[p].tag = PU_FREE /\ d[Blocklist].tag = PU_STATIC /\ d[n].tag = b[n].tag
    BY <1>2, <1>7, <1>11, <2>4 DEF SameLook
  <2>9. p # n
    BY <1>4, <2>1, <2>6, NeighboursAre
  <2>10. d[p].prev = b[p].prev
    BY <1>2, <1>3, <2>4, <2>6, <2>9
  <2>11. p \in Q /\ n \in Q \cup {Blocklist}
    BY <1>1, <1>5, <1>6, <2>1
  <2>12. \A c \in R : c # a /\ b[c].tag # PU_FREE => c \in Q /\ Untouched(b, d, c)
    BY <1>2, <1>11, <2>7
  <2>13. \A c \in Q : d[c].tag # PU_FREE => c # a /\ Untouched(b, d, c)
    BY <1>2, <2>7, <2>8
  <2>14. Rest(b, R, a, d, Q, p)
    BY <1>11, <2>3, <2>4, <2>8, <2>10, <2>11, <2>12, <2>13 DEF Rest
  <2>15. \A c \in Q : d[c].tag = b[c].tag
    BY <1>2, <1>11, <2>7, <2>8 DEF Untouched, SameLook
  <2>16. \A c \in Q : c # p /\ d[c].next # Blocklist => d[c].tag # PU_FREE \/ d[d[c].next].tag # PU_FREE
    <3>. SUFFICES ASSUME NEW c \in Q, c # p, d[c].next # Blocklist PROVE d[c].tag # PU_FREE \/ d[d[c].next].tag # PU_FREE
      OBVIOUS
    <3>1. d[c].next = b[c].next /\ c \in R /\ c # a
      BY <1>2, <1>3, <2>4
    <3>2. b[c].next \in Q
      BY <1>8, <3>1
    <3>. QED  BY <1>10, <2>15, <3>1, <3>2
  <2>17. ApartBut(d, Q, p)
    BY <2>8, <2>11, <2>16 DEF ApartBut
  <2>18. \A c \in ZoneAddresses \ {p} : d[c].next = b[c].next
    BY <1>3, <2>4
  <2>. QED  BY <2>5, <2>6, <2>8, <2>11, <2>14, <2>17, <2>18
<1>12. CASE b[p].tag # PU_FREE
  <2>1. MarkAndJoin(b, a) = m /\ RingAfter(b, R, a) = R /\ SelfOf(b, a) = a
    BY <1>7, <1>12 DEF MarkAndJoin, RingAfter, SelfOf, m
  <2>2. \A c \in R \ {a} : Untouched(b, m, c)
    BY <1>2, <1>3 DEF Untouched
  <2>3. Rest(b, R, a, m, R, a)
    BY <1>0, <1>2, <1>3, <1>4, <1>7, <1>12, <2>2 DEF Rest
  <2>4. \A c \in R : c # a /\ m[c].next # Blocklist => m[c].tag # PU_FREE \/ m[m[c].next].tag # PU_FREE
    <3>. SUFFICES ASSUME NEW c \in R, c # a, m[c].next # Blocklist PROVE m[c].tag # PU_FREE \/ m[m[c].next].tag # PU_FREE
      OBVIOUS
    <3>1. m[c].next = b[c].next /\ m[c].tag = b[c].tag
      BY <1>2, <1>3, <1>9
    <3>2. CASE c = p
      BY <1>12, <3>1, <3>2
    <3>3. CASE c # p
      BY <1>8, <1>9, <1>10, <3>1, <3>3
    <3>. QED  BY <3>2, <3>3
  <2>5. ApartBut(m, R, a)
    BY <1>0, <1>3, <2>4 DEF ApartBut
  <2>. QED  BY <1>1, <1>2, <1>3, <1>7, <2>1, <2>3, <2>5
<1>. QED  BY <1>11, <1>12

FreeBlocks(b, a) ==
    IF MarkAndJoin(b, a)[b[a].next].tag = PU_FREE THEN Join(MarkAndJoin(b, a), SelfOf(b, a), b[a].next)
    ELSE MarkAndJoin(b, a)
RingLeft(b, R, a) ==
    IF b[b[a].next].tag = PU_FREE THEN RingAfter(b, R, a) \ {b[a].next} ELSE RingAfter(b, R, a)

(* The header that was next is in the ring, or is a free one that leads to *)
(* it.                                                                     *)
Leads(d, Q, n) == n \in Q \cup {Blocklist} \/ (n # Blocklist /\ d[n].tag = PU_FREE /\ d[n].next \in Q \cup {Blocklist})

(* The block is joined with the one after.                                 *)
LEMMA SecondHalf ==
    ASSUME NEW b, NEW R, NEW a, Before1(b, R, a)
    PROVE  /\ Rest(b, R, a, FreeBlocks(b, a), RingLeft(b, R, a), SelfOf(b, a))
           /\ Apart(FreeBlocks(b, a), RingLeft(b, R, a))
           /\ Leads(FreeBlocks(b, a), RingLeft(b, R, a), b[a].next)
           /\ FreeBlocks(b, a)[b[a].next].next = b[b[a].next].next
<1>. DEFINE n == b[a].next
            self == SelfOf(b, a)
            j == MarkAndJoin(b, a)
            P == RingAfter(b, R, a)
            d == FreeBlocks(b, a)
            Q == RingLeft(b, R, a)
<1>1. /\ Rest(b, R, a, j, P, self) /\ ApartBut(j, P, self)
      /\ j[self].next = n /\ (\A c \in ZoneAddresses \ {self} : j[c].next = b[c].next)
      /\ n \in P \cup {Blocklist} /\ j[n].tag = b[n].tag
  BY FirstHalf
<1>. HIDE DEF j, P, self
<1>2. /\ j \in Headers /\ IsRing(j, P) /\ P \subseteq R /\ j[Blocklist].tag = PU_STATIC /\ PU_STATIC # PU_FREE
      /\ self = IF b[b[a].prev].tag = PU_FREE THEN b[a].prev ELSE a
      /\ self \in P /\ j[self].tag = PU_FREE /\ j[self].prev = b[self].prev
      /\ \A c \in R : c # a /\ b[c].tag # PU_FREE => c \in P /\ Untouched(b, j, c)
      /\ \A c \in P : j[c].tag # PU_FREE => c # a /\ Untouched(b, j, c)
  BY <1>1 DEF Rest, PU_STATIC, PU_FREE
<1>3. \A c \in P : c # self /\ j[c].next # Blocklist => j[c].tag # PU_FREE \/ j[j[c].next].tag # PU_FREE
  BY <1>1 DEF ApartBut
<1>4. P \subseteq ZoneAddresses /\ Blocklist \in ZoneAddresses /\ Blocklist \notin P
  BY <1>2, BlockIs, Numbers
<1>. HIDE DEF n
<1>5. CASE j[n].tag = PU_FREE
  <2>1. d = Join(j, self, n) /\ Q = P \ {n}
    BY <1>1, <1>5 DEF FreeBlocks, RingLeft, n, j, self, P
  <2>. HIDE DEF d, Q
  <2>2. Neighbours(j, P, self, n) /\ n \in P /\ n # Blocklist
    BY <1>1, <1>2, <1>4, <1>5 DEF Neighbours
  <2>3. Joined(j, d, self, n)
    BY <1>2, <2>1, <2>2, JoinIs
  <2>4. IsRing(d, Q)
    BY <1>2, <2>1, <2>2, <2>3, JoinRing
  <2>5. j[n].next # self /\ j[n].next # n /\ self # n /\ j[n].next \in P \cup {Blocklist}
    BY <1>2, <2>2, NeighboursAre
  <2>6. /\ d \in Headers /\ \A c \in ZoneAddresses : SameLook(j, d, c)
        /\ d[self].next = j[n].next
        /\ \A c \in ZoneAddresses \ {self} : d[c].size = j[c].size /\ d[c].next = j[c].next
        /\ \A c \in ZoneAddresses \ {j[n].next} : d[c].prev = j[c].prev
    BY <2>3 DEF Joined
  <2>7. \A c \in ZoneAddresses : d[c].tag = j[c].tag
    BY <2>6 DEF SameLook
  <2>8. d[self].prev = b[self].prev /\ d[self].tag = PU_FREE /\ d[Blocklist].tag = PU_STATIC /\ self \in Q
    BY <1>2, <1>4, <2>1, <2>5, <2>6, <2>7
  <2>9. \A c \in R : c # a /\ b[c].tag # PU_FREE => c \in Q /\ Untouched(b, d, c)
    <3>. SUFFICES ASSUME NEW c \in R, c # a, b[c].tag # PU_FREE PROVE c \in Q /\ Untouched(b, d, c)
      OBVIOUS
    <3>1. c \in P /\ Untouched(b, j, c)
      BY <1>2
    <3>2. c # n /\ c # self
      BY <1>2, <1>5, <3>1 DEF Untouched, SameLook
    <3>. QED  BY <1>4, <2>1, <2>6, <3>1, <3>2 DEF Untouched, SameLook
  <2>10. \A c \in Q : d[c].tag # PU_FREE => c # a /\ Untouched(b, d, c)
    <3>. SUFFICES ASSUME NEW c \in Q, d[c].tag # PU_FREE PROVE c # a /\ Untouched(b, d, c)
      OBVIOUS
    <3>1. c \in P /\ c # self /\ j[c].tag # PU_FREE /\ c \in ZoneAddresses
      BY <1>2, <1>4, <2>1, <2>7
    <3>. QED  BY <1>2, <2>6, <3>1 DEF Untouched, SameLook
  <2>11. Rest(b, R, a, d, Q, self)
    <3>1. Q \subseteq R
      BY <1>2, <2>1
    <3>. QED  BY <1>2, <2>4, <2>6, <2>8, <2>9, <2>10, <3>1 DEF Rest
  <2>12. Apart(d, Q)
    <3>. SUFFICES ASSUME NEW c \in Q, d[c].next # Blocklist PROVE d[c].tag # PU_FREE \/ d[d[c].next].tag # PU_FREE
      BY DEF Apart
    <3>1. d[c].next \in Q /\ c \in P /\ c # n
      BY <2>1, <2>4, BlockIs
    <3>2. CASE c = self
      <4>1. d[c].next = j[n].next
        BY <2>6, <3>2
      <4>2. j[n].next # Blocklist
        BY <4>1
      <4>3. j[j[n].next].tag # PU_FREE
        BY <1>3, <1>5, <2>2, <2>5, <4>2
      <4>. QED  BY <1>4, <2>7, <3>1, <2>1, <4>1, <4>3
    <3>3. CASE c # self
      <4>1. d[c].next = j[c].next
        BY <1>4, <2>6, <3>1, <3>3
      <4>. QED  BY <1>3, <1>4, <2>1, <2>7, <3>1, <3>3, <4>1
    <3>. QED  BY <3>2, <3>3
  <2>13. d[n].tag = PU_FREE /\ d[n].next = b[n].next /\ d[n].next \in Q \cup {Blocklist}
    BY <1>1, <1>4, <1>5, <2>1, <2>2, <2>5, <2>6, <2>7
  <2>14. Leads(d, Q, n)
    BY <2>2, <2>13 DEF Leads
  <2>. QED  BY <2>11, <2>12, <2>13, <2>14 DEF n, self, d, Q
<1>6. CASE j[n].tag # PU_FREE
  <2>1. d = j /\ Q = P
    BY <1>1, <1>6 DEF FreeBlocks, RingLeft, n, j, self, P
  <2>2. Apart(j, P)
    BY <1>1, <1>3, <1>6 DEF Apart
  <2>3. Leads(j, P, n)
    BY <1>1 DEF Leads
  <2>4. n # self
    BY <1>2, <1>6
  <2>5. j[n].next = b[n].next
    BY <1>1, <1>4, <2>4
  <2>. HIDE DEF d, Q
  <2>. QED  BY <1>1, <2>1, <2>2, <2>3, <2>5 DEF n, self, d, Q
<1>. QED  BY <1>5, <1>6

-----------------------------------------------------------------------------
(* Z_Free.                                                                 *)

RoverAfter(b, r, a) ==
    LET one == IF b[b[a].prev].tag = PU_FREE /\ r = a THEN b[a].prev ELSE r
    IN  IF b[b[a].next].tag = PU_FREE /\ one = b[a].next THEN SelfOf(b, a) ELSE one
CacheAfter(b, k, a) == IF b[a].user # NoUser THEN [k EXCEPT ![b[a].user] = Null] ELSE k
ZoneOf(b, r, k) == [block |-> b, rover |-> r, cache |-> k]

(* The parts of a zone.                                                    *)
LEMMA ZoneOfIs ==
    ASSUME NEW b, NEW r, NEW k
    PROVE  ZoneOf(b, r, k).block = b /\ ZoneOf(b, r, k).rover = r /\ ZoneOf(b, r, k).cache = k
  BY DEF ZoneOf

(* Marking is the first thing Z_Free does.                                 *)
LEMMA MarkedIs ==
    ASSUME NEW b, NEW r, NEW k, NEW a, b[a].tag # PU_FREE
    PROVE  Marked(ZoneOf(b, r, k), a) = ZoneOf(Mark(b, a), r, CacheAfter(b, k, a))
<1>. DEFINE z == ZoneOf(b, r, k)
            m == Mark(b, a)
            e == CacheAfter(b, k, a)
<1>1. Marked(z, a) = [z EXCEPT !.block = m, !.cache = e]
  BY ZoneOfIs DEF Marked, Mark, CacheAfter, ZoneOf
<1>. HIDE DEF m, e
<1>2. [z EXCEPT !.block = m, !.cache = e] = ZoneOf(m, r, e)
  <2>1. z = [block |-> b, rover |-> r, cache |-> k]
    BY DEF ZoneOf
  <2>2. z \in [block : {b}, rover : {r}, cache : {k}]
    BY <2>1
  <2>. HIDE DEF z
  <2>. DEFINE y == [z EXCEPT !.block = m, !.cache = e]
  <2>3. y \in [block : {m}, rover : {r}, cache : {e}]
    BY <2>2
  <2>. HIDE DEF y
  <2>4. y = [block |-> y.block, rover |-> y.rover, cache |-> y.cache]
    BY <2>3
  <2>5. y = [block |-> m, rover |-> r, cache |-> e]
    BY <2>3, <2>4
  <2>. QED  BY <2>5 DEF y, ZoneOf
<1>. QED  BY <1>1, <1>2 DEF m, e

(* Merging joins blocks and moves the rover off the second.                *)
LEMMA MergedIs ==
    ASSUME NEW b, NEW r, NEW k, NEW x, NEW y
    PROVE  Merged(ZoneOf(b, r, k), x, y) = ZoneOf(Join(b, x, y), IF r = y THEN x ELSE r, k)
<1>. DEFINE z == ZoneOf(b, r, k)
            m == Join(b, x, y)
            e == IF r = y THEN x ELSE r
<1>1. Merged(z, x, y) = [z EXCEPT !.block = m, !.rover = e]
  BY ZoneOfIs DEF Merged, Join, ZoneOf
<1>. HIDE DEF m, e
<1>2. [z EXCEPT !.block = m, !.rover = e] = ZoneOf(m, e, k)
  <2>1. z = [block |-> b, rover |-> r, cache |-> k]
    BY DEF ZoneOf
  <2>2. z \in [block : {b}, rover : {r}, cache : {k}]
    BY <2>1
  <2>. HIDE DEF z
  <2>. DEFINE w == [z EXCEPT !.block = m, !.rover = e]
  <2>3. w \in [block : {m}, rover : {e}, cache : {k}]
    BY <2>2
  <2>. HIDE DEF w
  <2>4. w = [block |-> w.block, rover |-> w.rover, cache |-> w.cache]
    BY <2>3
  <2>5. w = [block |-> m, rover |-> e, cache |-> k]
    BY <2>3, <2>4
  <2>. QED  BY <2>5 DEF w, ZoneOf
<1>. QED  BY <1>1, <1>2 DEF m, e

(* What Z_Free does.                                                       *)
LEMMA FreeIs ==
    ASSUME NEW b, NEW R, NEW r, NEW k, NEW a, Before1(b, R, a)
    PROVE  Z_Free(ZoneOf(b, r, k), a) = ZoneOf(FreeBlocks(b, a), RoverAfter(b, r, a), CacheAfter(b, k, a))
<1>. DEFINE e == CacheAfter(b, k, a)
            m == Mark(b, a)
            p == b[a].prev
            n == b[a].next
            j == MarkAndJoin(b, a)
            self == SelfOf(b, a)
            one == IF b[p].tag = PU_FREE /\ r = a THEN p ELSE r
<1>1. /\ b \in Headers /\ a \in ZoneAddresses /\ b[a].tag # PU_FREE /\ p # a /\ p \in ZoneAddresses
  <2>1. b \in Headers /\ IsRing(b, R) /\ a \in R /\ b[a].tag # PU_FREE
    BY DEF Before1
  <2>2. a \in ZoneAddresses /\ p \in R \cup {Blocklist} /\ b[p].next = a /\ b[a].next \in R \cup {Blocklist} /\ a # Blocklist
        /\ \A c \in R : c \in ZoneAddresses
    BY <2>1, BlockIs, Numbers
  <2>3. p # a
    BY <2>1, <2>2, NeighboursAre DEF Neighbours
  <2>4. p \in ZoneAddresses
    BY <2>2, Numbers
  <2>. QED  BY <2>1, <2>2, <2>3, <2>4
<1>2. m[a].prev = p /\ m[p].tag = b[p].tag
  BY <1>1, MarkIs DEF SameLinks, SameLook
<1>3. j[self].next = n /\ j[n].tag = b[n].tag
  BY FirstHalf
<1>. DEFINE marked == ZoneOf(m, r, e)
            joined == ZoneOf(j, one, e)
<1>4. Marked(ZoneOf(b, r, k), a) = marked
  BY <1>1, MarkedIs
<1>5. marked.block = m /\ joined.block = j
  BY ZoneOfIs
<1>6. j = (IF m[p].tag = PU_FREE THEN Join(m, p, a) ELSE m) /\ self = IF m[p].tag = PU_FREE THEN p ELSE a
  BY <1>2 DEF MarkAndJoin, SelfOf
<1>7. joined = IF m[p].tag = PU_FREE THEN Merged(marked, p, a) ELSE marked
  <2>. HIDE DEF m, j, self, e, p
  <2>. QED  BY <1>2, <1>6, MergedIs
<1>. DEFINE last == ZoneOf(FreeBlocks(b, a), RoverAfter(b, r, a), e)
<1>8. last = IF j[n].tag = PU_FREE THEN Merged(joined, self, n) ELSE joined
  <2>1. CASE j[n].tag = PU_FREE
    <3>1. FreeBlocks(b, a) = Join(j, self, n) /\ RoverAfter(b, r, a) = IF one = n THEN self ELSE one
      BY <1>3, <2>1 DEF FreeBlocks, RoverAfter
    <3>. HIDE DEF j, self, one, e, n
    <3>. QED  BY <2>1, <3>1, MergedIs
  <2>2. CASE j[n].tag # PU_FREE
    BY <1>3, <2>2 DEF FreeBlocks, RoverAfter
  <2>. QED  BY <2>1, <2>2
<1>9. Z_Free(ZoneOf(b, r, k), a) =
          LET before == marked.block[a].prev
              joint == IF marked.block[before].tag = PU_FREE THEN Merged(marked, before, a) ELSE marked
              whole == IF marked.block[before].tag = PU_FREE THEN before ELSE a
              after == joint.block[whole].next
          IN  IF joint.block[after].tag = PU_FREE THEN Merged(joint, whole, after) ELSE joint
  <2>. HIDE DEF marked
  <2>. QED  BY <1>4 DEF Z_Free, IsFree
<1>. HIDE DEF marked, joined, last, m, j, self, n, p, e, one
<1>10. Z_Free(ZoneOf(b, r, k), a) = last
  BY <1>2, <1>3, <1>5, <1>6, <1>7, <1>8, <1>9
<1>. QED  BY <1>10 DEF last, e

(* The rover is moved off what is merged.                                  *)
LEMMA RoverIs ==
    ASSUME NEW b, NEW R, NEW a, Before1(b, R, a), NEW r \in R \cup {Blocklist}
    PROVE  RoverAfter(b, r, a) \in RingLeft(b, R, a) \cup {Blocklist}
<1>1. /\ b \in Headers /\ IsRing(b, R) /\ a \in R /\ b[a].tag # PU_FREE
      /\ b[Blocklist].tag = PU_STATIC /\ PU_STATIC # PU_FREE
  BY DEF Before1, PU_STATIC, PU_FREE
<1>2. /\ b[a].prev \in R \cup {Blocklist} /\ b[b[a].prev].next = a /\ a # Blocklist
      /\ b[a].next \in R \cup {Blocklist} /\ b[b[a].next].prev = a
  BY <1>1, BlockIs
<1>3. SelfOf(b, a) \in RingLeft(b, R, a)
  BY SecondHalf DEF Rest
<1>4. (b[a].prev \in R /\ b[a].prev # a) \/ b[b[a].prev].tag # PU_FREE
  BY <1>1, <1>2, NeighboursAre DEF Neighbours
<1>5. CASE b[b[a].prev].tag = PU_FREE
  BY <1>2, <1>3, <1>4, <1>5 DEF RoverAfter, RingLeft, RingAfter, SelfOf
<1>6. CASE b[b[a].prev].tag # PU_FREE
  BY <1>2, <1>3, <1>6 DEF RoverAfter, RingLeft, RingAfter, SelfOf
<1>. QED  BY <1>5, <1>6

(* The state once block a is freed: the ring that is left, and in it the   *)
(* rest of the blocks.                                                     *)
Freed(a, d, Q, self) ==
    /\ Rest(block, Ring(block), a, d, Q, self) /\ Apart(d, Q)
    /\ Leads(d, Q, block[a].next) /\ d[block[a].next].next = block[block[a].next].next
    /\ RoverAfter(block, mainrover, a) \in Q \cup {Blocklist}
    /\ Ring(d) = Q

(* Z_Free leaves such a state.                                             *)
LEMMA FreedState ==
    ASSUME Kept, NEW a \in Ring(block), block[a].tag # PU_FREE
    PROVE  /\ Z_Free(Zone, a) = ZoneOf(FreeBlocks(block, a), RoverAfter(block, mainrover, a), CacheAfter(block, cache, a))
           /\ Freed(a, FreeBlocks(block, a), RingLeft(block, Ring(block), a), SelfOf(block, a))
<1>1. Before1(block, Ring(block), a)
  BY DEF Kept, Headers, Before1
<1>2. mainrover \in Ring(block) \cup {Blocklist}
  BY DEF Kept, Blocks
<1>3. Zone = ZoneOf(block, mainrover, cache)
  BY DEF Zone, ZoneOf
<1>4. Z_Free(Zone, a) = ZoneOf(FreeBlocks(block, a), RoverAfter(block, mainrover, a), CacheAfter(block, cache, a))
  BY <1>1, <1>3, FreeIs
<1>5. /\ Rest(block, Ring(block), a, FreeBlocks(block, a), RingLeft(block, Ring(block), a), SelfOf(block, a))
      /\ Apart(FreeBlocks(block, a), RingLeft(block, Ring(block), a))
      /\ Leads(FreeBlocks(block, a), RingLeft(block, Ring(block), a), block[a].next)
      /\ FreeBlocks(block, a)[block[a].next].next = block[block[a].next].next
  BY <1>1, SecondHalf
<1>6. Ring(FreeBlocks(block, a)) = RingLeft(block, Ring(block), a)
  BY <1>5, RingIs DEF Rest
<1>7. RoverAfter(block, mainrover, a) \in RingLeft(block, Ring(block), a) \cup {Blocklist}
  BY <1>1, <1>2, RoverIs
<1>. QED  BY <1>4, <1>5, <1>6, <1>7 DEF Freed

(* The lumps' caches after a block is freed.                               *)
LEMMA CacheIs ==
    ASSUME NEW b, NEW k \in [Lumps -> ZoneAddresses], NEW a, b[a].user \in Lumps \cup {NoUser}
    PROVE  /\ CacheAfter(b, k, a) \in [Lumps -> ZoneAddresses]
           /\ \A l \in Lumps : CacheAfter(b, k, a)[l] = IF l = b[a].user THEN Null ELSE k[l]
<1>1. Null \in ZoneAddresses /\ NoUser \notin Lumps
  BY ZoneAssumption, Numbers DEF Null, Blocklist
<1>. QED  BY <1>1 DEF CacheAfter

(* Who owns what stays as it was, but for the block that is freed.         *)
LEMMA FreeOwned ==
    ASSUME NEW b \in Headers, NEW R, IsRing(b, R), NEW given, NEW k \in [Lumps -> ZoneAddresses], NEW freeing,
           OwnedBy(b, R, given, k, freeing),
           NEW a \in R, b[a].tag # PU_FREE, NEW d, NEW Q, NEW self, Rest(b, R, a, d, Q, self),
           NEW left, a \notin DOMAIN left, \A c \in DOMAIN left : c \in DOMAIN given /\ left[c] = given[c],
           DOMAIN given \subseteq DOMAIN left \cup {a}
    PROVE  OwnedBy(d, Q, left, CacheAfter(b, k, a), freeing)
<1>1. /\ \A c \in R : c # a /\ b[c].tag # PU_FREE => c \in Q /\ Untouched(b, d, c)
      /\ \A c \in Q : c \in R /\ (d[c].tag # PU_FREE => c # a /\ Untouched(b, d, c))
  BY DEF Rest
<1>2. R \subseteq ZoneAddresses
  BY BlockIs, Numbers
<1>3. \A c \in R : b[c].user \in Lumps \cup {NoUser}
  BY <1>2, HeaderIs
<1>4. \A l \in Lumps : CacheAfter(b, k, a)[l] = IF l = b[a].user THEN Null ELSE k[l]
  BY <1>3, CacheIs
<1>5. PU_FREE \notin {PU_STATIC, PU_LEVEL}
  BY DEF PU_FREE, PU_STATIC, PU_LEVEL
<1>6. ASSUME NEW c \in DOMAIN left
      PROVE  /\ c \in Q /\ d[c].tag = left[c].tag /\ left[c].tag \in {PU_STATIC, PU_LEVEL}
             /\ d[c].size >= left[c].size /\ d[c].id /\ d[c].user = NoUser
             /\ freeing => ~OfLevel(left[c].tag)
  <2>1. /\ c \in R /\ b[c].tag = left[c].tag /\ left[c].tag \in {PU_STATIC, PU_LEVEL}
        /\ b[c].size >= left[c].size /\ b[c].id /\ b[c].user = NoUser
        /\ freeing => ~OfLevel(left[c].tag)
    BY DEF OwnedBy
  <2>2. c # a /\ b[c].tag # PU_FREE
    BY <1>5, <2>1
  <2>. QED  BY <1>1, <2>1, <2>2 DEF Untouched, SameLook
<1>7. ASSUME NEW l \in Lumps, CacheAfter(b, k, a)[l] # Null
      PROVE  LET c == CacheAfter(b, k, a)[l]
             IN  c \in Q /\ d[c].user = l /\ d[c].tag # PU_FREE /\ d[c].size > LumpLength[l]
  <2>1. CacheAfter(b, k, a)[l] = k[l] /\ k[l] # Null /\ l # b[a].user
    BY <1>4, <1>7
  <2>2. k[l] \in R /\ b[k[l]].user = l /\ b[k[l]].tag # PU_FREE /\ b[k[l]].size > LumpLength[l]
    BY <2>1 DEF OwnedBy
  <2>3. k[l] # a
    BY <2>1, <2>2
  <2>. QED  BY <1>1, <2>1, <2>2, <2>3 DEF Untouched, SameLook
<1>8. ASSUME NEW c \in Q, d[c].tag # PU_FREE
      PROVE  IF d[c].user = NoUser THEN c \in DOMAIN left \/ (freeing /\ OfLevel(d[c].tag))
             ELSE CacheAfter(b, k, a)[d[c].user] = c
  <2>1. c \in R /\ c # a /\ d[c].user = b[c].user /\ d[c].tag = b[c].tag
    BY <1>1, <1>8 DEF Untouched, SameLook
  <2>2. IF b[c].user = NoUser THEN c \in DOMAIN given \/ (freeing /\ OfLevel(b[c].tag)) ELSE k[b[c].user] = c
    BY <1>8, <2>1 DEF OwnedBy
  <2>3. CASE b[c].user = NoUser
    BY <2>1, <2>2, <2>3
  <2>4. CASE b[c].user # NoUser
    <3>1. b[c].user \in Lumps /\ k[b[c].user] = c
      BY <1>3, <2>1, <2>2, <2>4
    <3>2. b[c].user # b[a].user
      <4>1. b[a].user # NoUser => k[b[a].user] = a
        BY DEF OwnedBy
      <4>. QED  BY <2>1, <2>4, <3>1, <4>1
    <3>. QED  BY <1>4, <2>1, <2>4, <3>1, <3>2
  <2>. QED  BY <2>3, <2>4
<1>. QED  BY <1>6, <1>7, <1>8 DEF OwnedBy

(* Only the looks of the ring's blocks matter to that.                     *)
LEMMA LooksOwn ==
    ASSUME NEW b, NEW R, NEW given, NEW k, NEW freeing, OwnedBy(b, R, given, k, freeing),
           NEW d, \A c \in R : Untouched(b, d, c)
    PROVE  OwnedBy(d, R, given, k, freeing)
<1>1. \A c \in R : d[c].tag = b[c].tag /\ d[c].user = b[c].user /\ d[c].id = b[c].id /\ d[c].size = b[c].size
  BY DEF Untouched, SameLook
<1>2. \A a \in DOMAIN given :
           /\ a \in R /\ d[a].tag = given[a].tag /\ given[a].tag \in {PU_STATIC, PU_LEVEL}
           /\ d[a].size >= given[a].size /\ d[a].id /\ d[a].user = NoUser
           /\ freeing => ~OfLevel(given[a].tag)
  BY <1>1 DEF OwnedBy
<1>3. \A l \in Lumps : k[l] # Null =>
           /\ k[l] \in R /\ d[k[l]].user = l /\ d[k[l]].tag # PU_FREE /\ d[k[l]].size > LumpLength[l]
  BY <1>1 DEF OwnedBy
<1>4. \A a \in R : d[a].tag # PU_FREE =>
           IF d[a].user = NoUser THEN a \in DOMAIN given \/ (freeing /\ OfLevel(d[a].tag)) ELSE k[d[a].user] = a
  BY <1>1 DEF OwnedBy
<1>. QED  BY <1>2, <1>3, <1>4 DEF OwnedBy

(* Forgetting what is in memory between the headers changes no block.      *)
LEMMA TidyIs ==
    ASSUME NEW b \in Headers, NEW R, IsRing(b, R)
    PROVE  /\ Tidy(b) \in Headers /\ IsRing(Tidy(b), R) /\ Ring(Tidy(b)) = R
           /\ \A c \in R \cup {Blocklist} : Tidy(b)[c] = b[c]
<1>1. Ring(b) = R /\ R \cup {Blocklist} \subseteq ZoneAddresses
  BY RingIs, BlockIs, Numbers
<1>2. \A c \in R \cup {Blocklist} : Tidy(b)[c] = b[c]
  BY <1>1 DEF Tidy
<1>3. Garbage \in Header
  BY Numbers DEF Garbage, Header, PU_STATIC, PU_CACHE
<1>4. Tidy(b) \in Headers
  BY <1>3, HeaderIs DEF Tidy, Headers
<1>5. \A c \in R \cup {Blocklist} : SameLinks(b, Tidy(b), c)
  BY <1>2 DEF SameLinks
<1>6. IsRing(Tidy(b), R)
  BY <1>5, LinksMakeRing
<1>. QED  BY <1>2, <1>4, <1>6, RingIs

-----------------------------------------------------------------------------
(* The steps of Z_Malloc.                                                  *)

(* Blocks and their headers.                                               *)
LEMMA BlocksAre ==
    ASSUME Kept
    PROVE  /\ Blocks \subseteq ZoneAddresses /\ Blocklist \in Blocks /\ Ring(block) \subseteq Blocks
           /\ \A a \in Blocks : /\ block[a].next \in Blocks /\ block[block[a].next].prev = a
                                /\ block[a].prev \in Blocks /\ block[block[a].prev].next = a
           /\ \A a \in ZoneAddresses : block[a] \in Header
           /\ \A a \in Blocks : block[a].tag = PU_FREE => a \in Ring(block)
           /\ PU_STATIC # PU_FREE
<1>1. PU_STATIC # PU_FREE
  BY DEF PU_STATIC, PU_FREE
<1>2. Blocks \subseteq ZoneAddresses
  BY BlockIs, Numbers DEF Kept, Blocks
<1>3. \A a \in Blocks : /\ block[a].next \in Blocks /\ block[block[a].next].prev = a
                        /\ block[a].prev \in Blocks /\ block[block[a].prev].next = a
  BY DEF Kept, IsRing, Linked, Blocks
<1>4. \A a \in ZoneAddresses : block[a] \in Header
  BY DEF Kept
<1>. QED  BY <1>1, <1>2, <1>3, <1>4 DEF Kept, Blocks

(* The scan goes on, or has found a block.                                 *)
LEMMA ScansOnInv ==
    ASSUME Kept', call \in Call, call.pc = "scan", Asked,
           call.user # NoUser => cache'[call.user] = Null,
           NEW b, b = block', NEW base, NEW rover, ScansOn(b, base, rover),
           base \in Blocks', rover \in Blocks', call.start \in Blocks',
           b[call.start].tag # PU_FREE, b[b[base].prev].tag # PU_FREE,
           rover = base \/ (b[base].tag = PU_FREE /\ b[base].next = rover)
    PROVE  Calling' /\ call'.pc # "tags"
<1>. DEFINE phase == IF b[base].tag # PU_FREE \/ b[base].size < call.size THEN "scan" ELSE "found"
<1>1. call' = [call EXCEPT !.base = base, !.rover = rover, !.pc = phase]
  BY DEF ScansOn
<1>2. base \in ZoneAddresses /\ rover \in ZoneAddresses /\ b[base] \in Header
  <2>1. IsRing(block', Ring(block')) /\ block' \in [ZoneAddresses -> Header]
    BY DEF Kept
  <2>2. \A c \in Ring(block') : c \in ZoneAddresses
    BY <2>1, BlockIs, Numbers
  <2>. QED  BY <2>1, <2>2, Numbers DEF Blocks
<1>3. /\ call' \in Call /\ call'.pc = phase /\ call'.base = base /\ call'.rover = rover /\ call'.start = call.start
      /\ call'.size = call.size /\ call'.tag = call.tag /\ call'.user = call.user
  <2>1. phase \in {"scan", "found"}
    OBVIOUS
  <2>. HIDE DEF phase
  <2>. QED  BY <1>1, <1>2, <2>1 DEF Call
<1>4. Asked'
  BY <1>3 DEF Asked
<1>5. Scanning'
  BY <1>3 DEF Scanning
<1>6. phase = "found" => HasFound'
  <2>. SUFFICES ASSUME phase = "found" PROVE HasFound'
    OBVIOUS
  <2>1. b[base].tag = PU_FREE /\ ~(b[base].size < call.size)
    OBVIOUS
  <2>2. b[base].size \in Nat /\ call.size \in Nat
    BY <1>2, Numbers DEF Header, Asked
  <2>. QED  BY <1>2, <1>3, <2>1, <2>2 DEF HasFound
<1>. QED  BY <1>3, <1>4, <1>5, <1>6 DEF Calling

(* Memory, caches and the rover stay as they are.                          *)
LEMMA KeptStays ==
    ASSUME Kept, block' = block, mainrover' = mainrover, cache' = cache
    PROVE  Kept' /\ Blocks' = Blocks /\ Ring(block)' = Ring(block)
  BY DEF Kept, Blocks

(* Past a free block: the scan keeps it as its base.                       *)
LEMMA ScanFreeInv == ASSUME ZoneInv, ScanFree PROVE ZoneInv'
<1>1. /\ call.pc = "scan" /\ block[call.rover].tag = PU_FREE
      /\ ScansOn(block, call.base, block[call.rover].next)
      /\ block' = block /\ mainrover' = mainrover /\ cache' = cache /\ held' = held
  BY DEF ScanFree
<1>2. Kept /\ Owned /\ call \in Call /\ Asked /\ Scanning
  BY <1>1 DEF ZoneInv, Calling
<1>3. Kept' /\ Blocks' = Blocks /\ Ring(block)' = Ring(block)
  BY <1>1, <1>2, KeptStays
<1>4. /\ call.base \in Blocks /\ call.rover \in Blocks /\ call.start \in Blocks
      /\ block[call.start].tag # PU_FREE /\ block[block[call.base].prev].tag # PU_FREE
      /\ call.rover = call.base \/ (block[call.base].tag = PU_FREE /\ block[call.base].next = call.rover)
  BY <1>2 DEF Scanning
<1>5. call.rover = call.base
  <2>. SUFFICES ASSUME block[call.base].tag = PU_FREE, block[call.base].next = call.rover PROVE FALSE
    BY <1>4
  <2>1. call.base \in Ring(block) /\ call.rover # Blocklist
    BY <1>1, <1>2, <1>4, BlocksAre DEF Kept
  <2>. QED  BY <1>1, <1>2, <2>1 DEF Kept, Apart
<1>6. block[call.rover].next \in Blocks
  BY <1>2, <1>4, BlocksAre
<1>7. call.user # NoUser => cache'[call.user] = Null
  BY <1>1, <1>2 DEF Asked
<1>8. Calling' /\ call'.pc # "tags"
  <2>1. /\ block = block' /\ call.base \in Blocks' /\ block[call.rover].next \in Blocks' /\ call.start \in Blocks'
        /\ block[call.base].tag = PU_FREE /\ block[call.base].next = block[call.rover].next
    BY <1>1, <1>3, <1>4, <1>5, <1>6
  <2>. QED  BY <1>1, <1>2, <1>3, <1>4, <1>7, <2>1, ScansOnInv
<1>9. Owned'
  BY <1>1, <1>2, <1>3, <1>8 DEF Owned
<1>. QED  BY <1>3, <1>8, <1>9 DEF ZoneInv

(* Past one that cannot be purged: the base moves on.                      *)
LEMMA ScanPastInv == ASSUME ZoneInv, ScanPast PROVE ZoneInv'
<1>1. /\ call.pc = "scan" /\ block[call.rover].tag # PU_FREE
      /\ ScansOn(block, block[call.rover].next, block[call.rover].next)
      /\ block' = block /\ mainrover' = mainrover /\ cache' = cache /\ held' = held
  BY DEF ScanPast
<1>2. Kept /\ Owned /\ call \in Call /\ Asked /\ Scanning
  BY <1>1 DEF ZoneInv, Calling
<1>3. Kept' /\ Blocks' = Blocks /\ Ring(block)' = Ring(block)
  BY <1>1, <1>2, KeptStays
<1>4. /\ call.rover \in Blocks /\ call.start \in Blocks /\ block[call.start].tag # PU_FREE
  BY <1>2 DEF Scanning
<1>5. block[call.rover].next \in Blocks /\ block[block[call.rover].next].prev = call.rover
  BY <1>2, <1>4, BlocksAre
<1>6. call.user # NoUser => cache'[call.user] = Null
  BY <1>1, <1>2 DEF Asked
<1>7. Calling' /\ call'.pc # "tags"
  <2>1. /\ block = block' /\ block[call.rover].next \in Blocks' /\ call.start \in Blocks'
        /\ block[block[block[call.rover].next].prev].tag # PU_FREE
    BY <1>1, <1>3, <1>4, <1>5
  <2>. QED  BY <1>1, <1>2, <1>3, <1>4, <1>6, <2>1, ScansOnInv
<1>8. Owned'
  BY <1>1, <1>2, <1>3, <1>7 DEF Owned
<1>. QED  BY <1>3, <1>7, <1>8 DEF ZoneInv

(* Memory after a block is freed.                                          *)
LEMMA FreedKept ==
    ASSUME Kept, NEW a \in Ring(block), block[a].tag # PU_FREE, NEW Q, NEW self, NEW d, Freed(a, d, Q, self),
           block' = d, mainrover' = RoverAfter(block, mainrover, a), cache' = CacheAfter(block, cache, a)
    PROVE  Kept' /\ Ring(block') = Q /\ Blocks' = Q \cup {Blocklist}
<1>1. /\ d \in Headers /\ IsRing(d, Q) /\ Apart(d, Q) /\ Ring(d) = Q /\ d[Blocklist].tag = PU_STATIC
      /\ RoverAfter(block, mainrover, a) \in Q \cup {Blocklist}
  BY DEF Freed, Rest
<1>2. Ring(block') = Q /\ Blocks' = Q \cup {Blocklist}
  BY <1>1 DEF Blocks
<1>3. block[a].user \in Lumps \cup {NoUser}
  BY BlocksAre DEF Header
<1>4. cache' \in [Lumps -> ZoneAddresses]
  BY <1>3, CacheIs DEF Kept
<1>. QED  BY <1>1, <1>2, <1>4 DEF Kept, Headers

(* A block that can be purged is, and the scan goes on from what it has    *)
(* become.                                                                 *)
LEMMA ScanPurgeInv == ASSUME ZoneInv, ScanPurge PROVE ZoneInv'
<1>. DEFINE a == call.rover
            before == block[call.base].prev
            d == FreeBlocks(block, a)
            Q == RingLeft(block, Ring(block), a)
            self == SelfOf(block, a)
            z == Z_Free(Zone, a)
            base == z.block[before].next
<1>1. /\ call.pc = "scan" /\ a # call.start /\ block[a].tag >= PU_PURGELEVEL
      /\ Becomes(z) /\ ScansOn(z.block, base, z.block[base].next) /\ held' = held
  BY DEF ScanPurge
<1>2. Kept /\ Owned /\ call \in Call /\ Asked /\ Scanning
  BY <1>1 DEF ZoneInv, Calling
<1>3. /\ call.base \in Blocks /\ a \in Blocks /\ call.start \in Blocks
      /\ block[call.start].tag # PU_FREE /\ block[before].tag # PU_FREE
      /\ a = call.base \/ (block[call.base].tag = PU_FREE /\ block[call.base].next = a)
  BY <1>2 DEF Scanning
<1>4. block[a].tag # PU_FREE /\ block[a].tag \notin {PU_STATIC, PU_LEVEL} /\ a # Blocklist /\ a \in Ring(block)
  <2>1. block[a].tag \in Int
    BY <1>2, <1>3, BlocksAre DEF Header
  <2>2. block[Blocklist].tag = PU_STATIC
    BY <1>2 DEF Kept
  <2>3. ASSUME NEW t \in Int, t >= PU_PURGELEVEL PROVE t \notin {PU_FREE, PU_STATIC, PU_LEVEL}
    BY <2>3 DEF PU_FREE, PU_STATIC, PU_LEVEL, PU_PURGELEVEL
  <2>. HIDE DEF a
  <2>4. block[a].tag \notin {PU_FREE, PU_STATIC, PU_LEVEL}
    BY <1>1, <2>1, <2>3
  <2>. QED  BY <1>3, <2>2, <2>4 DEF Blocks
<1>5. z = ZoneOf(d, RoverAfter(block, mainrover, a), CacheAfter(block, cache, a)) /\ Freed(a, d, Q, self)
  BY <1>2, <1>4, FreedState
<1>. HIDE DEF z, d, Q, a
<1>6. z.block = d /\ block' = d /\ mainrover' = RoverAfter(block, mainrover, a) /\ cache' = CacheAfter(block, cache, a)
  <2>1. z.block = d /\ z.rover = RoverAfter(block, mainrover, a) /\ z.cache = CacheAfter(block, cache, a)
    BY <1>5 DEF ZoneOf
  <2>. QED  BY <1>1, <2>1 DEF Becomes
<1>. USE DEF a
<1>7. Kept' /\ Ring(block') = Q /\ Blocks' = Q \cup {Blocklist}
  BY <1>2, <1>4, <1>5, <1>6, FreedKept
<1>8. /\ d \in Headers /\ IsRing(d, Q) /\ Q \subseteq Ring(block) /\ d[Blocklist].tag = PU_STATIC
      /\ self \in Q /\ d[self].tag = PU_FREE /\ d[self].prev = block[self].prev
      /\ \A c \in Ring(block) : c # a /\ block[c].tag # PU_FREE => c \in Q /\ Untouched(block, d, c)
  BY <1>5 DEF Freed, Rest
<1>9. self = IF block[block[a].prev].tag = PU_FREE THEN block[a].prev ELSE a
  BY DEF SelfOf
<1>10. before = block[self].prev
  <2>1. CASE a = call.base
    BY <1>3, <1>9, <2>1
  <2>2. CASE block[call.base].tag = PU_FREE /\ block[call.base].next = a
    <3>1. block[a].prev = call.base
      BY <1>2, <1>3, <2>2, BlocksAre
    <3>. QED  BY <1>9, <2>2, <3>1
  <2>. QED  BY <1>3, <2>1, <2>2
<1>11. base = self
  <2>1. d[d[self].prev].next = self
    BY <1>8, BlockIs
  <2>. QED  BY <1>6, <1>8, <1>10, <2>1
<1>. HIDE DEF self, base
<1>12. d[base].next \in Blocks'
  BY <1>7, <1>8, <1>11, BlockIs
<1>13. /\ call.start \in Q \cup {Blocklist} /\ d[call.start].tag # PU_FREE
  <2>1. CASE call.start = Blocklist
    BY <1>2, <1>8, <2>1, BlocksAre
  <2>2. CASE call.start # Blocklist
    BY <1>1, <1>3, <1>8, <2>2 DEF Blocks, Untouched, SameLook
  <2>. QED  BY <2>1, <2>2
<1>14. d[d[base].prev].tag # PU_FREE
  <2>1. d[base].prev = before /\ before \in Blocks /\ before # a
    <3>1. before \in Blocks
      BY <1>2, <1>3, BlocksAre
    <3>2. d[base].prev = before /\ base \in Q
      BY <1>8, <1>10, <1>11
    <3>3. before = a => FALSE
      <4>. SUFFICES ASSUME before = a PROVE FALSE
        OBVIOUS
      <4>1. block[a].next = call.base
        BY <1>2, <1>3, BlocksAre
      <4>2. call.base \in Ring(block) /\ IsRing(block, Ring(block))
        BY <1>2, <1>3, <1>4, BlocksAre DEF Kept
      <4>3. /\ a \in Nat /\ block[a].size \in Nat /\ 1 <= block[a].size
            /\ call.base # Blocklist => a + block[a].size = call.base
        BY <1>4, <4>1, <4>2, BlockIs
      <4>4. /\ call.base \in Nat /\ call.base # Blocklist /\ block[call.base].size \in Nat /\ 1 <= block[call.base].size
            /\ block[call.base].next = a => call.base + block[call.base].size = a
        BY <1>4, <4>2, BlockIs
      <4>. QED  BY <1>3, <4>1, <4>3, <4>4
    <3>. QED  BY <3>1, <3>2, <3>3
  <2>2. CASE before = Blocklist
    BY <1>2, <1>8, <2>1, <2>2, BlocksAre
  <2>3. CASE before # Blocklist
    BY <1>3, <1>8, <2>1, <2>3 DEF Blocks, Untouched, SameLook
  <2>. QED  BY <2>1, <2>2, <2>3
<1>15. call.user # NoUser => cache'[call.user] = Null
  <2>. SUFFICES ASSUME call.user # NoUser PROVE cache'[call.user] = Null
    OBVIOUS
  <2>1. call.user \in Lumps /\ cache[call.user] = Null
    BY <1>2 DEF Asked
  <2>2. block[a].user \in Lumps \cup {NoUser} /\ cache \in [Lumps -> ZoneAddresses]
    BY <1>2, <1>3, BlocksAre DEF Header, Kept
  <2>. QED  BY <1>6, <2>1, <2>2, CacheIs
<1>16. Calling' /\ call'.pc # "tags"
  <2>1. /\ d = block' /\ ScansOn(d, base, d[base].next) /\ base \in Blocks' /\ d[base].next \in Blocks'
        /\ call.start \in Blocks' /\ d[base].tag = PU_FREE
    BY <1>1, <1>6, <1>7, <1>8, <1>11, <1>12, <1>13
  <2>. QED  BY <1>1, <1>2, <1>7, <1>13, <1>14, <1>15, <2>1, ScansOnInv
<1>17. OwnedBy(d, Q, held, CacheAfter(block, cache, a), FALSE)
  <2>1. /\ block \in Headers /\ IsRing(block, Ring(block)) /\ cache \in [Lumps -> ZoneAddresses]
        /\ OwnedBy(block, Ring(block), held, cache, FALSE) /\ Rest(block, Ring(block), a, d, Q, self)
    BY <1>1, <1>2, <1>5 DEF Kept, Headers, Owned, Freed
  <2>2. a \notin DOMAIN held
    BY <1>4, <2>1 DEF OwnedBy
  <2>. QED  BY <1>4, <2>1, <2>2, FreeOwned
<1>18. Owned'
  BY <1>1, <1>6, <1>7, <1>16, <1>17 DEF Owned
<1>. QED  BY <1>7, <1>16, <1>18 DEF ZoneInv

(* All the way round: the game stops.                                      *)
LEMMA ScanFailsInv == ASSUME ZoneInv, ScanFails PROVE ZoneInv'
<1>1. block' = block /\ mainrover' = mainrover /\ cache' = cache /\ held' = held /\ call' = call
  BY DEF ScanFails
<1>2. Kept' /\ Owned' /\ Calling'
  BY <1>1 DEF ZoneInv, Kept, Owned, Calling, Blocks, Asked, Scanning, HasFound, Freeing, Ahead
<1>. QED  BY <1>2 DEF ZoneInv

(* What a split leaves: as before but for base, which may be followed by a *)
(* new free block.                                                         *)
Cut(b, R, base, size, d, Q) ==
    /\ d \in Headers /\ IsRing(d, Q) /\ R \subseteq Q
    /\ d[base].size >= size /\ \A c \in R \ {base} : d[c].size = b[c].size
    /\ \A c \in R \cup {Blocklist} : SameLook(b, d, c)
    /\ \A c \in Q \ R : d[c].tag = PU_FREE
    /\ \A c \in Q : c # base /\ d[c].next # Blocklist => d[c].tag # PU_FREE \/ d[c].next = base \/ d[d[c].next].tag # PU_FREE

(* That is what a split leaves.                                            *)
LEMMA SplitIs ==
    ASSUME NEW b \in Headers, NEW R, IsRing(b, R), Apart(b, R), b[Blocklist].tag = PU_STATIC,
           NEW base \in R, b[base].tag = PU_FREE, NEW size \in Nat \ {0}, b[base].size >= size
    PROVE  \E Q : Cut(b, R, base, size, Split(b, base, size), Q)
<1>. DEFINE extra == b[base].size - size
            new == base + size
            n == b[base].next
            d == Split(b, base, size)
<1>1. R \subseteq ZoneAddresses /\ Blocklist \in ZoneAddresses /\ \A c \in R : c # Blocklist /\ c \in Nat /\ 1 <= c /\ c <= ZoneSize
  BY BlockIs, Numbers
<1>2. /\ base \in Nat /\ 1 <= base /\ b[base].size \in Nat /\ n \in R \cup {Blocklist} /\ b[n].prev = base
      /\ base + b[base].size = IF n = Blocklist THEN ZoneSize + 1 ELSE n
  BY BlockIs
<1>3. extra \in Nat /\ MinFragment \in Nat \ {0}
  BY <1>2, ZoneAssumption
<1>4. \A c \in R : b[c].next # Blocklist => b[c].tag # PU_FREE \/ b[b[c].next].tag # PU_FREE
  BY DEF Apart
<1>5. CASE ~(extra > MinFragment)
  <2>1. d = b
    BY <1>5 DEF Split
  <2>2. Cut(b, R, base, size, b, R)
    BY <1>4 DEF Cut, SameLook
  <2>. QED  BY <2>1, <2>2
<1>6. CASE extra > MinFragment
  <2>. DEFINE h == [size |-> extra, tag |-> PU_FREE, user |-> NoUser, id |-> FALSE, next |-> n, prev |-> base]
              g == [b[base] EXCEPT !.next = new, !.size = size]
              f == [b[n] EXCEPT !.prev = new]
              Q == R \cup {new}
  <2>1. new \in Nat /\ base < new /\ extra \in 1 .. ZoneSize /\ size \in 0 .. ZoneSize /\ new < base + b[base].size
        /\ base + b[base].size <= ZoneSize + 1 /\ new + extra = base + b[base].size
    <3>1. /\ base \in Nat /\ 1 <= base /\ base <= ZoneSize /\ b[base].size \in Nat /\ extra \in Nat /\ extra # 0
          /\ base + b[base].size <= ZoneSize + 1
      BY <1>1, <1>2, <1>3, <1>6, Numbers
    <3>. HIDE DEF h, g, f, n, d, Q
    <3>. QED  BY <3>1, Numbers
  <2>2. new \notin R
    <3>. SUFFICES ASSUME new \in R PROVE FALSE
      OBVIOUS
    <3>1. n # Blocklist /\ n <= new
      <4>. HIDE DEF new
      <4>. QED  BY <2>1, NoneInside
    <3>. QED  BY <1>1, <1>2, <2>1, <3>1
  <2>3. new \in ZoneAddresses /\ base \in ZoneAddresses /\ n \in ZoneAddresses /\ new # base /\ new # Blocklist /\ n # base /\ n # new
    BY <1>1, <1>2, <2>1, <2>2, Numbers, SMTT(40)
  <2>4. d = [[[b EXCEPT ![new] = h] EXCEPT ![base] = g] EXCEPT ![n] = f]
    <3>1. d = [[[[b EXCEPT ![new] = h] EXCEPT ![base].next = new] EXCEPT ![base].size = size] EXCEPT ![n].prev = new]
      BY <1>6 DEF Split
    <3>. HIDE DEF h, n, new, d
    <3>2. [b EXCEPT ![new] = h][base] = b[base] /\ [b EXCEPT ![new] = h] \in [ZoneAddresses -> {b[c] : c \in ZoneAddresses} \cup {h}]
      BY <2>3 DEF Headers
    <3>3. [[[b EXCEPT ![new] = h] EXCEPT ![base].next = new] EXCEPT ![base].size = size]
          = [[b EXCEPT ![new] = h] EXCEPT ![base] = g]
      BY <2>3, <3>2 DEF Headers
    <3>. HIDE DEF g
    <3>4. [[b EXCEPT ![new] = h] EXCEPT ![base] = g][n] = b[n]
      BY <2>3 DEF Headers
    <3>. QED  BY <3>1, <3>3, <3>4
  <2>5. b[base] \in Header /\ b[n] \in Header
    <3>. HIDE DEF n
    <3>. QED  BY <2>3, HeaderIs
  <2>6. h \in Header
    <3>1. PU_FREE \in 1 .. PU_CACHE
      BY DEF PU_FREE, PU_CACHE
    <3>2. extra \in 0 .. ZoneSize
      BY <2>1
    <3>. HIDE DEF n, extra
    <3>. QED  BY <2>3, <3>1, <3>2 DEF Header
  <2>7. /\ g \in Header /\ g.next = new /\ g.size = size /\ g.prev = b[base].prev
        /\ g.tag = b[base].tag /\ g.user = b[base].user /\ g.id = b[base].id
    <3>. HIDE DEF new
    <3>. QED  BY <2>1, <2>3, <2>5 DEF Header
  <2>8. /\ f \in Header /\ f.prev = new /\ f.next = b[n].next /\ f.size = b[n].size
        /\ f.tag = b[n].tag /\ f.user = b[n].user /\ f.id = b[n].id
    <3>. HIDE DEF new, n
    <3>. QED  BY <2>3, <2>5 DEF Header
  <2>9. d \in Headers /\ d[new] = h /\ d[base] = g /\ d[n] = f /\ \A c \in ZoneAddresses \ {new, base, n} : d[c] = b[c]
    <3>. HIDE DEF h, g, f, n, new, d, extra
    <3>. QED  BY <2>3, <2>4, <2>6, <2>7, <2>8 DEF Headers
  <2>10. h.size = extra /\ h.tag = PU_FREE /\ h.next = n /\ h.prev = base
    OBVIOUS
  <2>. HIDE DEF h, g, f, d
  <2>11. \A c \in (R \cup {Blocklist}) : SameLook(b, d, c)
    <3>1. SameLook(b, d, base) /\ SameLook(b, d, n)
      BY <2>7, <2>8, <2>9 DEF SameLook
    <3>2. \A c \in ZoneAddresses \ {new, base, n} : SameLook(b, d, c)
      BY <2>9 DEF SameLook
    <3>. QED  BY <1>1, <2>2, <2>3, <3>1, <3>2
  <2>12. /\ \A c \in (R \cup {Blocklist}) \ {base} : d[c].size = b[c].size /\ d[c].next = b[c].next
         /\ \A c \in (R \cup {Blocklist}) \ {n} : d[c].prev = b[c].prev
    <3>. HIDE DEF n, new
    <3>. QED  BY <1>1, <2>2, <2>3, <2>7, <2>8, <2>9
  <2>13. \A a \in R \cup {Blocklist} :
             /\ b[a].next \in R \cup {Blocklist} /\ b[b[a].next].prev = a
             /\ b[a].prev \in R \cup {Blocklist} /\ b[b[a].prev].next = a
    BY DEF IsRing, Linked
  <2>14. ASSUME NEW a \in Q \cup {Blocklist} PROVE d[a].next \in Q \cup {Blocklist} /\ d[d[a].next].prev = a
    <3>1. CASE a = new
      BY <1>2, <2>8, <2>9, <2>10, <3>1
    <3>2. CASE a = base
      BY <2>7, <2>9, <2>10, <3>2
    <3>3. CASE a # new /\ a # base
      <4>1. a \in R \cup {Blocklist} /\ d[a].next = b[a].next
        BY <2>12, <3>3
      <4>2. b[a].next # n
        BY <1>2, <2>13, <3>3, <4>1
      <4>. HIDE DEF n, new
      <4>. QED  BY <2>12, <2>13, <4>1, <4>2
    <3>. QED  BY <3>1, <3>2, <3>3
  <2>15. ASSUME NEW a \in Q \cup {Blocklist} PROVE d[a].prev \in Q \cup {Blocklist} /\ d[d[a].prev].next = a
    <3>1. CASE a = new
      BY <1>2, <2>7, <2>9, <2>10, <3>1
    <3>2. CASE a = n
      BY <2>8, <2>9, <2>10, <3>2
    <3>3. CASE a # new /\ a # n
      <4>1. a \in R \cup {Blocklist} /\ d[a].prev = b[a].prev
        BY <2>12, <3>3
      <4>2. b[a].prev # base
        BY <2>13, <3>3, <4>1
      <4>. HIDE DEF n, new
      <4>. QED  BY <2>12, <2>13, <4>1, <4>2
    <3>. QED  BY <3>1, <3>2, <3>3
  <2>16. d[Blocklist].next = 1
    BY <1>1, <2>12 DEF IsRing, Linked
  <2>17. Linked(d, Q)
    BY <2>14, <2>15, <2>16 DEF Linked
  <2>18. ASSUME NEW a \in Q PROVE d[a].size \in Nat \ {0} /\ a + d[a].size = End(d, a)
    <3>1. CASE a = new
      BY <1>2, <2>1, <2>9, <2>10, <3>1 DEF End
    <3>2. CASE a = base
      <4>. HIDE DEF extra
      <4>. QED  BY <2>3, <2>7, <2>9, <3>2 DEF End
    <3>3. CASE a # new /\ a # base
      <4>1. a \in R
        BY <3>3
      <4>2. d[a].size = b[a].size /\ d[a].next = b[a].next
        BY <2>12, <3>3, <4>1
      <4>3. b[a].size \in Nat /\ 1 <= b[a].size /\ a + b[a].size = IF b[a].next = Blocklist THEN ZoneSize + 1 ELSE b[a].next
        BY <4>1, BlockIs
      <4>. QED  BY <4>2, <4>3 DEF End
    <3>. QED  BY <3>1, <3>2, <3>3
  <2>19. Q \subseteq 1 .. ZoneSize
    <3>1. new \in 1 .. ZoneSize
      <4>. HIDE DEF n, extra, Q
      <4>. QED  BY <1>1, <1>2, <2>1, <2>3, Numbers
    <3>. QED  BY <3>1 DEF IsRing
  <2>20. IsRing(d, Q)
    BY <2>17, <2>18, <2>19 DEF IsRing, Filled
  <2>21. ASSUME NEW c \in Q, c # base, d[c].next # Blocklist
         PROVE  d[c].tag # PU_FREE \/ d[c].next = base \/ d[d[c].next].tag # PU_FREE
    <3>1. CASE c = new
      <4>1. d[c].next = n /\ n \in R
        BY <1>2, <2>9, <2>10, <2>21, <3>1
      <4>2. b[n].tag # PU_FREE
        BY <1>4, <2>21, <4>1
      <4>. QED  BY <2>8, <2>9, <4>1, <4>2
    <3>2. CASE c # new
      <4>1. c \in R /\ d[c].next = b[c].next /\ b[c].next \in R
        BY <2>12, <2>13, <2>21, <3>2
      <4>2. d[c].tag = b[c].tag /\ d[b[c].next].tag = b[b[c].next].tag
        BY <2>11, <4>1 DEF SameLook
      <4>. QED  BY <1>4, <2>21, <4>1, <4>2
    <3>. QED  BY <3>1, <3>2
  <2>22. d[base].size >= size /\ (\A c \in R \ {base} : d[c].size = b[c].size) /\ \A c \in Q \ R : d[c].tag = PU_FREE
    BY <2>7, <2>9, <2>10, <2>12
  <2>23. Cut(b, R, base, size, d, Q)
    BY <2>9, <2>11, <2>20, <2>21, <2>22 DEF Cut
  <2>. HIDE DEF Q, new, n, extra
  <2>. QED  BY <2>23 DEF d
<1>. QED  BY <1>5, <1>6

(* A header that says who a block is for.                                  *)
Signed(d, base, who, tag) == [d EXCEPT ![base] = [@ EXCEPT !.user = who, !.tag = tag, !.id = TRUE]]

(* It changes no link, and no other header.                                *)
LEMMA SignedIs ==
    ASSUME NEW d \in Headers, NEW base \in ZoneAddresses, NEW who \in Lumps \cup {NoUser}, NEW tag \in 1 .. PU_CACHE
    PROVE  LET e == Signed(d, base, who, tag)
           IN  /\ e \in Headers /\ e[base].tag = tag /\ e[base].user = who /\ e[base].id
               /\ \A c \in ZoneAddresses : SameLinks(d, e, c)
               /\ \A c \in ZoneAddresses \ {base} : e[c] = d[c]
<1>. DEFINE h == [d[base] EXCEPT !.user = who, !.tag = tag, !.id = TRUE]
            e == Signed(d, base, who, tag)
<1>1. d[base] \in Header
  BY HeaderIs
<1>2. /\ h \in Header /\ h.user = who /\ h.tag = tag /\ h.id = TRUE
      /\ h.size = d[base].size /\ h.next = d[base].next /\ h.prev = d[base].prev
  BY <1>1 DEF Header
<1>3. e = [d EXCEPT ![base] = h]
  BY DEF Signed
<1>4. e \in Headers /\ e[base] = h /\ \A c \in ZoneAddresses \ {base} : e[c] = d[c]
  <2>. HIDE DEF h, e
  <2>. QED  BY <1>2, <1>3 DEF Headers
<1>. HIDE DEF h, e
<1>5. \A c \in ZoneAddresses : SameLinks(d, e, c)
  BY <1>2, <1>4 DEF SameLinks
<1>. QED  BY <1>2, <1>4, <1>5 DEF e

(* The block found is cut to size and handed out.                          *)
LEMMA HandOutInv == ASSUME ZoneInv, HandOut PROVE ZoneInv'
<1>. DEFINE base == call.base
            d == Split(block, base, call.size)
            e == Signed(d, base, call.user, call.tag)
<1>1. /\ call.pc = "found"
      /\ block' = Tidy(e) /\ mainrover' = d[base].next
      /\ IF call.user = NoUser
         THEN /\ held' = [a \in DOMAIN held \cup {base} |->
                             IF a = base THEN [size |-> call.size, tag |-> call.tag] ELSE held[a]]
              /\ cache' = cache
         ELSE cache' = [cache EXCEPT ![call.user] = base] /\ held' = held
      /\ call' = NoCall
  BY DEF HandOut, Signed
<1>2. Kept /\ Owned /\ call \in Call /\ Asked /\ HasFound
  BY <1>1 DEF ZoneInv, Calling
<1>3. /\ base \in Ring(block) /\ block[base].tag = PU_FREE /\ block[base].size >= call.size
      /\ call.size \in Nat \ {0} /\ call.user \in Lumps \cup {NoUser} /\ call.tag \in {PU_STATIC, PU_LEVEL, PU_CACHE}
      /\ IF call.user = NoUser THEN call.tag # PU_CACHE
         ELSE cache[call.user] = Null /\ call.size > LumpLength[call.user]
  BY <1>2, BlocksAre DEF HasFound, Asked
<1>4. /\ block \in Headers /\ IsRing(block, Ring(block)) /\ Apart(block, Ring(block)) /\ block[Blocklist].tag = PU_STATIC
      /\ cache \in [Lumps -> ZoneAddresses]
      /\ OwnedBy(block, Ring(block), held, cache, FALSE)
  BY <1>1, <1>2 DEF Kept, Headers, Owned
<1>5. PICK Q : Cut(block, Ring(block), base, call.size, d, Q)
  BY <1>3, <1>4, SplitIs
<1>. DEFINE R == Ring(block)
<1>. HIDE DEF d, base
<1>6. /\ d \in Headers /\ IsRing(d, Q) /\ R \subseteq Q
      /\ d[base].size >= call.size /\ \A c \in R \ {base} : d[c].size = block[c].size
      /\ \A c \in R \cup {Blocklist} : SameLook(block, d, c)
      /\ \A c \in Q \ R : d[c].tag = PU_FREE
      /\ \A c \in Q : c # base /\ d[c].next # Blocklist => d[c].tag # PU_FREE \/ d[c].next = base \/ d[d[c].next].tag # PU_FREE
  BY <1>5 DEF Cut
<1>7. Q \subseteq ZoneAddresses /\ Blocklist \in ZoneAddresses /\ base \in Q /\ base # Blocklist /\ base \in ZoneAddresses
  BY <1>3, <1>6, BlockIs, Numbers
<1>8. PU_FREE \notin {PU_STATIC, PU_LEVEL, PU_CACHE} /\ {PU_STATIC, PU_LEVEL, PU_CACHE} \subseteq 1 .. PU_CACHE
      /\ PU_CACHE \notin {PU_STATIC, PU_LEVEL}
  BY DEF PU_FREE, PU_STATIC, PU_LEVEL, PU_CACHE
<1>9. /\ e \in Headers /\ e[base].tag = call.tag /\ e[base].user = call.user /\ e[base].id
      /\ \A c \in ZoneAddresses : SameLinks(d, e, c)
      /\ \A c \in ZoneAddresses \ {base} : e[c] = d[c]
  <2>1. call.tag \in 1 .. PU_CACHE
    BY <1>3, <1>8
  <2>. QED  BY <1>3, <1>6, <1>7, <2>1, SignedIs
<1>. HIDE DEF e
<1>10. IsRing(e, Q)
  <2>1. \A c \in Q \cup {Blocklist} : SameLinks(d, e, c)
    BY <1>7, <1>9
  <2>. QED  BY <1>6, <2>1, LinksMakeRing
<1>11. Tidy(e) \in Headers /\ IsRing(Tidy(e), Q) /\ Ring(Tidy(e)) = Q /\ \A c \in Q \cup {Blocklist} : Tidy(e)[c] = e[c]
  BY <1>9, <1>10, TidyIs
<1>. HIDE DEF R
<1>12. Apart(Tidy(e), Q)
  <2>. SUFFICES ASSUME NEW c \in Q, Tidy(e)[c].next # Blocklist
                PROVE  Tidy(e)[c].tag # PU_FREE \/ Tidy(e)[Tidy(e)[c].next].tag # PU_FREE
    BY DEF Apart
  <2>1. Tidy(e)[c] = e[c] /\ e[c].next \in Q
    BY <1>10, <1>11, BlockIs
  <2>2. Tidy(e)[Tidy(e)[c].next] = e[e[c].next]
    BY <1>11, <2>1
  <2>3. CASE c = base \/ e[c].next = base
    BY <1>3, <1>8, <1>9, <2>1, <2>2, <2>3
  <2>4. CASE c # base /\ e[c].next # base
    <3>1. e[c] = d[c] /\ e[e[c].next] = d[d[c].next]
      BY <1>7, <1>9, <2>1, <2>4
    <3>. QED  BY <1>6, <2>1, <2>2, <2>4, <3>1
  <2>. QED  BY <2>3, <2>4
<1>13. Tidy(e)[Blocklist].tag = PU_STATIC
  BY <1>4, <1>6, <1>7, <1>9, <1>11 DEF SameLook
<1>14. d[base].next \in Q \cup {Blocklist}
  BY <1>6, <1>7, BlockIs
<1>15. cache' \in [Lumps -> ZoneAddresses]
  BY <1>1, <1>3, <1>4, <1>7
<1>16. Kept'
  BY <1>1, <1>11, <1>12, <1>13, <1>14, <1>15 DEF Kept, Headers, Blocks
<1>17. \A c \in R \ {base} : Untouched(block, Tidy(e), c)
  BY <1>6, <1>7, <1>9, <1>11 DEF Untouched, SameLook
<1>18. /\ Tidy(e)[base].tag = call.tag /\ Tidy(e)[base].user = call.user /\ Tidy(e)[base].id
       /\ Tidy(e)[base].size >= call.size /\ Tidy(e)[base].size \in Nat /\ Tidy(e)[base].tag # PU_FREE
  <2>1. Tidy(e)[base] = e[base] /\ e[base].size = d[base].size
    BY <1>7, <1>9, <1>11 DEF SameLinks
  <2>2. d[base].size \in Nat
    BY <1>6, <1>7, BlockIs
  <2>. QED  BY <1>3, <1>6, <1>8, <1>9, <2>1, <2>2
<1>19. OwnedBy(Tidy(e), Q, held', cache', FALSE)
  <2>1. base \notin DOMAIN held /\ \A l \in Lumps : cache[l] # Null => cache[l] # base
    BY <1>3, <1>4, <1>8 DEF OwnedBy
  <2>2. ASSUME NEW a \in DOMAIN held'
        PROVE  /\ a \in Q /\ Tidy(e)[a].tag = held'[a].tag /\ held'[a].tag \in {PU_STATIC, PU_LEVEL}
               /\ Tidy(e)[a].size >= held'[a].size /\ Tidy(e)[a].id /\ Tidy(e)[a].user = NoUser
    <3>1. CASE a = base /\ call.user = NoUser
      BY <1>1, <1>3, <1>7, <1>18, <3>1
    <3>2. CASE ~(a = base /\ call.user = NoUser)
      <4>1. a \in DOMAIN held /\ held'[a] = held[a] /\ a # base
        BY <1>1, <2>1, <3>2
      <4>2. /\ a \in R /\ block[a].tag = held[a].tag /\ held[a].tag \in {PU_STATIC, PU_LEVEL}
            /\ block[a].size >= held[a].size /\ block[a].id /\ block[a].user = NoUser
        BY <1>4, <4>1 DEF OwnedBy, R
      <4>. QED  BY <1>6, <1>17, <4>1, <4>2 DEF Untouched, SameLook
    <3>. QED  BY <3>1, <3>2
  <2>3. ASSUME NEW l \in Lumps, cache'[l] # Null
        PROVE  /\ cache'[l] \in Q /\ Tidy(e)[cache'[l]].user = l /\ Tidy(e)[cache'[l]].tag # PU_FREE
               /\ Tidy(e)[cache'[l]].size > LumpLength[l]
    <3>1. CASE l = call.user
      <4>1. cache'[l] = base /\ call.user # NoUser /\ call.size > LumpLength[l] /\ LumpLength[l] \in Nat
        BY <1>1, <1>3, <1>4, <3>1, ZoneAssumption
      <4>. QED  BY <1>3, <1>7, <1>18, <3>1, <4>1
    <3>2. CASE l # call.user
      <4>1. cache'[l] = cache[l]
        BY <1>1, <1>4, <3>2
      <4>2. /\ cache[l] \in R /\ block[cache[l]].user = l /\ block[cache[l]].tag # PU_FREE
            /\ block[cache[l]].size > LumpLength[l] /\ cache[l] # base
        BY <1>4, <2>1, <2>3, <4>1 DEF OwnedBy, R
      <4>. QED  BY <1>6, <1>17, <4>1, <4>2 DEF Untouched, SameLook
    <3>. QED  BY <3>1, <3>2
  <2>4. ASSUME NEW a \in Q, Tidy(e)[a].tag # PU_FREE
        PROVE  IF Tidy(e)[a].user = NoUser THEN a \in DOMAIN held' ELSE cache'[Tidy(e)[a].user] = a
    <3>1. CASE a = base
      BY <1>1, <1>3, <1>4, <1>18, <3>1
    <3>2. CASE a # base
      <4>1. a \in R
        BY <1>6, <1>7, <1>9, <1>11, <2>4, <3>2
      <4>2. Tidy(e)[a].user = block[a].user /\ block[a].tag # PU_FREE
        BY <1>17, <2>4, <3>2, <4>1 DEF Untouched, SameLook
      <4>3. IF block[a].user = NoUser THEN a \in DOMAIN held ELSE cache[block[a].user] = a
        BY <1>4, <4>1, <4>2 DEF OwnedBy, R
      <4>4. CASE block[a].user = NoUser
        BY <1>1, <4>2, <4>3, <4>4
      <4>5. CASE block[a].user # NoUser
        <5>1. block[a].user \in Lumps /\ cache[block[a].user] = a /\ a # Null
          <6>1. block[a] \in Header
            BY <1>2, <1>6, <1>7, <4>1, BlocksAre
          <6>2. a # Null
            BY <1>4, <4>1, BlockIs DEF R, Null, Blocklist
          <6>. QED  BY <4>3, <4>5, <6>1, <6>2 DEF Header
        <5>2. block[a].user # call.user
          BY <1>3, <4>5, <5>1
        <5>3. cache'[block[a].user] = a
          BY <1>1, <1>4, <5>1, <5>2
        <5>. QED  BY <4>2, <4>5, <5>3
      <4>. QED  BY <4>4, <4>5
    <3>. QED  BY <3>1, <3>2
  <2>. QED  BY <2>2, <2>3, <2>4 DEF OwnedBy
<1>20. Owned'
  BY <1>1, <1>11, <1>19 DEF Owned, NoCall
<1>21. Calling'
  BY <1>1, Numbers DEF Calling, Call, NoCall, Null, Blocklist, PU_FREE, PU_CACHE
<1>. QED  BY <1>16, <1>20, <1>21 DEF ZoneInv

-----------------------------------------------------------------------------
(* The game's steps.                                                       *)

(* The idle call stands nowhere.                                           *)
LEMMA IdleCalls == call' = NoCall => Calling' /\ call'.pc # "tags"
  BY Numbers DEF Calling, Call, NoCall, Null, Blocklist, PU_FREE, PU_CACHE

(* A block gets another tag.                                               *)
Retag(b, x, tag) == [b EXCEPT ![x].tag = tag]

(* It changes no link, and no other header.                                *)
LEMMA RetagIs ==
    ASSUME NEW b \in Headers, NEW x \in ZoneAddresses, NEW tag \in 1 .. PU_CACHE
    PROVE  LET r == Retag(b, x, tag)
           IN  /\ r \in Headers /\ r[x].tag = tag /\ r[x].user = b[x].user
               /\ \A c \in ZoneAddresses : SameLinks(b, r, c)
               /\ \A c \in ZoneAddresses \ {x} : r[c] = b[c]
<1>. DEFINE h == [b[x] EXCEPT !.tag = tag]
            r == Retag(b, x, tag)
<1>1. b[x] \in Header
  BY HeaderIs
<1>2. h \in Header /\ h.tag = tag /\ h.user = b[x].user /\ h.size = b[x].size /\ h.next = b[x].next /\ h.prev = b[x].prev
  BY <1>1 DEF Header
<1>3. r = [b EXCEPT ![x] = h]
  BY DEF Retag
<1>4. r \in Headers /\ r[x] = h /\ \A c \in ZoneAddresses \ {x} : r[c] = b[c]
  <2>. HIDE DEF h, r
  <2>. QED  BY <1>2, <1>3 DEF Headers
<1>. HIDE DEF h, r
<1>5. \A c \in ZoneAddresses : SameLinks(b, r, c)
  BY <1>2, <1>4 DEF SameLinks
<1>. QED  BY <1>2, <1>4, <1>5 DEF r

(* A lump that is cached gets another tag.                                 *)
LEMMA RetagInv ==
    ASSUME ZoneInv, call = NoCall, NEW l \in Lumps, cache[l] # Null, NEW tag \in {PU_STATIC, PU_LEVEL, PU_CACHE},
           Retagged(l, tag), mainrover' = mainrover, cache' = cache, held' = held, call' = call
    PROVE  ZoneInv'
<1>. DEFINE R == Ring(block)
            x == cache[l]
            r == Retag(block, x, tag)
<1>1. /\ Kept /\ block \in Headers /\ IsRing(block, R) /\ Apart(block, R) /\ block[Blocklist].tag = PU_STATIC
      /\ cache \in [Lumps -> ZoneAddresses] /\ mainrover \in R \cup {Blocklist}
      /\ OwnedBy(block, R, held, cache, FALSE)
  BY DEF ZoneInv, Kept, Headers, Owned, Blocks, NoCall
<1>2. /\ x \in R /\ block[x].user = l /\ block[x].tag # PU_FREE /\ block[x].size > LumpLength[l]
      /\ x \in ZoneAddresses /\ x # Blocklist /\ R \cup {Blocklist} \subseteq ZoneAddresses /\ l # NoUser
  <2>1. x \in R /\ block[x].user = l /\ block[x].tag # PU_FREE /\ block[x].size > LumpLength[l]
    BY <1>1 DEF OwnedBy
  <2>. QED  BY <1>1, <2>1, BlockIs, Numbers, ZoneAssumption
<1>3. tag \in 1 .. PU_CACHE /\ tag # PU_FREE
  BY DEF PU_FREE, PU_STATIC, PU_LEVEL, PU_CACHE
<1>4. /\ r \in Headers /\ r[x].tag = tag /\ r[x].user = block[x].user
      /\ \A c \in ZoneAddresses : SameLinks(block, r, c)
      /\ \A c \in ZoneAddresses \ {x} : r[c] = block[c]
  <2>. HIDE DEF x
  <2>. QED  BY <1>1, <1>2, <1>3, RetagIs
<1>5. block' = r
  BY DEF Retagged, Retag
<1>. HIDE DEF r, x
<1>6. IsRing(r, R) /\ Ring(r) = R
  <2>1. \A c \in R \cup {Blocklist} : SameLinks(block, r, c)
    BY <1>2, <1>4
  <2>2. IsRing(r, R)
    BY <1>1, <2>1, LinksMakeRing
  <2>. QED  BY <2>2, RingIs
<1>. HIDE DEF R
<1>7. Apart(r, R)
  <2>. SUFFICES ASSUME NEW c \in R, r[c].next # Blocklist PROVE r[c].tag # PU_FREE \/ r[r[c].next].tag # PU_FREE
    BY DEF Apart
  <2>1. r[c].next = block[c].next /\ block[c].next \in R
    BY <1>1, <1>2, <1>4, BlockIs DEF SameLinks
  <2>2. \A e \in R : r[e].tag = PU_FREE => block[e].tag = PU_FREE
    BY <1>2, <1>3, <1>4
  <2>3. block[c].tag # PU_FREE \/ block[block[c].next].tag # PU_FREE
    BY <1>1, <2>1 DEF Apart
  <2>. QED  BY <2>1, <2>2, <2>3
<1>8. r[Blocklist].tag = PU_STATIC
  BY <1>1, <1>2, <1>4
<1>9. Kept'
  BY <1>1, <1>4, <1>5, <1>6, <1>7, <1>8 DEF Kept, Headers, Blocks
<1>10. OwnedBy(r, R, held, cache, FALSE)
  <2>1. \A c \in R \ {x} : r[c] = block[c]
    BY <1>2, <1>4
  <2>2. r[x].user = l /\ r[x].tag # PU_FREE /\ r[x].size = block[x].size
    BY <1>2, <1>3, <1>4 DEF SameLinks
  <2>3. ASSUME NEW a \in DOMAIN held
        PROVE  /\ a \in R /\ r[a].tag = held[a].tag /\ held[a].tag \in {PU_STATIC, PU_LEVEL}
               /\ r[a].size >= held[a].size /\ r[a].id /\ r[a].user = NoUser
    <3>1. /\ a \in R /\ block[a].tag = held[a].tag /\ held[a].tag \in {PU_STATIC, PU_LEVEL}
          /\ block[a].size >= held[a].size /\ block[a].id /\ block[a].user = NoUser
      BY <1>1 DEF OwnedBy
    <3>. QED  BY <1>2, <2>1, <3>1
  <2>4. ASSUME NEW k \in Lumps, cache[k] # Null
        PROVE  cache[k] \in R /\ r[cache[k]].user = k /\ r[cache[k]].tag # PU_FREE /\ r[cache[k]].size > LumpLength[k]
    <3>1. /\ cache[k] \in R /\ block[cache[k]].user = k /\ block[cache[k]].tag # PU_FREE
          /\ block[cache[k]].size > LumpLength[k]
      BY <1>1, <2>4 DEF OwnedBy
    <3>2. CASE cache[k] = x
      BY <1>2, <2>2, <3>1, <3>2
    <3>3. CASE cache[k] # x
      BY <2>1, <3>1, <3>3
    <3>. QED  BY <3>2, <3>3
  <2>5. ASSUME NEW a \in R, r[a].tag # PU_FREE
        PROVE  IF r[a].user = NoUser THEN a \in DOMAIN held ELSE cache[r[a].user] = a
    <3>1. block[a].user = r[a].user /\ block[a].tag # PU_FREE
      BY <1>2, <2>1, <2>2, <2>5
    <3>. QED  BY <1>1, <3>1 DEF OwnedBy
  <2>. QED  BY <2>3, <2>4, <2>5 DEF OwnedBy
<1>11. Owned'
  BY <1>5, <1>6, <1>10 DEF Owned, NoCall
<1>. QED  BY <1>9, <1>11, IdleCalls DEF ZoneInv

(* A lump that is cached and one that is released.                         *)
LEMMA ReleaseInv == ASSUME ZoneInv, NEW l \in Lumps, W_ReleaseLumpNum(l) PROVE ZoneInv'
<1>1. /\ call = NoCall /\ cache[l] # Null /\ Retagged(l, PU_CACHE)
      /\ mainrover' = mainrover /\ cache' = cache /\ held' = held /\ call' = call
  BY DEF W_ReleaseLumpNum
<1>. QED  BY <1>1, RetagInv

(* A search for memory begins.                                             *)
LEMMA MallocInv ==
    ASSUME ZoneInv, call = NoCall, NEW size \in Nat, NEW tag \in {PU_STATIC, PU_LEVEL, PU_CACHE},
           NEW who \in Lumps \cup {NoUser}, Malloc(size, tag, who),
           IF who = NoUser THEN tag # PU_CACHE ELSE cache[who] = Null /\ size = LumpLength[who],
           block' = block, mainrover' = mainrover, cache' = cache, held' = held
    PROVE  ZoneInv'
<1>. DEFINE base == IF block[block[mainrover].prev].tag = PU_FREE THEN block[mainrover].prev ELSE mainrover
<1>1. call' = [pc |-> "scan", base |-> base, rover |-> base, start |-> block[base].prev,
               size |-> size + 1, tag |-> tag, user |-> who]
  BY DEF Malloc
<1>2. Kept /\ Kept' /\ Blocks' = Blocks /\ Ring(block') = Ring(block)
  BY KeptStays DEF ZoneInv
<1>3. base \in Blocks /\ block[base].prev \in Blocks /\ Blocks \subseteq ZoneAddresses
  BY <1>2, BlocksAre DEF Kept
<1>4. block[block[base].prev].tag # PU_FREE
  <2>1. CASE block[block[mainrover].prev].tag = PU_FREE
    <3>1. base \in Ring(block) /\ block[base].tag = PU_FREE
      BY <1>2, <2>1, BlocksAre DEF Kept
    <3>2. block[base].prev \in Blocks /\ block[block[base].prev].next = base /\ base # Blocklist
      BY <1>2, <1>3, <3>1, BlocksAre, BlockIs DEF Kept
    <3>3. CASE block[base].prev = Blocklist
      BY <1>2, <3>3, BlocksAre DEF Kept
    <3>4. CASE block[base].prev # Blocklist
      BY <1>2, <3>1, <3>2, <3>4 DEF Kept, Apart, Blocks
    <3>. QED  BY <3>3, <3>4
  <2>2. CASE block[block[mainrover].prev].tag # PU_FREE
    BY <2>2
  <2>. QED  BY <2>1, <2>2
<1>. HIDE DEF base
<1>5. tag \in 1 .. PU_CACHE
  BY DEF PU_STATIC, PU_LEVEL, PU_CACHE
<1>6. /\ call' \in Call /\ call'.pc = "scan" /\ call'.base = base /\ call'.rover = base /\ call'.start = block[base].prev
      /\ call'.size = size + 1 /\ call'.tag = tag /\ call'.user = who
  BY <1>1, <1>3, <1>5 DEF Call
<1>7. Asked'
  <2>1. size + 1 \in Nat \ {0} /\ who \in Lumps => LumpLength[who] \in Nat
    BY ZoneAssumption
  <2>. QED  BY <1>6, <2>1 DEF Asked
<1>8. Scanning'
  BY <1>2, <1>3, <1>4, <1>6 DEF Scanning
<1>9. Calling'
  BY <1>6, <1>7, <1>8 DEF Calling
<1>10. Owned'
  BY <1>2, <1>6 DEF ZoneInv, Owned, NoCall
<1>. QED  BY <1>2, <1>9, <1>10 DEF ZoneInv

(* W_CacheLumpNum does one or the other.                                   *)
LEMMA CacheInv ==
    ASSUME ZoneInv, NEW l \in Lumps, NEW tag \in {PU_STATIC, PU_LEVEL, PU_CACHE}, W_CacheLumpNum(l, tag)
    PROVE  ZoneInv'
<1>1. call = NoCall /\ mainrover' = mainrover /\ cache' = cache /\ held' = held
  BY DEF W_CacheLumpNum
<1>2. CASE cache[l] # Null
  <2>1. Retagged(l, tag) /\ call' = call
    BY <1>2 DEF W_CacheLumpNum
  <2>. QED  BY <1>1, <1>2, <2>1, RetagInv
<1>3. CASE cache[l] = Null
  <2>1. Malloc(LumpLength[l], tag, l) /\ block' = block
    BY <1>3 DEF W_CacheLumpNum
  <2>2. LumpLength[l] \in Nat /\ l # NoUser /\ l \in Lumps \cup {NoUser}
    BY ZoneAssumption
  <2>. QED  BY <1>1, <1>3, <2>1, <2>2, MallocInv
<1>. QED  BY <1>2, <1>3

(* And so does the game's own allocation.                                  *)
LEMMA AllocatesInv ==
    ASSUME ZoneInv, NEW size \in GameSizes, NEW tag \in {PU_STATIC, PU_LEVEL}, Allocates(size, tag)
    PROVE  ZoneInv'
<1>1. /\ call = NoCall /\ Malloc(size, tag, NoUser)
      /\ block' = block /\ mainrover' = mainrover /\ cache' = cache /\ held' = held
  BY DEF Allocates
<1>2. size \in Nat /\ tag # PU_CACHE /\ tag \in {PU_STATIC, PU_LEVEL, PU_CACHE} /\ NoUser \in Lumps \cup {NoUser}
  BY ZoneAssumption DEF PU_STATIC, PU_LEVEL, PU_CACHE
<1>. QED  BY <1>1, <1>2, MallocInv

(* Forgetting keeps free blocks apart.                                     *)
LEMMA TidyApart ==
    ASSUME NEW b \in Headers, NEW R, IsRing(b, R), Apart(b, R)
    PROVE  Apart(Tidy(b), R)
<1>. SUFFICES ASSUME NEW c \in R, Tidy(b)[c].next # Blocklist
              PROVE  Tidy(b)[c].tag # PU_FREE \/ Tidy(b)[Tidy(b)[c].next].tag # PU_FREE
  BY DEF Apart
<1>1. \A e \in R \cup {Blocklist} : Tidy(b)[e] = b[e]
  BY TidyIs
<1>2. b[c].next \in R
  BY <1>1, BlockIs
<1>. QED  BY <1>1, <1>2 DEF Apart

(* The game gives back what it was given.                                  *)
LEMMA FreesInv == ASSUME ZoneInv, NEW a \in DOMAIN held, Frees(a) PROVE ZoneInv'
<1>. DEFINE R == Ring(block)
            d == FreeBlocks(block, a)
            Q == RingLeft(block, Ring(block), a)
            self == SelfOf(block, a)
            r == RoverAfter(block, mainrover, a)
            k == CacheAfter(block, cache, a)
            z == Z_Free(Zone, a)
            left == [b \in DOMAIN held \ {a} |-> held[b]]
<1>1. call = NoCall /\ Becomes([z EXCEPT !.block = Tidy(@)]) /\ held' = left /\ call' = call
  BY DEF Frees
<1>2. /\ Kept /\ OwnedBy(block, R, held, cache, FALSE)
      /\ block \in Headers /\ IsRing(block, R) /\ cache \in [Lumps -> ZoneAddresses]
  BY <1>1 DEF ZoneInv, Owned, NoCall, Kept, Headers
<1>3. a \in R /\ block[a].tag # PU_FREE
  BY <1>2 DEF OwnedBy, PU_FREE, PU_STATIC, PU_LEVEL
<1>4. z = ZoneOf(d, r, k) /\ Freed(a, d, Q, self)
  BY <1>2, <1>3, FreedState
<1>. HIDE DEF z, d, Q, self, r, k
<1>5. [z EXCEPT !.block = Tidy(@)].block = Tidy(d) /\ [z EXCEPT !.block = Tidy(@)].rover = r
      /\ [z EXCEPT !.block = Tidy(@)].cache = k
  BY <1>4 DEF ZoneOf
<1>6. block' = Tidy(d) /\ mainrover' = r /\ cache' = k
  BY <1>1, <1>5 DEF Becomes
<1>7. /\ d \in Headers /\ IsRing(d, Q) /\ Apart(d, Q) /\ d[Blocklist].tag = PU_STATIC /\ r \in Q \cup {Blocklist}
      /\ Rest(block, R, a, d, Q, self)
  BY <1>4 DEF Freed, Rest, r
<1>8. Tidy(d) \in Headers /\ IsRing(Tidy(d), Q) /\ Ring(Tidy(d)) = Q /\ \A c \in Q \cup {Blocklist} : Tidy(d)[c] = d[c]
  BY <1>7, TidyIs
<1>9. Apart(Tidy(d), Q)
  BY <1>7, TidyApart
<1>10. k \in [Lumps -> ZoneAddresses]
  <2>1. block[a].user \in Lumps \cup {NoUser}
    BY <1>2, <1>3, BlocksAre DEF Header
  <2>. QED  BY <1>2, <2>1, CacheIs DEF k
<1>11. Kept'
  BY <1>6, <1>7, <1>8, <1>9, <1>10 DEF Kept, Headers, Blocks
<1>12. OwnedBy(d, Q, left, k, FALSE)
  <2>1. /\ a \notin DOMAIN left /\ DOMAIN held \subseteq DOMAIN left \cup {a}
        /\ \A c \in DOMAIN left : c \in DOMAIN held /\ left[c] = held[c]
    OBVIOUS
  <2>. HIDE DEF left, R
  <2>. QED  BY <1>2, <1>3, <1>7, <2>1, FreeOwned DEF k
<1>. HIDE DEF left, R
<1>13. OwnedBy(Tidy(d), Q, left, k, FALSE)
  <2>1. \A c \in Q : Untouched(d, Tidy(d), c)
    BY <1>8 DEF Untouched, SameLook
  <2>. QED  BY <1>12, <2>1, LooksOwn
<1>14. Owned'
  BY <1>1, <1>6, <1>8, <1>13 DEF Owned, NoCall
<1>. QED  BY <1>1, <1>11, <1>14, IdleCalls DEF ZoneInv

-----------------------------------------------------------------------------
(* The steps of Z_FreeTags.                                                *)

(* The old level is given up: what is of it is not the game's any more.    *)
LEMMA SetupInv == ASSUME ZoneInv, P_SetupLevel PROVE ZoneInv'
<1>. DEFINE R == Ring(block)
            left == [a \in {a \in DOMAIN held : ~OfLevel(held[a].tag)} |-> held[a]]
<1>1. /\ call = NoCall /\ call' = [NoCall EXCEPT !.pc = "tags", !.rover = block[Blocklist].next] /\ held' = left
      /\ block' = block /\ mainrover' = mainrover /\ cache' = cache
  BY DEF P_SetupLevel
<1>2. Kept /\ Kept' /\ Blocks' = Blocks /\ Ring(block') = R
  BY <1>1, KeptStays DEF ZoneInv
<1>3. OwnedBy(block, R, held, cache, FALSE)
  BY <1>1 DEF ZoneInv, Owned, NoCall
<1>4. OwnedBy(block, R, left, cache, TRUE)
  <2>. HIDE DEF R
  <2>1. \A a \in DOMAIN left : a \in DOMAIN held /\ left[a] = held[a] /\ ~OfLevel(held[a].tag)
    OBVIOUS
  <2>2. \A a \in DOMAIN held : a \in DOMAIN left \/ OfLevel(held[a].tag)
    OBVIOUS
  <2>. HIDE DEF left
  <2>3. \A a \in DOMAIN left :
           /\ a \in R /\ block[a].tag = left[a].tag /\ left[a].tag \in {PU_STATIC, PU_LEVEL}
           /\ block[a].size >= left[a].size /\ block[a].id /\ block[a].user = NoUser
           /\ ~OfLevel(left[a].tag)
    BY <1>3, <2>1 DEF OwnedBy
  <2>4. \A a \in R : block[a].tag # PU_FREE =>
           IF block[a].user = NoUser THEN a \in DOMAIN left \/ OfLevel(block[a].tag) ELSE cache[block[a].user] = a
    BY <1>3, <2>2 DEF OwnedBy
  <2>. QED  BY <1>3, <2>3, <2>4 DEF OwnedBy
<1>5. /\ call' \in Call /\ call'.pc = "tags" /\ call'.rover = block[Blocklist].next /\ call'.base = Null /\ call'.start = Null
  <2>1. block[Blocklist].next \in ZoneAddresses
    BY <1>2, BlocksAre
  <2>2. NoCall \in Call /\ NoCall.base = Null /\ NoCall.start = Null
    BY Numbers DEF Call, NoCall, Null, Blocklist, PU_FREE, PU_CACHE
  <2>. QED  BY <1>1, <2>1, <2>2 DEF Call
<1>6. block[Blocklist].next = 1 /\ 1 \in Blocks
  <2>1. block[Blocklist].next = 1
    BY <1>2 DEF Kept, IsRing, Linked
  <2>. QED  BY <1>2, <2>1, BlocksAre
<1>7. Ahead(1)'
  <2>1. \A a \in R : a \in Nat /\ 1 <= a /\ 1 # Blocklist
    <3>1. IsRing(block, R)
      BY <1>2 DEF Kept
    <3>. HIDE DEF R
    <3>. QED  BY <3>1, BlockIs, Numbers
  <2>. QED  BY <1>2, <2>1 DEF Ahead
<1>8. Freeing'
  BY <1>2, <1>5, <1>6, <1>7, BlocksAre DEF Freeing
<1>9. Calling'
  BY <1>5, <1>8 DEF Calling
<1>10. Owned'
  BY <1>1, <1>2, <1>4, <1>5 DEF Owned
<1>. QED  BY <1>2, <1>9, <1>10 DEF ZoneInv

(* The tags of a level are not those of free blocks or the zone's own.     *)
LEMMA LevelTags == ~OfLevel(PU_FREE) /\ ~OfLevel(PU_STATIC)
  BY DEF OfLevel, PU_FREE, PU_STATIC, PU_LEVEL, PU_PURGELEVEL

(* Past a block: what is left of the level is further on.                  *)
LEMMA Past ==
    ASSUME Kept, NEW a \in Ring(block), NEW c \in Ring(block), Ahead(a),
           OfLevel(block[c].tag), c # a
    PROVE  a < c /\ block[a].next # Blocklist /\ block[a].next <= c
<1>. DEFINE R == Ring(block)
<1>1. IsRing(block, R) /\ c \in R /\ a \in R
  BY DEF Kept
<1>. HIDE DEF R
<1>2. c \in Nat /\ a \in Nat
  BY <1>1, BlockIs
<1>3. c >= a
  BY DEF Ahead
<1>4. a < c
  BY <1>2, <1>3
<1>. QED  BY <1>1, <1>4, NoneInside

(* One turn of the loop.                                                   *)
LEMMA FreeTagsInv == ASSUME ZoneInv, Z_FreeTags PROVE ZoneInv'
<1>. DEFINE a == call.rover
            n == block[call.rover].next
            R == Ring(block)
<1>1. /\ call.pc = "tags" /\ a # Blocklist /\ call' = [call EXCEPT !.rover = n] /\ held' = held
      /\ IF OfLevel(block[a].tag) THEN Becomes(Z_Free(Zone, a))
         ELSE block' = block /\ mainrover' = mainrover /\ cache' = cache
  BY DEF Z_FreeTags
<1>2. Kept /\ Owned /\ call \in Call /\ Freeing
  BY <1>1 DEF ZoneInv, Calling
<1>3. /\ call.base = Null /\ call.start = Null /\ a \in ZoneAddresses
      /\ \/ a \in R /\ Ahead(a)
         \/ block[a].tag = PU_FREE /\ n \in Blocks /\ Ahead(n)
  BY <1>1, <1>2 DEF Freeing, Blocks
<1>4. n \in ZoneAddresses
  BY <1>2, <1>3, BlocksAre DEF Header
<1>. HIDE DEF n, a
<1>5. call' \in Call /\ call'.pc = "tags" /\ call'.rover = n /\ call'.base = Null /\ call'.start = Null
  BY <1>1, <1>2, <1>3, <1>4 DEF Call
<1>6. CASE ~OfLevel(block[a].tag)
  <2>1. block' = block /\ mainrover' = mainrover /\ cache' = cache
    BY <1>1, <1>6
  <2>2. Kept' /\ Blocks' = Blocks /\ Ring(block') = R
    BY <1>2, <2>1, KeptStays
  <2>3. n \in Blocks /\ Ahead(n)
    <3>1. CASE a \in R /\ Ahead(a)
      <4>1. n \in Blocks
        BY <1>2, <3>1, BlocksAre DEF n, a
      <4>2. ASSUME NEW c \in Ring(block), OfLevel(block[c].tag) PROVE n # Blocklist /\ c >= n
        <5>1. c # a
          BY <1>6, <4>2
        <5>2. block[a].next # Blocklist /\ block[a].next <= c
          BY <1>2, <3>1, <4>2, <5>1, Past
        <5>. QED  BY <5>2 DEF n, a
      <4>3. Ahead(n)
        BY <4>2 DEF Ahead
      <4>. QED  BY <4>1, <4>3
    <3>. QED  BY <1>3, <3>1
  <2>4. Freeing'
    BY <1>4, <1>5, <2>1, <2>2, <2>3 DEF Freeing, Ahead
  <2>5. Owned'
    BY <1>1, <1>2, <1>5, <2>1 DEF Owned
  <2>6. Calling'
    BY <1>5, <2>4 DEF Calling
  <2>. QED  BY <2>2, <2>5, <2>6 DEF ZoneInv
<1>7. CASE OfLevel(block[a].tag)
  <2>. DEFINE d == FreeBlocks(block, a)
              Q == RingLeft(block, Ring(block), a)
              self == SelfOf(block, a)
              z == Z_Free(Zone, a)
  <2>1. block[a].tag # PU_FREE /\ a \in Ring(block) /\ Ahead(a)
    BY <1>3, <1>7, LevelTags
  <2>2. z = ZoneOf(d, RoverAfter(block, mainrover, a), CacheAfter(block, cache, a)) /\ Freed(a, d, Q, self)
    BY <1>2, <2>1, FreedState
  <2>3. block' = d /\ mainrover' = RoverAfter(block, mainrover, a) /\ cache' = CacheAfter(block, cache, a)
    BY <1>1, <1>7, <2>2, ZoneOfIs DEF Becomes
  <2>. HIDE DEF d, Q, self, z
  <2>4. Kept' /\ Ring(block') = Q /\ Blocks' = Q \cup {Blocklist}
    BY <1>2, <2>1, <2>2, <2>3, FreedKept
  <2>5. /\ Rest(block, R, a, d, Q, self) /\ Q \subseteq R
        /\ \A c \in Q : d[c].tag # PU_FREE => c # a /\ Untouched(block, d, c)
        /\ Leads(d, Q, n) /\ d[n].next = block[n].next
    BY <2>2 DEF Freed, Rest, n, a
  <2>6. ASSUME NEW c \in Q, OfLevel(d[c].tag)
        PROVE  c \in Ring(block) /\ OfLevel(block[c].tag) /\ n # Blocklist /\ n <= c
    <3>1. c \in Ring(block) /\ c # a /\ d[c].tag = block[c].tag
      BY <2>5, <2>6, LevelTags DEF Untouched, SameLook
    <3>2. block[a].next # Blocklist /\ block[a].next <= c
      BY <1>2, <2>1, <2>6, <3>1, Past
    <3>. QED  BY <2>6, <3>1, <3>2 DEF n, a
  <2>7. Freeing'
    <3>1. CASE n \in Q \cup {Blocklist}
      <4>1. \A c \in Ring(block') : OfLevel(block'[c].tag) => n # Blocklist /\ c >= n
        BY <2>3, <2>4, <2>6
      <4>2. call'.rover \in Blocks' /\ Ahead(call.rover)'
        BY <1>5, <2>4, <3>1, <4>1 DEF Ahead
      <4>. QED  BY <1>4, <1>5, <4>2 DEF Freeing
    <3>2. CASE n # Blocklist /\ d[n].tag = PU_FREE /\ d[n].next \in Q \cup {Blocklist}
      <4>1. n \in Ring(block) /\ IsRing(block, Ring(block))
        BY <1>2, <2>1, <3>2, BlocksAre DEF n, a, Kept, Blocks
      <4>2. ASSUME NEW c \in Q, OfLevel(d[c].tag) PROVE block[n].next # Blocklist /\ c >= block[n].next
        <5>1. c \in Ring(block) /\ n <= c /\ c # n
          BY <2>6, <3>2, <4>2, LevelTags
        <5>2. c \in Nat /\ n \in Nat
          BY <4>1, <5>1, BlockIs
        <5>3. n < c
          BY <5>1, <5>2
        <5>. QED  BY <4>1, <5>1, <5>3, NoneInside
      <4>3. \A c \in Ring(block') : OfLevel(block'[c].tag) => block'[n].next # Blocklist /\ c >= block'[n].next
        BY <2>3, <2>4, <2>5, <4>2
      <4>4. call'.rover # Blocklist /\ block'[call'.rover].tag = PU_FREE /\ block'[call'.rover].next \in Blocks'
        BY <1>5, <2>3, <2>4, <3>2
      <4>5. Ahead(block[call.rover].next)'
        BY <1>5, <4>3 DEF Ahead
      <4>. QED  BY <1>4, <1>5, <4>4, <4>5 DEF Freeing
    <3>. QED  BY <2>5, <3>1, <3>2 DEF Leads
  <2>8. OwnedBy(d, Q, held, CacheAfter(block, cache, a), TRUE)
    <3>1. /\ block \in Headers /\ IsRing(block, R) /\ cache \in [Lumps -> ZoneAddresses] /\ a \in R
          /\ OwnedBy(block, R, held, cache, TRUE) /\ Rest(block, R, a, d, Q, self)
      BY <1>1, <1>2, <2>1, <2>5 DEF Kept, Headers, Owned
    <3>. HIDE DEF R
    <3>2. a \notin DOMAIN held
      BY <1>7, <3>1 DEF OwnedBy
    <3>. QED  BY <2>1, <3>1, <3>2, FreeOwned
  <2>9. Owned'
    BY <1>1, <1>5, <2>3, <2>4, <2>8 DEF Owned
  <2>10. Calling'
    BY <1>5, <2>7 DEF Calling
  <2>. QED  BY <2>4, <2>9, <2>10 DEF ZoneInv
<1>. QED  BY <1>6, <1>7

(* The loop is over: nothing of the level is left.                         *)
LEMMA NothingLeft == ASSUME ZoneInv, call.pc = "tags", call.rover = Blocklist
                     PROVE  \A a \in Ring(block) : ~OfLevel(block[a].tag)
<1>1. Ahead(Blocklist)
  BY DEF ZoneInv, Calling, Freeing
<1>. QED  BY <1>1 DEF Ahead

(* So the search for the level is over, and the call is idle again.        *)
LEMMA TagsFreedInv == ASSUME ZoneInv, TagsFreed PROVE ZoneInv'
<1>. DEFINE R == Ring(block)
<1>1. /\ call.pc = "tags" /\ call.rover = Blocklist /\ call' = NoCall /\ block' = Tidy(block)
      /\ mainrover' = mainrover /\ cache' = cache /\ held' = held
  BY DEF TagsFreed
<1>2. /\ Kept /\ block \in Headers /\ IsRing(block, R) /\ Apart(block, R) /\ block[Blocklist].tag = PU_STATIC
      /\ mainrover \in R \cup {Blocklist} /\ cache \in [Lumps -> ZoneAddresses]
      /\ OwnedBy(block, R, held, cache, TRUE)
  BY <1>1 DEF ZoneInv, Kept, Headers, Blocks, Owned
<1>3. \A a \in R : ~OfLevel(block[a].tag)
  BY <1>1, NothingLeft
<1>. HIDE DEF R
<1>4. OwnedBy(block, R, held, cache, FALSE)
  BY <1>2, <1>3 DEF OwnedBy
<1>5. /\ Tidy(block) \in Headers /\ IsRing(Tidy(block), R) /\ Ring(Tidy(block)) = R
      /\ \A c \in R \cup {Blocklist} : Tidy(block)[c] = block[c]
  BY <1>2, TidyIs
<1>6. Apart(Tidy(block), R)
  BY <1>2, TidyApart
<1>7. Kept'
  BY <1>1, <1>2, <1>5, <1>6 DEF Kept, Headers, Blocks
<1>8. OwnedBy(Tidy(block), R, held, cache, FALSE)
  <2>1. \A c \in R : Untouched(block, Tidy(block), c)
    BY <1>5 DEF Untouched, SameLook
  <2>. QED  BY <1>4, <2>1, LooksOwn
<1>9. Owned'
  BY <1>1, <1>5, <1>8 DEF Owned, NoCall
<1>. QED  BY <1>1, <1>7, <1>9, IdleCalls DEF ZoneInv

-----------------------------------------------------------------------------
(* The zone.                                                               *)

(* Z_Init makes a ring of one free block.                                  *)
LEMMA InitInv == ZoneInit => ZoneInv
<1>. SUFFICES ASSUME ZoneInit PROVE ZoneInv
  OBVIOUS
<1>. DEFINE zero == [Garbage EXCEPT !.next = 1, !.prev = 1]
            one == [Garbage EXCEPT !.size = ZoneSize, !.tag = PU_FREE]
<1>1. /\ block = [a \in ZoneAddresses |-> IF a = Blocklist THEN zero ELSE IF a = 1 THEN one ELSE Garbage]
      /\ mainrover = 1 /\ cache = [l \in Lumps |-> Null] /\ held = [a \in {} |-> NoUser] /\ call = NoCall
  BY DEF ZoneInit
<1>2. /\ 1 \in ZoneAddresses /\ Blocklist \in ZoneAddresses /\ 1 # Blocklist /\ Null \in ZoneAddresses
  BY Numbers DEF Null, Blocklist
<1>3. /\ Garbage \in Header /\ Garbage.next = Blocklist /\ Garbage.prev = Blocklist /\ Garbage.tag = PU_STATIC
  BY Numbers DEF Garbage, Header, PU_STATIC, PU_CACHE
<1>4. zero \in Header /\ zero.next = 1 /\ zero.prev = 1 /\ zero.tag = PU_STATIC
  BY <1>2, <1>3 DEF Header
<1>5. one \in Header /\ one.next = Blocklist /\ one.prev = Blocklist /\ one.size = ZoneSize /\ one.tag = PU_FREE
  <2>1. ZoneSize \in 0 .. ZoneSize /\ PU_FREE \in 1 .. PU_CACHE
    BY Numbers DEF PU_FREE, PU_CACHE
  <2>. QED  BY <1>3, <2>1 DEF Header
<1>. HIDE DEF zero, one
<1>6. block[Blocklist] = zero /\ block[1] = one /\ block \in Headers
  BY <1>1, <1>2, <1>3, <1>4, <1>5 DEF Headers
<1>7. Linked(block, {1})
  BY <1>4, <1>5, <1>6 DEF Linked
<1>8. Filled(block, {1})
  BY <1>5, <1>6, Numbers DEF Filled, End
<1>9. IsRing(block, {1}) /\ Ring(block) = {1}
  <2>1. IsRing(block, {1})
    BY <1>7, <1>8, Numbers DEF IsRing
  <2>. QED  BY <2>1, RingIs
<1>10. Kept
  <2>1. Apart(block, {1})
    BY <1>5, <1>6 DEF Apart
  <2>2. cache \in [Lumps -> ZoneAddresses]
    BY <1>1, <1>2
  <2>. QED  BY <1>1, <1>4, <1>6, <1>9, <2>1, <2>2 DEF Kept, Blocks, Headers
<1>11. Owned
  BY <1>1, <1>5, <1>6, <1>9 DEF Owned, OwnedBy
<1>12. Calling
  BY <1>1, Numbers DEF Calling, Call, NoCall, Null, Blocklist, PU_FREE, PU_CACHE
<1>. QED  BY <1>10, <1>11, <1>12 DEF ZoneInv

(* Every step keeps the invariant.                                         *)
LEMMA NextInv == ZoneInv /\ [ZoneNext]_zoneVars => ZoneInv'
<1>. SUFFICES ASSUME ZoneInv, [ZoneNext]_zoneVars PROVE ZoneInv'
  OBVIOUS
<1>1. CASE UNCHANGED zoneVars
  BY <1>1 DEF zoneVars, ZoneInv, Kept, Owned, Calling, Blocks, Asked, Scanning, HasFound, Freeing, Ahead
<1>2. CASE Scan
  <2>1. CASE ScanFree
    BY <2>1, ScanFreeInv
  <2>2. CASE ScanPast
    BY <2>2, ScanPastInv
  <2>3. CASE ScanPurge
    BY <2>3, ScanPurgeInv
  <2>4. CASE ScanFails
    BY <2>4, ScanFailsInv
  <2>5. CASE HandOut
    BY <2>5, HandOutInv
  <2>6. CASE Z_FreeTags
    BY <2>6, FreeTagsInv
  <2>7. CASE TagsFreed
    BY <2>7, TagsFreedInv
  <2>. QED  BY <1>2, <2>1, <2>2, <2>3, <2>4, <2>5, <2>6, <2>7 DEF Scan
<1>3. CASE Game
  <2>1. ASSUME NEW l \in Lumps, W_ReleaseLumpNum(l) PROVE ZoneInv'
    BY <2>1, ReleaseInv
  <2>2. ASSUME NEW l \in Lumps, NEW tag \in {PU_STATIC, PU_LEVEL, PU_CACHE}, W_CacheLumpNum(l, tag) PROVE ZoneInv'
    BY <2>2, CacheInv
  <2>3. ASSUME NEW size \in GameSizes, NEW tag \in {PU_STATIC, PU_LEVEL}, Allocates(size, tag) PROVE ZoneInv'
    BY <2>3, AllocatesInv
  <2>4. ASSUME NEW a \in DOMAIN held, Frees(a) PROVE ZoneInv'
    BY <2>4, FreesInv
  <2>5. CASE P_SetupLevel
    BY <2>5, SetupInv
  <2>. QED  BY <1>3, <2>1, <2>2, <2>3, <2>4, <2>5 DEF Game
<1>. QED  BY <1>1, <1>2, <1>3 DEF ZoneNext

(* So it always holds.                                                     *)
LEMMA ZoneInvariant == ZoneSpec => []ZoneInv
  BY InitInv, NextInv, PTL DEF ZoneSpec

(* The memory, the rover, the lumps' caches and the call that is on its    *)
(* way are what z_zone.c declares them to be.                              *)
THEOREM ZoneTypes == ZoneSpec => []ZoneTypeOK
<1>1. ZoneInv => ZoneTypeOK
  <2>. SUFFICES ASSUME ZoneInv PROVE ZoneTypeOK
    OBVIOUS
  <2>1. block \in [ZoneAddresses -> Header] /\ cache \in [Lumps -> ZoneAddresses] /\ mainrover \in ZoneAddresses
    BY BlocksAre DEF ZoneInv, Kept
  <2>2. DOMAIN held \subseteq ZoneAddresses \ {Blocklist}
    <3>1. DOMAIN held \subseteq Ring(block)
      BY DEF ZoneInv, Owned, OwnedBy
    <3>2. IsRing(block, Ring(block))
      BY DEF ZoneInv, Kept
    <3>. QED  BY <3>1, <3>2, BlockIs, Numbers
  <2>3. {call.base, call.rover, call.start} \subseteq ZoneAddresses
    BY DEF ZoneInv, Calling, Call
  <2>. QED  BY <2>1, <2>2, <2>3 DEF ZoneTypeOK, Header
<1>. QED  BY <1>1, ZoneInvariant, PTL

(* The blocks fill the zone from its beginning to its end without a gap or *)
(* an overlap, the links lead both ways, no two free blocks are            *)
(* neighbours, and the search begins at a block, whatever is allocated,    *)
(* purged, merged and freed in whatever order.                             *)
THEOREM ZoneStaysSound == ZoneSpec => []ZoneSound
<1>1. ZoneInv => ZoneSound
  <2>. SUFFICES ASSUME ZoneInv PROVE ZoneSound
    OBVIOUS
  <2>. DEFINE R == Ring(block)
  <2>1. IsRing(block, R) /\ Apart(block, R) /\ block[Blocklist].next = 1
    BY DEF ZoneInv, Kept, IsRing, Linked
  <2>. HIDE DEF R
  <2>2. ASSUME NEW a \in R
        PROVE  LET next == block[a].next
               IN  /\ IF next = Blocklist THEN a + block[a].size = ZoneSize + 1 ELSE a + block[a].size = next
                   /\ block[next].prev = a
                   /\ next # Blocklist => block[a].tag # PU_FREE \/ block[next].tag # PU_FREE
    <3>1. /\ block[block[a].next].prev = a
          /\ a + block[a].size = IF block[a].next = Blocklist THEN ZoneSize + 1 ELSE block[a].next
      BY <2>1, BlockIs
    <3>. QED  BY <2>1, <3>1 DEF Apart
  <2>3. {mainrover, call.base, call.start} \subseteq Blocks
    <3>1. mainrover \in Blocks /\ Null \in Blocks /\ call \in Call
      BY DEF ZoneInv, Kept, Calling, Blocks, Null, Blocklist
    <3>2. CASE call.pc = "idle"
      BY <3>1, <3>2 DEF ZoneInv, Calling, NoCall
    <3>3. CASE call.pc = "scan"
      BY <3>1, <3>3 DEF ZoneInv, Calling, Scanning
    <3>4. CASE call.pc = "found"
      BY <3>1, <3>4 DEF ZoneInv, Calling, HasFound
    <3>5. CASE call.pc = "tags"
      BY <3>1, <3>5 DEF ZoneInv, Calling, Freeing
    <3>. QED  BY <3>1, <3>2, <3>3, <3>4, <3>5 DEF Call
  <2>. QED  BY <2>1, <2>2, <2>3 DEF ZoneSound, Blocks, R
<1>. QED  BY <1>1, ZoneInvariant, PTL

(* What the game was given is its own until it gives it back or the level  *)
(* ends; what a lump's cache points at is that lump's block, and a purged  *)
(* lump has no cache; every block that is not free has its one owner; and  *)
(* when a level's blocks are freed none is left.                           *)
THEOREM OwnersStayExact == ZoneSpec => []OwnersExact
<1>1. ZoneInv => OwnersExact
  <2>. SUFFICES ASSUME ZoneInv PROVE OwnersExact
    OBVIOUS
  <2>1. OwnedBy(block, Ring(block), held, cache, call.pc = "tags")
    BY DEF ZoneInv, Owned
  <2>2. call.pc = "tags" /\ call.rover = Blocklist => \A a \in Ring(block) : ~OfLevel(block[a].tag)
    BY NothingLeft
  <2>. QED  BY <2>1, <2>2 DEF OwnedBy, OwnersExact
<1>. QED  BY <1>1, ZoneInvariant, PTL

-----------------------------------------------------------------------------
(* Sequences and sets of numbers, as the moving sectors use them.          *)

(* What is numbered from 1 is a sequence.                                  *)
LEMMA NumberedIsSeq ==
    ASSUME NEW S, NEW n \in Nat, NEW f \in [1 .. n -> S]
    PROVE  f \in Seq(S) /\ Len(f) = n
OBVIOUS

(* A finite set of numbers has a greatest.                                 *)
LEMMA MaxIs ==
    ASSUME NEW n \in Nat, NEW S \in SUBSET (1 .. n), S # {}
    PROVE  Max(S) \in S
<1>. DEFINE T == {k \in Nat : \A x \in S : x <= k}
<1>1. n \in T
  OBVIOUS
<1>2. PICK k \in T : \A j \in T : k <= j
  <2>. HIDE DEF T
  <2>1. T \in SUBSET Nat /\ T # {}
    BY <1>1 DEF T
  <2>. QED  BY <2>1, Least
<1>3. k \in S
  <2>. SUFFICES ASSUME k \notin S PROVE FALSE
    OBVIOUS
  <2>1. \A x \in S : x <= k - 1
    BY <1>2
  <2>2. k - 1 \in Nat
    <3>1. PICK x \in S : TRUE
      OBVIOUS
    <3>. QED  BY <2>1, <3>1
  <2>3. k - 1 \in T
    BY <2>1, <2>2
  <2>. QED  BY <1>2, <2>3
<1>4. \A x \in S : k >= x
  BY <1>2
<1>. QED  BY <1>3, <1>4 DEF Max

(* So has a set of sectors a least.                                        *)
LEMMA MinIs ==
    ASSUME NEW S \in SUBSET Nat, S # {}
    PROVE  Min(S) \in S
<1>1. PICK x \in S : \A y \in S : x <= y
  BY Least
<1>. QED  BY <1>1 DEF Min

(* The numbers of a set, in order.                                         *)
Rising(S, n, q) ==
    /\ q \in [1 .. n -> S]
    /\ \A i, j \in 1 .. n : i < j => q[i] < q[j]
Orderly(n) == \A S \in SUBSET Nat : IsFiniteSet(S) /\ Cardinality(S) = n => \E q : Rising(S, n, q)
LEMMA RisingExists == \A n \in Nat : Orderly(n)
<1>. DEFINE N == {n \in Nat : Orderly(n)}
<1>1. 0 \in N
  <2>1. ASSUME NEW S \in SUBSET Nat PROVE Rising(S, 0, [i \in 1 .. 0 |-> 0])
    BY DEF Rising
  <2>. QED  BY <2>1 DEF Orderly
<1>2. ASSUME NEW n \in N PROVE n + 1 \in N
  <2>1. ASSUME NEW S \in SUBSET Nat, IsFiniteSet(S), Cardinality(S) = n + 1 PROVE \E q : Rising(S, n + 1, q)
    <3>1. S # {}
      BY <2>1, FS_EmptySet
    <3>2. PICK x \in S : \A y \in S : x <= y
      BY <3>1, Least
    <3>. DEFINE T == S \ {x}
    <3>3. IsFiniteSet(T) /\ Cardinality(T) = n
      <4>1. n \in Nat
        OBVIOUS
      <4>2. IsFiniteSet(T) /\ Cardinality(T) = (n + 1) - 1
        BY <2>1, <3>2, FS_RemoveElement
      <4>. QED  BY <4>1, <4>2
    <3>4. PICK q : Rising(T, n, q)
      BY <3>3 DEF Orderly
    <3>. DEFINE r == [i \in 1 .. n + 1 |-> IF i = 1 THEN x ELSE q[i - 1]]
    <3>5. \A i \in 1 .. n : q[i] \in S /\ x < q[i]
      <4>1. q \in [1 .. n -> T]
        BY <3>4 DEF Rising
      <4>2. \A y \in T : y \in S /\ x < y
        <5>1. \A y \in S : y \in Nat
          BY <2>1
        <5>. QED  BY <3>2, <5>1
      <4>. HIDE DEF T
      <4>. QED  BY <4>1, <4>2
    <3>6. \A i \in 1 .. n + 1 : i # 1 => i - 1 \in 1 .. n /\ r[i] = q[i - 1]
      OBVIOUS
    <3>7. r \in [1 .. n + 1 -> S]
      BY <3>5, <3>6
    <3>8. ASSUME NEW i \in 1 .. n + 1, NEW j \in 1 .. n + 1, i < j PROVE r[i] < r[j]
      <4>1. j - 1 \in 1 .. n /\ r[j] = q[j - 1]
        BY <3>8
      <4>2. CASE i = 1
        BY <3>5, <4>1, <4>2
      <4>3. CASE i # 1
        <5>1. i - 1 \in 1 .. n /\ r[i] = q[i - 1] /\ i - 1 < j - 1
          BY <3>8, <4>3
        <5>. QED  BY <3>4, <4>1, <5>1 DEF Rising
      <4>. QED  BY <4>2, <4>3
    <3>. HIDE DEF r
    <3>. QED  BY <3>7, <3>8 DEF Rising
  <2>. QED  BY <2>1 DEF Orderly
<1>. HIDE DEF N
<1>3. \A n \in Nat : n \in N
  <2>1. N \in SUBSET Nat
    BY DEF N
  <2>. QED  BY <1>1, <1>2, <2>1, Induction
<1>. QED  BY <1>3 DEF N

(* InOrder has each number of the set at one place.                        *)
LEMMA InOrderIs ==
    ASSUME NEW S \in SUBSET Nat, IsFiniteSet(S)
    PROVE  /\ Cardinality(S) \in Nat
           /\ InOrder(S) \in [1 .. Cardinality(S) -> S]
           /\ \A i, j \in 1 .. Cardinality(S) : i # j => InOrder(S)[i] # InOrder(S)[j]
           /\ \A x \in S : \E i \in 1 .. Cardinality(S) : InOrder(S)[i] = x
<1>. DEFINE n == Cardinality(S)
            q == InOrder(S)
<1>1. n \in Nat
  BY FS_CardinalityType
<1>2. PICK r : Rising(S, n, r)
  BY <1>1, RisingExists DEF Orderly
<1>3. Rising(S, n, q)
  <2>1. r \in [1 .. n -> S] /\ \A i, j \in DOMAIN r : i < j => r[i] < r[j]
    BY <1>2 DEF Rising
  <2>2. q \in [1 .. n -> S] /\ \A i, j \in DOMAIN q : i < j => q[i] < q[j]
    BY <2>1 DEF InOrder
  <2>. QED  BY <2>2 DEF Rising
<1>. HIDE DEF n, q
<1>4. q \in [1 .. n -> S] /\ \A i, j \in 1 .. n : i # j => q[i] # q[j]
  <2>1. q \in [1 .. n -> S]
    BY <1>3 DEF Rising
  <2>2. ASSUME NEW i \in 1 .. n, NEW j \in 1 .. n, i # j PROVE q[i] # q[j]
    <3>1. q[i] \in Nat /\ q[j] \in Nat
      BY <2>1
    <3>2. i < j \/ j < i
      BY <1>1, <2>2
    <3>. QED  BY <1>3, <3>1, <3>2 DEF Rising
  <2>. QED  BY <2>1, <2>2
<1>5. \A x \in S : \E i \in 1 .. n : q[i] = x
  <2>1. IsFiniteSet(1 .. n) /\ Cardinality(1 .. n) = n
    BY <1>1, FS_Interval
  <2>2. q \in Injection(1 .. n, S)
    BY <1>4 DEF Injection, IsInjective
  <2>3. q \in Surjection(1 .. n, S)
    BY <2>1, <2>2, FS_Injection DEF n
  <2>. QED  BY <2>3 DEF Surjection
<1>. QED  BY <1>1, <1>4, <1>5 DEF n, q

(* What a loop makes of x stays in a set that the loop does not leave.     *)
After(loop, x, n, f) == f = [k \in 0 .. n |-> IF k = 0 THEN x ELSE loop[f[k - 1]]]
Goes(loop, x, n) == \E f : After(loop, x, n, f)

(* It can be gone through any number of times.                             *)
LEMMA TurnsExist == ASSUME NEW loop, NEW x, NEW n \in Nat PROVE Goes(loop, x, n)
<1>. DEFINE N == {m \in Nat : Goes(loop, x, m)}
<1>1. 0 \in N
  <2>. DEFINE f == [k \in 0 .. 0 |-> x]
  <2>1. f = [k \in 0 .. 0 |-> IF k = 0 THEN x ELSE loop[f[k - 1]]]
    OBVIOUS
  <2>. QED  BY <2>1 DEF After, Goes
<1>2. ASSUME NEW m \in N PROVE m + 1 \in N
  <2>1. PICK f : After(loop, x, m, f)
    BY <1>2 DEF Goes
  <2>. DEFINE g == [k \in 0 .. m + 1 |-> IF k = m + 1 THEN loop[f[m]] ELSE f[k]]
  <2>2. ASSUME NEW k \in 0 .. m + 1
        PROVE  g[k] = IF k = 0 THEN x ELSE loop[g[k - 1]]
    <3>1. CASE k = m + 1
      BY <3>1
    <3>2. CASE k # m + 1
      <4>1. k \in 0 .. m /\ (k # 0 => k - 1 \in 0 .. m)
        BY <3>2
      <4>2. f[k] = IF k = 0 THEN x ELSE loop[f[k - 1]]
        BY <2>1, <4>1 DEF After
      <4>. QED  BY <3>2, <4>1, <4>2
    <3>. QED  BY <3>1, <3>2
  <2>3. g = [k \in 0 .. m + 1 |-> IF k = 0 THEN x ELSE loop[g[k - 1]]]
    BY <2>2
  <2>. HIDE DEF g
  <2>4. Goes(loop, x, m + 1)
    BY <2>3 DEF After, Goes
  <2>. QED  BY <2>4
<1>. HIDE DEF N
<1>3. \A m \in Nat : m \in N
  <2>1. N \in SUBSET Nat
    BY DEF N
  <2>. QED  BY <1>1, <1>2, <2>1, Induction
<1>. QED  BY <1>3 DEF N

(* And never leaves the set.                                               *)
LEMMA TurnsIn ==
    ASSUME NEW A, NEW loop, \A a \in A : loop[a] \in A, NEW x \in A, NEW n \in Nat
    PROVE  Turns(loop, x, n) \in A
<1>. DEFINE after == CHOOSE f : After(loop, x, n, f)
<1>1. After(loop, x, n, after)
  BY TurnsExist DEF Goes
<1>2. Turns(loop, x, n) = after[n]
  BY DEF Turns, After
<1>. HIDE DEF after
<1>. DEFINE N == {k \in Nat : k <= n => after[k] \in A}
<1>3. 0 \in N
  BY <1>1 DEF After
<1>4. ASSUME NEW k \in N PROVE k + 1 \in N
  <2>. SUFFICES ASSUME k + 1 <= n PROVE after[k + 1] \in A
    OBVIOUS
  <2>1. k + 1 \in 0 .. n /\ k + 1 # 0 /\ (k + 1) - 1 = k
    OBVIOUS
  <2>2. after[k + 1] = loop[after[k]]
    BY <1>1, <2>1 DEF After
  <2>. QED  BY <2>2
<1>. HIDE DEF N
<1>5. \A k \in Nat : k \in N
  <2>1. N \in SUBSET Nat
    BY DEF N
  <2>. QED  BY <1>3, <1>4, <2>1, Induction
<1>. QED  BY <1>2, <1>5 DEF N

-----------------------------------------------------------------------------
(* New thinkers.                                                           *)

(* Those of a kind, each once.                                             *)
Numbered(ids, m) == /\ m \in Nat /\ ids \in [1 .. m -> 1 .. Memory]
                   /\ \A i, j \in 1 .. m : i # j => ids[i] # ids[j]
Picked(those, m, ids, recs, n, kind) ==
    /\ Numbered(those, m) /\ m <= n
    /\ \A j \in 1 .. m : \E i \in 1 .. n : recs[i].kind = kind /\ those[j] = ids[i]
    /\ \A i \in 1 .. n : recs[i].kind = kind => \E j \in 1 .. m : those[j] = ids[i]

(* OfKind is these.                                                        *)
LEMMA OfKindIs ==
    ASSUME NEW n, NEW ids, Numbered(ids, n), NEW recs \in [1 .. n -> Mover], NEW kind
    PROVE  \E m : Picked(OfKind(ids, recs, kind), m, ids, recs, n, kind)
<1>. DEFINE I == {i \in 1 .. n : recs[i].kind = kind}
            q == InOrder(I)
            m == Cardinality(I)
            those == OfKind(ids, recs, kind)
<1>1. n \in Nat /\ IsFiniteSet(1 .. n) /\ Cardinality(1 .. n) = n
  BY FS_Interval DEF Numbered
<1>2. IsFiniteSet(I) /\ m <= n
  BY <1>1, FS_Subset
<1>3. I = {i \in DOMAIN ids : recs[i].kind = kind}
  BY DEF Numbered
<1>4. those = [j \in 1 .. m |-> ids[q[j]]]
  BY <1>3 DEF OfKind
<1>5. I \in SUBSET Nat /\ I \subseteq 1 .. n
  BY <1>1
<1>6. \A i \in I : i \in 1 .. n /\ recs[i].kind = kind
  OBVIOUS
<1>7. \A i \in 1 .. n : recs[i].kind = kind => i \in I
  OBVIOUS
<1>. HIDE DEF I
<1>8. /\ m \in Nat /\ q \in [1 .. m -> I]
      /\ \A i, j \in 1 .. m : i # j => q[i] # q[j]
      /\ \A x \in I : \E i \in 1 .. m : q[i] = x
  BY <1>2, <1>5, InOrderIs
<1>. HIDE DEF q, m, those
<1>9. Numbered(those, m)
  <2>1. \A j \in 1 .. m : q[j] \in 1 .. n /\ those[j] = ids[q[j]]
    BY <1>4, <1>6, <1>8
  <2>. QED  BY <1>4, <1>8, <2>1 DEF Numbered
<1>10. \A j \in 1 .. m : \E i \in 1 .. n : recs[i].kind = kind /\ those[j] = ids[i]
  BY <1>4, <1>6, <1>8
<1>11. \A i \in 1 .. n : recs[i].kind = kind => \E j \in 1 .. m : those[j] = ids[i]
  BY <1>4, <1>7, <1>8
<1>. QED  BY <1>2, <1>9, <1>10, <1>11 DEF those, Picked

(* The first free places get the ids, and nothing else changes.            *)
PutIn(r, array, n, ids, m) ==
    /\ r \in [1 .. n -> 0 .. Memory]
    /\ \A k \in 1 .. n : array[k] # Nobody => r[k] = array[k]
    /\ \A k \in 1 .. n : r[k] = array[k] \/ \E i \in 1 .. m : r[k] = ids[i]
    /\ \A k, l \in 1 .. n : array[k] = Nobody /\ array[l] = Nobody /\ r[k] = r[l] /\ r[k] # Nobody => k = l
    /\ Fits(array, ids) => \A i \in 1 .. m : \E k \in 1 .. n : r[k] = ids[i]
    /\ ~Fits(array, ids) => \A k \in 1 .. n : r[k] # Nobody

(* PutAll does this.                                                       *)
LEMMA PutAllIs ==
    ASSUME NEW n \in Nat, NEW array \in [1 .. n -> 0 .. Memory], NEW m, NEW ids, Numbered(ids, m)
    PROVE  PutIn(PutAll(array, ids), array, n, ids, m)
<1>. DEFINE F == FreePlaces(array)
            c == Cardinality(F)
            free == InOrder(F)
            put(k) == {i \in DOMAIN ids \cap DOMAIN free : free[i] = k}
            r == PutAll(array, ids)
<1>1. F \in SUBSET (1 .. n) /\ \A k \in 1 .. n : k \in F <=> array[k] = Nobody
  BY DEF FreePlaces
<1>2. IsFiniteSet(F)
  BY <1>1, FS_Interval, FS_Subset
<1>. HIDE DEF F
<1>3. /\ c \in Nat /\ free \in [1 .. c -> F]
      /\ \A i, j \in 1 .. c : i # j => free[i] # free[j]
      /\ \A x \in F : \E i \in 1 .. c : free[i] = x
  <2>1. F \in SUBSET Nat
    BY <1>1
  <2>. QED  BY <1>2, <2>1, InOrderIs
<1>4. r = [k \in 1 .. n |-> IF put(k) = {} THEN array[k] ELSE ids[Max(put(k))]]
  BY DEF PutAll, F
<1>5. m \in Nat /\ DOMAIN ids = 1 .. m /\ Len(ids) = m /\ \A i \in 1 .. m : ids[i] \in 1 .. Memory
  <2>1. m \in Nat /\ ids \in [1 .. m -> 1 .. Memory]
    BY DEF Numbered
  <2>. QED  BY <2>1, NumberedIsSeq
<1>6. Fits(array, ids) <=> m <= c
  BY <1>5 DEF Fits, F
<1>. HIDE DEF free, c
<1>7. ASSUME NEW k \in 1 .. n, NEW i \in 1 .. m, i <= c, free[i] = k PROVE r[k] = ids[i]
  <2>1. put(k) = {i}
    BY <1>3, <1>5, <1>7
  <2>2. Max({i}) = i
    <3>1. {i} \in SUBSET (1 .. m) /\ {i} # {}
      OBVIOUS
    <3>2. Max({i}) \in {i}
      BY <1>5, <3>1, MaxIs
    <3>. QED  BY <3>2
  <2>. QED  BY <1>4, <2>1, <2>2
<1>8. ASSUME NEW k \in 1 .. n, \A i \in 1 .. m : i <= c => free[i] # k PROVE r[k] = array[k]
  <2>1. put(k) = {}
    BY <1>3, <1>5, <1>8
  <2>. QED  BY <1>4, <2>1
<1>. HIDE DEF r
<1>9. \A i \in 1 .. c : free[i] \in 1 .. n /\ array[free[i]] = Nobody
  BY <1>1, <1>3
<1>10. \A k \in 1 .. n : r[k] = array[k] \/ (array[k] = Nobody /\ \E i \in 1 .. m : r[k] = ids[i] /\ i <= c /\ free[i] = k)
  <2>. SUFFICES ASSUME NEW k \in 1 .. n
                PROVE  r[k] = array[k] \/ (array[k] = Nobody /\ \E i \in 1 .. m : r[k] = ids[i] /\ i <= c /\ free[i] = k)
    OBVIOUS
  <2>1. CASE \E i \in 1 .. m : i <= c /\ free[i] = k
    BY <1>3, <1>5, <1>7, <1>9, <2>1
  <2>2. CASE \A i \in 1 .. m : i <= c => free[i] # k
    BY <1>8, <2>2
  <2>. QED  BY <2>1, <2>2
<1>11. r \in [1 .. n -> 0 .. Memory]
  <2>1. \A k \in 1 .. n : r[k] \in 0 .. Memory
    BY <1>5, <1>10
  <2>. QED  BY <1>4, <2>1 DEF r
<1>12. ASSUME NEW k \in 1 .. n, NEW l \in 1 .. n, array[k] = Nobody, array[l] = Nobody, r[k] = r[l], r[k] # Nobody
       PROVE  k = l
  <2>1. PICK i \in 1 .. m : r[k] = ids[i] /\ free[i] = k
    BY <1>10, <1>12
  <2>2. PICK j \in 1 .. m : r[l] = ids[j] /\ free[j] = l
    BY <1>10, <1>12
  <2>3. i = j
    BY <1>12, <2>1, <2>2 DEF Numbered
  <2>. QED  BY <2>1, <2>2, <2>3
<1>13. ASSUME m <= c, NEW i \in 1 .. m PROVE \E k \in 1 .. n : r[k] = ids[i]
  <2>1. i \in 1 .. c
    BY <1>3, <1>5, <1>13
  <2>. QED  BY <1>3, <1>7, <1>9, <2>1
<1>14. ASSUME ~(m <= c), NEW k \in 1 .. n PROVE r[k] # Nobody
  <2>1. CASE array[k] = Nobody
    <3>1. PICK i \in 1 .. c : free[i] = k
      BY <1>1, <1>3, <2>1
    <3>2. i \in 1 .. m /\ i <= c
      BY <1>3, <1>5, <1>14
    <3>. QED  BY <1>5, <1>7, <3>1, <3>2 DEF Nobody
  <2>2. CASE array[k] # Nobody
    BY <1>10, <2>2
  <2>. QED  BY <2>1, <2>2
<1>. QED  BY <1>6, <1>10, <1>11, <1>12, <1>13, <1>14 DEF r, PutIn

(* What is spawned has memory of its own, the end of the list, and its     *)
(* sector's specialdata unless that went to a later one.                   *)
List(list) == list \in Seq(1 .. Memory) /\ IsInjective(list)
New(ids, recs, list, contents, data) ==
    /\ Numbered(ids, Len(recs)) /\ \A i \in 1 .. Len(recs) : ids[i] \notin Range(list)
    /\ List(thinkers') /\ Len(list) + Len(recs) <= Memory
    /\ Range(thinkers') = Range(list) \cup Range(ids)
    /\ mover' \in [1 .. Memory -> Mover]
    /\ \A i \in 1 .. Len(recs) : mover'[ids[i]] = recs[i]
    /\ \A id \in 1 .. Memory : id \notin Range(ids) => mover'[id] = contents[id]
    /\ specialdata' \in [Sectors -> 0 .. Memory]
    /\ \A s \in Sectors : \/ specialdata'[s] = data[s]
                          \/ \E i \in 1 .. Len(recs) : specialdata'[s] = ids[i] /\ recs[i].sector = s
LEMMA SpawnIs ==
    ASSUME NEW recs \in Seq(Mover), NEW list, List(list), NEW contents \in [1 .. Memory -> Mover],
           NEW data \in [Sectors -> 0 .. Memory], NEW plats, NEW ceilings,
           Spawn(recs, list, contents, data, plats, ceilings)
    PROVE  \E ids : /\ New(ids, recs, list, contents, data)
                    /\ activeplats' = PutAll(plats, OfKind(ids, recs, "plat"))
                    /\ activeceilings' = PutAll(ceilings, OfKind(ids, recs, "ceiling"))
                    /\ stopped' = ~Fits(plats, OfKind(ids, recs, "plat"))
<1>. DEFINE n == Len(recs)
            l == Len(list)
            rest == (1 .. Memory) \ Range(list)
            all == InOrder(rest)
            ids == SubSeq(all, 1, n)
            made(s) == {i \in DOMAIN recs : recs[i].sector = s}
<1>1. n \in Nat /\ recs \in [1 .. n -> Mover] /\ DOMAIN recs = 1 .. n
  BY LenProperties
<1>2. l \in Nat /\ list \in [1 .. l -> 1 .. Memory] /\ DOMAIN list = 1 .. l
  BY LenProperties DEF List
<1>3. Memory \in Nat
  BY MoversAssumption
<1>4. n <= Memory - l
  BY DEF Spawn
<1>. HIDE DEF l
<1>5. IsFiniteSet(rest) /\ Cardinality(rest) >= n
  <2>1. IsFiniteSet(1 .. Memory) /\ Cardinality(1 .. Memory) = Memory
    BY <1>3, FS_Interval
  <2>2. IsFiniteSet(1 .. l) /\ Cardinality(1 .. l) = l
    BY <1>2, FS_Interval
  <2>3. list \in Surjection(1 .. l, Range(list))
    BY <1>2 DEF Surjection, Range
  <2>4. IsFiniteSet(Range(list)) /\ Cardinality(Range(list)) <= l
    BY <2>2, <2>3, FS_Surjection
  <2>5. (1 .. Memory) \cap Range(list) = Range(list)
    BY <1>2 DEF Range
  <2>6. Cardinality(rest) = Memory - Cardinality(Range(list)) /\ IsFiniteSet(rest)
    <3>1. /\ IsFiniteSet((1 .. Memory) \ Range(list))
          /\ Cardinality((1 .. Memory) \ Range(list))
                 = Cardinality(1 .. Memory) - Cardinality((1 .. Memory) \cap Range(list))
      BY <2>1, FS_Difference
    <3>. QED  BY <2>1, <2>5, <3>1
  <2>7. Cardinality(Range(list)) \in Nat
    BY <2>4, FS_CardinalityType
  <2>. QED  BY <1>1, <1>2, <1>3, <1>4, <2>4, <2>6, <2>7
<1>6. rest \in SUBSET Nat /\ rest \subseteq 1 .. Memory /\ \A id \in rest : id \notin Range(list)
  BY <1>3
<1>. HIDE DEF rest
<1>. DEFINE c == Cardinality(rest)
<1>7. /\ c \in Nat /\ all \in [1 .. c -> rest]
      /\ \A i, j \in 1 .. c : i # j => all[i] # all[j]
  BY <1>5, <1>6, InOrderIs
<1>. HIDE DEF all
<1>8. /\ ids \in Seq(rest) /\ Len(ids) = n
      /\ \A i \in 1 .. n : ids[i] = all[i]
  <2>1. \A i \in 1 .. n : all[i] \in rest
    BY <1>1, <1>5, <1>7
  <2>2. /\ ids \in Seq(rest) /\ Len(ids) = (IF 1 <= n THEN n - 1 + 1 ELSE 0)
        /\ \A i \in 1 .. n - 1 + 1 : ids[i] = all[1 + i - 1]
    BY <1>1, <2>1, SubSeqProperties
  <2>. QED  BY <1>1, <2>2
<1>. HIDE DEF ids
<1>9. ids \in [1 .. n -> rest] /\ \A i, j \in 1 .. n : i # j => ids[i] # ids[j]
  <2>1. ids \in [1 .. n -> rest]
    BY <1>8, LenProperties
  <2>2. \A i \in 1 .. n : i \in 1 .. c
    BY <1>1, <1>5, <1>7
  <2>. QED  BY <1>7, <1>8, <2>1, <2>2
<1>10. Numbered(ids, n) /\ \A i \in 1 .. n : ids[i] \notin Range(list)
  BY <1>1, <1>6, <1>9 DEF Numbered
<1>11. /\ thinkers' = list \o ids
       /\ mover' = [id \in 1 .. Memory |->
                        IF \E i \in DOMAIN ids : ids[i] = id
                        THEN recs[CHOOSE i \in DOMAIN ids : ids[i] = id] ELSE contents[id]]
       /\ specialdata' = [s \in Sectors |-> IF made(s) = {} THEN data[s] ELSE ids[Max(made(s))]]
       /\ activeplats' = PutAll(plats, OfKind(ids, recs, "plat"))
       /\ activeceilings' = PutAll(ceilings, OfKind(ids, recs, "ceiling"))
       /\ stopped' = ~Fits(plats, OfKind(ids, recs, "plat"))
  BY DEF Spawn, ids, all, rest
<1>12. List(thinkers') /\ Range(thinkers') = Range(list) \cup Range(ids)
  <2>. DEFINE t == list \o ids
  <2>1. ids \in Seq(1 .. Memory) /\ list \in Seq(1 .. Memory)
    BY <1>6, <1>8, SeqMonotonic DEF List
  <2>2. /\ t \in Seq(1 .. Memory) /\ Len(t) = l + n
        /\ \A i \in 1 .. l + n : t[i] = IF i <= l THEN list[i] ELSE ids[i - l]
    <3>1. /\ t \in Seq(1 .. Memory) /\ Len(t) = Len(list) + Len(ids)
          /\ \A i \in 1 .. Len(list) + Len(ids) : t[i] = IF i <= Len(list) THEN list[i] ELSE ids[i - Len(list)]
      BY <2>1, ConcatProperties
    <3>2. Len(list) = l /\ Len(ids) = n
      BY <1>8 DEF l
    <3>. HIDE DEF t, n
    <3>. QED  BY <3>1, <3>2
  <2>. HIDE DEF t
  <2>3. DOMAIN t = 1 .. l + n
    BY <2>2, LenProperties
  <2>. HIDE DEF n
  <2>4. ASSUME NEW i \in 1 .. l + n, NEW j \in 1 .. l + n, t[i] = t[j] PROVE i = j
    <3>1. CASE i <= l /\ j <= l
      <4>1. i \in DOMAIN list /\ j \in DOMAIN list /\ list[i] = list[j]
        BY <1>2, <2>2, <2>4, <3>1
      <4>. QED  BY <4>1 DEF List, IsInjective
    <3>2. CASE i > l /\ j > l
      <4>1. i - l \in 1 .. n /\ j - l \in 1 .. n /\ ids[i - l] = ids[j - l]
        BY <1>1, <1>2, <2>2, <2>4, <3>2
      <4>2. i - l = j - l
        BY <1>9, <4>1
      <4>. QED  BY <1>2, <4>2
    <3>3. \A a \in 1 .. l + n : a <= l => t[a] \in Range(list)
      <4>. SUFFICES ASSUME NEW a \in 1 .. l + n, a <= l PROVE t[a] \in Range(list)
        OBVIOUS
      <4>1. a \in DOMAIN list
        BY <1>1, <1>2
      <4>2. t[a] = list[a]
        BY <2>2
      <4>. QED  BY <4>1, <4>2 DEF Range
    <3>4. \A a \in 1 .. l + n : a > l => t[a] \notin Range(list)
      <4>1. \A a \in 1 .. l + n : a > l => a - l \in 1 .. n /\ t[a] = ids[a - l]
        BY <1>1, <1>2, <2>2
      <4>. QED  BY <1>10, <4>1
    <3>. QED  BY <1>1, <1>2, <2>4, <3>1, <3>2, <3>3, <3>4
  <2>5. Range(t) = Range(list) \cup Range(ids)
    <3>1. \A i \in 1 .. l : i \in 1 .. l + n /\ t[i] = list[i]
      BY <1>1, <1>2, <2>2
    <3>2. \A i \in 1 .. n : i + l \in 1 .. l + n /\ t[i + l] = ids[i]
      <4>. SUFFICES ASSUME NEW i \in 1 .. n PROVE i + l \in 1 .. l + n /\ t[i + l] = ids[i]
        OBVIOUS
      <4>1. i + l \in 1 .. l + n /\ ~(i + l <= l) /\ (i + l) - l = i
        BY <1>1, <1>2
      <4>. QED  BY <2>2, <4>1
    <3>3. \A i \in 1 .. l + n : (i \in 1 .. l /\ t[i] = list[i]) \/ (i - l \in 1 .. n /\ t[i] = ids[i - l])
      BY <1>1, <1>2, <2>2
    <3>4. DOMAIN ids = 1 .. n
      BY <1>9
    <3>5. Range(t) = {t[i] : i \in 1 .. l + n} /\ Range(list) = {list[i] : i \in 1 .. l}
          /\ Range(ids) = {ids[i] : i \in 1 .. n}
      BY <1>2, <2>3, <3>4 DEF Range
    <3>6. \A x \in Range(t) : x \in Range(list) \cup Range(ids)
      BY <3>3, <3>5
    <3>7. \A x \in Range(list) \cup Range(ids) : x \in Range(t)
      BY <3>1, <3>2, <3>5
    <3>. QED  BY <3>6, <3>7
  <2>. QED  BY <1>11, <2>2, <2>3, <2>4, <2>5 DEF List, IsInjective, t
<1>13. ASSUME NEW i \in 1 .. n PROVE mover'[ids[i]] = recs[i]
  <2>1. i \in DOMAIN ids /\ ids[i] \in 1 .. Memory
    BY <1>6, <1>9
  <2>2. (CHOOSE j \in DOMAIN ids : ids[j] = ids[i]) = i
    BY <1>9, <2>1
  <2>. QED  BY <1>11, <2>1, <2>2
<1>14. \A id \in 1 .. Memory : id \notin Range(ids) => mover'[id] = contents[id]
  BY <1>11 DEF Range
<1>15. mover' \in [1 .. Memory -> Mover]
  <2>1. ASSUME NEW id \in 1 .. Memory PROVE mover'[id] \in Mover
    <3>1. CASE id \in Range(ids)
      <4>1. PICK i \in 1 .. n : ids[i] = id
        BY <1>9, <3>1 DEF Range
      <4>. QED  BY <1>1, <1>13, <4>1
    <3>. QED  BY <1>14, <3>1
  <2>. QED  BY <1>11, <2>1
<1>16. /\ specialdata' \in [Sectors -> 0 .. Memory]
       /\ \A s \in Sectors : \/ specialdata'[s] = data[s]
                             \/ \E i \in 1 .. n : specialdata'[s] = ids[i] /\ recs[i].sector = s
  <2>1. ASSUME NEW s \in Sectors
        PROVE  \/ specialdata'[s] = data[s]
               \/ \E i \in 1 .. n : specialdata'[s] = ids[i] /\ recs[i].sector = s
    <3>1. CASE made(s) = {}
      BY <1>11, <3>1
    <3>2. CASE made(s) # {}
      <4>1. made(s) \in SUBSET (1 .. n)
        BY <1>1
      <4>2. Max(made(s)) \in made(s)
        BY <1>1, <3>2, <4>1, MaxIs
      <4>. QED  BY <1>1, <1>11, <3>2, <4>2
    <3>. QED  BY <3>1, <3>2
  <2>2. \A s \in Sectors : specialdata'[s] \in 0 .. Memory
    <3>1. \A i \in 1 .. n : ids[i] \in 0 .. Memory
      <4>1. \A i \in 1 .. n : ids[i] \in rest
        BY <1>9
      <4>2. \A id \in rest : id \in 0 .. Memory
        BY <1>3, <1>6
      <4>. QED  BY <4>1, <4>2
    <3>2. \A s \in Sectors : data[s] \in 0 .. Memory
      OBVIOUS
    <3>. QED  BY <2>1, <3>1, <3>2
  <2>3. specialdata' \in [Sectors -> 0 .. Memory]
    BY <1>11, <2>2
  <2>. QED  BY <2>1, <2>3
<1>. QED
  <2>1. l + n <= Memory
    BY <1>1, <1>2, <1>3, <1>4
  <2>. QED  BY <1>10, <1>11, <1>12, <1>13, <1>14, <1>15, <1>16, <2>1 DEF New, l

-----------------------------------------------------------------------------
(* The invariant, said of any list, memory and arrays, so that a level     *)
(* about to be set up can be spoken of.                                    *)
Alive(list, contents) == {id \in Range(list) : contents[id].function # "removed"}
Shape(list, contents, data, plats, ceilings) ==
    /\ List(list) /\ contents \in [1 .. Memory -> Mover] /\ data \in [Sectors -> 0 .. Memory]
    /\ plats \in [1 .. MaxPlats -> 0 .. Memory] /\ ceilings \in [1 .. MaxCeilings -> 0 .. Memory]
Pointed(list, contents, data) ==
    \A s \in Sectors : data[s] # Nobody => data[s] \in Alive(list, contents) /\ contents[data[s]].sector = s

(* The array has some that live, of this kind and each once.               *)
Listed(list, contents, n, array, kind) ==
    /\ \A k \in 1 .. n : array[k] # Nobody => array[k] \in Alive(list, contents) /\ contents[array[k]].kind = kind
    /\ \A k, l \in 1 .. n : array[k] = array[l] /\ array[k] # Nobody => k = l

(* What stands still has no function, is a plat or a ceiling, and knows    *)
(* how to go on; behind a manual door line there are doors.                *)
Manual == {Lines[l].side : l \in {k \in DOMAIN Lines : Lines[k].ev = "manual"}}
Fine(m) ==
    /\ m.function = "null" <=> m.state = "stasis"
    /\ m.state = "stasis" => m.old \notin {"none", "stasis"} /\ m.kind \in {"plat", "ceiling"}
    /\ m.sector \in Manual => m.kind = "door"
AllFine(list, contents) == \A id \in Alive(list, contents) : Fine(contents[id])

(* The array has all of this kind.                                         *)
Complete(list, contents, n, array, kind) ==
    \A id \in Alive(list, contents) : contents[id].kind = kind => \E k \in 1 .. n : array[k] = id
Placed(list, contents, plats, ceilings, stop) ==
    /\ ~stop => Complete(list, contents, MaxPlats, plats, "plat") /\ Complete(list, contents, MaxCeilings, ceilings, "ceiling")
    /\ \A id \in Alive(list, contents) : contents[id].state = "stasis" =>
           \/ contents[id].kind = "plat" /\ \E k \in 1 .. MaxPlats : plats[k] = id
           \/ contents[id].kind = "ceiling" /\ \E k \in 1 .. MaxCeilings : ceilings[k] = id
    /\ stop => \A k \in 1 .. MaxPlats : plats[k] # Nobody

InPlace(list, contents, data, plats, ceilings, stop) ==
    /\ Shape(list, contents, data, plats, ceilings)
    /\ Pointed(list, contents, data)
    /\ Listed(list, contents, MaxPlats, plats, "plat") /\ Listed(list, contents, MaxCeilings, ceilings, "ceiling")
    /\ AllFine(list, contents)
    /\ Memory <= MaxCeilings => Placed(list, contents, plats, ceilings, stop)
    /\ stop \in BOOLEAN

MoversInv ==
    /\ InPlace(thinkers, mover, specialdata, activeplats, activeceilings, stopped)
    /\ current \in 0 .. Len(thinkers) + 1 /\ used \subseteq DOMAIN Lines

-----------------------------------------------------------------------------
(* Spawning.                                                               *)

(* An array that has all there are of a kind has room for those to come,   *)
(* if it has room for as many as there is memory for.                      *)
LEMMA CeilingsFit ==
    ASSUME NEW list, List(list), NEW contents, NEW n \in Nat, NEW array \in [1 .. n -> 0 .. Memory], NEW kind,
           Listed(list, contents, n, array, kind), Memory <= n,
           NEW ids, NEW m, Numbered(ids, m), m <= Memory - Len(list)
    PROVE  Fits(array, ids)
<1>. DEFINE l == Len(list)
            O == {k \in 1 .. n : array[k] # Nobody}
            F == FreePlaces(array)
<1>1. l \in Nat /\ list \in [1 .. l -> 1 .. Memory] /\ DOMAIN list = 1 .. l
  BY LenProperties DEF List
<1>. HIDE DEF l
<1>2. IsFiniteSet(Range(list)) /\ Cardinality(Range(list)) <= l
  <2>1. IsFiniteSet(1 .. l) /\ Cardinality(1 .. l) = l
    BY <1>1, FS_Interval
  <2>2. list \in Surjection(1 .. l, Range(list))
    BY <1>1 DEF Surjection, Range
  <2>. QED  BY <2>1, <2>2, FS_Surjection
<1>3. Cardinality(O) <= Cardinality(Range(list)) /\ IsFiniteSet(O)
  <2>. DEFINE f == [k \in O |-> array[k]]
  <2>1. \A k \in O : f[k] \in Range(list)
    BY DEF Listed, Alive
  <2>2. \A j, k \in O : f[j] = f[k] => j = k
    BY DEF Listed
  <2>3. f \in Injection(O, Range(list))
    <3>. HIDE DEF O
    <3>. QED  BY <2>1, <2>2 DEF Injection, IsInjective
  <2>. HIDE DEF f, O
  <2>. QED  BY <1>2, <2>3, FS_Injection
<1>4. Cardinality(F) = n - Cardinality(O) /\ Cardinality(F) \in Nat
  <2>1. IsFiniteSet(1 .. n) /\ Cardinality(1 .. n) = n
    BY FS_Interval
  <2>2. F = (1 .. n) \ O
    BY DEF FreePlaces
  <2>3. (1 .. n) \cap O = O
    OBVIOUS
  <2>. HIDE DEF O, F
  <2>4. /\ IsFiniteSet((1 .. n) \ O)
        /\ Cardinality((1 .. n) \ O) = Cardinality(1 .. n) - Cardinality((1 .. n) \cap O)
    BY <2>1, FS_Difference
  <2>. QED  BY <2>1, <2>2, <2>3, <2>4, FS_CardinalityType
<1>5. Cardinality(O) \in Nat /\ Cardinality(Range(list)) \in Nat
  <2>. HIDE DEF O
  <2>. QED  BY <1>2, <1>3, FS_CardinalityType
<1>6. m \in Nat /\ Len(ids) = m
  BY NumberedIsSeq DEF Numbered
<1>7. m <= Cardinality(F)
  <2>. HIDE DEF O, F
  <2>1. Memory \in Nat
    BY MoversAssumption
  <2>2. m <= Memory - l
    BY DEF l
  <2>. QED  BY <1>1, <1>2, <1>3, <1>4, <1>5, <1>6, <2>1, <2>2
<1>. QED  BY <1>6, <1>7 DEF Fits

(* What is about to be made.                                               *)
Fresh(recs) == /\ recs \in Seq(Mover)
               /\ \A i \in 1 .. Len(recs) : /\ recs[i].function # "removed" /\ Fine(recs[i])
                                            /\ recs[i].state = "stasis" => recs[i].kind = "ceiling"

(* Who lives then.                                                         *)
Born(ids, n, list, contents) ==
    /\ \A id \in Alive(list, contents) : id \in Alive(thinkers', mover') /\ mover'[id] = contents[id]
    /\ \A i \in 1 .. n : ids[i] \in Alive(thinkers', mover') /\ ids[i] \notin Alive(list, contents)
    /\ \A id \in Alive(thinkers', mover') : id \in Alive(list, contents) \/ \E i \in 1 .. n : id = ids[i]

(* Those who did and the new ones.                                         *)
LEMMA NewLive ==
    ASSUME NEW recs, Fresh(recs), NEW list, List(list), NEW contents, NEW data, NEW ids, New(ids, recs, list, contents, data)
    PROVE  Born(ids, Len(recs), list, contents)
<1>. DEFINE n == Len(recs)
<1>1. n \in Nat /\ DOMAIN ids = 1 .. n /\ \A i \in 1 .. n : ids[i] \in 1 .. Memory
  BY DEF New, Numbered
<1>2. Range(ids) = {ids[i] : i \in 1 .. n}
  BY <1>1 DEF Range
<1>3. \A id \in Range(list) : id \in 1 .. Memory
  <2>1. list \in [1 .. Len(list) -> 1 .. Memory]
    BY LenProperties DEF List
  <2>. QED  BY <2>1 DEF Range
<1>4. /\ \A i \in 1 .. n : ids[i] \notin Range(list) /\ mover'[ids[i]] = recs[i] /\ recs[i].function # "removed"
      /\ Range(thinkers') = Range(list) \cup Range(ids)
      /\ \A id \in 1 .. Memory : id \notin Range(ids) => mover'[id] = contents[id]
  BY DEF New, Fresh
<1>5. \A id \in Range(list) : id \notin Range(ids) /\ mover'[id] = contents[id]
  BY <1>2, <1>3, <1>4
<1>. HIDE DEF n
<1>6. \A id \in Alive(list, contents) : id \in Alive(thinkers', mover') /\ mover'[id] = contents[id]
  BY <1>4, <1>5 DEF Alive
<1>7. \A i \in 1 .. n : ids[i] \in Alive(thinkers', mover') /\ ids[i] \notin Alive(list, contents)
  BY <1>2, <1>4 DEF Alive
<1>8. \A id \in Alive(thinkers', mover') : id \in Alive(list, contents) \/ \E i \in 1 .. n : id = ids[i]
  BY <1>2, <1>4, <1>5 DEF Alive
<1>. QED  BY <1>6, <1>7, <1>8 DEF n, Born

(* The array gets those of its kind.                                       *)
Grown(r, n, array, kind, ids, recs, c) ==
    /\ r \in [1 .. n -> 0 .. Memory] /\ Listed(thinkers', mover', n, r, kind)
    /\ \A k \in 1 .. n : array[k] # Nobody => r[k] = array[k]
    /\ Fits(array, OfKind(ids, recs, kind)) =>
           \A i \in 1 .. c : recs[i].kind = kind => \E k \in 1 .. n : r[k] = ids[i]
    /\ ~Fits(array, OfKind(ids, recs, kind)) => \A k \in 1 .. n : r[k] # Nobody
    /\ Memory <= n => Fits(array, OfKind(ids, recs, kind))

(* As it should.                                                           *)
LEMMA ArrayGrows ==
    ASSUME NEW recs, Fresh(recs), NEW list, List(list), NEW contents, NEW data, NEW ids, New(ids, recs, list, contents, data),
           NEW n \in Nat, NEW array \in [1 .. n -> 0 .. Memory], NEW kind, Listed(list, contents, n, array, kind)
    PROVE  Grown(PutAll(array, OfKind(ids, recs, kind)), n, array, kind, ids, recs, Len(recs))
<1>. DEFINE those == OfKind(ids, recs, kind)
            r == PutAll(array, those)
            c == Len(recs)
<1>1. c \in Nat /\ recs \in [1 .. c -> Mover]
  BY LenProperties DEF Fresh
<1>2. Numbered(ids, c) /\ c <= Memory - Len(list)
  <2>1. Len(list) \in Nat /\ Memory \in Nat
    BY LenProperties, MoversAssumption DEF List
  <2>. QED  BY <1>1, <2>1 DEF New
<1>. HIDE DEF c
<1>3. PICK m : Picked(those, m, ids, recs, c, kind)
  BY <1>1, <1>2, OfKindIs
<1>. HIDE DEF those
<1>4. PutIn(r, array, n, those, m)
  BY <1>3, PutAllIs DEF Picked
<1>. HIDE DEF r
<1>5. Born(ids, c, list, contents)
  BY NewLive DEF c
<1>6. \A i \in 1 .. c : mover'[ids[i]] = recs[i]
  BY DEF New, c
<1>7. ASSUME NEW k \in 1 .. n, array[k] # Nobody
      PROVE  array[k] \in Alive(list, contents) /\ contents[array[k]].kind = kind
  BY <1>7 DEF Listed
<1>8. ASSUME NEW k \in 1 .. n, r[k] # array[k]
      PROVE  array[k] = Nobody /\ \E i \in 1 .. c : r[k] = ids[i] /\ recs[i].kind = kind
  <2>1. array[k] = Nobody
    BY <1>4, <1>8 DEF PutIn
  <2>2. PICK j \in 1 .. m : r[k] = those[j]
    BY <1>4, <1>8 DEF PutIn
  <2>3. PICK i \in 1 .. c : recs[i].kind = kind /\ those[j] = ids[i]
    BY <1>3 DEF Picked
  <2>. QED  BY <2>1, <2>2, <2>3
<1>9. ASSUME NEW k \in 1 .. n, r[k] # Nobody PROVE r[k] \in Alive(thinkers', mover') /\ mover'[r[k]].kind = kind
  <2>1. CASE r[k] = array[k]
    BY <1>5, <1>7, <1>9, <2>1 DEF Born
  <2>2. CASE r[k] # array[k]
    BY <1>5, <1>6, <1>8, <2>2 DEF Born
  <2>. QED  BY <2>1, <2>2
<1>10. ASSUME NEW k \in 1 .. n, NEW l \in 1 .. n, r[k] = r[l], r[k] # Nobody PROVE k = l
  <2>1. CASE array[k] = Nobody /\ array[l] = Nobody
    BY <1>4, <1>10, <2>1 DEF PutIn
  <2>2. CASE array[k] # Nobody /\ array[l] # Nobody
    BY <1>4, <1>10, <2>2 DEF Listed, PutIn
  <2>3. ASSUME NEW a \in 1 .. n, NEW b \in 1 .. n, array[a] # Nobody, array[b] = Nobody, r[b] # Nobody PROVE r[a] # r[b]
    <3>1. r[a] \in Alive(list, contents)
      BY <1>4, <1>7, <2>3 DEF PutIn
    <3>2. r[b] \notin Alive(list, contents)
      BY <1>5, <1>8, <2>3 DEF Born
    <3>. QED  BY <3>1, <3>2
  <2>. QED  BY <1>10, <2>1, <2>2, <2>3
<1>11. Fits(array, those) => \A i \in 1 .. c : recs[i].kind = kind => \E k \in 1 .. n : r[k] = ids[i]
  BY <1>3, <1>4 DEF Picked, PutIn
<1>12. Memory <= n => Fits(array, those)
  <2>1. m <= Memory - Len(list)
    <3>1. m \in Nat /\ Len(list) \in Nat /\ Memory \in Nat
      BY <1>3, LenProperties, MoversAssumption DEF Numbered, List, Picked
    <3>. QED  BY <1>1, <1>2, <1>3, <3>1 DEF c, Picked
  <2>. QED  BY <1>3, <2>1, CeilingsFit DEF Picked
<1>13. Listed(thinkers', mover', n, r, kind)
  BY <1>9, <1>10 DEF Listed
<1>. QED  BY <1>4, <1>11, <1>12, <1>13 DEF those, r, c, PutIn, Grown

(* Spawning keeps the invariant.                                           *)
LEMMA SpawnKeeps ==
    ASSUME NEW recs, Fresh(recs), NEW list, NEW contents, NEW data, NEW plats, NEW ceilings,
           InPlace(list, contents, data, plats, ceilings, FALSE),
           Spawn(recs, list, contents, data, plats, ceilings)
    PROVE  /\ InPlace(thinkers, mover, specialdata, activeplats, activeceilings, stopped)'
           /\ Len(thinkers)' >= Len(list)
<1>1. /\ List(list) /\ contents \in [1 .. Memory -> Mover] /\ data \in [Sectors -> 0 .. Memory]
      /\ plats \in [1 .. MaxPlats -> 0 .. Memory] /\ ceilings \in [1 .. MaxCeilings -> 0 .. Memory]
      /\ recs \in Seq(Mover) /\ MaxPlats \in Nat /\ MaxCeilings \in Nat
  BY MoversAssumption DEF InPlace, Shape, Fresh
<1>2. PICK ids : /\ New(ids, recs, list, contents, data)
                 /\ activeplats' = PutAll(plats, OfKind(ids, recs, "plat"))
                 /\ activeceilings' = PutAll(ceilings, OfKind(ids, recs, "ceiling"))
                 /\ stopped' = ~Fits(plats, OfKind(ids, recs, "plat"))
  BY <1>1, SpawnIs
<1>. DEFINE c == Len(recs)
<1>3. Born(ids, c, list, contents)
  BY <1>1, <1>2, NewLive
<1>4. /\ List(thinkers') /\ mover' \in [1 .. Memory -> Mover] /\ specialdata' \in [Sectors -> 0 .. Memory]
      /\ \A i \in 1 .. c : mover'[ids[i]] = recs[i]
      /\ \A s \in Sectors : \/ specialdata'[s] = data[s]
                            \/ \E i \in 1 .. c : specialdata'[s] = ids[i] /\ recs[i].sector = s
  BY <1>2 DEF New
<1>5. Listed(list, contents, MaxPlats, plats, "plat") /\ Listed(list, contents, MaxCeilings, ceilings, "ceiling")
  BY DEF InPlace
<1>6. /\ activeplats' \in [1 .. MaxPlats -> 0 .. Memory] /\ Listed(thinkers', mover', MaxPlats, activeplats', "plat")
      /\ \A k \in 1 .. MaxPlats : plats[k] # Nobody => activeplats'[k] = plats[k]
      /\ ~stopped' => \A i \in 1 .. c : recs[i].kind = "plat" => \E k \in 1 .. MaxPlats : activeplats'[k] = ids[i]
      /\ stopped' => \A k \in 1 .. MaxPlats : activeplats'[k] # Nobody
  <2>1. Grown(activeplats', MaxPlats, plats, "plat", ids, recs, c)
    BY <1>1, <1>2, <1>5, ArrayGrows
  <2>. HIDE DEF c
  <2>. QED  BY <1>2, <2>1 DEF Grown
<1>7. /\ activeceilings' \in [1 .. MaxCeilings -> 0 .. Memory]
      /\ Listed(thinkers', mover', MaxCeilings, activeceilings', "ceiling")
      /\ \A k \in 1 .. MaxCeilings : ceilings[k] # Nobody => activeceilings'[k] = ceilings[k]
      /\ Memory <= MaxCeilings =>
             \A i \in 1 .. c : recs[i].kind = "ceiling" => \E k \in 1 .. MaxCeilings : activeceilings'[k] = ids[i]
  <2>1. Grown(activeceilings', MaxCeilings, ceilings, "ceiling", ids, recs, c)
    BY <1>1, <1>2, <1>5, ArrayGrows
  <2>. HIDE DEF c
  <2>. QED  BY <2>1 DEF Grown
<1>8. \A i \in 1 .. c : Fine(recs[i]) /\ (recs[i].state = "stasis" => recs[i].kind = "ceiling")
  BY DEF Fresh
<1>9. \A id \in Alive(list, contents) : id # Nobody
  <2>1. list \in [1 .. Len(list) -> 1 .. Memory]
    BY <1>1, LenProperties DEF List
  <2>2. \A id \in Range(list) : id \in 1 .. Memory
    BY <2>1 DEF Range
  <2>. QED  BY <2>2 DEF Alive, Nobody
<1>. HIDE DEF c
<1>10. Shape(thinkers', mover', specialdata', activeplats', activeceilings')
  BY <1>4, <1>6, <1>7 DEF Shape
<1>11. Pointed(thinkers', mover', specialdata')
  <2>. SUFFICES ASSUME NEW s \in Sectors, specialdata'[s] # Nobody
                PROVE  specialdata'[s] \in Alive(thinkers', mover') /\ mover'[specialdata'[s]].sector = s
    BY DEF Pointed
  <2>1. CASE specialdata'[s] = data[s]
    <3>1. data[s] \in Alive(list, contents) /\ contents[data[s]].sector = s
      BY <2>1 DEF InPlace, Pointed
    <3>. QED  BY <1>3, <2>1, <3>1 DEF Born
  <2>2. CASE \E i \in 1 .. c : specialdata'[s] = ids[i] /\ recs[i].sector = s
    BY <1>3, <1>4, <2>2 DEF Born
  <2>. QED  BY <1>4, <2>1, <2>2
<1>12. AllFine(thinkers', mover')
  <2>. SUFFICES ASSUME NEW id \in Alive(thinkers', mover') PROVE Fine(mover'[id])
    BY DEF AllFine
  <2>1. CASE id \in Alive(list, contents)
    BY <1>3, <2>1 DEF InPlace, AllFine, Born
  <2>2. CASE \E i \in 1 .. c : id = ids[i]
    BY <1>4, <1>8, <2>2
  <2>. QED  BY <1>3, <2>1, <2>2 DEF Born
<1>13. ASSUME Memory <= MaxCeilings PROVE Placed(thinkers', mover', activeplats', activeceilings', stopped')
  <2>1. Placed(list, contents, plats, ceilings, FALSE)
    BY <1>13 DEF InPlace
  <2>2. Complete(list, contents, MaxPlats, plats, "plat") /\ Complete(list, contents, MaxCeilings, ceilings, "ceiling")
    BY <2>1 DEF Placed
  <2>3. ASSUME NEW id \in Alive(thinkers', mover'), mover'[id].kind = "ceiling"
        PROVE  \E k \in 1 .. MaxCeilings : activeceilings'[k] = id
    <3>1. CASE id \in Alive(list, contents)
      <4>1. PICK k \in 1 .. MaxCeilings : ceilings[k] = id
        BY <1>3, <2>2, <2>3, <3>1 DEF Complete, Born
      <4>. QED  BY <1>7, <1>9, <3>1, <4>1
    <3>2. CASE \E i \in 1 .. c : id = ids[i]
      BY <1>4, <1>7, <1>13, <2>3, <3>2
    <3>. QED  BY <1>3, <3>1, <3>2 DEF Born
  <2>4. ASSUME NEW id \in Alive(list, contents), contents[id].kind = "plat"
        PROVE  \E k \in 1 .. MaxPlats : activeplats'[k] = id
    <3>1. PICK k \in 1 .. MaxPlats : plats[k] = id
      BY <2>2, <2>4 DEF Complete
    <3>. QED  BY <1>6, <1>9, <3>1
  <2>5. ASSUME ~stopped', NEW id \in Alive(thinkers', mover'), mover'[id].kind = "plat"
        PROVE  \E k \in 1 .. MaxPlats : activeplats'[k] = id
    <3>1. CASE id \in Alive(list, contents)
      BY <1>3, <2>4, <2>5, <3>1 DEF Born
    <3>2. CASE \E i \in 1 .. c : id = ids[i]
      BY <1>4, <1>6, <2>5, <3>2
    <3>. QED  BY <1>3, <3>1, <3>2 DEF Born
  <2>6. ASSUME NEW id \in Alive(thinkers', mover'), mover'[id].state = "stasis"
        PROVE  \/ mover'[id].kind = "plat" /\ \E k \in 1 .. MaxPlats : activeplats'[k] = id
               \/ mover'[id].kind = "ceiling" /\ \E k \in 1 .. MaxCeilings : activeceilings'[k] = id
    <3>1. CASE id \in Alive(list, contents)
      <4>1. mover'[id] = contents[id]
        BY <1>3, <3>1 DEF Born
      <4>2. contents[id].kind \in {"plat", "ceiling"}
        BY <2>6, <3>1, <4>1 DEF InPlace, AllFine, Fine
      <4>. QED  BY <2>3, <2>4, <3>1, <4>1, <4>2
    <3>2. CASE \E i \in 1 .. c : id = ids[i]
      <4>1. mover'[id].kind = "ceiling"
        BY <1>4, <1>8, <2>6, <3>2
      <4>. QED  BY <2>3, <4>1
    <3>. QED  BY <1>3, <3>1, <3>2 DEF Born
  <2>. QED  BY <1>6, <2>3, <2>5, <2>6 DEF Placed, Complete
<1>14. Len(thinkers') >= Len(list)
  <2>1. PICK n \in Nat, m \in Nat : n = Len(thinkers') /\ m = Len(list) /\ thinkers' \in [1 .. n -> 1 .. Memory]
                                    /\ list \in [1 .. m -> 1 .. Memory]
    BY <1>1, <1>4, LenProperties DEF List
  <2>2. IsFiniteSet(1 .. n) /\ Cardinality(1 .. n) = n /\ IsFiniteSet(1 .. m) /\ Cardinality(1 .. m) = m
    BY FS_Interval
  <2>3. Range(list) \subseteq Range(thinkers') /\ IsFiniteSet(Range(thinkers'))
    <3>1. thinkers' \in Surjection(1 .. n, Range(thinkers'))
      BY <2>1 DEF Surjection, Range
    <3>. QED  BY <1>2, <2>2, <3>1, FS_Surjection DEF New
  <2>4. Cardinality(Range(list)) <= Cardinality(Range(thinkers'))
    BY <2>3, FS_Subset
  <2>5. thinkers' \in Surjection(1 .. n, Range(thinkers')) /\ list \in Surjection(1 .. m, Range(list))
    BY <2>1 DEF Surjection, Range
  <2>6. Cardinality(Range(thinkers')) <= n
    BY <2>2, <2>5, FS_Surjection
  <2>7. list \in Injection(1 .. m, Range(list))
    BY <1>1, <2>1 DEF Injection, List, Range
  <2>8. m <= Cardinality(Range(list))
    <3>1. IsFiniteSet(Range(list))
      BY <2>3, FS_Subset
    <3>. QED  BY <2>2, <2>7, <3>1, FS_Injection
  <2>. QED  BY <2>1, <2>2, <2>3, <2>4, <2>6, <2>8, FS_CardinalityType, FS_Subset
<1>15. stopped' \in BOOLEAN
  BY <1>2 DEF Fits
<1>. QED  BY <1>6, <1>7, <1>10, <1>11, <1>12, <1>13, <1>14, <1>15 DEF InPlace

-----------------------------------------------------------------------------
(* What happens to those that are there.                                   *)

(* The list is within memory, and 0 is not.                                *)
LEMMA AliveIsMemory ==
    ASSUME NEW list, List(list), NEW contents
    PROVE  Alive(list, contents) \subseteq 1 .. Memory /\ Nobody \notin Alive(list, contents)
<1>1. list \in [1 .. Len(list) -> 1 .. Memory]
  BY LenProperties DEF List
<1>2. Range(list) \subseteq 1 .. Memory
  BY <1>1 DEF Range
<1>. QED  BY <1>2 DEF Alive, Nobody

(* They move, stop and start again, each of its kind in its sector.        *)
Altered(list, contents, new) ==
    /\ new \in [1 .. Memory -> Mover]
    /\ \A id \in 1 .. Memory : /\ new[id].kind = contents[id].kind /\ new[id].sector = contents[id].sector
                               /\ new[id].function = "removed" <=> contents[id].function = "removed"
    /\ AllFine(list, new)

(* Which changes nothing that matters.                                     *)
LEMMA AlteredKeeps ==
    ASSUME NEW list, NEW contents, NEW data, NEW plats, NEW ceilings, InPlace(list, contents, data, plats, ceilings, FALSE),
           NEW new, Altered(list, contents, new)
    PROVE  InPlace(list, new, data, plats, ceilings, FALSE)
<1>. DEFINE A == Alive(list, contents)
<1>1. List(list) /\ A \subseteq 1 .. Memory
  BY AliveIsMemory DEF InPlace, Shape
<1>2. Alive(list, new) = A
  <2>1. Range(list) \subseteq 1 .. Memory
    <3>1. list \in [1 .. Len(list) -> 1 .. Memory]
      BY <1>1, LenProperties DEF List
    <3>. QED  BY <3>1 DEF Range
  <2>. QED  BY <2>1 DEF Alive, Altered
<1>3. \A id \in A : new[id].kind = contents[id].kind /\ new[id].sector = contents[id].sector
  BY <1>1 DEF Altered
<1>. HIDE DEF A
<1>4. Shape(list, new, data, plats, ceilings)
  BY DEF InPlace, Shape, Altered
<1>5. Pointed(list, new, data)
  BY <1>2, <1>3 DEF InPlace, Pointed, A
<1>6. ASSUME NEW n, NEW array, NEW kind, Listed(list, contents, n, array, kind) PROVE Listed(list, new, n, array, kind)
  BY <1>2, <1>3, <1>6 DEF Listed, A
<1>7. AllFine(list, new)
  BY DEF Altered
<1>8. ASSUME NEW n, NEW array, NEW kind, Complete(list, contents, n, array, kind) PROVE Complete(list, new, n, array, kind)
  BY <1>2, <1>3, <1>8 DEF Complete, A
<1>9. ASSUME Memory <= MaxCeilings PROVE Placed(list, new, plats, ceilings, FALSE)
  <2>1. Complete(list, new, MaxPlats, plats, "plat") /\ Complete(list, new, MaxCeilings, ceilings, "ceiling")
    BY <1>8, <1>9 DEF InPlace, Placed
  <2>2. ASSUME NEW id \in Alive(list, new), new[id].state = "stasis" PROVE new[id].kind \in {"plat", "ceiling"}
    BY <1>7, <2>2 DEF AllFine, Fine
  <2>. QED  BY <2>1, <2>2 DEF Placed, Complete
<1>. QED  BY <1>4, <1>5, <1>6, <1>7, <1>9 DEF InPlace

(* One goes: its sector's specialdata and its place are cleared.           *)
LEMMA DyingKeeps ==
    ASSUME NEW list, NEW contents, NEW data, NEW plats, NEW ceilings, InPlace(list, contents, data, plats, ceilings, FALSE),
           NEW id \in Alive(list, contents), NEW dead \in Mover, dead.function = "removed", dead.sector = contents[id].sector
    PROVE  InPlace(list, [contents EXCEPT ![id] = dead], [data EXCEPT ![dead.sector] = Nobody],
                   Without(plats, id), Without(ceilings, id), FALSE)
<1>. DEFINE A == Alive(list, contents)
            new == [contents EXCEPT ![id] = dead]
            less == [data EXCEPT ![dead.sector] = Nobody]
            p == Without(plats, id)
            c == Without(ceilings, id)
<1>1. /\ List(list) /\ contents \in [1 .. Memory -> Mover] /\ data \in [Sectors -> 0 .. Memory]
      /\ plats \in [1 .. MaxPlats -> 0 .. Memory] /\ ceilings \in [1 .. MaxCeilings -> 0 .. Memory]
  BY DEF InPlace, Shape
<1>2. id \in 1 .. Memory /\ A \subseteq 1 .. Memory /\ Nobody \notin A /\ dead.sector \in Sectors
  <2>1. dead.sector \in Sectors
    BY DEF Mover
  <2>. QED  BY <1>1, <2>1, AliveIsMemory
<1>3. new \in [1 .. Memory -> Mover] /\ new[id] = dead /\ \A a \in 1 .. Memory : a # id => new[a] = contents[a]
  BY <1>1, <1>2
<1>4. less \in [Sectors -> 0 .. Memory] /\ less[dead.sector] = Nobody /\ \A s \in Sectors : s # dead.sector => less[s] = data[s]
  <2>1. 0 \in 0 .. Memory
    BY MoversAssumption
  <2>. QED  BY <1>1, <1>2, <2>1 DEF Nobody
<1>5. ASSUME NEW n \in Nat, NEW array \in [1 .. n -> 0 .. Memory]
      PROVE  /\ Without(array, id) \in [1 .. n -> 0 .. Memory]
             /\ \A k \in 1 .. n : Without(array, id)[k] # Nobody => Without(array, id)[k] = array[k] /\ array[k] # id
             /\ \A k \in 1 .. n : array[k] # id => Without(array, id)[k] = array[k]
  <2>1. 0 \in 0 .. Memory
    BY MoversAssumption
  <2>. QED  BY <2>1 DEF Without, Nobody
<1>. HIDE DEF new, less, p, c
<1>6. Alive(list, new) = A \ {id}
  <2>1. list \in [1 .. Len(list) -> 1 .. Memory]
    BY <1>1, LenProperties DEF List
  <2>2. Range(list) \subseteq 1 .. Memory
    BY <2>1 DEF Range
  <2>. QED  BY <1>3, <2>2 DEF Alive
<1>. HIDE DEF A
<1>7. \A a \in Alive(list, new) : a \in A /\ a # id /\ new[a] = contents[a]
  BY <1>2, <1>3, <1>6
<1>8. Pointed(list, new, less)
  <2>. SUFFICES ASSUME NEW s \in Sectors, less[s] # Nobody
                PROVE  less[s] \in Alive(list, new) /\ new[less[s]].sector = s
    BY DEF Pointed
  <2>1. s # dead.sector /\ less[s] = data[s]
    BY <1>4
  <2>2. data[s] \in A /\ contents[data[s]].sector = s
    BY <2>1 DEF InPlace, Pointed, A
  <2>3. data[s] # id
    BY <2>1, <2>2
  <2>. QED  BY <1>6, <1>7, <2>1, <2>2, <2>3
<1>9. ASSUME NEW n \in Nat, NEW array \in [1 .. n -> 0 .. Memory], NEW kind, Listed(list, contents, n, array, kind)
      PROVE  Listed(list, new, n, Without(array, id), kind)
  <2>. DEFINE w == Without(array, id)
  <2>1. \A k \in 1 .. n : w[k] # Nobody => w[k] = array[k] /\ array[k] # id
    BY <1>5
  <2>. HIDE DEF w
  <2>2. ASSUME NEW k \in 1 .. n, w[k] # Nobody PROVE w[k] \in Alive(list, new) /\ new[w[k]].kind = kind
    <3>1. array[k] # Nobody /\ w[k] = array[k] /\ array[k] # id
      BY <2>1, <2>2
    <3>2. array[k] \in A /\ contents[array[k]].kind = kind
      BY <1>9, <3>1 DEF Listed, A
    <3>. QED  BY <1>6, <1>7, <3>1, <3>2
  <2>3. ASSUME NEW k \in 1 .. n, NEW l \in 1 .. n, w[k] = w[l], w[k] # Nobody PROVE k = l
    BY <1>9, <2>1, <2>3 DEF Listed
  <2>. QED  BY <2>2, <2>3 DEF Listed, w
<1>10. ASSUME NEW n \in Nat, NEW array \in [1 .. n -> 0 .. Memory], NEW kind, Complete(list, contents, n, array, kind)
       PROVE  Complete(list, new, n, Without(array, id), kind)
  <2>. DEFINE w == Without(array, id)
  <2>1. \A k \in 1 .. n : array[k] # id => w[k] = array[k]
    BY <1>5
  <2>. HIDE DEF w
  <2>2. ASSUME NEW a \in Alive(list, new), new[a].kind = kind PROVE \E k \in 1 .. n : w[k] = a
    <3>1. PICK k \in 1 .. n : array[k] = a
      BY <1>7, <1>10, <2>2 DEF Complete, A
    <3>. QED  BY <1>7, <2>1, <3>1
  <2>. QED  BY <2>2 DEF Complete, w
<1>11. AllFine(list, new)
  BY <1>7 DEF InPlace, AllFine, A
<1>12. p \in [1 .. MaxPlats -> 0 .. Memory] /\ c \in [1 .. MaxCeilings -> 0 .. Memory]
  BY <1>1, <1>5, MoversAssumption DEF p, c
<1>13. Listed(list, new, MaxPlats, p, "plat") /\ Listed(list, new, MaxCeilings, c, "ceiling")
  BY <1>1, <1>9, MoversAssumption DEF p, c, InPlace
<1>14. ASSUME Memory <= MaxCeilings PROVE Placed(list, new, p, c, FALSE)
  <2>1. Complete(list, contents, MaxPlats, plats, "plat") /\ Complete(list, contents, MaxCeilings, ceilings, "ceiling")
    BY <1>14 DEF InPlace, Placed
  <2>2. Complete(list, new, MaxPlats, p, "plat") /\ Complete(list, new, MaxCeilings, c, "ceiling")
    BY <1>1, <1>10, <2>1, MoversAssumption DEF p, c
  <2>3. ASSUME NEW a \in Alive(list, new), new[a].state = "stasis" PROVE new[a].kind \in {"plat", "ceiling"}
    BY <1>11, <2>3 DEF AllFine, Fine
  <2>. QED  BY <2>2, <2>3 DEF Placed, Complete
<1>15. Shape(list, new, less, p, c)
  BY <1>1, <1>3, <1>4, <1>12 DEF Shape
<1>. QED  BY <1>8, <1>11, <1>13, <1>14, <1>15 DEF InPlace, new, less, p, c

(* A dead one leaves the list.                                             *)
LEMMA RemovalIs ==
    ASSUME NEW list, List(list), NEW i \in 1 .. Len(list)
    PROVE  /\ List(RemoveAt(list, i)) /\ Len(RemoveAt(list, i)) = Len(list) - 1
           /\ Range(RemoveAt(list, i)) = Range(list) \ {list[i]}
<1>. DEFINE n == Len(list)
            r == RemoveAt(list, i)
<1>1. n \in Nat /\ list \in [1 .. n -> 1 .. Memory] /\ i \in 1 .. n
  BY LenProperties DEF List
<1>2. \A j, k \in 1 .. n : list[j] = list[k] => j = k
  BY <1>1 DEF List, IsInjective
<1>3. /\ r \in Seq(1 .. Memory) /\ Len(r) = n - 1
      /\ \A j \in 1 .. n - 1 : r[j] = IF j < i THEN list[j] ELSE list[j + 1]
  <2>. DEFINE a == SubSeq(list, 1, i - 1)
              b == SubSeq(list, i + 1, n)
  <2>. HIDE DEF n
  <2>1. 1 \in Int /\ i - 1 \in Int /\ i + 1 \in Int /\ n \in Int
    BY <1>1
  <2>2. (\A j \in 1 .. i - 1 : list[j] \in 1 .. Memory) /\ (\A j \in i + 1 .. n : list[j] \in 1 .. Memory)
    BY <1>1
  <2>3. /\ a \in Seq(1 .. Memory) /\ Len(a) = i - 1
        /\ \A j \in 1 .. i - 1 : a[j] = list[j]
    <3>1. /\ a \in Seq(1 .. Memory) /\ Len(a) = IF 1 <= i - 1 THEN i - 1 - 1 + 1 ELSE 0
          /\ \A j \in 1 .. i - 1 - 1 + 1 : a[j] = list[1 + j - 1]
      BY <2>1, <2>2, SubSeqProperties
    <3>. HIDE DEF a
    <3>. QED  BY <1>1, <3>1
  <2>4. /\ b \in Seq(1 .. Memory) /\ Len(b) = n - i
        /\ \A j \in 1 .. n - i : b[j] = list[j + i]
    <3>1. /\ b \in Seq(1 .. Memory) /\ Len(b) = IF i + 1 <= n THEN n - (i + 1) + 1 ELSE 0
          /\ \A j \in 1 .. n - (i + 1) + 1 : b[j] = list[(i + 1) + j - 1]
      BY <2>1, <2>2, SubSeqProperties
    <3>. HIDE DEF b
    <3>2. n - (i + 1) + 1 = n - i /\ \A j \in 1 .. n - i : (i + 1) + j - 1 = j + i
      BY <1>1
    <3>. QED  BY <1>1, <3>1, <3>2
  <2>5. r = a \o b
    BY DEF RemoveAt, n
  <2>. HIDE DEF a, b, r
  <2>6. /\ r \in Seq(1 .. Memory) /\ Len(r) = Len(a) + Len(b)
        /\ \A j \in 1 .. Len(a) + Len(b) : r[j] = IF j <= Len(a) THEN a[j] ELSE b[j - Len(a)]
    BY <2>3, <2>4, <2>5, ConcatProperties
  <2>7. Len(a) + Len(b) = n - 1
    BY <1>1, <2>3, <2>4
  <2>. DEFINE la == Len(a)
              lb == Len(b)
  <2>9. \A j \in 1 .. n - 1 : r[j] = IF j <= i - 1 THEN a[j] ELSE b[j - (i - 1)]
    <3>1. la = i - 1 /\ la + lb = n - 1 /\ \A j \in 1 .. la + lb : r[j] = IF j <= la THEN a[j] ELSE b[j - la]
      BY <2>3, <2>6, <2>7
    <3>. HIDE DEF la, lb
    <3>. QED  BY <3>1
  <2>8. ASSUME NEW j \in 1 .. n - 1 PROVE r[j] = IF j < i THEN list[j] ELSE list[j + 1]
    <3>1. CASE j < i
      <4>1. j <= i - 1 /\ j \in 1 .. i - 1
        BY <1>1, <3>1
      <4>. QED  BY <2>3, <2>9, <3>1, <4>1
    <3>2. CASE ~(j < i)
      <4>1. j - (i - 1) \in 1 .. n - i /\ (j - (i - 1)) + i = j + 1
        BY <1>1, <3>2
      <4>2. r[j] = b[j - (i - 1)]
        <5>1. ~(j <= i - 1)
          BY <1>1, <3>2
        <5>. QED  BY <2>9, <5>1
      <4>. QED  BY <2>4, <3>2, <4>1, <4>2
    <3>. QED  BY <3>1, <3>2
  <2>. QED  BY <2>6, <2>7, <2>8
<1>. HIDE DEF n, r
<1>. DEFINE from(j) == IF j < i THEN j ELSE j + 1
<1>4. \A j \in 1 .. n - 1 : from(j) \in 1 .. n /\ from(j) # i /\ r[j] = list[from(j)]
  BY <1>1, <1>3
<1>5. \A j, k \in 1 .. n - 1 : from(j) = from(k) => j = k
  BY <1>1
<1>6. \A k \in 1 .. n : k # i => \E j \in 1 .. n - 1 : from(j) = k
  <2>. SUFFICES ASSUME NEW k \in 1 .. n, k # i PROVE \E j \in 1 .. n - 1 : from(j) = k
    OBVIOUS
  <2>1. CASE k < i
    BY <1>1, <2>1
  <2>2. CASE ~(k < i)
    <3>1. k - 1 \in 1 .. n - 1 /\ from(k - 1) = k
      BY <1>1, <2>2
    <3>. QED  BY <3>1
  <2>. QED  BY <2>1, <2>2
<1>. HIDE DEF from
<1>7. DOMAIN r = 1 .. n - 1
  BY <1>3
<1>8. List(r)
  <2>1. \A j, k \in 1 .. n - 1 : r[j] = r[k] => j = k
    BY <1>2, <1>4, <1>5
  <2>. QED  BY <1>3, <1>7, <2>1 DEF List, IsInjective
<1>9. Range(r) = Range(list) \ {list[i]}
  <2>1. \A j \in 1 .. n - 1 : r[j] \in Range(list) \ {list[i]}
    BY <1>1, <1>2, <1>4 DEF Range
  <2>2. ASSUME NEW k \in 1 .. n, list[k] # list[i] PROVE list[k] \in Range(r)
    BY <1>4, <1>6, <1>7, <2>2 DEF Range
  <2>3. Range(r) = {r[j] : j \in 1 .. n - 1} /\ Range(list) = {list[k] : k \in 1 .. n}
    BY <1>1, <1>7 DEF Range
  <2>. QED  BY <2>1, <2>2, <2>3
<1>. QED  BY <1>3, <1>8, <1>9 DEF n, r

(* And its memory is free.                                                 *)
LEMMA RemovalKeeps ==
    ASSUME NEW list, NEW contents, NEW data, NEW plats, NEW ceilings, InPlace(list, contents, data, plats, ceilings, FALSE),
           NEW i \in 1 .. Len(list), contents[list[i]].function = "removed", NEW none \in Mover
    PROVE  InPlace(RemoveAt(list, i), [contents EXCEPT ![list[i]] = none], data, plats, ceilings, FALSE)
<1>. DEFINE id == list[i]
            less == RemoveAt(list, i)
            new == [contents EXCEPT ![id] = none]
<1>1. List(list) /\ contents \in [1 .. Memory -> Mover]
  BY DEF InPlace, Shape
<1>2. List(less) /\ Range(less) = Range(list) \ {id}
  BY <1>1, RemovalIs
<1>3. id \in 1 .. Memory /\ Range(list) \subseteq 1 .. Memory
  <2>1. list \in [1 .. Len(list) -> 1 .. Memory]
    BY <1>1, LenProperties DEF List
  <2>. QED  BY <2>1 DEF Range
<1>4. new \in [1 .. Memory -> Mover] /\ \A a \in 1 .. Memory : a # id => new[a] = contents[a]
  BY <1>1, <1>3
<1>. HIDE DEF less, new
<1>5. Alive(less, new) = Alive(list, contents) /\ \A a \in Alive(list, contents) : new[a] = contents[a]
  BY <1>2, <1>3, <1>4 DEF Alive
<1>6. Shape(less, new, data, plats, ceilings)
  BY <1>2, <1>4 DEF InPlace, Shape
<1>7. Pointed(less, new, data)
  BY <1>5 DEF InPlace, Pointed
<1>8. Listed(less, new, MaxPlats, plats, "plat") /\ Listed(less, new, MaxCeilings, ceilings, "ceiling")
  BY <1>5 DEF InPlace, Listed
<1>9. AllFine(less, new)
  BY <1>5 DEF InPlace, AllFine
<1>10. Memory <= MaxCeilings => Placed(less, new, plats, ceilings, FALSE)
  BY <1>5 DEF InPlace, Placed, Complete
<1>. QED  BY <1>6, <1>7, <1>8, <1>9, <1>10 DEF InPlace, less, new

-----------------------------------------------------------------------------
(* What lines and levels make.                                             *)

(* The sizes there are.                                                    *)
LEMMA SizesAre ==
    /\ Wait \in Nat /\ 0 \in 0 .. Wait /\ Wait \in 0 .. Wait
    /\ \A s \in Sectors : s \in Nat /\ s \in Int
<1>1. Wait \in Nat /\ Sectors \subseteq Nat
  BY MoversAssumption
<1>. QED  BY <1>1

(* A mover about to be made.                                               *)
Sound(m) == /\ m \in Mover /\ m.function # "removed" /\ Fine(m)
            /\ m.state = "stasis" => m.kind = "ceiling"

(* One made from nothing is, where there are no doors opened by hand or it *)
(* is a door.                                                              *)
LEMMA MadeIsSound ==
    ASSUME NEW kind \in {"plat", "door", "floor", "ceiling"}, NEW type \in Types, NEW s \in Sectors,
           NEW state \in {"up", "down", "initial"}, NEW count \in 0 .. Wait, s \in Manual => kind = "door"
    PROVE  Sound(Made(kind, type, s, state, count))
<1>1. Made(kind, type, s, state, count) \in Mover
  BY MoversAssumption DEF Made, Mover, States
<1>. QED  BY <1>1 DEF Made, Sound, Fine

(* Of any number.                                                          *)
LEMMA SoundIsFresh == ASSUME NEW recs, \A i \in 1 .. Len(recs) : Sound(recs[i]), recs \in Seq(Mover) PROVE Fresh(recs)
BY DEF Sound, Fresh

(* No line but those of doors is about a sector behind a manual door line. *)
LEMMA LinesShunDoors ==
    ASSUME NEW l \in DOMAIN Lines, Lines[l].ev \notin {"manual", "EV_DoDoor"}
    PROVE  /\ \A s \in Tagged(Lines[l].tag) : s \in Sectors \ Manual
           /\ \A s \in Sectors \ Manual : Beside[s] \in Sectors \ Manual
<1>1. ASSUME NEW k \in DOMAIN Lines, Lines[k].ev = "manual"
      PROVE  /\ Lines[l].tag # Tag[Lines[k].side]
             /\ \A s \in Sectors \ {Lines[k].side} : Beside[s] # Lines[k].side
  BY <1>1, MoversAssumption
<1>2. \A s \in Manual : \E k \in DOMAIN Lines : Lines[k].ev = "manual" /\ s = Lines[k].side
  BY DEF Manual
<1>3. ASSUME NEW s \in Tagged(Lines[l].tag) PROVE s \in Sectors \ Manual
  BY <1>1, <1>2 DEF Tagged
<1>4. ASSUME NEW s \in Sectors \ Manual PROVE Beside[s] \in Sectors \ Manual
  <2>1. Beside[s] \in Sectors
    BY MoversAssumption
  <2>2. ASSUME NEW k \in DOMAIN Lines, Lines[k].ev = "manual" PROVE Beside[s] # Lines[k].side
    <3>1. s # Lines[k].side
      BY <2>2 DEF Manual
    <3>. QED  BY <1>1, <2>2, <3>1
  <2>. QED  BY <1>2, <2>1, <2>2
<1>. QED  BY <1>3, <1>4

(* One for each sector of a tag that stands still.                         *)
LEMMA PerSectorIsFresh ==
    ASSUME NEW t, NEW new, \A s \in Tagged(t) : Sound(new[s])
    PROVE  Fresh(PerSector(t, new))
<1>. DEFINE S == {s \in Tagged(t) : specialdata[s] = Nobody}
            n == Cardinality(S)
            q == InOrder(S)
            r == PerSector(t, new)
<1>1. S \in SUBSET Nat /\ IsFiniteSet(S)
  <2>1. S \subseteq Sectors
    BY DEF Tagged
  <2>. QED  BY <2>1, MoversAssumption, FS_Subset
<1>2. \A s \in S : s \in Tagged(t)
  OBVIOUS
<1>. HIDE DEF S
<1>3. n \in Nat /\ q \in [1 .. n -> S]
  BY <1>1, InOrderIs
<1>4. r = [i \in DOMAIN q |-> new[q[i]]]
  BY DEF PerSector, S
<1>. HIDE DEF n, q, r
<1>5. r \in [1 .. n -> Mover] /\ \A i \in 1 .. n : Sound(r[i])
  <2>1. \A i \in 1 .. n : Sound(new[q[i]])
    BY <1>2, <1>3
  <2>. QED  BY <1>3, <1>4, <2>1 DEF Sound
<1>6. r \in Seq(Mover) /\ Len(r) = n
  BY <1>3, <1>5, NumberedIsSeq
<1>. QED  BY <1>5, <1>6, SoundIsFresh DEF r

(* Doors that rise after 5 minutes.                                        *)
LEMMA TimedIs ==
    /\ Cardinality(DoorIn5) \in 0 .. Memory
    /\ Timed \in [1 .. Cardinality(DoorIn5) -> Mover]
    /\ \A i \in 1 .. Cardinality(DoorIn5) : Sound(Timed[i]) /\ Timed[i].kind = "door"
    /\ \A s \in DoorIn5 : \E i \in 1 .. Cardinality(DoorIn5) : Timed[i].sector = s
<1>. DEFINE S == InOrder(DoorIn5)
            n == Cardinality(DoorIn5)
<1>1. DoorIn5 \in SUBSET Nat /\ IsFiniteSet(DoorIn5) /\ DoorIn5 \subseteq Sectors /\ n <= Memory /\ Memory \in Nat
  BY MoversAssumption, FS_Subset
<1>2. n \in Nat /\ S \in [1 .. n -> DoorIn5] /\ \A x \in DoorIn5 : \E i \in 1 .. n : S[i] = x
  BY <1>1, InOrderIs
<1>3. Timed = [i \in DOMAIN S |-> Made("door", "raiseIn5Mins", S[i], "initial", Wait)]
  BY DEF Timed
<1>. HIDE DEF S, n
<1>4. ASSUME NEW i \in 1 .. n PROVE Sound(Timed[i]) /\ Timed[i].kind = "door" /\ Timed[i].sector = S[i]
  <2>1. Timed[i] = Made("door", "raiseIn5Mins", S[i], "initial", Wait)
    BY <1>2, <1>3
  <2>2. S[i] \in Sectors /\ Wait \in 0 .. Wait
    BY <1>1, <1>2, SizesAre
  <2>3. Sound(Made("door", "raiseIn5Mins", S[i], "initial", Wait))
    <3>1. "raiseIn5Mins" \in Types
      BY DEF Types
    <3>. QED  BY <2>2, <3>1, MadeIsSound
  <2>4. Sound(Timed[i])
    BY <2>1, <2>3
  <2>. QED  BY <2>1, <2>4 DEF Made
<1>5. Timed \in [1 .. n -> Mover]
  BY <1>2, <1>3, <1>4 DEF Sound
<1>. QED  BY <1>1, <1>2, <1>4, <1>5 DEF n

(* What stairs and donuts set off.                                         *)
Floors == {m \in FloorMovers : m.sector \notin Manual}

(* These are sound.                                                        *)
LEMMA FloorsAreSound == \A m \in Floors : Sound(m) /\ m.sector \in Sectors \ Manual
<1>. SUFFICES ASSUME NEW m \in Floors PROVE Sound(m) /\ m.sector \in Sectors \ Manual
  OBVIOUS
<1>1. PICK type \in {"stair", "donutRaise", "lowerFloor"}, s \in Sectors, way \in {"up", "down"} :
        m = Made("floor", type, s, way, 0)
  BY DEF Floors, FloorMovers
<1>2. m.sector = s /\ s \notin Manual
  BY <1>1 DEF Made, Floors
<1>3. Sound(Made("floor", type, s, way, 0))
  <2>1. type \in Types
    BY DEF Types
  <2>2. 0 \in 0 .. Wait
    BY SizesAre
  <2>. QED  BY <1>2, <2>1, <2>2, MadeIsSound
<1>. QED  BY <1>1, <1>2, <1>3

(* A flight of stairs, step by step.                                       *)
LEMMA FlightIs ==
    ASSUME NEW l \in DOMAIN Lines, Lines[l].ev \notin {"manual", "EV_DoDoor"},
           NEW recs \in Seq(Floors), NEW s \in Sectors \ Manual
    PROVE  Flight(recs, s) \in Seq(Floors) \ {<<>>}
<1>. DEFINE R == Seq(Floors) \ {<<>>}
            loop == [r \in Recs |-> Climbed(r)]
<1>1. ASSUME NEW z \in Sectors \ Manual PROVE Step(z) \in Floors
  <2>1. Step(z) \in FloorMovers
    BY DEF Step, FloorMovers
  <2>2. Step(z).sector = z
    BY DEF Step, Made
  <2>. QED  BY <2>1, <2>2 DEF Floors
<1>2. ASSUME NEW r \in Seq(Floors), NEW m \in Floors PROVE Append(r, m) \in R
  BY <1>2, AppendProperties
<1>3. R \subseteq Recs
  BY DEF Recs, Floors
<1>4. ASSUME NEW r \in R PROVE loop[r] \in R
  <2>1. loop[r] = Climbed(r)
    BY <1>3
  <2>2. Last(r) \in Floors
    BY LenProperties, EmptySeq, ElementOfSeq DEF Last
  <2>3. Beside[Last(r).sector] \in Sectors \ Manual
    BY <2>2, FloorsAreSound, LinesShunDoors
  <2>4. Append(r, Step(Beside[Last(r).sector])) \in R
    BY <1>1, <1>2, <2>3
  <2>. QED  BY <2>1, <2>4 DEF Climbed
<1>5. Append(recs, Step(s)) \in R
  BY <1>1, <1>2
<1>6. Cardinality(Sectors) \in Nat
  BY MoversAssumption, FS_CardinalityType
<1>. HIDE DEF R, loop
<1>7. Turns(loop, Append(recs, Step(s)), Cardinality(Sectors)) \in R
  BY <1>4, <1>5, <1>6, TurnsIn
<1>. QED  BY <1>7 DEF Flight, R, loop

(* A donut.                                                                *)
LEMMA DonutIs ==
    ASSUME NEW l \in DOMAIN Lines, Lines[l].ev \notin {"manual", "EV_DoDoor"},
           NEW recs \in Seq(Floors), NEW s \in Sectors \ Manual
    PROVE  Donut(recs, s) \in Seq(Floors) \ {<<>>}
<1>. DEFINE a == Made("floor", "donutRaise", Beside[s], "up", 0)
            b == Made("floor", "lowerFloor", s, "down", 0)
<1>1. Beside[s] \in Sectors \ Manual
  BY LinesShunDoors
<1>2. a \in Floors /\ b \in Floors
  BY <1>1 DEF Floors, FloorMovers, Made
<1>. HIDE DEF a, b
<1>3. <<a, b>> \in Seq(Floors) /\ <<a, b>> # <<>> /\ Len(<<a, b>>) = 2
  BY <1>2
<1>4. recs \o <<a, b>> \in Seq(Floors) /\ recs \o <<a, b>> # <<>>
  BY <1>3, ConcatProperties, ConcatEqualIffEmpty
<1>. QED  BY <1>4 DEF Donut, a, b

(* The search for them never leaves those sectors.                         *)
LEMMA FoundIsFresh ==
    ASSUME NEW l \in DOMAIN Lines, Lines[l].ev \notin {"manual", "EV_DoDoor"}
    PROVE  Fresh(Found(l))
<1>. DEFINE A == [recs : Seq(Floors), secnum : Int]
            loop == [search \in Search |-> GoesOnFrom(search, l)]
            x == [recs |-> <<>>, secnum |-> -1]
            n == Cardinality(Sectors) * (Cardinality(Sectors) + 1)
<1>1. A \subseteq Search
  <2>1. Seq(Floors) \subseteq Seq(FloorMovers)
    BY DEF Floors
  <2>. QED  BY <2>1 DEF Search
<1>2. ASSUME NEW a \in A PROVE loop[a] \in A
  <2>. DEFINE more == {s \in Tagged(Lines[l].tag) : s > a.secnum}
              s == Min(more)
              recs == IF Lines[l].ev = "EV_DoDonut" THEN Donut(a.recs, s) ELSE Flight(a.recs, s)
  <2>1. loop[a] = IF more = {} THEN a
                  ELSE IF Occupied(a.recs, s) THEN [a EXCEPT !.secnum = s]
                  ELSE [recs |-> recs, secnum |-> Last(recs).sector]
    BY <1>1 DEF GoesOnFrom
  <2>2. more \in SUBSET Nat /\ \A z \in more : z \in Sectors \ Manual
    <3>1. \A z \in more : z \in Sectors \ Manual
      BY LinesShunDoors
    <3>2. Sectors \subseteq Nat
      BY MoversAssumption
    <3>. HIDE DEF more
    <3>. QED  BY <3>1, <3>2
  <2>. HIDE DEF more, recs
  <2>3. CASE more = {}
    BY <2>1, <2>3
  <2>4. CASE more # {}
    <3>1. s \in more
      BY <2>2, <2>4, MinIs
    <3>. HIDE DEF s
    <3>2. s \in Sectors \ Manual /\ s \in Int
      BY <2>2, <3>1
    <3>3. a.recs \in Seq(Floors) /\ [a EXCEPT !.secnum = s] \in A
      BY <3>2
    <3>4. recs \in Seq(Floors) \ {<<>>}
      BY <3>2, <3>3, FlightIs, DonutIs DEF recs
    <3>5. Last(recs) \in Floors
      BY <3>4, LenProperties, EmptySeq, ElementOfSeq DEF Last
    <3>6. Last(recs).sector \in Int
      BY <3>5, FloorsAreSound, SizesAre
    <3>7. [recs |-> recs, secnum |-> Last(recs).sector] \in A
      BY <3>4, <3>6
    <3>. QED  BY <2>1, <2>4, <3>3, <3>7
  <2>. QED  BY <2>3, <2>4
<1>3. x \in A
  BY EmptySeq
<1>4. n \in Nat
  <2>1. Cardinality(Sectors) \in Nat
    BY MoversAssumption, FS_CardinalityType
  <2>. QED  BY <2>1
<1>. HIDE DEF A, loop, x, n
<1>5. Turns(loop, x, n) \in A
  BY <1>2, <1>3, <1>4, TurnsIn
<1>6. Found(l) \in Seq(Floors)
  <2>1. Found(l) = Turns(loop, x, n).recs
    BY DEF Found, loop, x, n
  <2>. QED  BY <1>5, <2>1 DEF A
<1>7. \A i \in 1 .. Len(Found(l)) : Sound(Found(l)[i])
  BY <1>6, FloorsAreSound, ElementOfSeq
<1>8. Found(l) \in Seq(Mover)
  <2>1. Floors \subseteq Mover
    BY FloorsAreSound DEF Sound
  <2>. QED  BY <1>6, <2>1
<1>. QED  BY <1>7, <1>8, SoundIsFresh

-----------------------------------------------------------------------------
(* Steps.                                                                  *)

Now == InPlace(thinkers, mover, specialdata, activeplats, activeceilings, FALSE)

(* While the game goes on, all is in place.                                *)
LEMMA NowIs == ASSUME MoversInv, ~stopped PROVE Now
<1>1. stopped = FALSE
  BY DEF MoversInv, InPlace
<1>. QED  BY <1>1 DEF MoversInv, Now

(* What is in the memory of those on the list.                             *)
LEMMA AliveIs ==
    ASSUME Now
    PROVE  /\ mover \in [1 .. Memory -> Mover] /\ List(thinkers)
           /\ \A id \in Alive(thinkers, mover) : id \in 1 .. Memory /\ mover[id] \in Mover /\ Fine(mover[id])
<1>1. mover \in [1 .. Memory -> Mover] /\ List(thinkers)
  BY DEF Now, InPlace, Shape
<1>2. \A id \in Alive(thinkers, mover) : id \in 1 .. Memory /\ mover[id] \in Mover /\ Fine(mover[id])
  BY <1>1, AliveIsMemory DEF Now, InPlace, AllFine
<1>. QED  BY <1>1, <1>2

(* Those live that are not removed.                                        *)
LEMMA AliveSame ==
    ASSUME Now, NEW new, \A id \in 1 .. Memory : new[id].function = "removed" <=> mover[id].function = "removed"
    PROVE  Alive(thinkers, new) = Alive(thinkers, mover)
<1>1. List(thinkers)
  BY AliveIs
<1>2. Range(thinkers) \subseteq 1 .. Memory
  <2>1. thinkers \in [1 .. Len(thinkers) -> 1 .. Memory]
    BY <1>1, LenProperties DEF List
  <2>. QED  BY <2>1 DEF Range
<1>. QED  BY <1>2 DEF Alive

(* Some of those that live change, and stay what they are.                 *)
Stays(m, n) == /\ n \in Mover /\ n.kind = m.kind /\ n.sector = m.sector
               /\ n.function # "removed" /\ Fine(n)

(* It is an alteration.                                                    *)
LEMMA StaysAlters ==
    ASSUME Now, NEW new, DOMAIN new = 1 .. Memory, new = [id \in DOMAIN new |-> new[id]],
           \A id \in 1 .. Memory : new[id] = mover[id] \/ (id \in Alive(thinkers, mover) /\ Stays(mover[id], new[id]))
    PROVE  Altered(thinkers, mover, new)
<1>1. \A id \in 1 .. Memory : mover[id] \in Mover
  BY AliveIs
<1>2. new \in [1 .. Memory -> Mover]
  BY <1>1 DEF Stays
<1>3. \A id \in 1 .. Memory : /\ new[id].kind = mover[id].kind /\ new[id].sector = mover[id].sector
                              /\ new[id].function = "removed" <=> mover[id].function = "removed"
  BY DEF Stays, Alive
<1>4. Alive(thinkers, new) = Alive(thinkers, mover)
  <2>1. \A id \in 1 .. Memory : new[id].function = "removed" <=> mover[id].function = "removed"
    BY <1>3
  <2>. QED  BY <2>1, AliveSame
<1>5. \A id \in Alive(thinkers, mover) : Fine(new[id])
  BY AliveIs DEF Stays
<1>6. AllFine(thinkers, new)
  BY <1>4, <1>5 DEF AllFine
<1>. QED  BY <1>2, <1>3, <1>6 DEF Altered

(* Plats and ceilings are stopped and go on.                               *)
LEMMA WokenAlters ==
    ASSUME Now, NEW n, NEW kind \in {"plat", "ceiling"}, NEW t,
           NEW array \in [1 .. n -> 0 .. Memory], Listed(thinkers, mover, n, array, kind)
    PROVE  Altered(thinkers, mover, Woken(array, t)) /\ Altered(thinkers, mover, Stopped(array, t))
<1>1. ASSUME NEW id \in 1 .. Memory, \E k \in DOMAIN array : array[k] = id
      PROVE  id \in Alive(thinkers, mover) /\ mover[id] \in Mover /\ Fine(mover[id]) /\ mover[id].kind = kind
  <2>1. id # Nobody
    BY DEF Nobody
  <2>. QED  BY <1>1, <2>1, AliveIs DEF Listed
<1>2. Altered(thinkers, mover, Woken(array, t))
  <2>1. ASSUME NEW id \in 1 .. Memory, Woken(array, t)[id] # mover[id]
        PROVE  id \in Alive(thinkers, mover) /\ Stays(mover[id], Woken(array, t)[id])
    <3>. DEFINE m == mover[id]
                w == [m EXCEPT !.state = m.old, !.old = "none", !.function = "runs"]
    <3>1. m.state = "stasis" /\ (\E k \in DOMAIN array : array[k] = id) /\ Woken(array, t)[id] = w
      BY <2>1 DEF Woken
    <3>2. id \in Alive(thinkers, mover) /\ m \in Mover /\ Fine(m)
      BY <1>1, <3>1
    <3>. HIDE DEF m
    <3>3. m.old \in States /\ m.old # "stasis"
      BY <3>1, <3>2 DEF Fine, Mover
    <3>4. w \in Mover
      BY <3>2, <3>3 DEF Mover
    <3>5. w.kind = m.kind /\ w.sector = m.sector /\ w.function = "runs" /\ w.state = m.old
      BY <3>2 DEF Mover
    <3>6. Fine(w)
      BY <3>2, <3>3, <3>5 DEF Fine
    <3>. QED  BY <3>1, <3>2, <3>4, <3>5, <3>6 DEF m, Stays
  <2>. DEFINE new == Woken(array, t)
  <2>2. DOMAIN new = 1 .. Memory /\ new = [id \in DOMAIN new |-> new[id]]
    BY DEF Woken
  <2>. HIDE DEF new
  <2>3. Altered(thinkers, mover, new)
    BY <2>1, <2>2, StaysAlters DEF new
  <2>. QED  BY <2>3 DEF new
<1>3. Altered(thinkers, mover, Stopped(array, t))
  <2>1. ASSUME NEW id \in 1 .. Memory, Stopped(array, t)[id] # mover[id]
        PROVE  id \in Alive(thinkers, mover) /\ Stays(mover[id], Stopped(array, t)[id])
    <3>. DEFINE m == mover[id]
                w == [m EXCEPT !.old = m.state, !.state = "stasis", !.function = "null"]
    <3>1. m.state # "stasis" /\ (\E k \in DOMAIN array : array[k] = id) /\ Stopped(array, t)[id] = w
      BY <2>1 DEF Stopped
    <3>2. id \in Alive(thinkers, mover) /\ m \in Mover /\ Fine(m) /\ m.kind = kind
      BY <1>1, <3>1
    <3>. HIDE DEF m
    <3>3. m.state \in States /\ m.state # "none"
      BY <3>2 DEF Mover, States
    <3>4. w \in Mover
      BY <3>2, <3>3 DEF Mover, States
    <3>5. w.kind = m.kind /\ w.sector = m.sector /\ w.function = "null" /\ w.state = "stasis" /\ w.old = m.state
      BY <3>2 DEF Mover
    <3>6. Fine(w)
      BY <3>1, <3>2, <3>3, <3>5 DEF Fine
    <3>. QED  BY <3>1, <3>2, <3>4, <3>5, <3>6 DEF m, Stays
  <2>. DEFINE new == Stopped(array, t)
  <2>2. DOMAIN new = 1 .. Memory /\ new = [id \in DOMAIN new |-> new[id]]
    BY DEF Stopped
  <2>. HIDE DEF new
  <2>3. Altered(thinkers, mover, new)
    BY <2>1, <2>2, StaysAlters DEF new
  <2>. QED  BY <2>3 DEF new
<1>. QED  BY <1>2, <1>3

(* What is in place after a step, and that positions stay positions.       *)
Then == /\ InPlace(thinkers, mover, specialdata, activeplats, activeceilings, stopped)'
        /\ Len(thinkers)' >= Len(thinkers)

(* A line makes movers while others go on.                                 *)
LEMMA MakingKeeps ==
    ASSUME Now, NEW recs, Fresh(recs), NEW contents, contents = mover \/ Altered(thinkers, mover, contents),
           SpawnNow(recs, contents)
    PROVE  Then
<1>1. InPlace(thinkers, contents, specialdata, activeplats, activeceilings, FALSE)
  BY AlteredKeeps DEF Now
<1>. QED  BY <1>1, SpawnKeeps DEF SpawnNow, Then

(* A line changes what is there.                                           *)
LEMMA ChangingKeeps ==
    ASSUME Now, ~stopped, MoversInv, mover' = mover \/ Altered(thinkers, mover, mover'),
           UNCHANGED <<thinkers, specialdata, activeplats, activeceilings, stopped>>
    PROVE  Then
<1>1. stopped' = FALSE
  BY DEF MoversInv, InPlace
<1>2. InPlace(thinkers, mover', specialdata, activeplats, activeceilings, FALSE)
  BY AlteredKeeps DEF Now
<1>3. Len(thinkers) \in Nat
  BY LenProperties DEF Now, InPlace, Shape, List
<1>4. InPlace(thinkers', mover', specialdata', activeplats', activeceilings', stopped')
  BY <1>1, <1>2
<1>5. Len(thinkers') >= Len(thinkers)
  BY <1>3
<1>. QED  BY <1>4, <1>5 DEF Then

(* The new movers of a line with a tag.                                    *)
LEMMA TaggedIsFresh ==
    ASSUME NEW l \in DOMAIN Lines, NEW kind \in {"plat", "door", "floor", "ceiling"},
           kind = "door" \/ Lines[l].ev \notin {"manual", "EV_DoDoor"},
           NEW way, \A s \in Tagged(Lines[l].tag) : way[s] \in {"up", "down"}
    PROVE  Fresh(PerSector(Lines[l].tag, [s \in Tagged(Lines[l].tag) |-> Made(kind, Lines[l].type, s, way[s], 0)]))
<1>. DEFINE T == Tagged(Lines[l].tag)
            new == [s \in T |-> Made(kind, Lines[l].type, s, way[s], 0)]
<1>1. ASSUME NEW s \in T PROVE Sound(new[s])
  <2>1. s \in Sectors /\ (s \in Manual => kind = "door")
    BY LinesShunDoors DEF Tagged
  <2>2. Lines[l].type \in Types /\ way[s] \in {"up", "down", "initial"} /\ 0 \in 0 .. Wait
    BY SizesAre DEF Types
  <2>3. Sound(Made(kind, Lines[l].type, s, way[s], 0))
    BY <2>1, <2>2, MadeIsSound
  <2>. QED  BY <2>3
<1>. HIDE DEF new
<1>2. Fresh(PerSector(Lines[l].tag, new))
  BY <1>1, PerSectorIsFresh
<1>. QED  BY <1>2 DEF new

(* EV_VerticalDoor finds a door.                                           *)
LEMMA DoorTurns ==
    ASSUME Now, NEW l \in DOMAIN Lines, Lines[l].ev = "manual", specialdata[Lines[l].side] # Nobody,
           NEW state \in {"up", "down"}
    PROVE  Altered(thinkers, mover, [mover EXCEPT ![specialdata[Lines[l].side]].state = state])
<1>. DEFINE id == specialdata[Lines[l].side]
            m == mover[id]
            w == [m EXCEPT !.state = state]
            new == [mover EXCEPT ![id].state = state]
<1>1. Lines[l].side \in Sectors /\ Lines[l].side \in Manual
  BY MoversAssumption DEF Manual
<1>2. id \in Alive(thinkers, mover) /\ m.sector = Lines[l].side
  BY <1>1 DEF Now, InPlace, Pointed
<1>3. id \in 1 .. Memory /\ m \in Mover /\ Fine(m) /\ mover \in [1 .. Memory -> Mover]
  BY <1>2, AliveIs
<1>4. m.function # "removed" /\ m.function # "null"
  <2>1. m.kind = "door"
    BY <1>1, <1>2, <1>3 DEF Fine
  <2>. QED  BY <1>2, <1>3, <2>1 DEF Fine, Alive
<1>. HIDE DEF m, id
<1>5. Stays(m, w)
  <2>1. w \in Mover
    BY <1>3 DEF Mover, States
  <2>2. w.kind = m.kind /\ w.sector = m.sector /\ w.function = m.function /\ w.state = state
    BY <1>3 DEF Mover
  <2>. QED  BY <1>3, <1>4, <2>1, <2>2 DEF Stays, Fine
<1>6. /\ DOMAIN new = 1 .. Memory /\ new = [i \in DOMAIN new |-> new[i]]
      /\ new[id] = w /\ \A i \in 1 .. Memory : i # id => new[i] = mover[i]
  BY <1>3 DEF m
<1>. HIDE DEF new
<1>7. Altered(thinkers, mover, new)
  BY <1>2, <1>5, <1>6, StaysAlters DEF m
<1>. QED  BY <1>7 DEF new, id

(* Whatever a line sets off.                                               *)
LEMMA EventKeeps ==
    ASSUME MoversInv, ~stopped, NEW l \in DOMAIN Lines, Event(l)
    PROVE  Then
<1>. DEFINE ev == Lines[l].ev
            t == Lines[l].tag
<1>0. Now
  BY NowIs
<1>1. /\ Listed(thinkers, mover, MaxPlats, activeplats, "plat") /\ activeplats \in [1 .. MaxPlats -> 0 .. Memory]
      /\ Listed(thinkers, mover, MaxCeilings, activeceilings, "ceiling")
      /\ activeceilings \in [1 .. MaxCeilings -> 0 .. Memory]
  BY <1>0 DEF Now, InPlace, Shape
<1>2. /\ Altered(thinkers, mover, Woken(activeplats, t)) /\ Altered(thinkers, mover, Stopped(activeplats, t))
      /\ Altered(thinkers, mover, Woken(activeceilings, t)) /\ Altered(thinkers, mover, Stopped(activeceilings, t))
  <2>. HIDE DEF t
  <2>. QED  BY <1>0, <1>1, WokenAlters
<1>3. CASE ev = "EV_DoPlat" /\ EV_DoPlat(l)
  <2>. DEFINE type == Lines[l].type
              ways == IF type = "perpetual" THEN {"up", "down"} ELSE IF type = "raise" THEN {"up"} ELSE {"down"}
              contents == IF type = "perpetual" THEN Woken(activeplats, t) ELSE mover
  <2>1. PICK way \in [Tagged(t) -> ways] :
          SpawnNow(PerSector(t, [s \in Tagged(t) |-> Made("plat", type, s, way[s], 0)]), contents)
    BY <1>3 DEF EV_DoPlat
  <2>2. \A s \in Tagged(t) : way[s] \in {"up", "down"}
    OBVIOUS
  <2>3. Fresh(PerSector(t, [s \in Tagged(t) |-> Made("plat", type, s, way[s], 0)]))
    BY <1>3, <2>2, TaggedIsFresh
  <2>4. contents = mover \/ Altered(thinkers, mover, contents)
    BY <1>2
  <2>. HIDE DEF contents
  <2>. QED  BY <1>0, <2>1, <2>3, <2>4, MakingKeeps
<1>4. CASE ev = "EV_DoDoor" /\ EV_DoDoor(l)
  <2>. DEFINE type == Lines[l].type
              way == [s \in Tagged(t) |-> IF type \in {"close", "close30ThenOpen"} THEN "down" ELSE "up"]
              recs == PerSector(t, [s \in Tagged(t) |-> Made("door", type, s, way[s], 0)])
  <2>1. SpawnNow(recs, mover)
    BY <1>4 DEF EV_DoDoor
  <2>2. \A s \in Tagged(t) : way[s] \in {"up", "down"}
    OBVIOUS
  <2>. HIDE DEF way
  <2>3. Fresh(recs)
    BY <1>4, <2>2, TaggedIsFresh
  <2>. HIDE DEF recs
  <2>. QED  BY <1>0, <2>1, <2>3, MakingKeeps
<1>5. CASE ev = "EV_DoFloor" /\ EV_DoFloor(l)
  <2>. DEFINE type == Lines[l].type
              way == [s \in Tagged(t) |-> IF type = "raiseFloor" THEN "up" ELSE "down"]
              recs == PerSector(t, [s \in Tagged(t) |-> Made("floor", type, s, way[s], 0)])
  <2>1. SpawnNow(recs, mover)
    BY <1>5 DEF EV_DoFloor
  <2>2. \A s \in Tagged(t) : way[s] \in {"up", "down"}
    OBVIOUS
  <2>. HIDE DEF way
  <2>3. Fresh(recs)
    BY <1>5, <2>2, TaggedIsFresh
  <2>. HIDE DEF recs
  <2>. QED  BY <1>0, <2>1, <2>3, MakingKeeps
<1>6. CASE ev = "EV_DoCeiling" /\ EV_DoCeiling(l)
  <2>. DEFINE type == Lines[l].type
              way == [s \in Tagged(t) |-> IF type = "raiseToHighest" THEN "up" ELSE "down"]
              recs == PerSector(t, [s \in Tagged(t) |-> Made("ceiling", type, s, way[s], 0)])
              contents == IF type = "crushAndRaise" THEN Woken(activeceilings, t) ELSE mover
  <2>1. SpawnNow(recs, contents)
    BY <1>6 DEF EV_DoCeiling
  <2>2. \A s \in Tagged(t) : way[s] \in {"up", "down"}
    OBVIOUS
  <2>. HIDE DEF way
  <2>3. Fresh(recs)
    BY <1>6, <2>2, TaggedIsFresh
  <2>4. contents = mover \/ Altered(thinkers, mover, contents)
    BY <1>2
  <2>. HIDE DEF recs, contents
  <2>. QED  BY <1>0, <2>1, <2>3, <2>4, MakingKeeps
<1>7. CASE (ev = "EV_BuildStairs" /\ EV_BuildStairs(l)) \/ (ev = "EV_DoDonut" /\ EV_DoDonut(l))
  <2>1. Fresh(Found(l)) /\ SpawnNow(Found(l), mover)
    BY <1>7, FoundIsFresh DEF EV_BuildStairs, EV_DoDonut
  <2>. QED  BY <1>0, <2>1, MakingKeeps
<1>8. CASE (ev = "EV_StopPlat" /\ EV_Stop(activeplats, l)) \/ (ev = "EV_CeilingCrushStop" /\ EV_Stop(activeceilings, l))
  <2>1. Altered(thinkers, mover, mover') /\ UNCHANGED <<thinkers, specialdata, activeplats, activeceilings, stopped>>
    BY <1>2, <1>8 DEF EV_Stop
  <2>. QED  BY <1>0, <2>1, ChangingKeeps
<1>9. ASSUME ev = "manual", NEW byPlayer \in BOOLEAN, EV_VerticalDoor(l, byPlayer) PROVE Then
  <2>. DEFINE s == Lines[l].side
              id == specialdata[s]
  <2>1. CASE id # Nobody /\ Lines[l].type = "normal"
    <3>1. /\ UNCHANGED <<thinkers, specialdata, activeplats, activeceilings, stopped>>
          /\ \/ mover' = [mover EXCEPT ![id].state = "up"]
             \/ mover' = [mover EXCEPT ![id].state = "down"]
             \/ mover' = mover
      BY <1>9, <2>1 DEF EV_VerticalDoor
    <3>2. mover' = mover \/ Altered(thinkers, mover, mover')
      BY <1>0, <1>9, <2>1, <3>1, DoorTurns
    <3>. QED  BY <1>0, <3>1, <3>2, ChangingKeeps
  <2>2. CASE ~(id # Nobody /\ Lines[l].type = "normal")
    <3>. DEFINE m == Made("door", Lines[l].type, s, "up", 0)
                recs == <<m>>
    <3>1. SpawnNow(recs, mover)
      BY <1>9, <2>2 DEF EV_VerticalDoor
    <3>2. Sound(m)
      <4>1. s \in Sectors /\ Lines[l].type \in Types /\ 0 \in 0 .. Wait
        BY <1>9, MoversAssumption, SizesAre DEF Types
      <4>. QED  BY <4>1, MadeIsSound
    <3>. HIDE DEF m
    <3>3. Fresh(recs)
      <4>1. recs \in Seq(Mover) /\ Len(recs) = 1 /\ recs[1] = m
        BY <3>2 DEF Sound
      <4>2. \A i \in 1 .. Len(recs) : Sound(recs[i])
        BY <3>2, <4>1
      <4>. HIDE DEF recs
      <4>. QED  BY <4>1, <4>2, SoundIsFresh
    <3>. HIDE DEF recs
    <3>. QED  BY <1>0, <3>1, <3>3, MakingKeeps
  <2>. QED  BY <2>1, <2>2
<1>. QED  BY <1>3, <1>4, <1>5, <1>6, <1>7, <1>8, <1>9 DEF Event

-----------------------------------------------------------------------------
(* One call of a thinker's function.                                       *)

(* It goes on or is removed, and stays what it is.                         *)
Continues(m, n) ==
    /\ n \in Mover /\ n.kind = m.kind /\ n.sector = m.sector
    /\ n.function = "removed" \/ (n.function = "runs" /\ n.state # "stasis")

(* Waiting, and what is removed.                                           *)
LEMMA RemovedIs ==
    ASSUME NEW m \in Mover, m.function = "runs", m.state # "stasis"
    PROVE  /\ Continues(m, m) /\ Continues(m, Removed(m)) /\ Removed(m).function = "removed" /\ NoMover \in Mover
           /\ Counted(m) \in Mover /\ Continues(m, Counted(m)) /\ Counted(m).function = "runs" /\ Counted(m).type = m.type
           /\ Wait \in -1 .. Wait /\ 0 \in -1 .. Wait
<1>1. Wait \in Nat
  BY SizesAre
<1>2. Wait \in -1 .. Wait /\ 0 \in -1 .. Wait
  BY <1>1
<1>3. NoMover \in Mover
  <2>1. Sectors \in SUBSET Nat /\ Sectors # {}
    BY MoversAssumption
  <2>2. Min(Sectors) \in Sectors
    BY <2>1, MinIs
  <2>. QED  BY <1>2, <2>2 DEF NoMover, Made, Mover, Types, States
<1>4. Removed(m) \in Mover /\ Removed(m).kind = m.kind /\ Removed(m).sector = m.sector /\ Removed(m).function = "removed"
  BY <1>3 DEF Removed, Mover
<1>5. (IF m.count < 0 THEN m.count ELSE m.count - 1) \in -1 .. Wait
  <2>1. m.count \in -1 .. Wait
    BY DEF Mover
  <2>. QED  BY <1>1, <2>1
<1>6. /\ Counted(m) \in Mover /\ Counted(m).kind = m.kind /\ Counted(m).sector = m.sector
      /\ Counted(m).function = "runs" /\ Counted(m).type = m.type /\ Counted(m).state = m.state
  BY <1>5 DEF Counted, Mover
<1>. QED  BY <1>2, <1>3, <1>4, <1>6 DEF Continues

(* Another state, another time to wait, another type.                      *)
LEMMA ChangedGoes ==
    ASSUME NEW m \in Mover, m.function = "runs", m.state # "stasis",
           NEW state \in States \ {"stasis"}, NEW count \in -1 .. Wait
    PROVE  /\ Continues(m, [m EXCEPT !.state = state]) /\ Continues(m, [m EXCEPT !.state = state, !.count = count])
           /\ Continues(m, [m EXCEPT !.state = state, !.type = "normal"]) /\ Continues(m, [m EXCEPT !.state = state, !.type = m.type])
BY DEF Continues, Mover, Types

(* Plats.                                                                  *)
LEMMA PlatGoes ==
    ASSUME NEW m \in Mover, m.function = "runs", m.state # "stasis", NEW r, NEW n \in T_PlatRaise(m, r)
    PROVE  Continues(m, n)
<1>1. /\ \A s \in {"up", "down", "waiting"} : s \in States \ {"stasis"}
      /\ 0 \in -1 .. Wait /\ Wait \in -1 .. Wait
  BY RemovedIs DEF States
<1>10. Continues(m, [m EXCEPT !.state = "waiting", !.count = Wait]) /\ Continues(m, Removed(m)) /\ Continues(m, m)
  BY <1>1, ChangedGoes, RemovedIs
<1>. DEFINE wait == IF m.type = "raise" THEN 0 ELSE Wait
<1>2. wait \in -1 .. Wait
  BY <1>1
<1>. HIDE DEF wait
<1>3. CASE m.state = "up" /\ r = "crushed"
  <2>1. n = [m EXCEPT !.state = "down", !.count = wait]
    BY <1>3 DEF T_PlatRaise, wait
  <2>. QED  BY <1>1, <1>2, <2>1, ChangedGoes
<1>4. CASE m.state = "up" /\ r = "pastdest"
  <2>1. n = [m EXCEPT !.state = "waiting", !.count = Wait] \/ n = Removed(m)
    BY <1>4 DEF T_PlatRaise
  <2>. QED  BY <1>10, <2>1
<1>5. CASE m.state = "down" /\ r = "pastdest"
  <2>1. n = [m EXCEPT !.state = "waiting", !.count = wait]
    BY <1>5 DEF T_PlatRaise, wait
  <2>. QED  BY <1>1, <1>2, <2>1, ChangedGoes
<1>6. CASE m.state = "waiting"
  <2>1. (\E s \in {"up", "down"} : n = [Counted(m) EXCEPT !.state = s]) \/ n = Counted(m)
    BY <1>6 DEF T_PlatRaise
  <2>2. CASE n = Counted(m)
    BY <2>2, RemovedIs
  <2>3. ASSUME NEW s \in {"up", "down"}, n = [Counted(m) EXCEPT !.state = s] PROVE Continues(m, n)
    <3>1. Counted(m) \in Mover /\ Counted(m).function = "runs" /\ Continues(m, Counted(m)) /\ s \in States
      BY RemovedIs DEF States
    <3>. QED  BY <2>3, <3>1 DEF Continues, Mover
  <2>. QED  BY <2>1, <2>2, <2>3
<1>7. CASE ~(m.state = "up" /\ r = "crushed") /\ ~(m.state = "up" /\ r = "pastdest")
           /\ ~(m.state = "down" /\ r = "pastdest") /\ ~(m.state = "waiting")
  <2>1. n = m
    BY <1>7 DEF T_PlatRaise
  <2>. QED  BY <2>1, RemovedIs
<1>. QED  BY <1>3, <1>4, <1>5, <1>6, <1>7

(* Doors.                                                                  *)
LEMMA DoorGoes ==
    ASSUME NEW m \in Mover, m.function = "runs", m.state # "stasis", NEW r, NEW n \in T_VerticalDoor(m, r)
    PROVE  Continues(m, n)
<1>1. /\ \A s \in {"up", "down", "waiting", "initial"} : s \in States \ {"stasis"}
      /\ 0 \in -1 .. Wait /\ Wait \in -1 .. Wait
  BY RemovedIs DEF States
<1>10. Continues(m, [m EXCEPT !.state = "waiting", !.count = Wait]) /\ Continues(m, Removed(m)) /\ Continues(m, m)
  BY <1>1, ChangedGoes, RemovedIs
<1>. DEFINE c == Counted(m)
<1>2. c \in Mover /\ c.function = "runs" /\ Continues(m, c) /\ c.state # "stasis" /\ c.state \in States
  <2>1. c \in Mover /\ c.function = "runs" /\ Continues(m, c)
    BY RemovedIs
  <2>. HIDE DEF c
  <2>. QED  BY <2>1 DEF Continues, Mover
<1>3. CASE m.state \in {"waiting", "initial"} /\ c.count # 0
  <2>1. n = c
    BY <1>3 DEF T_VerticalDoor
  <2>. QED  BY <1>2, <2>1
<1>4. CASE m.state = "waiting" /\ ~(c.count # 0)
  <2>1. \E s \in {"up", "down", c.state} : n = [c EXCEPT !.state = s]
    BY <1>4 DEF T_VerticalDoor
  <2>. HIDE DEF c
  <2>2. PICK s \in {"up", "down", c.state} : n = [c EXCEPT !.state = s]
    BY <2>1
  <2>3. s \in States \ {"stasis"}
    BY <1>1, <1>2
  <2>. QED  BY <1>2, <2>2, <2>3 DEF Continues, Mover
<1>5. CASE m.state = "initial" /\ ~(c.count # 0)
  <2>1. \E s \in {"up", c.state}, t \in {"normal", c.type} : n = [c EXCEPT !.state = s, !.type = t]
    <3>1. n = [c EXCEPT !.state = IF m.type = "raiseIn5Mins" THEN "up" ELSE @, !.type = IF @ = "raiseIn5Mins" THEN "normal" ELSE @]
      BY <1>5 DEF T_VerticalDoor
    <3>. HIDE DEF c
    <3>2. n = [c EXCEPT !.state = IF m.type = "raiseIn5Mins" THEN "up" ELSE c.state,
                        !.type = IF c.type = "raiseIn5Mins" THEN "normal" ELSE c.type]
      BY <3>1
    <3>. QED  BY <3>2
  <2>. HIDE DEF c
  <2>2. PICK s \in {"up", c.state}, t \in {"normal", c.type} : n = [c EXCEPT !.state = s, !.type = t]
    BY <2>1
  <2>3. s \in States \ {"stasis"} /\ t \in Types
    BY <1>1, <1>2 DEF Mover, Types
  <2>. QED  BY <1>2, <2>2, <2>3 DEF Continues, Mover
<1>6. CASE m.state = "down" /\ r = "pastdest"
  <2>1. n = Removed(m) \/ n = [m EXCEPT !.state = "waiting", !.count = Wait] \/ n = m
    BY <1>6 DEF T_VerticalDoor
  <2>. QED  BY <1>10, <2>1
<1>7. CASE m.state = "down" /\ r = "crushed"
  <2>1. n = m \/ n = [m EXCEPT !.state = "up"]
    BY <1>7 DEF T_VerticalDoor
  <2>. QED  BY <1>1, <2>1, ChangedGoes, RemovedIs
<1>8. CASE m.state = "up" /\ r = "pastdest"
  <2>1. n = Removed(m) \/ n = [m EXCEPT !.state = "waiting", !.count = Wait] \/ n = m
    BY <1>8 DEF T_VerticalDoor
  <2>. QED  BY <1>10, <2>1
<1>9. CASE ~(m.state \in {"waiting", "initial"}) /\ ~(m.state = "down" /\ r = "pastdest")
           /\ ~(m.state = "down" /\ r = "crushed") /\ ~(m.state = "up" /\ r = "pastdest")
  <2>1. n = m
    BY <1>9 DEF T_VerticalDoor
  <2>. QED  BY <2>1, RemovedIs
<1>. HIDE DEF c
<1>. QED  BY <1>3, <1>4, <1>5, <1>6, <1>7, <1>8, <1>9

(* All of them.                                                            *)
LEMMA CalledGoes ==
    ASSUME NEW id, mover[id] \in Mover, mover[id].function = "runs", mover[id].state # "stasis", NEW r, NEW n \in Called(id, r)
    PROVE  Continues(mover[id], n)
<1>. DEFINE m == mover[id]
<1>1. m.kind \in {"plat", "door", "floor", "ceiling"}
  BY DEF Mover
<1>2. CASE m.kind = "plat"
  BY <1>2, PlatGoes DEF Called
<1>3. CASE m.kind = "door"
  BY <1>3, DoorGoes DEF Called
<1>4. CASE m.kind = "floor"
  <2>1. n = Removed(m) \/ n = m
    BY <1>4 DEF Called, T_MoveFloor
  <2>. QED  BY <2>1, RemovedIs
<1>5. CASE m.kind = "ceiling"
  <2>1. n = Removed(m) \/ n = m \/ n = [m EXCEPT !.state = "down"] \/ n = [m EXCEPT !.state = "up"]
    <3>1. n \in T_MoveCeiling(m, r, \E k \in DOMAIN activeceilings : activeceilings[k] = id)
      BY <1>5 DEF Called
    <3>. HIDE DEF m
    <3>. QED  BY <3>1 DEF T_MoveCeiling
  <2>2. "down" \in States \ {"stasis"} /\ "up" \in States \ {"stasis"} /\ 0 \in -1 .. Wait
    BY RemovedIs DEF States
  <2>3. Continues(m, m) /\ Continues(m, Removed(m))
    BY RemovedIs
  <2>4. Continues(m, [m EXCEPT !.state = "down"])
    BY <2>2, ChangedGoes
  <2>5. Continues(m, [m EXCEPT !.state = "up"])
    BY <2>2, ChangedGoes
  <2>6. Continues(m, n)
    <3>. HIDE DEF m
    <3>. QED  BY <2>1, <2>3, <2>4, <2>5
  <2>. QED  BY <2>6
<1>. QED  BY <1>1, <1>2, <1>3, <1>4, <1>5

-----------------------------------------------------------------------------
(* The list is run.                                                        *)

(* The one that runs is on the list.                                       *)
LEMMA RunningIs ==
    ASSUME Now, Running
    PROVE  /\ current \in 1 .. Len(thinkers) /\ thinkers[current] \in Range(thinkers) /\ thinkers[current] \in 1 .. Memory
           /\ mover[thinkers[current]] \in Mover
<1>1. thinkers \in [1 .. Len(thinkers) -> 1 .. Memory]
  BY AliveIs, LenProperties DEF List
<1>2. current \in 1 .. Len(thinkers)
  BY DEF Running
<1>3. thinkers[current] \in Range(thinkers)
  BY <1>1, <1>2 DEF Range
<1>. QED  BY <1>1, <1>2, <1>3, AliveIs

(* A thinker is called.                                                    *)
LEMMA RunKeeps ==
    ASSUME MoversInv, ~stopped, RunThinker
    PROVE  InPlace(thinkers, mover, specialdata, activeplats, activeceilings, stopped)'
<1>. DEFINE id == thinkers[current]
<1>0. Now
  BY NowIs
<1>1. id \in Range(thinkers) /\ id \in 1 .. Memory /\ mover[id] \in Mover /\ mover[id].function = "runs"
  BY <1>0, RunningIs DEF RunThinker
<1>2. id \in Alive(thinkers, mover)
  BY <1>1 DEF Alive
<1>3. Fine(mover[id]) /\ mover[id].state # "stasis"
  BY <1>0, <1>1, <1>2, AliveIs DEF Fine
<1>4. PICK r \in Results : \E m \in Called(id, r) :
        /\ mover' = [mover EXCEPT ![id] = m]
        /\ specialdata' = Cleared(m)
        /\ IF m.function = "removed"
           THEN activeplats' = Without(activeplats, id) /\ activeceilings' = Without(activeceilings, id)
           ELSE UNCHANGED <<activeplats, activeceilings>>
        /\ stopped' = (m.function = "removed" /\ m.kind = "plat" /\ ~\E k \in DOMAIN activeplats : activeplats[k] = id)
  BY DEF RunThinker
<1>5. PICK m \in Called(id, r) :
        /\ mover' = [mover EXCEPT ![id] = m]
        /\ specialdata' = Cleared(m)
        /\ IF m.function = "removed"
           THEN activeplats' = Without(activeplats, id) /\ activeceilings' = Without(activeceilings, id)
           ELSE UNCHANGED <<activeplats, activeceilings>>
        /\ stopped' = (m.function = "removed" /\ m.kind = "plat" /\ ~\E k \in DOMAIN activeplats : activeplats[k] = id)
  BY <1>4
<1>6. thinkers' = thinkers
  BY DEF RunThinker
<1>. HIDE DEF id
<1>7. Continues(mover[id], m)
  BY <1>1, <1>3, CalledGoes
<1>8. CASE m.function = "removed"
  <2>1. m \in Mover /\ m.sector = mover[id].sector /\ m.kind = mover[id].kind
    BY <1>7 DEF Continues
  <2>2. InPlace(thinkers, [mover EXCEPT ![id] = m], [specialdata EXCEPT ![m.sector] = Nobody],
                Without(activeplats, id), Without(activeceilings, id), FALSE)
    BY <1>0, <1>2, <1>8, <2>1, DyingKeeps DEF Now
  <2>3. InPlace(thinkers', mover', specialdata', activeplats', activeceilings', FALSE)
    BY <1>5, <1>6, <1>8, <2>2 DEF Cleared
  <2>4. stopped' \in BOOLEAN
    BY <1>5
  <2>5. ASSUME Memory <= MaxCeilings PROVE stopped' = FALSE
    <3>1. Complete(thinkers, mover, MaxPlats, activeplats, "plat") /\ DOMAIN activeplats = 1 .. MaxPlats
      BY <1>0, <2>5 DEF Now, InPlace, Placed, Shape
    <3>2. m.kind = "plat" => \E k \in DOMAIN activeplats : activeplats[k] = id
      BY <1>2, <2>1, <3>1 DEF Complete
    <3>. QED  BY <1>5, <3>2
  <2>. QED  BY <2>3, <2>4, <2>5 DEF InPlace
<1>9. CASE m.function # "removed"
  <2>1. m \in Mover /\ m.kind = mover[id].kind /\ m.sector = mover[id].sector /\ m.function = "runs" /\ m.state # "stasis"
    BY <1>7, <1>9 DEF Continues
  <2>2. Stays(mover[id], m)
    BY <1>3, <2>1 DEF Stays, Fine
  <2>. DEFINE new == [mover EXCEPT ![id] = m]
  <2>3. /\ DOMAIN new = 1 .. Memory /\ new = [i \in DOMAIN new |-> new[i]]
        /\ new[id] = m /\ \A i \in 1 .. Memory : i # id => new[i] = mover[i]
    <3>1. mover \in [1 .. Memory -> Mover]
      BY <1>0, AliveIs
    <3>. QED  BY <1>1, <3>1
  <2>. HIDE DEF new
  <2>4. Altered(thinkers, mover, new)
    BY <1>0, <1>2, <2>2, <2>3, StaysAlters
  <2>5. InPlace(thinkers, new, specialdata, activeplats, activeceilings, FALSE)
    BY <1>0, <2>4, AlteredKeeps DEF Now
  <2>. QED  BY <1>5, <1>6, <1>9, <2>5 DEF Cleared, new
<1>. QED  BY <1>8, <1>9

(* A thinker is freed.                                                     *)
LEMMA FreeKeeps ==
    ASSUME MoversInv, ~stopped, FreeThinker
    PROVE  /\ InPlace(thinkers, mover, specialdata, activeplats, activeceilings, stopped)'
           /\ current' = current /\ current \in 1 .. Len(thinkers') + 1
<1>0. Now /\ stopped = FALSE
  BY NowIs DEF MoversInv, InPlace
<1>1. current \in 1 .. Len(thinkers) /\ mover[thinkers[current]].function = "removed"
  BY <1>0, RunningIs DEF FreeThinker
<1>2. NoMover \in Mover
  <2>1. Sectors \in SUBSET Nat /\ Sectors # {} /\ Wait \in Nat
    BY MoversAssumption
  <2>2. Min(Sectors) \in Sectors /\ 0 \in -1 .. Wait
    BY <2>1, MinIs
  <2>. QED  BY <2>2 DEF NoMover, Made, Mover, Types, States
<1>3. InPlace(RemoveAt(thinkers, current), [mover EXCEPT ![thinkers[current]] = NoMover], specialdata,
              activeplats, activeceilings, FALSE)
  BY <1>0, <1>1, <1>2, RemovalKeeps DEF Now
<1>4. InPlace(thinkers', mover', specialdata', activeplats', activeceilings', stopped')
  BY <1>0, <1>3 DEF FreeThinker
<1>5. Len(thinkers') = Len(thinkers) - 1 /\ Len(thinkers) \in Nat
  BY <1>0, <1>1, AliveIs, RemovalIs, LenProperties DEF FreeThinker, List
<1>. QED  BY <1>1, <1>4, <1>5 DEF FreeThinker

-----------------------------------------------------------------------------
(* Levels.                                                                 *)

(* There is nothing yet.                                                   *)
LEMMA NothingYet == InPlace(<<>>, NoMovers, [s \in Sectors |-> Nobody], Empty(MaxPlats), Empty(MaxCeilings), FALSE)
<1>1. MaxPlats \in Nat /\ MaxCeilings \in Nat /\ Memory \in Nat /\ 0 \in 0 .. Memory
  BY MoversAssumption
<1>2. NoMover \in Mover
  <2>1. Sectors \in SUBSET Nat /\ Sectors # {} /\ Wait \in Nat
    BY MoversAssumption
  <2>2. Min(Sectors) \in Sectors /\ 0 \in -1 .. Wait
    BY <2>1, MinIs
  <2>. QED  BY <2>2 DEF NoMover, Made, Mover, Types, States
<1>3. List(<<>>) /\ Range(<<>>) = {}
  BY EmptySeq DEF List, IsInjective, Range
<1>4. Shape(<<>>, NoMovers, [s \in Sectors |-> Nobody], Empty(MaxPlats), Empty(MaxCeilings))
  BY <1>1, <1>2, <1>3 DEF Shape, NoMovers, Empty, Nobody
<1>5. \A contents : Alive(<<>>, contents) = {}
  BY <1>3 DEF Alive
<1>6. Pointed(<<>>, NoMovers, [s \in Sectors |-> Nobody])
  BY DEF Pointed
<1>7. Listed(<<>>, NoMovers, MaxPlats, Empty(MaxPlats), "plat") /\ Listed(<<>>, NoMovers, MaxCeilings, Empty(MaxCeilings), "ceiling")
  BY DEF Listed, Empty
<1>8. AllFine(<<>>, NoMovers) /\ Placed(<<>>, NoMovers, Empty(MaxPlats), Empty(MaxCeilings), FALSE)
  BY <1>5 DEF AllFine, Placed, Complete
<1>. QED  BY <1>4, <1>6, <1>7, <1>8 DEF InPlace

(* A level is set up.                                                      *)
LEMMA SetupKeeps ==
    ASSUME NEW recs, Fresh(recs), NEW spent \in SUBSET DOMAIN Lines, Setup(recs, spent)
    PROVE  MoversInv'
<1>1. InPlace(thinkers, mover, specialdata, activeplats, activeceilings, stopped)' /\ List(thinkers')
  <2>1. Spawn(recs, <<>>, NoMovers, [s \in Sectors |-> Nobody], Empty(MaxPlats), Empty(MaxCeilings))
    BY DEF Setup
  <2>2. InPlace(thinkers, mover, specialdata, activeplats, activeceilings, stopped)'
    BY <2>1, NothingYet, SpawnKeeps
  <2>. QED  BY <2>2 DEF InPlace, Shape
<1>2. current' = 0 /\ used' = spent /\ Len(thinkers') \in Nat
  BY <1>1, LenProperties DEF Setup, List
<1>. QED  BY <1>1, <1>2 DEF MoversInv

(* The doors that rise later can be made.                                  *)
LEMMA TimedIsFresh == Fresh(Timed)
<1>1. Timed \in Seq(Mover) /\ Len(Timed) = Cardinality(DoorIn5)
  BY TimedIs, NumberedIsSeq
<1>. QED  BY <1>1, TimedIs, SoundIsFresh

(* So can what was saved.                                                  *)
LEMMA SavedIsFresh ==
    ASSUME Now,
           NEW saved, saved = InOrder({i \in DOMAIN thinkers : Archived(thinkers[i])})
    PROVE  Fresh([i \in DOMAIN saved |-> mover[thinkers[saved[i]]]])
<1>. DEFINE S == {i \in DOMAIN thinkers : Archived(thinkers[i])}
            n == Cardinality(S)
            recs == [i \in DOMAIN saved |-> mover[thinkers[saved[i]]]]
<1>1. Len(thinkers) \in Nat /\ thinkers \in [1 .. Len(thinkers) -> 1 .. Memory]
  BY AliveIs, LenProperties DEF List
<1>2. S \in SUBSET (1 .. Len(thinkers))
  BY <1>1
<1>3. IsFiniteSet(S) /\ S \in SUBSET Nat
  <2>1. IsFiniteSet(1 .. Len(thinkers))
    BY <1>1, FS_Interval
  <2>. QED  BY <1>1, <1>2, <2>1, FS_Subset
<1>4. \A i \in S : Archived(thinkers[i])
  OBVIOUS
<1>. HIDE DEF S
<1>5. n \in Nat /\ saved \in [1 .. n -> S]
  BY <1>3, InOrderIs DEF S
<1>6. ASSUME NEW i \in S PROVE Sound(mover[thinkers[i]])
  <2>. DEFINE id == thinkers[i]
  <2>1. id \in Range(thinkers) /\ Archived(id)
    BY <1>1, <1>2, <1>4 DEF Range
  <2>. HIDE DEF id
  <2>2. mover[id].function # "removed"
    BY <2>1 DEF Archived
  <2>3. id \in Alive(thinkers, mover)
    BY <2>1, <2>2 DEF Alive
  <2>4. mover[id] \in Mover /\ Fine(mover[id]) /\ id \in 1 .. Memory
    BY <2>3, AliveIs
  <2>5. ASSUME mover[id].state = "stasis" PROVE mover[id].kind = "ceiling"
    <3>1. mover[id].function = "null"
      BY <2>4, <2>5 DEF Fine
    <3>2. PICK k \in DOMAIN activeceilings : activeceilings[k] = id
      BY <2>1, <3>1 DEF Archived
    <3>3. id # Nobody
      BY <2>4 DEF Nobody
    <3>. QED  BY <3>2, <3>3 DEF Now, InPlace, Shape, Listed
  <2>. QED  BY <2>2, <2>4, <2>5 DEF id, Sound
<1>. HIDE DEF n
<1>7. recs \in [1 .. n -> Mover] /\ \A i \in 1 .. n : Sound(recs[i])
  <2>1. \A i \in 1 .. n : recs[i] = mover[thinkers[saved[i]]] /\ saved[i] \in S
    BY <1>5
  <2>2. \A i \in 1 .. n : Sound(recs[i])
    BY <1>6, <2>1
  <2>. QED  BY <1>5, <2>2 DEF Sound
<1>. HIDE DEF recs
<1>8. recs \in Seq(Mover) /\ Len(recs) = n
  BY <1>5, <1>7, NumberedIsSeq
<1>9. Fresh(recs)
  BY <1>7, <1>8, SoundIsFresh
<1>. QED  BY <1>9 DEF recs

(* The first level.                                                        *)
LEMMA InitIsInPlace == MoversInit => MoversInv
<1>. SUFFICES ASSUME MoversInit PROVE MoversInv
  OBVIOUS
<1>. DEFINE n == Cardinality(DoorIn5)
<1>1. /\ n \in Nat /\ n <= Memory /\ Timed \in [1 .. n -> Mover] /\ DOMAIN Timed = 1 .. n
      /\ \A i \in 1 .. n : Sound(Timed[i]) /\ Timed[i].kind = "door" /\ i \in 1 .. Memory
      /\ \A s \in DoorIn5 : \E i \in 1 .. n : Timed[i].sector = s
  BY TimedIs, MoversAssumption
<1>. HIDE DEF n
<1>2. /\ thinkers = [i \in 1 .. n |-> i]
      /\ mover = [id \in 1 .. Memory |-> IF id \in 1 .. n THEN Timed[id] ELSE NoMover]
      /\ specialdata = [s \in Sectors |-> IF s \in DoorIn5 THEN CHOOSE i \in 1 .. n : Timed[i].sector = s ELSE Nobody]
      /\ activeplats = Empty(MaxPlats) /\ activeceilings = Empty(MaxCeilings)
      /\ current = 0 /\ used = {} /\ stopped = FALSE
  BY <1>1 DEF MoversInit
<1>3. List(thinkers) /\ Range(thinkers) = 1 .. n /\ Len(thinkers) = n
  <2>1. thinkers \in [1 .. n -> 1 .. Memory] /\ DOMAIN thinkers = 1 .. n /\ \A i \in 1 .. n : thinkers[i] = i
    BY <1>1, <1>2
  <2>2. thinkers \in Seq(1 .. Memory) /\ Len(thinkers) = n
    BY <1>1, <2>1, NumberedIsSeq
  <2>3. IsInjective(thinkers)
    BY <2>1 DEF IsInjective
  <2>4. Range(thinkers) = 1 .. n
    BY <2>1 DEF Range
  <2>. QED  BY <2>2, <2>3, <2>4 DEF List
<1>4. \A id \in 1 .. n : mover[id] = Timed[id]
  BY <1>1, <1>2
<1>5. Alive(thinkers, mover) = 1 .. n
  BY <1>1, <1>3, <1>4 DEF Alive, Sound
<1>6. MaxPlats \in Nat /\ MaxCeilings \in Nat /\ Memory \in Nat /\ 0 \in 0 .. Memory /\ DoorIn5 \subseteq Sectors
  BY MoversAssumption
<1>7. NoMover \in Mover
  <2>1. Sectors \in SUBSET Nat /\ Sectors # {} /\ Wait \in Nat
    BY MoversAssumption
  <2>2. Min(Sectors) \in Sectors /\ 0 \in -1 .. Wait
    BY <2>1, MinIs
  <2>. QED  BY <2>2 DEF NoMover, Made, Mover, Types, States
<1>8. ASSUME NEW s \in Sectors, specialdata[s] # Nobody PROVE specialdata[s] \in 1 .. n /\ Timed[specialdata[s]].sector = s
  BY <1>1, <1>2, <1>8
<1>9. specialdata \in [Sectors -> 0 .. Memory]
  <2>1. ASSUME NEW s \in Sectors PROVE specialdata[s] \in 0 .. Memory
    BY <1>1, <1>6, <1>8 DEF Nobody
  <2>. QED  BY <1>2, <2>1
<1>10. mover \in [1 .. Memory -> Mover]
  BY <1>1, <1>2, <1>7
<1>11. Empty(MaxPlats) \in [1 .. MaxPlats -> 0 .. Memory] /\ Empty(MaxCeilings) \in [1 .. MaxCeilings -> 0 .. Memory]
  BY <1>6 DEF Empty, Nobody
<1>12. Shape(thinkers, mover, specialdata, activeplats, activeceilings)
  BY <1>2, <1>3, <1>9, <1>10, <1>11 DEF Shape
<1>13. Pointed(thinkers, mover, specialdata)
  BY <1>4, <1>5, <1>8 DEF Pointed
<1>14. Listed(thinkers, mover, MaxPlats, activeplats, "plat") /\ Listed(thinkers, mover, MaxCeilings, activeceilings, "ceiling")
  BY <1>2 DEF Listed, Empty
<1>15. AllFine(thinkers, mover)
  BY <1>1, <1>4, <1>5 DEF AllFine, Sound
<1>16. Placed(thinkers, mover, activeplats, activeceilings, FALSE)
  <2>1. \A id \in Alive(thinkers, mover) : mover[id].kind = "door" /\ mover[id].state # "stasis"
    BY <1>1, <1>4, <1>5 DEF Sound
  <2>. QED  BY <2>1 DEF Placed, Complete
<1>17. InPlace(thinkers, mover, specialdata, activeplats, activeceilings, stopped)
  BY <1>2, <1>12, <1>13, <1>14, <1>15, <1>16 DEF InPlace
<1>. QED  BY <1>1, <1>2, <1>3, <1>17 DEF MoversInv

-----------------------------------------------------------------------------
(* Every step keeps the invariant.                                         *)
LEMMA StepKeepsPlaces == MoversInv /\ [MoversNext]_moverVars => MoversInv'
<1>. SUFFICES ASSUME MoversInv, [MoversNext]_moverVars PROVE MoversInv'
  OBVIOUS
<1>. DEFINE Place == InPlace(thinkers, mover, specialdata, activeplats, activeceilings, stopped)
<1>1. Place /\ current \in 0 .. Len(thinkers) + 1 /\ used \subseteq DOMAIN Lines /\ Len(thinkers) \in Nat
  <2>1. List(thinkers)
    BY DEF MoversInv, InPlace, Shape
  <2>. QED  BY <2>1, LenProperties DEF MoversInv, List
<1>2. ASSUME UNCHANGED <<thinkers, mover, specialdata, activeplats, activeceilings, stopped>>
      PROVE  Place' /\ thinkers' = thinkers
  BY <1>1, <1>2
<1>. HIDE DEF Place
<1>3. CASE UNCHANGED moverVars
  BY <1>1, <1>2, <1>3 DEF moverVars, MoversInv, Place
<1>4. CASE StartTic
  <2>1. Len(thinkers) >= 1
    <3>1. thinkers \in Seq(1 .. Memory) /\ thinkers # <<>>
      BY <1>1, <1>4 DEF StartTic, Place, InPlace, Shape, List
    <3>. QED  BY <1>1, <3>1, EmptySeq, LenProperties
  <2>. QED  BY <1>1, <1>2, <1>4, <2>1 DEF StartTic, MoversInv, Place
<1>5. CASE EndTic
  BY <1>1, <1>2, <1>5 DEF EndTic, MoversInv, Place
<1>6. CASE SkipThinker
  BY <1>1, <1>2, <1>6 DEF SkipThinker, Running, MoversInv, Place
<1>7. CASE ~stopped /\ FreeThinker
  <2>1. Place' /\ current' = current /\ current \in 1 .. Len(thinkers') + 1 /\ used' = used
    BY <1>7, FreeKeeps DEF FreeThinker, Place
  <2>2. Len(thinkers') \in Nat
    BY <1>7, FreeKeeps, LenProperties DEF InPlace, Shape, List
  <2>. QED  BY <1>1, <2>1, <2>2 DEF MoversInv, Place
<1>8. CASE ~stopped /\ RunThinker
  <2>1. Place' /\ current' = current + 1 /\ thinkers' = thinkers /\ used' = used /\ current \in 1 .. Len(thinkers)
    BY <1>8, RunKeeps DEF RunThinker, Running, Place
  <2>. QED  BY <1>1, <2>1 DEF MoversInv, Place
<1>9. ASSUME ~stopped, NEW l \in DOMAIN Lines, P_CrossSpecialLine(l) \/ P_UseSpecialLine(l) PROVE MoversInv'
  <2>1. Event(l) /\ current' = current /\ used' \subseteq DOMAIN Lines
    BY <1>1, <1>9 DEF P_CrossSpecialLine, P_UseSpecialLine, Triggers, Spent
  <2>2. Then
    BY <1>9, <2>1, EventKeeps
  <2>3. Len(thinkers') \in Nat
    BY <2>2, LenProperties DEF Then, InPlace, Shape, List
  <2>. QED  BY <1>1, <2>1, <2>2, <2>3 DEF Then, MoversInv
<1>10. CASE NewLevel
  BY <1>10, SetupKeeps, TimedIsFresh DEF NewLevel
<1>11. CASE ~stopped /\ SaveAndLoad
  <2>. DEFINE saved == InOrder({i \in DOMAIN thinkers : Archived(thinkers[i])})
              recs == [i \in DOMAIN saved |-> mover[thinkers[saved[i]]]]
  <2>1. Setup(recs, used)
    BY <1>11 DEF SaveAndLoad
  <2>2. Fresh(recs)
    BY <1>11, NowIs, SavedIsFresh
  <2>. HIDE DEF recs
  <2>. QED  BY <1>1, <2>1, <2>2, SetupKeeps
<1>. QED  BY <1>3, <1>4, <1>5, <1>6, <1>7, <1>8, <1>9, <1>10, <1>11 DEF MoversNext

(* The properties follow from it.                                          *)
LEMMA PlacesMean == MoversInv => MoversTypeOK /\ NoDangling /\ Revivable
<1>. SUFFICES ASSUME MoversInv PROVE MoversTypeOK /\ NoDangling /\ Revivable
  OBVIOUS
<1>1. InPlace(thinkers, mover, specialdata, activeplats, activeceilings, stopped)
  BY DEF MoversInv
<1>2. /\ List(thinkers) /\ mover \in [1 .. Memory -> Mover] /\ specialdata \in [Sectors -> 0 .. Memory]
      /\ activeplats \in [1 .. MaxPlats -> 0 .. Memory] /\ activeceilings \in [1 .. MaxCeilings -> 0 .. Memory]
  BY <1>1 DEF InPlace, Shape
<1>3. Living = Alive(thinkers, mover)
  BY DEF Living, Alive
<1>4. MoversTypeOK
  <2>1. thinkers \in [1 .. Len(thinkers) -> 1 .. Memory]
    BY <1>2, LenProperties DEF List
  <2>2. Range(thinkers) \subseteq 1 .. Memory
    BY <2>1 DEF Range
  <2>. QED  BY <1>2, <2>2 DEF MoversTypeOK, MoversInv, List
<1>5. NoDangling
  BY <1>1, <1>3 DEF NoDangling, InPlace, Pointed
<1>6. Revivable
  <2>. SUFFICES ASSUME Memory <= MaxCeilings
                PROVE  /\ \A kind \in {"plat", "ceiling"} : \A k \in DOMAIN Active(kind) :
                              Active(kind)[k] # Nobody => Active(kind)[k] \in Living /\ mover[Active(kind)[k]].kind = kind
                       /\ \A id \in Living :
                              /\ mover[id].kind \in {"plat", "ceiling"} /\ ~stopped =>
                                     Cardinality(PlacesOf(Active(mover[id].kind), id)) = 1
                              /\ mover[id].function = "null" <=> mover[id].state = "stasis"
                              /\ mover[id].state = "stasis" => PlacesOf(Active(mover[id].kind), id) # {}
                       /\ stopped => PlacesOf(activeplats, Nobody) = {}
    BY DEF Revivable
  <2>1. Placed(thinkers, mover, activeplats, activeceilings, stopped)
    BY <1>1 DEF InPlace
  <2>2. /\ Listed(thinkers, mover, MaxPlats, activeplats, "plat")
        /\ Listed(thinkers, mover, MaxCeilings, activeceilings, "ceiling")
    BY <1>1 DEF InPlace
  <2>3. Active("plat") = activeplats /\ Active("ceiling") = activeceilings
    BY DEF Active
  <2>4. DOMAIN activeplats = 1 .. MaxPlats /\ DOMAIN activeceilings = 1 .. MaxCeilings
    BY <1>2
  <2>5. ASSUME NEW kind \in {"plat", "ceiling"}, NEW k \in DOMAIN Active(kind), Active(kind)[k] # Nobody
        PROVE  Active(kind)[k] \in Living /\ mover[Active(kind)[k]].kind = kind
    BY <1>3, <2>2, <2>3, <2>4, <2>5 DEF Listed
  <2>6. ASSUME NEW id \in Living
        PROVE  id # Nobody /\ Fine(mover[id])
    BY <1>1, <1>2, <1>3, AliveIsMemory DEF InPlace, AllFine
  <2>7. ASSUME NEW id \in Living, mover[id].kind \in {"plat", "ceiling"}, ~stopped
        PROVE  Cardinality(PlacesOf(Active(mover[id].kind), id)) = 1
    <3>. DEFINE kind == mover[id].kind
                P == PlacesOf(Active(kind), id)
    <3>0. /\ Complete(thinkers, mover, MaxPlats, activeplats, "plat")
          /\ Complete(thinkers, mover, MaxCeilings, activeceilings, "ceiling")
      BY <2>1, <2>7 DEF Placed
    <3>1. \E k \in DOMAIN Active(kind) : Active(kind)[k] = id
      BY <1>3, <2>3, <2>4, <2>7, <3>0 DEF Complete
    <3>2. \A k, l \in DOMAIN Active(kind) : Active(kind)[k] = id /\ Active(kind)[l] = id => k = l
      <4>1. id # Nobody
        BY <2>6, <2>7
      <4>2. CASE kind = "plat"
        <5>1. Active(kind) = activeplats
          BY <4>2 DEF Active
        <5>2. \A k, l \in 1 .. MaxPlats : activeplats[k] = activeplats[l] /\ activeplats[k] # Nobody => k = l
          BY <2>2 DEF Listed
        <5>. QED  BY <2>4, <4>1, <5>1, <5>2
      <4>3. CASE kind = "ceiling"
        <5>1. Active(kind) = activeceilings
          BY <4>3 DEF Active
        <5>2. \A k, l \in 1 .. MaxCeilings : activeceilings[k] = activeceilings[l] /\ activeceilings[k] # Nobody => k = l
          BY <2>2 DEF Listed
        <5>. QED  BY <2>4, <4>1, <5>1, <5>2
      <4>. QED  BY <2>7, <4>2, <4>3
    <3>3. PICK k \in DOMAIN Active(kind) : P = {k}
      BY <3>1, <3>2 DEF PlacesOf
    <3>. HIDE DEF P
    <3>4. Cardinality(P) = 1
      BY <3>3, FS_Singleton
    <3>. QED  BY <3>4 DEF P
  <2>8. ASSUME NEW id \in Living PROVE mover[id].function = "null" <=> mover[id].state = "stasis"
    BY <2>6 DEF Fine
  <2>9. ASSUME NEW id \in Living, mover[id].state = "stasis" PROVE PlacesOf(Active(mover[id].kind), id) # {}
    <3>1. \/ mover[id].kind = "plat" /\ \E k \in 1 .. MaxPlats : activeplats[k] = id
          \/ mover[id].kind = "ceiling" /\ \E k \in 1 .. MaxCeilings : activeceilings[k] = id
      BY <1>3, <2>1, <2>3, <2>4, <2>9 DEF Placed
    <3>2. DOMAIN activeplats = 1 .. MaxPlats /\ DOMAIN activeceilings = 1 .. MaxCeilings
      BY <2>4
    <3>3. CASE mover[id].kind = "plat"
      BY <3>1, <3>2, <3>3 DEF PlacesOf, Active
    <3>4. CASE mover[id].kind = "ceiling"
      BY <3>1, <3>2, <3>4 DEF PlacesOf, Active
    <3>. QED  BY <3>1, <3>3, <3>4
  <2>10. stopped => PlacesOf(activeplats, Nobody) = {}
    BY <2>1, <2>4 DEF Placed, PlacesOf
  <2>. QED  BY <2>5, <2>7, <2>8, <2>9, <2>10
<1>. QED  BY <1>4, <1>5, <1>6

(* The invariant holds in every state.                                     *)
LEMMA AllInPlace == MoversSpec => []MoversInv
BY InitIsInPlace, StepKeepsPlaces, PTL DEF MoversSpec

(* Type correctness of the list, the memory and the sectors of a level.    *)
THEOREM MoversTypes == MoversSpec => []MoversTypeOK
BY AllInPlace, PlacesMean, PTL

(* Wherever a tic, a line, a new level or a load comes in between: what a  *)
(* sector's specialdata points at is a mover of that sector on the list,   *)
(* not one that was freed or is about to be.                               *)
THEOREM NothingDangles == MoversSpec => []NoDangling
BY AllInPlace, PlacesMean, PTL

(* As long as there can be no more of them than the array of ceilings      *)
(* holds: the arrays of plats and ceilings have every one that lives, once *)
(* and nothing else, so that what was stopped can be set going again.      *)
THEOREM StoppedCanGoOn == MoversSpec => []Revivable
BY AllInPlace, PlacesMean, PTL

-----------------------------------------------------------------------------
(* The player's weapons.                                                   *)

Routines == {"none", "Fire", "FireCGun", "ReFire", "CheckReload"}
Attacks(w, s, n) ==
    /\ n = Len(s) /\ n \in 2 .. 7
    /\ \A j \in 1 .. n :
           /\ s[j] \in Routines
           /\ s[j] = "Fire" => j = 1 \/ (j = 2 /\ s[1] = "none")
           /\ s[j] = "FireCGun" => w = "chaingun"
    /\ s[1] \in {"none", "Fire", "FireCGun"}

(* What attacks are made of: they begin with a state that does nothing or  *)
(* fires at once; nothing but a chain gun fires without the look that was  *)
(* taken when the trigger was pulled, and that was one state before.       *)
LEMMA AttackOf == ASSUME NEW w \in Weapons PROVE \E n : Attacks(w, Attack[w], n)
<1>. SUFFICES ASSUME NEW s, s = Attack[w] PROVE Attacks(w, s, Len(s))
  OBVIOUS
<1>1. CASE w = "fist"
  <2>1. s = <<"none", "ReFire">>
    BY <1>1 DEF Attack
  <2>2. /\ Len(s) = 2
        /\ s[1] = "none" /\ s[2] = "ReFire"
    BY <2>1
  <2>3. \A j \in 1 .. 2 : j = 1 \/ j = 2
    OBVIOUS
  <2>. QED  BY <1>1, <2>2, <2>3 DEF Attacks, Routines
<1>2. CASE w = "pistol"
  <2>1. s = <<"none", "Fire", "none", "ReFire">>
    BY <1>2 DEF Attack
  <2>2. /\ Len(s) = 4
        /\ s[1] = "none" /\ s[2] = "Fire" /\ s[3] = "none" /\ s[4] = "ReFire"
    BY <2>1
  <2>3. \A j \in 1 .. 4 : j = 1 \/ j = 2 \/ j = 3 \/ j = 4
    OBVIOUS
  <2>. QED  BY <1>2, <2>2, <2>3 DEF Attacks, Routines
<1>3. CASE w = "shotgun"
  <2>1. s = <<"none", "Fire", "none", "ReFire">>
    BY <1>3 DEF Attack
  <2>2. /\ Len(s) = 4
        /\ s[1] = "none" /\ s[2] = "Fire" /\ s[3] = "none" /\ s[4] = "ReFire"
    BY <2>1
  <2>3. \A j \in 1 .. 4 : j = 1 \/ j = 2 \/ j = 3 \/ j = 4
    OBVIOUS
  <2>. QED  BY <1>3, <2>2, <2>3 DEF Attacks, Routines
<1>4. CASE w = "chaingun"
  <2>1. s = <<"FireCGun", "FireCGun", "ReFire">>
    BY <1>4 DEF Attack
  <2>2. /\ Len(s) = 3
        /\ s[1] = "FireCGun" /\ s[2] = "FireCGun" /\ s[3] = "ReFire"
    BY <2>1
  <2>3. \A j \in 1 .. 3 : j = 1 \/ j = 2 \/ j = 3
    OBVIOUS
  <2>. QED  BY <1>4, <2>2, <2>3 DEF Attacks, Routines
<1>5. CASE w = "missile"
  <2>1. s = <<"none", "Fire", "ReFire">>
    BY <1>5 DEF Attack
  <2>2. /\ Len(s) = 3
        /\ s[1] = "none" /\ s[2] = "Fire" /\ s[3] = "ReFire"
    BY <2>1
  <2>3. \A j \in 1 .. 3 : j = 1 \/ j = 2 \/ j = 3
    OBVIOUS
  <2>. QED  BY <1>5, <2>2, <2>3 DEF Attacks, Routines
<1>6. CASE w = "plasma"
  <2>1. s = <<"Fire", "ReFire">>
    BY <1>6 DEF Attack
  <2>2. /\ Len(s) = 2
        /\ s[1] = "Fire" /\ s[2] = "ReFire"
    BY <2>1
  <2>3. \A j \in 1 .. 2 : j = 1 \/ j = 2
    OBVIOUS
  <2>. QED  BY <1>6, <2>2, <2>3 DEF Attacks, Routines
<1>7. CASE w = "bfg"
  <2>1. s = <<"none", "Fire", "ReFire">>
    BY <1>7 DEF Attack
  <2>2. /\ Len(s) = 3
        /\ s[1] = "none" /\ s[2] = "Fire" /\ s[3] = "ReFire"
    BY <2>1
  <2>3. \A j \in 1 .. 3 : j = 1 \/ j = 2 \/ j = 3
    OBVIOUS
  <2>. QED  BY <1>7, <2>2, <2>3 DEF Attacks, Routines
<1>8. CASE w = "chainsaw"
  <2>1. s = <<"none", "ReFire">>
    BY <1>8 DEF Attack
  <2>2. /\ Len(s) = 2
        /\ s[1] = "none" /\ s[2] = "ReFire"
    BY <2>1
  <2>3. \A j \in 1 .. 2 : j = 1 \/ j = 2
    OBVIOUS
  <2>. QED  BY <1>8, <2>2, <2>3 DEF Attacks, Routines
<1>9. CASE w = "supershotgun"
  <2>1. s = <<"none", "Fire", "none", "CheckReload", "none", "ReFire", "ReFire">>
    BY <1>9 DEF Attack
  <2>2. /\ Len(s) = 7
        /\ s[1] = "none" /\ s[2] = "Fire" /\ s[3] = "none" /\ s[4] = "CheckReload"
        /\ s[5] = "none" /\ s[6] = "ReFire" /\ s[7] = "ReFire"
    BY <2>1
  <2>3. \A j \in 1 .. 7 : j = 1 \/ j = 2 \/ j = 3 \/ j = 4 \/ j = 5 \/ j = 6 \/ j = 7
    OBVIOUS
  <2>. QED  BY <1>9, <2>2, <2>3 DEF Attacks, Routines
<1>. QED  BY <1>1, <1>2, <1>3, <1>4, <1>5, <1>6, <1>7, <1>8, <1>9 DEF Weapons

(* The same of states.                                                     *)
LEMMA AttackIs ==
    ASSUME NEW w \in Weapons
    PROVE  /\ LastOf(w) \in 5 .. 10
           /\ \A i \in 4 .. LastOf(w) :
                  /\ ActionOf(w, i) \in Routines
                  /\ ActionOf(w, i) = "Fire" => i = 4 \/ (i = 5 /\ ActionOf(w, 4) = "none")
                  /\ ActionOf(w, i) = "FireCGun" => w = "chaingun"
           /\ ActionOf(w, 4) \in {"none", "Fire", "FireCGun"}
<1>1. PICK n : Attacks(w, Attack[w], n)
  BY AttackOf
<1>2. n \in 2 .. 7 /\ LastOf(w) = 3 + n
  BY <1>1 DEF Attacks, LastOf
<1>3. \A i \in 4 .. LastOf(w) : i - 3 \in 1 .. n /\ ActionOf(w, i) = Attack[w][i - 3]
  BY <1>2 DEF ActionOf
<1>4. LastOf(w) \in 5 .. 10 /\ 4 \in 4 .. LastOf(w) /\ 4 - 3 = 1
  BY <1>2
<1>5. ActionOf(w, 4) = Attack[w][1]
  BY <1>3, <1>4
<1>6. ASSUME NEW i \in 4 .. LastOf(w)
      PROVE  /\ ActionOf(w, i) \in Routines
             /\ ActionOf(w, i) = "Fire" => i = 4 \/ (i = 5 /\ ActionOf(w, 4) = "none")
             /\ ActionOf(w, i) = "FireCGun" => w = "chaingun"
  <2>1. i - 3 \in 1 .. n /\ ActionOf(w, i) = Attack[w][i - 3]
    BY <1>3
  <2>2. (i - 3 = 1 <=> i = 4) /\ (i - 3 = 2 <=> i = 5)
    BY <1>2
  <2>. QED  BY <1>1, <1>5, <2>1, <2>2 DEF Attacks
<1>. QED  BY <1>1, <1>4, <1>5, <1>6 DEF Attacks

(* What shots are made of.                                                 *)
LEMMA ShotIs ==
    ASSUME NEW w \in Weapons
    PROVE  /\ AmmoOf[w] \in Ammo \cup {"noammo"} /\ "noammo" \notin Ammo
           /\ Shot(w) \in Nat \ {0}
           /\ w = "chaingun" => AmmoOf[w] = "clip" /\ Shot(w) = 1
  BY WeaponsAssumption DEF Weapons, AmmoOf, Ammo, Shot

(* What the player has, in the midst of any routine.                       *)
Equipped(p) ==
    /\ p \in Player
    /\ {"fist", "pistol"} \subseteq p.owned
    /\ p.ready \in p.owned /\ p.pending \in p.owned \cup {wp_nochange}
    /\ \A a \in Ammo : p.ammo[a] \in 0 .. p.maxammo[a]
Able(p) == p.playerstate \in {"LIVE", "DEAD"} /\ (p.playerstate = "LIVE" => p.health)

(* When a weapon is lowered for the living, there is one to raise.         *)
Changes(p) == p.playerstate = "LIVE" => p.pending # wp_nochange

(* The player between two routines: as far as the shot of an attack that   *)
(* has begun, there is ammunition for it.                                  *)
Holds(p) ==
    /\ Equipped(p)
    /\ p.shown = p.ready /\ p.frame \in 1 .. LastOf(p.shown)
    /\ p.playerstate = "LIVE" => p.health
    /\ p.frame = 2 => Changes(p)
    /\ p.frame = 4 /\ ActionOf(p.shown, 4) = "none" => Enough(p)

WeaponsInv == game \in Games /\ Holds(player)

(* What a routine makes of the player.                                     *)
Keeps(p, q) == Holds(q) /\ q.playerstate = p.playerstate

(* Another state on the screen changes nothing else.                       *)
LEMMA ShowsIs ==
    ASSUME NEW p, NEW w \in Weapons, NEW i \in 0 .. 10, Equipped(p), Able(p)
    PROVE  /\ Equipped(Shows(p, w, i)) /\ Able(Shows(p, w, i)) /\ (Changes(Shows(p, w, i)) <=> Changes(p))
           /\ (Enough(Shows(p, w, i)) <=> Enough(p))
           /\ Shows(p, w, i).shown = w /\ Shows(p, w, i).frame = i
           /\ Shows(p, w, i).playerstate = p.playerstate /\ Shows(p, w, i).ready = p.ready
           /\ Shows(p, w, i).health = p.health /\ Shows(p, w, i).pending = p.pending
<1>. DEFINE q == Shows(p, w, i)
<1>1. p \in Player
  BY DEF Equipped
<1>2. /\ q \in Player /\ q.shown = w /\ q.frame = i /\ q.ready = p.ready /\ q.pending = p.pending
      /\ q.owned = p.owned /\ q.ammo = p.ammo /\ q.maxammo = p.maxammo
      /\ q.playerstate = p.playerstate /\ q.health = p.health
  BY <1>1 DEF Player, Shows
<1>. HIDE DEF q
<1>3. Equipped(q) /\ Able(q)
  BY <1>2 DEF Equipped, Able
<1>4. (Changes(q) <=> Changes(p)) /\ (Enough(q) <=> Enough(p))
  BY <1>2 DEF Changes, Enough
<1>. QED  BY <1>2, <1>3, <1>4 DEF q

(* The weapon goes down; at the bottom the one that was waited for comes.  *)
LEMMA LowerKeeps ==
    ASSUME NEW p, Equipped(p), Able(p), p.shown = p.ready, p.frame = 2, Changes(p)
    PROVE  Keeps(p, A_Lower(p)) /\ A_Lower(p).frame \in {2, 3}
<1>1. p \in Player /\ p.sy \in 0 .. Bottom /\ Bottom \in Nat /\ Bottom - 1 \in 0 .. Bottom
  BY WeaponsAssumption DEF Equipped, Player
<1>2. LastOf(p.ready) \in 5 .. 10
  BY <1>1, AttackIs DEF Player
<1>3. ASSUME NEW h \in 0 .. Bottom, A_Lower(p) = [p EXCEPT !.sy = h] PROVE Keeps(p, A_Lower(p)) /\ A_Lower(p).frame \in {2, 3}
  <2>. DEFINE r == [p EXCEPT !.sy = h]
  <2>1. /\ r \in Player /\ r.shown = p.shown /\ r.frame = p.frame /\ r.ready = p.ready /\ r.pending = p.pending
        /\ r.owned = p.owned /\ r.ammo = p.ammo /\ r.maxammo = p.maxammo
        /\ r.playerstate = p.playerstate /\ r.health = p.health
    BY <1>1 DEF Player
  <2>. HIDE DEF r
  <2>. QED  BY <1>2, <1>3, <2>1 DEF Keeps, Holds, Equipped, Able, Changes, r
<1>4. CASE p.sy + 1 < Bottom
  <2>1. A_Lower(p) = [p EXCEPT !.sy = p.sy + 1] /\ p.sy + 1 \in 0 .. Bottom
    BY <1>1, <1>4 DEF A_Lower
  <2>. QED  BY <1>3, <2>1
<1>5. CASE ~(p.sy + 1 < Bottom) /\ p.playerstate = "DEAD"
  <2>1. A_Lower(p) = [p EXCEPT !.sy = Bottom] /\ Bottom \in 0 .. Bottom
    BY <1>1, <1>5 DEF A_Lower
  <2>. QED  BY <1>3, <2>1
<1>6. CASE ~(p.sy + 1 < Bottom) /\ p.playerstate = "LIVE"
  <2>. DEFINE r == [p EXCEPT !.ready = p.pending]
              u == [r EXCEPT !.pending = wp_nochange, !.sy = Bottom - 1]
              t == [u EXCEPT !.shown = p.pending, !.frame = 3]
  <2>1. p.health /\ p.pending \in p.owned /\ p.pending \in Weapons /\ p.pending # wp_nochange
    BY <1>1, <1>6 DEF Able, Changes, Equipped, Player
  <2>2. A_Lower(p) = P_BringUpWeapon(r)
    BY <1>6, <2>1 DEF A_Lower
  <2>3. r \in Player /\ r.ready = p.pending /\ r.pending = p.pending /\ r.owned = p.owned /\ r.ammo = p.ammo
        /\ r.maxammo = p.maxammo /\ r.playerstate = p.playerstate /\ r.health = p.health
    BY <1>1, <2>1 DEF Player
  <2>4. P_BringUpWeapon(r) = t
    BY <2>1, <2>3 DEF P_BringUpWeapon, Shows
  <2>. HIDE DEF r
  <2>5. u \in Player /\ u.ready = p.pending /\ u.pending = wp_nochange /\ u.owned = p.owned /\ u.ammo = p.ammo
        /\ u.maxammo = p.maxammo /\ u.playerstate = p.playerstate /\ u.health = p.health
    BY <1>1, <2>3 DEF Player
  <2>. HIDE DEF u
  <2>6. Equipped(u) /\ Able(u) /\ 3 \in 0 .. 10 /\ t = Shows(u, p.pending, 3)
    BY <2>1, <2>5 DEF Equipped, Able, Shows
  <2>7. LastOf(p.pending) \in 5 .. 10
    BY <2>1, AttackIs
  <2>. HIDE DEF t
  <2>8. Equipped(t) /\ Able(t)
    BY <2>1, <2>6, ShowsIs
  <2>9. t.shown = p.pending /\ t.frame = 3 /\ t.ready = u.ready /\ t.playerstate = u.playerstate /\ t.health = u.health
    BY <2>1, <2>6, ShowsIs
  <2>. QED  BY <2>1, <2>2, <2>4, <2>5, <2>7, <2>8, <2>9 DEF Keeps, Holds
<1>. QED  BY <1>4, <1>5, <1>6 DEF Able

(* So it does from any state.                                              *)
LEMMA LoweredKeeps ==
    ASSUME NEW p, Equipped(p), Able(p), Changes(p)
    PROVE  Keeps(p, Lowered(p)) /\ Lowered(p).frame \in {2, 3}
<1>. DEFINE q == Shows(p, p.ready, 2)
<1>1. p.ready \in Weapons /\ 2 \in 0 .. 10
  BY DEF Equipped, Player
<1>. HIDE DEF q
<1>2. Equipped(q) /\ Able(q) /\ Changes(q)
  BY <1>1, ShowsIs, SMT DEF q
<1>4. q.shown = p.ready /\ q.ready = p.ready /\ q.frame = 2 /\ q.playerstate = p.playerstate
  BY <1>1, ShowsIs, SMT DEF q
<1>3. Lowered(p) = A_Lower(q)
  BY DEF Lowered, q
<1>. QED  BY <1>2, <1>3, <1>4, LowerKeeps DEF Keeps

(* The weapon that is preferred is one there is.                           *)
LEMMA PreferredIs ==
    ASSUME NEW p, Equipped(p) PROVE Preferred(p) \in p.owned /\ Preferred(p) \in Weapons /\ Preferred(p) # wp_nochange
<1>1. Preferred(p) \in p.owned
  BY DEF Preferred, Equipped
<1>2. p.owned \in SUBSET Weapons
  BY DEF Equipped, Player
<1>. QED  BY <1>1, <1>2 DEF Weapons, wp_nochange

(* Out of ammunition, another weapon is waited for; else nothing happens.  *)
LEMMA CheckAmmoKeeps ==
    ASSUME NEW p, Equipped(p), Able(p)
    PROVE  /\ Enough(p) => P_CheckAmmo(p) = p
           /\ ~Enough(p) => Keeps(p, P_CheckAmmo(p)) /\ P_CheckAmmo(p).frame \in {2, 3}
<1>1. Enough(p) => P_CheckAmmo(p) = p
  BY DEF P_CheckAmmo
<1>2. ASSUME ~Enough(p) PROVE Keeps(p, P_CheckAmmo(p)) /\ P_CheckAmmo(p).frame \in {2, 3}
  <2>. DEFINE q == [p EXCEPT !.pending = Preferred(p)]
  <2>1. Preferred(p) \in p.owned /\ Preferred(p) \in Weapons /\ Preferred(p) # wp_nochange
    BY PreferredIs
  <2>2. P_CheckAmmo(p) = Lowered(q)
    BY <1>2 DEF P_CheckAmmo
  <2>3. /\ q \in Player /\ q.ready = p.ready /\ q.pending = Preferred(p)
        /\ q.owned = p.owned /\ q.ammo = p.ammo /\ q.maxammo = p.maxammo
        /\ q.playerstate = p.playerstate /\ q.health = p.health
    BY <2>1 DEF Equipped, Player
  <2>. HIDE DEF q
  <2>4. Equipped(q) /\ Able(q) /\ Changes(q)
    BY <2>1, <2>3 DEF Equipped, Able, Changes
  <2>. QED  BY <2>2, <2>3, <2>4, LoweredKeeps DEF Keeps
<1>. QED  BY <1>1, <1>2

(* A shot takes ammunition that is there.                                  *)
LEMMA FireIs ==
    ASSUME NEW p, Equipped(p), Enough(p)
    PROVE  /\ Equipped(Fire(p)) /\ (Able(Fire(p)) <=> Able(p)) /\ (Changes(Fire(p)) <=> Changes(p))
           /\ Fire(p).shown = p.shown /\ Fire(p).frame = p.frame /\ Fire(p).ready = p.ready
           /\ Fire(p).playerstate = p.playerstate /\ Fire(p).health = p.health
<1>1. p \in Player /\ p.ready \in Weapons
  BY DEF Equipped, Player
<1>2. AmmoOf[p.ready] \in Ammo \cup {"noammo"} /\ "noammo" \notin Ammo /\ Shot(p.ready) \in Nat \ {0}
  BY <1>1, ShotIs
<1>3. CASE AmmoOf[p.ready] = "noammo"
  BY <1>3 DEF Fire, Able, Changes
<1>4. ASSUME NEW a \in Ammo, a = AmmoOf[p.ready], NEW n \in Nat, n = Shot(p.ready)
      PROVE  /\ Equipped(Fire(p)) /\ (Able(Fire(p)) <=> Able(p)) /\ (Changes(Fire(p)) <=> Changes(p))
             /\ Fire(p).shown = p.shown /\ Fire(p).frame = p.frame /\ Fire(p).ready = p.ready
             /\ Fire(p).playerstate = p.playerstate /\ Fire(p).health = p.health
  <2>. DEFINE m == [p.ammo EXCEPT ![a] = @ - n]
              q == [p EXCEPT !.ammo = m]
  <2>1. Fire(p) = q
    BY <1>1, <1>2, <1>4 DEF Fire, Player
  <2>2. p.ammo[a] >= n /\ p.ammo \in [Ammo -> Int] /\ p.maxammo \in [Ammo -> Nat]
        /\ \A b \in Ammo : p.ammo[b] \in 0 .. p.maxammo[b]
    BY <1>1, <1>2, <1>4 DEF Enough, Equipped, Player
  <2>3. m \in [Ammo -> Int] /\ m[a] = p.ammo[a] - n /\ \A b \in Ammo \ {a} : m[b] = p.ammo[b]
    BY <2>2
  <2>4. ASSUME NEW b \in Ammo PROVE m[b] \in 0 .. p.maxammo[b]
    <3>1. p.ammo[b] \in 0 .. p.maxammo[b] /\ p.ammo[b] \in Int /\ p.maxammo[b] \in Nat
      BY <2>2
    <3>. HIDE DEF m
    <3>2. CASE b = a
      BY <2>2, <2>3, <3>1, <3>2
    <3>3. CASE b # a
      BY <2>3, <3>1, <3>3
    <3>. QED  BY <3>2, <3>3
  <2>. HIDE DEF m
  <2>5. /\ q \in Player /\ q.ready = p.ready /\ q.pending = p.pending /\ q.shown = p.shown /\ q.frame = p.frame
        /\ q.owned = p.owned /\ q.ammo = m /\ q.maxammo = p.maxammo
        /\ q.playerstate = p.playerstate /\ q.health = p.health
    BY <1>1, <2>3 DEF Player
  <2>. HIDE DEF q
  <2>6. Equipped(q)
    BY <2>4, <2>5 DEF Equipped
  <2>7. (Able(q) <=> Able(p)) /\ (Changes(q) <=> Changes(p))
    BY <2>5 DEF Able, Changes
  <2>. QED  BY <2>1, <2>5, <2>6, <2>7
<1>. QED  BY <1>2, <1>3, <1>4

(* An attack's states fire what is there.                                  *)
LEMMA ShootsKeeps ==
    ASSUME NEW p, Equipped(p), Able(p), p.shown = p.ready, p.frame \in 4 .. LastOf(p.shown),
           p.frame = 4 \/ ActionOf(p.shown, p.frame) = "Fire" => Enough(p)
    PROVE  Keeps(p, Shoots(p)) /\ Shoots(p).frame = p.frame
<1>1. p \in Player /\ p.shown \in Weapons
  BY DEF Equipped, Player
<1>2. /\ LastOf(p.shown) \in 5 .. 10
      /\ ActionOf(p.shown, p.frame) = "FireCGun" => p.shown = "chaingun"
  BY <1>1, AttackIs
<1>3. p.frame \in 1 .. LastOf(p.shown) /\ p.frame # 2
  BY <1>2
<1>4. Keeps(p, p)
  BY <1>3 DEF Keeps, Holds, Able
<1>5. ASSUME Enough(p), ActionOf(p.shown, p.frame) \in {"Fire", "FireCGun"} PROVE Keeps(p, Fire(p)) /\ Fire(p).frame = p.frame
  <2>. DEFINE q == Fire(p)
  <2>1. Equipped(q) /\ Able(q)
    BY <1>5, FireIs
  <2>2. q.shown = p.shown /\ q.frame = p.frame /\ q.ready = p.ready /\ q.playerstate = p.playerstate /\ q.health = p.health
    BY <1>5, FireIs
  <2>. HIDE DEF q
  <2>3. ~(q.frame = 4 /\ ActionOf(q.shown, 4) = "none")
    BY <1>5, <2>2
  <2>4. Holds(q)
    BY <1>3, <2>1, <2>2, <2>3 DEF Holds, Able
  <2>. QED  BY <2>2, <2>4 DEF Keeps, q
<1>6. CASE ActionOf(p.shown, p.frame) = "Fire"
  <2>1. Shoots(p) = Fire(p)
    BY <1>6 DEF Shoots
  <2>. QED  BY <1>5, <1>6, <2>1
<1>7. CASE ActionOf(p.shown, p.frame) = "FireCGun"
  <2>1. Shoots(p) = A_FireCGun(p)
    BY <1>7 DEF Shoots
  <2>2. CASE p.ammo["clip"] = 0
    BY <1>4, <2>1, <2>2 DEF A_FireCGun
  <2>3. CASE p.ammo["clip"] # 0
    <3>1. A_FireCGun(p) = Fire(p)
      BY <2>3 DEF A_FireCGun
    <3>2. p.ready \in Weapons /\ p.ready = "chaingun"
      BY <1>1, <1>2, <1>7
    <3>3. AmmoOf[p.ready] = "clip" /\ Shot(p.ready) = 1
      BY <3>2, ShotIs
    <3>4. "clip" \in Ammo /\ p.ammo["clip"] \in 0 .. p.maxammo["clip"] /\ p.maxammo["clip"] \in Nat
      BY <1>1 DEF Equipped, Player, Ammo
    <3>5. p.ammo["clip"] >= 1
      BY <2>3, <3>4
    <3>6. Enough(p)
      BY <3>3, <3>5 DEF Enough
    <3>. QED  BY <1>5, <1>7, <2>1, <3>1, <3>6
  <2>. QED  BY <2>2, <2>3
<1>8. CASE ActionOf(p.shown, p.frame) \notin {"Fire", "FireCGun"}
  <2>1. Shoots(p) = p
    BY <1>8 DEF Shoots
  <2>. QED  BY <1>4, <2>1
<1>. QED  BY <1>6, <1>7, <1>8

(* The trigger is pulled: with ammunition the attack begins.               *)
LEMMA FireWeaponKeeps ==
    ASSUME NEW p, Equipped(p), Able(p)
    PROVE  Keeps(p, P_FireWeapon(p)) /\ P_FireWeapon(p).frame \in {2, 3, 4}
<1>1. CASE ~Enough(p)
  BY <1>1, CheckAmmoKeeps DEF P_FireWeapon
<1>2. CASE Enough(p)
  <2>. DEFINE q == Shows(p, p.ready, 4)
  <2>1. p.ready \in Weapons /\ 4 \in 0 .. 10
    BY DEF Equipped, Player
  <2>2. LastOf(p.ready) \in 5 .. 10
    BY <2>1, AttackIs
  <2>3. P_FireWeapon(p) = Shoots(q)
    BY <1>2 DEF P_FireWeapon
  <2>. HIDE DEF q
  <2>4. Equipped(q) /\ Able(q) /\ Enough(q)
    BY <1>2, <2>1, ShowsIs DEF q
  <2>5. q.shown = p.ready /\ q.ready = p.ready /\ q.frame = 4 /\ q.playerstate = p.playerstate
    BY <2>1, ShowsIs DEF q
  <2>6. q.shown = q.ready /\ q.frame \in 4 .. LastOf(q.shown)
    BY <2>2, <2>5
  <2>7. Keeps(q, Shoots(q)) /\ Shoots(q).frame = q.frame
    BY <2>4, <2>6, ShootsKeeps
  <2>. QED  BY <2>3, <2>5, <2>7 DEF Keeps
<1>. QED  BY <1>1, <1>2

(* The weapon is ready: it is put away, fired or waits.                    *)
LEMMA WeaponReadyKeeps ==
    ASSUME NEW p, NEW attack, Equipped(p), Able(p), p.shown = p.ready, p.frame = 1
    PROVE  Keeps(p, A_WeaponReady(p, attack)) /\ A_WeaponReady(p, attack).frame \in 1 .. 4
<1>1. p \in Player /\ p.ready \in Weapons /\ 0 \in 0 .. Bottom /\ p.health \in BOOLEAN
  BY WeaponsAssumption DEF Equipped, Player
<1>2. LastOf(p.ready) \in 5 .. 10
  BY <1>1, AttackIs
<1>3. CASE p.pending # wp_nochange \/ ~p.health
  <2>1. A_WeaponReady(p, attack) = Lowered(p)
    BY <1>3 DEF A_WeaponReady
  <2>2. Changes(p)
    BY <1>3 DEF Changes, Able
  <2>. QED  BY <2>1, <2>2, LoweredKeeps
<1>4. ASSUME NEW q, q \in Player, q.ready = p.ready, q.pending = p.pending, q.owned = p.owned, q.ammo = p.ammo,
             q.maxammo = p.maxammo, q.playerstate = p.playerstate, q.health = p.health
      PROVE  Equipped(q) /\ Able(q)
  BY <1>4 DEF Equipped, Able
<1>5. ASSUME NEW q, q \in Player, q.ready = p.ready, q.pending = p.pending, q.owned = p.owned, q.ammo = p.ammo,
             q.maxammo = p.maxammo, q.playerstate = p.playerstate, q.health = p.health,
             q.shown = p.shown, q.frame = p.frame
      PROVE  Keeps(p, q) /\ q.frame \in 1 .. 4
  <2>1. Equipped(q) /\ Able(q)
    BY <1>4, <1>5
  <2>. QED  BY <1>2, <1>5, <2>1 DEF Keeps, Holds, Able
<1>6. ASSUME ~(p.pending # wp_nochange \/ ~p.health)
      PROVE  Keeps(p, A_WeaponReady(p, attack)) /\ A_WeaponReady(p, attack).frame \in 1 .. 4
  <2>. DEFINE top == [p EXCEPT !.sy = 0]
              still == [top EXCEPT !.attackdown = FALSE]
              down == [p EXCEPT !.attackdown = TRUE]
  <2>1. top \in Player /\ still \in Player /\ down \in Player
    BY <1>1 DEF Player
  <2>2. Keeps(p, top) /\ top.frame \in 1 .. 4
    BY <1>1, <1>5, <2>1 DEF Player
  <2>3. Keeps(p, still) /\ still.frame \in 1 .. 4
    BY <1>1, <1>5, <2>1 DEF Player
  <2>4. Equipped(down) /\ Able(down) /\ down.playerstate = p.playerstate
    BY <1>1, <1>4, <2>1 DEF Player
  <2>5. Keeps(p, P_FireWeapon(down)) /\ P_FireWeapon(down).frame \in 1 .. 4
    <3>. HIDE DEF down
    <3>. QED  BY <2>4, FireWeaponKeeps DEF Keeps
  <2>6. A_WeaponReady(p, attack) \in {top, still, P_FireWeapon(down)}
    BY <1>6 DEF A_WeaponReady
  <2>. HIDE DEF top, still, down
  <2>. QED  BY <2>2, <2>3, <2>5, <2>6
<1>. QED  BY <1>3, <1>6

(* The attack is over: it is repeated, or there may be no ammunition left. *)
LEMMA ReFireKeeps ==
    ASSUME NEW p, NEW attack, Holds(p), Able(p)
    PROVE  Keeps(p, A_ReFire(p, attack)) /\ Keeps(p, P_CheckAmmo(p))
<1>1. Equipped(p)
  BY DEF Holds
<1>2. Keeps(p, P_CheckAmmo(p))
  <2>1. CASE Enough(p)
    BY <1>1, <2>1, CheckAmmoKeeps DEF Keeps
  <2>2. CASE ~Enough(p)
    BY <1>1, <2>2, CheckAmmoKeeps
  <2>. QED  BY <2>1, <2>2
<1>3. Keeps(p, P_FireWeapon(p))
  BY <1>1, FireWeaponKeeps
<1>4. A_ReFire(p, attack) \in {P_FireWeapon(p), P_CheckAmmo(p)}
  BY DEF A_ReFire
<1>. QED  BY <1>2, <1>3, <1>4

(* The weapon comes up, and at the top it is ready.                        *)
LEMMA RaiseKeeps ==
    ASSUME NEW p, NEW attack, Equipped(p), Able(p), p.shown = p.ready, p.frame = 3
    PROVE  Keeps(p, A_Raise(p, attack))
<1>1. p \in Player /\ p.ready \in Weapons /\ p.sy \in 0 .. Bottom /\ Bottom \in Nat /\ 0 \in 0 .. Bottom /\ 1 \in 0 .. 10
  BY WeaponsAssumption DEF Equipped, Player
<1>2. LastOf(p.ready) \in 5 .. 10
  BY <1>1, AttackIs
<1>3. ASSUME NEW h \in 0 .. Bottom, NEW q, q = [p EXCEPT !.sy = h]
      PROVE  /\ Equipped(q) /\ Able(q) /\ q.shown = p.shown /\ q.frame = p.frame
             /\ q.ready = p.ready /\ q.playerstate = p.playerstate /\ q.health = p.health
  <2>1. /\ q \in Player /\ q.ready = p.ready /\ q.pending = p.pending /\ q.owned = p.owned /\ q.ammo = p.ammo
        /\ q.maxammo = p.maxammo /\ q.playerstate = p.playerstate /\ q.health = p.health
        /\ q.shown = p.shown /\ q.frame = p.frame
    BY <1>1, <1>3 DEF Player
  <2>. QED  BY <2>1 DEF Equipped, Able
<1>4. CASE p.sy - 1 > 0
  <2>. DEFINE q == [p EXCEPT !.sy = p.sy - 1]
  <2>1. A_Raise(p, attack) = q
    BY <1>4 DEF A_Raise
  <2>2. p.sy - 1 \in 0 .. Bottom
    BY <1>1, <1>4
  <2>3. /\ Equipped(q) /\ Able(q) /\ q.shown = p.shown /\ q.frame = p.frame
        /\ q.ready = p.ready /\ q.playerstate = p.playerstate /\ q.health = p.health
    BY <1>3, <2>2
  <2>. HIDE DEF q
  <2>. QED  BY <1>2, <2>1, <2>3 DEF Keeps, Holds, Able
<1>5. CASE ~(p.sy - 1 > 0)
  <2>. DEFINE q == [p EXCEPT !.sy = 0]
              r == Shows(q, p.ready, 1)
  <2>1. A_Raise(p, attack) = A_WeaponReady(r, attack)
    BY <1>5 DEF A_Raise
  <2>2. /\ Equipped(q) /\ Able(q) /\ q.ready = p.ready /\ q.playerstate = p.playerstate
    BY <1>1, <1>3
  <2>. HIDE DEF q, r
  <2>3. Equipped(r) /\ Able(r)
    BY <1>1, <2>2, ShowsIs DEF r
  <2>4. r.shown = p.ready /\ r.frame = 1 /\ r.ready = q.ready /\ r.playerstate = q.playerstate
    BY <1>1, <2>2, ShowsIs DEF r
  <2>5. r.shown = r.ready
    BY <2>2, <2>4
  <2>6. Keeps(r, A_WeaponReady(r, attack))
    BY <2>3, <2>4, <2>5, WeaponReadyKeeps
  <2>. QED  BY <2>1, <2>2, <2>4, <2>6 DEF Keeps
<1>. QED  BY <1>4, <1>5

(* The player when a state has been set and its routine is to be called;   *)
(* what begins an attack is called as part of it.                          *)
Poised(p) ==
    /\ Equipped(p) /\ Able(p) /\ p.shown = p.ready
    /\ p.frame \in 1 .. LastOf(p.shown) /\ p.frame # 4
    /\ p.frame = 2 => Changes(p)
    /\ ActionOf(p.shown, p.frame) = "Fire" => Enough(p)

(* Then the routine may do what it does.                                   *)
LEMMA RoutineKeeps ==
    ASSUME NEW p, NEW attack, Poised(p) PROVE Keeps(p, Routine(p, attack))
<1>. DEFINE a == ActionOf(p.shown, p.frame)
<1>1. /\ Equipped(p) /\ Able(p) /\ p.shown = p.ready /\ p.frame \in 1 .. LastOf(p.shown) /\ p.frame # 4
      /\ p.shown \in Weapons
  BY DEF Poised, Equipped, Player
<1>2. LastOf(p.shown) \in 5 .. 10
  BY <1>1, AttackIs
<1>3. CASE p.frame = 1
  <2>1. a = "WeaponReady"
    BY <1>3 DEF ActionOf
  <2>2. Routine(p, attack) = A_WeaponReady(p, attack)
    BY <2>1 DEF Routine
  <2>. QED  BY <1>1, <1>3, <2>2, WeaponReadyKeeps
<1>4. CASE p.frame = 2
  <2>1. a = "Lower"
    BY <1>4 DEF ActionOf
  <2>2. Routine(p, attack) = A_Lower(p)
    BY <2>1 DEF Routine
  <2>3. Changes(p)
    BY <1>4 DEF Poised
  <2>. QED  BY <1>1, <1>4, <2>2, <2>3, LowerKeeps
<1>5. CASE p.frame = 3
  <2>1. a = "Raise"
    BY <1>5 DEF ActionOf
  <2>2. Routine(p, attack) = A_Raise(p, attack)
    BY <2>1 DEF Routine
  <2>. QED  BY <1>1, <1>5, <2>2, RaiseKeeps
<1>6. CASE p.frame > 4
  <2>1. p.frame \in 4 .. LastOf(p.shown) /\ p.frame # 2 /\ p.frame # 4
    BY <1>1, <1>2, <1>6
  <2>2. a \in Routines
    BY <1>1, <2>1, AttackIs
  <2>3. Holds(p)
    BY <1>1, <2>1 DEF Holds, Able
  <2>. HIDE DEF a
  <2>4. CASE a = "ReFire"
    <3>1. Routine(p, attack) = A_ReFire(p, attack)
      BY <2>4 DEF Routine, a
    <3>. QED  BY <1>1, <2>3, <3>1, ReFireKeeps
  <2>5. CASE a = "CheckReload"
    <3>1. Routine(p, attack) = P_CheckAmmo(p)
      BY <2>5 DEF Routine, a
    <3>. QED  BY <1>1, <2>3, <3>1, ReFireKeeps
  <2>6. CASE a \in {"none", "Fire", "FireCGun"}
    <3>1. Routine(p, attack) = Shoots(p)
      BY <2>6 DEF Routine, a
    <3>2. p.frame = 4 \/ ActionOf(p.shown, p.frame) = "Fire" => Enough(p)
      BY <1>1 DEF Poised
    <3>. QED  BY <1>1, <2>1, <3>1, <3>2, ShootsKeeps
  <2>. QED  BY <2>2, <2>4, <2>5, <2>6 DEF Routines
<1>. QED  BY <1>1, <1>2, <1>3, <1>4, <1>5, <1>6

(* The state that follows may be set.                                      *)
LEMMA NextIsPoised ==
    ASSUME NEW p, Holds(p), Able(p) PROVE Poised(Shows(p, p.shown, NextState(p.shown, p.frame)))
<1>. DEFINE i == NextState(p.shown, p.frame)
            q == Shows(p, p.shown, i)
<1>1. Equipped(p) /\ p.shown = p.ready /\ p.frame \in 1 .. LastOf(p.shown) /\ p.shown \in Weapons
  BY DEF Holds, Equipped, Player
<1>2. LastOf(p.shown) \in 5 .. 10
  BY <1>1, AttackIs
<1>3. i \in 0 .. 10 /\ i \in 1 .. LastOf(p.shown) /\ i # 4 /\ (i = 2 => p.frame = 2) /\ (i = 5 => p.frame = 4)
  BY <1>1, <1>2 DEF NextState
<1>4. ActionOf(p.shown, i) = "Fire" => Enough(p)
  <2>. SUFFICES ASSUME ActionOf(p.shown, i) = "Fire" PROVE Enough(p)
    OBVIOUS
  <2>1. i > 4
    BY <1>2, <1>3 DEF ActionOf
  <2>2. i \in 4 .. LastOf(p.shown)
    BY <1>2, <1>3, <2>1
  <2>3. i = 5 /\ ActionOf(p.shown, 4) = "none"
    <3>. HIDE DEF i
    <3>. QED  BY <1>1, <1>3, <2>2, AttackIs
  <2>. QED  BY <1>3, <2>3 DEF Holds
<1>5. i = 2 => Changes(p)
  BY <1>3 DEF Holds
<1>. HIDE DEF q, i
<1>6. Equipped(q) /\ Able(q) /\ (Changes(q) <=> Changes(p)) /\ (Enough(q) <=> Enough(p))
  BY <1>1, <1>3, ShowsIs DEF q
<1>7. q.shown = p.shown /\ q.frame = i /\ q.ready = p.ready
  BY <1>1, <1>3, ShowsIs DEF q
<1>8. Poised(q)
  BY <1>1, <1>3, <1>4, <1>5, <1>6, <1>7 DEF Poised
<1>. QED  BY <1>8 DEF q, i

(* So a state is followed by the next, and a state of no tics by the ready *)
(* one.                                                                    *)
LEMMA SetPspriteKeeps ==
    ASSUME NEW p, NEW attack, Holds(p), Able(p)
    PROVE  Keeps(p, P_SetPsprite(p, p.shown, NextState(p.shown, p.frame), attack))
<1>. DEFINE s == Shows(p, p.shown, NextState(p.shown, p.frame))
            q == Routine(s, attack)
            r == Shows(q, q.shown, NextState(q.shown, q.frame))
<1>1. Poised(s)
  BY NextIsPoised
<1>2. s.playerstate = p.playerstate
  BY DEF Shows, Holds, Equipped, Player
<1>3. P_SetPsprite(p, p.shown, NextState(p.shown, p.frame), attack) \in {q, Routine(r, attack)}
  BY DEF P_SetPsprite
<1>. HIDE DEF s
<1>4. Keeps(s, q)
  BY <1>1, RoutineKeeps
<1>. HIDE DEF q
<1>5. Holds(q) /\ Able(q) /\ q.playerstate = p.playerstate
  BY <1>1, <1>2, <1>4 DEF Keeps, Poised, Able, Holds
<1>6. Poised(r)
  BY <1>5, NextIsPoised
<1>7. r.playerstate = q.playerstate
  BY <1>5 DEF Shows, Holds, Equipped, Player
<1>. HIDE DEF r
<1>8. Keeps(r, Routine(r, attack))
  BY <1>6, RoutineKeeps
<1>. QED  BY <1>3, <1>5, <1>7, <1>8 DEF Keeps

(* A tic of the weapon.                                                    *)
LEMMA MoveKeeps ==
    ASSUME NEW p, NEW attack, Holds(p), Able(p), NEW q \in P_MovePsprites(p, attack) PROVE Keeps(p, q)
<1>1. p.frame # 0
  <2>1. p.shown \in Weapons /\ p.frame \in 1 .. LastOf(p.shown)
    BY DEF Holds, Equipped, Player
  <2>2. LastOf(p.shown) \in 5 .. 10
    BY <2>1, AttackIs
  <2>. QED  BY <2>1, <2>2
<1>2. q \in {p, P_SetPsprite(p, p.shown, NextState(p.shown, p.frame), attack)}
  BY <1>1 DEF P_MovePsprites
<1>3. Keeps(p, p)
  BY DEF Keeps
<1>. QED  BY <1>2, <1>3, SetPspriteKeeps

(* More weapons and ammunition, another weapon to change to, and health do *)
(* not harm.                                                               *)
Richer(p, q) ==
    /\ q \in Player /\ q.ready = p.ready /\ q.shown = p.shown /\ q.frame = p.frame /\ q.playerstate = p.playerstate
    /\ p.owned \subseteq q.owned /\ (q.pending = p.pending \/ q.pending \in q.owned)
    /\ \A a \in Ammo : q.ammo[a] >= p.ammo[a] /\ q.ammo[a] <= q.maxammo[a]
    /\ p.health => q.health

(* So the invariant lasts.                                                 *)
LEMMA RicherHolds == ASSUME NEW p, NEW q, Holds(p), Richer(p, q) PROVE Holds(q)
<1>1. /\ Equipped(p) /\ p \in Player /\ p.ready \in Weapons /\ p.shown = p.ready /\ p.frame \in 1 .. LastOf(p.shown)
      /\ q \in Player
  BY DEF Holds, Equipped, Player, Richer
<1>2. Equipped(q)
  <2>1. {"fist", "pistol"} \subseteq q.owned /\ q.ready \in q.owned /\ q.pending \in q.owned \cup {wp_nochange}
    BY <1>1 DEF Equipped, Richer
  <2>2. ASSUME NEW a \in Ammo PROVE q.ammo[a] \in 0 .. q.maxammo[a]
    <3>1. p.ammo[a] \in 0 .. p.maxammo[a] /\ p.maxammo[a] \in Nat /\ q.ammo[a] \in Int /\ q.maxammo[a] \in Nat
      BY <1>1 DEF Equipped, Player
    <3>2. q.ammo[a] >= p.ammo[a] /\ q.ammo[a] <= q.maxammo[a]
      BY DEF Richer
    <3>. QED  BY <3>1, <3>2
  <2>. QED  BY <1>1, <2>1, <2>2 DEF Equipped
<1>3. q.frame = 2 => Changes(q)
  <2>1. q.owned \in SUBSET Weapons /\ wp_nochange \notin Weapons
    BY <1>1 DEF Player, Weapons, wp_nochange
  <2>. QED  BY <1>1, <2>1 DEF Holds, Changes, Richer
<1>4. Enough(p) => Enough(q)
  <2>1. CASE AmmoOf[p.ready] = "noammo"
    BY <2>1 DEF Enough, Richer
  <2>2. ASSUME NEW a \in Ammo, a = AmmoOf[p.ready], Enough(p) PROVE Enough(q)
    <3>1. Shot(p.ready) \in Nat /\ p.ammo[a] \in Int /\ q.ammo[a] \in Int /\ "noammo" \notin Ammo
      BY <1>1, ShotIs DEF Player
    <3>2. p.ammo[a] >= Shot(p.ready) /\ q.ammo[a] >= p.ammo[a] /\ q.ready = p.ready
      BY <2>2, <3>1 DEF Enough, Richer
    <3>3. q.ammo[a] >= Shot(p.ready)
      BY <3>1, <3>2
    <3>. QED  BY <2>2, <3>2, <3>3 DEF Enough
  <2>3. AmmoOf[p.ready] \in Ammo \cup {"noammo"}
    BY <1>1, ShotIs
  <2>. QED  BY <2>1, <2>2, <2>3
<1>5. q.shown = p.shown /\ q.ready = p.ready /\ q.frame = p.frame /\ q.playerstate = p.playerstate /\ (p.health => q.health)
  BY DEF Richer
<1>. QED  BY <1>1, <1>2, <1>3, <1>4, <1>5 DEF Holds

(* A key.                                                                  *)
LEMMA ChangeHolds ==
    ASSUME NEW p, NEW w, NEW strength, Holds(p)
    PROVE  Holds(ChangeWeapon(p, w, strength)) /\ ChangeWeapon(p, w, strength).playerstate = p.playerstate
<1>1. p \in Player /\ p.owned \in SUBSET Weapons /\ \A a \in Ammo : p.ammo[a] \in 0 .. p.maxammo[a]
  BY DEF Holds, Equipped, Player
<1>2. CASE ChangeWeapon(p, w, strength) = p
  BY <1>2
<1>3. CASE ChangeWeapon(p, w, strength) # p
  <2>1. PICK new \in p.owned : ChangeWeapon(p, w, strength) = [p EXCEPT !.pending = new]
    BY <1>3 DEF ChangeWeapon
  <2>. DEFINE q == [p EXCEPT !.pending = new]
  <2>2. /\ q \in Player /\ q.ready = p.ready /\ q.pending = new /\ q.owned = p.owned /\ q.ammo = p.ammo
        /\ q.maxammo = p.maxammo /\ q.playerstate = p.playerstate /\ q.health = p.health
        /\ q.shown = p.shown /\ q.frame = p.frame
    BY <1>1, <2>1 DEF Player
  <2>. HIDE DEF q
  <2>3. \A a \in Ammo : q.ammo[a] >= p.ammo[a] /\ q.ammo[a] <= q.maxammo[a]
    BY <1>1, <2>2 DEF Player
  <2>4. Richer(p, q)
    BY <2>1, <2>2, <2>3 DEF Richer
  <2>. QED  BY <2>1, <2>2, <2>4, RicherHolds DEF q
<1>. QED  BY <1>2, <1>3

(* Ammunition is found.                                                    *)
LEMMA GiveAmmoHolds ==
    ASSUME NEW p, NEW a \in Ammo, NEW num \in Nat, Holds(p)
    PROVE  /\ Holds(P_GiveAmmo(p, a, num)) /\ P_GiveAmmo(p, a, num).playerstate = p.playerstate
           /\ P_GiveAmmo(p, a, num).owned = p.owned
<1>1. /\ p \in Player /\ p.owned \in SUBSET Weapons /\ p.ammo \in [Ammo -> Int] /\ p.maxammo \in [Ammo -> Nat]
      /\ \A b \in Ammo : p.ammo[b] \in 0 .. p.maxammo[b]
  BY DEF Holds, Equipped, Player
<1>. DEFINE n == IF p.ammo[a] + num > p.maxammo[a] THEN p.maxammo[a] ELSE p.ammo[a] + num
            m == [p.ammo EXCEPT ![a] = n]
            q == [p EXCEPT !.ammo = m]
            r == [q EXCEPT !.pending = Better(p, a)]
<1>2. n \in Int /\ n >= p.ammo[a] /\ n <= p.maxammo[a]
  <2>1. p.ammo[a] \in 0 .. p.maxammo[a] /\ p.maxammo[a] \in Nat /\ p.ammo[a] \in Int
    BY <1>1
  <2>. QED  BY <2>1
<1>. HIDE DEF n
<1>3. m \in [Ammo -> Int] /\ \A b \in Ammo : m[b] >= p.ammo[b] /\ m[b] <= p.maxammo[b]
  <2>1. m \in [Ammo -> Int] /\ m[a] = n /\ \A b \in Ammo \ {a} : m[b] = p.ammo[b]
    BY <1>1, <1>2
  <2>. HIDE DEF m
  <2>2. ASSUME NEW b \in Ammo PROVE m[b] >= p.ammo[b] /\ m[b] <= p.maxammo[b]
    <3>1. p.ammo[b] \in 0 .. p.maxammo[b] /\ p.maxammo[b] \in Nat /\ p.ammo[b] \in Int
      BY <1>1
    <3>2. CASE b = a
      BY <1>2, <2>1, <3>2
    <3>3. CASE b # a
      BY <2>1, <3>1, <3>3
    <3>. QED  BY <3>2, <3>3
  <2>. QED  BY <2>1, <2>2
<1>4. P_GiveAmmo(p, a, num) = p \/ P_GiveAmmo(p, a, num) = q
      \/ (Better(p, a) \in p.owned /\ P_GiveAmmo(p, a, num) = r)
  <2>. DEFINE g == [p EXCEPT !.ammo[a] = IF @ + num > p.maxammo[a] THEN p.maxammo[a] ELSE @ + num]
  <2>1. P_GiveAmmo(p, a, num) =
            IF p.ammo[a] = p.maxammo[a] THEN p
            ELSE IF p.ammo[a] = 0 /\ Better(p, a) \in p.owned THEN [g EXCEPT !.pending = Better(p, a)] ELSE g
    BY DEF P_GiveAmmo
  <2>2. g = q
    BY <1>1, SMTT(30) DEF n, Player
  <2>. HIDE DEF g, q
  <2>. QED  BY <2>1, <2>2
<1>. HIDE DEF m
<1>5. /\ q \in Player /\ q.ready = p.ready /\ q.pending = p.pending /\ q.owned = p.owned /\ q.ammo = m
      /\ q.maxammo = p.maxammo /\ q.playerstate = p.playerstate /\ q.health = p.health
      /\ q.shown = p.shown /\ q.frame = p.frame
  BY <1>1, <1>3 DEF Player
<1>. HIDE DEF q
<1>6. ASSUME Better(p, a) \in p.owned
      PROVE  /\ r \in Player /\ r.ready = p.ready /\ r.pending \in p.owned /\ r.owned = p.owned /\ r.ammo = m
             /\ r.maxammo = p.maxammo /\ r.playerstate = p.playerstate /\ r.health = p.health
             /\ r.shown = p.shown /\ r.frame = p.frame
  BY <1>1, <1>5, <1>6 DEF Player
<1>. HIDE DEF r
<1>7. Holds(q)
  <2>1. Richer(p, q)
    BY <1>3, <1>5 DEF Richer
  <2>. QED  BY <2>1, RicherHolds
<1>8. ASSUME Better(p, a) \in p.owned PROVE Holds(r)
  <2>1. Richer(p, r)
    BY <1>3, <1>6, <1>8 DEF Richer
  <2>. QED  BY <2>1, RicherHolds
<1>. QED  BY <1>4, <1>5, <1>6, <1>7, <1>8

(* A weapon is found.                                                      *)
LEMMA GiveWeaponHolds ==
    ASSUME NEW p, NEW w \in Weapons, NEW num \in Nat, Holds(p) PROVE Holds(P_GiveWeapon(p, w, num))
<1>. DEFINE q == IF AmmoOf[w] = "noammo" THEN p ELSE P_GiveAmmo(p, AmmoOf[w], num)
            r == [q EXCEPT !.owned = q.owned \cup {w}, !.pending = w]
<1>1. P_GiveWeapon(p, w, num) \in {q, r}
  BY DEF P_GiveWeapon
<1>2. Holds(q)
  BY ShotIs, GiveAmmoHolds
<1>. HIDE DEF q
<1>3. q \in Player /\ q.owned \in SUBSET Weapons /\ \A a \in Ammo : q.ammo[a] \in 0 .. q.maxammo[a]
  BY <1>2 DEF Holds, Equipped, Player
<1>4. /\ r \in Player /\ r.ready = q.ready /\ r.pending = w /\ r.owned = q.owned \cup {w} /\ r.ammo = q.ammo
      /\ r.maxammo = q.maxammo /\ r.playerstate = q.playerstate /\ r.health = q.health
      /\ r.shown = q.shown /\ r.frame = q.frame
  BY <1>3 DEF Player
<1>. HIDE DEF r
<1>5. \A a \in Ammo : r.ammo[a] >= q.ammo[a] /\ r.ammo[a] <= r.maxammo[a]
  BY <1>3, <1>4 DEF Player
<1>6. Richer(q, r)
  BY <1>4, <1>5 DEF Richer
<1>. QED  BY <1>1, <1>2, <1>6, RicherHolds

(* A backpack is found.                                                    *)
LEMMA BackpackHolds == ASSUME NEW p, Holds(p) PROVE Holds(Backpack(p))
<1>. DEFINE m == [a \in Ammo |-> 2 * p.maxammo[a]]
            q == [p EXCEPT !.backpack = TRUE, !.maxammo = m]
            r == IF p.backpack THEN p ELSE q
            r1 == P_GiveAmmo(r, "clip", 1)
            r2 == P_GiveAmmo(r1, "shell", 1)
            r3 == P_GiveAmmo(r2, "cell", 1)
<1>1. /\ p \in Player /\ p.maxammo \in [Ammo -> Nat] /\ p.ammo \in [Ammo -> Int]
      /\ \A a \in Ammo : p.ammo[a] \in 0 .. p.maxammo[a]
  BY DEF Holds, Equipped, Player
<1>2. m \in [Ammo -> Nat] /\ \A a \in Ammo : p.ammo[a] >= p.ammo[a] /\ p.ammo[a] <= m[a]
  <2>1. ASSUME NEW a \in Ammo PROVE 2 * p.maxammo[a] \in Nat /\ p.ammo[a] \in Int /\ p.ammo[a] <= 2 * p.maxammo[a]
    <3>1. p.maxammo[a] \in Nat /\ p.ammo[a] \in 0 .. p.maxammo[a]
      BY <1>1
    <3>. QED  BY <3>1
  <2>. QED  BY <2>1
<1>. HIDE DEF m
<1>3. /\ q \in Player /\ q.ready = p.ready /\ q.pending = p.pending /\ q.owned = p.owned /\ q.ammo = p.ammo
      /\ q.maxammo = m /\ q.playerstate = p.playerstate /\ q.health = p.health
      /\ q.shown = p.shown /\ q.frame = p.frame
  BY <1>1, <1>2 DEF Player
<1>. HIDE DEF q
<1>4. Richer(p, q)
  BY <1>2, <1>3 DEF Richer
<1>5. Holds(r)
  BY <1>4, RicherHolds
<1>6. Backpack(p) = P_GiveAmmo(r3, "misl", 1)
  BY DEF Backpack, WithOne, q, m
<1>. HIDE DEF r
<1>7. "clip" \in Ammo /\ "shell" \in Ammo /\ "cell" \in Ammo /\ "misl" \in Ammo /\ 1 \in Nat
  BY DEF Ammo
<1>8. Holds(r1)
  BY <1>5, <1>7, GiveAmmoHolds
<1>. HIDE DEF r1
<1>9. Holds(r2)
  BY <1>7, <1>8, GiveAmmoHolds
<1>. HIDE DEF r2
<1>10. Holds(r3)
  BY <1>7, <1>9, GiveAmmoHolds
<1>. HIDE DEF r3
<1>. QED  BY <1>6, <1>7, <1>10, GiveAmmoHolds

(* The player dies.                                                        *)
LEMMA KillHolds ==
    ASSUME NEW p, Holds(p), p.playerstate \in {"LIVE", "DEAD"}
    PROVE  Holds(Kill(p)) /\ Kill(p).playerstate = "DEAD"
<1>. DEFINE q == [p EXCEPT !.health = FALSE, !.playerstate = "DEAD"]
<1>1. Equipped(p) /\ p \in Player
  BY DEF Holds, Equipped
<1>2. /\ q \in Player /\ q.ready = p.ready /\ q.pending = p.pending /\ q.owned = p.owned /\ q.ammo = p.ammo
      /\ q.maxammo = p.maxammo /\ q.playerstate = "DEAD"
  BY <1>1 DEF Player
<1>3. Kill(p) = Lowered(q)
  BY DEF Kill
<1>. HIDE DEF q
<1>4. Equipped(q) /\ Able(q) /\ Changes(q)
  BY <1>1, <1>2 DEF Equipped, Able, Changes
<1>. QED  BY <1>2, <1>3, <1>4, LoweredKeeps DEF Keeps

(* The player comes into a level, as it is or reborn.                      *)
LEMMA SpawnHolds ==
    ASSUME NEW p, p \in Player, p.playerstate # "REBORN" => Equipped(p) /\ p.health
    PROVE  Holds(P_SpawnPlayer(p))
<1>. DEFINE b == IF p.playerstate = "REBORN" THEN G_PlayerReborn(p) ELSE p
            c == [b EXCEPT !.playerstate = "LIVE"]
            d == [c EXCEPT !.frame = 0, !.pending = c.ready]
            u == [d EXCEPT !.pending = wp_nochange, !.sy = Bottom - 1]
            t == Shows(u, c.ready, 3)
<1>1. /\ "pistol" \in Weapons /\ {"fist", "pistol"} \in SUBSET Weapons /\ MaxAmmo \in [Ammo -> Nat]
      /\ [a \in Ammo |-> IF a = "clip" THEN MaxAmmo[a] ELSE 0] \in [Ammo -> Int]
      /\ \A a \in Ammo : (IF a = "clip" THEN MaxAmmo[a] ELSE 0) \in 0 .. MaxAmmo[a]
      /\ Bottom - 1 \in 0 .. Bottom /\ 0 \in 0 .. 10
  BY WeaponsAssumption DEF Weapons
<1>2. Equipped(b) /\ b.health
  <2>1. CASE p.playerstate = "REBORN"
    <3>. DEFINE n == [a \in Ammo |-> IF a = "clip" THEN MaxAmmo[a] ELSE 0]
                g == [p EXCEPT !.ready = "pistol", !.pending = "pistol", !.owned = {"fist", "pistol"}, !.ammo = n,
                               !.maxammo = MaxAmmo, !.backpack = FALSE, !.health = TRUE, !.attackdown = TRUE]
    <3>1. b = g
      BY <2>1 DEF G_PlayerReborn
    <3>2. \A a \in Ammo : n[a] \in 0 .. MaxAmmo[a]
      BY <1>1
    <3>3. n \in [Ammo -> Int]
      BY <1>1
    <3>. HIDE DEF n
    <3>4. /\ g \in Player /\ g.ready = "pistol" /\ g.pending = "pistol" /\ g.owned = {"fist", "pistol"}
          /\ g.ammo = n /\ g.maxammo = MaxAmmo /\ g.health = TRUE
      BY <1>1, <3>3 DEF Player
    <3>. HIDE DEF g, b
    <3>. QED  BY <3>1, <3>2, <3>4 DEF Equipped
  <2>2. CASE p.playerstate # "REBORN"
    BY <2>2
  <2>. QED  BY <2>1, <2>2
<1>. HIDE DEF b
<1>3. b \in Player /\ b.ready \in Weapons
  BY <1>2 DEF Equipped, Player
<1>4. /\ c \in Player /\ c.ready = b.ready /\ c.pending = b.pending /\ c.owned = b.owned /\ c.ammo = b.ammo
      /\ c.maxammo = b.maxammo /\ c.playerstate = "LIVE" /\ c.health = b.health
  BY <1>3 DEF Player
<1>. HIDE DEF c
<1>5. /\ d \in Player /\ d.ready = c.ready /\ d.pending = c.ready /\ d.owned = c.owned /\ d.ammo = c.ammo
      /\ d.maxammo = c.maxammo /\ d.playerstate = "LIVE" /\ d.health = c.health
  BY <1>1, <1>3, <1>4 DEF Player
<1>6. P_SpawnPlayer(p) = P_BringUpWeapon(d)
  BY DEF P_SpawnPlayer, P_SetupPsprites, b, c
<1>. HIDE DEF d
<1>7. c.ready # wp_nochange
  BY <1>3, <1>4 DEF Weapons, wp_nochange
<1>8. P_BringUpWeapon(d) = t
  BY <1>5, <1>7 DEF P_BringUpWeapon
<1>9. /\ u \in Player /\ u.ready = c.ready /\ u.pending = wp_nochange /\ u.owned = c.owned /\ u.ammo = c.ammo
      /\ u.maxammo = c.maxammo /\ u.playerstate = "LIVE" /\ u.health = c.health
  BY <1>1, <1>5 DEF Player
<1>. HIDE DEF u
<1>10. Equipped(u) /\ Able(u) /\ c.ready \in Weapons /\ 3 \in 0 .. 10
  BY <1>2, <1>3, <1>4, <1>9 DEF Equipped, Able
<1>. HIDE DEF t
<1>11. Equipped(t) /\ Able(t)
  BY <1>10, ShowsIs DEF t
<1>12. t.shown = c.ready /\ t.frame = 3 /\ t.ready = u.ready /\ t.playerstate = u.playerstate
  BY <1>10, ShowsIs DEF t
<1>13. LastOf(c.ready) \in 5 .. 10
  BY <1>10, AttackIs
<1>. QED  BY <1>6, <1>8, <1>9, <1>11, <1>12, <1>13 DEF Holds, Able

(* The game begins with a player to be born.                               *)
LEMMA InitWeapons == WeaponsInit => WeaponsInv
<1>. SUFFICES ASSUME WeaponsInit PROVE WeaponsInv
  OBVIOUS
<1>. DEFINE new == [ready |-> "fist", pending |-> wp_nochange, owned |-> {}, ammo |-> MaxAmmo, maxammo |-> MaxAmmo,
                    backpack |-> FALSE, health |-> FALSE, playerstate |-> "REBORN", attackdown |-> FALSE,
                    shown |-> "fist", frame |-> 0, sy |-> 0]
<1>1. game \in Games /\ player = P_SpawnPlayer(new)
  BY DEF WeaponsInit
<1>2. MaxAmmo \in [Ammo -> Int] /\ MaxAmmo \in [Ammo -> Nat] /\ 0 \in 0 .. Bottom /\ "fist" \in Weapons
  BY WeaponsAssumption DEF Weapons
<1>3. new \in Player /\ new.playerstate = "REBORN"
  BY <1>2 DEF Player
<1>. HIDE DEF new
<1>. QED  BY <1>1, <1>3, SpawnHolds DEF WeaponsInv

(* Tics of the living and the dead.                                        *)
LEMMA ThinkHolds == ASSUME WeaponsInv, Think PROVE WeaponsInv'
<1>1. PICK p \in {player, Kill(player)}, attack \in BOOLEAN :
        \E q \in {p} \cup {ChangeWeapon(p, w, strength) : w \in game.arms \ {"supershotgun"}, strength \in BOOLEAN} :
            player' \in P_MovePsprites(q, attack)
  BY DEF Think
<1>2. PICK q \in {p} \cup {ChangeWeapon(p, w, strength) : w \in game.arms \ {"supershotgun"}, strength \in BOOLEAN} :
        player' \in P_MovePsprites(q, attack)
  BY <1>1
<1>3. Holds(player) /\ player.playerstate = "LIVE" /\ game' = game /\ game \in Games
  BY DEF Think, WeaponsInv
<1>4. Holds(p) /\ p.playerstate \in {"LIVE", "DEAD"}
  <2>1. CASE p = player
    BY <1>3, <2>1
  <2>2. CASE p = Kill(player)
    BY <1>3, <2>2, KillHolds
  <2>. QED  BY <2>1, <2>2
<1>5. Holds(q) /\ q.playerstate = p.playerstate
  <2>1. CASE q = p
    BY <1>4, <2>1
  <2>2. ASSUME NEW w, NEW strength, q = ChangeWeapon(p, w, strength) PROVE Holds(q) /\ q.playerstate = p.playerstate
    BY <1>4, <2>2, ChangeHolds
  <2>. QED  BY <2>1, <2>2
<1>6. Able(q)
  BY <1>4, <1>5 DEF Able, Holds
<1>7. Keeps(q, player')
  BY <1>2, <1>5, <1>6, MoveKeeps
<1>. QED  BY <1>3, <1>7 DEF Keeps, WeaponsInv

(* The dead wait for use.                                                  *)
LEMMA DeathThinkHolds == ASSUME WeaponsInv, DeathThink PROVE WeaponsInv'
<1>1. PICK attack \in BOOLEAN, use \in BOOLEAN : \E p \in P_MovePsprites(player, attack) :
        player' = IF use THEN [p EXCEPT !.playerstate = "REBORN"] ELSE p
  BY DEF DeathThink
<1>2. PICK p \in P_MovePsprites(player, attack) : player' = IF use THEN [p EXCEPT !.playerstate = "REBORN"] ELSE p
  BY <1>1
<1>3. Holds(player) /\ player.playerstate = "DEAD" /\ game' = game /\ game \in Games
  BY DEF DeathThink, WeaponsInv
<1>4. Holds(p)
  <2>1. Able(player)
    BY <1>3 DEF Able
  <2>. QED  BY <1>2, <1>3, <2>1, MoveKeeps DEF Keeps
<1>. DEFINE q == [p EXCEPT !.playerstate = "REBORN"]
<1>5. /\ q \in Player /\ q.ready = p.ready /\ q.pending = p.pending /\ q.owned = p.owned /\ q.ammo = p.ammo
      /\ q.maxammo = p.maxammo /\ q.playerstate = "REBORN" /\ q.shown = p.shown /\ q.frame = p.frame
  BY <1>4 DEF Holds, Equipped, Player
<1>. HIDE DEF q
<1>6. Equipped(q) /\ (Enough(p) => Enough(q)) /\ q.playerstate # "LIVE"
  BY <1>4, <1>5 DEF Holds, Equipped, Enough
<1>7. q.shown = q.ready /\ q.frame \in 1 .. LastOf(q.shown)
  BY <1>4, <1>5 DEF Holds
<1>8. q.frame = 4 /\ ActionOf(q.shown, 4) = "none" => Enough(q)
  BY <1>4, <1>5, <1>6 DEF Holds
<1>9. Holds(q)
  BY <1>6, <1>7, <1>8 DEF Holds, Changes
<1>10. player' \in {p, q}
  BY <1>2 DEF q
<1>. QED  BY <1>3, <1>4, <1>9, <1>10 DEF WeaponsInv

(* What is found.                                                          *)
LEMMA TouchHolds == ASSUME WeaponsInv, Touch PROVE WeaponsInv'
<1>1. Holds(player) /\ game' = game /\ game \in Games /\ game.arms \in SUBSET Weapons /\ 1 \in Nat /\ 2 \in Nat
  BY WeaponsAssumption DEF Touch, WeaponsInv
<1>2. ASSUME NEW w \in game.arms, player' = P_GiveWeapon(player, w, 2) PROVE Holds(player')
  BY <1>1, <1>2, GiveWeaponHolds
<1>3. ASSUME NEW w \in game.arms, AmmoOf[w] # "noammo", player' = P_GiveAmmo(player, AmmoOf[w], 1) PROVE Holds(player')
  <2>1. w \in Weapons
    BY <1>1
  <2>2. AmmoOf[w] \in Ammo
    BY <1>3, <2>1, ShotIs
  <2>. QED  BY <1>1, <1>3, <2>2, GiveAmmoHolds
<1>4. ASSUME player' = Backpack(player) PROVE Holds(player')
  BY <1>1, <1>4, BackpackHolds
<1>. QED  BY <1>1, <1>2, <1>3, <1>4 DEF Touch, WeaponsInv

(* What is cheated.                                                        *)
LEMMA CheatHolds == ASSUME WeaponsInv, Cheat PROVE WeaponsInv'
<1>1. Holds(player) /\ game' = game /\ game \in Games /\ game.arms \in SUBSET Weapons /\ "chainsaw" \in Weapons
  BY WeaponsAssumption DEF Cheat, WeaponsInv, Weapons
<1>2. /\ player \in Player /\ player.maxammo \in [Ammo -> Nat] /\ player.owned \in SUBSET Weapons
      /\ \A a \in Ammo : player.ammo[a] \in 0 .. player.maxammo[a] /\ player.ammo[a] \in Int /\ player.maxammo[a] \in Nat
  BY <1>1 DEF Holds, Equipped, Player
<1>. DEFINE q1 == [player EXCEPT !.owned = player.owned \cup game.arms, !.ammo = player.maxammo]
            q2 == [player EXCEPT !.owned = player.owned \cup {"chainsaw"}]
            q3 == [player EXCEPT !.health = TRUE]
<1>3. player' \in {q1, q2, q3}
  BY DEF Cheat
<1>4. Richer(player, q1)
  <2>1. player.maxammo \in [Ammo -> Int]
    BY <1>2
  <2>2. /\ q1 \in Player /\ q1.ready = player.ready /\ q1.pending = player.pending /\ player.owned \subseteq q1.owned
        /\ q1.ammo = player.maxammo /\ q1.maxammo = player.maxammo /\ q1.playerstate = player.playerstate
        /\ q1.health = player.health /\ q1.shown = player.shown /\ q1.frame = player.frame
    BY <1>1, <1>2, <2>1 DEF Player
  <2>. HIDE DEF q1
  <2>. QED  BY <1>2, <2>2 DEF Richer
<1>5. Richer(player, q2)
  <2>1. /\ q2 \in Player /\ q2.ready = player.ready /\ q2.pending = player.pending /\ player.owned \subseteq q2.owned
        /\ q2.ammo = player.ammo /\ q2.maxammo = player.maxammo /\ q2.playerstate = player.playerstate
        /\ q2.health = player.health /\ q2.shown = player.shown /\ q2.frame = player.frame
    BY <1>1, <1>2 DEF Player
  <2>. HIDE DEF q2
  <2>. QED  BY <1>2, <2>1 DEF Richer
<1>6. Richer(player, q3)
  <2>1. /\ q3 \in Player /\ q3.ready = player.ready /\ q3.pending = player.pending /\ q3.owned = player.owned
        /\ q3.ammo = player.ammo /\ q3.maxammo = player.maxammo /\ q3.playerstate = player.playerstate
        /\ q3.health = TRUE /\ q3.shown = player.shown /\ q3.frame = player.frame
    BY <1>2 DEF Player
  <2>. HIDE DEF q3
  <2>. QED  BY <1>2, <2>1 DEF Richer
<1>. HIDE DEF q1, q2, q3
<1>. QED  BY <1>1, <1>3, <1>4, <1>5, <1>6, RicherHolds DEF WeaponsInv

(* The next level, and the same one again.                                 *)
LEMMA LevelHolds == ASSUME WeaponsInv, NextLevel \/ Reborn PROVE WeaponsInv'
<1>1. Holds(player) /\ Equipped(player) /\ player \in Player /\ game' = game /\ game \in Games
  BY DEF NextLevel, Reborn, WeaponsInv, Holds, Equipped
<1>2. CASE Reborn
  BY <1>1, <1>2, SpawnHolds DEF Reborn, WeaponsInv
<1>3. CASE NextLevel
  <2>. DEFINE p == [player EXCEPT !.playerstate = IF player.playerstate = "DEAD" THEN "REBORN" ELSE player.playerstate]
  <2>1. player.playerstate \in {"LIVE", "DEAD"} /\ player' = P_SpawnPlayer(p)
    BY <1>1, <1>3 DEF NextLevel, Player
  <2>2. p \in Player
    BY <1>1 DEF Player
  <2>3. CASE player.playerstate = "DEAD"
    <3>1. p.playerstate = "REBORN"
      BY <1>1, <2>3 DEF Player
    <3>. HIDE DEF p
    <3>. QED  BY <1>1, <2>1, <2>2, <3>1, SpawnHolds DEF WeaponsInv
  <2>4. CASE player.playerstate = "LIVE"
    <3>1. p = player
      BY <1>1, <2>4 DEF Player
    <3>2. player.health
      BY <1>1, <2>4 DEF Holds
    <3>. HIDE DEF p
    <3>. QED  BY <1>1, <2>1, <2>2, <3>1, <3>2, SpawnHolds DEF WeaponsInv
  <2>. QED  BY <2>1, <2>3, <2>4
<1>. QED  BY <1>2, <1>3

(* The weapons' invariant, of every step.                                  *)
THEOREM WeaponsInvariant == WeaponsSpec => []WeaponsInv
<1>1. WeaponsInv /\ [WeaponsNext]_weaponVars => WeaponsInv'
  <2>. SUFFICES ASSUME WeaponsInv, [WeaponsNext]_weaponVars PROVE WeaponsInv'
    OBVIOUS
  <2>1. CASE Think
    BY <2>1, ThinkHolds
  <2>2. CASE DeathThink
    BY <2>2, DeathThinkHolds
  <2>3. CASE Die
    <3>1. Holds(player) /\ player.playerstate \in {"LIVE", "DEAD"} /\ player' = Kill(player) /\ game' = game
      BY <2>3 DEF Die, WeaponsInv
    <3>. QED  BY <3>1, KillHolds DEF WeaponsInv
  <2>4. CASE Touch
    BY <2>4, TouchHolds
  <2>5. CASE Cheat
    BY <2>5, CheatHolds
  <2>6. CASE NextLevel \/ Reborn
    BY <2>6, LevelHolds
  <2>7. CASE UNCHANGED weaponVars
    BY <2>7 DEF weaponVars, WeaponsInv
  <2>. QED  BY <2>1, <2>2, <2>3, <2>4, <2>5, <2>6, <2>7 DEF WeaponsNext
<1>. QED  BY <1>1, InitWeapons, PTL DEF WeaponsSpec

(* The player's fields are of their types: there is a weapon at hand and   *)
(* on the screen, in one of its states, at a height there is.              *)
THEOREM WeaponsTypes == WeaponsSpec => []WeaponsTypeOK
<1>1. WeaponsInv => WeaponsTypeOK
  BY DEF WeaponsInv, WeaponsTypeOK, Holds, Equipped
<1>. QED  BY <1>1, WeaponsInvariant, PTL

(* Whatever the order of keys, shots, pick-ups, cheats, deaths and levels, *)
(* the player owns the weapon at hand and the one to come, sees the one it *)
(* fires, and has neither less than no ammunition nor more than can be     *)
(* carried: a shot takes what was looked at some states before.            *)
THEOREM WeaponsStayArmed == WeaponsSpec => []Armed
<1>1. WeaponsInv => Armed
  <2>. SUFFICES ASSUME WeaponsInv PROVE Armed
    OBVIOUS
  <2>1. Holds(player) /\ Equipped(player) /\ player.shown \in Weapons
    BY DEF WeaponsInv, Holds, Equipped, Player
  <2>2. LastOf(player.shown) \in 5 .. 10
    BY <2>1, AttackIs
  <2>3. player.frame # 0
    BY <2>1, <2>2 DEF Holds
  <2>. QED  BY <2>1, <2>3 DEF Armed, Holds, Equipped
<1>. QED  BY <1>1, WeaponsInvariant, PTL
=============================================================================
