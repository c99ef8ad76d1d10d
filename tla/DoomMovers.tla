----------------------------- MODULE DoomMovers -----------------------------
(***************************************************************************)
(* DOOM's moving sectors: the thinker list of csrc/doom/p_tick.c, the      *)
(* plats, doors, floors and ceilings on it, the lines that set them off    *)
(* (p_spec.c, p_switch.c) and what a saved game keeps of them              *)
(* (p_saveg.c).                                                            *)
(*                                                                         *)
(* A tic runs the list from its head to its tail, and a thing that moves   *)
(* in the course of it may cross a line, so lines are triggered between    *)
(* any two thinkers.  Heights are left out: how far T_MovePlane got is     *)
(* chosen anew each time.  Sounds, textures, lights and keys are left out. *)
(* Thinkers are numbered by the memory they are in: a number is used again *)
(* as soon as its thinker is freed.                                        *)
(***************************************************************************)
EXTENDS Integers, Sequences, FiniteSets, FiniteSetsExt, SequencesExt

CONSTANTS Sectors,     \* a set of numbers
          Tag,         \* sector -> its tag
          Beside,      \* sector -> the next stair, or itself if it is the last, and the
                       \* ring around a donut's hole
          DoorIn5,     \* sectors with special 14: a door that rises after 5 minutes
          Lines,       \* line -> [by, ev, type, tag, side, once]: if it is crossed or used,
                       \* what it calls, with what type, the sectors it is about (by tag,
                       \* or, for a manual door, the one on its back side) and if it
                       \* works only once
          MaxPlats,    \* MAXPLATS
          MaxCeilings, \* MAXCEILINGS
          Memory,      \* bound: thinkers at a time
          Wait         \* bound: tics that plats and doors wait

Nobody == 0            \* NULL

ASSUME MoversAssumption ==
    /\ Sectors \subseteq Nat /\ IsFiniteSet(Sectors) /\ Sectors # {}
    /\ Beside \in [Sectors -> Sectors] /\ DoorIn5 \subseteq Sectors /\ Cardinality(DoorIn5) <= Memory
    /\ \A l \in DOMAIN Lines : Lines[l].ev = "manual" => Lines[l].side \in Sectors
    \* A donut has a ring.  (EV_DoDonut gives up at the first that has none.)
    /\ \A l \in DOMAIN Lines : Lines[l].ev = "EV_DoDonut" => \A s \in Sectors : Tag[s] = Lines[l].tag => Beside[s] # s
    /\ MaxPlats \in Nat /\ MaxCeilings \in Nat /\ Memory \in Nat /\ Wait \in Nat
    \* Behind a manual door line is nothing but doors.  (EV_VerticalDoor takes whatever
    \* moves there for one, and writes over other structures' members.)
    /\ \A k, l \in DOMAIN Lines :
           Lines[k].ev = "manual" /\ Lines[l].ev \notin {"manual", "EV_DoDoor"} =>
               /\ Lines[l].tag # Tag[Lines[k].side]
               /\ \A s \in Sectors \ {Lines[k].side} : Beside[s] # Lines[k].side

VARIABLES thinkers,       \* the list at thinkercap
          mover,          \* what is in the memory of each thinker
          specialdata,    \* sector -> the thinker its specialdata points at
          activeplats, activeceilings,
          current,        \* position of the thinker that runs next; 0 between tics
          used,           \* lines that worked once and have: special = 0
          stopped         \* I_Error has stopped the game

moverVars == <<thinkers, mover, specialdata, activeplats, activeceilings, current, used, stopped>>

States == {"up", "down", "waiting", "initial", "stasis"}
Types == {"raiseIn5Mins", "normal", "stair", "donutRaise", "lowerFloor"} \cup {Lines[l].type : l \in DOMAIN Lines}
Mover == [kind : {"plat", "door", "floor", "ceiling"}, type : Types, sector : Sectors,
          state : States, old : States \cup {"none"}, count : -1 .. Wait, function : {"runs", "null", "removed"}]
Made(kind, type, s, state, count) ==
    [kind |-> kind, type |-> type, sector |-> s, state |-> state, old |-> "none", count |-> count,
     function |-> "runs"]

Living == {id \in Range(thinkers) : mover[id].function # "removed"}
Tagged(t) == {s \in Sectors : Tag[s] = t}
NoMover == Made("floor", "normal", Min(Sectors), "up", 0)      \* what free memory holds
InOrder(S) == CHOOSE q \in [1 .. Cardinality(S) -> S] : \A i, j \in DOMAIN q : i < j => q[i] < q[j]

(* What a loop makes of x in n turns.                                      *)
Turns(loop, x, n) ==
    LET after[k \in 0 .. n] == IF k = 0 THEN x ELSE loop[after[k - 1]]
    IN  after[n]

-----------------------------------------------------------------------------
(* New thinkers: memory, the end of the list, specialdata.                 *)

(* P_AddActivePlat and P_AddActiveCeiling take the first free place.  For  *)
(* a ceiling that finds none, nothing happens; for a plat, I_Error.        *)
FreePlaces(array) == {k \in DOMAIN array : array[k] = Nobody}
PutAll(array, ids) ==
    LET free == InOrder(FreePlaces(array))
        put(k) == {i \in DOMAIN ids \cap DOMAIN free : free[i] = k}
    IN  [k \in DOMAIN array |-> IF put(k) = {} THEN array[k] ELSE ids[Max(put(k))]]
Fits(array, ids) == Len(ids) <= Cardinality(FreePlaces(array))

OfKind(ids, recs, kind) == LET I == {i \in DOMAIN ids : recs[i].kind = kind}
                           IN  [j \in 1 .. Cardinality(I) |-> ids[InOrder(I)[j]]]

(* The movers recs are made, in this order, in a game whose movers and     *)
(* arrays are these.                                                       *)
Spawn(recs, list, contents, data, plats, ceilings) ==
    LET ids == SubSeq(InOrder((1 .. Memory) \ Range(list)), 1, Len(recs))
        made(s) == {i \in DOMAIN recs : recs[i].sector = s}
    IN  /\ Len(recs) <= Memory - Len(list)     \* bound
        /\ thinkers' = list \o ids
        /\ mover' = [id \in 1 .. Memory |->
                        IF \E i \in DOMAIN ids : ids[i] = id
                        THEN recs[CHOOSE i \in DOMAIN ids : ids[i] = id] ELSE contents[id]]
        /\ specialdata' = [s \in Sectors |-> IF made(s) = {} THEN data[s] ELSE ids[Max(made(s))]]
        /\ activeplats' = PutAll(plats, OfKind(ids, recs, "plat"))
        /\ activeceilings' = PutAll(ceilings, OfKind(ids, recs, "ceiling"))
        /\ stopped' = ~Fits(plats, OfKind(ids, recs, "plat"))

-----------------------------------------------------------------------------
(* One call of a thinker's function.  Result: how far the plane moved.     *)

Results == {"ok", "pastdest", "crushed"}
Removed(m) == [NoMover EXCEPT !.kind = m.kind, !.sector = m.sector, !.function = "removed"]

(* --count, and what it becomes; below 0 it takes years to come round.     *)
Counted(m) == [m EXCEPT !.count = IF @ < 0 THEN @ ELSE @ - 1]

T_PlatRaise(m, r) ==
    CASE m.state = "up" /\ r = "crushed" -> {[m EXCEPT !.state = "down", !.count = IF m.type = "raise" THEN 0 ELSE Wait]}
      [] m.state = "up" /\ r = "pastdest" ->
             {IF m.type = "perpetual" THEN [m EXCEPT !.state = "waiting", !.count = Wait] ELSE Removed(m)}
      [] m.state = "down" /\ r = "pastdest" ->
             {[m EXCEPT !.state = "waiting", !.count = IF m.type = "raise" THEN 0 ELSE Wait]}
      [] m.state = "waiting" -> IF Counted(m).count = 0
                                THEN {[Counted(m) EXCEPT !.state = s] : s \in {"up", "down"}} ELSE {Counted(m)}
      [] OTHER -> {m}

T_VerticalDoor(m, r) ==
    CASE m.state \in {"waiting", "initial"} /\ Counted(m).count # 0 -> {Counted(m)}
      [] m.state = "waiting" /\ Counted(m).count = 0 ->
             {[Counted(m) EXCEPT !.state = IF m.type = "close30ThenOpen" THEN "up"
                                           ELSE IF m.type = "normal" THEN "down" ELSE @]}
      [] m.state = "initial" /\ Counted(m).count = 0 ->
             {[Counted(m) EXCEPT !.state = IF m.type = "raiseIn5Mins" THEN "up" ELSE @,
                                 !.type = IF @ = "raiseIn5Mins" THEN "normal" ELSE @]}
      [] m.state = "down" /\ r = "pastdest" ->
             {IF m.type \in {"normal", "close"} THEN Removed(m)
              ELSE IF m.type = "close30ThenOpen" THEN [m EXCEPT !.state = "waiting", !.count = Wait] ELSE m}
      [] m.state = "down" /\ r = "crushed" -> {IF m.type = "close" THEN m ELSE [m EXCEPT !.state = "up"]}
      [] m.state = "up" /\ r = "pastdest" ->
             {IF m.type = "normal" THEN [m EXCEPT !.state = "waiting", !.count = Wait]
              ELSE IF m.type \in {"close30ThenOpen", "open"} THEN Removed(m) ELSE m}
      [] OTHER -> {m}

T_MoveFloor(m, r) == {IF r = "pastdest" THEN Removed(m) ELSE m}

(* P_RemoveActiveCeiling does nothing for a ceiling that is not in the     *)
(* array.                                                                  *)
T_MoveCeiling(m, r, active) ==
    {IF r # "pastdest" THEN m
     ELSE IF m.type = "crushAndRaise" THEN [m EXCEPT !.state = IF @ = "up" THEN "down" ELSE "up"]
     ELSE IF active /\ (m.state = "up" <=> m.type = "raiseToHighest") THEN Removed(m) ELSE m}

Called(id, r) ==
    LET m == mover[id]
    IN  CASE m.kind = "plat" -> T_PlatRaise(m, r)
          [] m.kind = "door" -> T_VerticalDoor(m, r)
          [] m.kind = "floor" -> T_MoveFloor(m, r)
          [] m.kind = "ceiling" -> T_MoveCeiling(m, r, \E k \in DOMAIN activeceilings : activeceilings[k] = id)

(* A mover that removes itself clears its sector's specialdata, whatever   *)
(* that points at, and its place in the array.                             *)
(* Plausible bugs: a door leaves its specialdata behind; only plats leave  *)
(* their array.                                                            *)
ClearedUnlessDoor(m) == IF m.function = "removed" /\ m.kind # "door"
                        THEN [specialdata EXCEPT ![m.sector] = Nobody] ELSE specialdata
WithoutPlat(array, id) == [k \in DOMAIN array |-> IF array[k] = id /\ mover[id].kind = "plat" THEN Nobody ELSE array[k]]
Without(array, id) == [k \in DOMAIN array |-> IF array[k] = id THEN Nobody ELSE array[k]]
Cleared(m) == IF m.function = "removed" THEN [specialdata EXCEPT ![m.sector] = Nobody] ELSE specialdata

-----------------------------------------------------------------------------
(* P_RunThinkers.                                                          *)

Running == current \in 1 .. Len(thinkers)

StartTic ==
    /\ current = 0 /\ thinkers # <<>>
    /\ current' = 1
    /\ UNCHANGED <<thinkers, mover, specialdata, activeplats, activeceilings, used, stopped>>

EndTic ==
    /\ current > Len(thinkers)
    /\ current' = 0
    /\ UNCHANGED <<thinkers, mover, specialdata, activeplats, activeceilings, used, stopped>>

(* Time to remove it: it leaves the list and its memory is freed.  The     *)
(* loop goes on with its next, which it reads from the freed memory.       *)
FreeThinker ==
    /\ Running
    /\ mover[thinkers[current]].function = "removed"
    /\ thinkers' = RemoveAt(thinkers, current)
    /\ mover' = [mover EXCEPT ![thinkers[current]] = NoMover]
    /\ UNCHANGED <<specialdata, activeplats, activeceilings, current, used, stopped>>

RunThinker ==
    /\ Running
    /\ LET id == thinkers[current]
       IN  /\ mover[id].function = "runs"
           /\ \E r \in Results : \E m \in Called(id, r) :
                  /\ mover' = [mover EXCEPT ![id] = m]
                  /\ specialdata' = Cleared(m)
                  /\ IF m.function = "removed"
                     THEN /\ activeplats' = Without(activeplats, id)
                          /\ activeceilings' = Without(activeceilings, id)
                     ELSE UNCHANGED <<activeplats, activeceilings>>
                  \* P_RemoveActivePlat: "can't find plat!"
                  /\ stopped' = (m.function = "removed" /\ m.kind = "plat" /\ ~\E k \in DOMAIN activeplats : activeplats[k] = id)
    /\ current' = current + 1
    /\ UNCHANGED <<thinkers, used>>

(* A thinker without a function is passed over.                            *)
SkipThinker ==
    /\ Running
    /\ mover[thinkers[current]].function = "null"
    /\ current' = current + 1
    /\ UNCHANGED <<thinkers, mover, specialdata, activeplats, activeceilings, used, stopped>>

-----------------------------------------------------------------------------
(* Lines.  The sectors with the line's tag in which nothing moves get a    *)
(* mover each, in the order of their numbers.                              *)

PerSector(t, new) ==
    LET still == InOrder({s \in Tagged(t) : specialdata[s] = Nobody})
    IN  [i \in DOMAIN still |-> new[still[i]]]

SpawnNow(recs, contents) == Spawn(recs, thinkers, contents, specialdata, activeplats, activeceilings)

(* P_ActivateInStasis and P_ActivateInStasisCeiling: what stands in the    *)
(* array for this tag goes on as before.                                   *)
Woken(array, t) ==
    [id \in 1 .. Memory |->
        IF Tag[mover[id].sector] = t /\ mover[id].state = "stasis" /\ \E k \in DOMAIN array : array[k] = id
        THEN [mover[id] EXCEPT !.state = mover[id].old, !.old = "none", !.function = "runs"] ELSE mover[id]]

EV_DoPlat(l) ==
    LET type == Lines[l].type
        ways == IF type = "perpetual" THEN {"up", "down"} ELSE IF type = "raise" THEN {"up"} ELSE {"down"}
    IN  \E way \in [Tagged(Lines[l].tag) -> ways] :
            SpawnNow(PerSector(Lines[l].tag, [s \in Tagged(Lines[l].tag) |-> Made("plat", type, s, way[s], 0)]),
                     IF type = "perpetual" THEN Woken(activeplats, Lines[l].tag) ELSE mover)

EV_DoDoor(l) ==
    LET type == Lines[l].type
        way == IF type \in {"close", "close30ThenOpen"} THEN "down" ELSE "up"
    IN  SpawnNow(PerSector(Lines[l].tag, [s \in Tagged(Lines[l].tag) |-> Made("door", type, s, way, 0)]), mover)

EV_DoFloor(l) ==
    LET way == IF Lines[l].type = "raiseFloor" THEN "up" ELSE "down"
    IN  SpawnNow(PerSector(Lines[l].tag, [s \in Tagged(Lines[l].tag) |-> Made("floor", Lines[l].type, s, way, 0)]), mover)

EV_DoCeiling(l) ==
    LET type == Lines[l].type
        way == IF type = "raiseToHighest" THEN "up" ELSE "down"
    IN  SpawnNow(PerSector(Lines[l].tag, [s \in Tagged(Lines[l].tag) |-> Made("ceiling", type, s, way, 0)]),
                 IF type = "crushAndRaise" THEN Woken(activeceilings, Lines[l].tag) ELSE mover)

(* Stairs and donuts set off more than the sectors with the tag, so the    *)
(* search for these finds others taken than when it began.                 *)
Occupied(recs, s) == specialdata[s] # Nobody \/ \E i \in DOMAIN recs : recs[i].sector = s
FloorMovers == {Made("floor", type, s, way, 0) :
                    type \in {"stair", "donutRaise", "lowerFloor"}, s \in Sectors, way \in {"up", "down"}}
Recs == Seq(FloorMovers) \ {<<>>}

(* Each step of the stairs raises the next, as long as nothing moves it.   *)
Step(s) == Made("floor", "stair", s, "up", 0)
Climbed(recs) ==
    LET next == Beside[Last(recs).sector]
    IN  IF next = Last(recs).sector \/ Occupied(recs, next) THEN recs ELSE Append(recs, Step(next))
Flight(recs, s) == Turns([r \in Recs |-> Climbed(r)], Append(recs, Step(s)), Cardinality(Sectors))

(* The ring gets a floor mover whether or not it has one.                  *)
Donut(recs, s) == recs \o <<Made("floor", "donutRaise", Beside[s], "up", 0), Made("floor", "lowerFloor", s, "down", 0)>>

(* The search goes on from the last mover: of stairs, the sectors with the *)
(* tag between their last step and the first are passed over.              *)
Search == [recs : Seq(FloorMovers), secnum : Int]
GoesOnFrom(search, l) ==
    LET more == {s \in Tagged(Lines[l].tag) : s > search.secnum}
        s == Min(more)
        recs == IF Lines[l].ev = "EV_DoDonut" THEN Donut(search.recs, s) ELSE Flight(search.recs, s)
    IN  IF more = {} THEN search
        ELSE IF Occupied(search.recs, s) THEN [search EXCEPT !.secnum = s]
        ELSE [recs |-> recs, secnum |-> Last(recs).sector]

Found(l) == Turns([search \in Search |-> GoesOnFrom(search, l)], [recs |-> <<>>, secnum |-> -1],
                  Cardinality(Sectors) * (Cardinality(Sectors) + 1)).recs

EV_BuildStairs(l) == SpawnNow(Found(l), mover)
EV_DoDonut(l) == SpawnNow(Found(l), mover)

(* EV_StopPlat and EV_CeilingCrushStop.                                    *)
Stopped(array, t) ==
    [id \in 1 .. Memory |->
        IF Tag[mover[id].sector] = t /\ mover[id].state # "stasis" /\ \E k \in DOMAIN array : array[k] = id
        THEN [mover[id] EXCEPT !.old = mover[id].state, !.state = "stasis", !.function = "null"] ELSE mover[id]]

EV_Stop(array, l) ==
    /\ mover' = Stopped(array, Lines[l].tag)
    /\ UNCHANGED <<thinkers, specialdata, activeplats, activeceilings, stopped>>

(* A door opened by hand.  A "raise" door that moves already turns round;  *)
(* for an "open" door the code falls through, and it gets a second mover.  *)
EV_VerticalDoor(l, byPlayer) ==
    LET s == Lines[l].side
        id == specialdata[s]
    IN  IF id # Nobody /\ Lines[l].type = "normal"
        THEN /\ mover' = IF mover[id].state = "down" THEN [mover EXCEPT ![id].state = "up"]
                         ELSE IF byPlayer THEN [mover EXCEPT ![id].state = "down"] ELSE mover
             /\ UNCHANGED <<thinkers, specialdata, activeplats, activeceilings, stopped>>
        ELSE SpawnNow(<<Made("door", Lines[l].type, s, "up", 0)>>, mover)

Event(l) ==
    LET ev == Lines[l].ev
    IN  \/ ev = "EV_DoPlat" /\ EV_DoPlat(l)
        \/ ev = "EV_DoDoor" /\ EV_DoDoor(l)
        \/ ev = "EV_DoFloor" /\ EV_DoFloor(l)
        \/ ev = "EV_DoCeiling" /\ EV_DoCeiling(l)
        \/ ev = "EV_BuildStairs" /\ EV_BuildStairs(l)
        \/ ev = "EV_DoDonut" /\ EV_DoDonut(l)
        \/ ev = "EV_StopPlat" /\ EV_Stop(activeplats, l)
        \/ ev = "EV_CeilingCrushStop" /\ EV_Stop(activeceilings, l)
        \/ ev = "manual" /\ \E byPlayer \in BOOLEAN : EV_VerticalDoor(l, byPlayer)

(* A line that works once has worked when it is crossed (or shot at),      *)
(* whatever came of it; a switch or a door only when something was set off.*)
Triggers(l, by) == l \notin used /\ Lines[l].by = by /\ Event(l) /\ UNCHANGED current
Spent(l) == IF Lines[l].once THEN used \cup {l} ELSE used

P_CrossSpecialLine(l) == Triggers(l, "cross") /\ used' = Spent(l)
P_UseSpecialLine(l) == Triggers(l, "use") /\ used' = IF thinkers' # thinkers THEN Spent(l) ELSE used

-----------------------------------------------------------------------------
(* Levels and saved games, between tics.                                   *)

Empty(n) == [k \in 1 .. n |-> Nobody]
NoMovers == [id \in 1 .. Memory |-> NoMover]
Timed == LET S == InOrder(DoorIn5) IN [i \in DOMAIN S |-> Made("door", "raiseIn5Mins", S[i], "initial", Wait)]

(* P_SetupLevel, P_SpawnSpecials.                                          *)
Setup(recs, spent) ==
    /\ Spawn(recs, <<>>, NoMovers, [s \in Sectors |-> Nobody], Empty(MaxPlats), Empty(MaxCeilings))
    /\ current' = 0
    /\ used' = spent

NewLevel == current = 0 /\ Setup(Timed, {})

(* P_ArchiveSpecials keeps what has a function and, of what has none, the  *)
(* ceilings in the array; plats in stasis are not saved.                   *)
Archived(id) ==
    \/ mover[id].function = "runs"
    \/ mover[id].function = "null" /\ \E k \in DOMAIN activeceilings : activeceilings[k] = id

(* G_DoSaveGame, and then, at any time, G_DoLoadGame, which sets the level *)
(* up; P_UnArchiveThinkers frees what that made and P_UnArchiveSpecials    *)
(* makes the movers of the save.  A load replaces everything there is, so  *)
(* what happened since the save makes no difference: it is one step.       *)
SaveAndLoad ==
    /\ current = 0
    /\ LET saved == InOrder({i \in DOMAIN thinkers : Archived(thinkers[i])})
       IN  Setup([i \in DOMAIN saved |-> mover[thinkers[saved[i]]]], used)

MoversInit ==
    /\ thinkers = [i \in DOMAIN Timed |-> i]
    /\ mover = [id \in 1 .. Memory |-> IF id \in DOMAIN Timed THEN Timed[id] ELSE NoMover]
    /\ specialdata = [s \in Sectors |-> IF s \in DoorIn5 THEN CHOOSE i \in DOMAIN Timed : Timed[i].sector = s ELSE Nobody]
    /\ activeplats = Empty(MaxPlats) /\ activeceilings = Empty(MaxCeilings)
    /\ current = 0 /\ used = {} /\ stopped = FALSE

MoversNext ==
    /\ ~stopped
    /\ \/ StartTic \/ EndTic \/ FreeThinker \/ RunThinker \/ SkipThinker
       \/ \E l \in DOMAIN Lines : P_CrossSpecialLine(l) \/ P_UseSpecialLine(l)
       \/ NewLevel \/ SaveAndLoad

MoversSpec == MoversInit /\ [][MoversNext]_moverVars

-----------------------------------------------------------------------------
MoversTypeOK ==
    /\ Range(thinkers) \subseteq 1 .. Memory /\ IsInjective(thinkers)
    /\ mover \in [1 .. Memory -> Mover]
    /\ specialdata \in [Sectors -> 0 .. Memory]
    /\ current \in 0 .. Len(thinkers) + 1 /\ used \subseteq DOMAIN Lines

(* A sector's specialdata points at a mover of this sector that is on the  *)
(* list and not about to be freed: neither EV_VerticalDoor nor the next    *)
(* line may write to memory that is somebody else's by now.                *)
NoDangling ==
    \A s \in Sectors : specialdata[s] # Nobody =>
        /\ specialdata[s] \in Living
        /\ mover[specialdata[s]].sector = s

(* The arrays have every plat and ceiling that lives, once, and nothing    *)
(* else, as long as there can be no more of them than the array of         *)
(* ceilings holds (one that found no place there would never end); so      *)
(* whatever has been stopped, after a load too, can be set going again,    *)
(* and no plat that arrives finds itself missing.                          *)
PlacesOf(array, id) == {k \in DOMAIN array : array[k] = id}
Active(kind) == IF kind = "plat" THEN activeplats ELSE activeceilings
Revivable ==
    Memory <= MaxCeilings =>
    /\ \A kind \in {"plat", "ceiling"} : \A k \in DOMAIN Active(kind) :
           Active(kind)[k] # Nobody => Active(kind)[k] \in Living /\ mover[Active(kind)[k]].kind = kind
    /\ \A id \in Living :
           /\ mover[id].kind \in {"plat", "ceiling"} /\ ~stopped =>
                  Cardinality(PlacesOf(Active(mover[id].kind), id)) = 1
           /\ mover[id].function = "null" <=> mover[id].state = "stasis"
           /\ mover[id].state = "stasis" => PlacesOf(Active(mover[id].kind), id) # {}
    /\ stopped => PlacesOf(activeplats, Nobody) = {}
=============================================================================
