------------------------------ MODULE DoomZone ------------------------------
(***************************************************************************)
(* DOOM's memory: the zone of csrc/doom/z_zone.c and the lumps that        *)
(* w_wad.c keeps in it.  A block begins with a header, one unit here; the  *)
(* headers are linked in a ring through the zone's own, at address 0.  A   *)
(* header that a merge has made part of a bigger block stays in memory as  *)
(* it was, and the loops may still be standing on it, so the links are     *)
(* kept as they are in the code.  The loops of Z_Malloc and Z_FreeTags     *)
(* take one step for each turn.  Once a call is over nobody reads such     *)
(* headers, and they are forgotten.                                        *)
(***************************************************************************)
EXTENDS Integers, FiniteSets, FiniteSetsExt

CONSTANTS ZoneSize,     \* units of memory
          MinFragment,  \* MINFRAGMENT: what is left over beyond this becomes a block
          Lumps,        \* the lumps of the WAD; it is not mapped (w_file_stdc.c)
          LumpLength,   \* lump -> units
          GameSizes         \* sizes of other things the game allocates

Null == 0
NoUser == "no user"

(* The tags, in z_zone.h's order.  PU_SOUND, PU_MUSIC and PU_LEVSPEC are   *)
(* not used apart from PU_STATIC and PU_LEVEL.                             *)
PU_STATIC == 1
PU_FREE == 4
PU_LEVEL == 5
PU_PURGELEVEL == 7
PU_CACHE == 8

ASSUME ZoneAssumption ==
    /\ ZoneSize \in Nat /\ ZoneSize > 1 /\ MinFragment \in Nat \ {0}
    /\ LumpLength \in [Lumps -> Nat] /\ NoUser \notin Lumps /\ GameSizes \subseteq Nat

VARIABLES block,   \* what is in memory at each address, as a header
          mainrover,
          cache,   \* lump -> lumpinfo[lump].cache
          held,    \* address -> [size, tag]: what the game was given without a user and has not freed
          call,    \* the call that is on its way
          error    \* I_Error has stopped the game

zoneVars == <<block, mainrover, cache, held, call, error>>

Blocklist == 0
ZoneAddresses == 0 .. ZoneSize
Garbage == [size |-> 0, tag |-> PU_STATIC, user |-> NoUser, id |-> FALSE, next |-> Blocklist, prev |-> Blocklist]
NoCall == [pc |-> "idle", base |-> Null, rover |-> Null, start |-> Null, size |-> 0, tag |-> PU_FREE, user |-> NoUser]

-----------------------------------------------------------------------------
(* Z_Free, in a zone z of blocks, rover and cached lumps.                  *)

Zone == [block |-> block, rover |-> mainrover, cache |-> cache]

(* Plausible bug: the user keeps its pointer to what has been freed.       *)
MarkedOnly(z, a) == [z EXCEPT !.block[a] = [@ EXCEPT !.tag = PU_FREE, !.user = NoUser, !.id = FALSE]]
Marked(z, a) ==
    LET user == z.block[a].user
    IN  [z EXCEPT !.block[a] = [@ EXCEPT !.tag = PU_FREE, !.user = NoUser, !.id = FALSE],
                  !.cache = IF z.block[a].tag # PU_FREE /\ user # NoUser THEN [@ EXCEPT ![user] = Null] ELSE @]

(* Plausible bug: the rover stays where there is no block any more.        *)
MergedUnderRover(z, a, b) ==
    [z EXCEPT !.block = [z.block EXCEPT ![a].size = @ + z.block[b].size, ![a].next = z.block[b].next,
                                        ![z.block[b].next].prev = a]]
(* The free block b becomes part of the free block a before it.            *)
Merged(z, a, b) ==
    [z EXCEPT !.block = [z.block EXCEPT ![a].size = @ + z.block[b].size, ![a].next = z.block[b].next,
                                        ![z.block[b].next].prev = a],
              !.rover = IF @ = b THEN a ELSE @]

IsFree(z, a) == z.block[a].tag = PU_FREE

Z_Free(z, a) ==
    LET marked == Marked(z, a)
        before == marked.block[a].prev
        joined == IF IsFree(marked, before) THEN Merged(marked, before, a) ELSE marked
        self   == IF IsFree(marked, before) THEN before ELSE a
        after  == joined.block[self].next
    IN  IF IsFree(joined, after) THEN Merged(joined, self, after) ELSE joined

Becomes(z) == block' = z.block /\ mainrover' = z.rover /\ cache' = z.cache

(* The blocks in the order of the ring.                                    *)
Ring(b) ==
    LET walk[n \in 0 .. ZoneSize] ==
            IF n = 0 THEN b[Blocklist].next ELSE IF walk[n - 1] = Blocklist THEN Blocklist ELSE b[walk[n - 1]].next
    IN  {walk[n] : n \in 0 .. ZoneSize} \ {Blocklist}

Tidy(b) == [a \in ZoneAddresses |-> IF a \in Ring(b) \cup {Blocklist} THEN b[a] ELSE Garbage]

-----------------------------------------------------------------------------
(* Z_Malloc.                                                               *)

Malloc(size, tag, user) ==
    LET base == IF block[block[mainrover].prev].tag = PU_FREE THEN block[mainrover].prev ELSE mainrover
    IN  call' = [pc |-> "scan", base |-> base, rover |-> base, start |-> block[base].prev,
                 size |-> size + 1, tag |-> tag, user |-> user]

(* The loop ends as soon as base is a free block that is big enough.       *)
ScansOn(b, base, rover) ==
    call' = [call EXCEPT !.base = base, !.rover = rover,
                         !.pc = IF b[base].tag # PU_FREE \/ b[base].size < call.size THEN "scan" ELSE "found"]

ScanFree ==
    /\ call.pc = "scan" /\ call.rover # call.start
    /\ block[call.rover].tag = PU_FREE
    /\ ScansOn(block, call.base, block[call.rover].next)
    /\ UNCHANGED <<block, mainrover, cache, held, error>>

(* It cannot be purged: base moves past it.                                *)
ScanPast ==
    /\ call.pc = "scan" /\ call.rover # call.start
    /\ block[call.rover].tag \in (1 .. PU_PURGELEVEL - 1) \ {PU_FREE}
    /\ ScansOn(block, block[call.rover].next, block[call.rover].next)
    /\ UNCHANGED <<block, mainrover, cache, held, error>>

ScanPurge ==
    /\ call.pc = "scan" /\ call.rover # call.start
    /\ block[call.rover].tag >= PU_PURGELEVEL
    /\ LET before == block[call.base].prev
           z == Z_Free(Zone, call.rover)
           base == z.block[before].next
       IN  Becomes(z) /\ ScansOn(z.block, base, z.block[base].next)
    /\ UNCHANGED <<held, error>>

(* Scanned all the way round: I_Error.                                     *)
ScanFails ==
    /\ call.pc = "scan" /\ call.rover = call.start
    /\ error' = TRUE
    /\ UNCHANGED <<block, mainrover, cache, held, call>>

(* What is left over of the block becomes a free block if it is big        *)
(* enough.                                                                 *)
Split(b, base, size) ==
    LET extra == b[base].size - size
        new == base + size
        next == b[base].next
    IN  IF extra > MinFragment
        THEN [[b EXCEPT ![new] = [size |-> extra, tag |-> PU_FREE, user |-> NoUser, id |-> FALSE,
                                  next |-> next, prev |-> base],
                        ![base].next = new, ![base].size = size]
              EXCEPT ![next].prev = new]
        ELSE b

HandOut ==
    /\ call.pc = "found"
    /\ LET base == call.base
           b == Split(block, base, call.size)
       IN  /\ block' = Tidy([b EXCEPT ![base] = [@ EXCEPT !.user = call.user, !.tag = call.tag, !.id = TRUE]])
           /\ mainrover' = b[base].next
           /\ IF call.user = NoUser
              THEN /\ held' = [a \in DOMAIN held \cup {base} |->
                                  IF a = base THEN [size |-> call.size, tag |-> call.tag] ELSE held[a]]
                   /\ UNCHANGED cache
              ELSE cache' = [cache EXCEPT ![call.user] = base] /\ UNCHANGED held
    /\ call' = NoCall
    /\ UNCHANGED error

-----------------------------------------------------------------------------
(* What the game does.                                                     *)

Retagged(l, tag) == block' = [block EXCEPT ![cache[l]].tag = tag]

(* W_CacheLumpNum: a lump that is there gets the new tag, one that is not  *)
(* is read into a block of its own.                                        *)
W_CacheLumpNum(l, tag) ==
    /\ call = NoCall
    /\ IF cache[l] # Null THEN Retagged(l, tag) /\ UNCHANGED call
       ELSE Malloc(LumpLength[l], tag, l) /\ UNCHANGED block
    /\ UNCHANGED <<mainrover, cache, held, error>>

(* The game releases what it has cached as PU_STATIC.                      *)
W_ReleaseLumpNum(l) ==
    /\ call = NoCall
    /\ cache[l] # Null /\ block[cache[l]].tag = PU_STATIC
    /\ Retagged(l, PU_CACHE)
    /\ UNCHANGED <<mainrover, cache, held, call, error>>

(* A thing without a user: a mobj, a node of the level, a buffer.          *)
Allocates(size, tag) ==
    /\ call = NoCall
    /\ Malloc(size, tag, NoUser)
    /\ UNCHANGED <<block, mainrover, cache, held, error>>

Frees(a) ==
    /\ call = NoCall /\ a \in DOMAIN held
    /\ block[a].id              \* otherwise I_Error
    /\ LET z == Z_Free(Zone, a) IN Becomes([z EXCEPT !.block = Tidy(@)])
    /\ held' = [b \in DOMAIN held \ {a} |-> held[b]]
    /\ UNCHANGED <<call, error>>

(* P_SetupLevel gives up the old level: Z_FreeTags from PU_LEVEL to below  *)
(* PU_PURGELEVEL.  The link to the next block is read before a block is    *)
(* freed, and the next block may be merged by that.                        *)
OfLevel(tag) == tag >= PU_LEVEL /\ tag <= PU_PURGELEVEL - 1

P_SetupLevel ==
    /\ call = NoCall
    /\ call' = [NoCall EXCEPT !.pc = "tags", !.rover = block[Blocklist].next]
    /\ held' = [a \in {a \in DOMAIN held : ~OfLevel(held[a].tag)} |-> held[a]]
    /\ UNCHANGED <<block, mainrover, cache, error>>

Z_FreeTags ==
    /\ call.pc = "tags" /\ call.rover # Blocklist
    /\ call' = [call EXCEPT !.rover = block[@].next]
    /\ IF OfLevel(block[call.rover].tag) THEN Becomes(Z_Free(Zone, call.rover))
       ELSE UNCHANGED <<block, mainrover, cache>>
    /\ UNCHANGED <<held, error>>

TagsFreed ==
    /\ call.pc = "tags" /\ call.rover = Blocklist
    /\ call' = NoCall
    /\ block' = Tidy(block)
    /\ UNCHANGED <<mainrover, cache, held, error>>

-----------------------------------------------------------------------------
(* Z_Init: one free block.                                                 *)
ZoneInit ==
    /\ block = [a \in ZoneAddresses |->
                   IF a = Blocklist THEN [Garbage EXCEPT !.next = 1, !.prev = 1]
                   ELSE IF a = 1 THEN [Garbage EXCEPT !.size = ZoneSize, !.tag = PU_FREE] ELSE Garbage]
    /\ mainrover = 1
    /\ cache = [l \in Lumps |-> Null]
    /\ held = [a \in {} |-> NoUser]
    /\ call = NoCall
    /\ error = FALSE

Scan == ScanFree \/ ScanPast \/ ScanPurge \/ ScanFails \/ HandOut \/ Z_FreeTags \/ TagsFreed
Game ==
    \/ \E l \in Lumps : W_ReleaseLumpNum(l) \/ \E tag \in {PU_STATIC, PU_LEVEL, PU_CACHE} : W_CacheLumpNum(l, tag)
    \/ \E size \in GameSizes, tag \in {PU_STATIC, PU_LEVEL} : Allocates(size, tag)
    \/ \E a \in DOMAIN held : Frees(a)
    \/ P_SetupLevel

ZoneNext == ~error /\ (Scan \/ Game)
ZoneSpec == ZoneInit /\ [][ZoneNext]_zoneVars

-----------------------------------------------------------------------------
ZoneTypeOK ==
    /\ block \in [ZoneAddresses -> [size : 0 .. ZoneSize, tag : 1 .. PU_CACHE, user : Lumps \cup {NoUser},
                                id : BOOLEAN, next : ZoneAddresses, prev : ZoneAddresses]]
    /\ mainrover \in ZoneAddresses
    /\ cache \in [Lumps -> ZoneAddresses]
    /\ DOMAIN held \subseteq ZoneAddresses \ {Blocklist}
    /\ {call.base, call.rover, call.start} \subseteq ZoneAddresses

(* What Z_CheckHeap looks for: every block touches the next, from the      *)
(* beginning of the zone to its end; links go both ways; no two free       *)
(* blocks are neighbours.  And the search for memory starts at a block.    *)
ZoneSound ==
    /\ block[Blocklist].next = 1
    /\ \A a \in Ring(block) :
           LET next == block[a].next
           IN  /\ IF next = Blocklist THEN a + block[a].size = ZoneSize + 1 ELSE a + block[a].size = next
               /\ block[next].prev = a
               /\ next # Blocklist => block[a].tag # PU_FREE \/ block[next].tag # PU_FREE
    /\ {mainrover, call.base, call.start} \subseteq Ring(block) \cup {Blocklist}

(* What the game has been given is its own until it gives it back or the   *)
(* level ends: a block of at least this size and tag.  What a lump's cache *)
(* points at is a block, and this lump's; a purged lump has no cache.      *)
(* Nothing of the old level is left.                                       *)
OwnersExact ==
    /\ \A a \in DOMAIN held : a \in Ring(block) /\ block[a].tag = held[a].tag /\ block[a].size >= held[a].size /\ block[a].id
    /\ \A l \in Lumps : cache[l] # Null =>
           cache[l] \in Ring(block) /\ block[cache[l]].user = l /\ block[cache[l]].tag # PU_FREE /\ block[cache[l]].size > LumpLength[l]
    /\ \A a \in Ring(block) : block[a].tag # PU_FREE =>
           IF block[a].user = NoUser THEN a \in DOMAIN held \/ call.pc = "tags" ELSE cache[block[a].user] = a
    /\ call.pc = "tags" /\ call.rover = Blocklist => \A a \in Ring(block) : ~OfLevel(block[a].tag)
=============================================================================
