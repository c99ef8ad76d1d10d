---------------------------- MODULE AtomicVolume ----------------------------
(***************************************************************************)
(* What KonjacFS promises its callers (docs/kfs-design.md, "Commits"): an  *)
(* operation happens completely or not at all, it is durable once it has   *)
(* returned, and a power failure loses at most the operation in progress.  *)
(* Only the removal of a folder may be left part of the way: some of its   *)
(* entries gone, nothing else changed.                                     *)
(***************************************************************************)
CONSTANTS File, Value, None

VARIABLES content,    \* File -> Value or None: what a reader sees
          wanted,     \* the content the operation in progress will leave
          up          \* FALSE between a power failure and the next mount

vars == <<content, wanted, up>>

Content == [File -> Value \cup {None}]

Init ==
    /\ content \in Content
    /\ wanted = content
    /\ up = TRUE

(* c lies part of the way from `from' to `to', a removal: each file is as it *)
(* was or already gone.                                                    *)
PartOfRemoval(from, c, to) ==
    \A f \in File : /\ to[f] \in {from[f], None}
                    /\ c[f] \in {from[f], to[f]}

Begin == /\ up /\ wanted = content
         /\ wanted' \in Content
         /\ UNCHANGED <<content, up>>

(* The operation, or part of a removal, becomes permanent. *)
Land == /\ up
        /\ content' \in Content
        /\ content' = wanted \/ PartOfRemoval(content, content', wanted)
        /\ UNCHANGED <<wanted, up>>

(* The operation reports an error: what it had not made permanent is dropped. *)
Fail == /\ up
        /\ wanted' = content
        /\ UNCHANGED <<content, up>>

PowerFails == /\ up' = FALSE
              /\ UNCHANGED <<content, wanted>>

(* The next mount finds the operation in progress either done or undone. *)
Recover == /\ ~up
           /\ up' = TRUE
           /\ content' \in Content
           /\ content' \in {content, wanted} \/ PartOfRemoval(content, content', wanted)
           /\ wanted' = content'

Next == Begin \/ Land \/ Fail \/ PowerFails \/ Recover

Spec == Init /\ [][Next]_vars
=============================================================================
