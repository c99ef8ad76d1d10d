--------------------------- MODULE AddressSpaces ---------------------------
(***************************************************************************)
(* What virtual memory promises programs: each address space is a private  *)
(* array of pages, each with a protection and contents, that changes by    *)
(* the program's own stores and by mmap, munmap, mprotect and brk, and by  *)
(* nothing else.  That pages get frames only when touched, that regions    *)
(* are split and table slots run out, and that frames pass from one        *)
(* program to another, does not show.                                      *)
(***************************************************************************)
EXTENDS Integers

CONSTANTS Spaces, UserEnd, LoaderPages,
          Requests,       \* what may be mapped: records with prot and shared
          Prots,
          Initial(_, _),  \* the contents of the n-th page of what q maps
          Image, Zero, Written

VARIABLE space  \* of each program that runs: its pages, those that are mapped

vars == <<space>>

Pages == 0 .. UserEnd - 1
Page(prot, data, shared) == [prot |-> prot, data |-> data, shared |-> shared]

Init == space = <<>>

(* The edits say how the pages `range' of a space go from what is mapped   *)
(* in it, `old', to `new'; its other pages stay as they are.               *)

(* mmap.  With `fixed', what was in the range is replaced; without, the    *)
(* place is one where nothing was mapped.                                  *)
Map(old, new, range, first, q, fixed) ==
    /\ range \subseteq DOMAIN new
    /\ \A p \in range : new[p] = Page(q.prot, Initial(q, p - first), q.shared)
    /\ fixed \/ range \cap DOMAIN old = {}

Unmap(old, new, range) == range \cap DOMAIN new = {}

(* A range with a hole, or a shared page to be written, is refused whole.  *)
Protect(old, new, range, prot) ==
    /\ range \subseteq DOMAIN old /\ range \subseteq DOMAIN new
    /\ \A p \in range : /\ new[p] = [old[p] EXCEPT !.prot = prot]
                         /\ "w" \in prot => ~old[p].shared

Grow(old, new, range) ==
    /\ range \cap DOMAIN old = {} /\ range \subseteq DOMAIN new
    /\ \A p \in range : new[p] = Page({"r", "w"}, Zero, FALSE)

Store(old, new, range) ==
    \E p \in range \cap DOMAIN old :
        /\ "w" \in old[p].prot
        /\ new = [old EXCEPT ![p].data = Written]

Changed(old, new) ==
    {p \in Pages : IF p \in DOMAIN old /\ p \in DOMAIN new THEN old[p] # new[p]
                   ELSE p \in DOMAIN old \/ p \in DOMAIN new}

Edit(old, new) ==
    \E changed \in {Changed(old, new)}, a \in Pages :
        \E range \in {a .. z : z \in a .. UserEnd - 1} :
            /\ changed \subseteq range
            /\ \/ Unmap(old, new, range)
               \/ Grow(old, new, range)
               \/ Store(old, new, range)
               \/ \E prot \in Prots : Protect(old, new, range, prot)
               \/ \E q \in Requests, fixed \in BOOLEAN : Map(old, new, range, a, q, fixed)

(* Programs are loaded, run and end; what each does leaves the others'     *)
(* pages alone.  (A call that shows nothing is a stutter, and no step.)    *)
Loaded == [p \in LoaderPages |-> Page({"r", "w"}, Image, FALSE)]

Next ==
    \E was \in {space}, is \in {space'}, s \in Spaces :
        /\ is # was
        /\ DOMAIN is \ {s} = DOMAIN was \ {s}
        /\ \A t \in DOMAIN is \ {s} : is[t] = was[t]
        /\ \/ s \in DOMAIN was /\ s \in DOMAIN is /\ Edit(was[s], is[s])
           \/ s \notin DOMAIN was /\ s \in DOMAIN is /\ is[s] = Loaded
           \/ s \in DOMAIN was /\ s \notin DOMAIN is

Spec == Init /\ [][Next]_vars
=============================================================================
