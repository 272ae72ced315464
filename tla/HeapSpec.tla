------------------------------ MODULE HeapSpec -------------------------------
(***************************************************************************)
(* What memory allocation promises, without a list: a set of free cells.   *)
(* A request for n cells is met from some row of n free cells, and fails   *)
(* only if there is none; what is given back is free again.  It is not     *)
(* promised for good: freeing what was got for no cells may end it.        *)
(***************************************************************************)
EXTENDS Integers

CONSTANTS
    AllCells,       \* the cells of the heap, by address
    Size            \* distance from one cell to the next

VARIABLES
    free,           \* the free cells
    asked,          \* the last request: its size in cells, and whether it was met
    sound           \* nothing has happened that ends these promises

Row(c, n)     == {c + i * Size : i \in 0..(n - 1)}
Between(c, d) == {a \in AllCells : c <= a /\ a <= d}

(* A request that is met takes one row; one of no cells may go either way. *)
Met(n) ==
    /\ asked' = [cells |-> n, met |-> TRUE]
    /\ \E c \in AllCells : Row(c, n) \subseteq free /\ free' = free \ Row(c, n)

Refused(n) ==
    /\ n > 0 => \A c \in free : ~(Row(c, n) \subseteq free)
    /\ asked' = [cells |-> n, met |-> FALSE] /\ UNCHANGED free

(* All cells from one to another, which were in use, are free again. *)
Freed ==
    /\ \E c, d \in AllCells :
        /\ c <= d /\ Between(c, d) \cap free = {}
        /\ free' = free \cup Between(c, d)
    /\ UNCHANGED asked

(* Something of no cells was freed, and the free cells are lost track of. *)
Ruined == ~sound' /\ UNCHANGED asked

Init == free = AllCells /\ asked = [cells |-> 0, met |-> TRUE] /\ sound = TRUE

Next ==
    /\ sound
    /\ \/ Ruined
       \/ /\ sound'
          /\ \/ asked'.cells \in Nat /\ (Met(asked'.cells) \/ Refused(asked'.cells))
             \/ Freed

Spec == Init /\ [][Next]_<<free, asked, sound>>
=============================================================================
