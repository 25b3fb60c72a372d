--------------------------- MODULE MCAddressSpace ----------------------------
(***************************************************************************)
(* Small instances of AddressSpace: a page in the region the program is    *)
(* loaded in, which needs two tables of its own, and one below the         *)
(* trampoline, the user's stack, whose tables are the last initPgdir makes.*)
(***************************************************************************)
EXTENDS AddressSpace, TLC

CodeAndStack == {1, 2}
OneGiga == [va \in Va |-> "top"]
MCGigaOf == [va \in Va |-> IF va = 1 THEN "low" ELSE "top"]
MCRegionOf == [va \in Va |-> IF va = 1 THEN "low region" ELSE "top region"]
MCTableAfter == [t \in {"top", "top region"} |-> SetupPages]
\* The RAM takes the last two tables but the trampoline's.
MCIdentityAfter == [pg \in Page |-> IF pg > 2 THEN SetupPages - 1 ELSE SetupPages]

UserPages == {[u |-> TRUE, w |-> w, c |-> FALSE] : w \in BOOLEAN}
AllPages == UserPages \union {[u |-> FALSE, w |-> TRUE, c |-> FALSE],
                              [u |-> TRUE, w |-> FALSE, c |-> TRUE]}

OthersSymmetry == Permutations(Proc \ {First})
=============================================================================
