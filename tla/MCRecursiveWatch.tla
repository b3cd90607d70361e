------------------------- MODULE MCRecursiveWatch ---------------------------
(***************************************************************************)
(* A tree root/1/1/1, a directory with a subdirectory outside of it, and a *)
(* directory yet to be made.                                               *)
(***************************************************************************)
EXTENDS RecursiveWatch

CONSTANTS d1, d2, d3, d4, d5, d6

MCDirs == {d1, d2, d3, d4, d5, d6}

MCInitialLoc ==
  [d \in MCDirs |->
     CASE d = d1 -> <<Root, 1>>
       [] d = d2 -> <<d1, 1>>
       [] d = d3 -> <<Out, 0>>
       [] d = d4 -> <<d3, 1>>
       [] d = d5 -> <<Fresh, 0>>
       [] d = d6 -> <<d2, 1>>]

UserMode(allowed, waits, self) ==
  [ops |-> allowed, max_ops |-> 3, early |-> FALSE, alone |-> TRUE, quiet |-> waits, move_self |-> self,
   max_watches |-> 9, denied |-> {}, excluded |-> {}, pattern |-> {}, invert |-> FALSE]

\* Others act at any moment, any number of them at a time.
Racing(m) == [m EXCEPT !.early = TRUE, !.alone = FALSE]

\* Everything at any moment, at the limit of watches; directories that come
\* and go at any moment; renames, one right after the other, once the watches
\* are set up; other operations by a user who waits for the tool between two
\* of them; an exclude and an include filter; an excluded path; and a
\* directory that may not be read.
MCModes ==
  {[Racing(UserMode({"mkdir", "rmdir", "rename", "moveout", "movein"}, FALSE, FALSE))
      EXCEPT !.max_ops = 2, !.max_watches = 4],
   [Racing(UserMode({"mkdir", "rmdir", "movein"}, FALSE, TRUE)) EXCEPT !.max_ops = 2],
   Racing(UserMode({"mkdir", "rmdir"}, FALSE, FALSE)),
   [Racing(UserMode({"mkdir", "rmdir"}, FALSE, TRUE)) EXCEPT !.excluded = {<<0, 1, 1>>}],
   UserMode({"rename"}, FALSE, TRUE),
   UserMode({"rename"}, FALSE, FALSE),
   UserMode({"mkdir", "rename", "moveout"}, TRUE, TRUE),
   UserMode({"mkdir", "rmdir", "movein"}, TRUE, TRUE),
   [UserMode({"mkdir", "rmdir", "movein"}, TRUE, TRUE) EXCEPT !.pattern = {1}],
   [UserMode({"rename"}, FALSE, TRUE) EXCEPT !.pattern = {2}, !.invert = TRUE],
   [UserMode({"mkdir", "movein"}, TRUE, TRUE) EXCEPT !.denied = {d1}]}

\* --include: names that do not match are renamed, and directories made.
FilterModes ==
  {[UserMode({"mkdir", "rename"}, TRUE, TRUE) EXCEPT !.pattern = {2}, !.invert = TRUE]}

\* Two users who rename directories at the same time.
PairModes == {[UserMode({"rename"}, FALSE, FALSE) EXCEPT !.alone = FALSE]}

\* A user who removes, makes and renames directories, and waits.
ReuseModes == {UserMode({"mkdir", "rmdir", "rename"}, TRUE, TRUE)}
=============================================================================
