---------------------------- MODULE MCStatsTool -----------------------------
(***************************************************************************)
(* Small instances of StatsTool.  The modulus is small, so that counters   *)
(* wrap around.                                                            *)
(***************************************************************************)
EXTENDS StatsTool

By(dir, key) == [dir |-> dir, key |-> key]
Command(sorts, zero, events) == [sorts |-> sorts, zero |-> zero, events |-> events]

MCCommands ==
  { Command(<<By("d", "move")>>, FALSE, {}),
    Command(<<By("a", "unmount")>>, FALSE, {"unmount"}),
    Command(<<By("d", "total"), By("d", "access")>>, TRUE, {"access"}),
    \* refused
    Command(<<By("a", "move")>>, FALSE, {}),
    Command(<<By("a", "total"), By("d", "modify")>>, FALSE, {}),
    Command(<<By("a", "modify")>>, FALSE, {"access"}),
    Command(<<By("d", "unmount")>>, FALSE, {}) }
=============================================================================
