--------------------------- MODULE MCCommandManager ---------------------------
(* Instances of CommandManager for TLC. *)
EXTENDS CommandManager

CONSTANTS e1, e2, n1, n2, o1, o2

\* One number at two priorities, and a command the protocol refuses to send.
MCCommand ==
    { [num |-> n1, prio |-> 1, sendable |-> TRUE],
      [num |-> n1, prio |-> 2, sendable |-> TRUE],
      [num |-> n2, prio |-> 1, sendable |-> FALSE] }
=============================================================================
