----------------------------- MODULE MCAVCProtocol -----------------------------
(* An instance of AVCProtocol for TLC. *)
EXTENDS AVCProtocol

CONSTANTS c1, c2, n1, o1, o2

\* Two commands of one number: the second replaces the first in the table.
MCNumberOf == [c \in Call |-> n1]
=============================================================================
