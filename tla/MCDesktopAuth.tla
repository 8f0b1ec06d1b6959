--------------------------- MODULE MCDesktopAuth ---------------------------
(***************************************************************************)
(* An instance of DesktopAuth for TLC: two callers, two sign-ins of        *)
(* different accounts, and three refresh tokens.                            *)
(***************************************************************************)
EXTENDS DesktopAuth

MCAccountOf == [l \in Logins |-> l]
=============================================================================
