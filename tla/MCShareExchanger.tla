--------------------------- MODULE MCShareExchanger ---------------------------
(***************************************************************************)
(* ShareExchanger for TLC: two labels, one that the program uses as often  *)
(* as Many says and one that it uses once.                                 *)
(***************************************************************************)
EXTENDS ShareExchanger

CONSTANTS Often, Many

Times == [k \in Keys |-> IF k = Often THEN Many ELSE 1]
===============================================================================
