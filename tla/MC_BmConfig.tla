------------------------------ MODULE MC_BmConfig -----------------------------
(***************************************************************************)
(* Files of up to five characters over a name character, a space, a       *)
(* carriage return and a newline: blank lines, a trailing newline, a      *)
(* missing one, and lines that hold only white space.                     *)
(***************************************************************************)
EXTENDS BmConfig

MC_NL == "\n"

MC_Chars == {"e", " ", "\r", MC_NL}

====
