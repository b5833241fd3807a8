------------------------------ MODULE MCParser ------------------------------
(***************************************************************************)
(* Instances of Parser for TLC.                                            *)
(***************************************************************************)
EXTENDS Parser

\* An empty text, two that look like a part of an instruction, and two with a
\* character of two bytes.
Texts == {<<>>, <<Comma>>, <<Wide>>, <<1, Wide>>}
=============================================================================
