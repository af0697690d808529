------------------------------ MODULE MCFraming ------------------------------
(***************************************************************************)
(* Framing to the base 2, with three groups and a limit of five bytes.     *)
(* The bodies have every length around the limits (5 and 6 at MAX_FRAME, 7 *)
(* and 8 at the last group) and are made of bytes that read as lengths     *)
(* when they are taken for the start of a frame.                           *)
(***************************************************************************)
EXTENDS FramingRefinement

Filled(n, b) == [i \in 1..n |-> b]

SomeBodies ==
    {<<>>, <<1>>, <<0, 1>>, <<3, 0>>} \cup {Filled(n, 1) : n \in 4..8}

DecodableBodies == SomeBodies \ {<<3, 0>>}
==============================================================================
