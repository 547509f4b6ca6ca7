-------------------------------- MODULE MCList --------------------------------
(* A list of up to four elements, where every operation meets an empty list, *)
(* one of a single element, both ends and the middle.                        *)
EXTENDS DList
=============================================================================
