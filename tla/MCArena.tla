------------------------------ MODULE MCArena ------------------------------
(***************************************************************************)
(* A small arena whose blobs fill one slot, fill it to the last byte, and  *)
(* need one byte of the next; and the arena that a build makes for a small *)
(* source, with blobs of one slot and of all slots but one.                *)
(***************************************************************************)
EXTENDS Arena

CONSTANTS Short, Exact, Longer, Binary, Long

AllBlobs == {Short, Exact, Longer, Binary}
Lengths ==
  [b \in AllBlobs |-> CASE b = Short -> 1 [] b = Exact -> 52 [] b = Longer -> 53 [] OTHER -> 60]
Strings == {Short, Exact, Longer}

\* The file of 15 slots ends with a page of 8 bytes; pages of 16 leave room for the bytes of
\* Short behind it, and pages of 128 for a slot.
SmallPages == {8, 16, 128}

BuildBlobs == {Short, Long}
BuildLengths == [b \in BuildBlobs |-> IF b = Short THEN 1 ELSE 511 * SlotBytes - LenBytes]
=============================================================================
