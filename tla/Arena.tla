------------------------------- MODULE Arena -------------------------------
(***************************************************************************)
(* The AST arena of src/src/arena.rs: a mapped file of fixed-size slots.   *)
(* Nodes take one slot each from slot 1 on; strings and payloads take runs *)
(* of slots, behind a length, from string_start on.  Both pools only grow. *)
(* The parser keeps the offsets it is given and overwrites nodes in place. *)
(*                                                                         *)
(* The file has node_capacity + string_capacity slots, counted from 0, and *)
(* string_start is node_capacity + 1: the last slot of the string pool is  *)
(* behind the file.  Memory is mapped in whole pages, so that slot may be  *)
(* there all the same, in part, or not at all.                             *)
(***************************************************************************)
EXTENDS Integers

CONSTANTS
  node_capacity,  \* what Arena::new is called with
  Nodes,          \* contents of a node
  Blobs,          \* byte strings other than the empty one
  LenOf,          \* LenOf[b]: the bytes of blob b
  Utf8,           \* the blobs that are strings
  PageSizes,      \* the sizes in bytes that pages of memory may have
  None,           \* no result
  Garbage         \* the result of reading bytes that were not written as a blob

SlotBytes == 56   \* size_of::<CAstNode>()
LenBytes  == 4    \* size_of::<u32>()

\* NodeOffset::NULL, and the empty string that it stands for.
NULL  == 0
Empty == <<>>

string_capacity == node_capacity \div 4

\* Mutant: the pool of strings begins behind as many slots as it has itself.
PoolStart == string_capacity + 1

string_start == node_capacity + 1

Bytes(b) == LenBytes + LenOf[b]

\* The slots, counted from the first, that the bytes of b reach.
Parts(b) == {i \in 0 .. Bytes(b) : i * SlotBytes < Bytes(b)}

\* Mutant: the length prefix is forgotten.
SlotsOfBytes(b) == (LenOf[b] + SlotBytes - 1) \div SlotBytes

\* The slots that are set aside for b.
SlotsNeeded(b) == (Bytes(b) + SlotBytes - 1) \div SlotBytes

ASSUME ArenaAssumption ==
  /\ node_capacity \in Nat \ {0}
  /\ LenOf \in [Blobs -> Nat \ {0}]
  /\ Utf8 \subseteq Blobs
  /\ PageSizes \subseteq Nat \ {0}
  /\ Nodes \cap Blobs = {}
  /\ {None, Garbage, Empty} \cap (Nodes \cup Blobs) = {}

\* Mutant: the file has room for the nodes and for no string.
NodesOnly == node_capacity

\* The slots of the file.
total_slots == node_capacity + string_capacity
Slots == 0 .. (total_slots - 1)

byte_size == total_slots * SlotBytes

\* The file's bytes, rounded up to whole pages.
MappedSizes(page) ==
  {byte_size + n : n \in {m \in 0 .. (page - 1) : (byte_size + m) % page = 0}}

\* A slot holds a part of what was written over it last.
Cells == [value : Nodes \cup Blobs \cup {None}, part : Nat]

VARIABLES
  node_allocated,    \* the next free node
  string_allocated,  \* slots taken by strings and payloads
  mapped,            \* the bytes that are mapped
  mem,               \* mem[s]: the content of slot s
  held,              \* held[o]: what the owner of offset o stored there last
  intact             \* no store has reached behind the mapping

vars == <<node_allocated, string_allocated, mapped, mem, held, intact>>

\* The slots of which some byte is mapped.
Memory == 0 .. ((mapped - 1) \div SlotBytes)

Init ==
  /\ node_allocated = 1
  /\ string_allocated = 0
  /\ \E page \in PageSizes : mapped \in MappedSizes(page)
  /\ mem = [s \in Memory |-> [value |-> None, part |-> 0]]
  /\ held = [o \in {} |-> None]
  /\ intact = TRUE

Hold(o, v) == held' = [p \in DOMAIN held \cup {o} |-> IF p = o THEN v ELSE held[p]]

\* A write of value v over some slots, counted from slot s on.
Write(s, parts, v) ==
  mem' = [x \in Memory |-> IF x - s \in parts THEN [value |-> v, part |-> x - s] ELSE mem[x]]

\* Mutant: the last slot of the pool is not checked for.
allocUnchecked(n) ==
  /\ intact
  /\ node_allocated <= node_capacity
  /\ node_allocated' = node_allocated + 1
  /\ Write(node_allocated, {0}, n)
  /\ Hold(node_allocated, n)
  /\ UNCHANGED <<string_allocated, mapped, intact>>

\* A node is stored if the pool has room.
alloc(n) ==
  /\ intact
  /\ node_allocated < node_capacity
  /\ node_allocated' = node_allocated + 1
  /\ Write(node_allocated, {0}, n)
  /\ Hold(node_allocated, n)
  /\ UNCHANGED <<string_allocated, mapped, intact>>

\* What get and get_mut find.
get(o) == IF o = NULL \/ o >= node_allocated THEN None ELSE mem[o].value

\* The owner of a node changes it through get_mut.
set(o, n) ==
  /\ intact
  /\ get(o) # None
  /\ Write(o, {0}, n)
  /\ Hold(o, n)
  /\ UNCHANGED <<node_allocated, string_allocated, mapped, intact>>

\* The bytes of b in slot s and behind it are all mapped.
InMapping(s, b) == s * SlotBytes + Bytes(b) <= mapped

\* store_string and store_payload: a run of slots behind the last one.  Where its bytes are
\* not all mapped, the process faults or has overwritten memory that is not the arena's.
store(b) ==
  LET at == string_start + string_allocated
  IN /\ intact
     /\ string_allocated + SlotsNeeded(b) <= string_capacity
     /\ string_allocated' = string_allocated + SlotsNeeded(b)
     /\ \/ InMapping(at, b) /\ Write(at, Parts(b), b) /\ Hold(at, b) /\ UNCHANGED intact
        \/ ~InMapping(at, b) /\ intact' = FALSE /\ UNCHANGED <<mem, held>>
     /\ UNCHANGED <<node_allocated, mapped>>

\* A pool is full: the answer is None, and the arena stays as it was.
refuse ==
  /\ intact
  /\ \/ node_allocated >= node_capacity
     \/ \E b \in Blobs : string_allocated + SlotsNeeded(b) > string_capacity
  /\ UNCHANGED vars

\* Nothing is said of what goes on after a store behind the mapping.
Overrun == ~intact /\ UNCHANGED vars

Next ==
  \/ \E n \in Nodes : alloc(n)
  \/ \E o \in DOMAIN held : \E n \in Nodes : set(o, n)
  \/ \E b \in Blobs : store(b)
  \/ refuse
  \/ Overrun

Spec == Init /\ [][Next]_vars

-----------------------------------------------------------------------------
(* Reading.                                                                *)

InStringPool(o) == string_start <= o /\ o < string_start + string_allocated

\* The blob whose bytes begin in slot o, if one was written there and is still whole.
BlobAt(o) ==
  LET b == mem[o].value
  IN IF /\ b \in Blobs
        /\ \A i \in Parts(b) : o + i \in Memory /\ mem[o + i] = [value |-> b, part |-> i]
       THEN b ELSE Garbage

get_string(o) ==
  IF o = NULL THEN Empty
  ELSE IF ~InStringPool(o) THEN None
  ELSE IF BlobAt(o) \in Blobs \ Utf8 THEN None ELSE BlobAt(o)

get_payload(o, len) ==
  IF o = NULL THEN Empty
  ELSE IF ~InStringPool(o) \/ (BlobAt(o) \in Blobs /\ LenOf[BlobAt(o)] # len) THEN None
  ELSE BlobAt(o)

-----------------------------------------------------------------------------
(* Properties.                                                             *)

\* Every byte of what is held is mapped.
TypeOK ==
  /\ node_allocated \in 1 .. node_capacity
  /\ string_allocated \in 0 .. string_capacity
  /\ \E page \in PageSizes : mapped \in MappedSizes(page)
  /\ mem \in [Memory -> Cells]
  /\ DOMAIN held \subseteq Memory \ {NULL}
  /\ \A o \in DOMAIN held : held[o] \in Nodes \cup Blobs
  /\ \A o \in DOMAIN held : held[o] \in Blobs => InMapping(o, held[o])
  /\ intact \in BOOLEAN

\* What was stored under an offset is read back until its owner overwrites it: no later
\* node, string or payload touches its slots (alloc, store_string, store_payload).
ReadBack ==
  \A o \in DOMAIN held :
    /\ held[o] \in Nodes => get(o) = held[o]
    /\ held[o] \in Blobs => get_payload(o, LenOf[held[o]]) = held[o]
    /\ held[o] \in Utf8 => get_string(o) = held[o]

\* The offset of a node is no string and the offset of a string or payload is no node,
\* however the offsets of the two pools grow (get, get_string, get_payload).
KindsApart ==
  \A o \in DOMAIN held :
    /\ held[o] \in Nodes => get_string(o) = None
    /\ held[o] \in Blobs => get(o) = None

\* No other store leaves the mapping than one that takes the last slot of the string pool,
\* and that only where less than a slot is mapped behind the file (Arena::new, store_string).
OnlyLastSlotOut ==
  [][intact /\ ~intact' =>
       /\ string_allocated' = string_capacity
       /\ mapped < byte_size + SlotBytes]_vars

\* The partition as it is documented: the slots of every string and payload are slots of
\* the arena's file, and a store writes nowhere else (Arena::new, store_string).
PoolsInFile ==
  /\ intact
  /\ \A o \in DOMAIN held : held[o] \in Blobs => \A i \in Parts(held[o]) : o + i \in Slots
=============================================================================
