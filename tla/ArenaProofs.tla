---------------------------- MODULE ArenaProofs ----------------------------
(***************************************************************************)
(* Proofs about Arena, for every capacity and every set of nodes and blobs.*)
(***************************************************************************)
EXTENDS Arena, TLAPS

\* The bytes of a blob do not reach past the slots set aside for it.
LEMMA PartsFit ==
  ASSUME NEW b \in Blobs
  PROVE  /\ SlotsNeeded(b) \in Nat \ {0}
         /\ 0 \in Parts(b)
         /\ \A i \in Parts(b) : i \in 0 .. (SlotsNeeded(b) - 1)
<1>1. LenOf[b] \in Nat \ {0}
  BY ArenaAssumption
<1>2. QED
  BY <1>1 DEF SlotsNeeded, Parts, Bytes, LenBytes, SlotBytes

\* The string pool lies behind every node.
LEMMA Layout ==
  /\ string_capacity \in Nat
  /\ string_start \in Nat
  /\ string_start > node_capacity
  /\ total_slots = node_capacity + string_capacity
  /\ byte_size \in Nat /\ byte_size = total_slots * SlotBytes
BY ArenaAssumption DEF string_capacity, string_start, total_slots, byte_size, SlotBytes

\* The file is mapped, whatever the size of the pages: its slots are memory.
LEMMA FileIsMapped ==
  ASSUME \E page \in PageSizes : mapped \in MappedSizes(page)
  PROVE  /\ mapped \in Nat /\ mapped >= byte_size
         /\ \A s \in Nat : s \in Memory <=> s * SlotBytes < mapped
         /\ 0 .. (node_capacity - 1) \subseteq Memory
         /\ 0 \in Memory
<1>1. PICK page \in PageSizes : mapped \in MappedSizes(page)
  OBVIOUS
<1>2. PICK n \in 0 .. (page - 1) : mapped = byte_size + n
  BY <1>1 DEF MappedSizes
<1>3. mapped \in Nat /\ mapped >= byte_size
  BY <1>2, Layout, ArenaAssumption
<1>4. \A s \in Nat : s \in Memory <=> s * SlotBytes < mapped
  BY <1>3 DEF Memory, SlotBytes
<1>5. \A s \in 0 .. (node_capacity - 1) : s \in Nat /\ s * SlotBytes < mapped
  BY <1>3, Layout, ArenaAssumption DEF SlotBytes
<1>6. 0 \in 0 .. (node_capacity - 1)
  BY ArenaAssumption
<1>7. QED
  BY <1>3, <1>4, <1>5, <1>6

\* The slots of bytes that are mapped are memory.
LEMMA PartsInMemory ==
  ASSUME \E page \in PageSizes : mapped \in MappedSizes(page),
         NEW s \in Nat, NEW b \in Blobs, InMapping(s, b), NEW i \in Parts(b)
  PROVE  s + i \in Memory
<1>1. LenOf[b] \in Nat
  BY ArenaAssumption
<1>2. i \in Nat /\ i * SlotBytes < Bytes(b) /\ Bytes(b) \in Nat
  BY <1>1 DEF Parts, Bytes, LenBytes
<1>3. s + i \in Nat /\ (s + i) * SlotBytes < mapped
  BY <1>2, FileIsMapped DEF InMapping, SlotBytes
<1>4. QED
  BY <1>3, FileIsMapped

\* The slots of what is held under an offset lie in the allocated part of its pool and
\* hold its parts, one after the other.
NodeHeld(o) ==
  o \in 1 .. (node_allocated - 1) /\ mem[o] = [value |-> held[o], part |-> 0]

BlobHeld(o) ==
  /\ o \in string_start .. (string_start + string_allocated - SlotsNeeded(held[o]))
  /\ \A i \in Parts(held[o]) : mem[o + i] = [value |-> held[o], part |-> i]

HeldInv ==
  /\ TypeOK
  /\ \A o \in DOMAIN held : held[o] \in Nodes => NodeHeld(o)
  /\ \A o \in DOMAIN held : held[o] \in Blobs => BlobHeld(o)

LEMMA HeldInit == Init => HeldInv
<1> SUFFICES ASSUME Init PROVE HeldInv
  OBVIOUS
<1>1. mem \in [Memory -> Cells]
  BY DEF Init, Cells
<1>2. QED
  BY <1>1, ArenaAssumption, Layout DEF Init, HeldInv, TypeOK

\* A new node takes a slot that nothing held uses.
LEMMA HeldAlloc ==
  ASSUME HeldInv, NEW n \in Nodes, alloc(n)
  PROVE  HeldInv'
<1> USE DEF HeldInv
<1>1. node_allocated \in 1 .. (node_capacity - 1) /\ node_allocated \in Memory \ {NULL}
  BY ArenaAssumption, FileIsMapped DEF alloc, TypeOK, NULL
<1> UNCHANGED <<string_allocated, mapped, intact, Memory>>
  BY DEF alloc, Memory
<1>2. DOMAIN held' = DOMAIN held \cup {node_allocated}
      /\ held'[node_allocated] = n
      /\ \A o \in DOMAIN held : o # node_allocated => held'[o] = held[o]
  BY DEF alloc, Hold
<1>3. mem' \in [Memory -> Cells]
  BY <1>1 DEF alloc, Write, Cells, TypeOK
<1>4. TypeOK'
  <2>1. (\A o \in DOMAIN held : held[o] \in Blobs => InMapping(o, held[o]))'
    BY <1>2, ArenaAssumption DEF TypeOK, InMapping
  <2>2. QED
    BY <1>1, <1>2, <1>3, <2>1, ArenaAssumption DEF alloc, TypeOK
<1>5. ASSUME NEW o \in DOMAIN held', held'[o] \in Nodes PROVE NodeHeld(o)'
  <2>1. CASE o = node_allocated
    <3>1. mem'[o] = [value |-> n, part |-> o - node_allocated]
      BY <1>1, <2>1 DEF alloc, Write
    <3>2. QED
      BY <1>1, <1>2, <2>1, <3>1 DEF alloc, NodeHeld
  <2>2. CASE o # node_allocated
    <3>1. NodeHeld(o) /\ o \in Memory
      BY <1>2, <1>5, <2>2 DEF TypeOK
    <3>2. mem'[o] = mem[o]
      BY <1>1, <2>2, <3>1 DEF alloc, Write, NodeHeld
    <3>3. QED
      BY <1>1, <1>2, <2>2, <3>1, <3>2 DEF alloc, NodeHeld
  <2>3. QED
    BY <2>1, <2>2
<1>6. ASSUME NEW o \in DOMAIN held', held'[o] \in Blobs PROVE BlobHeld(o)'
  <2>1. o # node_allocated
    BY <1>2, <1>6, ArenaAssumption
  <2>2. BlobHeld(o) /\ held'[o] = held[o] /\ held[o] \in Blobs
    BY <1>2, <1>6, <2>1
  <2>3. ASSUME NEW i \in Parts(held[o]) PROVE mem'[o + i] = mem[o + i]
    <3>1. SlotsNeeded(held[o]) \in Nat \ {0} /\ i \in 0 .. (SlotsNeeded(held[o]) - 1)
      BY <2>2, <2>3, PartsFit
    <3>2. o + i \in Memory /\ o + i \in Nat /\ o + i >= string_start
      <4>1. o \in Nat /\ o >= string_start
        BY <2>2, <3>1, Layout DEF BlobHeld, TypeOK
      <4>2. InMapping(o, held[o])
        BY <1>2, <2>1, <2>2, <1>6 DEF TypeOK
      <4>3. QED
        BY <2>2, <2>3, <3>1, <4>1, <4>2, Layout, PartsInMemory DEF TypeOK
    <3>3. (o + i) - node_allocated # 0
      <4>1. node_allocated \in Nat /\ o + i \in Nat /\ o + i > node_allocated
        BY <1>1, <3>2, ArenaAssumption, Layout
      <4>2. QED
        BY <4>1
    <3>4. QED
      BY <3>2, <3>3 DEF alloc, Write
  <2>4. QED
    BY <2>2, <2>3 DEF alloc, BlobHeld
<1>7. QED
  BY <1>4, <1>5, <1>6

\* A node that is overwritten stays in its slot.
LEMMA HeldSet ==
  ASSUME HeldInv, NEW p \in DOMAIN held, NEW n \in Nodes, set(p, n)
  PROVE  HeldInv'
<1> USE DEF HeldInv
<1>1. p \in 1 .. (node_allocated - 1) /\ p \in Memory \ {NULL} /\ p < string_start
  <2>1. p \in Nat
    BY DEF TypeOK, Memory
  <2>2. QED
    BY <2>1, ArenaAssumption, Layout DEF set, get, TypeOK, NULL
<1> UNCHANGED <<node_allocated, string_allocated, mapped, intact, Memory>>
  BY DEF set, Memory
<1>2. DOMAIN held' = DOMAIN held /\ held'[p] = n /\ \A o \in DOMAIN held : o # p => held'[o] = held[o]
  BY DEF set, Hold
<1>3. mem' \in [Memory -> Cells]
  BY <1>1 DEF set, Write, Cells, TypeOK
<1>4. TypeOK'
  <2>1. (\A o \in DOMAIN held : held[o] \in Blobs => InMapping(o, held[o]))'
    BY <1>2, ArenaAssumption DEF TypeOK, InMapping
  <2>2. QED
    BY <1>2, <1>3, <2>1 DEF TypeOK
<1>5. ASSUME NEW o \in DOMAIN held', held'[o] \in Nodes PROVE NodeHeld(o)'
  <2>1. CASE o = p
    <3>1. mem'[o] = [value |-> n, part |-> o - p]
      BY <1>1, <2>1 DEF set, Write
    <3>2. QED
      BY <1>1, <1>2, <2>1, <3>1 DEF set, NodeHeld
  <2>2. CASE o # p
    <3>1. NodeHeld(o) /\ o \in Memory
      BY <1>2, <1>5, <2>2 DEF TypeOK
    <3>2. mem'[o] = mem[o]
      BY <1>1, <2>2, <3>1 DEF set, Write, NodeHeld
    <3>3. QED
      BY <1>2, <2>2, <3>1, <3>2 DEF set, NodeHeld
  <2>3. QED
    BY <2>1, <2>2
<1>6. ASSUME NEW o \in DOMAIN held', held'[o] \in Blobs PROVE BlobHeld(o)'
  <2>1. o # p
    BY <1>2, <1>6, ArenaAssumption
  <2>2. BlobHeld(o) /\ held'[o] = held[o] /\ held[o] \in Blobs
    BY <1>2, <1>6, <2>1
  <2>3. ASSUME NEW i \in Parts(held[o]) PROVE mem'[o + i] = mem[o + i]
    <3>1. SlotsNeeded(held[o]) \in Nat \ {0} /\ i \in 0 .. (SlotsNeeded(held[o]) - 1)
      BY <2>2, <2>3, PartsFit
    <3>2. o + i \in Memory /\ o + i \in Nat /\ o + i >= string_start
      <4>1. o \in Nat /\ o >= string_start
        BY <2>2, <3>1, Layout DEF BlobHeld, TypeOK
      <4>2. InMapping(o, held[o])
        BY <1>2, <2>1, <2>2, <1>6 DEF TypeOK
      <4>3. QED
        BY <2>2, <2>3, <3>1, <4>1, <4>2, Layout, PartsInMemory DEF TypeOK
    <3>3. QED
      BY <1>1, <3>2, Layout DEF set, Write
  <2>4. QED
    BY <2>2, <2>3 DEF set, BlobHeld
<1>7. QED
  BY <1>4, <1>5, <1>6

\* A new string or payload takes slots behind all that are held.
LEMMA HeldStore ==
  ASSUME HeldInv, NEW b \in Blobs, store(b), InMapping(string_start + string_allocated, b)
  PROVE  HeldInv'
<1> DEFINE at == string_start + string_allocated
<1> USE DEF HeldInv
<1> UNCHANGED <<node_allocated, mapped, intact, Memory>>
  BY DEF store, Memory
<1>1. /\ SlotsNeeded(b) \in Nat \ {0}
      /\ at \in Nat /\ at > node_capacity
      /\ at \in Memory \ {NULL}
  <2>1. SlotsNeeded(b) \in Nat \ {0} /\ at \in Nat /\ at > node_capacity
    BY PartsFit, ArenaAssumption, Layout DEF store, TypeOK
  <2>2. 0 \in Parts(b) /\ at + 0 = at
    BY <2>1, PartsFit
  <2>3. at \in Memory
    BY <2>1, <2>2, PartsInMemory DEF TypeOK
  <2>4. QED
    BY <2>1, <2>3, ArenaAssumption DEF NULL
<1>2. DOMAIN held' = DOMAIN held \cup {at} /\ held'[at] = b
      /\ \A o \in DOMAIN held : o # at => held'[o] = held[o]
  BY DEF store, Hold
<1>3. mem' \in [Memory -> Cells]
  <2>1. ASSUME NEW x \in Memory, x - at \in Parts(b)
        PROVE  [value |-> b, part |-> x - at] \in Cells
    BY <2>1, PartsFit DEF Cells
  <2>2. QED
    BY <2>1 DEF store, Write, TypeOK
<1>4. TypeOK'
  <2>1. (\A o \in DOMAIN held : held[o] \in Blobs => InMapping(o, held[o]))'
    BY <1>2 DEF TypeOK, InMapping
  <2>2. string_allocated' \in 0 .. string_capacity
    BY <1>1, Layout DEF store, TypeOK
  <2>3. QED
    BY <1>1, <1>2, <1>3, <2>1, <2>2 DEF TypeOK
<1>5. ASSUME NEW o \in DOMAIN held', held'[o] \in Nodes PROVE NodeHeld(o)'
  <2>1. o # at
    BY <1>2, <1>5, ArenaAssumption
  <2>2. NodeHeld(o) /\ o \in Memory /\ held'[o] = held[o]
    BY <1>2, <1>5, <2>1 DEF TypeOK
  <2>3. o - at \notin Parts(b)
    <3>1. o \in Nat /\ o < at
      BY <1>1, <2>2, ArenaAssumption DEF NodeHeld, TypeOK
    <3>2. QED
      BY <1>1, <3>1, PartsFit
  <2>4. mem'[o] = mem[o]
    BY <2>2, <2>3 DEF store, Write
  <2>5. QED
    BY <2>2, <2>4 DEF store, NodeHeld
<1>6. ASSUME NEW o \in DOMAIN held', held'[o] \in Blobs PROVE BlobHeld(o)'
  <2>1. CASE o = at
    <3>1. ASSUME NEW i \in Parts(b) PROVE mem'[at + i] = [value |-> b, part |-> i]
      <4>1. i \in 0 .. (SlotsNeeded(b) - 1)
        BY <3>1, PartsFit
      <4>2. at + i \in Memory /\ (at + i) - at = i
        BY <1>1, <3>1, <4>1, PartsInMemory DEF TypeOK
      <4>3. QED
        BY <3>1, <4>2 DEF store, Write
    <3>2. string_allocated' = string_allocated + SlotsNeeded(b) /\ string_allocated \in Nat
      BY Layout DEF store, TypeOK
    <3>3. o \in string_start .. (string_start + string_allocated' - SlotsNeeded(b))
      <4>1. string_start + string_allocated' - SlotsNeeded(b) = at
        BY <1>1, <3>2, Layout
      <4>2. QED
        BY <1>1, <2>1, <3>2, <4>1, Layout
    <3>4. held'[o] = b
      BY <1>2, <2>1
    <3>5. \A i \in Parts(held'[o]) : mem'[o + i] = [value |-> held'[o], part |-> i]
      BY <2>1, <3>1, <3>4
    <3>6. QED
      BY <3>3, <3>4, <3>5 DEF BlobHeld
  <2>2. CASE o # at
    <3>1. BlobHeld(o) /\ held'[o] = held[o] /\ held[o] \in Blobs
      BY <1>2, <1>6, <2>2
    <3>2. ASSUME NEW i \in Parts(held[o]) PROVE mem'[o + i] = mem[o + i]
      <4>1. SlotsNeeded(held[o]) \in Nat /\ i \in 0 .. (SlotsNeeded(held[o]) - 1)
        BY <3>1, <3>2, PartsFit
      <4>2. o \in Nat /\ o + i \in Nat /\ o + i < at
        BY <3>1, <4>1, Layout DEF BlobHeld, TypeOK
      <4>5. o + i \in Memory
        BY <1>2, <2>2, <3>1, <3>2, <4>2, PartsInMemory DEF TypeOK
      <4>3. (o + i) - at \notin Parts(b)
        BY <1>1, <4>2, PartsFit, Layout
      <4>4. QED
        BY <4>5, <4>3 DEF store, Write
    <3>3. \A i \in Parts(held'[o]) : mem'[o + i] = [value |-> held'[o], part |-> i]
      BY <3>1, <3>2 DEF BlobHeld
    <3>4. SlotsNeeded(held[o]) \in Nat \ {0} /\ string_allocated \in Nat
      BY <3>1, PartsFit, Layout DEF TypeOK
    <3>5. string_allocated' = string_allocated + SlotsNeeded(b)
      BY DEF store
    <3>6. o \in string_start .. (string_start + string_allocated' - SlotsNeeded(held'[o]))
      BY <1>1, <3>1, <3>4, <3>5, Layout DEF BlobHeld
    <3>7. QED
      BY <3>3, <3>6 DEF BlobHeld
  <2>3. QED
    BY <2>1, <2>2
<1>7. QED
  BY <1>4, <1>5, <1>6

\* A store that leaves the mapping changes nothing that is held.
LEMMA HeldOverrun ==
  ASSUME HeldInv, NEW b \in Blobs, store(b), ~InMapping(string_start + string_allocated, b)
  PROVE  HeldInv'
<1> USE DEF HeldInv
<1>1. UNCHANGED <<node_allocated, mapped, mem, held, Memory>> /\ intact' = FALSE
  BY DEF store, Memory
<1>2. /\ string_allocated' \in 0 .. string_capacity
      /\ string_allocated \in Nat /\ string_allocated <= string_allocated'
  BY PartsFit, Layout DEF store, TypeOK
<1>3. TypeOK'
  BY <1>1, <1>2 DEF TypeOK, InMapping
<1>4. ASSUME NEW o \in DOMAIN held', held'[o] \in Nodes PROVE NodeHeld(o)'
  BY <1>1, <1>4 DEF NodeHeld
<1>5. ASSUME NEW o \in DOMAIN held', held'[o] \in Blobs PROVE BlobHeld(o)'
  <2>1. BlobHeld(o) /\ held'[o] = held[o] /\ SlotsNeeded(held[o]) \in Nat
    BY <1>1, <1>5, PartsFit
  <2>2. o \in string_start .. (string_start + string_allocated' - SlotsNeeded(held'[o]))
    BY <1>2, <2>1, Layout DEF BlobHeld
  <2>3. QED
    BY <1>1, <2>1, <2>2 DEF BlobHeld
<1>6. QED
  BY <1>3, <1>4, <1>5

LEMMA HeldStep == HeldInv /\ [Next]_vars => HeldInv'
<1> SUFFICES ASSUME HeldInv, [Next]_vars PROVE HeldInv'
  OBVIOUS
<1>1. CASE UNCHANGED vars
  BY <1>1 DEF vars, HeldInv, TypeOK, NodeHeld, BlobHeld, Memory, MappedSizes, InMapping
<1>2. CASE refuse \/ Overrun
  BY <1>1, <1>2 DEF refuse, Overrun
<1>3. QED
  BY <1>1, <1>2, HeldAlloc, HeldSet, HeldStore, HeldOverrun DEF Next

\* TypeOK: the counters stay within their pools, and what is held within the mapping, for
\* every capacity, every size of pages and every sequence of stores.
THEOREM ArenaTypeCorrect == Spec => []TypeOK
<1>1. HeldInv => TypeOK
  BY DEF HeldInv
<1>2. QED
  BY <1>1, HeldInit, HeldStep, PTL DEF Spec

\* ReadBack: under every offset handed out, get, get_string and get_payload find what its
\* owner stored last, for every capacity and every sequence of stores.
THEOREM StoredIsReadBack == Spec => []ReadBack
<1>1. HeldInv => ReadBack
  <2> SUFFICES ASSUME HeldInv, NEW o \in DOMAIN held
               PROVE  /\ held[o] \in Nodes => get(o) = held[o]
                      /\ held[o] \in Blobs => get_payload(o, LenOf[held[o]]) = held[o]
                      /\ held[o] \in Utf8 => get_string(o) = held[o]
    BY DEF ReadBack
  <2>1. held[o] \in Nodes => get(o) = held[o]
    <3>1. held[o] \in Nodes => NodeHeld(o)
      BY DEF HeldInv
    <3>2. node_allocated \in Nat
      BY ArenaAssumption DEF HeldInv, TypeOK
    <3>3. QED
      BY <3>1, <3>2 DEF NodeHeld, get, NULL
  <2>2. ASSUME held[o] \in Blobs
        PROVE  o # NULL /\ InStringPool(o) /\ BlobAt(o) = held[o]
    <3>1. BlobHeld(o) /\ SlotsNeeded(held[o]) \in Nat \ {0}
      BY <2>2, PartsFit DEF HeldInv
    <3>2. o \in Nat /\ string_start <= o /\ o < string_start + string_allocated
      BY <3>1, Layout DEF BlobHeld, HeldInv, TypeOK
    <3>3. mem[o] = [value |-> held[o], part |-> 0]
      <4>1. 0 \in Parts(held[o]) /\ o + 0 = o
        BY <2>2, <3>2, PartsFit
      <4>2. QED
        BY <3>1, <4>1 DEF BlobHeld
    <3>4. ASSUME NEW i \in Parts(held[o]) PROVE o + i \in Memory
      BY <2>2, <3>2, <3>4, PartsInMemory DEF HeldInv, TypeOK
    <3>5. BlobAt(o) = held[o]
      BY <2>2, <3>1, <3>3, <3>4 DEF BlobAt, BlobHeld
    <3>6. QED
      BY <3>2, <3>5, Layout, ArenaAssumption DEF InStringPool, NULL
  <2>3. QED
    BY <2>1, <2>2, ArenaAssumption DEF get_payload, get_string
<1>2. QED
  BY <1>1, HeldInit, HeldStep, PTL DEF Spec

\* KindsApart: no reader of strings takes a node's offset, and no reader of nodes a string's.
THEOREM KindsStayApart == Spec => []KindsApart
<1>1. HeldInv => KindsApart
  <2> SUFFICES ASSUME HeldInv, NEW o \in DOMAIN held
               PROVE  /\ held[o] \in Nodes => get_string(o) = None
                      /\ held[o] \in Blobs => get(o) = None
    BY DEF KindsApart
  <2>1. node_allocated \in Nat /\ node_allocated < string_start /\ string_allocated \in Nat
    BY ArenaAssumption, Layout DEF HeldInv, TypeOK
  <2>2. held[o] \in Nodes => o \in 1 .. (node_allocated - 1)
    BY DEF HeldInv, NodeHeld
  <2>3. held[o] \in Nodes => get_string(o) = None
    BY <2>1, <2>2, Layout DEF get_string, InStringPool, NULL
  <2>4. held[o] \in Blobs => o \in Nat /\ o >= string_start
    <3>1. held[o] \in Blobs => SlotsNeeded(held[o]) \in Nat /\ BlobHeld(o)
      BY PartsFit DEF HeldInv
    <3>2. QED
      BY <2>1, <3>1, Layout DEF BlobHeld
  <2>5. held[o] \in Blobs => get(o) = None
    BY <2>1, <2>4, Layout DEF get
  <2>6. QED
    BY <2>3, <2>5
<1>2. QED
  BY <1>1, HeldInit, HeldStep, PTL DEF Spec

\* OnlyLastSlotOut: for every capacity and every size of pages, a store of the arena leaves
\* the mapping only with the last slot of the string pool (Arena::new, store_string).
THEOREM OnlyLastSlotIsOut == Spec => OnlyLastSlotOut
<1>1. ASSUME HeldInv, [Next]_vars, intact, ~intact'
      PROVE  string_allocated' = string_capacity /\ mapped < byte_size + SlotBytes
  <2>1. PICK b \in Blobs : store(b)
    BY <1>1 DEF Next, alloc, set, refuse, Overrun, vars
  <2>2. ~InMapping(string_start + string_allocated, b)
    BY <1>1, <2>1 DEF store
  <2>3. SlotsNeeded(b) \in Nat /\ Bytes(b) \in Nat /\ Bytes(b) <= SlotsNeeded(b) * SlotBytes
    <3>1. LenOf[b] \in Nat
      BY ArenaAssumption
    <3>2. QED
      BY <3>1 DEF SlotsNeeded, Bytes, LenBytes, SlotBytes
  <2>4. /\ string_allocated \in Nat
        /\ string_allocated' = string_allocated + SlotsNeeded(b)
        /\ string_allocated' <= string_capacity
    BY <1>1, <2>1, Layout DEF store, HeldInv, TypeOK
  <2>5. mapped \in Nat /\ mapped >= byte_size
    BY <1>1, FileIsMapped DEF HeldInv, TypeOK
  <2>6. mapped < (string_start + string_allocated + SlotsNeeded(b)) * SlotBytes
    BY <2>2, <2>3, <2>4, <2>5, Layout DEF InMapping, SlotBytes
  <2>7. mapped < (total_slots + 1 + string_allocated' - string_capacity) * SlotBytes
    <3>1. string_start + string_allocated + SlotsNeeded(b)
            = total_slots + 1 + string_allocated' - string_capacity
      BY <2>3, <2>4, Layout, ArenaAssumption DEF string_start
    <3>2. QED
      BY <2>6, <3>1
  <2>8. QED
    BY <2>4, <2>5, <2>7, Layout, ArenaAssumption DEF SlotBytes
<1>2. HeldInv /\ [Next]_vars
        => [intact /\ ~intact' => /\ string_allocated' = string_capacity
                                 /\ mapped < byte_size + SlotBytes]_vars
  BY <1>1
<1>3. QED
  BY <1>2, HeldInit, HeldStep, PTL DEF Spec, OnlyLastSlotOut
=============================================================================
