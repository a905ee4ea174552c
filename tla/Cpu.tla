-------------------------------- MODULE Cpu ---------------------------------
(* CPUs (cpu/): sets of them, and objects with a copy on each of them.      *)
(* The three parts share no state.                                          *)
EXTENDS Integers, Sequences, FiniteSets, SequencesExt, FiniteSetsExt

-----------------------------------------------------------------------------
(***************************************************************************)
(* Sets of CPUs as words of bits (cpu/set.rs): CpuSet.  A word is the set  *)
(* of its bit positions.                                                   *)
(***************************************************************************)

CONSTANTS
    BITS_PER_PART,
    CpuCounts       \* the machines: numbers of CPUs

VARIABLES
    num_cpus,
    bits,           \* the words of a CpuSet
    members         \* the CPUs it should contain (history)

cpuSetVars == <<num_cpus, bits, members>>

AllOnes == 0 .. BITS_PER_PART - 1
Cpus == 0 .. num_cpus - 1

part_idx(cpu) == cpu \div BITS_PER_PART
bit_idx(cpu) == cpu % BITS_PER_PART
parts_for_cpus(n) == (n + BITS_PER_PART - 1) \div BITS_PER_PART

with_capacity_val(val) == [i \in 1 .. parts_for_cpus(num_cpus) |-> val]

clear_nonexistent_cpu_bits(b) ==
    IF num_cpus % BITS_PER_PART # 0
    THEN [b EXCEPT ![parts_for_cpus(num_cpus)] = @ \cap 0 .. (num_cpus % BITS_PER_PART) - 1]
    ELSE b

new_full == clear_nonexistent_cpu_bits(with_capacity_val(AllOnes))
new_empty == with_capacity_val({})

SetsInit ==
    /\ num_cpus \in CpuCounts
    /\ \/ bits = new_empty /\ members = {}
       \/ bits = new_full /\ members = Cpus

-----------------------------------------------------------------------------
add(cpu) ==
    LET grown == [i \in 1 .. Max({Len(bits), part_idx(cpu) + 1}) |->
                    IF i <= Len(bits) THEN bits[i] ELSE {}] IN
    /\ bits' = [grown EXCEPT ![part_idx(cpu) + 1] = @ \cup {bit_idx(cpu)}]
    /\ members' = members \cup {cpu}
    /\ UNCHANGED num_cpus

remove(cpu) ==
    /\ bits' = IF part_idx(cpu) < Len(bits)
               THEN [bits EXCEPT ![part_idx(cpu) + 1] = @ \ {bit_idx(cpu)}]
               ELSE bits
    /\ members' = members \ {cpu}
    /\ UNCHANGED num_cpus

add_all ==
    /\ bits' = clear_nonexistent_cpu_bits([i \in DOMAIN bits |-> AllOnes])
    /\ members' = Cpus
    /\ UNCHANGED num_cpus

clear ==
    /\ bits' = [i \in DOMAIN bits |-> {}]
    /\ members' = {}
    /\ UNCHANGED num_cpus

contains(b, cpu) == part_idx(cpu) < Len(b) /\ bit_idx(cpu) \in b[part_idx(cpu) + 1]

count == FoldLeft(LAMBDA n, word : n + Cardinality(word), 0, bits)

is_empty == \A i \in DOMAIN bits : bits[i] = {}

is_full ==
    \A i \in DOMAIN bits :
       bits[i] = IF i = Len(bits) /\ num_cpus % BITS_PER_PART # 0
                 THEN 0 .. (num_cpus % BITS_PER_PART) - 1
                 ELSE AllOnes

iter ==
    LET end == Len(bits) * BITS_PER_PART
    IN  SelectSeq([i \in 1 .. end |-> i - 1], LAMBDA id : contains(bits, id))

MembersOf(b) == {c \in Cpus : contains(b, c)}

SetsNext ==
    \/ \E cpu \in Cpus : add(cpu) \/ remove(cpu)
    \/ add_all \/ clear

-----------------------------------------------------------------------------
(* After any sequence of operations, on any number of CPUs, also exactly at *)
(* a word boundary: contains, count, is_empty, is_full and iter answer for  *)
(* the set of CPUs that were added and not removed, and the bits beyond the *)
(* last CPU stay clear.                                                     *)
CpuSetIsSet ==
    /\ MembersOf(bits) = members
    /\ count = Cardinality(members)
    /\ is_empty <=> members = {}
    /\ is_full <=> members = Cpus
    /\ iter = SetToSortSeq(members, LAMBDA a, b : a < b)

-----------------------------------------------------------------------------
(***************************************************************************)
(* AtomicCpuSet (cpu/set.rs): add and remove are one atomic instruction;   *)
(* load and store go word by word, beside the loads and stores of other    *)
(* threads.                                                                *)
(***************************************************************************)

CONSTANT SetThread   \* the threads that use the atomic set

VARIABLES
    atomic_bits,     \* the words of the AtomicCpuSet
    access           \* per thread, the load or store it is in

atomicSetVars == <<num_cpus, atomic_bits, access>>

(* A load remembers (history) which CPUs were in the set all the time and   *)
(* which were there at some time.                                           *)
Idle == [op |-> "idle", next |-> 1, words |-> <<>>, always |-> {}, ever |-> {}]

(* The words of a CpuSet. *)
Words(S) ==
    [i \in 1 .. parts_for_cpus(num_cpus) |-> {bit_idx(c) : c \in {d \in S : part_idx(d) = i - 1}}]

AtomicSetsInit ==
    /\ num_cpus \in CpuCounts
    /\ \E value \in SUBSET Cpus : atomic_bits = Words(value)
    /\ access = [t \in SetThread |-> Idle]

Noticed(a, fresh) ==
    IF a.op = "load"
    THEN [a EXCEPT !.always = @ \cap MembersOf(fresh), !.ever = @ \cup MembersOf(fresh)]
    ELSE a

AtomicStep(fresh) ==
    /\ atomic_bits' = fresh
    /\ access' = [t \in SetThread |-> Noticed(access[t], fresh)]
    /\ UNCHANGED num_cpus

AtomicAdd(cpu) ==
    AtomicStep(IF part_idx(cpu) < Len(atomic_bits)
               THEN [atomic_bits EXCEPT ![part_idx(cpu) + 1] = @ \cup {bit_idx(cpu)}]
               ELSE atomic_bits)

AtomicRemove(cpu) ==
    AtomicStep(IF part_idx(cpu) < Len(atomic_bits)
               THEN [atomic_bits EXCEPT ![part_idx(cpu) + 1] = @ \ {bit_idx(cpu)}]
               ELSE atomic_bits)

load(t) ==
    /\ access[t] = Idle
    /\ access' = [access EXCEPT ![t] = [op |-> "load", next |-> 1, words |-> <<>>,
                                        always |-> MembersOf(atomic_bits), ever |-> MembersOf(atomic_bits)]]
    /\ UNCHANGED <<num_cpus, atomic_bits>>

store(t, value) ==
    /\ access[t] = Idle
    /\ access' = [access EXCEPT ![t] = [Idle EXCEPT !.op = "store", !.words = Words(value)]]
    /\ UNCHANGED <<num_cpus, atomic_bits>>

(* The words read in the order of their positions, but from one word on. *)
LoadPartSkips(t) ==
    /\ access[t].op = "load"
    /\ access[t].next <= Len(atomic_bits)
    /\ access' = [access EXCEPT ![t].words = Append(@, atomic_bits[Len(atomic_bits)]),
                                ![t].next = @ + 1]
    /\ UNCHANGED <<num_cpus, atomic_bits>>

LoadPart(t) ==
    /\ access[t].op = "load"
    /\ access[t].next <= Len(atomic_bits)
    /\ access' = [access EXCEPT ![t].words = Append(@, atomic_bits[access[t].next]),
                                ![t].next = @ + 1]
    /\ UNCHANGED <<num_cpus, atomic_bits>>

StorePart(t) ==
    LET a == access[t]
        fresh == [atomic_bits EXCEPT ![a.next] = a.words[a.next]] IN
    /\ a.op = "store"
    /\ a.next <= Min({Len(atomic_bits), Len(a.words)})
    /\ atomic_bits' = fresh
    /\ access' = [u \in SetThread |->
                    IF u = t THEN [a EXCEPT !.next = @ + 1] ELSE Noticed(access[u], fresh)]
    /\ UNCHANGED num_cpus

AccessReturns(t) ==
    /\ access[t].op # "idle"
    /\ access[t].next > Len(atomic_bits)
    /\ access' = [access EXCEPT ![t] = Idle]
    /\ UNCHANGED <<num_cpus, atomic_bits>>

AtomicSetsNext ==
    \/ \E cpu \in Cpus : AtomicAdd(cpu) \/ AtomicRemove(cpu)
    \/ \E t \in SetThread :
          \/ \E value \in SUBSET Cpus : store(t, value)
          \/ load(t) \/ LoadPart(t) \/ StorePart(t) \/ AccessReturns(t)

-----------------------------------------------------------------------------
(* A load that races stores and other changes is not a snapshot, but what   *)
(* it returns is right about every CPU that did not change meanwhile.       *)
LoadSeesStableCpus ==
    \A t \in SetThread : access[t].op = "load" /\ access[t].next > Len(atomic_bits) =>
       /\ access[t].always \subseteq MembersOf(access[t].words)
       /\ MembersOf(access[t].words) \subseteq access[t].ever

-----------------------------------------------------------------------------
(***************************************************************************)
(* Dynamically allocated CPU-local objects (cpu/local/dyn_cpu_local.rs): a *)
(* chunk has one area of CHUNK_SIZE for every CPU, one after the other, and *)
(* a bitmap of its items; an object is the address of its item in the area  *)
(* of the first CPU.                                                        *)
(***************************************************************************)

CONSTANTS
    DYN_CPUS,       \* the number of CPUs
    CHUNK_SIZE,
    ITEM_SIZE,
    ChunkBase       \* the start address of the segment of each chunk

VARIABLES
    chunk,          \* per chunk: "none", "live", or its bitmap's state
    bitmap,         \* the taken items of each chunk
    cpu_local,      \* the objects: addresses on the first CPU
    values,         \* the addresses that hold an initialized value
    dyn_panic

dynVars == <<chunk, bitmap, cpu_local, values, dyn_panic>>

Chunk == DOMAIN ChunkBase
Items == CHUNK_SIZE \div ITEM_SIZE
get_ptr_on_target(va, cpu) == va + cpu * CHUNK_SIZE
OnAllCpus(va) == {get_ptr_on_target(va, cpu) : cpu \in 0 .. DYN_CPUS - 1}

LocalsInit ==
    /\ chunk = [c \in Chunk |-> "none"]
    /\ bitmap = [c \in Chunk |-> {}]
    /\ cpu_local = {}
    /\ values = {}
    /\ dyn_panic = "none"

new(c) ==
    /\ chunk[c] = "none"
    /\ chunk' = [chunk EXCEPT ![c] = "live"]
    /\ bitmap' = [bitmap EXCEPT ![c] = {}]
    /\ UNCHANGED <<cpu_local, values, dyn_panic>>

(* alloc: the first free item; None when the chunk is full. *)
alloc(c) ==
    LET index == CHOOSE i \in (0 .. Items - 1) \ bitmap[c] :
                    \A j \in (0 .. Items - 1) \ bitmap[c] : i <= j
        va == ChunkBase[c] + index * ITEM_SIZE IN
    /\ chunk[c] = "live"
    /\ Cardinality(bitmap[c]) < Items
    /\ bitmap' = [bitmap EXCEPT ![c] = @ \cup {index}]
    /\ cpu_local' = cpu_local \cup {va}
    /\ values' = values \cup OnAllCpus(va)
    /\ UNCHANGED <<chunk, dyn_panic>>

(* get_item_index; -1 is None. *)
get_item_index(c, va) ==
    IF va < ChunkBase[c] \/ va - ChunkBase[c] > CHUNK_SIZE
    THEN -1 ELSE (va - ChunkBase[c]) \div ITEM_SIZE

(* try_dealloc with any object: one of another chunk is given back. *)
try_dealloc(c, va) ==
    LET index == get_item_index(c, va) IN
    /\ chunk[c] = "live"
    /\ va \in cpu_local
    /\ index # -1
    /\ IF index >= Items
       THEN dyn_panic' = "bitmap" /\ UNCHANGED <<bitmap, cpu_local, values>>
       ELSE /\ bitmap' = [bitmap EXCEPT ![c] = @ \ {index}]
            /\ cpu_local' = cpu_local \ {va}
            /\ values' = values \ OnAllCpus(va)
            /\ UNCHANGED dyn_panic
    /\ UNCHANGED chunk

(* Drop of a chunk: its pages go back, or it panics when it is not empty. *)
ChunkDrop(c) ==
    /\ chunk[c] = "live"
    /\ IF bitmap[c] = {}
       THEN chunk' = [chunk EXCEPT ![c] = "none"] /\ UNCHANGED dyn_panic
       ELSE dyn_panic' = "drop" /\ UNCHANGED chunk
    /\ UNCHANGED <<bitmap, cpu_local, values>>

LocalsNext ==
    /\ dyn_panic = "none"
    /\ \E c \in Chunk :
          \/ new(c) \/ alloc(c) \/ ChunkDrop(c)
          \/ \E va \in cpu_local : try_dealloc(c, va)

-----------------------------------------------------------------------------
(* A CPU-local object has an initialized value of its own on every CPU,     *)
(* inside the area of that CPU in a live chunk, and the items taken in the  *)
(* bitmaps are exactly the objects, whichever chunk an object is offered to. *)
CpuLocalsAccounted ==
    /\ cpu_local = UNION {{ChunkBase[c] + i * ITEM_SIZE : i \in bitmap[c]} : c \in Chunk}
    /\ values = UNION {OnAllCpus(va) : va \in cpu_local}
    /\ Cardinality(values) = DYN_CPUS * Cardinality(cpu_local)
    /\ \A c \in Chunk : bitmap[c] # {} => chunk[c] = "live"

(* Offering an object to a chunk it does not belong to gives it back. *)
ForeignObjectReturned == dyn_panic # "bitmap"
=============================================================================
