---------------------------- MODULE IoResources -----------------------------
(* What drivers get from the I/O allocators (io/): device memory, and ports; *)
(* and the bitmap that ports and other identifiers come from.  The three    *)
(* parts share no state.                                                    *)
EXTENDS Integers, Sequences, FiniteSets

-----------------------------------------------------------------------------
(***************************************************************************)
(* Access to device memory (io/io_mem).  Boot builds the allocators, takes *)
(* out what the system's own devices use, and drivers then acquire ranges  *)
(* of physical addresses.                                                  *)
(*                                                                         *)
(* The range allocators appear by what they promise (module KVirtArea):    *)
(* a given range is granted when all of it is free.  Acquired device       *)
(* memory is mapped by whole pages; byte x of the mapping is byte x of the *)
(* first page (module KVirtArea).  Reads and writes change no state here;  *)
(* the operators below say which physical address they touch.              *)
(***************************************************************************)

CONSTANTS
    Managed,        \* the ranges of the allocators, in order: <<start, end>>
    SystemMmio,     \* ranges the system's own devices use
    IO_PAGE,        \* PAGE_SIZE
    Driver          \* places a driver can keep a handle in

VARIABLES
    io_up,          \* io::init has run
    granted,        \* the ranges taken from the allocators
    iomem           \* the IoMem each driver place holds

ioVars == <<io_up, granted, iomem>>

NoIoMem == [base |-> 0, offset |-> 0, limit |-> 0, pa |-> -1, origin |-> <<0, 0>>]

DeviceMemInit ==
    /\ io_up = FALSE
    /\ granted = {}
    /\ iomem = [d \in Driver |-> NoIoMem]

Overlap(a, b) == ~ (a[1] >= b[2] \/ a[2] <= b[1])

-----------------------------------------------------------------------------
(* The first allocator that the range touches, or 0. *)
find_allocator(range) ==
    LET touching == {i \in DOMAIN Managed : Overlap(Managed[i], range)} IN
    IF touching = {} THEN 0 ELSE CHOOSE i \in touching : \A j \in touching : i <= j

(* alloc_specific of the allocator found. *)
Available(range) ==
    LET i == find_allocator(range) IN
    /\ i # 0
    /\ range[1] < range[2]
    /\ Managed[i][1] <= range[1] /\ range[2] <= Managed[i][2]
    /\ \A g \in granted : ~ Overlap(g, range)

(* IoMemAllocatorBuilder::remove; it panics when the range is not there. *)
remove(range) ==
    /\ ~ io_up
    /\ Available(range)
    /\ granted' = granted \cup {range}
    /\ UNCHANGED <<io_up, iomem>>

(* io::init runs after the system devices have called remove. *)
io_mem_init ==
    /\ ~ io_up
    /\ SystemMmio \subseteq granted
    /\ io_up' = TRUE
    /\ UNCHANGED <<granted, iomem>>

-----------------------------------------------------------------------------
AlignDown(x) == x - (x % IO_PAGE)

(* IoMem::new *)
IoMemNew(range) ==
    [base |-> AlignDown(range[1]), offset |-> range[1] - AlignDown(range[1]),
     limit |-> range[2] - range[1], pa |-> range[1], origin |-> range]

(* IoMem::acquire; without effect when the range is not available. *)
io_mem_acquire(d, range) ==
    /\ io_up
    /\ iomem[d] = NoIoMem
    /\ Available(range)
    /\ granted' = granted \cup {range}
    /\ iomem' = [iomem EXCEPT ![d] = IoMemNew(range)]
    /\ UNCHANGED <<io_up>>

(* IoMem::slice (a clone is the slice of everything). *)
slice(d, from, to, dest) ==
    /\ iomem[d] # NoIoMem
    /\ iomem[dest] = NoIoMem
    /\ from < to /\ to <= iomem[d].limit
    /\ iomem' = [iomem EXCEPT ![dest] =
                   [iomem[d] EXCEPT !.offset = @ + from, !.limit = to - from, !.pa = @ + from]]
    /\ UNCHANGED <<io_up, granted>>

(* Dropping an IoMem recycles nothing. *)
IoMemDrop(d) ==
    /\ iomem[d] # NoIoMem
    /\ iomem' = [iomem EXCEPT ![d] = NoIoMem]
    /\ UNCHANGED <<io_up, granted>>

(* The physical address behind byte x of the reader or writer, which starts *)
(* at the offset inside the mapping.                                        *)
Behind(m, x) == m.base + m.offset + x

(* The address VmIo::read and VmIo::write of len bytes touch first; -1 is  *)
(* InvalidArgs.                                                            *)
ReadAddress(m, offset, len) ==
    LET skipped == offset + m.offset IN
    IF skipped > m.limit \/ m.limit - skipped < len THEN -1 ELSE Behind(m, skipped)

(* The address VmIoOnce::read_once and write_once of one byte touch. *)
ReadOnceAddress(m, offset) == IF offset < m.limit THEN Behind(m, offset) ELSE -1

Address == Managed[1][1] - 1 .. Managed[Len(Managed)][2] + 1

DeviceMemNext ==
    \/ \E r \in SystemMmio : remove(r)
    \/ io_mem_init
    \/ \E d \in Driver :
          \/ \E s, e \in Address : io_mem_acquire(d, <<s, e>>)
          \/ \E dest \in Driver : \E from, to \in 0 .. IO_PAGE + 1 : slice(d, from, to, dest)
          \/ IoMemDrop(d)

-----------------------------------------------------------------------------
Window(m) == <<m.pa, m.pa + m.limit>>

(* What the system's own devices use is out of every driver's reach, handles *)
(* from different acquisitions never share an address, a slice of a slice    *)
(* stays inside the range that was acquired, and read_once at an offset      *)
(* touches the physical address at that offset.                              *)
DeviceRangesKept ==
    \A d \in Driver : iomem[d] # NoIoMem =>
       /\ \A r \in SystemMmio : ~ Overlap(r, Window(iomem[d]))
       /\ iomem[d].origin[1] <= iomem[d].pa
       /\ iomem[d].pa + iomem[d].limit <= iomem[d].origin[2]
       /\ \A x \in 0 .. iomem[d].limit - 1 : ReadOnceAddress(iomem[d], x) = iomem[d].pa + x
       /\ \A e \in Driver : iomem[e] # NoIoMem /\ iomem[e].origin # iomem[d].origin =>
             ~ Overlap(Window(iomem[d]), Window(iomem[e]))

(* VmIo::read at an offset reads the requested data at that offset. *)
ReadsAtOffset ==
    \A d \in Driver : iomem[d] # NoIoMem =>
       \A x \in 0 .. iomem[d].limit - 1 :
          ReadAddress(iomem[d], x, 1) \in {-1, iomem[d].pa + x}

-----------------------------------------------------------------------------
(***************************************************************************)
(* The allocator of I/O ports (io/io_port): one bit per port in an IdAlloc *)
(* (see below), the ports      of the system's own devices marked at boot. *)
(***************************************************************************)

CONSTANTS
    PortDriver,     \* places a driver can keep a handle in
    MAX_IO_PORT,
    SensitivePorts, \* ports declared with sensitive_io_port!
    PortWidth       \* sizes of the values read from ports

VARIABLES
    ports_up,       \* io_port::init has run
    port_bits,      \* the ports marked as allocated
    io_port         \* the IoPort each driver place holds

portVars == <<ports_up, port_bits, io_port>>

NoIoPort == [port |-> -1, size |-> 0]

IoPortsInit ==
    /\ ports_up = FALSE
    /\ port_bits = {}
    /\ io_port = [d \in PortDriver |-> NoIoPort]

(* io_port::init *)
io_port_init ==
    /\ ~ ports_up
    /\ ports_up' = TRUE
    /\ port_bits' = SensitivePorts
    /\ UNCHANGED io_port

Ports(port, size) == port .. port + size - 1

(* What is left of the range of ports after `any` found none of them taken: *)
(* `any` advances the iterator it is called on to its end.                  *)
LeftAfterAny(port, size) == {}

(* IoPortAllocator::acquire; a port number that overflows u16 panics. *)
io_port_acquire(d, port, size) ==
    /\ ports_up
    /\ io_port[d] = NoIoPort
    /\ port + size <= MAX_IO_PORT
    /\ Ports(port, size) \cap port_bits = {}
    /\ port_bits' = port_bits \cup LeftAfterAny(port, size)
    /\ io_port' = [io_port EXCEPT ![d] = [port |-> port, size |-> size]]
    /\ UNCHANGED ports_up

(* IoPort::drop recycles the ports. *)
drop(d) ==
    /\ io_port[d] # NoIoPort
    /\ port_bits' = port_bits \ Ports(io_port[d].port, io_port[d].size)
    /\ io_port' = [io_port EXCEPT ![d] = NoIoPort]
    /\ UNCHANGED ports_up

IoPortsNext ==
    \/ io_port_init
    \/ \E d \in PortDriver :
          \/ \E port \in 0 .. MAX_IO_PORT, size \in PortWidth : io_port_acquire(d, port, size)
          \/ drop(d)

-----------------------------------------------------------------------------
(* No driver ever holds a port of the system's own devices, whatever was    *)
(* acquired and recycled before.                                            *)
SystemPortsKept ==
    \A d \in PortDriver : Ports(io_port[d].port, io_port[d].size) \cap SensitivePorts = {}

(* An IoPort is acquired only when nobody else has one of its ports. *)
PortsExclusive ==
    \A d, e \in PortDriver : d # e /\ io_port[d] # NoIoPort /\ io_port[e] # NoIoPort =>
       Ports(io_port[d].port, io_port[d].size) \cap Ports(io_port[e].port, io_port[e].size) = {}

-----------------------------------------------------------------------------
(***************************************************************************)
(* The bitmap allocator of identifiers (libs/id-alloc): a bit per          *)
(* identifier and a hint, first_available_id, below which every bit is     *)
(* set.  alloc takes the hint, alloc_consecutive scans from it for a run   *)
(* of clear bits.                                                          *)
(***************************************************************************)
CONSTANT Capacity   \* the number of identifiers

VARIABLES
    bitset,               \* the identifiers that are allocated
    first_available_id    \* the hint

idVars == <<bitset, first_available_id>>

Id == 0 .. Capacity - 1

IdsInit ==
    /\ bitset = {}
    /\ first_available_id = 0

is_allocated(id) == id \in bitset

(* The first clear bit of B at or after i, or the capacity. *)
NextClear(B, i) ==
    CHOOSE j \in i .. Capacity :
       /\ j = Capacity \/ j \notin B
       /\ \A k \in i .. j - 1 : k \in B

\* Without a clear bit it answers None.
alloc ==
    /\ first_available_id < Capacity
    /\ bitset' = bitset \cup {first_available_id}
    /\ first_available_id' = NextClear(bitset', first_available_id + 1)

(* The scan: the range grows over clear bits and restarts after a set one. *)
Scan(count) ==
    LET step[s \in 0 .. Capacity, e \in 0 .. Capacity] ==
            IF e - s < count /\ e < Capacity
            THEN IF is_allocated(e) THEN step[e + 1, e + 1] ELSE step[s, e + 1]
            ELSE s .. e - 1
        run == step[first_available_id, first_available_id + 1]
    IN  IF Cardinality(run) < count THEN {} ELSE run

RunFor(count) ==
    IF count = 0 \/ first_available_id + count > Capacity THEN {} ELSE Scan(count)

alloc_consecutive(count) ==
    LET run == RunFor(count) IN
    /\ bitset' = bitset \cup run
    /\ first_available_id' = IF first_available_id \in run
                             THEN NextClear(bitset', first_available_id + count)
                             ELSE first_available_id

free_consecutive(start, end) ==
    /\ start .. end - 1 \subseteq bitset
    /\ bitset' = bitset \ (start .. end - 1)
    /\ first_available_id' = IF start < end /\ start < first_available_id
                             THEN start ELSE first_available_id

free(id) ==
    /\ is_allocated(id)
    /\ bitset' = bitset \ {id}
    /\ first_available_id' = IF id < first_available_id THEN id ELSE first_available_id

\* An identifier that is taken is answered with None.
alloc_specific(id) ==
    /\ ~ is_allocated(id)
    /\ bitset' = bitset \cup {id}
    /\ first_available_id' = IF id = first_available_id
                             THEN NextClear(bitset', id + 1)
                             ELSE first_available_id

IdsNext ==
    \/ alloc
    \/ \E count \in 0 .. Capacity + 1 : alloc_consecutive(count)
    \/ \E s, e \in 0 .. Capacity : free_consecutive(s, e)
    \/ \E id \in Id : free(id) \/ alloc_specific(id)


-----------------------------------------------------------------------------
(* The hint is the first clear bit, or the capacity when there is none. *)
HintIsFirstClear ==
    /\ bitset \subseteq Id
    /\ first_available_id \in 0 .. Capacity
    /\ first_available_id \notin bitset
    /\ \A i \in Id : i < first_available_id => i \in bitset

(* What alloc_consecutive hands out is free, and it answers None only when  *)
(* no run of that many clear bits exists: the scan that starts at the hint  *)
(* and restarts behind every set bit misses none.                           *)
AllocationsComplete ==
    \A count \in 1 .. Capacity :
       LET run == RunFor(count) IN
       /\ run \cap bitset = {}
       /\ run = {} \/ Cardinality(run) = count
       /\ run = {} <=> ~ \E i \in 0 .. Capacity - count : (i .. i + count - 1) \cap bitset = {}
=============================================================================
