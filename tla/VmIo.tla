-------------------------------- MODULE VmIo --------------------------------
(***************************************************************************)
(* Access to virtual memory objects (mm/io.rs, mm/frame/untyped.rs, the    *)
(* readers and writers of mm/vm_space.rs and the VmIo implementations of   *)
(* mm/dma).  A reader and a writer are a cursor and an end over memory;    *)
(* kernel memory never faults, user memory may fault at any byte and is    *)
(* mapped and unmapped while the kernel copies.                            *)
(*                                                                         *)
(* The memory is one object of kernel memory, a user window and a buffer   *)
(* on the stack of the kernel; a byte holds a value.                       *)
(***************************************************************************)
EXTENDS Integers, Sequences, FiniteSets

CONSTANTS
    ObjLen,      \* the bytes of the object
    UserLen,     \* the bytes of the user window
    ValLen,      \* the size of the plain-old-data values, the length of the buffer
    MaxIoOps     \* operations in one behaviour

Obj == 0 .. ObjLen - 1
User == ObjLen .. ObjLen + UserLen - 1
Buf == ObjLen + UserLen .. ObjLen + UserLen + ValLen - 1
Kernel == Obj \cup Buf
MaxUserspace == ObjLen + UserLen      \* the first address after user space
MinOf(a, b) == IF a < b THEN a ELSE b

VARIABLES
    vm_mem,      \* the value of every byte
    faulting,    \* the user bytes an access faults at
    activated,   \* the page table of the user window is the current one
    vm_reader,   \* the reader of the caller
    vm_writer,   \* the writer of the caller
    last_op,     \* the last operation: its name, result and count
    before_op,   \* memory, reader and writer before it
    io_ops

vmioVars == <<vm_mem, faulting, activated, vm_reader, vm_writer, last_op, before_op, io_ops>>

NoCursor == [start |-> 0, cursor |-> 0, end |-> 0]
Window(a, n) == [start |-> a, cursor |-> a, end |-> a + n]
remain(r) == r.end - r.cursor
avail(w) == w.end - w.cursor

Init ==
    /\ vm_mem = [a \in Obj \cup User \cup Buf |-> a + 1]
    /\ faulting \in SUBSET User
    /\ activated \in BOOLEAN
    /\ vm_reader \in {NoCursor, Window(0, ObjLen), Window(ObjLen, UserLen)}
    /\ vm_writer \in {NoCursor, Window(0, ObjLen), Window(ObjLen, UserLen)}
    /\ last_op = [op |-> "none", ok |-> TRUE, n |-> 0, offset |-> 0]
    /\ before_op = [mem |-> vm_mem, reader |-> vm_reader, writer |-> vm_writer]
    /\ io_ops = 0

-----------------------------------------------------------------------------
(* memcpy, and memcpy_fallible, which stops at the first faulting byte and  *)
(* returns how many bytes it has copied.                                    *)
memcpy(mem, dst, src, n) ==
    [a \in DOMAIN mem |-> IF dst <= a /\ a < dst + n THEN mem[src + a - dst] ELSE mem[a]]
CopiedLen(dst, src, n) ==
    LET bad == {i \in 0 .. n - 1 : src + i \in faulting \/ dst + i \in faulting}
    IN  IF bad = {} THEN n ELSE CHOOSE i \in bad : \A j \in bad : i <= j
memset_fallible(mem, dst, n) ==
    [a \in DOMAIN mem |-> IF dst <= a /\ a < dst + n THEN 0 ELSE mem[a]]

(* read_fallible: both cursors move by what was copied. *)
read_fallible(mem, r, w) ==
    LET copy_len == MinOf(remain(r), avail(w))
        copied_len == CopiedLen(w.cursor, r.cursor, copy_len)
    IN  [mem |-> memcpy(mem, w.cursor, r.cursor, copied_len),
         reader |-> [r EXCEPT !.cursor = @ + copied_len],
         writer |-> [w EXCEPT !.cursor = @ + copied_len],
         n |-> copied_len, ok |-> copied_len = copy_len]

(* The read and write of two infallible windows, and the windows. *)
read(mem, r, w) ==
    LET copy_len == MinOf(remain(r), avail(w)) IN
    [mem |-> memcpy(mem, w.cursor, r.cursor, copy_len),
     reader |-> [r EXCEPT !.cursor = @ + copy_len],
     writer |-> [w EXCEPT !.cursor = @ + copy_len],
     n |-> copy_len, ok |-> TRUE]
write(mem, w, r) == read(mem, r, w)
from_kernel_space(a, n) == Window(a, n)
from_user_space(a, n) == Window(a, n)
Infallible(c) == c.start .. c.end - 1 \subseteq Kernel
ValBuffer == from_kernel_space(MaxUserspace, ValLen)

Done(op, ok, n, offset) ==
    /\ io_ops' = io_ops + 1
    /\ last_op' = [op |-> op, ok |-> ok, n |-> n, offset |-> offset]
    /\ before_op' = [mem |-> vm_mem, reader |-> vm_reader, writer |-> vm_writer]

-----------------------------------------------------------------------------
(* VmSpace::reader and writer: the page table must be the current one and   *)
(* the range in user space.  The kernel's come from untyped memory.         *)
VmSpaceReader(a, n) ==
    /\ activated
    /\ a + n <= MaxUserspace
    /\ vm_reader' = from_user_space(a, n)
    /\ Done("new", TRUE, 0, 0)
    /\ UNCHANGED <<vm_mem, faulting, activated, vm_writer>>

VmSpaceWriter(a, n) ==
    /\ activated
    /\ a + n <= MaxUserspace
    /\ vm_writer' = from_user_space(a, n)
    /\ Done("new", TRUE, 0, 0)
    /\ UNCHANGED <<vm_mem, faulting, activated, vm_reader>>

SegmentReader ==
    /\ vm_reader' = from_kernel_space(0, ObjLen)
    /\ Done("new", TRUE, 0, 0)
    /\ UNCHANGED <<vm_mem, faulting, activated, vm_writer>>

SegmentWriter ==
    /\ vm_writer' = from_kernel_space(0, ObjLen)
    /\ Done("new", TRUE, 0, 0)
    /\ UNCHANGED <<vm_mem, faulting, activated, vm_reader>>

(* limit and skip, of a reader; those of a writer are the same. *)
limit(r, max) == IF max < remain(r) THEN [r EXCEPT !.end = r.cursor + max] ELSE r
skip(r, n) == [r EXCEPT !.cursor = @ + n]

LimitOrSkip(n) ==
    /\ n <= remain(vm_reader)
    /\ \/ vm_reader' = limit(vm_reader, n)
       \/ vm_reader' = skip(vm_reader, n)
    /\ Done("move", TRUE, 0, 0)
    /\ UNCHANGED <<vm_mem, faulting, activated, vm_writer>>

WriterLimitOrSkip(n) ==
    /\ n <= avail(vm_writer)
    /\ \/ vm_writer' = limit(vm_writer, n)
       \/ vm_writer' = skip(vm_writer, n)
    /\ Done("move", TRUE, 0, 0)
    /\ UNCHANGED <<vm_mem, faulting, activated, vm_reader>>

(* read_fallible and write_fallible, or read and write of two infallible ones. *)
Copy ==
    LET res == IF Infallible(vm_reader) /\ Infallible(vm_writer)
               THEN read(vm_mem, vm_reader, vm_writer)
               ELSE read_fallible(vm_mem, vm_reader, vm_writer) IN
    /\ vm_mem' = res.mem
    /\ vm_reader' = res.reader
    /\ vm_writer' = res.writer
    /\ Done("copy", res.ok, res.n, 0)
    /\ UNCHANGED <<faulting, activated>>

(* read_val of a reader into the buffer, and collect, which reads all that  *)
(* remains: a fault takes the reader back.                                  *)
read_valKeepsCursor(len) ==
    LET res == read_fallible(vm_mem, vm_reader, Window(MaxUserspace, len)) IN
    /\ len <= remain(vm_reader)
    /\ vm_mem' = res.mem
    /\ vm_reader' = res.reader
    /\ Done("val", res.ok, res.n, 0)
    /\ UNCHANGED <<faulting, activated, vm_writer>>

read_val(len) ==
    LET res == read_fallible(vm_mem, vm_reader, Window(MaxUserspace, len)) IN
    /\ len <= remain(vm_reader)
    /\ vm_mem' = res.mem
    /\ vm_reader' = IF res.ok THEN res.reader
                    ELSE [res.reader EXCEPT !.cursor = @ - res.n]
    /\ Done("val", res.ok, res.n, 0)
    /\ UNCHANGED <<faulting, activated, vm_writer>>

write_val ==
    LET res == read_fallible(vm_mem, ValBuffer, vm_writer) IN
    /\ ValLen <= avail(vm_writer)
    /\ vm_mem' = res.mem
    /\ vm_writer' = IF res.ok THEN res.writer
                    ELSE [res.writer EXCEPT !.cursor = @ - res.n]
    /\ Done("val", res.ok, res.n, 0)
    /\ UNCHANGED <<faulting, activated, vm_reader>>

(* The values of infallible windows; a short window is refused. *)
infallible_read_val ==
    LET res == read(vm_mem, vm_reader, ValBuffer) IN
    /\ Infallible(vm_reader)
    /\ IF remain(vm_reader) < ValLen
       THEN Done("val", FALSE, 0, 0) /\ UNCHANGED <<vm_mem, vm_reader>>
       ELSE vm_mem' = res.mem /\ vm_reader' = res.reader /\ Done("val", TRUE, res.n, 0)
    /\ UNCHANGED <<faulting, activated, vm_writer>>

infallible_write_val ==
    LET res == write(vm_mem, vm_writer, ValBuffer) IN
    /\ Infallible(vm_writer)
    /\ IF avail(vm_writer) < ValLen
       THEN Done("val", FALSE, 0, 0) /\ UNCHANGED <<vm_mem, vm_writer>>
       ELSE vm_mem' = res.mem /\ vm_writer' = res.writer /\ Done("val", TRUE, res.n, 0)
    /\ UNCHANGED <<faulting, activated, vm_reader>>

(* One load or store; a cursor that is not aligned is a panic. *)
read_once == vm_reader.cursor % ValLen = 0 /\ infallible_read_val
write_once == vm_writer.cursor % ValLen = 0 /\ infallible_write_val

(* fill: the value over and over until the end, which it must reach exactly. *)
fill ==
    LET w == vm_writer IN
    /\ Infallible(w) /\ w.cursor % ValLen = 0 /\ avail(w) % ValLen = 0
    /\ vm_mem' = [a \in DOMAIN vm_mem |->
                    IF w.cursor <= a /\ a < w.end
                    THEN vm_mem[MaxUserspace + ((a - w.cursor) % ValLen)] ELSE vm_mem[a]]
    /\ vm_writer' = [w EXCEPT !.cursor = w.end]
    /\ Done("fill", TRUE, avail(w), 0)
    /\ UNCHANGED <<faulting, activated, vm_reader>>

fill_zeros(len) ==
    LET len_to_set == MinOf(avail(vm_writer), len)
        set_len == CopiedLen(vm_writer.cursor, vm_writer.cursor, len_to_set) IN
    /\ vm_mem' = memset_fallible(vm_mem, vm_writer.cursor, set_len)
    /\ vm_writer' = [vm_writer EXCEPT !.cursor = @ + set_len]
    /\ Done("fill", set_len = len_to_set, set_len, 0)
    /\ UNCHANGED <<faulting, activated, vm_reader>>

-----------------------------------------------------------------------------
(* VmIo of the object.  Untyped memory transfers what fits behind the       *)
(* offset; DMA memory requires that all of it fits, and takes the caller's  *)
(* cursor back when the copy faults.                                        *)
UntypedLen(want, offset) == MinOf(want, IF offset > ObjLen THEN 0 ELSE ObjLen - offset)
UntypedFits(want, offset) == offset + UntypedLen(want, offset) <= ObjLen

UntypedRead(offset) ==
    LET res == read_fallible(vm_mem, skip(Window(0, ObjLen), offset), vm_writer) IN
    /\ IF UntypedFits(avail(vm_writer), offset)
       THEN /\ vm_mem' = res.mem
            /\ vm_writer' = res.writer
            /\ Done("read", res.ok, res.n, offset)
       ELSE /\ Done("read", FALSE, 0, offset)
            /\ UNCHANGED <<vm_mem, vm_writer>>
    /\ UNCHANGED <<faulting, activated, vm_reader>>

UntypedWrite(offset) ==
    LET res == read_fallible(vm_mem, vm_reader, skip(Window(0, ObjLen), offset)) IN
    /\ IF UntypedFits(remain(vm_reader), offset)
       THEN /\ vm_mem' = res.mem
            /\ vm_reader' = res.reader
            /\ Done("write", res.ok, res.n, offset)
       ELSE /\ Done("write", FALSE, 0, offset)
            /\ UNCHANGED <<vm_mem, vm_reader>>
    /\ UNCHANGED <<faulting, activated, vm_writer>>

(* The provided methods of VmIo, on untyped memory: a reader or a writer    *)
(* over the caller's bytes; a value and a slice of values are their bytes.  *)
read_bytes(offset, buf) ==
    LET res == read_fallible(vm_mem, skip(Window(0, ObjLen), offset), buf) IN
    /\ IF UntypedFits(avail(buf), offset)
       THEN vm_mem' = res.mem /\ Done("bytes", TRUE, res.n, offset)
       ELSE Done("bytes", FALSE, 0, offset) /\ UNCHANGED vm_mem
    /\ UNCHANGED <<faulting, activated, vm_reader, vm_writer>>

write_bytes(offset, buf) ==
    LET res == read_fallible(vm_mem, buf, skip(Window(0, ObjLen), offset)) IN
    /\ IF UntypedFits(remain(buf), offset)
       THEN vm_mem' = res.mem /\ Done("write", TRUE, res.n, offset)
       ELSE Done("write", FALSE, 0, offset) /\ UNCHANGED vm_mem
    /\ UNCHANGED <<faulting, activated, vm_reader, vm_writer>>

VmIo_read_val(offset) == read_bytes(offset, ValBuffer)
VmIo_write_val(offset) == write_bytes(offset, ValBuffer)
VmIo_read_slice(offset) == \E n \in 0 .. ValLen : read_bytes(offset, Window(MaxUserspace, n))
VmIo_write_slice(offset) == \E n \in 0 .. ValLen : write_bytes(offset, Window(MaxUserspace, n))

DmaFits(window, want, offset) == offset <= remain(window) /\ want <= remain(window) - offset

DmaRead(window, offset) ==
    LET res == read_fallible(vm_mem, skip(window, offset), vm_writer) IN
    /\ IF DmaFits(window, avail(vm_writer), offset)
       THEN /\ vm_mem' = res.mem
            /\ vm_writer' = IF res.ok THEN res.writer ELSE [res.writer EXCEPT !.cursor = @ - res.n]
            /\ Done("dma_read", res.ok, res.n, window.start + offset)
       ELSE /\ Done("dma_read", FALSE, 0, window.start + offset)
            /\ UNCHANGED <<vm_mem, vm_writer>>
    /\ UNCHANGED <<faulting, activated, vm_reader>>

DmaWrite(window, offset) ==
    LET res == read_fallible(vm_mem, vm_reader, skip(window, offset)) IN
    /\ IF DmaFits(window, remain(vm_reader), offset)
       THEN /\ vm_mem' = res.mem
            /\ vm_reader' = IF res.ok THEN res.reader ELSE [res.reader EXCEPT !.cursor = @ - res.n]
            /\ Done("dma_write", res.ok, res.n, window.start + offset)
       ELSE /\ Done("dma_write", FALSE, 0, window.start + offset)
            /\ UNCHANGED <<vm_mem, vm_reader>>
    /\ UNCHANGED <<faulting, activated, vm_writer>>

Refused(op) == Done(op, FALSE, 0, 0) /\ UNCHANGED <<vm_mem, faulting, activated, vm_reader, vm_writer>>

DmaCoherentRead(offset) == DmaRead(Window(0, ObjLen), offset)
DmaCoherentWrite(offset) == DmaWrite(Window(0, ObjLen), offset)

(* A stream is refused against its direction; a slice also when it does not *)
(* lie in its stream, which its constructor leaves unchecked.               *)
DmaStreamRead(offset, direction) ==
    IF direction = "ToDevice" THEN Refused("dma_read") ELSE DmaRead(Window(0, ObjLen), offset)
DmaStreamWrite(offset, direction) ==
    IF direction = "FromDevice" THEN Refused("dma_write") ELSE DmaWrite(Window(0, ObjLen), offset)
DmaSliceRead(offset, direction, at, len) ==
    IF direction = "ToDevice" \/ at + len > ObjLen THEN Refused("dma_read")
    ELSE DmaRead(Window(at, len), offset)
DmaSliceWrite(offset, direction, at, len) ==
    IF direction = "FromDevice" \/ at + len > ObjLen THEN Refused("dma_write")
    ELSE DmaWrite(Window(at, len), offset)

(* write_vals: items of one value, align apart, into the object until one   *)
(* does not fit; items written are reported even when the next one fails.   *)
align_up(x, align) == ((x + align - 1) \div align) * align
write_vals(offset, nr, align) ==
    LET first == align_up(offset, align)
        step == align_up(ValLen, align)
        fitting == {i \in 0 .. nr - 1 : first + i * step + ValLen <= ObjLen}
        count == Cardinality(fitting)
        item(a) == CHOOSE i \in fitting :
                      first + i * step <= a /\ a < first + i * step + ValLen IN
    /\ vm_mem' = [a \in DOMAIN vm_mem |->
                    IF \E i \in fitting : first + i * step <= a /\ a < first + i * step + ValLen
                    THEN vm_mem[MaxUserspace + a - (first + item(a) * step)] ELSE vm_mem[a]]
    /\ Done("vals", count > 0, count, first)
    /\ UNCHANGED <<faulting, activated, vm_reader, vm_writer>>

(* User memory is unmapped, mapped and written by the user meanwhile, and   *)
(* another page table is activated.                                         *)
UserChanges(a) ==
    /\ faulting' \in {faulting \cup {a}, faulting \ {a}}
    /\ faulting' # faulting
    /\ UNCHANGED <<vm_mem, activated, vm_reader, vm_writer, last_op, before_op, io_ops>>

Accesses ==
    \/ \E a \in User, n \in 1 .. UserLen : VmSpaceReader(a, n) \/ VmSpaceWriter(a, n)
    \/ SegmentReader \/ SegmentWriter \/ Copy \/ write_val
    \/ \E n \in 1 .. ObjLen : LimitOrSkip(n) \/ WriterLimitOrSkip(n)
    \/ read_val(ValLen) \/ fill_zeros(ValLen)
    \/ infallible_read_val \/ infallible_write_val \/ read_once \/ write_once \/ fill
    \/ \E offset \in 0 .. ObjLen + 1 :
          \/ UntypedRead(offset) \/ UntypedWrite(offset)
          \/ VmIo_read_val(offset) \/ VmIo_write_val(offset)
          \/ VmIo_read_slice(offset) \/ VmIo_write_slice(offset)
          \/ DmaCoherentRead(offset) \/ DmaCoherentWrite(offset)
          \/ \E direction \in {"ToDevice", "FromDevice"} :
                \/ DmaStreamRead(offset, direction) \/ DmaStreamWrite(offset, direction)
                \/ \E len \in {2, ObjLen} :
                      DmaSliceRead(offset, direction, 1, len) \/ DmaSliceWrite(offset, direction, 1, len)
    \/ \E offset \in 0 .. 1, align \in {1, 2} : write_vals(offset, 2, align)

Next ==
    \/ io_ops < MaxIoOps /\ Accesses
    \/ \E a \in User : UserChanges(a)

-----------------------------------------------------------------------------
Changed == {a \in DOMAIN vm_mem : vm_mem[a] # before_op.mem[a]}
RollsBack == {"val", "dma_read", "dma_write"}

(* Whatever faults and however far the copy got: an access changes memory   *)
(* only in the window of the writer from its cursor on, in the object, or   *)
(* in the value on the stack; cursors never leave their windows; a transfer *)
(* between object and caller moves the bytes at the given offset; and a     *)
(* failed access to a value or to DMA memory leaves the caller's cursor     *)
(* where it was, while a failed copy has moved it by the bytes transferred. *)
VmIoExact ==
    /\ \A c \in {vm_reader, vm_writer} : c.start <= c.cursor /\ c.cursor <= c.end
    /\ Changed \subseteq Buf \cup Obj \cup
          (before_op.writer.cursor .. before_op.writer.end - 1)
    /\ last_op.op \in {"copy", "fill", "read", "dma_read"} =>
          Changed \subseteq before_op.writer.cursor .. before_op.writer.cursor + last_op.n - 1
    /\ last_op.op \in {"write", "dma_write"} =>
          Changed \subseteq last_op.offset .. last_op.offset + last_op.n - 1
    /\ last_op.op \in RollsBack /\ ~ last_op.ok =>
          /\ vm_reader.cursor = before_op.reader.cursor
          /\ vm_writer.cursor = before_op.writer.cursor
    /\ last_op.op = "copy" =>
          /\ vm_reader.cursor - before_op.reader.cursor = last_op.n
          /\ vm_writer.cursor - before_op.writer.cursor = last_op.n
    /\ last_op.op \in {"read", "dma_read"} /\ before_op.writer.start \in User =>
          \A i \in 0 .. last_op.n - 1 :
             vm_mem[before_op.writer.cursor + i] = before_op.mem[last_op.offset + i]
    /\ last_op.op = "bytes" =>
          \A i \in 0 .. last_op.n - 1 :
             vm_mem[MaxUserspace + i] = before_op.mem[last_op.offset + i]
    /\ last_op.op = "dma_read" /\ last_op.ok => last_op.n = avail(before_op.writer)
=============================================================================
