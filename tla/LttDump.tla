-------------------------------- MODULE LttDump --------------------------------
(***************************************************************************)
(* dumpltt, the gdb command that takes an LTTng trace out of a kernel dump *)
(* (ltt.py).  While the kernel runs, each CPU writes to a ring of          *)
(* subbuffers and overwrites the oldest; the kernel crashes at any moment; *)
(* dumpltt then walks each ring from `consumed' to `offset' and appends    *)
(* what was committed to one CTF file per CPU.                             *)
(*                                                                         *)
(* `offset' and `consumed' never wrap, and a unit of data is represented   *)
(* by the value of `offset' when it was reserved: its position.  Positions *)
(* also serve as time.  The writer is the kernel's lib_ring_buffer, which  *)
(* is external; it is modelled by the fields ltt.py reads.                 *)
(***************************************************************************)
EXTENDS Integers, Sequences, FiniteSets, Functions

CONSTANTS
  CPUs,          \* numbers of the possible CPUs
  num_subbuf,
  subbuf_size,   \* in units; the first one of a subbuffer is its header
  page_size,
  RecordSizes,
  Kernels,       \* modules and sessions a dump may have
  MaxNesting,    \* records open at once; with three, commits in the middle may
                 \* bring cc to where seq takes it for the end of all of them
  MaxOffset,     \* bound: MaxOffset[c] units are written on CPU c
  MaxTsc         \* 0xffffffffffffffff

ASSUME LttAssumption ==
  /\ CPUs \subseteq Nat /\ CPUs # {} /\ IsFiniteSet(CPUs)
  /\ num_subbuf \in Nat \ {0, 1}
  /\ page_size \in Nat \ {0} /\ subbuf_size \in Nat \ {0, 1}
  /\ subbuf_size % page_size = 0
  /\ RecordSizes \subseteq 1..(subbuf_size - 1)
  /\ MaxNesting \in Nat
  /\ \A k \in Kernels : DOMAIN k.sessions \subseteq Nat \ {0}
  /\ MaxOffset \in [CPUs -> Nat \ {0}]
  /\ MaxTsc \in Nat /\ \A c \in CPUs : MaxOffset[c] < MaxTsc

VARIABLES
  kernel,    \* [modules, sessions] of the dump
  online,    \* __cpu_online_mask
  buf,       \* the ring of each CPU
  torn,      \* where the crash struck inside a switch of subbuffers, or "no"
  pc,
  cpus,      \* CPUs the loop of invoke has left
  cidx,      \* subbuffer the loop of handle_buffer is at
  files,     \* files[c]: channel0_<c>
  metadata   \* session whose metadata was dumped; 0 for none

vars == <<kernel, online, buf, torn, pc, cpus, cidx, files, metadata>>

Ring == 0..(num_subbuf * subbuf_size - 1)
Subbufs == 0..(num_subbuf - 1)

\* A unit in memory or in a file.  Only headers use the last three fields.
Plain(p) == [pos |-> p, end |-> 0, content |-> 0, packet |-> 0]
Blank == Plain(-1)
IsHeader(u) == u.pos # -1 /\ u.pos % subbuf_size = 0
Unit == [pos : Int, end : Nat, content : Nat, packet : Nat]

TypeOK ==
  /\ kernel \in Kernels /\ online \subseteq CPUs
  /\ \A c \in CPUs :
       LET b == buf[c] IN
         /\ b.offset \in 1..MaxOffset[c]
         /\ b.consumed \in 0..b.offset
         /\ b.consumed % subbuf_size = 0
         /\ b.cc \in [Subbufs -> 0..(subbuf_size - 1)]
         /\ b.seq \in [Subbufs -> 0..(subbuf_size - 1)]
         /\ b.data_size \in [Subbufs -> 0..subbuf_size]
         /\ b.cell \in [Ring -> Unit]
         /\ Len(b.pending) <= MaxNesting
         /\ files[c] \in Seq(Unit)
  /\ torn \in {"no", "unpushed", "unstarted"}
  /\ pc \in {"tracing", "gdb", "session", "cpu", "walk", "done", "error"}
  /\ cpus \in Seq(online)
  /\ cidx \in Subbufs
  /\ metadata \in Nat

-----------------------------------------------------------------------------
(* Arithmetic of ltt.py.                                                   *)

Index(p) == (p \div subbuf_size) % num_subbuf
align(v, alignment) == ((v + alignment - 1) \div alignment) * alignment
Least(a, b) == IF a < b THEN a ELSE b

\* The subbuffer of position p, counted without wrapping.
Lap(p) == p \div subbuf_size

-----------------------------------------------------------------------------
(* The writer: lib_ring_buffer in overwrite mode.                          *)

NewRing ==
  [offset |-> 1, consumed |-> 0,
   cc |-> [i \in Subbufs |-> IF i = 0 THEN 1 ELSE 0],
   seq |-> [i \in Subbufs |-> IF i = 0 THEN 1 ELSE 0],
   data_size |-> [i \in Subbufs |-> 0],
   cell |-> [r \in Ring |-> IF r = 0 THEN Plain(0) ELSE Blank],
   pending |-> <<>>,
   overtaken |-> {}]    \* laps with a commit out of order

\* A record that does not fit in what is left starts a subbuffer.
Fits(b, k) ==
  b.offset % subbuf_size # 0 /\ (b.offset % subbuf_size) + k <= subbuf_size
Begin(b, k) == IF Fits(b, k) THEN b.offset ELSE align(b.offset, subbuf_size) + 1

\* What is overwritten is no longer to be consumed.
Pushed(b, end) ==
  IF Lap(end - 1) - Lap(b.consumed) >= num_subbuf
  THEN b.consumed + subbuf_size ELSE b.consumed

\* The last commit of a subbuffer completes the header (buffer_end).
Deliver(b, lap) ==
  LET i == lap % num_subbuf IN
  IF b.cc[i] # 0 THEN b
  ELSE [b EXCEPT !.cell[i * subbuf_size].end = lap * subbuf_size + b.data_size[i],
                 !.cell[i * subbuf_size].content = b.data_size[i],
                 !.cell[i * subbuf_size].packet = subbuf_size]

\* commit_hot: seq follows cc when all that was reserved before is committed.
Commit(b, from, end) ==
  LET i == Index(from)
      cc == (b.cc[i] + end - from) % subbuf_size
  IN  Deliver([b EXCEPT !.cc[i] = cc,
                        !.seq[i] = IF (end - cc) % subbuf_size = 0 THEN cc ELSE @],
              Lap(from))

\* Pads the subbuffer that is left, if it is not full.
SwitchOldEnd(b) ==
  IF b.offset % subbuf_size = 0 THEN b
  ELSE LET size == b.offset % subbuf_size
       IN  Commit([b EXCEPT !.data_size[Index(b.offset)] = size],
                  b.offset, align(b.offset, subbuf_size))

\* Writes the header of the subbuffer that starts at position p.
SwitchNewStart(b, p) ==
  Commit([b EXCEPT !.cell[Index(p) * subbuf_size] = Plain(p)], p, p + 1)

CanReserve(c, k) ==
  /\ pc = "tracing" /\ c \in online
  /\ Len(buf[c].pending) < MaxNesting
  /\ Begin(buf[c], k) + k <= MaxOffset[c]
  /\ ~ Fits(buf[c], k) => buf[c].cc[Index(Begin(buf[c], k))] = 0

reserve(c) == \E k \in RecordSizes :
  LET b     == buf[c]
      begin == Begin(b, k)
      end   == begin + k
      moved == IF Fits(b, k) THEN b ELSE SwitchNewStart(SwitchOldEnd(b), begin - 1)
  IN  /\ CanReserve(c, k)
      /\ buf' = [buf EXCEPT ![c] =
           [moved EXCEPT !.offset = end, !.consumed = Pushed(b, end),
              !.data_size[Index(begin)] = IF end % subbuf_size = 0 THEN subbuf_size ELSE @,
              !.pending = Append(@, [from |-> begin, end |-> end])]]
      /\ UNCHANGED <<kernel, online, torn, pc, cpus, cidx, files, metadata>>

\* An interrupt's record is committed before the one it interrupted.
commit(c) ==
  LET b   == buf[c]
      r   == b.pending[Len(b.pending)]
      cells == {p % (num_subbuf * subbuf_size) : p \in r.from..(r.end - 1)}
      written == [b EXCEPT
         !.cell = [q \in Ring |->
            IF q \in cells THEN Plain(r.from + ((q - r.from) % (num_subbuf * subbuf_size)))
            ELSE @[q]],
         !.pending = SubSeq(@, 1, Len(@) - 1),
         !.overtaken =
            IF r.end = b.offset /\ \A i \in 1..(Len(b.pending) - 1) :
                 Lap(b.pending[i].from) # Lap(r.from)
            THEN @ ELSE @ \cup {Lap(r.from)}]
  IN  /\ pc = "tracing" /\ c \in online /\ b.pending # <<>>
      /\ buf' = [buf EXCEPT ![c] = Commit(written, r.from, r.end)]
      /\ UNCHANGED <<kernel, online, torn, pc, cpus, cidx, files, metadata>>

cpu_down(c) ==
  /\ pc = "tracing" /\ c \in online /\ online # {c}
  /\ buf[c].pending = <<>>
  /\ online' = online \ {c}
  /\ UNCHANGED <<kernel, buf, torn, pc, cpus, cidx, files, metadata>>

crash ==
  /\ pc = "tracing"
  /\ pc' = "gdb"
  /\ UNCHANGED <<kernel, online, buf, torn, cpus, cidx, files, metadata>>

\* The crash comes when `offset' has moved to another subbuffer and either
\* `consumed' has not yet followed or the header is not yet written.
crash_in_switch(c) == \E k \in RecordSizes, t \in {"unpushed", "unstarted"} :
  LET end == Begin(buf[c], k) + k IN
  /\ CanReserve(c, k) /\ ~ Fits(buf[c], k)
  /\ torn' = t /\ pc' = "gdb"
  /\ buf' = [buf EXCEPT ![c].offset = end,
                        ![c].consumed = IF t = "unpushed" THEN @ ELSE Pushed(buf[c], end)]
  /\ UNCHANGED <<kernel, online, cpus, cidx, files, metadata>>

-----------------------------------------------------------------------------
(* dumpltt.                                                                *)

\* A module can be loaded when it is in the dump and has a .text section.
find_and_load_module(name) ==
  name \in DOMAIN kernel.modules /\ ".text" \in kernel.modules[name]

find_channel(session) ==
  \E i \in DOMAIN session.chan :
    /\ session.chan[i].enabled
    /\ session.chan[i].channel_type = "PER_CPU_CHANNEL"
    /\ session.chan[i].name = "relay-overwrite-mmap"

Found == {s \in DOMAIN kernel.sessions :
            kernel.sessions[s].active /\ find_channel(kernel.sessions[s])}

\* Variant: the channel files are not removed.
invoke_no_rm ==
  /\ pc \in {"gdb", "done", "error"}
  /\ pc' = IF find_and_load_module("lttng_tracer") /\
              find_and_load_module("lttng_lib_ring_buffer")
           THEN "session" ELSE "error"
  /\ UNCHANGED <<kernel, online, buf, torn, cpus, cidx, files, metadata>>

\* The files of a run before are gone even if this one fails.
invoke ==
  /\ pc \in {"gdb", "done", "error"}
  /\ files' = [c \in CPUs |-> <<>>]
  /\ pc' = IF find_and_load_module("lttng_tracer") /\
              find_and_load_module("lttng_lib_ring_buffer")
           THEN "session" ELSE "error"
  /\ UNCHANGED <<kernel, online, buf, torn, cpus, cidx, metadata>>

\* Variant: the mask is read one bit short.
get_cpu_list_short ==
  LET mask == {c \in online : \E d \in CPUs : d > c} IN
  CHOOSE s \in [1..Cardinality(mask) -> mask] :
    \A i, j \in DOMAIN s : i < j => s[i] < s[j]

\* The bits of __cpu_online_mask in ascending order.
get_cpu_list ==
  CHOOSE s \in [1..Cardinality(online) -> online] :
    \A i, j \in DOMAIN s : i < j => s[i] < s[j]

\* The first session with a channel in snapshot mode.
find_session_channel ==
  /\ pc = "session"
  /\ IF Found = {}
     THEN pc' = "error" /\ UNCHANGED <<cpus, metadata>>
     ELSE /\ metadata' = CHOOSE s \in Found : \A t \in Found : s <= t
          /\ cpus' = get_cpu_list
          /\ pc' = "cpu"
  /\ UNCHANGED <<kernel, online, buf, torn, cidx, files>>

handle_buffer ==
  /\ pc = "cpu"
  /\ IF cpus = <<>>
     THEN pc' = "done" /\ UNCHANGED cidx
     ELSE pc' = "walk" /\ cidx' = Index(buf[Head(cpus)].consumed)
  /\ UNCHANGED <<kernel, online, buf, torn, cpus, files, metadata>>

\* Variant: only a whole subbuffer's commits are looked at.
Committed_data_size(b, i) == b.data_size[i]

\* commit_hot[i].seq modulo the size, or the size of the data of a full one.
Committed(b, i) == IF b.seq[i] = 0 THEN b.data_size[i] ELSE b.seq[i]

\* Variant: an end that is not set is kept.
fix_header_keep_end(h, written, padded) ==
  [h EXCEPT !.content = written, !.packet = padded]

\* The fields at 40, 48 and 56 of the header.
fix_header(h, written, padded) ==
  [h EXCEPT !.end = IF @ = 0 THEN MaxTsc ELSE @,
            !.content = written, !.packet = padded]

\* Variant: the packet's size is that of its content.
handle_subbuffer_unpadded(b, i, coffset, length) ==
  LET size == IF length > 0 /\ length < Committed(b, i) THEN length ELSE Committed(b, i)
      written == Least(size, subbuf_size - coffset)
      padded == align(written, page_size)
      packet == [j \in 1..padded |->
                   IF j <= written THEN b.cell[i * subbuf_size + coffset + j - 1]
                                   ELSE Blank]
  IN  IF size = 0 THEN <<>>
      ELSE [packet EXCEPT ![1] = fix_header(@, written, written)]

\* The packet that is appended for subbuffer i: `length' units if that is not
\* zero and no more than what is committed, but never past the subbuffer.
handle_subbuffer(b, i, coffset, length) ==
  LET size == IF length > 0 /\ length < Committed(b, i) THEN length ELSE Committed(b, i)
      written == Least(size, subbuf_size - coffset)
      padded == align(written, page_size)
      packet == [j \in 1..padded |->
                   IF j <= written THEN b.cell[i * subbuf_size + coffset + j - 1]
                                   ELSE Blank]
  IN  IF size = 0 THEN <<>>
      ELSE [packet EXCEPT ![1] = fix_header(@, written, padded)]

\* The first subbuffer is dumped from `consumed' on.
Coffset(b, i) ==
  IF i = Index(b.consumed) THEN b.consumed % subbuf_size ELSE 0

\* Variant: the index does not wrap.
walk_no_wrap ==
  LET c == Head(cpus)
      b == buf[c]
      coffset == Coffset(b, cidx)
      last == cidx = Index(b.offset)
      length == IF last THEN (b.offset % subbuf_size) - coffset ELSE 0
  IN  /\ pc = "walk"
      /\ files' = [files EXCEPT ![c] = @ \o handle_subbuffer(b, cidx, coffset, length)]
      /\ IF last THEN pc' = "cpu" /\ cpus' = Tail(cpus) /\ UNCHANGED cidx
                 ELSE cidx' = cidx + 1 /\ UNCHANGED <<pc, cpus>>
      /\ UNCHANGED <<kernel, online, buf, torn, metadata>>

\* A turn of the loop, or the last subbuffer, of which `offset' bounds the size.
walk ==
  LET c == Head(cpus)
      b == buf[c]
      coffset == Coffset(b, cidx)
      last == cidx = Index(b.offset)
      length == IF last THEN (b.offset % subbuf_size) - coffset ELSE 0
  IN  /\ pc = "walk"
      /\ files' = [files EXCEPT ![c] = @ \o handle_subbuffer(b, cidx, coffset, length)]
      /\ IF last THEN pc' = "cpu" /\ cpus' = Tail(cpus) /\ UNCHANGED cidx
                 ELSE cidx' = (cidx + 1) % num_subbuf /\ UNCHANGED <<pc, cpus>>
      /\ UNCHANGED <<kernel, online, buf, torn, metadata>>

-----------------------------------------------------------------------------

Init ==
  /\ kernel \in Kernels
  /\ online = CPUs
  /\ buf = [c \in CPUs |-> NewRing]
  /\ torn = "no"
  /\ pc = "tracing" /\ cpus = <<>> /\ cidx = 0
  /\ files = [c \in CPUs |-> <<>>]
  /\ metadata = 0

kernel_step ==
  \/ crash
  \/ \E c \in CPUs : reserve(c) \/ commit(c) \/ cpu_down(c) \/ crash_in_switch(c)

dumpltt == invoke \/ find_session_channel \/ handle_buffer \/ walk

Next == kernel_step \/ dumpltt

Spec == Init /\ [][Next]_vars

-----------------------------------------------------------------------------
(* Properties.                                                             *)

\* What the file of CPU c has of the ring.
Positions(c) == {files[c][j].pos : j \in DOMAIN files[c]} \ {-1}

Headers(f) == {j \in DOMAIN f : IsHeader(f[j])}

\* A CTF reader steps from packet to packet by the sizes in the headers
\* (L366-387): wherever the crash came, each step leads to a header or to the
\* end of the file, a packet is whole pages, and what it says is its content
\* is one stretch of the ring.
TraceParses ==
  \A c \in CPUs : LET f == files[c] IN
    /\ f # <<>> => 1 \in Headers(f)
    /\ \A h \in Headers(f) :
         LET next == h + f[h].packet IN
         /\ f[h].content > 0 /\ f[h].packet % page_size = 0
         /\ next \in Headers(f) \cup {Len(f) + 1}
         /\ \A j \in h..(next - 1) :
              f[j].pos = IF j < h + f[h].content THEN f[h].pos + j - h ELSE -1

\* All of a file, but for the last packet if the crash struck inside a switch.
Trusted(f) ==
  {j \in DOMAIN f : torn = "no" \/ \E h \in Headers(f) : j < h}

\* The trace of a CPU is in the order in which it was written, and is of the
\* part of the ring that was not overwritten (L389-410): over laps, and also
\* when dumpltt is run again, nothing stale and nothing twice.
InOrder ==
  \A c \in CPUs : LET f == files[c] IN
    \A j \in Trusted(f) : f[j].pos # -1 =>
      /\ f[j].pos \in buf[c].consumed..(buf[c].offset - 1)
      /\ \A i \in 1..(j - 1) : f[i].pos < f[j].pos

\* The content of a packet stops before every place that is reserved and whose
\* record was not yet written (L341-347), though records of an interrupt behind
\* that place may be.
NothingUncommitted ==
  \A c \in CPUs : \A h \in Headers(files[c]), r \in Range(buf[c].pending) :
    LET first == files[c][h].pos IN
    (first..(first + files[c][h].content - 1)) \cap (r.from..(r.end - 1)) = {}

\* A ring filled to the last unit, where `offset' meets `consumed'.
FullRing(b) == b.offset - b.consumed = num_subbuf * subbuf_size

\* What CPU c wrote and did not overwrite, but for subbuffers in which commits
\* were out of order.
Kept(c) ==
  {p \in buf[c].consumed..(buf[c].offset - 1) :
     /\ buf[c].cell[p % (num_subbuf * subbuf_size)].pos = p
     /\ ~ IsHeader(Plain(p))
     /\ Lap(p) \notin buf[c].overtaken}

\* A dump has every record of the online CPUs that was committed, if the ring
\* is not filled exactly and `consumed' not behind by a lap (L389-410).
DumpComplete ==
  pc = "done" /\ torn # "unpushed" =>
    \A c \in online : ~ FullRing(buf[c]) => Kept(c) \subseteq Positions(c)

\* The end of each packet is set and not before its records, also where the
\* crash or a pending record left it open (L360-368).
EndCovers ==
  \A c \in CPUs : \A h \in Headers(files[c]) :
    LET f == files[c] IN f[h].pos + f[h].content <= f[h].end

\* ltt.py:75-76: "the basic algorithm is to index down to buf->consumed and
\* start dumping pages until buf->offset is reached".
ReachesOffset ==
  pc = "done" /\ torn = "no" => \A c \in online : Kept(c) \subseteq Positions(c)

=============================================================================
