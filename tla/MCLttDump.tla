------------------------------- MODULE MCLttDump -------------------------------
(***************************************************************************)
(* CPU 0 goes round a ring of num_subbuf subbuffers nearly twice; CPU 1    *)
(* writes one record and may go offline.                                   *)
(***************************************************************************)
EXTENDS LttDump

MCCPUs == {0, 1}
CONSTANT Limit
MCMaxOffset == [c \in MCCPUs |-> IF c = 0 THEN Limit ELSE 3]

Loaded == [m \in {"lttng_tracer", "lttng_lib_ring_buffer"} |-> {".text", ".data"}]
Chan(e, t, n) == [enabled |-> e, channel_type |-> t, name |-> n]
Snapshot == Chan(TRUE, "PER_CPU_CHANNEL", "relay-overwrite-mmap")
Session(a, s) == [active |-> a, chan |-> s]
Stream == Chan(TRUE, "PER_CPU_CHANNEL", "relay-discard")
Metadata == Chan(TRUE, "METADATA_CHANNEL", "relay-metadata")

MCKernels ==
  {[modules |-> Loaded,
    sessions |-> <<Session(FALSE, <<Snapshot>>), Session(TRUE, <<Metadata, Stream>>),
                   Session(TRUE, <<Metadata, Snapshot>>)>>]}

\* Dumps without lttng, and without a session in snapshot mode, fail whatever
\* the rings hold.
MCAllKernels ==
  MCKernels \cup
  {[modules |-> [m \in {"lttng_tracer"} |-> {".text"}], sessions |-> <<>>],
   [modules |-> Loaded, sessions |-> <<Session(TRUE, <<Metadata, Stream>>)>>]}

=============================================================================
