----------------------------- MODULE CryptProofs -----------------------------
(***************************************************************************)
(* Proofs about CryptDisks: starts and stops of one entry by any number of *)
(* processes own what they open, implement CryptMapping and keep what the  *)
(* source holds, as long as commands for a plain device do not overlap.    *)
(***************************************************************************)
EXTENDS CryptDisks, TLAPS

\* Commands of a type that does not overlap run one at a time.
Alone ==
  opts.type \notin Overlapping =>
    \A p, q \in Procs : pc[p] # "idle" /\ pc[q] # "idle" => p = q

\* There are never two mappings of the source.
Mapped ==
  /\ unf # NoMapping => fin = NoMapping
  /\ used => fin # NoMapping

\* What holds of the mapping when its owner has come to l.
At(l) ==
  /\ unf = NoMapping => opts.type = "plain"
  /\ l \in {"check", "close_unf"} => (unf # NoMapping => ~ unf.passed)
  /\ l = "close_unf" => opts.check
  /\ l \in {"swap", "mkswap", "tmp", "finalize"} /\ opts.check
       => (unf # NoMapping => unf.passed)

\* A plain device, whose opening is not looked at, is opened by p when it is free
\* or when p itself has opened it before and could not close it.
Ready(p, l) ==
  opts.type = "plain" =>
    /\ l = "setup" => unf = NoMapping
    /\ l = "open" => (unf # NoMapping => unf.by = p /\ ~ unf.passed)

\* A process between opening and renaming owns the mapping.
Owned ==
  \A p \in Procs :
    /\ pc[p] \in Owning => (unf # NoMapping => unf.by = p) /\ At(pc[p])
    /\ Ready(p, pc[p])

OInv == TypeOK /\ Alone /\ Mapped /\ Owned

-----------------------------------------------------------------------------
(* Entries and mappings.                                                   *)

LEMMA EntryTyped ==
  ASSUME TypeOK
  PROVE  /\ opts \in Entry /\ opts.type \in Types /\ opts.tries \in Nat
         /\ opts.check \in BOOLEAN
  BY CrypttabAssumption DEF TypeOK, Entry

LEMMA MappingTyped ==
  ASSUME NEW m \in Mapping
  PROVE  m # NoMapping /\ m.by \in Procs /\ m.passed \in BOOLEAN /\ m.right \in BOOLEAN
  BY NoMappingAssumption DEF Mapping

\* The check is noted in a mapping of the same opener.
LEMMA PassedTyped ==
  ASSUME NEW m \in Mapping, NEW n, n = [m EXCEPT !.passed = TRUE]
  PROVE  n \in Mapping /\ n # NoMapping /\ n.by = m.by /\ n.passed = TRUE
  BY NoMappingAssumption DEF Mapping

\* So is a new content, which does not change what was noted.
LEMMA ShowsTyped ==
  ASSUME NEW m \in Mapping, NEW c \in Shown, NEW n, n = [m EXCEPT !.shows = c]
  PROVE  n \in Mapping /\ n # NoMapping /\ n.by = m.by /\ n.passed = m.passed
  BY NoMappingAssumption DEF Mapping

LEMMA NewMappingTyped ==
  ASSUME stored \in Shown, NEW p \in Procs, NEW right \in BOOLEAN,
         NEW n, n = NewMapping(p, right)
  PROVE  n \in Mapping /\ n # NoMapping /\ n.by = p /\ n.passed = FALSE
<1>1. n \in Mapping
  BY DEF Mapping, NewMapping, Shown
<1> QED  BY <1>1, MappingTyped DEF NewMapping

LEMMA MakeTyped ==
  ASSUME DiskTyped, NEW c \in Shown, Make(c) \/ UNCHANGED <<unf, stored>>
  PROVE  /\ unf' \in Mapping \cup {NoMapping} /\ stored' \in Shown
         /\ unf' = NoMapping <=> unf = NoMapping
         /\ unf # NoMapping => unf'.by = unf.by /\ unf'.passed = unf.passed
<1>1. CASE unf = NoMapping
  BY <1>1 DEF Make, DiskTyped
<1>2. CASE unf # NoMapping /\ Make(c)
  <2>1. unf \in Mapping /\ unf' = [unf EXCEPT !.shows = c]
    BY <1>2 DEF Make, DiskTyped
  <2>2. stored' \in Shown
    BY <1>2 DEF Make, Shown
  <2> QED  BY <1>2, <2>1, <2>2, ShowsTyped
<1>3. CASE UNCHANGED <<unf, stored>>
  BY <1>3 DEF DiskTyped
<1> QED  BY <1>1, <1>2, <1>3

-----------------------------------------------------------------------------
(* The processes.                                                          *)

\* Where a step of p may lead in its own command.
Follows(l, m) ==
  /\ l \in Locations /\ m \in Locations \ {"idle", "stop"} /\ l # "idle"
  /\ m \in Stopping <=> l \in Stopping \cup {"stop"}

LEMMA GotoKeeps ==
  ASSUME OInv, NEW p \in Procs, NEW l, Follows(pc[p], l), Goto(p, l), UNCHANGED opts
  PROVE  ProcsTyped' /\ Alone' /\ pc' = [pc EXCEPT ![p] = l]
<1>1. ProcsTyped'
  BY CrypttabAssumption DEF OInv, TypeOK, ProcsTyped, Goto, Follows
<1>2. Alone'
  BY DEF OInv, TypeOK, ProcsTyped, Alone, Goto, Follows
<1> QED  BY <1>1, <1>2 DEF Goto

LEMMA ExitKeeps ==
  ASSUME OInv, NEW p \in Procs, Exit(p), UNCHANGED opts
  PROVE  ProcsTyped' /\ Alone' /\ pc' = [pc EXCEPT ![p] = "idle"]
<1>1. ProcsTyped'
  BY EntryTyped DEF OInv, TypeOK, ProcsTyped, Exit, Locations, Stopping
<1>2. Alone'
  BY DEF OInv, TypeOK, ProcsTyped, Alone, Exit
<1> QED  BY <1>1, <1>2 DEF Exit

LEMMA RetryKeeps ==
  ASSUME OInv, NEW p \in Procs, pc[p] \in {"open", "close_unf"}, Retry(p), UNCHANGED opts
  PROVE  /\ ProcsTyped' /\ Alone'
         /\ \E l \in {"open", "umount_fs"} : pc' = [pc EXCEPT ![p] = l]
<1>1. \A l \in {"open", "umount_fs"} : Follows(pc[p], l)
  BY DEF Follows, Locations, Stopping, Owning
<1>2. CASE \E l \in {"open", "umount_fs"} : Goto(p, l)
  BY <1>1, <1>2, GotoKeeps
<1>3. CASE /\ tried[p] + 1 < opts.tries
           /\ pc' = [pc EXCEPT ![p] = "open"]
           /\ tried' = [tried EXCEPT ![p] = @ + 1]
           /\ UNCHANGED <<cmd, mounted>>
  <2>1. ProcsTyped'
    BY <1>3, EntryTyped DEF OInv, TypeOK, ProcsTyped, Locations, Stopping
  <2>2. Alone'
    BY <1>3 DEF OInv, TypeOK, ProcsTyped, Alone
  <2> QED  BY <1>3, <2>1, <2>2
<1> QED  BY <1>2, <1>3 DEF Retry

\* A step of a process that owns nothing, before and after, on a device whose
\* first name does not change.
LEMMA ElsewhereKeeps ==
  ASSUME OInv, NEW p \in Procs, NEW l, UNCHANGED <<opts, unf>>,
         pc' = [pc EXCEPT ![p] = l], pc[p] \notin Owning, l \notin Owning,
         used' => fin' # NoMapping, unf # NoMapping => fin' = fin, Ready(p, l)'
  PROVE  Mapped' /\ Owned'
  BY DEF OInv, TypeOK, ProcsTyped, Mapped, Owned, At, Ready

\* Two processes never own the mapping, not even one that could not be opened.
LEMMA OneOwner ==
  ASSUME "plain" \notin Overlapping, OInv, NEW p \in Procs, NEW q \in Procs,
         pc[p] \in Owning, pc[q] \in Owning
  PROVE  p = q
  BY DEF OInv, Owned, At, Alone, Owning

\* A step of the only process that owns the mapping, or comes to own it.
LEMMA OwnerKeeps ==
  ASSUME "plain" \notin Overlapping, OInv, NEW p \in Procs, NEW l, pc[p] # "idle",
         UNCHANGED opts, pc' = [pc EXCEPT ![p] = l],
         \A q \in Procs : pc[q] \in Owning => q = p,
         unf' # NoMapping => fin' = NoMapping /\ unf'.by = p,
         used' => fin' # NoMapping,
         l \in Owning => At(l)', Ready(p, l)'
  PROVE  Mapped' /\ Owned'
<1>1. pc'[p] = l /\ \A q \in Procs : q # p => pc'[q] = pc[q] /\ pc'[q] \notin Owning
  BY DEF OInv, TypeOK, ProcsTyped
<1>2. Mapped'
  BY <1>1 DEF Mapped
<1>3. ASSUME NEW q \in Procs, q # p PROVE Ready(q, pc[q])'
  <2>1. opts.type = "plain" => pc[q] = "idle"
    BY <1>3 DEF OInv, Alone
  <2> QED  BY <1>1, <1>3, <2>1 DEF Ready
<1>4. Owned'
  BY <1>1, <1>3 DEF Owned
<1> QED  BY <1>2, <1>4

-----------------------------------------------------------------------------
(* The invariant.                                                          *)

LEMMA OInvInit == Init => OInv
<1> SUFFICES ASSUME Init PROVE OInv
  OBVIOUS
<1>1. opts \in Crypttab /\ opts.tries \in Nat
  BY CrypttabAssumption DEF Init, Entry
<1>2. ProcsTyped
  BY <1>1 DEF Init, ProcsTyped, Locations, Stopping
<1>3. DiskTyped
  BY DEF Init, DiskTyped, Shown
<1>4. Alone /\ Mapped /\ Owned
  BY DEF Init, Alone, Mapped, Owned, Owning, Ready
<1> QED  BY <1>1, <1>2, <1>3, <1>4 DEF OInv, TypeOK

\* The steps of a process that leaves the mappings alone and owns none.
LEMMA QuietKeeps ==
  ASSUME OInv, NEW p \in Procs,
         \/ start(p) \/ stop(p) \/ mount_fs(p) \/ crypttab_line(p)
         \/ umount_fs(p) \/ mount(p) \/ stop_umount(p) \/ stop_line(p)
  PROVE  OInv'
<1> DEFINE Moved(l) ==
      /\ pc' = [pc EXCEPT ![p] = l] /\ pc[p] \notin Owning /\ l \notin Owning
      /\ UNCHANGED <<opts, unf, fin>> /\ (used' => fin' # NoMapping)
      /\ ProcsTyped' /\ Alone' /\ DiskTyped' /\ Ready(p, l)'
<1>1. ASSUME start(p) \/ stop(p)
      PROVE  \E l : Moved(l)
  <2>1. PICK c \in {"early", "udev", "manual", "force"},
             l \in {"mount_fs", "stop", "stop_line"} : Command(p, c, l)
    BY <1>1 DEF start, stop
  <2>2. ProcsTyped'
    BY <2>1, CrypttabAssumption DEF Command, OInv, TypeOK, ProcsTyped, Locations, Stopping
  <2>3. Alone'
    BY <2>1 DEF Command, MayRun, OInv, TypeOK, ProcsTyped, Alone
  <2>4. UNCHANGED <<opts, keyfs_on, unf, fin, used, stored>>
    BY <2>1 DEF Command, disk
  <2>5. DiskTyped' /\ (used' => fin' # NoMapping)
    BY <2>4 DEF OInv, TypeOK, DiskTyped, Mapped
  <2>6. pc' = [pc EXCEPT ![p] = l] /\ pc[p] \notin Owning /\ l \notin Owning
    BY <2>1 DEF Command, Owning
  <2>7. Ready(p, l)'
    BY <2>1 DEF Ready
  <2> QED  BY <2>2, <2>3, <2>4, <2>5, <2>6, <2>7
<1>2. ASSUME mount_fs(p) \/ umount_fs(p)
      PROVE  \E l : Moved(l)
  <2>1. PICK l \in {"line", "mount"} :
          /\ pc' = [pc EXCEPT ![p] = l] /\ pc[p] \in {"mount_fs", "umount_fs"}
          /\ UNCHANGED <<cmd, tried, opts, unf, fin, used, stored>>
    BY <1>2 DEF mount_fs, umount_fs, disk
  <2>2. opts.keyfs \in BOOLEAN
    BY CrypttabAssumption DEF OInv, TypeOK, Entry
  <2>3. mounted' \in [Procs -> BOOLEAN] /\ keyfs_on' \in BOOLEAN
    BY <1>2, <2>2 DEF mount_fs, umount_fs, OInv, TypeOK, ProcsTyped, DiskTyped
  <2>4. ProcsTyped'
    BY <2>1, <2>3 DEF OInv, TypeOK, ProcsTyped, Locations, Stopping
  <2>5. Alone'
    BY <2>1 DEF OInv, TypeOK, ProcsTyped, Alone
  <2>6. DiskTyped' /\ (used' => fin' # NoMapping)
    BY <2>1, <2>3 DEF OInv, TypeOK, DiskTyped, Mapped
  <2> QED  BY <2>1, <2>4, <2>5, <2>6 DEF Owning, Ready
<1>3. ASSUME crypttab_line(p) \/ stop_umount(p) \/ stop_line(p) \/ mount(p)
      PROVE  \E l : Moved(l)
  <2>1. PICK l \in {"umount_fs", "setup", "stop_line", "do_close", "idle"} :
          /\ IF l = "idle" THEN Exit(p) ELSE Goto(p, l) /\ Follows(pc[p], l)
          /\ pc[p] \notin Owning /\ (l = "setup" => unf = NoMapping)
    BY <1>3 DEF crypttab_line, stop_umount, stop_line, mount, Follows, Locations,
       Stopping, Owning
  <2>2. UNCHANGED <<opts, keyfs_on, unf, fin, stored>>
    BY <1>3 DEF crypttab_line, stop_umount, stop_line, mount, disk
  <2>3. used' \in BOOLEAN /\ (used' => fin # NoMapping)
    <3>1. CASE mount(p)
      <4>1. CASE used' = TRUE /\ fin # NoMapping
        BY <4>1
      <4>2. CASE used' = used
        BY <4>2 DEF OInv, TypeOK, DiskTyped, Mapped
      <4> QED  BY <3>1, <4>1, <4>2 DEF mount
    <3>2. CASE stop_umount(p)
      <4>1. CASE used' = FALSE
        BY <4>1
      <4>2. CASE used' = used
        BY <4>2 DEF OInv, TypeOK, DiskTyped, Mapped
      <4> QED  BY <3>2, <4>1, <4>2 DEF stop_umount
    <3>3. CASE crypttab_line(p) \/ stop_line(p)
      BY <3>3 DEF crypttab_line, stop_line, disk, OInv, TypeOK, DiskTyped, Mapped
    <3> QED  BY <1>3, <3>1, <3>2, <3>3
  <2>4. ProcsTyped' /\ Alone' /\ pc' = [pc EXCEPT ![p] = l]
    BY <2>1, <2>2, GotoKeeps, ExitKeeps
  <2>5. DiskTyped'
    BY <2>2, <2>3 DEF OInv, TypeOK, DiskTyped
  <2>6. Ready(p, l)'
    BY <2>1, <2>2 DEF Ready
  <2> QED  BY <2>1, <2>2, <2>3, <2>4, <2>5, <2>6 DEF Owning
<1>4. PICK l : Moved(l)
  BY <1>1, <1>2, <1>3
<1>5. Mapped' /\ Owned'
  BY <1>4, ElsewhereKeeps
<1> QED  BY <1>4, <1>5 DEF OInv, TypeOK

\* The steps of the process that owns the mapping, or is about to.
LEMMA OwningKeeps ==
  ASSUME "plain" \notin Overlapping, OInv, NEW p \in Procs,
         \/ setup(p) \/ open(p) \/ check(p) \/ close_unf(p) \/ do_swap(p)
         \/ mkswap(p) \/ do_tmp(p) \/ finalize_device(p)
  PROVE  OInv'
<1>0. /\ DiskTyped /\ opts.check \in BOOLEAN /\ opts.type \in Types
      /\ unf # NoMapping => unf \in Mapping /\ unf.passed \in BOOLEAN
  BY EntryTyped, MappingTyped DEF OInv, TypeOK, DiskTyped
<1>1. ASSUME pc[p] \in Owning
      PROVE  /\ \A q \in Procs : pc[q] \in Owning => q = p
             /\ unf # NoMapping => unf.by = p /\ fin = NoMapping
             /\ At(pc[p]) /\ (used => fin # NoMapping) /\ pc[p] # "idle"
  BY <1>1, OneOwner DEF OInv, Owned, Mapped, Owning
<1>2. ASSUME setup(p)
      PROVE  OInv'
  <2>1. PICK l \in {"umount_fs", "open"} \cup (IF opts.type = "plain" THEN {"swap"} ELSE {}) :
          Goto(p, l)
    BY <1>2 DEF setup
  <2>2. pc[p] = "setup" /\ UNCHANGED <<opts, unf, fin, used>> /\ DiskTyped'
    BY <1>2 DEF setup, disk, OInv, TypeOK, DiskTyped
  <2>3. ProcsTyped' /\ Alone' /\ pc' = [pc EXCEPT ![p] = l]
    BY <2>1, <2>2, GotoKeeps DEF Follows, Locations, Stopping, Owning
  <2>4. CASE l \notin Owning
    <3>1. Ready(p, l)'
      BY <2>1, <2>2 DEF OInv, Owned, Ready
    <3> QED  BY <2>2, <2>3, <2>4, <3>1, ElsewhereKeeps DEF OInv, TypeOK, Mapped, Owning
  <2>5. CASE l \in Owning
    <3>1. l = "swap" /\ opts.type = "plain"
      BY <2>1, <2>5 DEF Owning
    <3>2. \A q \in Procs : pc[q] # "idle" => q = p
      BY <2>2, <3>1 DEF OInv, Alone
    <3>3. unf = NoMapping
      BY <2>2, <3>1 DEF OInv, Owned, Ready
    <3>4. \A q \in Procs : pc[q] \in Owning => q = p
      BY <3>2 DEF Owning
    <3>5. At(l)'
      BY <2>2, <3>1, <3>3 DEF At
    <3>6. Mapped' /\ Owned'
      BY <2>2, <2>3, <3>1, <3>3, <3>4, <3>5, OwnerKeeps DEF OInv, Mapped, Ready
    <3> QED  BY <2>2, <2>3, <3>6 DEF OInv, TypeOK
  <2> QED  BY <2>4, <2>5
<1>3. ASSUME open(p)
      PROVE  OInv'
  <2>1. PICK right \in BOOLEAN :
          /\ unf' = IF Opens(right) THEN NewMapping(p, right) ELSE unf
          /\ IF Opens(right) \/ opts.type = "plain" THEN Goto(p, "check") ELSE Retry(p)
    BY <1>3 DEF open
  <2>2. pc[p] = "open" /\ UNCHANGED <<opts, keyfs_on, fin, used, stored>>
    BY <1>3 DEF open
  <2>3. CASE Goto(p, "check") /\ (Opens(right) \/ opts.type = "plain")
    <3>1. ProcsTyped' /\ Alone' /\ pc' = [pc EXCEPT ![p] = "check"]
      BY <2>2, <2>3, GotoKeeps DEF Follows, Locations, Stopping, Owning
    <3>2. CASE Opens(right)
      <4>1. unf = NoMapping /\ fin = NoMapping /\ unf' = NewMapping(p, right)
        BY <2>1, <3>2 DEF Opens
      <4>2. unf' \in Mapping /\ unf' # NoMapping /\ unf'.by = p /\ unf'.passed = FALSE
        BY <1>0, <4>1, NewMappingTyped DEF DiskTyped
      <4>3. DiskTyped' /\ ~ used'
        BY <1>0, <2>2, <4>1, <4>2 DEF DiskTyped, OInv, Mapped
      <4>4. \A q \in Procs : pc[q] \notin Owning \/ opts.type = "plain"
        BY <4>1 DEF OInv, Owned, At
      <4>5. \A q \in Procs : pc[q] \in Owning => q = p
        BY <2>2, <4>4 DEF OInv, Alone, Owning
      <4>6. At("check")'
        BY <2>2, <4>2 DEF At
      <4>7. Mapped' /\ Owned'
        BY <2>2, <3>1, <4>1, <4>2, <4>3, <4>5, <4>6, OwnerKeeps DEF Ready
      <4> QED  BY <2>2, <3>1, <4>3, <4>7 DEF OInv, TypeOK
    <3>3. CASE ~ Opens(right)
      <4>1. opts.type = "plain" /\ unf' = unf
        BY <2>1, <2>3, <3>3
      <4>2. \A q \in Procs : pc[q] # "idle" => q = p
        BY <2>2, <4>1 DEF OInv, Alone
      <4>3. /\ unf # NoMapping => unf.by = p /\ ~ unf.passed /\ fin = NoMapping
            /\ \A q \in Procs : pc[q] \in Owning => q = p
        BY <2>2, <4>1, <4>2 DEF OInv, Mapped, Owned, Owning, Ready
      <4>4. DiskTyped' /\ (used' => fin' # NoMapping)
        BY <1>0, <2>2, <4>1 DEF DiskTyped, OInv, Mapped
      <4>5. At("check")'
        BY <2>2, <4>1, <4>3 DEF At
      <4>6. Mapped' /\ Owned'
        BY <2>2, <3>1, <4>1, <4>3, <4>4, <4>5, OwnerKeeps DEF Ready
      <4> QED  BY <2>2, <3>1, <4>4, <4>6 DEF OInv, TypeOK
    <3> QED  BY <3>2, <3>3
  <2>4. CASE Retry(p) /\ ~ Opens(right) /\ opts.type # "plain"
    <3>1. ProcsTyped' /\ Alone' /\ \E l \in {"open", "umount_fs"} : pc' = [pc EXCEPT ![p] = l]
      BY <2>2, <2>4, RetryKeeps
    <3>2. PICK l \in {"open", "umount_fs"} : pc' = [pc EXCEPT ![p] = l]
      BY <3>1
    <3>3. UNCHANGED unf /\ DiskTyped' /\ (used' => fin' # NoMapping)
      BY <1>0, <2>1, <2>2, <2>4 DEF DiskTyped, OInv, Mapped
    <3>4. Mapped' /\ Owned'
      BY <2>2, <2>4, <3>2, <3>3, ElsewhereKeeps DEF Owning, Ready
    <3> QED  BY <2>2, <3>1, <3>3, <3>4 DEF OInv, TypeOK
  <2> QED  BY <2>1, <2>3, <2>4
<1>4. ASSUME check(p)
      PROVE  OInv'
  <2>1. pc[p] = "check" /\ UNCHANGED <<opts, keyfs_on, fin, used, stored>>
    BY <1>4 DEF check
  <2>2. PICK l \in {"swap", "close_unf"} :
          /\ Goto(p, l) /\ (l = "close_unf" => opts.check)
          /\ \/ UNCHANGED unf /\ (l = "swap" => ~ opts.check)
             \/ l = "swap" /\ unf # NoMapping /\ unf' = [unf EXCEPT !.passed = TRUE]
    BY <1>4 DEF check
  <2>3. ProcsTyped' /\ Alone' /\ pc' = [pc EXCEPT ![p] = l]
    BY <2>1, <2>2, GotoKeeps DEF Follows, Locations, Stopping, Owning
  <2>4. /\ unf' \in Mapping \cup {NoMapping} /\ (unf' = NoMapping <=> unf = NoMapping)
        /\ unf # NoMapping => unf'.by = unf.by
        /\ l = "close_unf" => unf' = unf
        /\ l = "swap" /\ opts.check /\ unf # NoMapping => unf'.passed
    <3>1. CASE UNCHANGED unf /\ (l = "swap" => ~ opts.check)
      BY <1>0, <2>2, <3>1 DEF DiskTyped
    <3>2. CASE unf # NoMapping /\ unf' = [unf EXCEPT !.passed = TRUE] /\ l = "swap"
      <4>1. unf' \in Mapping /\ unf' # NoMapping /\ unf'.by = unf.by /\ unf'.passed = TRUE
        BY <1>0, <3>2, PassedTyped
      <4> QED  BY <3>2, <4>1
    <3> QED  BY <2>2, <3>1, <3>2
  <2>5. At(l)'
    BY <1>0, <1>1, <2>1, <2>2, <2>4 DEF At, Owning
  <2>6. DiskTyped' /\ (used' => fin' # NoMapping)
    BY <1>0, <2>1, <2>4 DEF DiskTyped, OInv, Mapped
  <2>7. Mapped' /\ Owned'
    BY <1>1, <2>1, <2>2, <2>3, <2>4, <2>5, <2>6, OwnerKeeps DEF Owning, Ready
  <2> QED  BY <2>1, <2>3, <2>6, <2>7 DEF OInv, TypeOK
<1>5. ASSUME close_unf(p)
      PROVE  OInv'
  <2>1. /\ pc[p] = "close_unf" /\ unf' \in {NoMapping, unf}
        /\ UNCHANGED <<opts, keyfs_on, fin, used, stored>>
    BY <1>5 DEF close_unf
  <2>2. ProcsTyped' /\ Alone' /\ \E l \in {"open", "umount_fs"} : pc' = [pc EXCEPT ![p] = l]
    <3>1. CASE Retry(p)
      BY <2>1, <3>1, RetryKeeps
    <3>2. CASE Goto(p, "umount_fs")
      BY <2>1, <3>2, GotoKeeps DEF Follows, Locations, Stopping, Owning
    <3> QED  BY <1>5, <3>1, <3>2 DEF close_unf
  <2>3. PICK l \in {"open", "umount_fs"} : pc' = [pc EXCEPT ![p] = l]
    BY <2>2
  <2>4. DiskTyped' /\ (used' => fin' # NoMapping)
    BY <1>0, <2>1 DEF DiskTyped, OInv, Mapped
  <2>5. Ready(p, l)'
    BY <1>1, <2>1 DEF Ready, At, Owning
  <2>6. Mapped' /\ Owned'
    BY <1>1, <2>1, <2>3, <2>4, <2>5, OwnerKeeps DEF Owning
  <2> QED  BY <2>1, <2>2, <2>4, <2>6 DEF OInv, TypeOK
<1>6. ASSUME do_swap(p)
      PROVE  OInv'
  <2>1. pc[p] = "swap" /\ UNCHANGED <<opts, keyfs_on, unf, used, stored>>
    BY <1>6 DEF do_swap
  <2>2. PICK l \in {"tmp", "mkswap"} : Goto(p, l)
    BY <1>6 DEF do_swap
  <2>3. fin' = fin \/ (~ used /\ fin' = NoMapping)
    BY <1>6 DEF do_swap, Closed
  <2>4. ProcsTyped' /\ Alone' /\ pc' = [pc EXCEPT ![p] = l]
    BY <2>1, <2>2, GotoKeeps DEF Follows, Locations, Stopping, Owning
  <2>5. DiskTyped' /\ (used' => fin' # NoMapping)
    BY <1>0, <2>1, <2>3 DEF DiskTyped, OInv, Mapped
  <2>6. At(l)'
    BY <1>0, <1>1, <2>1 DEF At, Owning
  <2>7. Mapped' /\ Owned'
    BY <1>1, <2>1, <2>2, <2>3, <2>4, <2>5, <2>6, OwnerKeeps DEF Owning, Ready
  <2> QED  BY <2>1, <2>4, <2>5, <2>7 DEF OInv, TypeOK
<1>7. ASSUME mkswap(p) \/ do_tmp(p)
      PROVE  OInv'
  <2>1. PICK l \in {"tmp", "finalize"} :
          pc[p] \in {"mkswap", "tmp"} /\ Goto(p, l) /\ UNCHANGED <<opts, keyfs_on, fin, used>>
    BY <1>7 DEF mkswap, do_tmp
  <2>2. PICK c \in Shown : Make(c) \/ UNCHANGED <<unf, stored>>
    BY <1>7 DEF mkswap, do_tmp, Shown
  <2>3. /\ unf' \in Mapping \cup {NoMapping} /\ stored' \in Shown
        /\ unf' = NoMapping <=> unf = NoMapping
        /\ unf # NoMapping => unf'.by = unf.by /\ unf'.passed = unf.passed
    BY <1>0, <2>2, MakeTyped
  <2>4. ProcsTyped' /\ Alone' /\ pc' = [pc EXCEPT ![p] = l]
    BY <2>1, GotoKeeps DEF Follows, Locations, Stopping, Owning
  <2>5. DiskTyped' /\ (used' => fin' # NoMapping)
    BY <1>0, <2>1, <2>3 DEF DiskTyped, OInv, Mapped
  <2>6. At(l)'
    BY <1>0, <1>1, <2>1, <2>3 DEF At, Owning
  <2>7. Mapped' /\ Owned'
    BY <1>1, <2>1, <2>2, <2>3, <2>4, <2>5, <2>6, OwnerKeeps DEF Owning, Ready
  <2> QED  BY <2>1, <2>4, <2>5, <2>7 DEF OInv, TypeOK
<1>8. ASSUME finalize_device(p)
      PROVE  OInv'
  <2>1. pc[p] = "finalize" /\ Goto(p, "umount_fs") /\ UNCHANGED <<opts, keyfs_on, stored>>
    BY <1>8 DEF finalize_device
  <2>2. \/ unf # NoMapping /\ fin' = unf /\ unf' = NoMapping /\ used' = FALSE
        \/ (unf = NoMapping \/ fin # NoMapping) /\ UNCHANGED <<fin, unf, used>>
    BY <1>8 DEF finalize_device
  <2>3. ProcsTyped' /\ Alone' /\ pc' = [pc EXCEPT ![p] = "umount_fs"]
    BY <2>1, GotoKeeps DEF Follows, Locations, Stopping, Owning
  <2>4. unf' = NoMapping /\ DiskTyped' /\ (used' => fin' # NoMapping)
    <3>1. CASE unf # NoMapping /\ fin' = unf /\ unf' = NoMapping /\ used' = FALSE
      BY <1>0, <2>1, <3>1 DEF DiskTyped
    <3>2. CASE (unf = NoMapping \/ fin # NoMapping) /\ UNCHANGED <<fin, unf, used>>
      BY <1>0, <1>1, <2>1, <3>2 DEF DiskTyped, Owning
    <3> QED  BY <2>2, <3>1, <3>2
  <2>5. Mapped' /\ Owned'
    BY <1>1, <2>1, <2>3, <2>4, OwnerKeeps DEF Owning, Ready
  <2> QED  BY <2>1, <2>3, <2>4, <2>5 DEF OInv, TypeOK
<1> QED  BY <1>2, <1>3, <1>4, <1>5, <1>6, <1>7, <1>8

\* The steps after which the device with its final name may be gone or used.
LEMMA ClosingKeeps ==
  ASSUME OInv, NEW p \in Procs, do_close(p)
  PROVE  OInv'
<1>1. pc[p] = "do_close" /\ UNCHANGED <<opts, keyfs_on, unf, used, stored>>
  BY DEF do_close
<1>2. fin' = fin \/ (~ used /\ fin' = NoMapping)
  BY DEF do_close, Closed
<1>3. PICK l \in {"stop_line", "idle"} :
        ProcsTyped' /\ Alone' /\ pc' = [pc EXCEPT ![p] = l]
  <2>1. CASE Exit(p)
    BY <1>1, <2>1, ExitKeeps
  <2>2. CASE /\ tried[p] + 1 < Rounds
             /\ pc' = [pc EXCEPT ![p] = "stop_line"]
             /\ tried' = [tried EXCEPT ![p] = @ + 1]
             /\ UNCHANGED <<cmd, mounted>>
    <3>1. ProcsTyped'
      BY <1>1, <2>2, CrypttabAssumption DEF OInv, TypeOK, ProcsTyped, Locations, Stopping
    <3>2. Alone'
      BY <1>1, <2>2 DEF OInv, TypeOK, ProcsTyped, Alone
    <3> QED  BY <2>2, <3>1, <3>2
  <2> QED  BY <2>1, <2>2 DEF do_close
<1>4. DiskTyped' /\ (used' => fin' # NoMapping)
  BY <1>1, <1>2 DEF OInv, TypeOK, DiskTyped, Mapped
<1>5. unf # NoMapping => fin' = fin
  BY <1>2 DEF OInv, Mapped
<1>6. Mapped' /\ Owned'
  BY <1>1, <1>3, <1>4, <1>5, ElsewhereKeeps DEF Owning, Ready
<1> QED  BY <1>1, <1>3, <1>4, <1>6 DEF OInv, TypeOK

LEMMA UsersKeep ==
  ASSUME OInv, Use \/ Release
  PROVE  OInv'
<1>1. UNCHANGED <<opts, pc, cmd, tried, mounted, keyfs_on, unf>>
  BY DEF Use, Release, procs
<1>2. /\ fin' \in Mapping \cup {NoMapping} /\ stored' \in Shown
      /\ fin' = NoMapping <=> fin = NoMapping
  <2>1. CASE fin # NoMapping /\ fin' = [fin EXCEPT !.shows = "data"]
             /\ stored' = IF fin.right THEN "data" ELSE "blank"
    BY <2>1, ShowsTyped DEF OInv, TypeOK, DiskTyped, Shown
  <2>2. CASE UNCHANGED <<fin, stored>>
    BY <2>2 DEF OInv, TypeOK, DiskTyped
  <2> QED  BY <2>1, <2>2 DEF Use, Release
<1>3. used' \in BOOLEAN /\ (used' => fin # NoMapping)
  BY Zenon DEF Use, Release
<1>4. ProcsTyped' /\ Alone' /\ DiskTyped' /\ Mapped'
  BY <1>1, <1>2, <1>3 DEF OInv, TypeOK, ProcsTyped, Alone, DiskTyped, Mapped
<1>5. Owned'
  BY <1>1 DEF OInv, Owned, At, Ready
<1> QED  BY <1>1, <1>4, <1>5 DEF OInv, TypeOK

LEMMA OInvStep ==
  ASSUME "plain" \notin Overlapping, OInv, [Next]_vars
  PROVE  OInv'
<1>1. CASE \E p \in Procs : start(p) \/ stop(p) \/ Step(p)
  BY <1>1, QuietKeeps, OwningKeeps, ClosingKeeps DEF Step
<1>2. CASE Use \/ Release
  BY <1>2, UsersKeep
<1>3. CASE UNCHANGED vars
  BY <1>3 DEF vars, procs, disk, OInv, TypeOK, ProcsTyped, DiskTyped, Alone, Mapped, Owned, At,
     Ready
<1> QED  BY <1>1, <1>2, <1>3 DEF Next

\* The invariant behind everything below, for any number of processes.
THEOREM OInvAlways == ASSUME "plain" \notin Overlapping PROVE Spec => []OInv
<1>1. Init => OInv
  BY OInvInit
<1>2. OInv /\ [Next]_vars => OInv'
  BY OInvStep
<1> QED  BY <1>1, <1>2, PTL DEF Spec

\* Types, of every number of processes, tries and rounds.
THEOREM CryptTyped == ASSUME "plain" \notin Overlapping PROVE Spec => []TypeOK
<1>1. OInv => TypeOK
  BY DEF OInv
<1> QED  BY <1>1, OInvAlways, PTL

\* Without a lock (L718) the mapping a process works on between its opening
\* and its renaming is its own: opening it twice fails, and the failure is
\* looked at (L317-330, L379-395).
THEOREM Ownership == ASSUME "plain" \notin Overlapping PROVE Spec => []OpenerOnly
<1>1. OInv => OpenerOnly
  BY DEF OInv, Owned, At, OpenerOnly
<1> QED  BY <1>1, OInvAlways, PTL

\* Whatever runs beside it, a start that reports "started" (L646) has
\* published the mapping it has opened itself.
THEOREM Publication ==
  ASSUME "plain" \notin Overlapping PROVE Spec => StartPublishesOwn
<1> DEFINE Own == \A p \in Procs :
      opts.type # "plain" /\ pc[p] = "finalize" /\ pc'[p] # "finalize"
        => fin' # NoMapping /\ fin'.by = p
<1>1. ASSUME OInv, [Next]_vars
      PROVE  [Own]_vars
  <2> SUFFICES ASSUME Next, NEW p \in Procs, opts.type # "plain",
                      pc[p] = "finalize", pc'[p] # "finalize"
               PROVE  fin' # NoMapping /\ fin'.by = p
    BY <1>1
  <2>1. unf # NoMapping /\ unf.by = p /\ fin = NoMapping
    BY <1>1 DEF OInv, Owned, At, Mapped, Owning
  <2>2. finalize_device(p)
    <3>1. PICK q \in Procs : start(q) \/ stop(q) \/ Step(q)
      BY DEF Next, Use, Release, procs
    <3>2. \E l : pc' = [pc EXCEPT ![q] = l]
      BY <3>1 DEF start, stop, Command, Step, mount_fs, crypttab_line, setup, open,
         check, close_unf, do_swap, mkswap, do_tmp, finalize_device, umount_fs, mount,
         stop_umount, stop_line, do_close, Goto, Exit, Retry
    <3>3. q = p
      BY <1>1, <3>2 DEF OInv, TypeOK, ProcsTyped
    <3> QED
      BY <3>1, <3>3 DEF start, stop, Command, Step, mount_fs, crypttab_line, setup,
         open, check, close_unf, do_swap, mkswap, do_tmp, umount_fs, mount,
         stop_umount, stop_line, do_close
  <2> QED  BY <2>1, <2>2 DEF finalize_device
<1> QED  BY <1>1, OInvAlways, PTL DEF Spec, StartPublishesOwn

-----------------------------------------------------------------------------
(* The refinement.                                                         *)

\* A step that moves neither mapping, their use nor the entry is a stutter.
LEMMA QuietStep ==
  ASSUME UNCHANGED <<opts, unf, fin, used>>
  PROVE  UNCHANGED Promise!vars
  BY DEF mapping_state, Promise!vars

LEMMA PromiseInit == ASSUME Init PROVE Promise!Init
  BY DEF Init, mapping_state, Promise!Init

\* Every step of the scripts is a step of CryptMapping or a stutter.
LEMMA PromiseStep ==
  ASSUME "plain" \notin Overlapping, OInv, [Next]_vars
  PROVE  [Promise!Next]_(Promise!vars)
<1>0. /\ opts.check \in BOOLEAN /\ used \in BOOLEAN /\ DiskTyped
      /\ used => fin # NoMapping
      /\ unf # NoMapping => fin = NoMapping
  BY EntryTyped DEF OInv, TypeOK, DiskTyped, Mapped
<1>1. ASSUME NEW p \in Procs,
             \/ start(p) \/ stop(p) \/ mount_fs(p) \/ crypttab_line(p) \/ setup(p)
             \/ umount_fs(p) \/ stop_line(p)
      PROVE  UNCHANGED Promise!vars
  BY <1>1, QuietStep DEF start, stop, Command, mount_fs, crypttab_line, setup,
     umount_fs, stop_line, disk
<1>2. ASSUME NEW p \in Procs, open(p)
      PROVE  [Promise!Next]_(Promise!vars)
  <2>1. PICK right \in BOOLEAN :
          unf' = IF Opens(right) THEN NewMapping(p, right) ELSE unf
    BY <1>2 DEF open
  <2>2. UNCHANGED <<opts, fin, used, stored>>
    BY <1>2 DEF open
  <2>3. CASE Opens(right)
    <3>1. unf = NoMapping /\ fin = NoMapping /\ unf' = NewMapping(p, right)
      BY <2>1, <2>3 DEF Opens
    <3>2. unf' # NoMapping /\ unf'.passed = FALSE
      BY <1>0, <3>1, NewMappingTyped DEF DiskTyped
    <3>3. mapping_state = "absent"
      BY <3>1 DEF mapping_state
    <3>4. mapping_state' = IF opts.check THEN "opened" ELSE "ready"
      BY <2>2, <3>1, <3>2 DEF mapping_state
    <3>5. Promise!Open(opts.check)
      BY <2>2, <3>3, <3>4 DEF Promise!Open
    <3> QED  BY <1>0, <3>5 DEF Promise!Next
  <2>4. CASE ~ Opens(right)
    BY <2>1, <2>2, <2>4, QuietStep
  <2> QED  BY <2>3, <2>4
<1>3. ASSUME NEW p \in Procs, check(p)
      PROVE  [Promise!Next]_(Promise!vars)
  <2>1. UNCHANGED <<opts, fin, used>>
    BY <1>3 DEF check
  <2>2. CASE UNCHANGED unf
    BY <2>1, <2>2, QuietStep
  <2>3. CASE opts.check /\ unf # NoMapping /\ unf' = [unf EXCEPT !.passed = TRUE]
    <3>1. unf' # NoMapping /\ unf'.passed = TRUE
      BY <1>0, <2>3, PassedTyped DEF DiskTyped
    <3>2. ~ unf.passed
      BY <1>3, <2>3 DEF check, OInv, Owned, At, Owning
    <3>3. mapping_state = "opened" /\ mapping_state' = "ready"
      BY <1>0, <2>1, <2>3, <3>1, <3>2 DEF mapping_state
    <3> QED  BY <2>1, <3>3 DEF Promise!Next, Promise!PassCheck
  <2> QED  BY <1>3, <2>2, <2>3 DEF check
<1>4. ASSUME NEW p \in Procs, close_unf(p)
      PROVE  [Promise!Next]_(Promise!vars)
  <2>1. unf' \in {NoMapping, unf} /\ UNCHANGED <<opts, fin, used>>
    BY <1>4 DEF close_unf
  <2>2. CASE unf' = unf
    BY <2>1, <2>2, QuietStep
  <2>3. CASE unf # NoMapping /\ unf' = NoMapping
    <3>1. opts.check /\ ~ unf.passed
      BY <1>4, <2>3 DEF close_unf, OInv, Owned, At, Owning
    <3>2. mapping_state = "opened" /\ mapping_state' = "absent"
      BY <1>0, <2>1, <2>3, <3>1 DEF mapping_state
    <3> QED  BY <2>1, <3>2 DEF Promise!Next, Promise!FailCheck
  <2> QED  BY <2>1, <2>2, <2>3
<1>5. ASSUME NEW p \in Procs, do_swap(p) \/ do_close(p)
      PROVE  [Promise!Next]_(Promise!vars)
  <2>1. UNCHANGED <<opts, unf, used>>
    BY <1>5 DEF do_swap, do_close
  <2>2. fin' = fin \/ (~ used /\ fin' = NoMapping)
    <3>1. CASE do_swap(p)
      BY <3>1 DEF do_swap, Closed
    <3>2. CASE do_close(p)
      BY <3>2 DEF do_close, Closed
    <3> QED  BY <1>5, <3>1, <3>2
  <2>3. CASE fin' = fin
    BY <2>1, <2>3, QuietStep
  <2>4. CASE fin # NoMapping /\ ~ used /\ fin' = NoMapping
    <3>1. unf' = NoMapping
      BY <1>0, <2>1, <2>4
    <3>2. mapping_state = "published" /\ mapping_state' = "absent"
      BY <2>4, <3>1 DEF mapping_state
    <3>3. Promise!Remove
      BY <2>1, <2>4, <3>2 DEF Promise!Remove
    <3> QED  BY <3>3 DEF Promise!Next
  <2> QED  BY <2>2, <2>3, <2>4
<1>6. ASSUME NEW p \in Procs, mkswap(p) \/ do_tmp(p)
      PROVE  UNCHANGED Promise!vars
  <2>1. UNCHANGED <<opts, fin, used>>
    BY <1>6 DEF mkswap, do_tmp
  <2>2. PICK c \in Shown : Make(c) \/ UNCHANGED <<unf, stored>>
    BY <1>6 DEF mkswap, do_tmp, Shown
  <2>3. /\ unf' = NoMapping <=> unf = NoMapping
        /\ unf # NoMapping => unf'.passed = unf.passed
    BY <1>0, <2>2, MakeTyped
  <2>4. mapping_state' = mapping_state
    BY <2>1, <2>3 DEF mapping_state
  <2> QED  BY <2>1, <2>4 DEF Promise!vars
<1>7. ASSUME NEW p \in Procs, finalize_device(p)
      PROVE  [Promise!Next]_(Promise!vars)
  <2>1. UNCHANGED opts
    BY <1>7 DEF finalize_device
  <2>2. CASE UNCHANGED <<fin, unf, used>>
    BY <2>1, <2>2, QuietStep
  <2>3. CASE unf # NoMapping /\ fin = NoMapping /\ fin' = unf /\ used' = FALSE
    <3>1. opts.check => unf.passed
      BY <1>7, <2>3 DEF finalize_device, OInv, Owned, At, Owning
    <3>2. mapping_state = "ready" /\ mapping_state' = "published"
      BY <2>3, <3>1 DEF mapping_state
    <3>3. used = FALSE
      BY <1>0, <2>3
    <3>4. UNCHANGED used
      BY <2>3, <3>3
    <3> QED  BY <3>2, <3>4 DEF Promise!Next, Promise!Publish
  <2> QED  BY <1>7, <2>2, <2>3 DEF finalize_device
<1>8. ASSUME (\E p \in Procs : mount(p) \/ stop_umount(p)) \/ Use \/ Release
      PROVE  [Promise!Next]_(Promise!vars)
  <2>1. /\ UNCHANGED <<opts, unf>> /\ (fin' = NoMapping <=> fin = NoMapping)
        /\ UNCHANGED used \/ used' = FALSE \/ (used' = TRUE /\ fin # NoMapping)
    <3>1. CASE Use
      <4>1. fin' # NoMapping
        BY <1>0, <3>1, ShowsTyped DEF Use, DiskTyped, Shown
      <4> QED  BY <3>1, <4>1 DEF Use
    <3>2. CASE \E p \in Procs : mount(p) \/ stop_umount(p)
      BY <3>2 DEF mount, stop_umount
    <3>3. CASE Release
      BY <3>3 DEF Release
    <3> QED  BY <1>8, <3>1, <3>2, <3>3
  <2>2. UNCHANGED mapping_state
    BY <1>0, <2>1 DEF mapping_state
  <2>3. CASE UNCHANGED used
    BY <2>2, <2>3 DEF Promise!vars
  <2>4. CASE used' = FALSE /\ used = TRUE
    BY <2>2, <2>4 DEF Promise!Next, Promise!Release
  <2>5. CASE used' = TRUE /\ used = FALSE /\ fin # NoMapping
    <3>1. mapping_state = "published"
      BY <2>5 DEF mapping_state
    <3> QED  BY <2>2, <2>5, <3>1 DEF Promise!Next, Promise!Use
  <2> QED  BY <1>0, <2>1, <2>3, <2>4, <2>5
<1>9. CASE UNCHANGED vars
  BY <1>9, QuietStep DEF vars, disk
<1> QED
  BY <1>1, <1>2, <1>3, <1>4, <1>5, <1>6, <1>7, <1>8, <1>9 DEF Next, Step

\* The device gets its name only after its check, and is taken away only while
\* nobody uses it, whatever runs side by side.
THEOREM Refinement ==
  ASSUME "plain" \notin Overlapping PROVE Spec => ImplementsPromise
<1>1. Init => Promise!Init
  BY PromiseInit
<1>2. OInv /\ [Next]_vars => [Promise!Next]_(Promise!vars)
  BY PromiseStep
<1> QED  BY <1>1, <1>2, OInvAlways, PTL DEF Spec, ImplementsPromise, Promise!Spec

-----------------------------------------------------------------------------
(* The filesystem with the keys.                                           *)

\* Only one process has mounted it at a time.
KeyFsInv ==
  /\ mounted \in [Procs -> BOOLEAN]
  /\ KeyFsKept
  /\ \A p, q \in Procs : mounted[p] /\ mounted[q] => p = q

LEMMA KeyFsNext == KeyFsInv /\ [Next]_vars => KeyFsInv'
<1> SUFFICES ASSUME KeyFsInv, [Next]_vars PROVE KeyFsInv'
  OBVIOUS
<1>1. CASE \E p \in Procs : mount_fs(p)
  <2>1. PICK p \in Procs :
          /\ mounted' = [mounted EXCEPT ![p] = opts.keyfs /\ ~ keyfs_on]
          /\ keyfs_on' = (keyfs_on \/ opts.keyfs)
    BY <1>1 DEF mount_fs
  <2>2. \A q \in Procs : mounted[q] => keyfs_on  BY DEF KeyFsInv, KeyFsKept
  <2>3. mounted' \in [Procs -> BOOLEAN]  BY <2>1 DEF KeyFsInv
  <2>4. mounted'[p] => opts.keyfs /\ ~ keyfs_on  BY <2>1 DEF KeyFsInv
  <2>5. \A q \in Procs : q # p => mounted'[q] = mounted[q]  BY <2>1 DEF KeyFsInv
  <2> QED  BY <2>1, <2>2, <2>3, <2>4, <2>5 DEF KeyFsInv, KeyFsKept
<1>2. CASE \E p \in Procs : umount_fs(p)
  <2>1. PICK p \in Procs :
          /\ mounted' = [mounted EXCEPT ![p] = FALSE]
          /\ keyfs_on' = (keyfs_on /\ ~ mounted[p])
    BY <1>2 DEF umount_fs
  <2>2. mounted' \in [Procs -> BOOLEAN] /\ ~ mounted'[p]  BY <2>1 DEF KeyFsInv
  <2>3. \A q \in Procs : q # p => mounted'[q] = mounted[q]  BY <2>1 DEF KeyFsInv
  <2> QED  BY <2>1, <2>2, <2>3 DEF KeyFsInv, KeyFsKept
<1>3. CASE UNCHANGED <<mounted, keyfs_on>>
  BY <1>3 DEF KeyFsInv, KeyFsKept
<1>4. CASE UNCHANGED vars
  BY <1>3, <1>4 DEF vars, procs
<1>5. ASSUME NEW p \in Procs, start(p) \/ stop(p) \/ Step(p)
      PROVE  mount_fs(p) \/ umount_fs(p) \/ UNCHANGED <<mounted, keyfs_on>>
  BY <1>5 DEF start, stop, Command, Step, crypttab_line, setup, open, check, close_unf,
     do_swap, mkswap, do_tmp, finalize_device, mount, stop_umount, stop_line, do_close,
     Goto, Exit, Retry
<1>6. CASE Use \/ Release
  BY <1>3, <1>6 DEF Use, Release, procs
<1> QED  BY <1>1, <1>2, <1>3, <1>4, <1>5, <1>6 DEF Next

\* Any number of processes, also of types whose commands overlap: the filesystem with
\* the keys is there until the process that has mounted it unmounts it (L465-483).
THEOREM KeyFsStays == Spec => []KeyFsKept
<1>1. Init => KeyFsInv  BY DEF Init, KeyFsInv, KeyFsKept
<1>2. KeyFsInv => KeyFsKept  BY DEF KeyFsInv
<1> QED  BY <1>1, <1>2, KeyFsNext, PTL DEF Spec

-----------------------------------------------------------------------------
(* What the source holds.                                                  *)

\* A type with a header is opened by the right key only, so its mapping shows what
\* the source holds, and mkswap runs on what do_swap has found blank or swap.
KeepInv ==
  opts.type # "plain" =>
    /\ unf # NoMapping => unf.right /\ unf.shows = stored
    /\ fin # NoMapping => fin.right
    /\ \A p \in Procs : pc[p] = "mkswap" =>
         unf # NoMapping /\ unf.shows \in {"blank", "swap"}

\* A step that moves nobody to mkswap and leaves the source and its first mapping.
LEMMA KeepElsewhere ==
  ASSUME KeepInv, UNCHANGED <<opts, unf, stored>>, fin' \in {fin, NoMapping},
         \A p \in Procs : pc'[p] = "mkswap" =>
           pc[p] = "mkswap" \/ (unf # NoMapping /\ unf.shows \in {"blank", "swap"})
  PROVE  KeepInv'
  BY DEF KeepInv

LEMMA RightKept ==
  ASSUME NEW m \in Mapping, NEW c \in Shown
  PROVE  /\ [m EXCEPT !.passed = TRUE].right = m.right
         /\ [m EXCEPT !.passed = TRUE].shows = m.shows
         /\ [m EXCEPT !.shows = c].right = m.right
         /\ [m EXCEPT !.shows = c].shows = c
  BY DEF Mapping

\* Where a process comes to that is not about to make swap.
LEMMA RetryPlaces ==
  ASSUME OInv, NEW p \in Procs, NEW q \in Procs,
         Retry(p) \/ (\E l \in Locations : l # "mkswap" /\ Goto(p, l)) \/ Exit(p),
         pc'[q] = "mkswap"
  PROVE  q # p /\ pc[q] = "mkswap"
  BY DEF OInv, TypeOK, ProcsTyped, Retry, Goto, Exit, Locations

\* The steps of the owner that change the first mapping or the source.
LEMMA KeepOwner ==
  ASSUME "plain" \notin Overlapping, OInv, KeepInv, NEW p \in Procs,
         open(p) \/ check(p) \/ close_unf(p) \/ mkswap(p) \/ do_tmp(p) \/ finalize_device(p)
  PROVE  KeepInv'
<1> SUFFICES ASSUME opts.type # "plain", UNCHANGED opts PROVE KeepInv'
  BY DEF KeepInv, open, check, close_unf, mkswap, do_tmp, finalize_device
<1>1. /\ unf # NoMapping => unf \in Mapping /\ unf.right /\ unf.shows = stored
      /\ fin # NoMapping => fin \in Mapping /\ fin.right
      /\ stored \in Shown
      /\ \A q \in Procs : pc[q] = "mkswap" => unf # NoMapping /\ unf.shows \in {"blank", "swap"}
  BY DEF KeepInv, OInv, TypeOK, DiskTyped
<1>2. ASSUME pc[p] \in Owning, NEW q \in Procs, pc[q] = "mkswap"
      PROVE  q = p
  BY <1>2, OneOwner DEF Owning
<1>3. ASSUME \E l \in Locations : l # "mkswap" /\ Goto(p, l), NEW q \in Procs, pc'[q] = "mkswap"
      PROVE  q # p /\ pc[q] = "mkswap"
  BY <1>3, RetryPlaces
<1>4. CASE open(p)
  <2>1. PICK right \in BOOLEAN :
          unf' = IF Opens(right) THEN NewMapping(p, right) ELSE unf
    BY <1>4 DEF open
  <2>2. UNCHANGED <<fin, stored>>  BY <1>4 DEF open
  <2>3. \A q \in Procs : pc'[q] = "mkswap" => pc[q] = "mkswap"
    BY <1>4, RetryPlaces DEF open, Locations, Owning
  <2>4. CASE Opens(right)
    <3>1. right /\ unf = NoMapping /\ unf' = NewMapping(p, right)
      BY <2>1, <2>4 DEF Opens
    <3>2. unf'.right /\ unf'.shows = stored  BY <3>1 DEF NewMapping
    <3> QED  BY <1>1, <2>2, <2>3, <3>1, <3>2 DEF KeepInv
  <2>5. CASE ~ Opens(right)
    BY <2>1, <2>2, <2>3, <2>5, KeepElsewhere
  <2> QED  BY <2>4, <2>5
<1>5. CASE check(p)
  <2>1. UNCHANGED <<fin, stored>> /\ \A q \in Procs : pc'[q] = "mkswap" => pc[q] = "mkswap"
    BY <1>3, <1>5 DEF check, Locations, Owning
  <2>2. CASE UNCHANGED unf
    BY <2>1, <2>2, KeepElsewhere
  <2>3. CASE unf # NoMapping /\ unf' = [unf EXCEPT !.passed = TRUE]
    <3>1. unf'.right = unf.right /\ unf'.shows = unf.shows /\ unf' # NoMapping
      BY <1>1, <2>3, RightKept, PassedTyped
    <3> QED  BY <1>1, <2>1, <2>3, <3>1 DEF KeepInv
  <2> QED  BY <1>5, <2>2, <2>3 DEF check
<1>6. CASE close_unf(p)
  <2>1. unf' \in {NoMapping, unf} /\ UNCHANGED <<fin, stored>> /\ pc[p] \in Owning
    BY <1>6 DEF close_unf, Owning
  <2>2. \A q \in Procs : pc'[q] # "mkswap"
    BY <1>2, <1>6, <2>1, RetryPlaces DEF close_unf, Locations
  <2> QED  BY <1>1, <2>1, <2>2 DEF KeepInv
<1>7. CASE mkswap(p) \/ do_tmp(p)
  <2>1. pc[p] \in Owning /\ UNCHANGED fin  BY <1>7 DEF mkswap, do_tmp, Owning
  <2>2. \A q \in Procs : pc'[q] # "mkswap"
    BY <1>2, <1>3, <1>7, <2>1 DEF mkswap, do_tmp, Locations, Owning
  <2>3. PICK c \in Shown : Make(c) \/ UNCHANGED <<unf, stored>>
    BY <1>7 DEF mkswap, do_tmp, Shown
  <2>4. CASE unf # NoMapping /\ Make(c)
    <3>1. unf' = [unf EXCEPT !.shows = c] /\ stored' = c
      BY <1>1, <2>4 DEF Make
    <3>2. unf'.right /\ unf'.shows = stored'
      BY <1>1, <2>4, <3>1, RightKept
    <3> QED  BY <1>1, <2>1, <2>2, <3>2 DEF KeepInv
  <2>5. CASE UNCHANGED <<unf, stored>>
    BY <2>1, <2>2, <2>5, KeepElsewhere
  <2> QED  BY <2>3, <2>4, <2>5 DEF Make
<1>8. CASE finalize_device(p)
  <2>1. pc[p] \in Owning /\ UNCHANGED stored
    BY <1>8 DEF finalize_device, Owning
  <2>2. \A q \in Procs : pc'[q] # "mkswap"
    BY <1>2, <1>3, <1>8, <2>1 DEF finalize_device, Locations
  <2> QED  BY <1>1, <1>8, <2>1, <2>2 DEF finalize_device, KeepInv
<1> QED  BY <1>4, <1>5, <1>6, <1>7, <1>8

LEMMA KeepNext ==
  ASSUME "plain" \notin Overlapping, OInv, KeepInv, [Next]_vars
  PROVE  KeepInv'
<1>1. ASSUME NEW p \in Procs, start(p) \/ stop(p)
      PROVE  KeepInv'
  <2>1. PICK c, l : Command(p, c, l) /\ l # "mkswap"
    BY <1>1 DEF start, stop
  <2>2. \A q \in Procs : pc'[q] = "mkswap" => pc[q] = "mkswap"
    BY <2>1 DEF Command, OInv, TypeOK, ProcsTyped
  <2> QED  BY <2>1, <2>2, KeepElsewhere DEF Command, disk
<1>2. ASSUME NEW p \in Procs,
             \/ mount_fs(p) \/ crypttab_line(p) \/ setup(p) \/ umount_fs(p)
             \/ mount(p) \/ stop_umount(p) \/ stop_line(p) \/ do_close(p)
      PROVE  KeepInv'
  <2>1. UNCHANGED <<opts, unf, stored>> /\ fin' \in {fin, NoMapping}
    BY <1>2 DEF mount_fs, crypttab_line, setup, umount_fs, mount, stop_umount,
       stop_line, do_close, Closed, disk
  <2>2. \E l : l # "mkswap" /\ pc' = [pc EXCEPT ![p] = l]
    BY <1>2 DEF mount_fs, crypttab_line, setup, umount_fs, mount, stop_umount,
       stop_line, do_close, Goto, Exit
  <2>3. \A q \in Procs : pc'[q] = "mkswap" => pc[q] = "mkswap"
    BY <2>2 DEF OInv, TypeOK, ProcsTyped
  <2> QED  BY <2>1, <2>3, KeepElsewhere
<1>3. ASSUME NEW p \in Procs, do_swap(p)
      PROVE  KeepInv'
  <2>1. UNCHANGED <<opts, unf, stored>> /\ fin' \in {fin, NoMapping}
    BY <1>3 DEF do_swap, Closed
  <2>2. ASSUME NEW q \in Procs, pc'[q] = "mkswap"
        PROVE  pc[q] = "mkswap" \/ (unf # NoMapping /\ unf.shows \in {"blank", "swap"})
    BY <1>3, <2>2 DEF do_swap, Goto, OInv, TypeOK, ProcsTyped
  <2> QED  BY <2>1, <2>2, KeepElsewhere
<1>4. CASE Use
  <2>1. unf = NoMapping /\ fin \in Mapping /\ UNCHANGED <<opts, pc, unf>>
    BY <1>4 DEF Use, OInv, Mapped, TypeOK, DiskTyped, procs
  <2>2. fin'.right = fin.right
    <3>1. CASE fin' = [fin EXCEPT !.shows = "data"]
      <4>1. "data" \in Shown  BY DEF Shown
      <4> QED  BY <2>1, <3>1, <4>1, RightKept
    <3>2. CASE fin' = fin
      BY <3>2
    <3> QED  BY <1>4, <3>1, <3>2 DEF Use
  <2> QED  BY <1>4, <2>1, <2>2 DEF KeepInv, Use
<1>5. CASE Release \/ UNCHANGED vars
  BY <1>5, KeepElsewhere DEF Release, vars, procs, disk
<1> QED  BY <1>1, <1>2, <1>3, <1>4, <1>5, KeepOwner DEF Next, Step

\* Any number of processes, entries and tries: what a source of type luks or tcrypt
\* holds is overwritten for entries with tmp only, whatever runs beside (L486-517).
THEOREM DataStays == ASSUME "plain" \notin Overlapping PROVE Spec => DataKept
<1>1. Init => KeepInv
  BY DEF Init, KeepInv
<1>2. OInv /\ KeepInv /\ [Next]_vars => KeepInv'
  BY KeepNext
<1>3. ASSUME OInv, KeepInv, [Next]_vars
      PROVE  [stored = "data" /\ stored' # "data" => opts.tmp \/ opts.type = "plain"]_vars
  <2> SUFFICES ASSUME Next, stored = "data", stored' # "data",
                      ~ opts.tmp, opts.type # "plain"
               PROVE  FALSE
    BY <1>3
  <2>1. CASE \E p \in Procs : mkswap(p)
    <3>1. PICK p \in Procs : mkswap(p)  BY <2>1
    <3> QED  BY <1>3, <3>1 DEF mkswap, KeepInv
  <2>2. CASE Use
    BY <1>3, <2>2 DEF Use, KeepInv
  <2>3. CASE \E p \in Procs : do_tmp(p)
    BY <2>3 DEF do_tmp
  <2>4. ASSUME NEW p \in Procs, start(p) \/ stop(p) \/ Step(p), ~ mkswap(p), ~ do_tmp(p)
        PROVE  UNCHANGED stored
    BY <2>4 DEF start, stop, Command, Step, mount_fs, crypttab_line, setup, open, check,
       close_unf, do_swap, finalize_device, umount_fs, mount, stop_umount, stop_line,
       do_close, disk
  <2> QED  BY <2>1, <2>2, <2>3, <2>4 DEF Next, Release
<1> QED  BY <1>1, <1>2, <1>3, OInvAlways, PTL DEF Spec, DataKept

=============================================================================
