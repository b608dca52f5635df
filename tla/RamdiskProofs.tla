---------------------------- MODULE RamdiskProofs ----------------------------
(***************************************************************************)
(* What the initial ramdisk keeps for any number of disks, handlers and    *)
(* uevents.  At most one handler is between mdlock and mdunlock, up to and *)
(* after the moment switch_root deletes the lock with the rest of the      *)
(* ramdisk.  While no handler calls mdadm as /init does, the RAID set      *)
(* stays in one piece, and between the scan at boot and the uevents no     *)
(* device and no member of the set is overlooked.  When one does, mdadm    *)
(* makes two arrays of the set, never a third.                             *)
(***************************************************************************)
EXTENDS RamdiskBoot, SequenceTheorems, TLAPS

-----------------------------------------------------------------------------
(* The lock directory.                                                     *)

\* The locations are a function of the handlers, which the argument needs.
LockInv == hpc \in [Handlers -> HandlerLocations] /\ HandlersSerial

\* Nobody moves into or within the critical section, or gives up the lock.
LEMMA Quiet ==
  ASSUME LockInv,
         hpc' \in [Handlers -> HandlerLocations],
         \A h \in Handlers : hpc'[h] \in Holding => hpc[h] \in Holding,
         lock' = lock \/ pc' = "switched",
         pc = "switched" => pc' = "switched"
  PROVE  LockInv'
  BY DEF LockInv, HandlersSerial, switched

\* A uevent only turns a handler that is not running into one about to make
\* its node.
LEMMA UeventEffect ==
  ASSUME NEW hp \in [Handlers -> HandlerLocations], NEW a, NEW d, Uevent(hp, a, d)
  PROVE  /\ hpc' \in [Handlers -> HandlerLocations]
         /\ \A h \in Handlers : hpc'[h] \in Holding => hpc'[h] = hp[h]
  BY DEF Uevent, HandlerLocations, Holding

\* Leaving the md driver's part of a step with the handlers at hp.
LEMMA MdEffect ==
  ASSUME NEW hp \in [Handlers -> HandlerLocations], NEW D, NEW r, NEW n,
         CreateArray(D, r, hp) \/ JoinArray(n, D, r, hp) \/ NothingToAdd(hp)
  PROVE  /\ hpc' \in [Handlers -> HandlerLocations]
         /\ \A h \in Handlers : hpc'[h] \in Holding => hpc'[h] = hp[h]
  BY UeventEffect DEF CreateArray, JoinArray, NothingToAdd

LEMMA HandlerStep ==
  ASSUME LockInv, NEW h \in Handlers, Handler(h)
  PROVE  LockInv'
<1> USE DEF HStep, HGoto, ivars
<1>0. hpc \in [Handlers -> HandlerLocations]
  BY DEF LockInv
<1>1. CASE h_node(h)
  <2>1. /\ hpc' \in [Handlers -> HandlerLocations]
        /\ \A k \in Handlers : hpc'[k] \in Holding => hpc[k] \in Holding
    BY <1>0, <1>1 DEF h_node, HandlerLocations, LockLocations, Holding
  <2> QED
    BY <1>1, <2>1, Quiet DEF h_node
<1>2. CASE h_blkid(h)
  <2>1. /\ hpc' \in [Handlers -> HandlerLocations]
        /\ \A k \in Handlers : hpc'[k] \in Holding => hpc[k] \in Holding
    BY <1>0, <1>2 DEF h_blkid, HandlerLocations, LockLocations, Holding
  <2> QED
    BY <1>2, <2>1, Quiet DEF h_blkid
<1>3. CASE mdlock(h)
  <2>1. \A k \in Handlers : hpc[k] \notin Holding
    BY <1>3 DEF mdlock, LockInv, HandlersSerial
  <2>2. lock' /\ hpc' \in [Handlers -> HandlerLocations]
    BY <1>0, <1>3 DEF mdlock, Locked, LockLocations, HandlerLocations, Holding
  <2>3. \A k \in Handlers : hpc'[k] \in Holding => k = h
    BY <1>0, <1>3, <2>1 DEF mdlock
  <2> QED
    BY <2>2, <2>3 DEF LockInv, HandlersSerial
<1>4. CASE h_run(h)
  <2>1. /\ hpc' \in [Handlers -> HandlerLocations]
        /\ \A k \in Handlers : hpc'[k] \in Holding => hpc[k] \in Holding
    BY <1>0, <1>4 DEF h_run, HandlerLocations, Holding
  <2> QED
    BY <1>4, <2>1, Quiet DEF h_run
<1>5. CASE h_inc(h)
  <2>1. /\ hpc' \in [Handlers -> HandlerLocations]
        /\ \A k \in Handlers : hpc'[k] \in Holding => hpc[k] \in Holding
    BY <1>0, <1>5 DEF h_inc, HandlerLocations, Holding
  <2> QED
    BY <1>5, <2>1, Quiet DEF h_inc
<1>6. CASE h_adding(h)
  <2> DEFINE next == HGoto(h, "unlock_inc")
  <2>1. next \in [Handlers -> HandlerLocations]
    BY <1>0 DEF HandlerLocations, Holding
  <2>2. \A k \in Handlers : next[k] \in Holding => hpc[k] \in Holding
    BY <1>0, <1>6 DEF h_adding, Holding
  <2> HIDE DEF next
  <2>3. /\ hpc' \in [Handlers -> HandlerLocations]
        /\ \A k \in Handlers : hpc'[k] \in Holding => hpc'[k] = next[k]
    BY <1>6, <2>1, MdEffect DEF h_adding, next
  <2> QED
    BY <1>6, <2>2, <2>3, Quiet DEF h_adding
<1>7. CASE mdunlock(h)
  <2>1. hpc[h] \in Holding /\ hpc' = [hpc EXCEPT ![h] = "none"] /\ pc' = pc
    BY <1>7 DEF mdunlock, Holding
  <2>2. \A k \in Handlers : hpc'[k] \notin Holding
    BY <1>0, <2>1 DEF LockInv, HandlersSerial, Holding
  <2>3. hpc' \in [Handlers -> HandlerLocations]
    BY <1>0, <2>1 DEF HandlerLocations
  <2> QED
    BY <2>2, <2>3 DEF LockInv, HandlersSerial
<1> QED
  BY <1>1, <1>2, <1>3, <1>4, <1>5, <1>6, <1>7 DEF Handler

LEMMA InitScriptStep == LockInv /\ InitScript => LockInv'
<1> SUFFICES ASSUME LockInv, InitScript PROVE LockInv'
  OBVIOUS
<1>0. hpc \in [Handlers -> HandlerLocations]
  BY DEF LockInv
<1>1. CASE assembling
  <2>1. /\ hpc' \in [Handlers -> HandlerLocations]
        /\ \A k \in Handlers : hpc'[k] \in Holding => hpc'[k] = hpc[k]
    BY <1>0, <1>1, MdEffect DEF assembling
  <2> QED
    BY <1>1, <2>1, Quiet DEF assembling
<1>2. CASE ~ assembling
  <2>1. hpc' = hpc
    BY <1>2 DEF InitScript, activate_hotplug, open_diskstats, mknod_existing,
       assemble, modprobe_and_cmdline, wait_for_root, Waits, settle,
       disable_hotplug, switch_root, hvars
  <2>2. pc # "switched" /\ (lock' = lock \/ pc' = "switched")
    BY <1>2 DEF InitScript, activate_hotplug, open_diskstats, mknod_existing,
       assemble, modprobe_and_cmdline, wait_for_root, Waits, settle,
       disable_hotplug, switch_root, IGoto
  <2> QED
    BY <1>0, <2>1, <2>2, Quiet
<1> QED
  BY <1>1, <1>2

LEMMA KernelStep == LockInv /\ Kernel => LockInv'
<1> SUFFICES ASSUME LockInv, Kernel PROVE LockInv'
  OBVIOUS
<1>1. hpc \in [Handlers -> HandlerLocations]
  BY DEF LockInv
<1>2. /\ hpc' \in [Handlers -> HandlerLocations]
      /\ \A k \in Handlers : hpc'[k] \in Holding => hpc'[k] = hpc[k]
  BY <1>1, UeventEffect DEF Kernel, DiskAppears, DiskChanges, DiskRemoved
<1>3. UNCHANGED <<pc, lock>>
  BY DEF Kernel, DiskAppears, DiskChanges, DiskRemoved, ivars
<1> QED
  BY <1>2, <1>3, Quiet

LEMMA LockNext == LockInv /\ [Next]_vars => LockInv'
<1> SUFFICES ASSUME LockInv, [Next]_vars PROVE LockInv'
  OBVIOUS
<1>1. CASE UNCHANGED vars
  BY <1>1 DEF LockInv, HandlersSerial, switched, vars, ivars, hvars
<1> QED  BY <1>1, HandlerStep, InitScriptStep, KernelStep DEF Next

\* hotplug:10-19: handlers run mdadm one at a time, under the lock.
THEOREM MdlockExcludes == Spec => []HandlersSerial
<1>1. Init => LockInv
  BY DEF Init, LockInv, HandlersSerial, HandlerLocations, Holding
<1>2. LockInv => HandlersSerial
  BY DEF LockInv
<1> QED
  BY <1>1, <1>2, LockNext, PTL DEF Spec

-----------------------------------------------------------------------------
(* Types.                                                                  *)

ArrayType == [mem : SUBSET Members, run : BOOLEAN]

InitTyped ==
  /\ pc \in InitLocations /\ todo \subseteq Devices /\ found \subseteq Members
  /\ timeout \in -5..Counter /\ elapsed \in Nat /\ hotplug \in BOOLEAN

HandlersTyped ==
  /\ seqnum \in 0..MaxUevents
  /\ ev \in [Handlers -> Event \cup {NoEvent}]
  /\ hpc \in [Handlers -> HandlerLocations]

\* At most one array, where TypeOK has two.
MdTyped ==
  /\ arrays \in Seq(ArrayType) /\ Len(arrays) <= 1
  /\ rejected \subseteq Members

SawTyped == saw \in [{0} \cup Handlers -> 0..2]

DevicesTyped == present \subseteq Devices /\ nodes \subseteq Devices /\ lock \in BOOLEAN

Typed == InitTyped /\ HandlersTyped /\ MdTyped /\ SawTyped /\ DevicesTyped

LEMMA TypedIsTypeOK == Typed /\ overtaken \subseteq Disks => TypeOK /\ SingleArray
BY DEF Typed, InitTyped, HandlersTyped, MdTyped, SawTyped, DevicesTyped, TypeOK,
   ArrayType, SingleArray

\* Only disks come back.
LEMMA OvertakenTyped == Spec => [](overtaken \subseteq Disks)
<1>1. Init => overtaken \subseteq Disks  BY DEF Init
<1>2. overtaken \subseteq Disks /\ [Next]_vars => (overtaken \subseteq Disks)'
  BY DEF Next, vars, InitScript, Handler, Kernel, DiskAppears, DiskChanges, DiskRemoved
<1> QED  BY <1>1, <1>2, PTL DEF Spec

-----------------------------------------------------------------------------
(* What the parts of a step do.                                            *)

\* A uevent starts one handler more, if hotplug is active.
LEMMA UeventStarts ==
  ASSUME HandlersTyped, hotplug \in BOOLEAN,
         NEW hp \in [Handlers -> HandlerLocations],
         NEW a \in {"add", "remove", "change"}, NEW d \in Devices,
         Uevent(hp, a, d)
  PROVE  /\ HandlersTyped'
         /\ \A k \in Handlers :
              \/ hpc'[k] = hp[k] /\ ev'[k] = ev[k]
              \/ /\ hpc[k] = "none" /\ hpc'[k] = "node"
                 /\ ev'[k] = [action |-> a, dev |-> d]
         /\ hotplug => \E k \in Handlers :
              hpc'[k] = "node" /\ ev'[k] = [action |-> a, dev |-> d]
<1> DEFINE e == [action |-> a, dev |-> d]
<1>1. e \in Event  BY DEF Event
<1> HIDE DEF e
<1>2. CASE hotplug
  <2>1. PICK h \in Handlers :
          /\ hpc[h] = "none"
          /\ ev' = [ev EXCEPT ![h] = e] /\ hpc' = [hp EXCEPT ![h] = "node"]
          /\ seqnum' = seqnum + 1 /\ seqnum < MaxUevents
    BY <1>2 DEF Uevent, e
  <2>2. HandlersTyped'
    <3>1. ev' \in [Handlers -> Event \cup {NoEvent}]  BY <1>1, <2>1 DEF HandlersTyped
    <3>2. hpc' \in [Handlers -> HandlerLocations]
      BY <2>1 DEF HandlerLocations
    <3>3. seqnum' \in 0..MaxUevents
      BY <2>1, RamdiskAssumption DEF HandlersTyped
    <3> QED  BY <3>1, <3>2, <3>3 DEF HandlersTyped
  <2>3. hpc'[h] = "node" /\ ev'[h] = e
    BY <2>1 DEF HandlersTyped
  <2>4. \A k \in Handlers : k # h => hpc'[k] = hp[k] /\ ev'[k] = ev[k]
    BY <2>1 DEF HandlersTyped
  <2> QED  BY <2>1, <2>2, <2>3, <2>4 DEF e
<1>3. CASE ~ hotplug
  <2>1. hpc' = hp /\ UNCHANGED <<seqnum, ev>>  BY <1>3 DEF Uevent
  <2> QED  BY <1>3, <2>1 DEF HandlersTyped
<1> QED  BY <1>2, <1>3

\* mdadm leaves one array, with everything it had and the devices of D, but for
\* those it rejects; its handlers go on as hp says, one may be new.
MdStep(D, hp) ==
  /\ HandlersTyped' /\ MdTyped'
  /\ present \subseteq present' /\ present' \subseteq Devices
  /\ present' \cap Members = present \cap Members
  /\ present' \cap Disks = present \cap Disks
  /\ \A k \in Handlers :
       \/ hpc'[k] = hp[k] /\ ev'[k] = ev[k]
       \/ /\ hpc[k] = "none" /\ hpc'[k] = "node"
          /\ ev'[k] = [action |-> "add", dev |-> MdNames[1]]
  /\ \A d \in present' \ present : hotplug => \E k \in Handlers :
       hpc'[k] = "node" /\ ev'[k] = [action |-> "add", dev |-> d]
  /\ \A d \in Members :
       InArray(d) \/ d \in rejected \/ d \in D => (InArray(d) \/ d \in rejected)'

LEMMA NothingStep ==
  ASSUME HandlersTyped, MdTyped, DevicesTyped, NEW hp \in [Handlers -> HandlerLocations],
         NEW D, \A d \in D : InArray(d), NothingToAdd(hp)
  PROVE  MdStep(D, hp)
<1>1. hpc' = hp /\ UNCHANGED <<seqnum, ev, arrays, present, rejected>>
  BY DEF NothingToAdd
<1>2. \A d : InArray(d)' = InArray(d)  BY <1>1 DEF InArray
<1> QED  BY <1>1, <1>2 DEF MdStep, HandlersTyped, MdTyped, DevicesTyped

LEMMA CreateStep ==
  ASSUME HandlersTyped, MdTyped, DevicesTyped, hotplug \in BOOLEAN,
         NEW hp \in [Handlers -> HandlerLocations],
         NEW D \in SUBSET Members, NEW running \in BOOLEAN, arrays = <<>>,
         CreateArray(D, running, hp)
  PROVE  MdStep(D, hp) /\ Len(arrays') = 1
<1> DEFINE r == [mem |-> D, run |-> running]
           m == MdNames[1]
<1>1. r \in ArrayType /\ r.mem = D  BY DEF ArrayType
<1>2. m \in Devices /\ m \notin Members
  BY RamdiskAssumption DEF Devices
<1>3. /\ arrays' = <<r>> /\ present' = present \cup {m} /\ UNCHANGED rejected
      /\ Uevent(hp, "add", m)
  <2>1. Len(arrays) + 1 = 1 /\ Append(arrays, r) = <<r>>  OBVIOUS
  <2> QED  BY <2>1 DEF CreateArray
<1> HIDE DEF r, m
<1>4. /\ arrays' \in Seq(ArrayType) /\ Len(arrays') = 1 /\ arrays'[1] = r
  BY <1>1, <1>3
<1>5. \A d \in D : InArray(d)'
  BY <1>1, <1>4 DEF InArray
<1>6. \A d : ~ InArray(d)  BY DEF InArray
<1>7. HandlersTyped'
      /\ (\A k \in Handlers :
              \/ hpc'[k] = hp[k] /\ ev'[k] = ev[k]
              \/ /\ hpc[k] = "none" /\ hpc'[k] = "node"
                 /\ ev'[k] = [action |-> "add", dev |-> m])
      /\ (hotplug => \E k \in Handlers :
              hpc'[k] = "node" /\ ev'[k] = [action |-> "add", dev |-> m])
  BY <1>2, <1>3, UeventStarts
<1>8. MdTyped'  BY <1>3, <1>4 DEF MdTyped
<1> QED
  BY <1>2, <1>3, <1>4, <1>5, <1>6, <1>7, <1>8, RamdiskAssumption
  DEF MdStep, DevicesTyped, m

LEMMA JoinStep ==
  ASSUME HandlersTyped, MdTyped, DevicesTyped,
         NEW hp \in [Handlers -> HandlerLocations],
         NEW n \in 1..Len(arrays), NEW D \in SUBSET Members, NEW running \in BOOLEAN,
         JoinArray(n, D, running, hp)
  PROVE  MdStep(D, hp) /\ Len(arrays') = Len(arrays)
<1>1. PICK T \in SUBSET D :
        /\ arrays' = [arrays EXCEPT ![n].mem = @ \cup T,
                                    ![n].run = @ \/ (T # {} /\ running)]
        /\ rejected' = (rejected \cup D) \ T
  BY DEF JoinArray
<1>2. hpc' = hp /\ UNCHANGED <<seqnum, ev, present>>  BY DEF JoinArray
<1>3. n = 1 /\ Len(arrays) = 1 /\ arrays \in Seq(ArrayType)
  <2>1. arrays \in Seq(ArrayType) /\ Len(arrays) <= 1  BY DEF MdTyped
  <2> DEFINE N == Len(arrays)
  <2>2. N \in Nat  BY <2>1, LenProperties
  <2>3. n \in 1..N /\ N <= 1  BY <2>1
  <2> HIDE DEF N
  <2>4. n = 1 /\ N = 1  BY <2>2, <2>3
  <2> QED  BY <2>1, <2>4 DEF N
<1> DEFINE r == arrays[1]
           q == [r EXCEPT !.mem = @ \cup T, !.run = @ \/ (T # {} /\ running)]
<1>4. r \in ArrayType
  <2>1. 1 \in 1..Len(arrays) /\ arrays \in Seq(ArrayType)  BY <1>3
  <2> QED  BY <2>1, ElementOfSeq
<1>5. q \in ArrayType /\ q.mem = r.mem \cup T
  BY <1>4 DEF ArrayType
<1>6. arrays' = [arrays EXCEPT ![1] = q]
  BY <1>1, <1>3
<1> HIDE DEF r, q
<1>7. arrays' \in Seq(ArrayType) /\ Len(arrays') = 1 /\ arrays'[1] = q
  <2>1. 1 \in 1..Len(arrays) /\ arrays \in Seq(ArrayType)  BY <1>3
  <2> DEFINE a == [arrays EXCEPT ![1] = q]
  <2>2. a \in Seq(ArrayType) /\ Len(a) = Len(arrays) /\ a[1] = q
    BY <1>5, <2>1, ExceptSeq
  <2> QED  BY <1>3, <1>6, <2>2
<1>8. \A d : InArray(d)' <=> InArray(d) \/ d \in T
  BY <1>3, <1>5, <1>7 DEF InArray, r
<1>9. MdTyped' /\ HandlersTyped'
  BY <1>1, <1>2, <1>7 DEF MdTyped, HandlersTyped
<1> QED  BY <1>1, <1>2, <1>3, <1>7, <1>8, <1>9 DEF MdStep, DevicesTyped

\* A step of one handler.
LEMMA HandlerMoves ==
  ASSUME HandlersTyped, NEW h \in Handlers, NEW l \in HandlerLocations, HStep(h, l)
  PROVE  /\ HandlersTyped'
         /\ \A k \in Handlers : k # h => hpc'[k] = hpc[k] /\ ev'[k] = ev[k]
         /\ hpc'[h] = l /\ (l # "none" => ev'[h] = ev[h])
BY DEF HandlersTyped, HStep, HGoto

\* mdadm --run changes no members.
LEMMA RunKeeps ==
  ASSUME arrays \in Seq(ArrayType), NEW h \in Handlers, h_run(h)
  PROVE  /\ arrays' \in Seq(ArrayType) /\ Len(arrays') = Len(arrays)
         /\ rejected' = rejected
         /\ \A n \in 1..Len(arrays) : arrays'[n].mem = arrays[n].mem
<1> DEFINE N == Len(arrays)
           e(n) == IF /\ MdNames[n] = ev[h].dev
                      /\ Cardinality(arrays[n].mem) >= Enough
                   THEN [arrays[n] EXCEPT !.run = TRUE] ELSE arrays[n]
<1>1. N \in Nat
  BY LenProperties
<1>2. \A n \in 1..N : e(n) \in ArrayType /\ e(n).mem = arrays[n].mem
  <2> TAKE n \in 1..N
  <2>1. arrays[n] \in ArrayType  BY <1>1, ElementOfSeq
  <2>2. [arrays[n] EXCEPT !.run = TRUE] \in ArrayType
        /\ [arrays[n] EXCEPT !.run = TRUE].mem = arrays[n].mem
    BY <2>1 DEF ArrayType
  <2> QED  BY <2>1, <2>2
<1>3. arrays' = [n \in 1..N |-> e(n)]  BY DEF h_run
<1> HIDE DEF e, N
<1>4. arrays' \in [1..N -> ArrayType] /\ \A n \in 1..N : arrays'[n].mem = arrays[n].mem
  BY <1>2, <1>3
<1>5. arrays' \in Seq(ArrayType) /\ Len(arrays') = N
  BY <1>1, <1>4
<1>6. rejected' = rejected  BY DEF h_run
<1> QED  BY <1>4, <1>5, <1>6 DEF N

LEMMA RunStep ==
  ASSUME MdTyped, NEW h \in Handlers, h_run(h)
  PROVE  MdTyped' /\ Len(arrays') = Len(arrays) /\ \A d : InArray(d)' = InArray(d)
<1>1. /\ arrays' \in Seq(ArrayType) /\ Len(arrays') = Len(arrays) /\ rejected' = rejected
      /\ \A n \in 1..Len(arrays) : arrays'[n].mem = arrays[n].mem
  BY RunKeeps DEF MdTyped
<1> QED  BY <1>1 DEF MdTyped, InArray

-----------------------------------------------------------------------------
(* The array is seen rightly by whoever is about to change it.             *)

\* Events are of devices the scripts expect.
EvInv == \A h \in Handlers : hpc[h] # "none" =>
  /\ ev[h] \in Event
  /\ ev[h].action = "remove" => ev[h].dev \in Removable
  /\ hpc[h] \in {"lock_inc", "inc", "adding"} => ev[h].dev \in Members

\* The mdadm of /init has the arrays for itself.
Alone == pc = "assembling" => \A h \in Handlers : hpc[h] \notin Holding

SawInv ==
  /\ pc = "assembling" => Sees(saw[0])
  /\ \A h \in Handlers : hpc[h] = "adding" => Sees(saw[h])

HotInv == hotplug => pc \notin {"hotplug", "switch", "switched"}

Core == Typed /\ HandlersSerial /\ EvInv /\ Alone /\ SawInv /\ HotInv

LEMMA SeesOne ==
  ASSUME MdTyped, NEW n, Sees(n)
  PROVE  (n = 0 /\ arrays = <<>>) \/ (n = 1 /\ Len(arrays) = 1)
<1> DEFINE N == Len(arrays)
<1>1. arrays \in Seq(ArrayType) /\ N \in Nat /\ N <= 1
  BY LenProperties DEF MdTyped
<1>2. arrays # <<>> => N # 0  BY <1>1, EmptySeq
<1>3. IF arrays = <<>> THEN n = 0 ELSE n \in 1..N  BY DEF Sees
<1> HIDE DEF N
<1>4. CASE arrays = <<>>
  <2>1. n = 0  BY <1>4 DEF Sees
  <2> QED  BY <1>4, <2>1
<1>5. CASE arrays # <<>>
  <2>1. N = 1 /\ n = 1  BY <1>1, <1>2, <1>3, <1>5
  <2> QED  BY <2>1 DEF N
<1> QED  BY <1>4, <1>5

\* A handler adds its device.
LEMMA AddingStep ==
  ASSUME Core, NEW h \in Handlers, h_adding(h)
  PROVE  MdStep({ev[h].dev}, HGoto(h, "unlock_inc"))
         /\ HGoto(h, "unlock_inc") \in [Handlers -> HandlerLocations]
<1> DEFINE d == ev[h].dev
           next == HGoto(h, "unlock_inc")
<1>1. next \in [Handlers -> HandlerLocations]
  BY DEF Core, Typed, HandlersTyped, HGoto, HandlerLocations, Holding
<1>2. hpc[h] = "adding" /\ d \in Members /\ Sees(saw[h])
  BY DEF h_adding, Core, EvInv, SawInv
<1> DEFINE r0 == {d} = Members
           r1 == arrays[saw[h]].mem \cup {d} = Members
<1>3. \/ (\A x \in {d} : InArray(x)) /\ NothingToAdd(next)
      \/ saw[h] = 0 /\ CreateArray({d}, r0, next)
      \/ saw[h] # 0 /\ JoinArray(saw[h], {d}, r1, next)
  BY DEF h_adding
<1>4. r0 \in BOOLEAN /\ r1 \in BOOLEAN  OBVIOUS
<1>5. HandlersTyped /\ MdTyped /\ DevicesTyped /\ hotplug \in BOOLEAN
  BY DEF Core, Typed, InitTyped
<1> HIDE DEF next, d, r0, r1
<1>6. {d} \in SUBSET Members  BY <1>2
<1>7. MdStep({d}, next)
  <2>1. CASE (\A x \in {d} : InArray(x)) /\ NothingToAdd(next)
    BY <1>1, <1>5, <2>1, NothingStep DEF MdStep
  <2>2. CASE saw[h] = 0 /\ CreateArray({d}, r0, next)
    <3>1. arrays = <<>>  BY <1>2, <1>5, <2>2, SeesOne
    <3> QED  BY <1>1, <1>4, <1>5, <1>6, <2>2, <3>1, CreateStep, ZenonT(60)
         DEF MdStep
  <2>3. CASE saw[h] # 0 /\ JoinArray(saw[h], {d}, r1, next)
    <3>1. saw[h] = 1 /\ Len(arrays) = 1  BY <1>2, <1>5, <2>3, SeesOne
    <3>2. saw[h] \in 1..Len(arrays)  BY <3>1
    <3> QED  BY <1>1, <1>4, <1>5, <1>6, <2>3, <3>2, JoinStep, ZenonT(60)
         DEF MdStep
  <2> QED  BY <1>3, <2>1, <2>2, <2>3
<1> QED  BY <1>1, <1>7 DEF d, next

\* /init adds what it has found.
LEMMA AssemblingStep ==
  ASSUME Core, assembling
  PROVE  \E D \in SUBSET Members : MdStep(D, hpc) /\ \A d \in found : InArray(d) \/ d \in D
<1> DEFINE D == {d \in found : ~ InArray(d)}
           r0 == Cardinality(D) >= Enough
           r1 == Cardinality(arrays[saw[0]].mem \cup D) >= Enough
<1>1. D \in SUBSET Members /\ Sees(saw[0])
  BY DEF assembling, Core, Typed, InitTyped, SawInv
<1>2. \/ (\A d \in D : InArray(d)) /\ NothingToAdd(hpc)
      \/ saw[0] = 0 /\ CreateArray(D, r0, hpc)
      \/ saw[0] # 0 /\ JoinArray(saw[0], D, r1, hpc)
  BY DEF assembling
<1>3. r0 \in BOOLEAN /\ r1 \in BOOLEAN  OBVIOUS
<1>4. HandlersTyped /\ MdTyped /\ DevicesTyped /\ hotplug \in BOOLEAN
      /\ hpc \in [Handlers -> HandlerLocations]
  BY DEF Core, Typed, InitTyped, HandlersTyped
<1>5. \A d \in found : InArray(d) \/ d \in D  OBVIOUS
<1> HIDE DEF D, r0, r1
<1>6. MdStep(D, hpc)
  <2>1. CASE (\A d \in D : InArray(d)) /\ NothingToAdd(hpc)
    BY <1>4, <2>1, NothingStep DEF MdStep
  <2>2. CASE saw[0] = 0 /\ CreateArray(D, r0, hpc)
    <3>1. arrays = <<>>  BY <1>1, <1>4, <2>2, SeesOne
    <3> QED  BY <1>1, <1>3, <1>4, <2>2, <3>1, CreateStep, ZenonT(60)
         DEF MdStep
  <2>3. CASE saw[0] # 0 /\ JoinArray(saw[0], D, r1, hpc)
    <3>1. saw[0] = 1 /\ Len(arrays) = 1  BY <1>1, <1>4, <2>3, SeesOne
    <3>2. saw[0] \in 1..Len(arrays)  BY <3>1
    <3> QED  BY <1>1, <1>3, <1>4, <2>3, <3>2, JoinStep, ZenonT(60)
         DEF MdStep
  <2> QED  BY <1>2, <2>1, <2>2, <2>3
<1> QED  BY <1>1, <1>5, <1>6

\* The handlers that are new have just begun.
MovesOn(hp) == \A k \in Handlers :
  \/ hpc'[k] = hp[k] /\ ev'[k] = ev[k]
  \/ hpc'[k] = "none"
  \/ /\ hpc'[k] = "node" /\ ev'[k] \in Event
     /\ ev'[k].action = "remove" => ev'[k].dev \in Removable

LEMMA EvMoves ==
  ASSUME EvInv, NEW hp \in [Handlers -> HandlerLocations],
         \A k \in Handlers : hp[k] # hpc[k] =>
           hpc[k] # "none" /\ (hp[k] \in {"lock_inc", "inc", "adding"} => ev[k].dev \in Members),
         MovesOn(hp)
  PROVE  EvInv'
BY DEF EvInv, MovesOn

LEMMA Keep ==
  ASSUME HandlersTyped, UNCHANGED hvars
  PROVE  HandlersTyped' /\ MovesOn(hpc)
BY DEF HandlersTyped, hvars, MovesOn

LEMMA MdMoves ==
  ASSUME NEW D, NEW hp \in [Handlers -> HandlerLocations], MdStep(D, hp)
  PROVE  MovesOn(hp)
<1>1. [action |-> "add", dev |-> MdNames[1]] \in Event
  BY DEF Event, Devices
<1> QED  BY <1>1 DEF MdStep, MovesOn

LEMMA KernelMoves ==
  ASSUME HandlersTyped, hotplug \in BOOLEAN, Kernel
  PROVE  HandlersTyped' /\ MovesOn(hpc)
<1>0. hpc \in [Handlers -> HandlerLocations]  BY DEF HandlersTyped
<1>1. PICK a \in {"add", "remove", "change"}, d \in Devices :
        Uevent(hpc, a, d) /\ (a = "remove" => d \in Removable)
  <2>1. Disks \subseteq Devices /\ Members \subseteq Disks
    BY RamdiskAssumption DEF Devices
  <2>2. CASE DiskAppears  BY <2>1, <2>2 DEF DiskAppears
  <2>3. CASE DiskChanges  BY <2>1, <2>3 DEF DiskChanges
  <2>4. CASE DiskRemoved
    <3>1. Removable \subseteq Devices  BY <2>1, RamdiskAssumption
    <3> QED  BY <2>4, <3>1 DEF DiskRemoved
  <2> QED  BY <2>2, <2>3, <2>4 DEF Kernel
<1>2. [action |-> a, dev |-> d] \in Event  BY DEF Event
<1>3. HandlersTyped' /\ \A k \in Handlers :
              \/ hpc'[k] = hpc[k] /\ ev'[k] = ev[k]
              \/ /\ hpc[k] = "none" /\ hpc'[k] = "node"
                 /\ ev'[k] = [action |-> a, dev |-> d]
  BY <1>0, <1>1, UeventStarts
<1> QED  BY <1>1, <1>2, <1>3 DEF MovesOn

\* Every step of /init but the two of its mdadm.
LEMMA PlainInit ==
  ASSUME InitTyped, DevicesTyped, InitScript, ~ assembling, ~ assemble
  PROVE  /\ UNCHANGED <<hvars, mdvars, present>> /\ pc' # "assembling" /\ found' = found
         /\ InitTyped' /\ DevicesTyped'
<1>1. UNCHANGED <<hvars, mdvars, present>> /\ pc' # "assembling" /\ found' = found
  BY DEF InitScript, activate_hotplug, open_diskstats, mknod_existing,
     modprobe_and_cmdline, wait_for_root, Waits, settle, disable_hotplug, switch_root,
     IGoto
<1>2. lock' \in BOOLEAN /\ nodes' \subseteq Devices
  BY DEF InitScript, activate_hotplug, open_diskstats, mknod_existing,
     modprobe_and_cmdline, wait_for_root, Waits, settle, disable_hotplug, switch_root,
     IGoto, DevicesTyped, InitTyped
<1>3. pc' \in InitLocations /\ todo' \subseteq Devices /\ hotplug' \in BOOLEAN
  BY DEF InitScript, activate_hotplug, open_diskstats, mknod_existing,
     modprobe_and_cmdline, wait_for_root, Waits, settle, disable_hotplug,
     switch_root, IGoto, InitTyped, InitLocations, DevicesTyped
<1>4. timeout' \in -5..Counter /\ elapsed' \in Nat
  <2>1. CASE wait_for_root
    <3>1. \/ UNCHANGED <<timeout, elapsed>>
          \/ /\ timeout >= 0 /\ timeout' = timeout - 5
             /\ elapsed' \in {elapsed, elapsed + 5}
      BY <2>1 DEF wait_for_root, Waits
    <3> QED  BY <3>1, RamdiskAssumption DEF InitTyped
  <2>2. CASE ~ wait_for_root
    <3>1. UNCHANGED <<timeout, elapsed>>
      BY <2>2 DEF InitScript, activate_hotplug, open_diskstats, mknod_existing,
         modprobe_and_cmdline, settle, disable_hotplug, switch_root, IGoto
    <3> QED  BY <3>1 DEF InitTyped
  <2> QED  BY <2>1, <2>2
<1> QED  BY <1>1, <1>2, <1>3, <1>4 DEF InitTyped, DevicesTyped

\* A step of a handler that does not run mdadm.
LEMMA PlainHandler ==
  ASSUME HandlersTyped, EvInv, DevicesTyped, NEW h \in Handlers,
         h_node(h) \/ h_blkid(h) \/ mdlock(h) \/ mdunlock(h)
  PROVE  \E l \in {"none", "blkid", "lock_run", "lock_inc", "run", "inc"} :
           /\ HStep(h, l) /\ hpc[h] # "none"
           /\ l \in {"lock_inc", "inc"} => ev[h].dev \in Members
           /\ l \in {"run", "inc"} => ~ (QuietAssemble /\ pc = "assembling")
           /\ UNCHANGED <<ivars, saw, arrays, rejected, present>>
           /\ nodes' \subseteq Devices /\ lock' \in BOOLEAN
<1>1. CASE h_node(h)
  <2>1. nodes' \subseteq Devices
    <3>1. hpc[h] = "node" /\ ev[h] \in Event
      BY <1>1 DEF h_node, EvInv
    <3>2. ev[h].dev \in Devices  BY <3>1 DEF Event
    <3> QED  BY <1>1, <3>2 DEF h_node, DevicesTyped
  <2>2. \E l \in {"none", "blkid", "lock_run"} : HStep(h, l)
    BY <1>1 DEF h_node
  <2> QED  BY <1>1, <2>1, <2>2 DEF h_node, mdvars, DevicesTyped
<1>2. CASE h_blkid(h)
  <2>1. \/ HStep(h, "lock_inc") /\ ev[h].dev \in Members
        \/ HStep(h, "none")
    BY <1>2 DEF h_blkid
  <2> QED  BY <1>2, <2>1 DEF h_blkid, mdvars, DevicesTyped
<1>3. CASE mdlock(h)
  <2>1. \/ hpc[h] = "lock_inc" /\ HStep(h, "inc") /\ ev[h].dev \in Members
        \/ hpc[h] = "lock_run" /\ HStep(h, "run")
    BY <1>3 DEF mdlock, LockLocations, Locked, EvInv, HandlersTyped
  <2>2. ~ (QuietAssemble /\ pc = "assembling")  BY <1>3 DEF mdlock
  <2> QED  BY <1>3, <2>1, <2>2 DEF mdlock, mdvars, DevicesTyped
<1>4. CASE mdunlock(h)
  BY <1>4 DEF mdunlock, mdvars, DevicesTyped
<1> QED  BY <1>1, <1>2, <1>3, <1>4

-----------------------------------------------------------------------------
(* Each step keeps Core, but for HandlersSerial, which LockInv gives.      *)

Core1 == Typed /\ EvInv /\ Alone /\ SawInv /\ HotInv

\* Steps of a handler that leave the arrays alone.
LEMMA PlainHandlerStep ==
  ASSUME QuietAssemble, Core, NEW h \in Handlers,
         h_node(h) \/ h_blkid(h) \/ mdlock(h) \/ mdunlock(h)
  PROVE  Core1'
<1>0. /\ hpc \in [Handlers -> HandlerLocations] /\ HandlersTyped /\ EvInv /\ Typed
      /\ Alone /\ SawInv /\ HotInv
  BY DEF Core, Typed, HandlersTyped
<1>1. PICK l \in {"none", "blkid", "lock_run", "lock_inc", "run", "inc"} :
        /\ HStep(h, l) /\ hpc[h] # "none"
        /\ l \in {"lock_inc", "inc"} => ev[h].dev \in Members
        /\ l \in {"run", "inc"} => pc # "assembling"
        /\ UNCHANGED <<ivars, saw, arrays, rejected, present>>
        /\ nodes' \subseteq Devices /\ lock' \in BOOLEAN
  BY <1>0, PlainHandler DEF Typed
<1>2. l \in HandlerLocations
  BY DEF HandlerLocations, LockLocations, Holding
<1>3. /\ HandlersTyped'
      /\ \A k \in Handlers : k # h => hpc'[k] = hpc[k] /\ ev'[k] = ev[k]
      /\ hpc'[h] = l /\ (l # "none" => ev'[h] = ev[h])
  BY <1>0, <1>1, <1>2, HandlerMoves
<1>4. EvInv'
  BY <1>0, <1>1, <1>3 DEF EvInv
<1>5. Alone' /\ SawInv' /\ HotInv'
  <2>1. UNCHANGED <<pc, hotplug, saw, arrays>>  BY <1>1 DEF ivars
  <2>2. Alone'  BY <1>0, <1>1, <1>3, <2>1 DEF Alone, Holding
  <2>3. \A n : Sees(n)' = Sees(n)  BY <2>1 DEF Sees
  <2>4. SawInv'  BY <1>0, <1>1, <1>3, <2>1, <2>3 DEF SawInv, Sees
  <2> QED  BY <1>0, <2>1, <2>2, <2>4 DEF HotInv
<1>6. Typed'
  BY <1>0, <1>1, <1>3 DEF Typed, InitTyped, MdTyped, SawTyped, DevicesTyped, ivars
<1> QED  BY <1>4, <1>5, <1>6 DEF Core1

\* A handler under the lock is the only one, and /init is not at it.
LEMMA OnlyOne ==
  ASSUME Core, NEW h \in Handlers, hpc[h] \in Holding
  PROVE  /\ pc # "assembling"
         /\ \A k \in Handlers : k # h => hpc[k] \notin Holding
BY DEF Core, HandlersSerial, Alone

LEMMA MdadmHandlerStep ==
  ASSUME Core, NEW h \in Handlers, h_run(h) \/ h_inc(h) \/ h_adding(h)
  PROVE  Core1'
<1>0. /\ hpc \in [Handlers -> HandlerLocations] /\ HandlersTyped /\ EvInv /\ Typed
      /\ HotInv /\ MdTyped /\ SawTyped /\ DevicesTyped /\ InitTyped
  BY DEF Core, Typed, HandlersTyped
<1>1. hpc[h] \in {"run", "inc", "adding"}  BY DEF h_run, h_inc, h_adding
<1>2. /\ pc # "assembling" /\ UNCHANGED ivars
      /\ \A k \in Handlers : k # h => hpc[k] # "adding"
  BY <1>1, OnlyOne DEF Holding, h_run, h_inc, h_adding
<1>3. InitTyped' /\ HotInv' /\ Alone' /\ pc' # "assembling"
  BY <1>0, <1>2 DEF InitTyped, HotInv, Alone, ivars
<1>4. CASE h_run(h)
  <2>1. HStep(h, "unlock_run") /\ UNCHANGED <<saw, lock, present, nodes>>
    BY <1>4 DEF h_run
  <2>2. "unlock_run" \in HandlerLocations  BY DEF HandlerLocations, Holding
  <2>3. /\ HandlersTyped'
        /\ \A k \in Handlers : k # h => hpc'[k] = hpc[k] /\ ev'[k] = ev[k]
        /\ hpc'[h] = "unlock_run" /\ ev'[h] = ev[h]
    BY <1>0, <2>1, <2>2, HandlerMoves
  <2>4. EvInv'  BY <1>0, <1>1, <2>3 DEF EvInv
  <2>5. SawInv'  BY <1>2, <1>3, <2>3 DEF SawInv
  <2>6. MdTyped'  BY <1>0, <1>4, RunStep
  <2> QED  BY <1>0, <1>3, <2>1, <2>3, <2>4, <2>5, <2>6
           DEF Core1, Typed, SawTyped, DevicesTyped
<1>5. CASE h_inc(h)
  <2>1. /\ HStep(h, "adding") /\ hpc[h] = "inc"
        /\ UNCHANGED <<arrays, rejected, lock, present, nodes>>
    BY <1>5 DEF h_inc
  <2>2. PICK n \in 0..2 : Sees(n) /\ saw' = [saw EXCEPT ![h] = n]
    BY <1>5 DEF h_inc
  <2>3. "adding" \in HandlerLocations  BY DEF HandlerLocations, Holding
  <2>4. /\ HandlersTyped'
        /\ \A k \in Handlers : k # h => hpc'[k] = hpc[k] /\ ev'[k] = ev[k]
        /\ hpc'[h] = "adding" /\ ev'[h] = ev[h]
    BY <1>0, <2>1, <2>3, HandlerMoves
  <2>5. EvInv'  BY <1>0, <2>1, <2>4 DEF EvInv
  <2>6. saw'[h] = n /\ SawTyped'  BY <1>0, <2>2 DEF SawTyped
  <2>7. Sees(n)' = Sees(n)  BY <2>1 DEF Sees
  <2>8. SawInv'
    BY <1>2, <1>3, <2>1, <2>2, <2>4, <2>6 DEF SawInv, Sees
  <2> QED  BY <1>0, <1>3, <2>1, <2>4, <2>5, <2>6, <2>8
           DEF Core1, Typed, MdTyped, DevicesTyped
<1>6. CASE h_adding(h)
  <2> DEFINE next == HGoto(h, "unlock_inc")
  <2>1. MdStep({ev[h].dev}, next) /\ next \in [Handlers -> HandlerLocations]
    BY <1>6, AddingStep
  <2>2. MovesOn(next)  BY <2>1, MdMoves DEF MdStep, MovesOn
  <2>3. \A k \in Handlers : (k # h => next[k] = hpc[k]) /\ next[h] = "unlock_inc"
    BY <1>0 DEF HGoto
  <2>4. hpc[h] = "adding" /\ UNCHANGED <<lock, nodes>> /\ saw' = [saw EXCEPT ![h] = 0]
    BY <1>6 DEF h_adding
  <2> HIDE DEF next
  <2>5. EvInv'
    BY <1>0, <2>1, <2>2, <2>3, <2>4, EvMoves DEF EvInv, MovesOn
  <2>6. \A k \in Handlers : hpc'[k] # "adding"
    BY <1>2, <2>1, <2>3 DEF MdStep
  <2>7. SawInv'  BY <1>3, <2>6 DEF SawInv
  <2>8. HandlersTyped' /\ MdTyped' /\ DevicesTyped'
    BY <1>0, <2>1, <2>4 DEF MdStep, DevicesTyped
  <2>9. SawTyped'  BY <1>0, <2>4 DEF SawTyped
  <2> QED  BY <1>3, <2>5, <2>7, <2>8, <2>9 DEF Core1, Typed
<1> QED  BY <1>4, <1>5, <1>6

LEMMA InitCoreStep ==
  ASSUME QuietAssemble, Core, InitScript
  PROVE  Core1'
<1>0. /\ hpc \in [Handlers -> HandlerLocations] /\ HandlersTyped /\ EvInv /\ Typed
      /\ HotInv /\ MdTyped /\ SawTyped /\ DevicesTyped /\ InitTyped /\ SawInv /\ Alone
  BY DEF Core, Typed, HandlersTyped
<1>1. CASE assembling
  <2>1. PICK D \in SUBSET Members : MdStep(D, hpc)
    BY <1>1, AssemblingStep
  <2>2. MovesOn(hpc)  BY <1>0, <2>1, MdMoves DEF MdStep, MovesOn
  <2>3. /\ pc = "assembling" /\ pc' = "modules" /\ found' = {}
        /\ saw' = [saw EXCEPT ![0] = 0]
        /\ UNCHANGED <<todo, timeout, elapsed, hotplug, lock, nodes>>
    BY <1>1 DEF assembling
  <2>4. EvInv'  BY <1>0, <2>2 DEF EvInv, MovesOn
  <2>5. \A k \in Handlers : hpc'[k] # "adding"
    BY <1>0, <2>1, <2>3 DEF MdStep, Alone, Holding
  <2>6. SawInv' /\ Alone' /\ HotInv'
    BY <2>3, <2>5 DEF SawInv, Alone, HotInv
  <2>7. HandlersTyped' /\ MdTyped' /\ DevicesTyped'
    BY <1>0, <2>1, <2>3 DEF MdStep, DevicesTyped
  <2>8. SawTyped'  BY <1>0, <2>3 DEF SawTyped
  <2>9. InitTyped'  BY <1>0, <2>3 DEF InitTyped, InitLocations
  <2> QED  BY <2>4, <2>6, <2>7, <2>8, <2>9 DEF Core1, Typed
<1>2. CASE assemble
  <2>1. /\ pc = "assemble" /\ pc' = "assembling" /\ found' = Members \cap present \cap nodes
        /\ UNCHANGED <<todo, timeout, elapsed, hotplug, hvars, arrays, rejected, lock,
                       present, nodes>>
        /\ \A h \in Handlers : hpc[h] \notin Holding
    BY <1>2 DEF assemble
  <2>2. PICK n \in 0..2 : Sees(n) /\ saw' = [saw EXCEPT ![0] = n]
    BY <1>2 DEF assemble
  <2>3. HandlersTyped' /\ MovesOn(hpc)  BY <1>0, <2>1, Keep
  <2>4. EvInv'  BY <1>0, <2>3 DEF EvInv, MovesOn
  <2>5. Alone' /\ HotInv'  BY <2>1 DEF Alone, HotInv, hvars
  <2>6. saw'[0] = n /\ SawTyped'  BY <1>0, <2>2 DEF SawTyped
  <2>7. SawInv'  BY <2>1, <2>2, <2>6 DEF SawInv, Sees, hvars, Holding
  <2>8. InitTyped'  BY <1>0, <2>1 DEF InitTyped, InitLocations
  <2>9. MdTyped' /\ DevicesTyped'  BY <1>0, <2>1 DEF MdTyped, DevicesTyped
  <2> QED  BY <2>3, <2>4, <2>5, <2>6, <2>7, <2>8, <2>9 DEF Core1, Typed
<1>3. CASE ~ assembling /\ ~ assemble
  <2>1. /\ UNCHANGED <<hvars, mdvars, present>> /\ pc' # "assembling"
        /\ InitTyped' /\ DevicesTyped'
    BY <1>0, <1>3, PlainInit
  <2>2. HotInv'
    BY <1>0, <1>3 DEF InitScript, activate_hotplug, open_diskstats, mknod_existing,
       modprobe_and_cmdline, wait_for_root, Waits, settle, disable_hotplug, switch_root,
       IGoto, HotInv
  <2>3. HandlersTyped' /\ MovesOn(hpc)  BY <1>0, <2>1, Keep
  <2>4. EvInv'  BY <1>0, <2>3 DEF EvInv, MovesOn
  <2>5. Alone'  BY <2>1 DEF Alone
  <2>6. SawInv'  BY <1>0, <2>1 DEF SawInv, Sees, hvars, mdvars
  <2>7. MdTyped' /\ SawTyped'  BY <1>0, <2>1 DEF MdTyped, SawTyped, mdvars
  <2> QED  BY <2>1, <2>2, <2>3, <2>4, <2>5, <2>6, <2>7 DEF Core1, Typed
<1> QED  BY <1>1, <1>2, <1>3

LEMMA KernelCoreStep == ASSUME Core, Kernel PROVE Core1'
<1>0. /\ hpc \in [Handlers -> HandlerLocations] /\ HandlersTyped /\ EvInv /\ Typed
      /\ HotInv /\ MdTyped /\ SawTyped /\ DevicesTyped /\ InitTyped /\ SawInv /\ Alone
  BY DEF Core, Typed, HandlersTyped
<1>1. HandlersTyped' /\ MovesOn(hpc)  BY <1>0, KernelMoves DEF InitTyped
<1>2. EvInv'  BY <1>0, <1>1 DEF EvInv, MovesOn
<1>3. UNCHANGED <<ivars, mdvars, lock, nodes>> /\ present' \subseteq Devices
  <2>1. Disks \subseteq Devices  BY DEF Devices
  <2> QED  BY <1>0, <2>1 DEF Kernel, DiskAppears, DiskChanges, DiskRemoved, DevicesTyped
<1>4. Alone'  BY <1>0, <1>1, <1>3 DEF Alone, MovesOn, ivars, Holding
<1>5. SawInv'
  BY <1>0, <1>1, <1>3 DEF SawInv, Sees, MovesOn, ivars, mdvars
<1>6. HotInv' /\ InitTyped' /\ MdTyped' /\ SawTyped' /\ DevicesTyped'
  BY <1>0, <1>3 DEF HotInv, InitTyped, MdTyped, SawTyped, DevicesTyped, ivars, mdvars
<1> QED  BY <1>1, <1>2, <1>4, <1>5, <1>6 DEF Core1, Typed

LEMMA CoreNext == ASSUME QuietAssemble PROVE Core /\ [Next]_vars => Core'
<1> SUFFICES ASSUME Core, [Next]_vars PROVE Core'
  OBVIOUS
<1>1. LockInv'  BY LockNext DEF Core, LockInv, Typed, HandlersTyped
<1>2. Core1'
  <2>1. CASE UNCHANGED vars
    BY <2>1 DEF vars, ivars, hvars, mdvars, Core, Core1, Typed, InitTyped, HandlersTyped,
       MdTyped, SawTyped, DevicesTyped, EvInv, Alone, SawInv, Sees, HotInv
  <2>2. CASE InitScript  BY <2>2, InitCoreStep
  <2>3. CASE Kernel  BY <2>3, KernelCoreStep
  <2>4. ASSUME NEW h \in Handlers, Handler(h) PROVE Core1'
    BY <2>4, PlainHandlerStep, MdadmHandlerStep DEF Handler
  <2> QED  BY <2>1, <2>2, <2>3, <2>4 DEF Next
<1> QED  BY <1>1, <1>2 DEF Core, Core1, LockInv

LEMMA CoreInit == Init => Core
<1> SUFFICES ASSUME Init PROVE Core
  OBVIOUS
<1>1. InitTyped /\ HandlersTyped /\ SawTyped
  <2>1. InitTyped
    <3>1. Counter \in -5..Counter  BY RamdiskAssumption
    <3> QED  BY <3>1 DEF Init, InitTyped, InitLocations
  <2>2. HandlersTyped  BY RamdiskAssumption DEF Init, HandlersTyped, HandlerLocations
  <2>3. SawTyped  BY DEF Init, SawTyped
  <2> QED  BY <2>1, <2>2, <2>3
<1>2. MdTyped  BY EmptySeq DEF Init, MdTyped
<1>3. DevicesTyped  BY DEF Init, DevicesTyped, Devices
<1>4. HandlersSerial /\ EvInv /\ Alone /\ SawInv /\ HotInv
  BY DEF Init, HandlersSerial, EvInv, Alone, SawInv, HotInv, Holding
<1> QED  BY <1>1, <1>2, <1>3, <1>4 DEF Core, Typed

\* As long as no handler calls mdadm while /init does, the RAID set is one array, and
\* every variable keeps its type (init_template:110, hotplug:48-69).
THEOREM OneArray ==
  ASSUME QuietAssemble PROVE Spec => [](TypeOK /\ SingleArray)
<1>1. Core /\ overtaken \subseteq Disks => TypeOK /\ SingleArray
  BY TypedIsTypeOK DEF Core
<1> QED  BY <1>1, CoreInit, CoreNext, OvertakenTyped, PTL DEF Spec

-----------------------------------------------------------------------------
(* No device and no member of the set is overlooked.                       *)

OnItsWay(d) == \E h \in Handlers :
  hpc[h] = "node" /\ ev[h] = [action |-> "add", dev |-> d]

\* A handler will offer member d to the array.
Offered(d) == \E h \in Handlers :
  /\ ev[h].dev = d
  /\ \/ hpc[h] = "node" /\ ev[h].action = "add"
     \/ hpc[h] = "blkid" /\ ev[h].action = "add" /\ d \in nodes
     \/ hpc[h] \in {"lock_inc", "inc", "adding"}

\* Where device d is between its appearance and its node.
DeviceKnown(d) ==
  \/ d \in nodes \/ OnItsWay(d)
  \/ pc = "open" \/ (pc = "scan" /\ d \in todo)

\* Where member d is between its appearance and the array.
MemberKnown(d) ==
  \/ InArray(d) \/ d \in rejected \/ Offered(d)
  \/ pc = "open" \/ (pc = "scan" /\ (d \in todo \/ d \in nodes))
  \/ (pc = "assemble" /\ d \in nodes) \/ (pc = "assembling" /\ d \in found)

\* No handler is about to take away the node of a device that is there.
NoLateRemoval == \A d \in present \ overtaken : ~ RemovalPending(d)

Known ==
  /\ NoLateRemoval
  /\ hotplug => /\ \A d \in present \ overtaken : DeviceKnown(d)
                /\ \A d \in present \cap Members : MemberKnown(d)

\* The handlers at work go on, others may start.
OthersStart == \A k \in Handlers :
  (hpc'[k] = hpc[k] /\ ev'[k] = ev[k]) \/ hpc[k] = "none"

LEMMA WayKept ==
  ASSUME OthersStart, nodes \subseteq nodes', NEW d
  PROVE  (OnItsWay(d) => OnItsWay(d)') /\ (Offered(d) => Offered(d)')
BY DEF OthersStart, OnItsWay, Offered

\* A member is never removed, and so has no such handler.
LEMMA MembersStay ==
  ASSUME EvInv, NEW d \in Members PROVE ~ RemovalPending(d)
BY RamdiskAssumption DEF EvInv, RemovalPending

\* Handlers that are new make nodes.
LEMMA RemovalsKept ==
  ASSUME NoLateRemoval, UNCHANGED overtaken,
         \A d \in present' \ present : ~ RemovalPending(d),
         \A k \in Handlers : hpc'[k] = "node" =>
           (hpc[k] = "node" /\ ev'[k] = ev[k]) \/ ev'[k].action = "add"
  PROVE  NoLateRemoval'
BY DEF NoLateRemoval, RemovalPending

LEMMA KnownKernel == ASSUME Core, Known, Kernel PROVE Known'
<1>0. /\ hpc \in [Handlers -> HandlerLocations] /\ HandlersTyped /\ hotplug \in BOOLEAN
  BY DEF Core, Typed, HandlersTyped, InitTyped
<1>1. UNCHANGED <<ivars, mdvars, nodes>>
  BY DEF Kernel, DiskAppears, DiskChanges, DiskRemoved
<1>2. PICK a \in {"add", "remove", "change"}, x \in Devices :
        /\ Uevent(hpc, a, x)
        /\ present' \subseteq present \/ (a = "add" /\ present' = present \cup {x})
        /\ \A d \in present \cap present' : d \in overtaken' <=> d \in overtaken
        /\ a = "add" => x \notin present /\ (RemovalPending(x) => x \in overtaken')
        /\ a = "remove" => x \notin present'
  <2>1. Disks \subseteq Devices /\ Members \subseteq Disks /\ Removable \subseteq Disks
    BY RamdiskAssumption DEF Devices
  <2> QED  BY <2>1 DEF Kernel, DiskAppears, DiskChanges, DiskRemoved
<1>3. /\ \A k \in Handlers :
              \/ hpc'[k] = hpc[k] /\ ev'[k] = ev[k]
              \/ /\ hpc[k] = "none" /\ hpc'[k] = "node"
                 /\ ev'[k] = [action |-> a, dev |-> x]
      /\ hotplug => \E k \in Handlers :
              hpc'[k] = "node" /\ ev'[k] = [action |-> a, dev |-> x]
  BY <1>0, <1>2, UeventStarts
<1>4. OthersStart  BY <1>3 DEF OthersStart
<1>5. \A d : (OnItsWay(d) => OnItsWay(d)') /\ (Offered(d) => Offered(d)')
  BY <1>1, <1>4, WayKept
<1>6. hotplug /\ a = "add" => OnItsWay(x)' /\ Offered(x)'
  BY <1>3 DEF OnItsWay, Offered
<1>7. \A d : InArray(d)' = InArray(d)  BY <1>1 DEF InArray, mdvars
<1>8. UNCHANGED <<pc, todo, found, hotplug, rejected, nodes>>
  BY <1>1 DEF ivars, mdvars
<1>9. ASSUME hotplug', NEW d \in present' \ overtaken' PROVE DeviceKnown(d)'
  BY <1>2, <1>5, <1>6, <1>8, <1>9 DEF Known, DeviceKnown
<1>10. ASSUME hotplug', NEW d \in present' \cap Members PROVE MemberKnown(d)'
  BY <1>2, <1>5, <1>6, <1>7, <1>8, <1>10 DEF Known, MemberKnown
<1>11. ASSUME NEW d \in present' \ overtaken' PROVE ~ RemovalPending(d)'
  <2>1. ~ RemovalPending(d)
    BY <1>2, <1>11 DEF Known, NoLateRemoval
  <2>2. ASSUME NEW k \in Handlers, hpc'[k] = "node",
               ev'[k] = [action |-> "remove", dev |-> d]
        PROVE  FALSE
    <3>1. CASE hpc'[k] = hpc[k] /\ ev'[k] = ev[k]
      BY <2>1, <2>2, <3>1 DEF RemovalPending
    <3>2. CASE ev'[k] = [action |-> a, dev |-> x]
      <4>1. a = ev'[k].action /\ x = ev'[k].dev  BY <3>2
      <4>2. ev'[k].action = "remove" /\ ev'[k].dev = d  BY <2>2
      <4> QED  BY <1>2, <1>11, <4>1, <4>2
    <3> QED  BY <1>3, <3>1, <3>2
  <2> QED  BY <2>2 DEF RemovalPending
<1> QED  BY <1>9, <1>10, <1>11 DEF Known, NoLateRemoval

\* mdadm makes no disk appear.
LEMMA NewDevices ==
  ASSUME EvInv, present' \cap Disks = present \cap Disks
  PROVE  \A d \in present' \ present : ~ RemovalPending(d)
BY RamdiskAssumption DEF EvInv, RemovalPending

LEMMA KnownAssembling ==
  ASSUME Core, Known, assembling, UNCHANGED overtaken PROVE Known'
<1>1. PICK D \in SUBSET Members :
        MdStep(D, hpc) /\ \A d \in found : InArray(d) \/ d \in D
  BY AssemblingStep
<1>2. /\ \A k \in Handlers :
           \/ hpc'[k] = hpc[k] /\ ev'[k] = ev[k]
           \/ /\ hpc[k] = "none" /\ hpc'[k] = "node"
              /\ ev'[k] = [action |-> "add", dev |-> MdNames[1]]
      /\ \A d \in present' \ present : hotplug => \E k \in Handlers :
           hpc'[k] = "node" /\ ev'[k] = [action |-> "add", dev |-> d]
      /\ \A d \in Members :
           InArray(d) \/ d \in rejected \/ d \in D => (InArray(d) \/ d \in rejected)'
      /\ present' \cap Members = present \cap Members
  BY <1>1 DEF MdStep
<1>3. pc = "assembling" /\ UNCHANGED <<hotplug, nodes>>  BY DEF assembling
<1>4. OthersStart  BY <1>2 DEF OthersStart
<1>5. \A d : (OnItsWay(d) => OnItsWay(d)') /\ (Offered(d) => Offered(d)')
  BY <1>3, <1>4, WayKept
<1>9. \A d \in present' \ present : ~ RemovalPending(d)
  BY <1>1, NewDevices DEF Core, MdStep
<1>6. ASSUME hotplug', NEW d \in present' \ overtaken PROVE DeviceKnown(d)'
  BY <1>2, <1>3, <1>5, <1>6 DEF Known, DeviceKnown, OnItsWay
<1>7. ASSUME hotplug', NEW d \in present' \cap Members PROVE MemberKnown(d)'
  BY <1>1, <1>2, <1>3, <1>5, <1>7 DEF Known, MemberKnown
<1>8. NoLateRemoval'
  <2>1. ASSUME NEW d \in present' \ present PROVE ~ RemovalPending(d)
    BY <1>9, <2>1
  <2>2. [action |-> "add", dev |-> MdNames[1]].action = "add"  OBVIOUS
  <2> QED  BY <1>2, <2>1, <2>2, RemovalsKept DEF Known
<1> QED  BY <1>6, <1>7, <1>8 DEF Known

LEMMA KnownInit == ASSUME Core, Known, InitScript, ~ assembling PROVE Known'
<1>1. UNCHANGED <<hvars, arrays, rejected, present, overtaken>>
  BY DEF InitScript, activate_hotplug, open_diskstats, mknod_existing, assemble,
     modprobe_and_cmdline, wait_for_root, Waits, settle, disable_hotplug, switch_root,
     IGoto, mdvars
<1>0. NoLateRemoval'
  BY <1>1 DEF Known, NoLateRemoval, RemovalPending, hvars
<1>2. CASE hotplug' /\ ~ activate_hotplug
  <2>1. hotplug /\ pc # "switch"
    BY <1>2 DEF InitScript, open_diskstats, mknod_existing, assemble,
       modprobe_and_cmdline, wait_for_root, Waits, settle, disable_hotplug, switch_root,
       IGoto, Core, HotInv
  <2>2. nodes \subseteq nodes'
    BY <1>2, <2>1 DEF InitScript, open_diskstats, mknod_existing, assemble,
       modprobe_and_cmdline, wait_for_root, Waits, settle, disable_hotplug, switch_root,
       IGoto
  <2>3. OthersStart  BY <1>1 DEF OthersStart, hvars
  <2>4. \A d : (OnItsWay(d) => OnItsWay(d)') /\ (Offered(d) => Offered(d)')
    BY <2>2, <2>3, WayKept
  <2>5. \A d : InArray(d)' = InArray(d)  BY <1>1 DEF InArray
  <2>6. ASSUME NEW d \in present' \ overtaken PROVE DeviceKnown(d)'
    <3>1. DeviceKnown(d)  BY <1>1, <2>1, <2>6 DEF Known
    <3>2. \/ pc' \notin {"open", "scan"} /\ pc \notin {"open", "scan"}
          \/ pc = "open" /\ pc' = "scan" /\ todo' = present
          \/ pc = "scan" /\ pc' = "scan" /\ \A x \in todo : x \in todo' \/ x \in nodes'
          \/ pc = "scan" /\ todo = {}
      BY <1>2, <2>1 DEF InitScript, open_diskstats, mknod_existing, assemble,
         modprobe_and_cmdline, wait_for_root, Waits, settle, disable_hotplug,
         switch_root, IGoto
    <3> QED  BY <1>1, <2>2, <2>4, <3>1, <3>2 DEF DeviceKnown
  <2>7. ASSUME NEW d \in present' \cap Members PROVE MemberKnown(d)'
    <3>1. MemberKnown(d)  BY <1>1, <2>1, <2>7 DEF Known
    <3>2. \/ pc \notin {"open", "scan", "assemble", "assembling"}
          \/ pc = "open" /\ pc' = "scan" /\ todo' = present
          \/ pc = "scan" /\ pc' = "scan" /\ \A x \in todo : x \in todo' \/ x \in nodes'
          \/ pc = "scan" /\ todo = {} /\ pc' = "assemble"
          \/ pc = "assemble" /\ pc' = "assembling" /\ found' = Members \cap present \cap nodes
      <4>1. pc # "assembling"
        BY <1>2 DEF InitScript, open_diskstats, mknod_existing, assemble,
           modprobe_and_cmdline, wait_for_root, Waits, settle, disable_hotplug,
           switch_root, IGoto
      <4> QED
        BY <1>2, <2>1, <4>1 DEF InitScript, open_diskstats, mknod_existing, assemble,
           modprobe_and_cmdline, wait_for_root, Waits, settle, disable_hotplug,
           switch_root, IGoto
    <3> QED  BY <1>1, <2>2, <2>4, <2>5, <2>7, <3>1, <3>2 DEF MemberKnown
  <2> QED  BY <1>0, <1>1, <2>6, <2>7 DEF Known
<1>3. CASE activate_hotplug
  BY <1>0, <1>3 DEF activate_hotplug, Known, DeviceKnown, MemberKnown
<1> QED  BY <1>0, <1>2, <1>3 DEF Known

\* Steps of a handler that leave the arrays alone.
LEMMA KnownPlain ==
  ASSUME Core, Known, NEW h \in Handlers,
         h_node(h) \/ h_blkid(h) \/ mdlock(h) \/ h_run(h) \/ h_inc(h) \/ mdunlock(h),
         UNCHANGED overtaken
  PROVE  Known'
<1>0. HandlersTyped /\ EvInv /\ HotInv /\ MdTyped
  BY DEF Core, Typed
<1>1. UNCHANGED <<ivars, rejected, present>>
  BY DEF h_node, h_blkid, mdlock, h_run, h_inc, mdunlock, mdvars
<1>2. PICK l \in HandlerLocations : HStep(h, l) /\ l # "node" /\
        \/ hpc[h] = "node" /\ h_node(h) /\ l \in {"none", "blkid", "lock_run"}
           /\ (ev[h].action # "remove" /\ ev[h].dev \in Disks => l = "blkid")
        \/ hpc[h] = "blkid" /\ UNCHANGED nodes /\ h_blkid(h)
           /\ (ev[h].action = "add" /\ ev[h].dev \in Members \cap present \cap nodes
                 => l = "lock_inc")
        \/ hpc[h] = "lock_inc" /\ l = "inc" /\ UNCHANGED nodes
        \/ hpc[h] = "inc" /\ l = "adding" /\ UNCHANGED nodes
        \/ hpc[h] \notin {"node", "blkid", "lock_inc", "inc", "adding"} /\ UNCHANGED nodes
  <2>1. CASE h_node(h)
    BY <2>1 DEF h_node, HandlerLocations, LockLocations
  <2>2. CASE h_blkid(h)
    BY <2>2 DEF h_blkid, HandlerLocations, LockLocations
  <2>3. CASE mdlock(h)
    <3>1. Locked["lock_run"] = "run" /\ Locked["lock_inc"] = "inc"
      BY DEF Locked
    <3> QED  BY <2>3, <3>1 DEF mdlock, HandlerLocations, LockLocations, Holding
  <2>4. CASE h_run(h)  BY <2>4 DEF h_run, HandlerLocations, Holding
  <2>5. CASE h_inc(h)  BY <2>5 DEF h_inc, HandlerLocations, Holding
  <2>6. CASE mdunlock(h)  BY <2>6 DEF mdunlock, HandlerLocations, Holding
  <2> QED  BY <2>1, <2>2, <2>3, <2>4, <2>5, <2>6
<1>3. /\ \A k \in Handlers : k # h => hpc'[k] = hpc[k] /\ ev'[k] = ev[k]
      /\ hpc'[h] = l /\ (l # "none" => ev'[h] = ev[h])
  BY <1>0, <1>2, HandlerMoves
<1>4. \A d : InArray(d)' = InArray(d)
  <2>1. CASE h_run(h)  BY <1>0, <2>1, RunStep
  <2>2. CASE ~ h_run(h)
    <3>1. arrays' = arrays
      BY <2>2 DEF h_node, h_blkid, mdlock, h_inc, mdunlock, mdvars
    <3> QED  BY <3>1 DEF InArray
  <2> QED  BY <2>1, <2>2
<1>5. UNCHANGED <<pc, todo, found, hotplug>>  BY <1>1 DEF ivars
<1>6. ASSUME hotplug', NEW d, ~ RemovalPending(d)
      PROVE  /\ d \in nodes => d \in nodes'
             /\ hpc[h] = "node" /\ ev[h].action = "add" /\ ev[h].dev = d => d \in nodes'
  <2>1. ~ switched  BY <1>0, <1>5, <1>6 DEF HotInv, switched
  <2>2. hpc[h] = "node" => (ev[h].action = "remove" => ev[h].dev # d)
    BY <1>0, <1>6 DEF EvInv, Event, RemovalPending
  <2> QED  BY <1>2, <1>6, <2>1, <2>2 DEF h_node
<1>7. ASSUME hotplug', NEW d \in present' \ overtaken PROVE DeviceKnown(d)'
  <2>1. DeviceKnown(d) /\ ~ RemovalPending(d)
    BY <1>1, <1>5, <1>7 DEF Known, NoLateRemoval
  <2>2. OnItsWay(d) => OnItsWay(d)' \/ d \in nodes'
    BY <1>3, <1>6, <1>7, <2>1 DEF OnItsWay
  <2> QED  BY <1>5, <1>6, <1>7, <2>1, <2>2 DEF DeviceKnown
<1>8. ASSUME hotplug', NEW d \in present' \cap Members PROVE MemberKnown(d)'
  <2>1. MemberKnown(d)  BY <1>1, <1>5, <1>8 DEF Known
  <2>2. ~ RemovalPending(d) /\ d \in Disks /\ d \in present
    BY <1>0, <1>1, <1>8, MembersStay, RamdiskAssumption
  <2>3. d \in nodes => d \in nodes'  BY <1>6, <1>8, <2>2
  <2>4. Offered(d) => Offered(d)'
    <3> SUFFICES ASSUME Offered(d) PROVE Offered(d)'
      OBVIOUS
    <3>1. PICK k \in Handlers :
            /\ ev[k].dev = d
            /\ \/ hpc[k] = "node" /\ ev[k].action = "add"
               \/ hpc[k] = "blkid" /\ ev[k].action = "add" /\ d \in nodes
               \/ hpc[k] \in {"lock_inc", "inc", "adding"}
      BY DEF Offered
    <3>2. CASE k # h  BY <1>3, <2>3, <3>1, <3>2 DEF Offered
    <3>3. CASE k = h
      <4>1. CASE hpc[h] = "node"
        <5>1. l = "blkid" /\ d \in nodes'
          BY <1>2, <1>6, <1>8, <2>2, <3>1, <3>3, <4>1
        <5> QED  BY <1>3, <3>1, <3>3, <4>1, <5>1 DEF Offered
      <4>2. CASE hpc[h] = "blkid"
        <5>1. l = "lock_inc"  BY <1>2, <1>8, <2>2, <3>1, <3>3, <4>2
        <5> QED  BY <1>3, <3>1, <3>3, <5>1 DEF Offered
      <4>3. CASE hpc[h] \in {"lock_inc", "inc"}
        BY <1>2, <1>3, <3>1, <3>3, <4>3 DEF Offered
      <4> QED  BY <1>2, <3>1, <3>3, <4>1, <4>2, <4>3
    <3> QED  BY <3>2, <3>3
  <2> QED  BY <1>1, <1>4, <1>5, <2>1, <2>3, <2>4 DEF MemberKnown
<1>9. NoLateRemoval'
  BY <1>0, <1>1, <1>2, <1>3, RemovalsKept DEF Known
<1> QED  BY <1>7, <1>8, <1>9 DEF Known

LEMMA KnownAdding ==
  ASSUME Core, Known, NEW h \in Handlers, h_adding(h), UNCHANGED overtaken
  PROVE  Known'
<1> DEFINE next == HGoto(h, "unlock_inc")
           D == {ev[h].dev}
<1>1. MdStep(D, next)  BY AddingStep
<1>2. /\ \A k \in Handlers :
           \/ hpc'[k] = next[k] /\ ev'[k] = ev[k]
           \/ /\ hpc[k] = "none" /\ hpc'[k] = "node"
              /\ ev'[k] = [action |-> "add", dev |-> MdNames[1]]
      /\ \A d \in present' \ present : hotplug => \E k \in Handlers :
           hpc'[k] = "node" /\ ev'[k] = [action |-> "add", dev |-> d]
      /\ \A d \in Members :
           InArray(d) \/ d \in rejected \/ d \in D => (InArray(d) \/ d \in rejected)'
      /\ present' \cap Members = present \cap Members
  BY <1>1 DEF MdStep
<1>3. hpc[h] = "adding" /\ UNCHANGED <<ivars, nodes>>  BY DEF h_adding
<1>4. UNCHANGED <<pc, todo, found, hotplug>>  BY <1>3 DEF ivars
<1>5. \A k \in Handlers : k # h =>
        (hpc'[k] = hpc[k] /\ ev'[k] = ev[k]) \/ hpc[k] = "none"
  <2>1. \A k \in Handlers : k # h => next[k] = hpc[k]
    BY DEF HGoto, Core, Typed, HandlersTyped
  <2> HIDE DEF next
  <2> QED  BY <1>2, <2>1
<1> HIDE DEF next
<1>6. ASSUME hotplug', NEW d \in present' \ overtaken PROVE DeviceKnown(d)'
  <2>1. CASE d \in present
    <3>1. DeviceKnown(d)  BY <1>4, <1>6, <2>1 DEF Known
    <3>2. OnItsWay(d) => OnItsWay(d)'  BY <1>3, <1>5 DEF OnItsWay
    <3> QED  BY <1>3, <1>4, <3>1, <3>2 DEF DeviceKnown
  <2>2. CASE d \notin present
    BY <1>2, <1>4, <1>6, <2>2 DEF DeviceKnown, OnItsWay
  <2> QED  BY <2>1, <2>2
<1>7. ASSUME hotplug', NEW d \in present' \cap Members PROVE MemberKnown(d)'
  <2>1. MemberKnown(d)  BY <1>2, <1>4, <1>7 DEF Known
  <2>2. Offered(d) => Offered(d)' \/ d \in D
    BY <1>3, <1>5 DEF Offered
  <2> QED  BY <1>2, <1>3, <1>4, <1>7, <2>1, <2>2 DEF MemberKnown
<1>8. NoLateRemoval'
  <2>1. \A d \in present' \ present : ~ RemovalPending(d)
    BY <1>1, NewDevices DEF Core, MdStep
  <2>2. [action |-> "add", dev |-> MdNames[1]].action = "add"  OBVIOUS
  <2>3. next[h] = "unlock_inc"
    BY DEF next, HGoto, Core, Typed, HandlersTyped
  <2>4. \A k \in Handlers : k # h => next[k] = hpc[k]
    BY DEF next, HGoto, Core, Typed, HandlersTyped
  <2>5. \A k \in Handlers : hpc'[k] = "node" =>
           (hpc[k] = "node" /\ ev'[k] = ev[k]) \/ ev'[k].action = "add"
    BY <1>2, <2>2, <2>3, <2>4
  <2> QED  BY <2>1, <2>5, RemovalsKept DEF Known
<1> QED  BY <1>6, <1>7, <1>8 DEF Known

LEMMA KnownNext == Core /\ Known /\ [Next]_vars => Known'
<1> SUFFICES ASSUME Core, Known, [Next]_vars PROVE Known'
  OBVIOUS
<1>1. CASE UNCHANGED vars
  BY <1>1 DEF vars, ivars, hvars, mdvars, Known, DeviceKnown, MemberKnown, OnItsWay,
     Offered, InArray, NoLateRemoval, RemovalPending
<1>2. CASE InitScript  BY <1>2, KnownInit, KnownAssembling DEF InitScript
<1>3. CASE Kernel  BY <1>3, KnownKernel
<1>4. ASSUME NEW h \in Handlers, Handler(h) PROVE Known'
  BY <1>4, KnownPlain, KnownAdding DEF Handler
<1> QED  BY <1>1, <1>2, <1>3, <1>4 DEF Next

\* Once the scan at boot is over every device that is there has its node, or the
\* handler that makes it is running, disks that went and came back included as long
\* as they did not overtake the handler of their removal (init_template:101-107,
\* hotplug:39-46).
THEOREM EveryDeviceSeen ==
  ASSUME QuietAssemble PROVE Spec => []NoDeviceLost
<1>1. Init => Core /\ Known  BY CoreInit DEF Init, Known, NoLateRemoval, RemovalPending
<1>2. Core /\ Known /\ [Next]_vars => (Core /\ Known)'  BY CoreNext, KnownNext
<1>3. Known => NoDeviceLost  BY DEF Known, NoDeviceLost, DeviceKnown, OnItsWay
<1> QED  BY <1>1, <1>2, <1>3, PTL DEF Spec

\* When /init has assembled the set and no handler is left, every member that is
\* there is in the array or was rejected by it (init_template:101-110, hotplug:59-69).
THEOREM EveryMemberSeen ==
  ASSUME QuietAssemble PROVE Spec => []NoMemberLost
<1>1. Init => Core /\ Known  BY CoreInit DEF Init, Known, NoLateRemoval, RemovalPending
<1>2. Core /\ Known /\ [Next]_vars => (Core /\ Known)'  BY CoreNext, KnownNext
<1>3. Core /\ Known => NoMemberLost
  <2> SUFFICES ASSUME Core, Known, hotplug,
                      pc \notin {"open", "scan", "assemble", "assembling"},
                      \A h \in Handlers : ~ Busy(h),
                      NEW d \in present \cap Members
               PROVE  InArray(d) \/ d \in rejected
    BY DEF NoMemberLost
  <2>1. MemberKnown(d)  BY DEF Known
  <2>2. ~ Offered(d)  BY DEF Offered, Busy
  <2> QED  BY <2>1, <2>2 DEF MemberKnown
<1> QED  BY <1>1, <1>2, <1>3, PTL DEF Spec

-----------------------------------------------------------------------------
(* Whatever races with the mdadm of /init, two arrays at most.             *)

\* Who has found no array is about to make one.
InitCreates == pc = "assembling" /\ saw[0] = 0
HandlerCreates == \E h \in Handlers : hpc[h] = "adding" /\ saw[h] = 0

ArraysTyped == arrays \in Seq(ArrayType) /\ Len(arrays) <= 2 /\ rejected \subseteq Members

\* An array counts as much as one that is about to be made.
TwoAtMost ==
  /\ InitCreates \/ HandlerCreates => Len(arrays) <= 1
  /\ InitCreates /\ HandlerCreates => Len(arrays) = 0
  /\ \A a \in {0} \cup Handlers : saw[a] <= Len(arrays)

RaceInv ==
  /\ InitTyped /\ HandlersTyped /\ SawTyped /\ DevicesTyped /\ ArraysTyped
  /\ HandlersSerial /\ EvInv /\ TwoAtMost

\* What mdadm does to the arrays, when the one it saw is still there.
LEMMA MdTypes ==
  ASSUME HandlersTyped, DevicesTyped, ArraysTyped, hotplug \in BOOLEAN,
         NEW hp \in [Handlers -> HandlerLocations],
         NEW D \in SUBSET Members, NEW r \in BOOLEAN, NEW q \in BOOLEAN,
         NEW n \in 0..2, n <= Len(arrays), n = 0 => Len(arrays) <= 1,
         \/ NothingToAdd(hp)
         \/ n = 0 /\ CreateArray(D, r, hp)
         \/ n # 0 /\ JoinArray(n, D, q, hp)
  PROVE  /\ ArraysTyped' /\ HandlersTyped' /\ MovesOn(hp) /\ present' \subseteq Devices
         /\ Len(arrays') \in {Len(arrays), Len(arrays) + 1}
         /\ n # 0 => Len(arrays') = Len(arrays)
<1> DEFINE N == Len(arrays)
<1>0. arrays \in Seq(ArrayType) /\ N \in Nat /\ N <= 2 /\ rejected \subseteq Members
  BY LenProperties DEF ArraysTyped
<1>1. CASE NothingToAdd(hp)
  <2>1. hpc' = hp /\ UNCHANGED <<seqnum, ev, arrays, present, rejected>>
    BY <1>1 DEF NothingToAdd
  <2> QED  BY <2>1 DEF ArraysTyped, HandlersTyped, DevicesTyped, MovesOn
<1>2. CASE n = 0 /\ CreateArray(D, r, hp)
  <2> DEFINE m == MdNames[N + 1]
             a == [mem |-> D, run |-> r]
  <2>1. m \in Devices
    <3>1. N = 0 \/ N = 1
      <4>1. N <= 1  BY <1>2
      <4> HIDE DEF N
      <4> QED  BY <4>1, <1>0
    <3>2. N + 1 = 1 \/ N + 1 = 2
      <4> HIDE DEF N
      <4> QED  BY <3>1
    <3> HIDE DEF N
    <3> QED  BY <3>2 DEF Devices
  <2>2. /\ arrays' = Append(arrays, a) /\ present' = present \cup {m}
        /\ UNCHANGED rejected /\ Uevent(hp, "add", m)
    BY <1>2 DEF CreateArray
  <2>3. a \in ArrayType  BY DEF ArrayType
  <2> HIDE DEF a, m
  <2>4. arrays' \in Seq(ArrayType) /\ Len(arrays') = N + 1
    BY <1>0, <2>2, <2>3, AppendProperties
  <2>5. HandlersTyped'
        /\ \A k \in Handlers :
              \/ hpc'[k] = hp[k] /\ ev'[k] = ev[k]
              \/ /\ hpc[k] = "none" /\ hpc'[k] = "node"
                 /\ ev'[k] = [action |-> "add", dev |-> m]
    BY <2>1, <2>2, UeventStarts
  <2>6. MovesOn(hp)
    <3>1. [action |-> "add", dev |-> m] \in Event  BY <2>1 DEF Event
    <3> QED  BY <3>1, <2>5 DEF MovesOn
  <2>7. N + 1 <= 2
    <3>1. N <= 1  BY <1>2
    <3> HIDE DEF N
    <3> QED  BY <3>1, <1>0
  <2>8. Len(arrays') <= 2 /\ Len(arrays') \in {N, N + 1}  BY <2>4, <2>7
  <2> QED  BY <1>0, <1>2, <2>1, <2>2, <2>4, <2>5, <2>6, <2>8 DEF ArraysTyped, DevicesTyped
<1>3. CASE n # 0 /\ JoinArray(n, D, q, hp)
  <2>1. PICK T \in SUBSET D :
          /\ arrays' = [arrays EXCEPT ![n].mem = @ \cup T,
                                      ![n].run = @ \/ (T # {} /\ q)]
          /\ rejected' = (rejected \cup D) \ T
    BY <1>3 DEF JoinArray
  <2>2. hpc' = hp /\ UNCHANGED <<seqnum, ev, present>>  BY <1>3 DEF JoinArray
  <2>3. n \in 1..N
    <3>1. n <= N /\ n # 0 /\ n \in 0..2  BY <1>3
    <3> HIDE DEF N
    <3> QED  BY <3>1, <1>0
  <2> DEFINE a == arrays[n]
             b == [a EXCEPT !.mem = @ \cup T, !.run = @ \/ (T # {} /\ q)]
  <2>4. a \in ArrayType  BY <1>0, <2>3, ElementOfSeq
  <2>5. b \in ArrayType  BY <2>4 DEF ArrayType
  <2>6. arrays' = [arrays EXCEPT ![n] = b]
    BY <2>1, <1>0, <2>3
  <2> HIDE DEF a, b
  <2>7. arrays' \in Seq(ArrayType) /\ Len(arrays') = N
    BY <1>0, <2>3, <2>5, <2>6, ExceptSeq
  <2>8. rejected' \subseteq Members  BY <1>0, <2>1
  <2> QED  BY <1>0, <1>3, <2>2, <2>7, <2>8 DEF ArraysTyped, HandlersTyped, DevicesTyped, MovesOn
<1> QED  BY <1>1, <1>2, <1>3

\* Who has found no array has found it when there was none.
LEMMA SeesNone ==
  ASSUME ArraysTyped, NEW n \in 0..2, Sees(n)
  PROVE  n <= Len(arrays) /\ (n = 0 => Len(arrays) = 0)
<1> DEFINE N == Len(arrays)
<1>1. arrays \in Seq(ArrayType) /\ N \in Nat  BY LenProperties DEF ArraysTyped
<1>2. IF arrays = <<>> THEN n = 0 ELSE n \in 1..N  BY DEF Sees
<1>3. arrays = <<>> => N = 0  OBVIOUS
<1> HIDE DEF N
<1>4. n <= N /\ (n = 0 => N = 0)  BY <1>1, <1>2, <1>3
<1> QED  BY <1>4 DEF N

\* Steps in which nobody finds or makes an array.
LEMMA TwoKept ==
  ASSUME TwoAtMost, Len(arrays') = Len(arrays), saw' = saw, pc' # "assembling" \/ pc' = pc,
         \A h \in Handlers : hpc'[h] = "adding" => hpc[h] = "adding"
  PROVE  TwoAtMost'
BY DEF TwoAtMost, InitCreates, HandlerCreates

LEMMA RaceInit == ASSUME RaceInv, LockInv', InitScript PROVE RaceInv'
<1>0. /\ hpc \in [Handlers -> HandlerLocations] /\ HandlersTyped /\ EvInv /\ TwoAtMost
      /\ ArraysTyped /\ SawTyped /\ DevicesTyped /\ InitTyped
  BY DEF RaceInv, HandlersTyped
<1>1. HandlersSerial'  BY DEF LockInv
<1>2. CASE assembling
  <2> DEFINE n == saw[0]
             D == {d \in found : ~ InArray(d)}
             r == Cardinality(D) >= Enough
             q == Cardinality(arrays[n].mem \cup D) >= Enough
  <2>1. /\ pc = "assembling" /\ pc' = "modules" /\ found' = {}
        /\ saw' = [saw EXCEPT ![0] = 0]
        /\ UNCHANGED <<todo, timeout, elapsed, hotplug, lock, nodes>>
        /\ \/ NothingToAdd(hpc)
           \/ n = 0 /\ CreateArray(D, r, hpc)
           \/ n # 0 /\ JoinArray(n, D, q, hpc)
    BY <1>2 DEF assembling
  <2>2. n \in 0..2 /\ D \in SUBSET Members /\ r \in BOOLEAN /\ q \in BOOLEAN
    BY <1>0 DEF SawTyped, InitTyped
  <2>3. n <= Len(arrays) /\ (n = 0 => Len(arrays) <= 1)
    BY <1>0, <2>1 DEF TwoAtMost, InitCreates
  <2> HIDE DEF n, D, r, q
  <2>4. hotplug \in BOOLEAN  BY <1>0 DEF InitTyped
  <2>5. /\ ArraysTyped' /\ HandlersTyped' /\ MovesOn(hpc) /\ present' \subseteq Devices
        /\ Len(arrays') \in {Len(arrays), Len(arrays) + 1}
        /\ n # 0 => Len(arrays') = Len(arrays)
    BY <1>0, <2>1, <2>2, <2>3, <2>4, MdTypes
  <2>6. EvInv'  BY <1>0, <2>5 DEF EvInv, MovesOn
  <2>7. SawTyped' /\ \A h \in Handlers : saw'[h] = saw[h] /\ h # 0
    BY <1>0, <2>1, RamdiskAssumption DEF SawTyped, Handlers
  <2>8. HandlerCreates' => HandlerCreates
    BY <2>5, <2>7 DEF HandlerCreates, MovesOn
  <2>9. Len(arrays) \in Nat  BY <1>0, LenProperties DEF ArraysTyped
  <2>10. TwoAtMost'
    <3> DEFINE N == Len(arrays)
               M == Len(arrays')
    <3>1. ~ InitCreates'  BY <2>1 DEF InitCreates
    <3>2. HandlerCreates' => M <= 1
      <4>1. HandlerCreates => N <= 1 /\ (n = 0 => N = 0)
        BY <1>0, <2>1 DEF TwoAtMost, InitCreates, n
      <4>2. N \in Nat /\ M \in {N, N + 1} /\ (n # 0 => M = N)  BY <2>5, <2>9
      <4> HIDE DEF N, M
      <4> QED  BY <4>1, <4>2, <2>8
    <3>3. saw'[0] = 0  BY <1>0, <2>1 DEF SawTyped
    <3>4. \A a \in {0} \cup Handlers : saw'[a] <= M
      <4>1. \A a \in {0} \cup Handlers : saw[a] <= N /\ saw[a] \in 0..2
        BY <1>0 DEF TwoAtMost, SawTyped
      <4>2. N \in Nat /\ M \in {N, N + 1}  BY <2>5, <2>9
      <4> HIDE DEF N, M
      <4> QED  BY <4>1, <4>2, <3>3, <2>7
    <3> QED  BY <3>1, <3>2, <3>4 DEF TwoAtMost
  <2>11. InitTyped' /\ DevicesTyped'
    BY <1>0, <2>1, <2>5 DEF InitTyped, InitLocations, DevicesTyped
  <2> QED  BY <1>1, <2>5, <2>6, <2>7, <2>10, <2>11 DEF RaceInv
<1>3. CASE assemble
  <2>1. /\ pc = "assemble" /\ pc' = "assembling" /\ found' = Members \cap present \cap nodes
        /\ UNCHANGED <<todo, timeout, elapsed, hotplug, hvars, arrays, rejected, lock,
                       present, nodes>>
    BY <1>3 DEF assemble
  <2>2. PICK n \in 0..2 : Sees(n) /\ saw' = [saw EXCEPT ![0] = n]
    BY <1>3 DEF assemble
  <2>3. HandlersTyped' /\ MovesOn(hpc)  BY <1>0, <2>1, Keep
  <2>4. EvInv'  BY <1>0, <2>3 DEF EvInv, MovesOn
  <2>5. /\ SawTyped' /\ saw'[0] = n
        /\ \A h \in Handlers : saw'[h] = saw[h] /\ h # 0
    BY <1>0, <2>2, RamdiskAssumption DEF SawTyped, Handlers
  <2>6. n <= Len(arrays) /\ (n = 0 => Len(arrays) = 0)  BY <1>0, <2>2, SeesNone
  <2>7. HandlerCreates' <=> HandlerCreates
    BY <2>1, <2>5 DEF HandlerCreates, hvars
  <2>8. TwoAtMost'
    <3>1. InitCreates' => Len(arrays) = 0  BY <2>5, <2>6 DEF InitCreates
    <3>2. HandlerCreates => Len(arrays) <= 1  BY <1>0 DEF TwoAtMost
    <3>3. \A a \in {0} \cup Handlers : saw'[a] <= Len(arrays)
      BY <1>0, <2>5, <2>6 DEF TwoAtMost
    <3> QED  BY <2>1, <2>7, <3>1, <3>2, <3>3 DEF TwoAtMost
  <2>9. InitTyped' /\ DevicesTyped' /\ ArraysTyped'
    BY <1>0, <2>1 DEF InitTyped, InitLocations, DevicesTyped, ArraysTyped
  <2> QED  BY <1>1, <2>3, <2>4, <2>5, <2>8, <2>9 DEF RaceInv
<1>4. CASE ~ assembling /\ ~ assemble
  <2>1. /\ UNCHANGED <<hvars, mdvars, present>> /\ pc' # "assembling"
        /\ InitTyped' /\ DevicesTyped'
    BY <1>0, <1>4, PlainInit
  <2>2. HandlersTyped' /\ MovesOn(hpc)  BY <1>0, <2>1, Keep
  <2>3. EvInv'  BY <1>0, <2>2 DEF EvInv, MovesOn
  <2>4. TwoAtMost'  BY <1>0, <2>1, TwoKept DEF hvars, mdvars
  <2>5. ArraysTyped' /\ SawTyped'  BY <1>0, <2>1 DEF ArraysTyped, SawTyped, mdvars
  <2> QED  BY <1>1, <2>1, <2>2, <2>3, <2>4, <2>5 DEF RaceInv
<1> QED  BY <1>2, <1>3, <1>4

LEMMA RaceHandler ==
  ASSUME RaceInv, LockInv', NEW h \in Handlers, Handler(h) PROVE RaceInv'
<1>0. /\ hpc \in [Handlers -> HandlerLocations] /\ HandlersTyped /\ EvInv /\ TwoAtMost
      /\ ArraysTyped /\ SawTyped /\ DevicesTyped /\ InitTyped /\ HandlersSerial
  BY DEF RaceInv, HandlersTyped
<1>1. HandlersSerial'  BY DEF LockInv
<1>2. h # 0 /\ h \in {0} \cup Handlers  BY RamdiskAssumption DEF Handlers
<1>3. CASE h_node(h) \/ h_blkid(h) \/ mdlock(h) \/ mdunlock(h)
  <2>1. PICK l \in {"none", "blkid", "lock_run", "lock_inc", "run", "inc"} :
          /\ HStep(h, l) /\ hpc[h] # "none"
          /\ l \in {"lock_inc", "inc"} => ev[h].dev \in Members
          /\ UNCHANGED <<ivars, saw, arrays, rejected, present>>
          /\ nodes' \subseteq Devices /\ lock' \in BOOLEAN
    BY <1>0, <1>3, PlainHandler
  <2>2. l \in HandlerLocations  BY DEF HandlerLocations, LockLocations, Holding
  <2>3. /\ HandlersTyped'
        /\ \A k \in Handlers : k # h => hpc'[k] = hpc[k] /\ ev'[k] = ev[k]
        /\ hpc'[h] = l /\ (l # "none" => ev'[h] = ev[h])
    BY <1>0, <2>1, <2>2, HandlerMoves
  <2>4. EvInv'  BY <1>0, <2>1, <2>3 DEF EvInv
  <2>5. TwoAtMost'  BY <1>0, <2>1, <2>3, TwoKept DEF ivars
  <2>6. InitTyped' /\ DevicesTyped' /\ ArraysTyped' /\ SawTyped'
    BY <1>0, <2>1 DEF InitTyped, DevicesTyped, ArraysTyped, SawTyped, ivars
  <2> QED  BY <1>1, <2>3, <2>4, <2>5, <2>6 DEF RaceInv
<1>4. CASE h_run(h)
  <2>1. hpc[h] = "run" /\ HStep(h, "unlock_run") /\ UNCHANGED <<ivars, saw, lock, present, nodes>>
    BY <1>4 DEF h_run
  <2>2. "unlock_run" \in HandlerLocations  BY DEF HandlerLocations, Holding
  <2>3. /\ HandlersTyped'
        /\ \A k \in Handlers : k # h => hpc'[k] = hpc[k] /\ ev'[k] = ev[k]
        /\ hpc'[h] = "unlock_run" /\ ev'[h] = ev[h]
    BY <1>0, <2>1, <2>2, HandlerMoves
  <2>4. EvInv'  BY <1>0, <2>1, <2>3 DEF EvInv
  <2>5. ArraysTyped' /\ Len(arrays') = Len(arrays)  BY <1>0, <1>4, RunKeeps DEF ArraysTyped
  <2>6. TwoAtMost'  BY <1>0, <2>1, <2>3, <2>5, TwoKept DEF ivars
  <2>7. InitTyped' /\ DevicesTyped' /\ SawTyped'
    BY <1>0, <2>1 DEF InitTyped, DevicesTyped, SawTyped, ivars
  <2> QED  BY <1>1, <2>3, <2>4, <2>5, <2>6, <2>7 DEF RaceInv
<1>5. CASE h_inc(h)
  <2>1. /\ HStep(h, "adding") /\ hpc[h] = "inc"
        /\ UNCHANGED <<ivars, arrays, rejected, lock, present, nodes>>
    BY <1>5 DEF h_inc
  <2>2. PICK n \in 0..2 : Sees(n) /\ saw' = [saw EXCEPT ![h] = n]
    BY <1>5 DEF h_inc
  <2>3. "adding" \in HandlerLocations  BY DEF HandlerLocations, Holding
  <2>4. /\ HandlersTyped'
        /\ \A k \in Handlers : k # h => hpc'[k] = hpc[k] /\ ev'[k] = ev[k]
        /\ hpc'[h] = "adding" /\ ev'[h] = ev[h]
    BY <1>0, <2>1, <2>3, HandlerMoves
  <2>5. EvInv'  BY <1>0, <2>1, <2>4 DEF EvInv
  <2>6. saw'[h] = n /\ SawTyped' /\ \A a \in {0} \cup Handlers : a # h => saw'[a] = saw[a]
    BY <1>0, <1>2, <2>2 DEF SawTyped
  <2>7. n <= Len(arrays) /\ (n = 0 => Len(arrays) = 0)  BY <1>0, <2>2, SeesNone
  <2>8. HandlerCreates' => HandlerCreates \/ n = 0
    BY <2>4, <2>6 DEF HandlerCreates
  <2>9. InitCreates' <=> InitCreates  BY <1>2, <2>1, <2>6 DEF InitCreates, ivars
  <2>10. \A a \in {0} \cup Handlers : saw'[a] <= Len(arrays)
    BY <1>0, <2>6, <2>7 DEF TwoAtMost
  <2>11. TwoAtMost'
    <3>1. InitCreates \/ HandlerCreates => Len(arrays) <= 1  BY <1>0 DEF TwoAtMost
    <3>2. InitCreates /\ HandlerCreates => Len(arrays) = 0  BY <1>0 DEF TwoAtMost
    <3> QED  BY <2>1, <2>7, <2>8, <2>9, <2>10, <3>1, <3>2 DEF TwoAtMost
  <2>12. InitTyped' /\ DevicesTyped' /\ ArraysTyped'
    BY <1>0, <2>1 DEF InitTyped, DevicesTyped, ArraysTyped, ivars
  <2> QED  BY <1>1, <2>4, <2>5, <2>6, <2>11, <2>12 DEF RaceInv
<1>6. CASE h_adding(h)
  <2> DEFINE next == HGoto(h, "unlock_inc")
             n == saw[h]
             d == ev[h].dev
             r == {d} = Members
             q == arrays[n].mem \cup {d} = Members
  <2>1. /\ hpc[h] = "adding" /\ saw' = [saw EXCEPT ![h] = 0] /\ UNCHANGED <<ivars, lock, nodes>>
        /\ \/ NothingToAdd(next)
           \/ n = 0 /\ CreateArray({d}, r, next)
           \/ n # 0 /\ JoinArray(n, {d}, q, next)
    BY <1>6 DEF h_adding
  <2>2. next \in [Handlers -> HandlerLocations]
        /\ \A k \in Handlers : (k # h => next[k] = hpc[k]) /\ next[h] = "unlock_inc"
    BY <1>0 DEF HGoto, HandlerLocations, Holding
  <2>3. n \in 0..2 /\ {d} \in SUBSET Members /\ r \in BOOLEAN /\ q \in BOOLEAN
    BY <1>0, <2>1 DEF SawTyped, EvInv
  <2>4. n <= Len(arrays) /\ (n = 0 => Len(arrays) <= 1)
    BY <1>0, <1>2, <2>1 DEF TwoAtMost, HandlerCreates
  <2>5. hotplug \in BOOLEAN  BY <1>0 DEF InitTyped
  <2>6. HandlerCreates /\ n # 0 => FALSE
    BY <1>0, <2>1 DEF HandlersSerial, HandlerCreates, Holding
  <2>7. InitCreates /\ n = 0 => Len(arrays) = 0
    BY <1>0, <2>1 DEF TwoAtMost, HandlerCreates
  <2> HIDE DEF next, n, d, r, q
  <2>8. /\ ArraysTyped' /\ HandlersTyped' /\ MovesOn(next) /\ present' \subseteq Devices
        /\ Len(arrays') \in {Len(arrays), Len(arrays) + 1}
        /\ n # 0 => Len(arrays') = Len(arrays)
    BY <1>0, <2>1, <2>2, <2>3, <2>4, <2>5, MdTypes
  <2>9. EvInv'
    BY <1>0, <2>1, <2>2, <2>8, EvMoves DEF EvInv, MovesOn
  <2>10. \A k \in Handlers : hpc'[k] # "adding"
    <3>1. \A k \in Handlers : k # h => hpc[k] # "adding"
      BY <1>0, <2>1 DEF HandlersSerial, Holding
    <3> QED  BY <2>2, <2>8, <3>1 DEF MovesOn
  <2>11. saw'[h] = 0 /\ SawTyped' /\ \A a \in {0} \cup Handlers : a # h => saw'[a] = saw[a]
    BY <1>0, <1>2, <2>1 DEF SawTyped
  <2>12. Len(arrays) \in Nat  BY <1>0, LenProperties DEF ArraysTyped
  <2>13. TwoAtMost'
    <3> DEFINE N == Len(arrays)
               M == Len(arrays')
    <3>1. ~ HandlerCreates'  BY <2>10 DEF HandlerCreates
    <3>2. InitCreates' => M <= 1
      <4>1. InitCreates' => InitCreates
        BY <1>2, <2>1, <2>11 DEF InitCreates, ivars
      <4>2. InitCreates => N <= 1 /\ (n = 0 => N = 0)
        BY <1>0, <2>7 DEF TwoAtMost
      <4>3. N \in Nat /\ M \in {N, N + 1} /\ (n # 0 => M = N)  BY <2>8, <2>12
      <4> HIDE DEF N, M
      <4> QED  BY <4>1, <4>2, <4>3
    <3>3. \A a \in {0} \cup Handlers : saw'[a] <= M
      <4>1. \A a \in {0} \cup Handlers : saw[a] <= N /\ saw[a] \in 0..2
        BY <1>0 DEF TwoAtMost, SawTyped
      <4>2. N \in Nat /\ M \in {N, N + 1}  BY <2>8, <2>12
      <4> HIDE DEF N, M
      <4> QED  BY <4>1, <4>2, <2>11
    <3> QED  BY <3>1, <3>2, <3>3 DEF TwoAtMost
  <2>14. InitTyped' /\ DevicesTyped'
    BY <1>0, <2>1, <2>8 DEF InitTyped, DevicesTyped, ivars
  <2> QED  BY <1>1, <2>8, <2>9, <2>11, <2>13, <2>14 DEF RaceInv
<1> QED  BY <1>3, <1>4, <1>5, <1>6 DEF Handler

LEMMA RaceKernel == ASSUME RaceInv, LockInv', Kernel PROVE RaceInv'
<1>0. /\ hpc \in [Handlers -> HandlerLocations] /\ HandlersTyped /\ EvInv /\ TwoAtMost
      /\ ArraysTyped /\ SawTyped /\ DevicesTyped /\ InitTyped
  BY DEF RaceInv, HandlersTyped
<1>1. HandlersSerial'  BY DEF LockInv
<1>2. HandlersTyped' /\ MovesOn(hpc)  BY <1>0, KernelMoves DEF InitTyped
<1>3. EvInv'  BY <1>0, <1>2 DEF EvInv, MovesOn
<1>4. UNCHANGED <<ivars, mdvars, lock, nodes>> /\ present' \subseteq Devices
  <2>1. Disks \subseteq Devices  BY DEF Devices
  <2> QED  BY <1>0, <2>1 DEF Kernel, DiskAppears, DiskChanges, DiskRemoved, DevicesTyped
<1>5. TwoAtMost'
  BY <1>0, <1>2, <1>4, TwoKept DEF MovesOn, ivars, mdvars
<1>6. InitTyped' /\ ArraysTyped' /\ SawTyped' /\ DevicesTyped'
  BY <1>0, <1>4 DEF InitTyped, ArraysTyped, SawTyped, DevicesTyped, ivars, mdvars
<1> QED  BY <1>1, <1>2, <1>3, <1>5, <1>6 DEF RaceInv

\* Every variable keeps its type, also when handlers call mdadm while /init does
\* (init_template:110, hotplug:48-69): mdadm then makes two arrays of the set, but
\* never a third.
THEOREM TypeCorrect == Spec => []TypeOK
<1>1. Init => RaceInv
  <2>1. Init => Core  BY CoreInit
  <2>2. Init => ArraysTyped /\ TwoAtMost
    BY EmptySeq DEF Init, ArraysTyped, TwoAtMost, InitCreates, HandlerCreates
  <2> QED  BY <2>1, <2>2 DEF Core, Typed, RaceInv
<1>2. RaceInv /\ [Next]_vars => RaceInv'
  <2> SUFFICES ASSUME RaceInv, [Next]_vars PROVE RaceInv'
    OBVIOUS
  <2>1. LockInv'  BY LockNext DEF RaceInv, LockInv, HandlersTyped
  <2>2. CASE UNCHANGED vars
    BY <2>2 DEF vars, ivars, hvars, mdvars, RaceInv, InitTyped, HandlersTyped, SawTyped,
       DevicesTyped, ArraysTyped, HandlersSerial, switched, EvInv, TwoAtMost, InitCreates,
       HandlerCreates
  <2> QED  BY <2>1, <2>2, RaceInit, RaceHandler, RaceKernel DEF Next
<1>3. RaceInv /\ overtaken \subseteq Disks => TypeOK
  BY DEF RaceInv, InitTyped, HandlersTyped, SawTyped, DevicesTyped, ArraysTyped, TypeOK,
     ArrayType
<1> QED  BY <1>1, <1>2, <1>3, OvertakenTyped, PTL DEF Spec

=============================================================================
