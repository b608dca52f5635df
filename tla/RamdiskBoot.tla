----------------------------- MODULE RamdiskBoot -----------------------------
(***************************************************************************)
(* Booting from the initial ramdisk that mvmkramdisk makes: its /init      *)
(* (init_template) and the hotplug handlers the kernel starts meanwhile    *)
(* (hotplug).  The kernel starts one process per uevent as long as         *)
(* /proc/sys/kernel/hotplug names the script, and they run side by side    *)
(* with /init.  mdadm and the kernel's md driver are modelled as far as    *)
(* these two scripts use them: one RAID set, which holds the root.         *)
(***************************************************************************)
EXTENDS Integers, Sequences, FiniteSets

CONSTANTS
  Disks,         \* block devices but for the md arrays
  Members,       \* the disks of the RAID set
  MdNames,       \* names md arrays get, in the order they are created
  Enough,        \* members an array needs to run
  Removable,     \* disks that can be unplugged
  RoOrRw,        \* "ro" or "rw" is on the kernel command line
  QuietAssemble, \* assumed: no handler calls mdadm while /init does
  Counter,       \* what the wait for the root counts down from: 600 / 5
  MaxUevents,    \* bound on the uevents
  MaxHandlers    \* bound on the handlers running at a time

ASSUME RamdiskAssumption ==
  /\ Members \subseteq Disks /\ Removable \subseteq Disks \ Members
  /\ Len(MdNames) = 2
  /\ {MdNames[1], MdNames[2]} \cap Disks = {}
  /\ Enough \in Nat \ {0}
  /\ RoOrRw \in BOOLEAN /\ QuietAssemble \in BOOLEAN
  /\ Counter \in Nat /\ MaxUevents \in Nat /\ MaxHandlers \in Nat

Handlers == 1..MaxHandlers
Devices  == Disks \cup {MdNames[1], MdNames[2]}

VARIABLES
  pc,        \* the step /init is about to take
  todo,      \* lines of /proc/diskstats the loop has not read
  found,     \* members /init's mdadm has found
  saw,       \* saw[a]: the array mdadm, called by a, found the RAID set in
  timeout,   \* the counter of the wait for the root device
  elapsed,   \* seconds slept in that wait
  hotplug,   \* uevents start handlers
  seqnum,    \* uevents so far
  ev,        \* ev[h]: ACTION and DEVNAME of handler h
  hpc,       \* hpc[h]: the step handler h is about to take, "none" if not running
  lock,      \* /dev/.md.lock exists
  present,   \* block devices of the kernel
  nodes,     \* device nodes in /dev
  arrays,    \* the md arrays: members, and whether running
  rejected,  \* members a running array did not take back
  overtaken  \* history: disks back before the handler of their removal has run

ivars  == <<pc, todo, found, timeout, elapsed, hotplug>>
hvars  == <<seqnum, ev, hpc>>
mdvars == <<saw, arrays, rejected>>
vars   == <<ivars, hvars, mdvars, lock, present, nodes, overtaken>>

InitLocations ==
  {"hotplug", "open", "scan", "assemble", "assembling", "modules",
   "wait", "settle", "disable", "switch", "switched", "shell", "panic"}
LockLocations == {"lock_run", "lock_inc"}
Holding == {"run", "unlock_run", "inc", "adding", "unlock_inc"}
HandlerLocations ==
  {"none", "node", "blkid"} \cup LockLocations \cup Holding

Event == [action : {"add", "remove", "change"}, dev : Devices]
NoEvent == [action |-> "none", dev |-> "none"]

TypeOK ==
  /\ pc \in InitLocations
  /\ todo \subseteq Devices /\ found \subseteq Members
  /\ saw \in [{0} \cup Handlers -> 0..2]
  /\ timeout \in -5..Counter /\ elapsed \in Nat
  /\ hotplug \in BOOLEAN /\ lock \in BOOLEAN
  /\ seqnum \in 0..MaxUevents
  /\ ev \in [Handlers -> Event \cup {NoEvent}]
  /\ hpc \in [Handlers -> HandlerLocations]
  /\ present \subseteq Devices /\ nodes \subseteq Devices
  /\ arrays \in Seq([mem : SUBSET Members, run : BOOLEAN])
  /\ Len(arrays) <= 2
  /\ rejected \subseteq Members /\ overtaken \subseteq Disks

switched == pc = "switched"
panicked == pc = "panic"

-----------------------------------------------------------------------------
(* The kernel: uevents, and disks that come and go.                        *)

\* Device d gets uevent a: a handler starts.  Meanwhile the handlers that run
\* have come to hp.
Uevent(hp, a, d) ==
  IF hotplug
  THEN /\ seqnum < MaxUevents
       /\ seqnum' = seqnum + 1
       /\ \E h \in Handlers :
            /\ hpc[h] = "none" /\ \A k \in 1..(h-1) : hpc[k] # "none"
            /\ ev' = [ev EXCEPT ![h] = [action |-> a, dev |-> d]]
            /\ hpc' = [hp EXCEPT ![h] = "node"]
  ELSE UNCHANGED <<seqnum, ev>> /\ hpc' = hp

Busy(h) == hpc[h] # "none"

\* The bounds leave room for the uevents of the arrays.
RoomForDisks ==
  /\ seqnum + 2 - Len(arrays) < MaxUevents
  /\ Cardinality({h \in Handlers : Busy(h)}) + 2 - Len(arrays) < MaxHandlers

\* The handler of a removal of d has not come to its rm.
RemovalPending(d) ==
  \E h \in Handlers : hpc[h] = "node" /\ ev[h] = [action |-> "remove", dev |-> d]

DiskAppears == \E d \in Disks \ present :
  /\ RoomForDisks
  /\ present' = present \cup {d}
  /\ overtaken' = IF RemovalPending(d) THEN overtaken \cup {d} ELSE overtaken \ {d}
  /\ Uevent(hpc, "add", d)
  /\ UNCHANGED <<ivars, mdvars, lock, nodes>>

DiskChanges == \E d \in present \cap Members :
  /\ RoomForDisks
  /\ hotplug
  /\ Uevent(hpc, "change", d)
  /\ UNCHANGED <<ivars, mdvars, lock, present, nodes, overtaken>>

DiskRemoved == \E d \in present \cap Removable :
  /\ RoomForDisks
  /\ present' = present \ {d}
  /\ Uevent(hpc, "remove", d)
  /\ UNCHANGED <<ivars, mdvars, lock, nodes, overtaken>>

-----------------------------------------------------------------------------
(* mdadm and the md driver.                                                *)

InArray(d) == \E n \in 1..Len(arrays) : d \in arrays[n].mem

\* The array the RAID set is found in, 0 when there is none.
Sees(n) == IF arrays = <<>> THEN n = 0 ELSE n \in 1..Len(arrays)

\* A new array of devices D; its node comes with a uevent of its own.
CreateArray(D, running, hp) ==
  LET md == MdNames[Len(arrays) + 1] IN
  /\ arrays' = Append(arrays, [mem |-> D, run |-> running])
  /\ present' = present \cup {md}
  /\ Uevent(hp, "add", md)
  /\ UNCHANGED rejected

\* Devices D join array n.  A running array takes back what it likes.
JoinArray(n, D, running, hp) ==
  /\ \E T \in (IF arrays[n].run THEN SUBSET D ELSE {D}) :
       /\ arrays' = [arrays EXCEPT ![n].mem = @ \cup T,
                                   ![n].run = @ \/ (T # {} /\ running)]
       /\ rejected' = (rejected \cup D) \ T
  /\ hpc' = hp
  /\ UNCHANGED <<seqnum, ev, present>>

NothingToAdd(hp) == hpc' = hp /\ UNCHANGED <<seqnum, ev, arrays, present, rejected>>

-----------------------------------------------------------------------------
(* hotplug: one process for each uevent.                                   *)

HGoto(h, l) == [hpc EXCEPT ![h] = l]
HStep(h, l) ==
  /\ hpc' = HGoto(h, l)
  /\ ev' = IF l = "none" THEN [ev EXCEPT ![h] = NoEvent] ELSE ev
  /\ UNCHANGED seqnum

\* Create or remove the device node.  The add event of an array starts it; other
\* additions and changes are looked at with blkid.
h_node(h) ==
  /\ hpc[h] = "node"
  /\ nodes' = IF switched THEN nodes
              ELSE CASE ev[h].action = "add"    -> nodes \cup {ev[h].dev}
                     [] ev[h].action = "remove" -> nodes \ {ev[h].dev}
                     [] OTHER                   -> nodes
  /\ HStep(h, CASE ev[h].action = "remove" -> "none"
                [] ev[h].dev \in Disks      -> "blkid"
                [] OTHER                    -> "lock_run")
  /\ UNCHANGED <<ivars, mdvars, lock, present>>

\* Variant: arrays are fed by change events only.
h_blkid_change_only(h) ==
  /\ hpc[h] = "blkid"
  /\ HStep(h, IF /\ ev[h].action = "change"
                 /\ ev[h].dev \in Members \cap present \cap nodes
              THEN "lock_inc" ELSE "none")
  /\ UNCHANGED <<ivars, mdvars, lock, present, nodes>>

\* blkid reads the device through its node.
h_blkid(h) ==
  /\ hpc[h] = "blkid"
  /\ HStep(h, IF /\ ev[h].action \in {"add", "change"}
                 /\ ev[h].dev \in Members \cap present \cap nodes
              THEN "lock_inc" ELSE "none")
  /\ UNCHANGED <<ivars, mdvars, lock, present, nodes>>

\* What mdlock leads to.
Locked == [lock_run |-> "run", lock_inc |-> "inc"]

\* Variant: mkdir -p, which succeeds on a directory that is there.
mdlock_p(h) ==
  /\ hpc[h] \in LockLocations
  /\ ~ switched
  /\ ~ (QuietAssemble /\ pc = "assembling")
  /\ lock' = TRUE
  /\ HStep(h, Locked[hpc[h]])
  /\ UNCHANGED <<ivars, mdvars, present, nodes>>

\* mkdir is the test and the setting of the lock; while it fails, and when the
\* ramdisk is gone, the loop goes on.
mdlock(h) ==
  /\ hpc[h] \in LockLocations
  /\ ~ lock /\ ~ switched
  /\ ~ (QuietAssemble /\ pc = "assembling")
  /\ lock' = TRUE
  /\ HStep(h, Locked[hpc[h]])
  /\ UNCHANGED <<ivars, mdvars, present, nodes>>

\* mdadm --run: the array starts with the members it has.
h_run(h) ==
  /\ hpc[h] = "run"
  /\ arrays' = [n \in 1..Len(arrays) |->
                  IF /\ MdNames[n] = ev[h].dev
                     /\ Cardinality(arrays[n].mem) >= Enough
                  THEN [arrays[n] EXCEPT !.run = TRUE] ELSE arrays[n]]
  /\ HStep(h, "unlock_run")
  /\ UNCHANGED <<ivars, saw, rejected, lock, present, nodes>>

\* mdadm --incremental looks for the array of the device ...
h_inc(h) ==
  /\ hpc[h] = "inc"
  /\ \E n \in 0..2 : Sees(n) /\ saw' = [saw EXCEPT ![h] = n]
  /\ HStep(h, "adding")
  /\ UNCHANGED <<ivars, arrays, rejected, lock, present, nodes>>

\* ... and adds the device to it, or makes it.
h_adding(h) ==
  LET d == ev[h].dev  next == HGoto(h, "unlock_inc") IN
  /\ hpc[h] = "adding"
  /\ \/ InArray(d) /\ NothingToAdd(next)
     \/ /\ ~ InArray(d) /\ saw[h] = 0
        /\ CreateArray({d}, {d} = Members, next)
     \/ /\ ~ InArray(d) /\ saw[h] # 0
        /\ JoinArray(saw[h], {d}, arrays[saw[h]].mem \cup {d} = Members, next)
  /\ saw' = [saw EXCEPT ![h] = 0]
  /\ UNCHANGED <<ivars, lock, nodes>>

\* Variant: the path of --incremental keeps the lock.
mdunlock_run_only(h) ==
  /\ hpc[h] \in {"unlock_run", "unlock_inc"}
  /\ lock' = (lock /\ hpc[h] = "unlock_inc")
  /\ HStep(h, "none")
  /\ UNCHANGED <<ivars, mdvars, present, nodes>>

mdunlock(h) ==
  /\ hpc[h] \in {"unlock_run", "unlock_inc"}
  /\ lock' = FALSE
  /\ HStep(h, "none")
  /\ UNCHANGED <<ivars, mdvars, present, nodes>>

Handler(h) ==
  /\ ~ panicked /\ UNCHANGED overtaken
  /\ \/ h_node(h) \/ h_blkid(h)
     \/ mdlock(h) \/ h_run(h) \/ h_inc(h) \/ h_adding(h) \/ mdunlock(h)

-----------------------------------------------------------------------------
(* init_template.                                                          *)

IGoto(l) == pc' = l /\ UNCHANGED <<todo, found, timeout, elapsed, hotplug>>

\* Variant: /proc/diskstats is opened before uevents are handled.
activate_hotplug_after_open ==
  /\ \/ pc = "hotplug" /\ pc' = "open" /\ todo' = present /\ UNCHANGED hotplug
     \/ pc = "open" /\ pc' = "scan" /\ hotplug' = TRUE /\ UNCHANGED todo
  /\ UNCHANGED <<found, timeout, elapsed, hvars, mdvars, lock, present, nodes>>

activate_hotplug ==
  /\ pc = "hotplug"
  /\ pc' = "open" /\ hotplug' = TRUE
  /\ UNCHANGED <<todo, found, timeout, elapsed, hvars, mdvars, lock, present, nodes>>

open_diskstats ==
  /\ pc = "open"
  /\ pc' = "scan" /\ todo' = present
  /\ UNCHANGED <<found, timeout, elapsed, hotplug, hvars, mdvars, lock, present, nodes>>

mknod_existing ==
  /\ pc = "scan"
  /\ \/ \E d \in todo : nodes' = nodes \cup {d} /\ todo' = todo \ {d} /\ pc' = pc
     \/ todo = {} /\ pc' = "assemble" /\ UNCHANGED <<nodes, todo>>
  /\ UNCHANGED <<found, timeout, elapsed, hotplug, hvars, mdvars, lock, present>>

\* mdadm --assemble --scan, without mdlock: it looks at the devices ...
assemble ==
  /\ pc = "assemble"
  /\ QuietAssemble => \A h \in Handlers : hpc[h] \notin Holding
  /\ found' = Members \cap present \cap nodes
  /\ \E n \in 0..2 : Sees(n) /\ saw' = [saw EXCEPT ![0] = n]
  /\ pc' = "assembling"
  /\ UNCHANGED <<todo, timeout, elapsed, hotplug, hvars, arrays, rejected, lock,
                 present, nodes>>

\* ... and makes an array, started when it can run, or completes the one it saw.
assembling ==
  LET new == {d \in found : ~ InArray(d)} IN
  /\ pc = "assembling"
  /\ \/ new = {} /\ NothingToAdd(hpc)
     \/ /\ new # {} /\ saw[0] = 0
        /\ CreateArray(new, Cardinality(new) >= Enough, hpc)
     \/ /\ new # {} /\ saw[0] # 0
        /\ JoinArray(saw[0], new,
                     Cardinality(arrays[saw[0]].mem \cup new) >= Enough, hpc)
  /\ pc' = "modules" /\ found' = {} /\ saw' = [saw EXCEPT ![0] = 0]
  /\ UNCHANGED <<todo, timeout, elapsed, hotplug, lock, nodes>>

\* The listed modules are loaded; the disks they drive appear by themselves.
\* Then without root= on the command line /init ends in a shell.
modprobe_and_cmdline ==
  /\ pc = "modules"
  /\ IGoto("wait") \/ IGoto("shell")
  /\ UNCHANGED <<hvars, mdvars, lock, present, nodes>>

\* Can the root be mounted?  Without ro or rw the mount command lacks a word.
RootReady ==
  /\ RoOrRw
  /\ arrays # <<>> /\ arrays[1].run
  /\ MdNames[1] \in nodes

Waits(step) ==
  /\ pc = "wait"
  /\ \/ RootReady /\ pc' = "settle" /\ UNCHANGED <<timeout, elapsed>>
     \/ ~ RootReady /\ timeout < 0 /\ pc' = "shell" /\ UNCHANGED <<timeout, elapsed>>
     \/ /\ ~ RootReady /\ timeout >= 0
        /\ timeout' = timeout - step
        /\ elapsed' = IF elapsed < Counter + 5 THEN elapsed + 5 ELSE elapsed
        /\ pc' = pc
  /\ UNCHANGED <<todo, found, hotplug, hvars, mdvars, lock, present, nodes>>

\* Variant: the result of expr is not assigned.
wait_for_root_uncounted == Waits(0)

\* Variant: the counter goes down by the minute.
wait_for_root_by_60 == Waits(60)

\* One turn of the loop: vgscan, vgchange and a try to mount the root.
wait_for_root == Waits(5)

\* sleep 2, /dev/console and etc/device_table of the new root, and the search
\* for its init, which may end in a shell.
settle ==
  /\ pc = "settle"
  /\ IGoto("disable") \/ IGoto("shell")
  /\ UNCHANGED <<hvars, mdvars, lock, present, nodes>>

disable_hotplug ==
  /\ pc = "disable"
  /\ pc' = "switch" /\ hotplug' = FALSE
  /\ UNCHANGED <<todo, found, timeout, elapsed, hvars, mdvars, lock, present, nodes>>

\* switch_root deletes everything on the ramdisk, the lock and /bin included.  It is
\* exec'ed: when it fails PID 1 ends, and with it the kernel, and the lines behind
\* it are never reached.
switch_root ==
  /\ pc = "switch"
  /\ \/ IGoto("switched") /\ lock' = FALSE /\ nodes' = {}
     \/ IGoto("panic") /\ UNCHANGED <<lock, nodes>>
  /\ UNCHANGED <<hvars, mdvars, present>>

InitScript ==
  /\ UNCHANGED overtaken
  /\ \/ activate_hotplug \/ open_diskstats \/ mknod_existing
     \/ assemble \/ assembling \/ modprobe_and_cmdline
     \/ wait_for_root \/ settle \/ disable_hotplug \/ switch_root

-----------------------------------------------------------------------------

Init ==
  /\ pc = "hotplug" /\ todo = {} /\ found = {}
  /\ saw = [a \in {0} \cup Handlers |-> 0]
  /\ timeout = Counter /\ elapsed = 0
  /\ hotplug = FALSE
  /\ seqnum = 0 /\ ev = [h \in Handlers |-> NoEvent]
  /\ hpc = [h \in Handlers |-> "none"]
  /\ lock = FALSE
  /\ present \in SUBSET Disks /\ nodes = {}
  /\ arrays = <<>> /\ rejected = {} /\ overtaken = {}

Kernel == ~ panicked /\ (DiskAppears \/ DiskChanges \/ DiskRemoved)

Next == InitScript \/ Kernel \/ \E h \in Handlers : Handler(h)

Spec == Init /\ [][Next]_vars

\* /init and every handler are processes the scheduler runs.
FairSpec ==
  /\ Spec
  /\ WF_vars(InitScript)
  /\ \A h \in Handlers : WF_vars(Handler(h))

-----------------------------------------------------------------------------
(* Properties.                                                             *)

\* Handlers run mdadm one at a time, and only under the lock (hotplug:10-19).
\* The end of switch_root takes the lock away, but also the means to take it.
HandlersSerial ==
  /\ \A h, k \in Handlers : hpc[h] \in Holding /\ hpc[k] \in Holding => h = k
  /\ \A h \in Handlers : hpc[h] \in Holding => lock \/ switched

\* The RAID set is never split over two arrays.
SingleArray == Len(arrays) <= 1

\* Once the devices that were there have been read from /proc/diskstats, every
\* device has its node, or the handler that makes it is on its way: activating
\* hotplug before the file is opened leaves no gap (init_template:101-107).  So has
\* a disk that went and came back, unless it overtook the handler of its removal:
\* that one's rm may follow the mknod of the new disk (hotplug:41-45).
NoDeviceLost ==
  hotplug /\ pc \notin {"open", "scan"} =>
    \A d \in present \ overtaken :
       \/ d \in nodes
       \/ \E h \in Handlers :
             hpc[h] = "node" /\ ev[h] = [action |-> "add", dev |-> d]

\* Every member has been offered to an array when no handler is left, whether
\* it was there at boot, came during the scan, or after it.
NoMemberLost ==
  /\ hotplug /\ pc \notin {"open", "scan", "assemble", "assembling"}
  /\ \A h \in Handlers : ~ Busy(h)
  => \A d \in present \cap Members : InArray(d) \/ d \in rejected

\* /init hands over to the new root, ends in a shell or takes the kernel down.
BootEnds == <>(pc \in {"switched", "shell", "panic"})

\* No handler waits for the lock for ever while the ramdisk is there.
HandlersEnd == \A h \in Handlers : Busy(h) ~> ~ Busy(h) \/ switched \/ panicked

(* What the comments of the two scripts say; the code does otherwise. *)

\* hotplug:10-11: "All the mdadm calls race with each other at startup and mess
\* things up.  Use this to run them one at a time."
MdadmOneAtATime ==
  pc = "assembling" => \A h \in Handlers : hpc[h] \notin {"run", "inc", "adding"}

\* init_template:148: "Wait up to 10 minutes for the root device to appear."
WaitsTenMinutes == pc = "wait" /\ timeout < 0 => elapsed >= 600

=============================================================================
