------------------------------ MODULE AutoInstall ------------------------------
(***************************************************************************)
(* def_user_installer, the automatic install, on the disks: it wipes them, *)
(* makes two partitions on each, mirrors over all disks if there are at    *)
(* least two, the volume group vg01 and its logical volumes.  Module       *)
(* Installer has the same operation as mounts and fstab see it.            *)
(*                                                                         *)
(* What is on a disk can come back: superblocks and LVM labels stay where  *)
(* they were when a partition table is cleared, and when a new partition   *)
(* shows them again udev assembles the old array, at any time.  They are   *)
(* what an earlier run left, or the system that was on the disk before.    *)
(* The operation can be interrupted between any two steps, and be run      *)
(* again.                                                                  *)
(***************************************************************************)
EXTENDS Integers, Sequences, FiniteSets, Functions

CONSTANTS
  Disks,
  Machines,  \* sorted lists of disks, with what is on them before the first run
  Sizes,     \* of the physical volume, as pvdisplay tells, in 10^6 bytes
  Memories   \* as free tells, in KiB; 0 when it fails

Places == {1, 2}
Labels == {"none", "pv", "vg"}
Leftover == [parts : SUBSET Places, super : SUBSET Places, label : Labels]

ASSUME AutoAssumption ==
  /\ \A m \in Machines :
       /\ m.basedevs \in Seq(Disks) \ {<<>>}
       /\ m.old \in [Disks -> Leftover]
  /\ Sizes \subseteq Nat /\ Memories \subseteq Nat

VARIABLES
  efi_system, basedevs,   \* the machine
  sz_flg,   \* 0: the full disk, 1: 10 GB
  memory, psize,  \* what free and pvdisplay told this run; 0 before
  pc,
  todo,     \* disks the loop has left
  parts,    \* parts[d]: partitions in the table of d
  super,    \* super[d]: places on d, in a partition or not, with a superblock
  label,    \* label[d]: LVM on the second place: "none", "pv" or "vg"
  arrays,   \* running md arrays: number, place, members
  fs,       \* devices with a filesystem made by this run
  fstab     \* lines this run appended to /tmp/fstab

machine == <<efi_system, basedevs>>
sizes   == <<sz_flg, memory, psize>>
md      == <<super, arrays>>
tables  == <<fs, fstab>>
vars    == <<machine, sizes, pc, todo, parts, md, label, tables>>

Numbers == 0..127

TypeOK ==
  /\ efi_system \in BOOLEAN /\ basedevs \in {m.basedevs : m \in Machines}
  /\ sz_flg \in {0, 1}
  /\ memory \in Memories \cup {0} /\ psize \in Sizes \cup {0}
  /\ todo \in Seq(Disks)
  /\ parts \in [Disks -> SUBSET Places] /\ super \in [Disks -> SUBSET Places]
  /\ label \in [Disks -> Labels]
  /\ arrays \subseteq [n : Numbers, place : Places, members : SUBSET Disks]
  /\ \A a, b \in arrays : a.n = b.n \/ (a.place = b.place /\ a.members \cap b.members # {})
                          => a = b

-----------------------------------------------------------------------------
(* md and LVM.                                                             *)

Raid == Len(basedevs) >= 2
Setup == Range(basedevs)

Busy(d, place) == \E a \in arrays : a.place = place /\ d \in a.members

\* Variant: numbers in use are not passed over.
Lowest_first(n) == n = 0

\* The first /dev/md that does not exist.
Lowest(n) == /\ n \in Numbers /\ \A a \in arrays : a.n # n
             /\ \A m \in 0..(n - 1) : \E a \in arrays : a.n = m

\* Volume groups, as the disks they are on: on an array, or on a partition
\* that is part of none.
VGs ==
  {a.members : a \in {b \in arrays : b.place = 2 /\ \E d \in b.members : label[d] = "vg"}}
  \cup {{d} : d \in {e \in Setup : 2 \in parts[e] \ super[e] /\ label[e] = "vg"}}

udev_assembles == \E n \in Numbers :
  /\ Lowest(n)
  /\ \E place \in Places, D \in (SUBSET Setup) \ {{}} :
       /\ \A d \in D : place \in parts[d] \cap super[d] /\ ~ Busy(d, place)
       /\ arrays' = arrays \cup {[n |-> n, place |-> place, members |-> D]}
  /\ UNCHANGED <<machine, sizes, pc, todo, parts, super, label, tables>>

-----------------------------------------------------------------------------
(* The steps of def_user_installer.  An exception leads back to the menu.  *)

Goto(from, to) == pc = from /\ pc' = to

KeyboardInterrupt ==
  /\ pc \notin {"menu", "done"}
  /\ pc' = "menu"
  /\ UNCHANGED <<machine, sizes, todo, parts, md, label, tables>>

def_user_installer ==
  /\ pc \in {"menu", "done"} /\ pc' = "clean_system"
  /\ sz_flg' \in {0, 1} /\ memory' = 0 /\ psize' = 0
  /\ fs' = {} /\ fstab' = <<>> /\ todo' = basedevs
  /\ UNCHANGED <<machine, parts, md, label>>

\* Variant: the volume groups are left.
vgremove_none == label

\* clean_vgs: vgremove of all that vgs lists.
vgremove == [d \in Disks |-> IF d \in UNION VGs THEN "pv" ELSE label[d]]

\* The volume groups go first, as they hold the arrays.
clean_system ==
  /\ \/ Goto("clean_system", "zero")
     \/ Goto("clean_again", IF ~ Raid THEN "clean_vgs" ELSE
                            IF efi_system THEN "raid_lvm" ELSE "raid_boot")
  /\ label' = vgremove /\ arrays' = {}
  /\ UNCHANGED <<machine, sizes, todo, parts, super, tables>>

\* Only partitions the kernel shows are reached.
zero_superblock ==
  /\ Goto("zero", "clear")
  /\ super' = [d \in Disks |-> {p \in super[d] : p \notin parts[d] \/ Busy(d, p)}]
  /\ UNCHANGED <<machine, sizes, todo, parts, arrays, label, tables>>

\* parted refuses a disk with a partition in use.
clear_partition_table ==
  /\ pc = "clear"
  /\ IF \E p \in Places : Busy(Head(todo), p)
     THEN pc' = "menu" /\ UNCHANGED parts
     ELSE pc' = "part1" /\ parts' = [parts EXCEPT ![Head(todo)] = {}]
  /\ UNCHANGED <<machine, sizes, todo, md, label, tables>>

\* mkpart, and the wait for the device node: udev may be first to use it.
create_partition ==
  /\ \/ Goto("part1", "boot_fs") /\ parts' = [parts EXCEPT ![Head(todo)] = {1}]
     \/ Goto("part2", "lvm") /\ parts' = [parts EXCEPT ![Head(todo)] = {1, 2}]
  /\ UNCHANGED <<machine, sizes, todo, md, label, tables>>

\* mkfs fails on a device in use, and nobody looks at it.
_set_dev_contents(dev, busy, mp, type) ==
  /\ fs' = IF busy THEN fs ELSE fs \cup {<<dev, type>>}
  /\ fstab' = Append(fstab, [dev |-> dev, mp |-> mp, type |-> type])

\* Variant: the count is not raised.
EfiMount_first == <<"/boot/efi", 1>>

\* /boot/efi, /boot/efi2 and so on.
EfiMount == <<"/boot/efi", Len(basedevs) - Len(todo) + 1>>

boot_fs ==
  /\ Goto("boot_fs", "part2")
  /\ LET d == Head(todo) IN
     IF efi_system THEN _set_dev_contents(<<"part", d>>, Busy(d, 1), EfiMount, "vfat")
     ELSE IF Raid  THEN UNCHANGED tables
     ELSE _set_dev_contents(<<"part", d>>, Busy(d, 1), <<"/boot", 1>>, "ext4")
  /\ UNCHANGED <<machine, sizes, todo, parts, md, label>>

\* pvcreate refuses what belongs to a volume group, is in use, or has a superblock
\* and so is taken for a member of an array; nobody looks.
pvcreate(l, member) == IF l = "vg" \/ member THEN l ELSE "pv"

lvm_partition ==
  /\ pc = "lvm"
  /\ LET d == Head(todo) IN
     label' = IF Raid THEN label ELSE [label EXCEPT ![d] = pvcreate(@, 2 \in super[d])]
  /\ todo' = Tail(todo)
  /\ pc' = IF Tail(todo) = <<>> THEN "clean_again" ELSE "clear"
  /\ UNCHANGED <<machine, sizes, parts, md, tables>>

\* mdadm --create fails when a member is in use, and --run makes it pass over an old
\* superblock.  The mirror is filled from its first member.
create_raid(place, next) ==
  IF (\E d \in Setup : Busy(d, place)) \/ ~ \E n \in Numbers : Lowest(n)
  THEN pc' = "menu" /\ UNCHANGED <<md, label, tables>>
  ELSE \E n \in Numbers :
    /\ Lowest(n)
    /\ arrays' = arrays \cup {[n |-> n, place |-> place, members |-> Setup]}
    /\ super' = [d \in Disks |-> IF d \in Setup THEN super[d] \cup {place} ELSE super[d]]
    /\ IF place = 1
       THEN _set_dev_contents(<<"md", n>>, FALSE, <<"/boot", 1>>, "ext4") /\ UNCHANGED label
       ELSE /\ label' = [d \in Disks |-> IF d \in Setup
                          THEN pvcreate(label[Head(basedevs)], FALSE) ELSE label[d]]
            /\ UNCHANGED tables
    /\ pc' = next

raid ==
  /\ \/ pc = "raid_boot" /\ create_raid(1, "raid_lvm")
     \/ pc = "raid_lvm" /\ create_raid(2, "clean_vgs")
  /\ UNCHANGED <<machine, sizes, todo, parts>>

clean_vgs ==
  /\ Goto("clean_vgs", "vgcreate")
  /\ label' = vgremove
  /\ UNCHANGED <<machine, sizes, todo, parts, md, tables>>

\* The name must be free, and the device a physical volume LVM sees.
VgPossible ==
  /\ VGs = {}
  /\ \A d \in Setup : label[d] = "pv"
  /\ Raid \/ 2 \notin super[Head(basedevs)]

vgcreate ==
  /\ Goto("vgcreate", IF VgPossible THEN "lvs" ELSE "menu")
  /\ label' = IF VgPossible
              THEN [d \in Disks |-> IF d \in Setup THEN "vg" ELSE label[d]] ELSE label
  /\ UNCHANGED <<machine, sizes, todo, parts, md, tables>>

-----------------------------------------------------------------------------
(* The sizes of the volumes, in the units of each command: pvdisplay -M    *)
(* counts 10^6 bytes, lvcreate 2^20.                                       *)

\* In 1000 KiB, rounded up.
memcount(mem) == (mem + 999) \div 1000

\* Variant: nothing is set aside.
usable_all(size) == size

\* A tenth of the size is set aside.
usable(size) == size - (size \div 10)

swap_sz(size, mem) ==
  IF usable(size) > 2 * memcount(mem) THEN 2 * memcount(mem) ELSE 0
lv_rt_sz(size, mem) == usable(size) - swap_sz(size, mem)
root_sz(size, mem, flg) == IF flg = 1 THEN 10000 ELSE lv_rt_sz(size, mem)

Insufficient(size, mem) == lv_rt_sz(size, mem) < 10000

\* Extents are of 4 MiB; 1 MiB of the volume is LVM's.
Extents(mib) == (mib + 3) \div 4
VgExtents(size) == (((size * 15625) \div 16384) - 1) \div 4

\* Without free's answer lv_rt_sz is never set and using it raises.
volume_sizes ==
  /\ pc = "lvs"
  /\ \E mem \in Memories, size \in Sizes :
       IF mem = 0 \/ Insufficient(size, mem)
       THEN pc' = "menu" /\ UNCHANGED <<memory, psize>>
       ELSE pc' = "lvcreate" /\ memory' = mem /\ psize' = size
  /\ UNCHANGED <<machine, sz_flg, todo, parts, md, label, tables>>

Lv(name) == <<"vg01", name>>

\* lvcreate fails, and raises, when the group is too small.
create_lvs ==
  /\ pc = "lvcreate"
  /\ LET root == root_sz(psize, memory, sz_flg)
         swap == swap_sz(psize, memory)
     IN  IF Extents(root) + Extents(swap) > VgExtents(psize)
         THEN pc' = "menu" /\ UNCHANGED tables
         ELSE /\ pc' = "done"
              /\ fs' = fs \cup {<<Lv("root"), "ext4">>}
              /\ fstab' = fstab \o <<[dev |-> Lv("root"), mp |-> <<"/", 1>>, type |-> "ext4"]>> \o
                   (IF swap = 0 THEN <<>>
                    ELSE <<[dev |-> Lv("swap"), mp |-> <<"swap", 1>>, type |-> "swap"]>>)
  /\ UNCHANGED <<machine, sizes, todo, parts, md, label>>

-----------------------------------------------------------------------------

Init ==
  /\ efi_system \in BOOLEAN
  /\ \E m \in Machines :
       /\ basedevs = m.basedevs
       /\ parts = [d \in Disks |-> m.old[d].parts]
       /\ super = [d \in Disks |-> m.old[d].super]
       /\ label = [d \in Disks |-> m.old[d].label]
  /\ sz_flg = 0 /\ memory = 0 /\ psize = 0
  /\ pc = "menu" /\ todo = <<>>
  /\ arrays = {}
  /\ fs = {} /\ fstab = <<>>

Next ==
  \/ udev_assembles \/ KeyboardInterrupt
  \/ def_user_installer \/ clean_system \/ zero_superblock
  \/ clear_partition_table \/ create_partition \/ boot_fs \/ lvm_partition
  \/ raid \/ clean_vgs \/ vgcreate \/ volume_sizes \/ create_lvs

Spec == Init /\ [][Next]_vars

-----------------------------------------------------------------------------
(* Properties.                                                             *)

\* A disk that is alone and whose second partition has a superblock: the table
\* that was cleared hid it from zero_superblock.
HiddenMember == ~ Raid /\ 2 \in super[Head(basedevs)]

\* Whatever was on the disks, however earlier runs ended, and whatever udev
\* assembled of it, when vgcreate comes (L1241) nothing of it is in the way: L1234
\* "Make sure there are no VGs created in the above process".
VgcreateSucceeds == pc = "vgcreate" => VgPossible \/ HiddenMember

\* The volumes to be created fit in their group, in spite of the units and the
\* rounding to extents, and there is room for the system (L1264-1318).
VolumesFit ==
  pc = "lvcreate" =>
    /\ Extents(root_sz(psize, memory, sz_flg)) + Extents(swap_sz(psize, memory))
         <= VgExtents(psize)
    /\ root_sz(psize, memory, sz_flg) >= 10000

\* What mount_all is about to mount was made by this run: each line of the new
\* /tmp/fstab names a device with a filesystem of its type, unless it is a
\* partition with a superblock the old table hid; arrays are whole mirrors and run,
\* whatever was hidden, and no mount point comes twice (L862-887, L952-986).
FstabFormatted ==
  pc = "done" =>
    /\ \A l \in Range(fstab) : l.type # "swap" =>
         /\ \/ <<l.dev, l.type>> \in fs
            \/ l.dev[1] = "part" /\ 1 \in super[l.dev[2]]
         /\ l.dev[1] = "md" =>
              \E a \in arrays : a.n = l.dev[2] /\ a.place = 1 /\ a.members = Setup
    /\ \A i, j \in DOMAIN fstab : fstab[i].mp = fstab[j].mp => i = j

=============================================================================
