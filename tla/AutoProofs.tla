------------------------------ MODULE AutoProofs ------------------------------
(* What the automatic install can rely on, for disks of any size and any   *)
(* memory, and however often it was interrupted before.                    *)
EXTENDS AutoInstall, SequenceTheorems, TLAPS

-----------------------------------------------------------------------------
(* The volumes fit.                                                        *)

\* Rounding two volumes to extents costs less than two extents.
LEMMA ExtentsBound ==
  ASSUME NEW r \in Nat, NEW w \in Nat
  PROVE  4 * (Extents(r) + Extents(w)) <= r + w + 6
<1>1. 4 * Extents(r) <= r + 3 /\ Extents(r) \in Int  BY DEF Extents
<1>2. 4 * Extents(w) <= w + 3 /\ Extents(w) \in Int  BY DEF Extents
<1> QED  BY <1>1, <1>2

\* What pdisplay tells, less its tenth, is less than the group has.
LEMMA VgExtentsBound ==
  ASSUME NEW s \in Nat
  PROVE  /\ VgExtents(s) \in Int
         /\ usable(s) \in Nat
         /\ usable(s) >= 10000 => usable(s) + 6 <= 4 * VgExtents(s)
<1> DEFINE t == s \div 10
           g == (s * 15625) \div 16384
<1>1. t \in Int /\ 10 * t <= s /\ s <= 10 * t + 9  OBVIOUS
<1>2. g \in Int /\ s * 15625 <= 16384 * g + 16383
  <2> DEFINE a == s * 15625
  <2>1. a \in Nat  OBVIOUS
  <2> HIDE DEF a
  <2>2. a \div 16384 \in Int /\ a <= 16384 * (a \div 16384) + 16383  BY <2>1
  <2> QED  BY <2>2 DEF a
<1>3. VgExtents(s) \in Int /\ g - 1 <= 4 * VgExtents(s) + 3
  <2> HIDE DEF g
  <2>1. (g - 1) \div 4 \in Int /\ g - 1 <= 4 * ((g - 1) \div 4) + 3  BY <1>2
  <2> QED  BY <2>1 DEF VgExtents, g
<1>4. usable(s) = s - t  BY DEF usable
<1> HIDE DEF t, g
<1> QED  BY <1>1, <1>2, <1>3, <1>4

\* The volumes of one install.
LEMMA SizesFit ==
  ASSUME NEW s \in Nat, NEW m \in Nat, NEW flg \in {0, 1}, ~ Insufficient(s, m)
  PROVE  /\ Extents(root_sz(s, m, flg)) + Extents(swap_sz(s, m)) <= VgExtents(s)
         /\ root_sz(s, m, flg) >= 10000
<1> DEFINE u == usable(s)
           w == swap_sz(s, m)
           r == root_sz(s, m, flg)
<1>1. u \in Nat /\ VgExtents(s) \in Int
      /\ (u >= 10000 => u + 6 <= 4 * VgExtents(s))
  BY VgExtentsBound
<1>2. memcount(m) \in Nat  BY DEF memcount
<1>3. w \in Nat /\ w <= u  BY <1>1, <1>2 DEF swap_sz
<1>4. u - w >= 10000 /\ lv_rt_sz(s, m) = u - w
  BY <1>1, <1>3 DEF Insufficient, lv_rt_sz
<1>5. r \in Nat /\ r >= 10000 /\ r <= u - w  BY <1>1, <1>3, <1>4 DEF root_sz
<1>6. 4 * (Extents(r) + Extents(w)) <= r + w + 6  BY <1>3, <1>5, ExtentsBound
<1>7. Extents(r) \in Int /\ Extents(w) \in Int  BY <1>3, <1>5 DEF Extents
<1> HIDE DEF u, w, r
<1>8. Extents(r) + Extents(w) <= VgExtents(s)  BY <1>1, <1>3, <1>4, <1>5, <1>6, <1>7
<1> QED  BY <1>5, <1>8 DEF r, w

\* The machine and what of it decides the sizes.
Machine ==
  /\ basedevs \in Seq(Disks) \ {<<>>} /\ sz_flg \in {0, 1}
  /\ memory \in Nat /\ psize \in Nat

SizeInv == Machine /\ (pc = "lvcreate" => ~ Insufficient(psize, memory))

LEMMA MachineInit == Init => Machine
BY AutoAssumption DEF Init, Machine

LEMMA MachineNext == Machine /\ [Next]_vars => Machine'
<1> SUFFICES ASSUME Machine, [Next]_vars PROVE Machine'
  OBVIOUS
<1>1. CASE def_user_installer
  BY <1>1 DEF Machine, def_user_installer, machine
<1>2. CASE UNCHANGED <<machine, sizes>>
  BY <1>2 DEF Machine, machine, sizes
<1>5. CASE volume_sizes
  BY <1>5, AutoAssumption DEF Machine, volume_sizes, machine
<1>3. Next => def_user_installer \/ volume_sizes \/ UNCHANGED <<machine, sizes>>
  BY DEF Next, udev_assembles, KeyboardInterrupt, clean_system, zero_superblock,
     clear_partition_table, create_partition, boot_fs, lvm_partition, raid,
     clean_vgs, vgcreate, create_lvs
<1>4. CASE UNCHANGED vars
  BY <1>4 DEF Machine, machine, sizes, vars
<1> QED  BY <1>1, <1>2, <1>3, <1>4, <1>5

\* Only volume_sizes comes to lvcreate, and only with room for the system.
LEMMA SizeNext == SizeInv /\ [Next]_vars => SizeInv'
<1> SUFFICES ASSUME SizeInv, [Next]_vars PROVE SizeInv'
  OBVIOUS
<1>1. Machine'  BY MachineNext DEF SizeInv
<1>2. ASSUME pc' = "lvcreate" PROVE ~ Insufficient(psize, memory)'
  <2>1. CASE volume_sizes
    BY <1>2, <2>1 DEF volume_sizes
  <2>2. CASE udev_assembles
    BY <1>2, <2>2 DEF udev_assembles, sizes, SizeInv
  <2>3. CASE UNCHANGED vars
    BY <1>2, <2>3 DEF vars, sizes, SizeInv
  <2>4. Next => volume_sizes \/ udev_assembles \/ pc' # "lvcreate"
    BY DEF Next, Goto, KeyboardInterrupt, def_user_installer, clean_system,
       zero_superblock, clear_partition_table, create_partition, boot_fs,
       lvm_partition, raid, create_raid, clean_vgs, vgcreate, create_lvs
  <2> QED  BY <1>2, <2>1, <2>2, <2>3, <2>4
<1> QED  BY <1>1, <1>2 DEF SizeInv

\* VolumesFit, for every size of the physical volume and every memory
\* (def_user_installer, L1264-1318).
THEOREM VolumesAlwaysFit == Spec => []VolumesFit
<1>1. Init => SizeInv  BY MachineInit DEF Init, SizeInv
<1>2. SizeInv => VolumesFit
  BY SizesFit DEF SizeInv, Machine, VolumesFit
<1> QED  BY <1>1, <1>2, SizeNext, PTL DEF Spec

-----------------------------------------------------------------------------
(* Types, and that no two arrays share a name or a partition.              *)

Arrays == [n : Numbers, place : Places, members : SUBSET Disks]

Distinct(A) ==
  \A a, b \in A : a.n = b.n \/ (a.place = b.place /\ a.members \cap b.members # {})
                   => a = b

LEMMA SetupIsDisks == ASSUME Machine PROVE Setup \subseteq Disks
BY DEF Machine, Setup, Range

\* An array that gets a free number and free partitions is new in both ways.
LEMMA NewArray ==
  ASSUME arrays \subseteq Arrays, Distinct(arrays),
         NEW n \in Numbers, Lowest(n), NEW place \in Places,
         NEW D \in SUBSET Disks, \A d \in D : ~ Busy(d, place)
  PROVE  LET B == arrays \cup {[n |-> n, place |-> place, members |-> D]}
         IN  B \subseteq Arrays /\ Distinct(B)
<1> DEFINE new == [n |-> n, place |-> place, members |-> D]
<1>1. new \in Arrays /\ new.n = n /\ new.place = place /\ new.members = D
  BY DEF Arrays
<1> HIDE DEF new
<1>2. ASSUME NEW a \in arrays PROVE a.n # new.n  BY <1>1 DEF Lowest
<1>3. ASSUME NEW a \in arrays, a.place = new.place
      PROVE  a.members \cap new.members = {}
  BY <1>1, <1>3 DEF Busy
<1>4. Distinct(arrays \cup {new})
  <2> SUFFICES ASSUME NEW a \in arrays \cup {new}, NEW b \in arrays \cup {new},
                      a.n = b.n \/ (a.place = b.place /\ a.members \cap b.members # {})
               PROVE  a = b
    BY DEF Distinct
  <2>1. CASE a \in arrays /\ b \in arrays  BY <2>1 DEF Distinct
  <2>2. CASE a \in arrays /\ b = new  BY <2>2, <1>2, <1>3
  <2>3. CASE a = new /\ b \in arrays  BY <2>3, <1>2, <1>3
  <2> QED  BY <2>1, <2>2, <2>3
<1> QED  BY <1>1, <1>4 DEF new

Stores ==
  /\ parts \in [Disks -> SUBSET Places] /\ super \in [Disks -> SUBSET Places]
  /\ label \in [Disks -> Labels]

LEMMA TypeParts ==
  TypeOK <=> /\ efi_system \in BOOLEAN /\ basedevs \in {m.basedevs : m \in Machines}
             /\ sz_flg \in {0, 1}
             /\ memory \in Memories \cup {0} /\ psize \in Sizes \cup {0}
             /\ todo \in Seq(Disks) /\ Stores
             /\ arrays \subseteq Arrays /\ Distinct(arrays)
BY DEF TypeOK, Stores, Arrays, Distinct

LEMMA TypeMachine == TypeOK => Machine
BY AutoAssumption DEF TypeOK, Machine

\* Actions that change neither the arrays nor the machine.
LEMMA TypeKept ==
  ASSUME TypeOK, UNCHANGED <<machine, sizes, arrays>>,
         todo' \in Seq(Disks), Stores'
  PROVE  TypeOK'
BY TypeParts DEF machine, sizes, TypeOK, Stores, Distinct, Arrays

Looping == {"clear", "part1", "boot_fs", "part2", "lvm"}

\* The loop over the disks has a disk at hand.
HasDisk == pc \in Looping \cup {"clean_system", "zero"} => todo # <<>>

LEMMA HasDiskNext == TypeOK /\ HasDisk /\ [Next]_vars => HasDisk'
<1> SUFFICES ASSUME TypeOK, HasDisk, [Next]_vars, pc' \in Looping \cup {"clean_system", "zero"}
             PROVE  todo' # <<>>
  BY DEF HasDisk
<1>1. CASE pc \in Looping \cup {"clean_system", "zero"} /\ UNCHANGED todo
  BY <1>1 DEF HasDisk
<1>2. CASE def_user_installer
  BY <1>2, TypeMachine DEF def_user_installer, Machine
<1>3. CASE lvm_partition
  BY <1>3 DEF lvm_partition, Looping
<1>4. Next => \/ def_user_installer \/ lvm_partition
              \/ pc \in Looping \cup {"clean_system", "zero"} /\ UNCHANGED todo
  BY DEF Next, Goto, Looping, udev_assembles, KeyboardInterrupt, clean_system,
     zero_superblock, clear_partition_table, create_partition, boot_fs, raid,
     create_raid, clean_vgs, vgcreate, volume_sizes, create_lvs
<1>5. CASE UNCHANGED vars
  BY <1>5 DEF HasDisk, vars
<1> QED  BY <1>1, <1>2, <1>3, <1>4, <1>5

LEMMA PvLabels ==
  ASSUME NEW l \in Labels, NEW b \in BOOLEAN
  PROVE  pvcreate(l, b) \in Labels
BY DEF pvcreate, Labels

LEMMA TypeNext == TypeOK /\ HasDisk /\ [Next]_vars => TypeOK'
<1> SUFFICES ASSUME TypeOK, HasDisk, [Next]_vars PROVE TypeOK'
  OBVIOUS
<1>t. todo \in Seq(Disks) /\ Stores /\ arrays \subseteq Arrays /\ Distinct(arrays)
  BY TypeParts
<1>s. Setup \subseteq Disks  BY SetupIsDisks, TypeMachine
<1>1. CASE udev_assembles
  <2>1. PICK place \in Places, n \in Numbers, D \in (SUBSET Setup) \ {{}} :
          /\ \A d \in D : ~ Busy(d, place)
          /\ Lowest(n)
          /\ arrays' = arrays \cup {[n |-> n, place |-> place, members |-> D]}
          /\ UNCHANGED <<machine, sizes, pc, todo, parts, super, label, tables>>
    BY <1>1 DEF udev_assembles
  <2>2. arrays' \subseteq Arrays /\ Distinct(arrays)'
    BY <2>1, <1>t, <1>s, NewArray DEF Distinct
  <2> QED  BY <2>1, <2>2, <1>t, TypeParts DEF machine, sizes, TypeOK, Arrays, Distinct
<1>2. CASE KeyboardInterrupt
  BY <1>2, <1>t, TypeKept DEF KeyboardInterrupt, md, Stores
<1>3. CASE def_user_installer
  <2>1. basedevs \in Seq(Disks)  BY TypeMachine DEF Machine
  <2> QED  BY <1>3, <1>t, <2>1, TypeParts
           DEF def_user_installer, md, machine, Stores, Distinct, Arrays, TypeOK
<1>4. CASE clean_system
  <2>1. label' \in [Disks -> Labels]
    BY <1>4, <1>t DEF clean_system, vgremove, Stores, Labels
  <2> QED  BY <1>4, <1>t, <2>1 DEF clean_system, machine, sizes, TypeOK, Stores
<1>5. CASE zero_superblock
  BY <1>5, <1>t, TypeKept DEF zero_superblock, Stores
<1>6. CASE clear_partition_table
  BY <1>6, <1>t, TypeKept DEF clear_partition_table, md, Stores
<1>7. CASE create_partition
  BY <1>7, <1>t, TypeKept DEF create_partition, md, Stores, Places
<1>8. CASE boot_fs
  BY <1>8, <1>t, TypeKept DEF boot_fs, md, Stores
<1>9. CASE lvm_partition
  <2>1. todo' \in Seq(Disks)
    BY <1>9, <1>t DEF lvm_partition, HasDisk, Looping
  <2>2. label' \in [Disks -> Labels]
    BY <1>9, <1>t DEF lvm_partition, Stores, pvcreate, Labels
  <2> QED  BY <1>9, <1>t, <2>1, <2>2, TypeKept DEF lvm_partition, md, Stores
<1>10. CASE raid
  <2>1. PICK place \in Places, next \in {"raid_lvm", "clean_vgs"} :
          create_raid(place, next) /\ UNCHANGED <<machine, sizes, todo, parts>>
    BY <1>10 DEF raid, Places
  <2> DEFINE possible == (\A d \in Setup : ~ Busy(d, place)) /\ \E n \in Numbers : Lowest(n)
  <2>2. CASE ~ possible
    BY <2>1, <2>2, <1>t, TypeKept DEF create_raid, md, Stores
  <2>3. CASE possible
    <3>1. PICK n \in Numbers :
            /\ Lowest(n)
            /\ arrays' = arrays \cup {[n |-> n, place |-> place, members |-> Setup]}
            /\ super' = [d \in Disks |->
                            IF d \in Setup THEN super[d] \cup {place} ELSE super[d]]
            /\ \/ UNCHANGED label
               \/ label' = [d \in Disks |-> IF d \in Setup
                             THEN pvcreate(label[Head(basedevs)], FALSE) ELSE label[d]]
      BY <2>1, <2>3 DEF create_raid
    <3>2. arrays' \subseteq Arrays /\ Distinct(arrays)'
      BY <3>1, <2>3, <1>t, <1>s, NewArray DEF Distinct
    <3>3. label' \in [Disks -> Labels]
      <4>1. Head(basedevs) \in Disks  BY TypeMachine DEF Machine
      <4>2. pvcreate(label[Head(basedevs)], FALSE) \in Labels
        BY <4>1, <1>t, PvLabels DEF Stores
      <4> QED  BY <3>1, <4>2, <1>t DEF Stores
    <3>4. super' \in [Disks -> SUBSET Places]  BY <3>1, <1>t DEF Stores
    <3> QED  BY <2>1, <3>2, <3>3, <3>4, <1>t
             DEF machine, sizes, TypeOK, Stores, Arrays, Distinct
  <2> QED  BY <2>2, <2>3
<1>11. CASE clean_vgs
  BY <1>11, <1>t, TypeKept DEF clean_vgs, vgremove, md, Stores, Labels
<1>12. CASE vgcreate
  BY <1>12, <1>t, TypeKept DEF vgcreate, md, Stores, Labels
<1>13. CASE volume_sizes
  <2>1. memory' \in Memories \cup {0} /\ psize' \in Sizes \cup {0}
    BY <1>13 DEF volume_sizes, TypeOK
  <2>2. UNCHANGED <<machine, sz_flg, todo, parts, md, label>>
    BY <1>13 DEF volume_sizes
  <2> QED  BY <2>1, <2>2 DEF machine, md, TypeOK
<1>14. CASE create_lvs
  BY <1>14, <1>t, TypeKept DEF create_lvs, md, Stores
<1>15. CASE UNCHANGED vars
  BY <1>15, <1>t, TypeKept DEF vars, md, Stores
<1> QED
  BY <1>1, <1>2, <1>3, <1>4, <1>5, <1>6, <1>7, <1>8, <1>9, <1>10, <1>11, <1>12,
     <1>13, <1>14, <1>15 DEF Next

LEMMA TypeInit == Init => TypeOK
<1> SUFFICES ASSUME Init PROVE TypeOK
  OBVIOUS
<1>1. PICK m \in Machines :
        /\ basedevs = m.basedevs
        /\ parts = [d \in Disks |-> m.old[d].parts]
        /\ super = [d \in Disks |-> m.old[d].super]
        /\ label = [d \in Disks |-> m.old[d].label]
  BY DEF Init
<1>2. \A d \in Disks : m.old[d] \in Leftover  BY AutoAssumption
<1>3. Stores
  <2>1. \A d \in Disks : /\ m.old[d].parts \in SUBSET Places
                        /\ m.old[d].super \in SUBSET Places /\ m.old[d].label \in Labels
    BY <1>2 DEF Leftover
  <2> QED  BY <1>1, <2>1 DEF Stores
<1> QED  BY <1>1, <1>3 DEF Init, TypeOK, Stores

\* Every variable keeps its type, and no two arrays have a number or a partition in
\* common, although udev makes arrays at any time (create_raid, L959-968).
THEOREM TypeCorrect == Spec => []TypeOK
<1>1. Init => TypeOK /\ HasDisk
  BY TypeInit DEF Init, HasDisk, Looping
<1> QED  BY <1>1, TypeNext, HasDiskNext, PTL DEF Spec

-----------------------------------------------------------------------------
(* Nothing old stops vgcreate.                                             *)

\* Arrays are made of the disks of the machine.
ArraysOfSetup == \A a \in arrays : a.members \subseteq Setup

\* Members of an array have a superblock.
Marked == \A a \in arrays : \A d \in a.members : a.place \in super[d]

\* On a machine with one disk the disk has its second partition when the volume group
\* is made, with a label unless a superblock was hidden there.
SingleDisk ==
  ~ Raid =>
    /\ pc \notin {"raid_boot", "raid_lvm"}
    /\ pc \in Looping \cup {"clean_system", "zero"} => todo = basedevs
    /\ pc \in {"lvm", "clean_again", "clean_vgs"} => 2 \in parts[Head(basedevs)]
    /\ pc \in {"clean_again", "clean_vgs"} /\ 2 \notin super[Head(basedevs)]
         => label[Head(basedevs)] \in {"pv", "vg"}

\* With more, the mirror for the group runs over all of them.
MirrorRuns ==
  Raid /\ pc = "clean_vgs" =>
    /\ \E a \in arrays : a.place = 2 /\ a.members = Setup
    /\ \A d \in Setup : label[d] \in {"pv", "vg"}

GroupFree == pc = "vgcreate" /\ ~ HiddenMember => \A d \in Setup : label[d] = "pv"

VgInv ==
  TypeOK /\ HasDisk /\ ArraysOfSetup /\ Marked /\ SingleDisk /\ MirrorRuns /\ GroupFree

LEMMA OneDisk ==
  ASSUME Machine, ~ Raid
  PROVE  Setup = {Head(basedevs)} /\ Tail(basedevs) = <<>> /\ Head(basedevs) \in Disks
<1>1. basedevs \in Seq(Disks) /\ basedevs # <<>>  BY DEF Machine
<1>2. Len(basedevs) \in Nat \ {0}  BY <1>1, EmptySeq
<1>3. Len(basedevs) = 1
  <2>1. ~ (Len(basedevs) >= 2)  BY DEF Raid
  <2> QED  BY <1>2, <2>1
<1>4. DOMAIN basedevs = {1} /\ Head(basedevs) = basedevs[1]  BY <1>1, <1>3
<1>5. /\ Head(basedevs) \in Disks /\ Tail(basedevs) \in Seq(Disks)
      /\ Len(Tail(basedevs)) = 0
  BY <1>1, <1>3, HeadTailProperties
<1>6. Tail(basedevs) = <<>>  BY <1>5, EmptySeq
<1>7. Setup = {basedevs[1]}  BY <1>4 DEF Setup, Range
<1> QED  BY <1>4, <1>5, <1>6, <1>7

\* vgremove frees every label: each is on a volume group LVM sees.
LEMMA GroupsRemoved ==
  ASSUME VgInv, pc = "clean_vgs", ~ HiddenMember, NEW d \in Setup
  PROVE  vgremove[d] = "pv"
<1>1. d \in Disks  BY SetupIsDisks, TypeMachine DEF VgInv
<1>2. label[d] = "vg" => d \in UNION VGs
  <2>1. CASE Raid
    <3>1. PICK a \in arrays : a.place = 2 /\ a.members = Setup
      BY <2>1 DEF VgInv, MirrorRuns
    <3> QED  BY <3>1 DEF VGs
  <2>2. CASE ~ Raid
    <3>1. d = Head(basedevs) /\ d \in Setup
      BY <2>2, OneDisk, TypeMachine DEF VgInv
    <3>2. 2 \in parts[d] /\ 2 \notin super[d]
      BY <2>2, <3>1, <1>1 DEF VgInv, SingleDisk, HiddenMember
    <3>3. label[d] = "vg" => {d} \in VGs
      BY <3>1, <3>2 DEF VGs
    <3> QED  BY <3>3
  <2> QED  BY <2>1, <2>2
<1>3. label[d] \in {"pv", "vg"}
  <2>1. CASE Raid  BY <2>1 DEF VgInv, MirrorRuns
  <2>2. CASE ~ Raid
    <3>1. d = Head(basedevs)  BY <2>2, OneDisk, TypeMachine DEF VgInv
    <3> QED  BY <2>2, <3>1 DEF VgInv, SingleDisk, HiddenMember
  <2> QED  BY <2>1, <2>2
<1> QED  BY <1>1, <1>2, <1>3 DEF vgremove

LEMMA GroupFreeNext == VgInv /\ [Next]_vars => GroupFree'
<1> SUFFICES ASSUME VgInv, [Next]_vars, pc' = "vgcreate", ~ HiddenMember', NEW d \in Setup'
             PROVE  (label[d] = "pv")'
  BY DEF GroupFree
<1>1. CASE clean_vgs
  <2>1. Setup' = Setup /\ HiddenMember' = HiddenMember
    BY <1>1 DEF clean_vgs, machine, md, Setup, HiddenMember, Raid
  <2> QED  BY <1>1, <2>1, GroupsRemoved DEF clean_vgs, Goto
<1>2. CASE udev_assembles \/ UNCHANGED vars
  <2>1. /\ Setup' = Setup /\ pc = "vgcreate" /\ label' = label
        /\ HiddenMember' = HiddenMember
    BY <1>2 DEF udev_assembles, vars, machine, md, Setup, HiddenMember, Raid
  <2> QED  BY <2>1 DEF VgInv, GroupFree
<1>3. Next => clean_vgs \/ udev_assembles \/ pc' # "vgcreate"
  BY DEF Next, Goto, KeyboardInterrupt, def_user_installer, clean_system,
     zero_superblock, clear_partition_table, create_partition, boot_fs,
     lvm_partition, raid, create_raid, vgcreate, volume_sizes, create_lvs
<1> QED  BY <1>1, <1>2, <1>3

LEMMA ArraysOfSetupNext == VgInv /\ [Next]_vars => ArraysOfSetup'
<1> SUFFICES ASSUME VgInv, [Next]_vars PROVE ArraysOfSetup'
  OBVIOUS
<1>1. CASE udev_assembles
  <2>1. /\ Setup' = Setup
        /\ \E place \in Places, n \in Numbers, D \in SUBSET Setup :
             arrays' = arrays \cup {[n |-> n, place |-> place, members |-> D]}
    BY <1>1 DEF udev_assembles, machine, Setup
  <2> QED  BY <2>1 DEF VgInv, ArraysOfSetup
<1>2. CASE raid
  <2>1. Setup' = Setup  BY <1>2 DEF raid, machine, Setup
  <2>2. \/ arrays' = arrays
        \/ \E place \in Places, n \in Numbers :
             arrays' = arrays \cup {[n |-> n, place |-> place, members |-> Setup]}
    BY <1>2 DEF raid, create_raid, Places, md
  <2> QED  BY <2>1, <2>2 DEF VgInv, ArraysOfSetup
<1>3. CASE Setup' = Setup /\ (arrays' = arrays \/ arrays' = {})
  BY <1>3 DEF VgInv, ArraysOfSetup
<1>4. Next => \/ udev_assembles \/ raid
              \/ Setup' = Setup /\ (arrays' = arrays \/ arrays' = {})
  BY DEF Next, Setup, machine, md, KeyboardInterrupt, def_user_installer,
     clean_system, zero_superblock, clear_partition_table, create_partition, boot_fs,
     lvm_partition, clean_vgs, vgcreate, volume_sizes, create_lvs
<1>5. CASE UNCHANGED vars
  BY <1>5 DEF VgInv, ArraysOfSetup, vars, machine, md, Setup
<1> QED  BY <1>1, <1>2, <1>3, <1>4, <1>5

LEMMA MarkedNext == VgInv /\ [Next]_vars => Marked'
<1> SUFFICES ASSUME VgInv, [Next]_vars PROVE Marked'
  OBVIOUS
<1>a. Marked /\ Stores /\ \A a \in arrays : a.members \subseteq Disks
  BY TypeParts, SetupIsDisks, TypeMachine DEF VgInv, ArraysOfSetup
<1>1. CASE udev_assembles
  <2>1. PICK place \in Places, n \in Numbers, D \in (SUBSET Setup) \ {{}} :
          /\ \A d \in D : place \in parts[d] \cap super[d]
          /\ arrays' = arrays \cup {[n |-> n, place |-> place, members |-> D]}
    BY <1>1 DEF udev_assembles
  <2>2. super' = super  BY <1>1 DEF udev_assembles
  <2> QED  BY <2>1, <2>2, <1>a DEF Marked
<1>2. CASE zero_superblock
  <2>1. \A a \in arrays, d \in Disks : d \in a.members /\ a.place \in super[d]
                                        => a.place \in super'[d]
    BY <1>2 DEF zero_superblock, Busy
  <2>2. arrays' = arrays  BY <1>2 DEF zero_superblock
  <2> QED  BY <2>1, <2>2, <1>a DEF Marked
<1>3. CASE raid
  <2>1. CASE UNCHANGED md  BY <2>1, <1>a DEF md, Marked
  <2>2. CASE ~ UNCHANGED md
    <3>1. PICK place \in Places, n \in Numbers :
            /\ arrays' = arrays \cup {[n |-> n, place |-> place, members |-> Setup]}
            /\ super' = [d \in Disks |->
                            IF d \in Setup THEN super[d] \cup {place} ELSE super[d]]
      BY <1>3, <2>2 DEF raid, create_raid, md, Places
    <3>2. Setup \subseteq Disks  BY SetupIsDisks, TypeMachine DEF VgInv
    <3>3. ASSUME NEW a \in arrays', NEW d \in a.members PROVE a.place \in super'[d]
      <4>1. CASE a \in arrays  BY <4>1, <3>1, <1>a DEF Marked
      <4>2. CASE a = [n |-> n, place |-> place, members |-> Setup]
        BY <4>2, <3>1, <3>2
      <4> QED  BY <4>1, <4>2, <3>1
    <3> QED  BY <3>3 DEF Marked
  <2> QED  BY <2>1, <2>2
<1>4. CASE UNCHANGED super /\ (arrays' = arrays \/ arrays' = {})
  BY <1>4, <1>a DEF Marked
<1>5. Next => \/ udev_assembles \/ zero_superblock \/ raid
              \/ UNCHANGED super /\ (arrays' = arrays \/ arrays' = {})
  BY DEF Next, md, KeyboardInterrupt, def_user_installer, clean_system, boot_fs,
     clear_partition_table, create_partition, lvm_partition, clean_vgs, vgcreate,
     volume_sizes, create_lvs
<1>6. CASE UNCHANGED vars
  BY <1>6, <1>4 DEF vars, md
<1> QED  BY <1>1, <1>2, <1>3, <1>4, <1>5, <1>6

LEMMA MirrorRunsNext == VgInv /\ [Next]_vars => MirrorRuns'
<1> SUFFICES ASSUME VgInv, [Next]_vars, Raid', pc' = "clean_vgs"
             PROVE  /\ \E a \in arrays' : a.place = 2 /\ a.members = Setup'
                    /\ \A d \in Setup' : label'[d] \in {"pv", "vg"}
  BY DEF MirrorRuns
<1>1. CASE raid
  <2>1. Setup' = Setup /\ Setup \subseteq Disks /\ Head(basedevs) \in Disks
    BY <1>1, SetupIsDisks, TypeMachine DEF raid, machine, Setup, VgInv, Machine
  <2> DEFINE l == pvcreate(label[Head(basedevs)], FALSE)
  <2>2. create_raid(2, "clean_vgs")  BY <1>1 DEF raid, create_raid
  <2>3. ~ \E d \in Setup : Busy(d, 2)  BY <2>2 DEF create_raid
  <2>4. PICK n \in Numbers :
          arrays' = arrays \cup {[n |-> n, place |-> 2, members |-> Setup]}
    BY <2>2, <2>3 DEF create_raid
  <2>5. label' = [d \in Disks |-> IF d \in Setup THEN l ELSE label[d]]
    BY <2>2, <2>3 DEF create_raid, pvcreate
  <2>6. l \in {"pv", "vg"}
    BY DEF pvcreate
  <2>7. \A d \in Setup' : label'[d] \in {"pv", "vg"}
    <3> HIDE DEF l
    <3> QED  BY <2>1, <2>5, <2>6
  <2>8. [n |-> n, place |-> 2, members |-> Setup] \in arrays'  BY <2>4
  <2> QED  BY <2>1, <2>7, <2>8
<1>2. CASE udev_assembles \/ UNCHANGED vars
  <2>1. /\ Setup' = Setup /\ Raid /\ pc = "clean_vgs" /\ label' = label
        /\ arrays \subseteq arrays'
    BY <1>2 DEF udev_assembles, vars, machine, md, Setup, Raid
  <2> QED  BY <2>1 DEF VgInv, MirrorRuns
<1>3. Next => raid \/ udev_assembles \/ pc' # "clean_vgs" \/ ~ Raid'
  BY DEF Next, Goto, Raid, machine, KeyboardInterrupt, def_user_installer,
     clean_system, zero_superblock, clear_partition_table, create_partition, boot_fs,
     lvm_partition, clean_vgs, vgcreate, volume_sizes, create_lvs
<1> QED  BY <1>1, <1>2, <1>3

LEMMA SingleDiskNext == VgInv /\ [Next]_vars => SingleDisk'
<1> SUFFICES ASSUME VgInv, [Next]_vars, ~ Raid' PROVE
      /\ pc' \notin {"raid_boot", "raid_lvm"}
      /\ pc' \in Looping \cup {"clean_system", "zero"} => todo' = basedevs'
      /\ pc' \in {"lvm", "clean_again", "clean_vgs"} => 2 \in parts'[Head(basedevs')]
      /\ pc' \in {"clean_again", "clean_vgs"} /\ 2 \notin super'[Head(basedevs')]
           => label'[Head(basedevs')] \in {"pv", "vg"}
  BY DEF SingleDisk
<1> DEFINE h == Head(basedevs)
<1>a. basedevs' = basedevs
  BY DEF vars, machine, Next, udev_assembles, KeyboardInterrupt, def_user_installer,
     clean_system, zero_superblock, clear_partition_table, create_partition, boot_fs,
     lvm_partition, raid, clean_vgs, vgcreate, volume_sizes, create_lvs
<1>b. /\ ~ Raid
      /\ pc \notin {"raid_boot", "raid_lvm"}
      /\ pc \in Looping \cup {"clean_system", "zero"} => todo = basedevs
      /\ pc \in {"lvm", "clean_again", "clean_vgs"} => 2 \in parts[h]
      /\ pc \in {"clean_again", "clean_vgs"} /\ 2 \notin super[h] => label[h] \in {"pv", "vg"}
  BY <1>a DEF Raid, VgInv, SingleDisk
<1>c. Setup = {h} /\ Tail(basedevs) = <<>> /\ h \in Disks /\ Stores
  BY <1>b, OneDisk, TypeMachine, TypeParts DEF VgInv
<1> HIDE DEF h
<1>1. CASE udev_assembles
  BY <1>1, <1>a, <1>b DEF udev_assembles, h
<1>2. CASE raid
  BY <1>2, <1>b DEF raid
<1>3. CASE clean_system
  <2>1. label'[h] \in {"pv", label[h]}
    BY <1>3, <1>c DEF clean_system, vgremove
  <2> QED  BY <1>3, <2>1, <1>a, <1>b DEF clean_system, Goto, Looping, h
<1>4. CASE zero_superblock
  BY <1>4, <1>a, <1>b DEF zero_superblock, Goto, Looping
<1>5. CASE clear_partition_table
  BY <1>5, <1>a, <1>b DEF clear_partition_table, Looping, md
<1>6. CASE create_partition
  <2>1. pc' = "lvm" => 2 \in parts'[h]
    BY <1>6, <1>b, <1>c DEF create_partition, Goto, Looping, Stores, h
  <2> QED  BY <1>6, <2>1, <1>a, <1>b DEF create_partition, Goto, Looping, md, h
<1>7. CASE boot_fs
  BY <1>7, <1>a, <1>b DEF boot_fs, Goto, Looping, md
<1>8. CASE lvm_partition
  <2>1. pc = "lvm" /\ todo = basedevs  BY <1>8, <1>b DEF lvm_partition, Looping
  <2>2. pc' = "clean_again"  BY <1>8, <2>1, <1>c DEF lvm_partition
  <2>3. 2 \notin super[h] => label'[h] \in {"pv", "vg"}
    BY <1>8, <2>1, <1>b, <1>c DEF lvm_partition, pvcreate, Stores, h
  <2>4. UNCHANGED <<parts, super, arrays>>  BY <1>8 DEF lvm_partition, md
  <2> QED  BY <2>1, <2>2, <2>3, <2>4, <1>a, <1>b DEF Looping, h
<1>9. CASE def_user_installer
  BY <1>9, <1>a, <1>b DEF def_user_installer, md
<1>10. CASE pc' \notin Looping \cup {"clean_system", "zero", "clean_again",
                       "clean_vgs", "raid_boot", "raid_lvm"}
  BY <1>10 DEF Looping
<1>11. CASE UNCHANGED vars
  BY <1>11, <1>a, <1>b DEF vars, md, h
<1>12. Next => \/ udev_assembles \/ raid \/ clean_system \/ zero_superblock
               \/ clear_partition_table \/ create_partition \/ boot_fs \/ lvm_partition
               \/ def_user_installer
               \/ pc' \notin Looping \cup {"clean_system", "zero", "clean_again",
                       "clean_vgs", "raid_boot", "raid_lvm"}
  BY DEF Next, Goto, Looping, KeyboardInterrupt, clean_vgs, vgcreate, volume_sizes,
     create_lvs
<1> QED
  BY <1>1, <1>2, <1>3, <1>4, <1>5, <1>6, <1>7, <1>8, <1>9, <1>10, <1>11, <1>12

\* With every label free no group is left, and nothing holds the device.
LEMMA FreeIsPossible ==
  ASSUME VgInv, pc = "vgcreate", ~ HiddenMember PROVE VgPossible
<1>1. \A d \in Setup : label[d] = "pv"  BY DEF VgInv, GroupFree
<1>2. VGs = {}  BY <1>1 DEF VgInv, ArraysOfSetup, VGs
<1>3. Raid \/ 2 \notin super[Head(basedevs)]  BY DEF HiddenMember
<1> QED  BY <1>1, <1>2, <1>3 DEF VgPossible

LEMMA VgInit == Init => VgInv
<1> SUFFICES ASSUME Init PROVE VgInv
  OBVIOUS
<1>1. TypeOK  BY TypeInit
<1> QED  BY <1>1 DEF Init, VgInv, HasDisk, Looping, ArraysOfSetup, Marked, SingleDisk,
                     MirrorRuns, GroupFree

LEMMA VgAlways == Spec => []VgInv
<1>1. Init => VgInv  BY VgInit
<1>2. VgInv /\ [Next]_vars => VgInv'
  BY TypeNext, HasDiskNext, GroupFreeNext, ArraysOfSetupNext, MarkedNext,
     MirrorRunsNext, SingleDiskNext DEF VgInv
<1> QED  BY <1>1, <1>2, PTL DEF Spec

\* VgcreateSucceeds, whatever is on the disks at first, and however often the install was started and
\* interrupted (def_user_installer, L1206-1241).
THEOREM VgcreateAlwaysSucceeds == Spec => []VgcreateSucceeds
<1>1. VgInv => VgcreateSucceeds
  BY FreeIsPossible DEF VgcreateSucceeds
<1> QED  BY <1>1, VgAlways, PTL

-----------------------------------------------------------------------------
(* The new fstab names what this run formatted.                            *)

\* The loop over the disks, up to where it is.
Partitioned ==
  /\ pc \in {"clean_system", "zero"} => todo = basedevs
  /\ pc \in Looping => \A d \in Setup \ Range(todo) : parts[d] = Places
  /\ pc = "lvm" => parts[Head(todo)] = Places
  /\ pc \in {"clean_again", "raid_boot", "raid_lvm"} => \A d \in Setup : parts[d] = Places

DiskInv == VgInv /\ Partitioned

LEMMA FirstDisk ==
  ASSUME TypeOK, HasDisk, pc \in Looping
  PROVE  /\ Head(todo) \in Disks /\ Tail(todo) \in Seq(Disks)
         /\ Range(todo) = {Head(todo)} \cup Range(Tail(todo))
         /\ Len(Tail(todo)) = Len(todo) - 1 /\ Len(todo) \in Nat \ {0}
<1>1. todo \in Seq(Disks) /\ todo # <<>>  BY DEF TypeOK, HasDisk
<1>2. Len(todo) \in Nat \ {0}  BY <1>1, EmptySeq
<1>3. /\ Head(todo) = todo[1] /\ Tail(todo) \in Seq(Disks)
      /\ Len(Tail(todo)) = Len(todo) - 1
      /\ \A i \in 1..Len(Tail(todo)) : Tail(todo)[i] = todo[i + 1]
  BY <1>1, HeadTailProperties
<1>4. DOMAIN todo = 1..Len(todo) /\ DOMAIN Tail(todo) = 1..(Len(todo) - 1)
  BY <1>1, <1>3, LenProperties
<1>5. ASSUME NEW i \in 1..Len(todo)
      PROVE  todo[i] = todo[1] \/ \E j \in 1..(Len(todo) - 1) : todo[i] = Tail(todo)[j]
  <2>1. CASE i = 1  BY <2>1
  <2>2. CASE i # 1
    <3>1. i - 1 \in 1..(Len(todo) - 1)  BY <1>2, <2>2
    <3>2. Tail(todo)[i - 1] = todo[(i - 1) + 1]  BY <1>2, <1>3, <3>1
    <3>3. (i - 1) + 1 = i  OBVIOUS
    <3> QED  BY <3>1, <3>2, <3>3
  <2> QED  BY <2>1, <2>2
<1>6. \A j \in 1..(Len(todo) - 1) : \E i \in 1..Len(todo) : Tail(todo)[j] = todo[i]
  <2> SUFFICES ASSUME NEW j \in 1..(Len(todo) - 1)
               PROVE  j + 1 \in 1..Len(todo) /\ Tail(todo)[j] = todo[j + 1]
    OBVIOUS
  <2> QED  BY <1>2, <1>3
<1>7. 1 \in 1..Len(todo) /\ todo[1] \in Disks  BY <1>1, <1>2
<1>8. Range(todo) = {Head(todo)} \cup Range(Tail(todo))
  <2>1. Range(todo) = {todo[i] : i \in 1..Len(todo)}  BY <1>4 DEF Range
  <2>2. Range(Tail(todo)) = {Tail(todo)[i] : i \in 1..(Len(todo) - 1)}
    BY <1>4 DEF Range
  <2>3. \A x \in Range(todo) : x = todo[1] \/ x \in Range(Tail(todo))
    BY <2>1, <2>2, <1>5
  <2>4. \A x \in Range(Tail(todo)) : x \in Range(todo)  BY <2>1, <2>2, <1>6
  <2> QED  BY <2>1, <2>3, <2>4, <1>3, <1>7
<1> QED  BY <1>2, <1>3, <1>7, <1>8

LEMMA PartitionedNext == DiskInv /\ [Next]_vars => Partitioned'
<1> SUFFICES ASSUME DiskInv, [Next]_vars PROVE Partitioned'
  OBVIOUS
<1>a. Partitioned /\ Stores /\ basedevs' = basedevs /\ Setup' = Setup
  <2>1. basedevs' = basedevs
    BY DEF vars, machine, Next, udev_assembles, KeyboardInterrupt, def_user_installer,
       clean_system, zero_superblock, clear_partition_table, create_partition, boot_fs,
       lvm_partition, raid, clean_vgs, vgcreate, volume_sizes, create_lvs
  <2> QED  BY <2>1, TypeParts DEF DiskInv, VgInv, Setup
<1>b. pc \in Looping => /\ Head(todo) \in Disks
                        /\ Range(todo) = {Head(todo)} \cup Range(Tail(todo))
  BY FirstDisk DEF DiskInv, VgInv
<1>1. CASE def_user_installer
  BY <1>1, <1>a DEF def_user_installer, Partitioned, Looping
<1>2. CASE clean_system
  BY <1>2, <1>a DEF clean_system, Goto, Partitioned, Looping
<1>3. CASE zero_superblock
  <2>1. Setup \ Range(basedevs) = {}  BY DEF Setup
  <2> QED  BY <1>3, <2>1, <1>a DEF zero_superblock, Goto, Partitioned, Looping
<1>4. CASE clear_partition_table
  <2>1. CASE pc' = "menu"  BY <2>1 DEF Partitioned, Looping
  <2>2. CASE pc' # "menu"
    <3>1. /\ pc = "clear" /\ pc' = "part1" /\ todo' = todo
          /\ parts' = [parts EXCEPT ![Head(todo)] = {}]
      BY <1>4, <2>2 DEF clear_partition_table
    <3>2. \A d \in Setup \ Range(todo) : d # Head(todo)  BY <1>b, <3>1 DEF Looping
    <3> QED  BY <3>1, <3>2, <1>a, SetupIsDisks, TypeMachine
             DEF Partitioned, Looping, Stores, DiskInv, VgInv
  <2> QED  BY <2>1, <2>2
<1>5. CASE create_partition
  <2>1. /\ pc \in {"part1", "part2"} /\ todo' = todo /\ pc' \in {"boot_fs", "lvm"}
        /\ \A d \in Disks : d # Head(todo) => parts'[d] = parts[d]
        /\ pc' = "lvm" => parts'[Head(todo)] = Places
    BY <1>5, <1>a, <1>b DEF create_partition, Goto, Stores, Looping, Places
  <2>2. \A d \in Setup \ Range(todo) : d # Head(todo) /\ d \in Disks
    BY <1>b, <2>1, SetupIsDisks, TypeMachine DEF Looping, DiskInv, VgInv
  <2> QED  BY <2>1, <2>2, <1>a DEF Partitioned, Looping
<1>6. CASE boot_fs
  BY <1>6, <1>a DEF boot_fs, Goto, Partitioned, Looping
<1>7. CASE lvm_partition
  <2>1. /\ pc = "lvm" /\ todo' = Tail(todo) /\ parts' = parts
        /\ pc' = IF Tail(todo) = <<>> THEN "clean_again" ELSE "clear"
    BY <1>7 DEF lvm_partition
  <2>2. \A d \in Setup \ Range(Tail(todo)) : parts[d] = Places
    BY <2>1, <1>a, <1>b DEF Partitioned, Looping
  <2>3. Tail(todo) = <<>> => Range(Tail(todo)) = {}  BY DEF Range
  <2> QED  BY <2>1, <2>2, <2>3, <1>a DEF Partitioned, Looping
<1>8. CASE raid
  BY <1>8, <1>a DEF raid, create_raid, Partitioned, Looping
<1>9. CASE UNCHANGED <<pc, todo, parts>>
  BY <1>9, <1>a DEF Partitioned
<1>10. CASE pc' \notin Looping \cup {"clean_system", "zero", "clean_again", "raid_boot",
                                     "raid_lvm"}
  BY <1>10 DEF Partitioned, Looping
<1>11. Next => \/ def_user_installer \/ clean_system \/ zero_superblock
               \/ clear_partition_table \/ create_partition \/ boot_fs \/ lvm_partition
               \/ raid \/ UNCHANGED <<pc, todo, parts>>
               \/ pc' \notin Looping \cup {"clean_system", "zero", "clean_again",
                                           "raid_boot", "raid_lvm"}
  BY DEF Next, Goto, Looping, udev_assembles, KeyboardInterrupt, clean_vgs, vgcreate,
     volume_sizes, create_lvs
<1>12. CASE UNCHANGED vars  BY <1>12, <1>9 DEF vars
<1> QED
  BY <1>1, <1>2, <1>3, <1>4, <1>5, <1>6, <1>7, <1>8, <1>9, <1>10, <1>11, <1>12

BootMp == IF efi_system THEN "/boot/efi" ELSE "/boot"
BootLine == [dev : ({"part"} \X Disks) \cup ({"md"} \X Numbers),
             mp : {"/boot", "/boot/efi"} \X Nat, type : {"vfat", "ext4"}]

\* Formatted by this run, but for a superblock that was hidden.
Formatted(l) ==
  /\ \/ <<l.dev, l.type>> \in fs
     \/ l.dev[1] = "part" /\ 1 \in super[l.dev[2]]
  /\ l.dev[1] = "md" => \E a \in arrays : a.n = l.dev[2] /\ a.place = 1 /\ a.members = Setup

\* A table of lines for /boot or its copies, none twice.
BootTable ==
  /\ fstab \in Seq(BootLine)
  /\ \A i \in 1..Len(fstab) : fstab[i].mp = <<BootMp, i>> /\ Formatted(fstab[i])

\* The part of it that the loop has written for k disks: none if there will be a mirror
\* for /boot.
LoopTable(k) ==
  /\ BootTable
  /\ \A i \in 1..Len(fstab) : fstab[i].dev[1] = "part"
  /\ Len(fstab) = IF efi_system \/ ~ Raid THEN k ELSE 0

WholeBoot == {"raid_lvm", "clean_vgs", "vgcreate", "lvs", "lvcreate"}

TableInv ==
  /\ pc \in {"clean_system", "zero"} => LoopTable(0)
  /\ pc \in {"clear", "part1", "boot_fs"} => LoopTable(Len(basedevs) - Len(todo))
  /\ pc \in {"part2", "lvm"} => LoopTable(Len(basedevs) - Len(todo) + 1)
  /\ pc \in {"clean_again", "raid_boot"} => LoopTable(Len(basedevs))
  /\ pc = "raid_boot" => Raid /\ ~ efi_system
  /\ pc \in WholeBoot => BootTable
  /\ FstabFormatted

AutoInv == DiskInv /\ TableInv

\* Superblocks come, and none is cleared.
SupersStay == \A d \in Disks : super[d] \subseteq super'[d]

\* Tables stay right as long as the filesystems are there and no array goes.
LEMMA BootTableKept ==
  ASSUME BootTable, UNCHANGED <<machine, fstab>>, fs \subseteq fs', SupersStay,
         arrays \subseteq arrays'
  PROVE  BootTable'
<1>1. Setup' = Setup /\ BootMp' = BootMp  BY DEF machine, Setup, BootMp
<1>2. \A i \in 1..Len(fstab) : Formatted(fstab[i])'
  <2> SUFFICES ASSUME NEW i \in 1..Len(fstab) PROVE Formatted(fstab[i])'
    OBVIOUS
  <2>1. fstab[i] \in BootLine /\ Formatted(fstab[i])  BY DEF BootTable
  <2>2. fstab[i].dev[1] = "part" => fstab[i].dev[2] \in Disks  BY <2>1 DEF BootLine
  <2>3. fstab' = fstab  OBVIOUS
  <2> QED  BY <1>1, <2>1, <2>2, <2>3 DEF Formatted, SupersStay
<1> QED  BY <1>1, <1>2 DEF BootTable

LEMMA LoopTableKept ==
  ASSUME NEW k, LoopTable(k), UNCHANGED <<machine, fstab>>, fs \subseteq fs', SupersStay
  PROVE  LoopTable(k)' /\ BootTable'
<1>1. Raid' = Raid /\ efi_system' = efi_system /\ BootMp' = BootMp
  BY DEF machine, Raid, BootMp
<1>2. \A i \in 1..Len(fstab) : Formatted(fstab[i])'
  <2> SUFFICES ASSUME NEW i \in 1..Len(fstab) PROVE Formatted(fstab[i])'
    OBVIOUS
  <2>1. fstab[i] \in BootLine /\ Formatted(fstab[i]) /\ fstab[i].dev[1] = "part"
    BY DEF BootTable, LoopTable
  <2>2. fstab[i].dev[2] \in Disks  BY <2>1 DEF BootLine
  <2>3. fstab' = fstab  OBVIOUS
  <2> QED  BY <2>1, <2>2, <2>3 DEF Formatted, SupersStay
<1> QED  BY <1>1, <1>2 DEF BootTable, LoopTable

\* One more line, for a device that was just formatted or has a hidden superblock.
LEMMA BootTableGrows ==
  ASSUME BootTable, UNCHANGED machine, arrays \subseteq arrays', fs \subseteq fs', SupersStay,
         NEW l \in BootLine, fstab' = Append(fstab, l),
         <<l.dev, l.type>> \in fs' \/ (l.dev[1] = "part" /\ 1 \in super'[l.dev[2]]),
         l.mp = <<BootMp, Len(fstab) + 1>>,
         l.dev[1] = "md" => \E a \in arrays' : a.n = l.dev[2] /\ a.place = 1 /\ a.members = Setup
  PROVE  /\ BootTable' /\ Len(fstab') = Len(fstab) + 1
         /\ \A i \in 1..Len(fstab') : fstab'[i] = IF i <= Len(fstab) THEN fstab[i] ELSE l
<1>1. Setup' = Setup /\ BootMp' = BootMp  BY DEF machine, Setup, BootMp
<1>2. /\ fstab' \in Seq(BootLine) /\ Len(fstab') = Len(fstab) + 1 /\ Len(fstab) \in Nat
      /\ \A i \in 1..Len(fstab') : fstab'[i] = IF i <= Len(fstab) THEN fstab[i] ELSE l
  BY AppendProperties DEF BootTable
<1>3. Formatted(l)'  BY <1>1 DEF Formatted
<1>4. \A x \in BootLine : Formatted(x) => Formatted(x)'
  <2> SUFFICES ASSUME NEW x \in BootLine, Formatted(x) PROVE Formatted(x)'
    OBVIOUS
  <2>1. x.dev[1] = "part" => x.dev[2] \in Disks  BY DEF BootLine
  <2> QED  BY <1>1, <2>1 DEF Formatted, SupersStay
<1>5. ASSUME NEW i \in 1..Len(fstab'), NEW x, x = fstab'[i]
      PROVE  x.mp = <<BootMp', i>> /\ Formatted(x)'
  <2>1. CASE i <= Len(fstab)
    <3>1. i \in 1..Len(fstab)  BY <2>1, <1>2
    <3>2. x = fstab[i]  BY <2>1, <1>2, <1>5
    <3>3. x.mp = <<BootMp, i>> /\ Formatted(x) /\ x \in BootLine  BY <3>1, <3>2 DEF BootTable
    <3> QED  BY <3>3, <1>1, <1>4
  <2>2. CASE ~ (i <= Len(fstab))
    <3>1. i = Len(fstab) + 1 /\ x = l  BY <2>2, <1>2, <1>5
    <3> QED  BY <3>1, <1>1, <1>3
  <2> QED  BY <2>1, <2>2
<1> QED  BY <1>2, <1>5 DEF BootTable, Formatted

\* The volumes' lines, behind a table of boot partitions.
LEMMA VolumeLines ==
  ASSUME AutoInv, create_lvs
  PROVE  FstabFormatted'
<1> DEFINE root == [dev |-> Lv("root"), mp |-> <<"/", 1>>, type |-> "ext4"]
           swap == [dev |-> Lv("swap"), mp |-> <<"swap", 1>>, type |-> "swap"]
           n == Len(fstab)
<1> SUFFICES ASSUME pc' = "done" PROVE FstabFormatted'
  BY DEF FstabFormatted
<1>1. /\ BootTable /\ Setup' = Setup /\ arrays' = arrays /\ super' = super
      /\ fs' = fs \cup {<<Lv("root"), "ext4">>}
      /\ \/ fstab' = fstab \o <<root>> \o <<>>
         \/ fstab' = fstab \o <<root>> \o <<swap>>
  BY DEF create_lvs, AutoInv, TableInv, WholeBoot, machine, md, Setup
<1>2. n \in Nat /\ fstab \in Seq(BootLine)  BY <1>1 DEF BootTable
<1>3. ASSUME NEW i \in DOMAIN fstab'
      PROVE  \/ i \in 1..n /\ fstab'[i] = fstab[i]
             \/ i = n + 1 /\ fstab'[i] = root
             \/ i = n + 2 /\ fstab'[i] = swap
  <2> HIDE DEF root, swap
  <2> DEFINE S == BootLine \cup {root, swap}
  <2>1. fstab \in Seq(S) /\ <<root>> \in Seq(S) /\ <<swap>> \in Seq(S) /\ <<>> \in Seq(S)
    BY <1>2
  <2>2. fstab \o <<root>> \in Seq(S) /\ Len(fstab \o <<root>>) = n + 1
    BY <2>1
  <2>3. \A j \in 1..(n + 1) : (fstab \o <<root>>)[j] = IF j <= n THEN fstab[j] ELSE root
    BY <2>1, <1>2
  <2> DEFINE t == fstab \o <<root>>
  <2> HIDE DEF S, t
  <2>4. CASE fstab' = t \o <<>>
    <3>1. fstab' = t  BY <2>2, <2>4 DEF t
    <3> QED  BY <3>1, <2>2, <2>3, <1>2 DEF t
  <2>5. CASE fstab' = t \o <<swap>>
    <3>1. t \in Seq(S) /\ Len(t) = n + 1 /\ <<swap>> \in Seq(S)  BY <2>1, <2>2 DEF t
    <3>2. DOMAIN fstab' = 1..(n + 2)  BY <3>1, <2>5, <1>2
    <3>3. fstab'[i] = IF i <= n + 1 THEN t[i] ELSE swap  BY <3>1, <3>2, <2>5, <1>2
    <3> QED  BY <3>2, <3>3, <2>3, <1>2 DEF t
  <2> QED  BY <1>1, <2>4, <2>5 DEF t
<1>4. ASSUME NEW i \in 1..n
      PROVE  /\ \/ <<fstab[i].dev, fstab[i].type>> \in fs'
                \/ fstab[i].dev[1] = "part" /\ 1 \in super[fstab[i].dev[2]]
             /\ fstab[i].dev[1] = "md" =>
                  \E a \in arrays : a.n = fstab[i].dev[2] /\ a.place = 1 /\ a.members = Setup
             /\ fstab[i].mp = <<BootMp, i>>
  BY <1>1, <1>4 DEF BootTable, Formatted
<1>5. ASSUME NEW l \in Range(fstab)', l.type # "swap"
      PROVE  /\ \/ <<l.dev, l.type>> \in fs'
                \/ l.dev[1] = "part" /\ 1 \in super'[l.dev[2]]
             /\ l.dev[1] = "md" =>
                  \E a \in arrays' : a.n = l.dev[2] /\ a.place = 1 /\ a.members = Setup'
  <2>1. PICK i \in DOMAIN fstab' : l = fstab'[i]  BY DEF Range
  <2>2. CASE i \in 1..n /\ fstab'[i] = fstab[i]  BY <2>1, <2>2, <1>1, <1>4
  <2>3. CASE fstab'[i] = root  BY <2>1, <2>3, <1>1 DEF Lv
  <2>4. CASE fstab'[i] = swap  BY <2>1, <2>4, <1>5
  <2> QED  BY <2>2, <2>3, <2>4, <1>3
<1>6. ASSUME NEW i \in DOMAIN fstab', NEW j \in DOMAIN fstab', fstab'[i].mp = fstab'[j].mp
      PROVE  i = j
  <2>1. BootMp # "/" /\ BootMp # "swap"  BY DEF BootMp
  <2>2. root.mp = <<"/", 1>> /\ swap.mp = <<"swap", 1>>  OBVIOUS
  <2> HIDE DEF root, swap, n
  <2>3. CASE i \in 1..n /\ fstab'[i] = fstab[i]
    <3>1. fstab'[i].mp = <<BootMp, i>>  BY <2>3, <1>4
    <3>2. CASE j \in 1..n /\ fstab'[j] = fstab[j]
      <4>1. fstab'[j].mp = <<BootMp, j>>  BY <3>2, <1>4
      <4> QED  BY <3>1, <4>1, <1>6
    <3> QED  BY <3>1, <3>2, <2>1, <2>2, <1>3, <1>6
  <2>4. CASE i = n + 1 /\ fstab'[i] = root
    <3>1. CASE j \in 1..n /\ fstab'[j] = fstab[j]
      <4>1. fstab'[j].mp = <<BootMp, j>>  BY <3>1, <1>4
      <4> QED  BY <2>4, <4>1, <2>1, <2>2, <1>6
    <3> QED  BY <3>1, <2>4, <2>2, <1>3, <1>6
  <2>5. CASE i = n + 2 /\ fstab'[i] = swap
    <3>1. CASE j \in 1..n /\ fstab'[j] = fstab[j]
      <4>1. fstab'[j].mp = <<BootMp, j>>  BY <3>1, <1>4
      <4> QED  BY <2>5, <4>1, <2>1, <2>2, <1>6
    <3> QED  BY <3>1, <2>5, <2>2, <1>3, <1>6
  <2> QED  BY <2>3, <2>4, <2>5, <1>3
<1> QED  BY <1>5, <1>6 DEF FstabFormatted

\* boot_fs formats a partition that is not in use; one that is has a superblock.
LEMMA BootFsTable ==
  ASSUME AutoInv, boot_fs
  PROVE  LoopTable(Len(basedevs) - Len(todo) + 1)'
<1> DEFINE d == Head(todo)
           k == Len(basedevs) - Len(todo)
<1>1. /\ pc \in Looping \ {"clear"} /\ LoopTable(k) /\ TypeOK /\ HasDisk /\ DiskInv
      /\ UNCHANGED <<machine, todo, arrays, super>> /\ SupersStay
  BY DEF SupersStay, boot_fs, Goto, Looping, AutoInv, DiskInv, VgInv, TableInv, md
<1>2. d \in Disks /\ (Busy(d, 1) => 1 \in super'[d])
  <2>1. Busy(d, 1) => 1 \in super[d]  BY <1>1 DEF DiskInv, VgInv, Marked, Busy
  <2> QED  BY <1>1, <2>1, FirstDisk
<1>3. k \in Int /\ basedevs \in Seq(Disks) /\ Len(basedevs) \in Nat /\ Len(todo) \in Nat
      /\ k + 1 = Len(basedevs) - Len(todo) + 1
  <2>1. basedevs \in Seq(Disks) /\ todo \in Seq(Disks)
    BY <1>1, TypeMachine DEF TypeOK, Machine
  <2> QED  BY <2>1
<1>4. Raid' = Raid /\ efi_system' = efi_system /\ basedevs' = basedevs /\ todo' = todo
  BY <1>1 DEF machine, Raid
<1>5. BootTable /\ Len(fstab) = (IF efi_system \/ ~ Raid THEN k ELSE 0)
      /\ \A i \in 1..Len(fstab) : fstab[i].dev[1] = "part"
  BY <1>1 DEF LoopTable
<1>6. ASSUME efi_system \/ ~ Raid,
             NEW l \in BootLine, fs \subseteq fs',
             <<l.dev, l.type>> \in fs' \/ 1 \in super'[l.dev[2]],
             fstab' = Append(fstab, l), l.mp = <<BootMp, k + 1>>, l.dev = <<"part", d>>
      PROVE  LoopTable(k + 1)'
  <2>1. Len(fstab) = k  BY <1>5, <1>6
  <2>2. l.dev[1] = "part"  BY <1>6
  <2>3. /\ BootTable' /\ Len(fstab') = Len(fstab) + 1
        /\ \A i \in 1..Len(fstab') : fstab'[i] = IF i <= Len(fstab) THEN fstab[i] ELSE l
    BY <1>1, <1>5, <1>6, <2>1, <2>2, BootTableGrows
  <2>4. \A i \in 1..Len(fstab') : fstab'[i].dev[1] = "part"
    BY <2>1, <2>2, <2>3, <1>3, <1>5
  <2> QED  BY <2>1, <2>3, <2>4, <1>3, <1>4, <1>6 DEF LoopTable
<1>7. CASE efi_system
  <2> DEFINE l == [dev |-> <<"part", d>>, mp |-> EfiMount, type |-> "vfat"]
  <2>1. l.mp = <<BootMp, k + 1>> /\ l.dev = <<"part", d>> /\ l.type = "vfat"
    BY <1>7, <1>3 DEF EfiMount, BootMp
  <2>2. k + 1 \in Nat
    <3>1. Len(fstab) = k /\ fstab \in Seq(BootLine)  BY <1>5, <1>7 DEF BootTable
    <3> QED  BY <3>1
  <2>3. l \in BootLine
    BY <2>1, <2>2, <1>2, <1>7 DEF BootLine, BootMp
  <2>4. /\ fs \subseteq fs' /\ fstab' = Append(fstab, l)
        /\ <<l.dev, l.type>> \in fs' \/ 1 \in super'[l.dev[2]]
    BY <1>2, <1>7 DEF boot_fs, _set_dev_contents
  <2> HIDE DEF l
  <2> QED  BY <2>1, <2>3, <2>4, <1>3, <1>4, <1>6, <1>7
<1>8. CASE ~ efi_system /\ Raid
  <2>1. UNCHANGED <<fs, fstab>>  BY <1>8 DEF boot_fs, tables
  <2>2. \A j : LoopTable(j) => LoopTable(j)'  BY <2>1, <1>1, LoopTableKept
  <2> QED  BY <2>2, <1>1, <1>4, <1>8 DEF LoopTable
<1>9. CASE ~ efi_system /\ ~ Raid
  <2> DEFINE l == [dev |-> <<"part", d>>, mp |-> <<"/boot", 1>>, type |-> "ext4"]
  <2>1. todo = basedevs  BY <1>1, <1>9 DEF DiskInv, VgInv, SingleDisk
  <2>2. k = 0  BY <2>1, <1>3
  <2>3. /\ l.mp = <<BootMp, k + 1>> /\ l.dev = <<"part", d>> /\ l.type = "ext4"
        /\ l \in BootLine
    BY <2>2, <1>2, <1>9 DEF BootMp, BootLine
  <2>4. /\ fs \subseteq fs' /\ fstab' = Append(fstab, l)
        /\ <<l.dev, l.type>> \in fs' \/ 1 \in super'[l.dev[2]]
    BY <1>2, <1>9 DEF boot_fs, _set_dev_contents
  <2> HIDE DEF l
  <2> QED  BY <2>3, <2>4, <1>3, <1>4, <1>6, <1>9
<1> QED  BY <1>7, <1>8, <1>9

\* The mirror for /boot is formatted when it was just made.
LEMMA RaidTable ==
  ASSUME AutoInv, raid, pc' # "menu"
  PROVE  BootTable' /\ pc' \in WholeBoot
<1>0. UNCHANGED machine /\ pc' \in WholeBoot
  BY DEF raid, create_raid, WholeBoot
<1>s. SupersStay  BY DEF raid, create_raid, md, SupersStay
<1>1. CASE pc = "raid_boot"
  <2>1. create_raid(1, "raid_lvm") /\ ~ \E d \in Setup : Busy(d, 1)
    BY <1>1 DEF raid, create_raid
  <2>2. PICK n \in Numbers :
          /\ arrays' = arrays \cup {[n |-> n, place |-> 1, members |-> Setup]}
          /\ _set_dev_contents(<<"md", n>>, FALSE, <<"/boot", 1>>, "ext4")
    BY <2>1 DEF create_raid
  <2> DEFINE l == [dev |-> <<"md", n>>, mp |-> <<"/boot", 1>>, type |-> "ext4"]
  <2>3. LoopTable(Len(basedevs)) /\ Raid /\ ~ efi_system
    BY <1>1 DEF AutoInv, TableInv
  <2>4. BootTable /\ Len(fstab) = 0  BY <2>3 DEF LoopTable
  <2>5. /\ l \in BootLine /\ l.mp = <<BootMp, Len(fstab) + 1>> /\ l.dev = <<"md", n>>
        /\ l.type = "ext4"
    BY <2>3, <2>4 DEF BootLine, BootMp
  <2>6. fs' = fs \cup {<<l.dev, l.type>>} /\ fstab' = Append(fstab, l)
    BY <2>2 DEF _set_dev_contents
  <2>7. l.dev[1] = "md" => \E a \in arrays' : a.n = l.dev[2] /\ a.place = 1 /\ a.members = Setup
    <3>1. [n |-> n, place |-> 1, members |-> Setup] \in arrays'  BY <2>2
    <3>2. l.dev[2] = n  OBVIOUS
    <3> HIDE DEF l
    <3> QED  BY <3>1, <3>2
  <2> HIDE DEF l
  <2>8. BootTable'  BY <2>2, <2>4, <2>5, <2>6, <2>7, <1>0, <1>s, BootTableGrows
  <2> QED  BY <2>8, <1>0
<1>2. CASE pc = "raid_lvm"
  <2>1. create_raid(2, "clean_vgs") /\ ~ \E d \in Setup : Busy(d, 2)
    BY <1>2 DEF raid, create_raid
  <2>2. UNCHANGED <<fs, fstab>> /\ arrays \subseteq arrays'
    BY <2>1, 1 # 2 DEF create_raid, tables
  <2>3. BootTable  BY <1>2 DEF AutoInv, TableInv, WholeBoot
  <2> QED  BY <2>2, <2>3, <1>0, <1>s, BootTableKept
<1> QED  BY <1>1, <1>2 DEF raid

LEMMA TableNext == AutoInv /\ [Next]_vars => TableInv'
<1> SUFFICES ASSUME AutoInv, [Next]_vars PROVE TableInv'
  OBVIOUS
<1>a. DiskInv /\ TableInv /\ TypeOK /\ HasDisk  BY DEF AutoInv, DiskInv, VgInv
<1>1. CASE def_user_installer
  <2>1. /\ pc' = "clean_system" /\ fs' = {} /\ fstab' = <<>>
    BY <1>1 DEF def_user_installer
  <2>2. LoopTable(0)'
    BY <2>1 DEF LoopTable, BootTable
  <2> QED  BY <2>1, <2>2 DEF TableInv, WholeBoot, FstabFormatted
<1>2. CASE clean_system
  <2>1. UNCHANGED <<machine, todo, fs, fstab>> /\ SupersStay
    BY <1>2 DEF clean_system, tables, SupersStay
  <2>2. basedevs' = basedevs /\ Raid' = Raid /\ efi_system' = efi_system
    BY <2>1 DEF machine, Raid
  <2>3. CASE pc = "clean_system"
    <3>1. LoopTable(0)'  BY <2>1, <2>3, <1>a, LoopTableKept DEF TableInv
    <3>2. pc' = "zero"  BY <2>3, <1>2 DEF clean_system, Goto
    <3> QED  BY <3>1, <3>2 DEF TableInv, WholeBoot, FstabFormatted
  <2>4. CASE pc = "clean_again"
    <3>1. LoopTable(Len(basedevs))' /\ BootTable'
      BY <2>1, <2>2, <2>4, <1>a, LoopTableKept DEF TableInv, LoopTable
    <3>2. \/ pc' \in {"clean_vgs", "raid_lvm"}
          \/ pc' = "raid_boot" /\ Raid' /\ ~ efi_system'
      BY <2>2, <2>4, <1>2 DEF clean_system, Goto
    <3> QED  BY <3>1, <3>2 DEF TableInv, WholeBoot, FstabFormatted
  <2> QED  BY <2>3, <2>4, <1>2 DEF clean_system, Goto
<1>3. CASE zero_superblock
  <2>1. UNCHANGED <<machine, todo, fs, fstab>> /\ pc' = "clear" /\ pc = "zero"
    BY <1>3 DEF zero_superblock, tables, Goto
  <2>2. todo = basedevs /\ basedevs' = basedevs
    BY <2>1, <1>a DEF DiskInv, VgInv, Partitioned, machine
  <2>3. Len(basedevs') - Len(todo') = 0
    <3>1. basedevs \in Seq(Disks)  BY <1>a, TypeMachine DEF Machine
    <3> QED  BY <3>1, <2>1, <2>2
  <2>4. LoopTable(0)'
    <3>1. LoopTable(0) /\ Len(fstab) = 0  BY <2>1, <1>a DEF TableInv, LoopTable
    <3>2. Raid' = Raid /\ efi_system' = efi_system  BY <2>1 DEF machine, Raid
    <3>3. fstab' = fstab  BY <2>1
    <3> QED  BY <3>1, <3>2, <3>3 DEF LoopTable, BootTable
  <2> QED  BY <2>1, <2>3, <2>4 DEF TableInv, WholeBoot, FstabFormatted
<1>4. CASE clear_partition_table \/ create_partition
  <2>1. UNCHANGED <<machine, todo, fs, fstab>> /\ SupersStay
    BY <1>4 DEF clear_partition_table, create_partition, tables, md, SupersStay
  <2>2. basedevs' = basedevs /\ todo' = todo  BY <2>1 DEF machine
  <2> DEFINE k == Len(basedevs) - Len(todo)
  <2>3. \/ pc' = "menu"
        \/ pc = "clear" /\ pc' = "part1"
        \/ pc = "part1" /\ pc' = "boot_fs"
        \/ pc = "part2" /\ pc' = "lvm"
    BY <1>4 DEF clear_partition_table, create_partition, Goto
  <2>4. CASE pc' \in {"part1", "boot_fs"}
    <3>1. LoopTable(k)  BY <2>3, <2>4, <1>a DEF TableInv
    <3>2. \A j : LoopTable(j) => LoopTable(j)'  BY <2>1, LoopTableKept
    <3> QED  BY <3>1, <3>2, <2>2, <2>4 DEF TableInv, WholeBoot, FstabFormatted, LoopTable
  <2>5. CASE pc' = "lvm"
    <3>1. LoopTable(k + 1)  BY <2>3, <2>5, <1>a DEF TableInv
    <3>2. \A j : LoopTable(j) => LoopTable(j)'  BY <2>1, LoopTableKept
    <3> QED  BY <3>1, <3>2, <2>2, <2>5 DEF TableInv, WholeBoot, FstabFormatted, LoopTable
  <2>6. CASE pc' = "menu"  BY <2>6 DEF TableInv, WholeBoot, FstabFormatted
  <2> QED  BY <2>3, <2>4, <2>5, <2>6
<1>5. CASE boot_fs
  <2>1. pc' = "part2"  BY <1>5 DEF boot_fs, Goto
  <2> QED  BY <1>5, <2>1, BootFsTable DEF TableInv, WholeBoot, FstabFormatted
<1>6. CASE lvm_partition
  <2>1. /\ pc = "lvm" /\ UNCHANGED <<machine, fs, fstab>> /\ todo' = Tail(todo)
        /\ pc' = IF Tail(todo) = <<>> THEN "clean_again" ELSE "clear"
        /\ basedevs' = basedevs /\ SupersStay
    BY <1>6 DEF lvm_partition, tables, machine, md, SupersStay
  <2> DEFINE k == Len(basedevs) - Len(todo) + 1
  <2>2. LoopTable(k) /\ \A j : LoopTable(j) => LoopTable(j)'
    BY <2>1, <1>a, LoopTableKept DEF TableInv
  <2>3. Len(basedevs') - Len(todo') = k /\ (Tail(todo) = <<>> => k = Len(basedevs'))
    <3>1. Len(Tail(todo)) = Len(todo) - 1 /\ Len(todo) \in Nat
      BY <2>1, <1>a, FirstDisk DEF Looping
    <3>2. basedevs \in Seq(Disks)  BY <1>a, TypeMachine DEF Machine
    <3>3. Len(basedevs) \in Nat  BY <3>2
    <3>4. Tail(todo) = <<>> => Len(Tail(todo)) = 0  BY EmptySeq
    <3>5. Len(todo') = Len(todo) - 1 /\ Len(basedevs') = Len(basedevs)
      BY <2>1, <3>1
    <3> QED  BY <3>1, <3>3, <3>4, <3>5
  <2> HIDE DEF k
  <2>4. PICK j : j = k  OBVIOUS
  <2>5. LoopTable(j)'  BY <2>2, <2>4
  <2> QED  BY <2>1, <2>3, <2>4, <2>5 DEF LoopTable, TableInv, WholeBoot, FstabFormatted
<1>7. CASE raid
  <2>1. CASE pc' = "menu"  BY <2>1 DEF TableInv, WholeBoot, FstabFormatted
  <2>2. CASE pc' # "menu"
    <3>1. BootTable' /\ pc' \in WholeBoot  BY <1>7, <2>2, RaidTable DEF AutoInv
    <3> QED  BY <3>1 DEF TableInv, WholeBoot, FstabFormatted
  <2> QED  BY <2>1, <2>2
<1>8. CASE clean_vgs \/ vgcreate \/ volume_sizes
  <2>1. /\ pc \in WholeBoot /\ pc' \in {"vgcreate", "lvs", "lvcreate", "menu"}
        /\ UNCHANGED <<machine, fs, fstab, arrays>> /\ SupersStay
    BY <1>8 DEF SupersStay, clean_vgs, vgcreate, volume_sizes, Goto, WholeBoot, md, tables
  <2>2. BootTable'  BY <2>1, <1>a, BootTableKept DEF TableInv
  <2> QED  BY <2>1, <2>2 DEF TableInv, WholeBoot, FstabFormatted
<1>9. CASE create_lvs
  <2>1. pc' \in {"menu", "done"}  BY <1>9 DEF create_lvs
  <2> QED  BY <1>9, <2>1, VolumeLines DEF TableInv, WholeBoot
<1>10. CASE KeyboardInterrupt
  BY <1>10 DEF KeyboardInterrupt, TableInv, WholeBoot, FstabFormatted
<1>11. CASE udev_assembles \/ UNCHANGED vars
  <2>1. /\ UNCHANGED <<machine, pc, todo, fs, fstab, super>> /\ arrays \subseteq arrays'
        /\ SupersStay
    BY <1>11 DEF SupersStay, udev_assembles, vars, md, tables
  <2>2. /\ basedevs' = basedevs /\ todo' = todo /\ Raid' = Raid
        /\ efi_system' = efi_system /\ Setup' = Setup
    BY <2>1 DEF machine, Raid, Setup
  <2>3. \A k : LoopTable(k) => LoopTable(k)'  BY <2>1, LoopTableKept
  <2>4. BootTable => BootTable'  BY <2>1, BootTableKept
  <2>5. FstabFormatted => FstabFormatted'
    BY <2>1, <2>2 DEF FstabFormatted
  <2> QED  BY <2>1, <2>2, <2>3, <2>4, <2>5, <1>a DEF TableInv
<1> QED
  BY <1>1, <1>2, <1>3, <1>4, <1>5, <1>6, <1>7, <1>8, <1>9, <1>10, <1>11 DEF Next

\* FstabFormatted: when an install comes to its end its fstab names what it has
\* formatted, whatever was on the disks at first, and however often and wherever
\* installs were interrupted before (def_user_installer, L862-887, L952-986,
\* L1150-1318).
THEOREM FstabAlwaysFormatted == Spec => []FstabFormatted
<1>1. Init => VgInv /\ Partitioned /\ TableInv
  BY VgInit DEF Init, Looping, Partitioned, TableInv, WholeBoot, FstabFormatted
<1>2. VgInv /\ Partitioned /\ TableInv /\ [Next]_vars => (Partitioned /\ TableInv)'
  BY PartitionedNext, TableNext DEF AutoInv, DiskInv
<1>3. TableInv => FstabFormatted  BY DEF TableInv
<1> QED  BY <1>1, <1>2, <1>3, VgAlways, PTL DEF Spec

=============================================================================
