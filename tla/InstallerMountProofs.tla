------------------------ MODULE InstallerMountProofs ------------------------
(***************************************************************************)
(* The mount bookkeeping is right for every set of devices, every tree of  *)
(* mount points and every fstab, provided no interrupt strikes while       *)
(* setup_from_existing_install has a root mounted that mounts does not     *)
(* know of.                                                                *)
(***************************************************************************)
EXTENDS InstallerProofs

-----------------------------------------------------------------------------
(* The kernel's mount table as a set of mount points.                      *)

\* A table is empty exactly when it has no mount point in use.
LEMMA TableFacts ==
  ASSUME NEW s \in Seq(KMount)
  PROVE  /\ {s[i].at : i \in 1..Len(s)} \subseteq MountPoints \cup Special
         /\ {s[i].at : i \in 1..Len(s)} = {} <=> s = <<>>
<1>1. Len(s) \in Nat /\ \A i \in 1..Len(s) : s[i] \in KMount
  BY LenProperties, ElementOfSeq
<1>2. {s[i].at : i \in 1..Len(s)} \subseteq MountPoints \cup Special
  BY <1>1 DEF KMount
<1>3. s = <<>> => {s[i].at : i \in 1..Len(s)} = {}
  OBVIOUS
<1>4. ASSUME {s[i].at : i \in 1..Len(s)} = {} PROVE s = <<>>
  <2>1. 1 \notin 1..Len(s)
    BY <1>4
  <2>2. Len(s) = 0
    BY <1>1, <2>1
  <2> QED
    BY <2>2, EmptySeq
<1> QED
  BY <1>2, <1>3, <1>4

\* Mount points are the program's or one of the special ones.
LEMMA MountedFacts ==
  ASSUME kmounts \in Seq(KMount)
  PROVE  /\ Mounted \subseteq MountPoints \cup Special
         /\ Mounted = {} <=> kmounts = <<>>
  BY TableFacts DEF Mounted

\* The same after a step.
LEMMA MountedFactsNext ==
  ASSUME kmounts' \in Seq(KMount)
  PROVE  Mounted' = {} <=> kmounts' = <<>>
  BY TableFacts DEF Mounted

\* Nothing is above-by a special mount point.
LEMMA SpecialApart ==
  ASSUME kmounts \in Seq(KMount)
  PROVE  \A p \in Special, q \in Mounted : p \notin Above[q]
<1>1. \A q \in Mounted : Above[q] \subseteq MountPoints
  BY MountedFacts, MountPointsAssumption
<1> QED
  BY <1>1, MountPointsAssumption

\* Unmounting a special mount point always removes it.
LEMMA UnmountSpecial ==
  ASSUME NEW p \in Special, kmounts \in Seq(KMount), NoHiddenMount, unmount(p)
  PROVE  /\ kmounts' \in Seq(KMount)
         /\ NoHiddenMount'
         /\ Mounted' \subseteq Mounted \ {p}
<1>1. \A q \in Mounted : p \notin Above[q]
  BY SpecialApart
<1> QED
  BY <1>1, UnmountEffect

\* Mounting a special mount point that is not in use hides nothing.
LEMMA MountSpecial ==
  ASSUME NEW p \in Special, kmounts \in Seq(KMount), NoHiddenMount,
         mount(p, "none"), p \notin Mounted
  PROVE  /\ kmounts' \in Seq(KMount)
         /\ NoHiddenMount'
         /\ Mounted' \subseteq Mounted \cup {p}
         /\ kmounts = <<>> => kmounts' = <<>>
<1>1. \A q \in Mounted : p \notin {q} \cup Above[q]
  BY SpecialApart
<1>2. p # "/"
  BY MountPointsAssumption
<1> QED
  BY <1>1, <1>2, MountEffect

\* The last key in sort order has nothing mounted below it.
LEMMA UnmountLastKey ==
  ASSUME NEW T \in SUBSET MountPoints, NEW p \in T,
         \A q \in T : SortPos[q] <= SortPos[p],
         kmounts \in Seq(KMount), NoHiddenMount, Mounted \subseteq T, unmount(p)
  PROVE  /\ kmounts' \in Seq(KMount)
         /\ NoHiddenMount'
         /\ Mounted' \subseteq T \ {p}
<1>1. ASSUME NEW q \in Mounted, p \in Above[q] PROVE FALSE
  <2>1. /\ q \in MountPoints /\ p \in MountPoints
        /\ SortPos[q] \in Nat /\ SortPos[p] \in Nat
    BY MountPointsAssumption
  <2>2. SortPos[p] < SortPos[q] /\ SortPos[q] <= SortPos[p]
    BY <1>1, <2>1, MountPointsAssumption
  <2> QED
    BY <2>1, <2>2
<1> QED
  BY <1>1, UnmountEffect

\* A key that sorts after everything mounted hides nothing.
LEMMA MountNextKey ==
  ASSUME NEW p \in MountPoints, NEW dev \in Devices,
         kmounts \in Seq(KMount), NoHiddenMount, Mounted \subseteq MountPoints,
         \A q \in Mounted : SortPos[q] < SortPos[p], mount(p, dev)
  PROVE  /\ kmounts' \in Seq(KMount)
         /\ NoHiddenMount'
         /\ Mounted' \subseteq Mounted \cup {p}
<1>1. ASSUME NEW q \in Mounted, p \in {q} \cup Above[q] PROVE FALSE
  <2>1. /\ q \in MountPoints
        /\ SortPos[q] \in Nat /\ SortPos[p] \in Nat /\ SortPos[q] < SortPos[p]
    BY MountPointsAssumption
  <2>2. p # q
    BY <2>1
  <2>3. SortPos[p] < SortPos[q]
    BY <1>1, <2>1, <2>2, MountPointsAssumption
  <2> QED
    BY <2>1, <2>3
<1> QED
  BY <1>1, MountEffect

\* A step that leaves the kernel's mounts alone.
LEMMA SameMounts ==
  ASSUME kmounts' = kmounts
  PROVE  Mounted' = Mounted /\ NoHiddenMount' = NoHiddenMount
  BY DEF Mounted, NoHiddenMount

-----------------------------------------------------------------------------
(* MountsTracked is inductive.                                             *)

LEMMA TrackedStep ==
  ASSUME SetupWindow \subseteq Shielded, TInv, MountsTracked, [Next]_vars
  PROVE  MountsTracked'
<1> USE DEF SetupSteps, Unmounting, Clean, Returns
<1>0. /\ kmounts \in Seq(KMount)
      /\ DOMAIN mounts \subseteq MountPoints
      /\ mounts \in [DOMAIN mounts -> Devices]
      /\ MountPoints \cap Special = {}
      /\ Special = {"/dev", "/proc", "/sys"}
  BY MountPointsAssumption DEF TInv, TypeOK, Special
<1> HIDE DEF Special
<1>1. ASSUME unmount_all_special PROVE MountsTracked'
  <2>1. PICK p \in todo :
           /\ unmount(p) /\ pc = "umount_special"
           /\ IF todo = {p}
              THEN pc' = "umount_keys" /\ todo' = DOMAIN mounts
              ELSE pc' = pc /\ todo' = todo \ {p}
    BY <1>1 DEF unmount_all_special
  <2>2. /\ NoHiddenMount /\ p \in Special
        /\ todo \subseteq Special /\ Mounted \subseteq DOMAIN mounts \cup todo
        /\ DOMAIN mounts = {} => Mounted = {}
    BY <1>0, <2>1, MountedFacts DEF MountsTracked
  <2>3. /\ NoHiddenMount' /\ Mounted' \subseteq Mounted \ {p}
        /\ Mounted' = {} <=> kmounts' = <<>>
    BY <1>0, <2>1, <2>2, UnmountSpecial, MountedFactsNext
  <2>4. UNCHANGED <<op, ret, mounts>>
    BY <1>1 DEF unmount_all_special, state
  <2>5. CASE todo = {p}
    BY <2>1, <2>2, <2>3, <2>4, <2>5 DEF MountsTracked
  <2>6. CASE todo # {p}
    BY <2>1, <2>2, <2>3, <2>4, <2>6 DEF MountsTracked
  <2> QED
    BY <2>5, <2>6
<1>2. ASSUME unmount_all_keys PROVE MountsTracked'
  <2>1. PICK p \in todo :
           /\ unmount(p) /\ pc = "umount_keys"
           /\ \A q \in todo : SortPos[q] <= SortPos[p]
           /\ IF todo = {p}
              THEN pc' = ret /\ ret' = "menu" /\ todo' = {}
              ELSE pc' = pc /\ ret' = ret /\ todo' = todo \ {p}
    BY <1>2 DEF unmount_all_keys
  <2>2. todo \subseteq MountPoints /\ Mounted \subseteq todo /\ NoHiddenMount
    BY <1>0, <2>1 DEF MountsTracked
  <2>3. /\ NoHiddenMount' /\ Mounted' \subseteq todo \ {p}
        /\ Mounted' = {} <=> kmounts' = <<>>
    BY <1>0, <2>1, <2>2, UnmountLastKey, MountedFactsNext
  <2>4. op' = op /\ mounts' = mounts /\ ret \in Returns /\ pc' \in Returns \cup {pc}
    BY <1>2, <2>1 DEF unmount_all_keys, state, TInv, TypeOK
  <2>5. CASE todo = {p}
    BY <2>1, <2>3, <2>4, <2>5 DEF MountsTracked
  <2>6. CASE todo # {p}
    BY <2>1, <2>2, <2>3, <2>4, <2>6 DEF MountsTracked
  <2> QED
    BY <2>5, <2>6
<1>3. ASSUME mount_all_keys PROVE MountsTracked'
  <2>1. PICK p \in todo :
           /\ mount(p, mounts[p]) /\ pc = "mount_keys"
           /\ \A q \in todo : SortPos[p] <= SortPos[q]
           /\ IF todo = {p}
              THEN pc' = "mount_special" /\ todo' = Special
              ELSE pc' = pc /\ todo' = todo \ {p}
    BY <1>3 DEF mount_all_keys
  <2>2. /\ todo \subseteq DOMAIN mounts /\ Mounted \subseteq DOMAIN mounts
        /\ NoHiddenMount /\ ret = "menu"
        /\ \A q \in Mounted, t \in todo : SortPos[q] < SortPos[t]
    BY <2>1 DEF MountsTracked
  <2>3. p \in MountPoints /\ mounts[p] \in Devices
    BY <1>0, <2>2
  <2>4. NoHiddenMount' /\ Mounted' \subseteq Mounted \cup {p}
    BY <1>0, <2>1, <2>2, <2>3, MountNextKey
  <2>5. UNCHANGED <<op, ret, mounts>>
    BY <1>3 DEF mount_all_keys, state
  <2>6. CASE todo = {p}
    BY <1>0, <2>1, <2>2, <2>3, <2>4, <2>5, <2>6 DEF MountsTracked
  <2>7. CASE todo # {p}
    <3>1. ASSUME NEW q \in Mounted', NEW t \in todo'
          PROVE  SortPos[q] < SortPos[t]
      <4>1. t \in todo /\ t # p
        BY <2>1, <2>7
      <4>2. CASE q \in Mounted
        BY <2>2, <4>1, <4>2
      <4>3. CASE q = p
        BY <1>0, <2>1, <2>2, <4>1, <4>3, MountPointsAssumption
      <4> QED
        BY <2>4, <4>2, <4>3
    <3> QED
      BY <2>1, <2>2, <2>4, <2>5, <2>7, <3>1 DEF MountsTracked
  <2> QED
    BY <2>6, <2>7
<1>4. ASSUME mount_all_special PROVE MountsTracked'
  <2>1. PICK p \in todo :
           /\ mount(p, "none") /\ pc = "mount_special"
           /\ IF todo # {p}
              THEN pc' = pc /\ todo' = todo \ {p}
              ELSE pc' \in {"auto_mark", "finished"}
    BY <1>4 DEF mount_all_special, Finish
  <2>2. p \in Special /\ p \notin Mounted /\ NoHiddenMount
    BY <2>1 DEF MountsTracked
  <2>3. /\ NoHiddenMount' /\ Mounted' \subseteq Mounted \cup {p}
        /\ kmounts = <<>> => kmounts' = <<>>
    BY <1>0, <2>1, <2>2, MountSpecial
  <2>4. UNCHANGED <<op, ret, mounts>>
    BY <1>4 DEF mount_all_special, Finish, state
  <2>5. CASE todo # {p}
    BY <2>1, <2>2, <2>3, <2>4, <2>5 DEF MountsTracked
  <2>6. CASE pc' \in {"auto_mark", "finished"}
    BY <2>1, <2>2, <2>3, <2>4, <2>6 DEF MountsTracked
  <2> QED
    BY <2>1, <2>5, <2>6
<1>5. ASSUME reread_fstab PROVE MountsTracked'
  <2>1. pc = "reread" /\ kmounts' = kmounts
    BY <1>5 DEF reread_fstab, Raise
  <2>2. Mounted = {} /\ Mounted' = Mounted /\ NoHiddenMount' = NoHiddenMount
    BY <1>0, <2>1, SameMounts, MountedFacts DEF MountsTracked
  <2>3. CASE Raise
    BY <1>0, <2>1, <2>2, <2>3 DEF Raise, ToMenu, state, MountsTracked
  <2>4. CASE pc' = "mount_keys" /\ todo' = DOMAIN mounts' /\ UNCHANGED <<op, ret>>
    BY <2>1, <2>2, <2>4 DEF MountsTracked
  <2> DEFINE m == MountsOf(fstab)
  <2> HIDE DEF m
  <2>5. \/ Raise
        \/ /\ mounts' = m /\ pc' = "mount_keys" /\ todo' = DOMAIN m
           /\ UNCHANGED <<op, ret>>
    BY <1>5 DEF reread_fstab, m
  <2> QED
    BY <2>3, <2>4, <2>5
<1>6. ASSUME setup_mount PROVE MountsTracked'
  <2>1. pc = "setup_mount" /\ kmounts = <<>> /\ op = "setup" /\ ret = "menu"
    BY <1>6 DEF setup_mount, MountsTracked
  <2>2. CASE Raise
    BY <2>1, <2>2, SameMounts DEF Raise, ToMenu, state, MountsTracked
  <2>3. ASSUME NEW root \in Devices, CanMount("/", root), mount("/", root),
               Goto("setup_cp"), UNCHANGED state
        PROVE  MountsTracked'
    <3>1. kmounts' = <<[at |-> "/", dev |-> root]>>
      BY <2>1, <2>3 DEF mount
    <3>2. Len(kmounts') = 1 /\ kmounts'[1].at = "/"
      BY <3>1
    <3>3. NoHiddenMount'
      BY <3>2 DEF NoHiddenMount
    <3> QED
      BY <2>1, <2>3, <3>2, <3>3 DEF Goto, MountsTracked
  <2> QED
    BY <1>6, <2>2, <2>3 DEF setup_mount
<1>7. ASSUME setup_umount \/ setup_fail PROVE MountsTracked'
  <2>1. pc \in SetupSteps /\ unmount("/")
    BY <1>7 DEF setup_umount, setup_fail
  <2>2. Mounted = {"/"} /\ NoHiddenMount /\ ret = "menu"
    BY <2>1 DEF Mounted, MountsTracked
  <2>3. \A q \in Mounted : "/" \notin Above[q]
    BY <2>2, MountPointsAssumption
  <2>4. /\ kmounts' \in Seq(KMount) /\ NoHiddenMount'
        /\ Mounted' \subseteq Mounted /\ "/" \notin Mounted'
    BY <1>0, <2>1, <2>2, <2>3, UnmountEffect, MountPointsAssumption
  <2>5. Mounted' = {} /\ kmounts' = <<>>
    BY <2>2, <2>4, MountedFactsNext
  <2>6. pc' \in {"reread", "menu"} /\ ret' = "menu"
    BY <1>7, <2>2 DEF setup_umount, setup_fail, Goto, ToMenu
  <2> QED
    BY <2>4, <2>5, <2>6 DEF MountsTracked
<1>8. ASSUME umount_dev PROVE MountsTracked'
  <2>1. /\ unmount("/dev") /\ pc = "umount_dev" /\ pc' = "untar"
        /\ UNCHANGED <<op, ret, mounts>>
    BY <1>8 DEF umount_dev, Goto, state
  <2>2. NoHiddenMount /\ "/dev" \in Special
    BY <1>0 DEF MountsTracked
  <2>3. /\ NoHiddenMount' /\ Mounted' \subseteq Mounted \ {"/dev"}
        /\ Mounted' = {} <=> kmounts' = <<>>
    BY <1>0, <2>1, <2>2, UnmountSpecial, MountedFactsNext
  <2> QED
    BY <1>0, <2>1, <2>3, MountedFacts DEF MountsTracked
<1>9. ASSUME untar_ok \/ untar_failed PROVE MountsTracked'
  <2>1. /\ mount("/dev", "none") /\ pc \in {"untar_ok", "untar_failed"}
        /\ pc' \in {"cp_fstab", "grub"} /\ UNCHANGED <<op, ret, mounts>>
    BY <1>9 DEF untar_ok, untar_failed, Goto, state
  <2>2. NoHiddenMount /\ "/dev" \in Special /\ "/dev" \notin Mounted
    BY <1>0, <2>1 DEF MountsTracked
  <2>3. /\ NoHiddenMount' /\ Mounted' \subseteq Mounted \cup {"/dev"}
        /\ kmounts = <<>> => kmounts' = <<>>
    BY <1>0, <2>1, <2>2, MountSpecial
  <2> QED
    BY <2>1, <2>2, <2>3 DEF MountsTracked
<1>10. ASSUME KeyboardInterrupt PROVE MountsTracked'
  <2>1. <<op, pc>> \notin SetupWindow
    BY <1>10 DEF KeyboardInterrupt
  <2>2. pc \notin SetupSteps
    BY <2>1 DEF SetupWindow, MountsTracked
  <2>3. Mounted' = Mounted /\ NoHiddenMount' = NoHiddenMount
    BY <1>10, SameMounts DEF KeyboardInterrupt, world
  <2> QED
    BY <1>10, <2>2, <2>3 DEF KeyboardInterrupt, ToMenu, state, world,
       MountsTracked
<1>11. ASSUME respawn PROVE MountsTracked'
  <2>1. pc = "exit" /\ kmounts = <<>> /\ kmounts' = kmounts
    BY <1>11 DEF respawn, world, MountsTracked
  <2>2. Mounted' = {} /\ NoHiddenMount'
    BY <1>0, <2>1, SameMounts, MountedFacts DEF MountsTracked
  <2> QED
    BY <1>11, <2>1, <2>2 DEF respawn, FreshProcess, ToMenu, MountsTracked
<1>12. ASSUME Restarted PROVE MountsTracked'
  <2>1. kmounts' = <<>>
    BY <1>12 DEF Restarted
  <2>2. Mounted' = {} /\ NoHiddenMount'
    BY <2>1 DEF Mounted, NoHiddenMount
  <2> QED
    BY <1>12, <2>1, <2>2 DEF Restarted, FreshProcess, ToMenu, MountsTracked
<1>13. ASSUME mvpartition PROVE MountsTracked'
  BY <1>13, <1>0, MountedFacts, SameMounts DEF mvpartition, Goto, state, world,
     MountsTracked
<1>14. ASSUME setup_cp PROVE MountsTracked'
  BY <1>14, <1>0, MountedFacts, SameMounts DEF setup_cp, Goto, state, world,
     MountsTracked
<1>15. ASSUME untar PROVE MountsTracked'
  BY <1>15, <1>0, MountedFacts, SameMounts DEF untar, Goto, state, world,
     MountsTracked
<1>16. ASSUME cp_fstab PROVE MountsTracked'
  BY <1>16, <1>0, MountedFacts, SameMounts DEF cp_fstab, Goto, state, world,
     MountsTracked
<1>17. ASSUME fix_rcS PROVE MountsTracked'
  BY <1>17, <1>0, MountedFacts, SameMounts DEF fix_rcS, Goto, state, world,
     MountsTracked
<1>18. ASSUME set_inittab PROVE MountsTracked'
  BY <1>18, <1>0, MountedFacts, SameMounts DEF set_inittab, Goto, Raise,
     ToMenu, state, world, MountsTracked
<1>19. ASSUME grub PROVE MountsTracked'
  BY <1>19, <1>0, MountedFacts, SameMounts DEF grub, Goto, Raise, ToMenu,
     state, world, MountsTracked
<1>20. ASSUME grub_conf PROVE MountsTracked'
  BY <1>20, <1>0, MountedFacts, SameMounts DEF grub_conf, Goto, Raise, ToMenu,
     Finish, state, world, MountsTracked
<1>21. ASSUME hostname PROVE MountsTracked'
  BY <1>21, <1>0, MountedFacts, SameMounts DEF hostname, Goto, Raise, ToMenu,
     AfterHostname, Finish, CallUnmountAll, state, world, MountsTracked
<1>22. ASSUME hostname_ask PROVE MountsTracked'
  BY <1>22, <1>0, MountedFacts, SameMounts DEF hostname_ask, Raise, ToMenu,
     AfterHostname, Finish, CallUnmountAll, state, world, MountsTracked
<1>23. ASSUME auto_fstab PROVE MountsTracked'
  BY <1>23, <1>0, MountedFacts, SameMounts DEF auto_fstab, CallUnmountAll,
     state, world, MountsTracked
<1>24. ASSUME auto_disks PROVE MountsTracked'
  BY <1>24, <1>0, MountedFacts, SameMounts DEF auto_disks, CallUnmountAll,
     Raise, ToMenu, state, world, MountsTracked
<1>25. ASSUME auto_volumes PROVE MountsTracked'
  BY <1>25, <1>0, MountedFacts, SameMounts DEF auto_volumes, CallUnmountAll,
     Goto, Raise, ToMenu, state, world, MountsTracked
<1>26. ASSUME auto_mark PROVE MountsTracked'
  BY <1>26, <1>0, MountedFacts, SameMounts DEF auto_mark, Goto, state, world,
     MountsTracked
<1>27. ASSUME again PROVE MountsTracked'
  BY <1>27, <1>0, MountedFacts, SameMounts DEF again, ToMenu, state, world,
     MountsTracked
<1>28. ASSUME partition PROVE MountsTracked'
  BY <1>28, <1>0, MountedFacts, SameMounts DEF partition, CallUnmountAll,
     state, world, MountsTracked
<1>29. ASSUME install PROVE MountsTracked'
  BY <1>29, <1>0, MountedFacts, SameMounts DEF install, state, world,
     MountsTracked
<1>30. ASSUME def_user_installer PROVE MountsTracked'
  BY <1>30, <1>0, MountedFacts, SameMounts DEF def_user_installer,
     CallUnmountAll, state, world, MountsTracked
<1>31. ASSUME restart PROVE MountsTracked'
  BY <1>31, <1>0, MountedFacts, SameMounts DEF restart, CallUnmountAll, state,
     world, MountsTracked
<1>32. ASSUME reboot PROVE MountsTracked'
  BY <1>32, <1>0, MountedFacts, SameMounts DEF reboot, CallUnmountAll, state,
     world, MountsTracked
<1>33. ASSUME submenu PROVE MountsTracked'
  BY <1>33, <1>0, MountedFacts, SameMounts DEF submenu, control, state, world,
     MountsTracked
<1>34. ASSUME setup_from_existing_install PROVE MountsTracked'
  BY <1>34, <1>0, MountedFacts, SameMounts DEF setup_from_existing_install,
     CallUnmountAll, state, world, MountsTracked
<1>35. ASSUME do_grub PROVE MountsTracked'
  BY <1>35, <1>0, MountedFacts, SameMounts DEF do_grub, state, world,
     MountsTracked
<1>36. ASSUME set_hostname PROVE MountsTracked'
  BY <1>36, <1>0, MountedFacts, SameMounts DEF set_hostname, state, world,
     MountsTracked
<1>37. ASSUME auto_resync PROVE MountsTracked'
  BY <1>37, <1>0, MountedFacts, SameMounts DEF auto_resync, Goto, state, world,
     MountsTracked
<1>38. CASE UNCHANGED vars
  BY <1>38, SameMounts DEF vars, control, state, world, MountsTracked
<1> QED
  BY <1>1, <1>2, <1>3, <1>4, <1>5, <1>6, <1>7, <1>8, <1>9, <1>10, <1>11, <1>12,
     <1>13, <1>14, <1>15, <1>16, <1>17, <1>18, <1>19, <1>20, <1>21, <1>22,
        <1>23, <1>24, <1>25, <1>26, <1>27, <1>28, <1>29, <1>30, <1>31, <1>32,
           <1>33, <1>34, <1>35, <1>36, <1>37, <1>38
     DEF Next, Step, Wait, Choice, reboot_f, PowerLoss

LEMMA TrackedInit == Init => MountsTracked
<1> SUFFICES ASSUME Init PROVE MountsTracked
  OBVIOUS
<1>1. Mounted = {} /\ NoHiddenMount
  BY DEF Init, Mounted, NoHiddenMount
<1> QED
  BY <1>1 DEF Init, MountsTracked, SetupSteps, Unmounting, Clean, Returns

\* The loops of unmount_all and mount_all never lose a mount.
THEOREM TrackedAlways ==
  ASSUME SetupWindow \subseteq Shielded
  PROVE  Spec => []MountsTracked
<1>1. Init => TInv /\ MountsTracked
  BY TypeInit, TrackedInit
<1>2. TInv /\ MountsTracked /\ [Next]_vars => (TInv /\ MountsTracked)'
  BY TypeStep, TrackedStep
<1> QED
  BY <1>1, <1>2, PTL DEF Spec

\* No partitioning, mkfs, mount of another root, exit or reboot -f while
\* anything is mounted under /t.
THEOREM DiskWorkUnmounted ==
  ASSUME SetupWindow \subseteq Shielded
  PROVE  Spec => []UnmountedBeforeDiskWork
<1>1. MountsTracked => UnmountedBeforeDiskWork
  BY DEF MountsTracked, UnmountedBeforeDiskWork, Clean, Returns
<1> QED
  BY <1>1, TrackedAlways, PTL

\* No mount of the installer's ever hides another.
THEOREM NothingHidden ==
  ASSUME SetupWindow \subseteq Shielded
  PROVE  Spec => []NoHiddenMount
<1>1. MountsTracked => NoHiddenMount
  BY DEF MountsTracked
<1> QED
  BY <1>1, TrackedAlways, PTL

\* While the tarball is unpacked, the tmpfs is not on /dev.
THEOREM TarSeesDiskDev ==
  ASSUME SetupWindow \subseteq Shielded
  PROVE  Spec => []DevUncoveredDuringUntar
<1>1. MountsTracked => DevUncoveredDuringUntar
  BY DEF MountsTracked, DevUncoveredDuringUntar, IsTopMount, Mounted
<1> QED
  BY <1>1, TrackedAlways, PTL

\* mounts is replaced or forgotten only when nothing it lists is mounted.
THEOREM MountsNeverForgotten ==
  ASSUME SetupWindow \subseteq Shielded
  PROVE  Spec => MountsReplacedOnlyWhenUnmounted
<1>1. TInv /\ MountsTracked /\ [Next]_vars
        => (mounts' # mounts => kmounts' = <<>>) \/ UNCHANGED vars
  <2> SUFFICES ASSUME TInv, MountsTracked, [Next]_vars, mounts' # mounts
               PROVE  kmounts' = <<>>
    OBVIOUS
  <2>1. \/ reread_fstab \/ respawn \/ Restarted
    BY DEF Next, Step, Wait, Choice, vars, state, auto_resync, mvpartition, setup_cp, untar,
       cp_fstab, fix_rcS, set_inittab, grub, grub_conf, hostname, hostname_ask,
          auto_fstab, auto_disks, auto_volumes, auto_mark, again, partition,
             install, def_user_installer, restart, reboot, submenu,
                setup_from_existing_install, do_grub, set_hostname,
                   unmount_all_special, unmount_all_keys, mount_all_keys,
                      mount_all_special, setup_mount, setup_umount, setup_fail,
                         umount_dev, untar_ok, untar_failed, KeyboardInterrupt,
                            reboot_f, PowerLoss, Raise, Goto, ToMenu, Finish,
                               CallUnmountAll, AfterHostname
  <2> QED
    BY <2>1 DEF Returns, reread_fstab, respawn, Restarted, FreshProcess, Raise,
                state, world, MountsTracked, Clean
<1>2. TInv /\ MountsTracked /\ [Next]_vars
        => [mounts' # mounts => kmounts' = <<>>]_vars
  BY <1>1
<1>3. Spec => []TInv
  BY TypeInit, TypeStep, PTL DEF Spec
<1> QED
  BY <1>2, <1>3, TrackedAlways, PTL DEF Spec, MountsReplacedOnlyWhenUnmounted

-----------------------------------------------------------------------------
(* What is mounted is what mounts says, and mounts is what /tmp/fstab says. *)

\* umount only takes away.
LEMMA UnmountRest ==
  ASSUME NEW p, kmounts \in Seq(KMount), unmount(p)
  PROVE  /\ \A i \in 1..Len(kmounts') :
              \E j \in 1..Len(kmounts) : kmounts'[i] = kmounts[j]
         /\ kmounts = <<>> => kmounts' = <<>>
<1> DEFINE N == Len(kmounts)
<1>1. N \in Nat  BY LenProperties
<1>2. CASE kmounts' = kmounts
  BY <1>2
<1>3. ASSUME NEW i \in 1..N, kmounts' = RemoveAt(kmounts, i)
      PROVE  /\ \A k \in 1..Len(kmounts') :
                  \E j \in 1..Len(kmounts) : kmounts'[k] = kmounts[j]
             /\ kmounts # <<>>
  <2>1. /\ Len(kmounts') = N - 1
        /\ \A k \in 1..(N - 1) :
              kmounts'[k] = IF k < i THEN kmounts[k] ELSE kmounts[k + 1]
    BY <1>3, RemoveAtProperties
  <2>2. kmounts # <<>>  OBVIOUS
  <2> HIDE DEF N
  <2>3. ASSUME NEW k \in 1..(N - 1) PROVE \E j \in 1..N : kmounts'[k] = kmounts[j]
    <3>1. CASE k < i
      <4>1. k \in 1..N  BY <1>1, <3>1
      <4> QED  BY <2>1, <3>1, <4>1
    <3>2. CASE ~ (k < i)
      <4>1. k + 1 \in 1..N  BY <1>1, <3>2
      <4> QED  BY <2>1, <3>2, <4>1
    <3> QED  BY <3>1, <3>2
  <2> QED  BY <2>1, <2>2, <2>3 DEF N
<1> QED  BY <1>2, <1>3 DEF unmount

\* mount only adds, and nothing but the root to an empty table.
LEMMA MountRest ==
  ASSUME NEW p, NEW dev, [at |-> p, dev |-> dev] \in KMount,
         kmounts \in Seq(KMount), mount(p, dev)
  PROVE  /\ \A i \in 1..Len(kmounts') :
              \/ kmounts'[i] = [at |-> p, dev |-> dev]
              \/ \E j \in 1..Len(kmounts) : kmounts'[i] = kmounts[j]
         /\ p # "/" /\ kmounts = <<>> => kmounts' = <<>>
<1> DEFINE N == Len(kmounts)
           e == [at |-> p, dev |-> dev]
<1>1. N \in Nat  BY LenProperties
<1>2. CASE kmounts' = kmounts
  BY <1>2
<1>3. CASE CanMount(p, dev) /\ kmounts' = Append(kmounts, e)
  <2>1. /\ Len(kmounts') = N + 1 /\ kmounts'[N + 1] = e
        /\ \A i \in 1..N : kmounts'[i] = kmounts[i]
    BY <1>3, AppendProperties
  <2>2. p # "/" => kmounts # <<>>
    <3>1. p # "/" => \E i \in 1..N : TRUE  BY <1>3 DEF CanMount, Cover
    <3> QED  BY <3>1
  <2> HIDE DEF N, e
  <2>3. ASSUME NEW i \in 1..(N + 1)
        PROVE  kmounts'[i] = e \/ \E j \in 1..N : kmounts'[i] = kmounts[j]
    <3>1. i \in 1..N \/ i = N + 1  BY <1>1
    <3> QED  BY <2>1, <3>1
  <2> QED  BY <2>1, <2>2, <2>3 DEF N, e
<1> QED  BY <1>2, <1>3 DEF mount

\* The entries of the kernel's table for keys of mounts are of their devices, the
\* special ones of none.
DeviceInv ==
  pc \notin SetupSteps =>
    \A i \in 1..Len(kmounts) :
       /\ kmounts[i].at \in DOMAIN mounts => kmounts[i].dev = mounts[kmounts[i].at]
       /\ kmounts[i].at \in Special => kmounts[i].dev = "none"

\* Before the partitioner and its like, and after a restart, nothing is mounted.
LEMMA Emptied ==
  ASSUME SetupWindow \subseteq Shielded, TInv, MountsTracked,
         \/ mvpartition \/ auto_disks \/ auto_volumes \/ reread_fstab \/ respawn
         \/ Restarted \/ setup_umount \/ setup_fail
  PROVE  kmounts' = <<>>
<1>1. CASE mvpartition \/ auto_disks \/ auto_volumes \/ reread_fstab \/ respawn
  BY <1>1 DEF MountsTracked, Clean, Returns, mvpartition, auto_disks, auto_volumes,
     reread_fstab, respawn, Raise, world
<1>2. CASE Restarted  BY <1>2 DEF Restarted
<1>3. CASE setup_umount \/ setup_fail
  <2>0. kmounts \in Seq(KMount)  BY DEF TInv, TypeOK
  <2>1. pc \in SetupSteps /\ unmount("/")
    BY <1>3 DEF setup_umount, setup_fail, SetupSteps
  <2>2. Mounted = {"/"} /\ NoHiddenMount
    BY <2>1 DEF Mounted, MountsTracked, SetupSteps
  <2>3. \A q \in Mounted : "/" \notin Above[q]
    BY <2>2, MountPointsAssumption
  <2>4. kmounts' \in Seq(KMount) /\ Mounted' \subseteq Mounted /\ "/" \notin Mounted'
    BY <2>0, <2>1, <2>2, <2>3, UnmountEffect, MountPointsAssumption
  <2> QED  BY <2>2, <2>4, MountedFactsNext
<1> QED  BY <1>1, <1>2, <1>3

LEMMA DeviceNext ==
  ASSUME SetupWindow \subseteq Shielded, TInv, MountsTracked, DeviceInv, [Next]_vars
  PROVE  DeviceInv'
<1>0. /\ kmounts \in Seq(KMount)
      /\ mounts \in [DOMAIN mounts -> Devices]
      /\ DOMAIN mounts \subseteq MountPoints /\ MountPoints \cap Special = {}
      /\ Special = {"/dev", "/proc", "/sys"}
  BY MountPointsAssumption DEF TInv, TypeOK, Special
<1>1. CASE kmounts' = <<>>
  BY <1>1 DEF DeviceInv
<1>2. CASE pc' \in SetupSteps
  BY <1>2 DEF DeviceInv
<1>3. CASE UNCHANGED <<kmounts, mounts>> /\ pc \notin SetupSteps
  BY <1>3 DEF DeviceInv
<1>4. ASSUME NEW p, unmount(p), UNCHANGED mounts, pc \notin SetupSteps
      PROVE  DeviceInv'
  <2>1. \A i \in 1..Len(kmounts') :
          \E j \in 1..Len(kmounts) : kmounts'[i] = kmounts[j]
    BY <1>0, <1>4, UnmountRest
  <2> QED  BY <1>4, <2>1 DEF DeviceInv
<1>5. ASSUME NEW p \in MountPoints \cup Special, NEW dev \in Devices \cup {"none"},
             mount(p, dev), UNCHANGED mounts, pc \notin SetupSteps,
             p \in DOMAIN mounts => dev = mounts[p], p \in Special => dev = "none"
      PROVE  DeviceInv'
  <2>1. [at |-> p, dev |-> dev] \in KMount  BY DEF KMount
  <2>2. \A i \in 1..Len(kmounts') :
          \/ kmounts'[i] = [at |-> p, dev |-> dev]
          \/ \E j \in 1..Len(kmounts) : kmounts'[i] = kmounts[j]
    BY <1>0, <1>5, <2>1, MountRest
  <2> QED  BY <1>5, <2>2 DEF DeviceInv
<1>6. CASE unmount_all_special \/ unmount_all_keys \/ umount_dev
  BY <1>4, <1>6 DEF unmount_all_special, unmount_all_keys, umount_dev, state, SetupSteps
<1>7. CASE mount_all_keys
  <2>1. PICK p \in todo : mount(p, mounts[p]) /\ pc = "mount_keys" /\ UNCHANGED mounts
    BY <1>7 DEF mount_all_keys, state
  <2>2. p \in DOMAIN mounts  BY <2>1 DEF TInv
  <2> QED  BY <1>0, <1>5, <2>1, <2>2 DEF SetupSteps
<1>8. CASE mount_all_special \/ untar_ok \/ untar_failed
  <2>1. PICK p \in Special : mount(p, "none")
    BY <1>0, <1>8 DEF mount_all_special, untar_ok, untar_failed, MountsTracked
  <2>2. UNCHANGED mounts /\ pc \notin SetupSteps
    BY <1>8 DEF mount_all_special, untar_ok, untar_failed, state, SetupSteps
  <2> QED  BY <1>0, <1>5, <2>1, <2>2
<1>9. CASE setup_mount
  <2>1. \/ UNCHANGED <<kmounts, mounts>> /\ pc \notin SetupSteps
        \/ pc' \in SetupSteps
    BY <1>9 DEF setup_mount, Raise, Goto, state, SetupSteps
  <2> QED  BY <1>2, <1>3, <2>1
<1>10. CASE setup_cp
  BY <1>2, <1>10 DEF setup_cp, Goto, SetupSteps
<1>11. CASE mvpartition \/ auto_disks \/ auto_volumes \/ reread_fstab \/ respawn
         \/ Restarted \/ setup_umount \/ setup_fail
  BY <1>1, <1>11, Emptied
<1>12. CASE KeyboardInterrupt
  <2>1. pc \notin SetupSteps
    BY <1>12 DEF KeyboardInterrupt, SetupWindow, SetupSteps, MountsTracked
  <2> QED  BY <1>3, <1>12, <2>1 DEF KeyboardInterrupt, state, world
<1>13. CASE Choice
  BY <1>3, <1>13 DEF Choice, partition, install, def_user_installer, restart, reboot,
     submenu, setup_from_existing_install, do_grub, set_hostname, state, world, SetupSteps
<1>14. CASE \/ untar \/ cp_fstab \/ fix_rcS \/ set_inittab \/ grub \/ grub_conf
            \/ hostname \/ hostname_ask \/ auto_fstab \/ auto_mark \/ again \/ auto_resync
  BY <1>3, <1>14 DEF untar, auto_resync, Goto, cp_fstab, fix_rcS, set_inittab, grub, grub_conf, hostname,
     hostname_ask, auto_fstab, auto_mark, again, Raise, state, world, SetupSteps
<1>15. CASE UNCHANGED vars
  BY <1>15 DEF vars, control, state, world, DeviceInv
<1> QED
  BY <1>6, <1>7, <1>8, <1>9, <1>10, <1>11, <1>12, <1>13, <1>14, <1>15
     DEF Next, Step, Wait, reboot_f, PowerLoss

\* The root is the last mount on "/".
LEMMA RootDevice ==
  ASSUME kmounts \in Seq(KMount), DevOf("/") # "none"
  PROVE  \E i \in 1..Len(kmounts) : kmounts[i].at = "/" /\ kmounts[i].dev = DevOf("/")
<1> DEFINE C == Cover("/")
           N == Len(kmounts)
<1>1. N \in Nat  BY LenProperties
<1>2. C # {} /\ C \in SUBSET (1..N) /\ DevOf("/") = kmounts[Max(C)].dev
  BY DEF DevOf, Cover
<1>3. \A i \in C : kmounts[i].at = "/"
  BY MountPointsAssumption DEF Cover
<1> HIDE DEF C, N
<1>4. Max(C) \in C  BY <1>1, <1>2, MaxPosition
<1> QED  BY <1>2, <1>3, <1>4 DEF N

\* A disk that is mounted is in mounts.
LEMMA MountedDisk ==
  ASSUME TInv, MountsTracked, DeviceInv, pc \notin SetupSteps,
         NEW i \in 1..Len(kmounts), kmounts[i].dev \in Devices
  PROVE  kmounts[i].at \in DOMAIN mounts /\ kmounts[i].dev = mounts[kmounts[i].at]
<1>1. kmounts[i].at \notin Special  BY DevicesAssumption DEF DeviceInv
<1>2. kmounts[i].at \in Mounted  BY DEF Mounted
<1>3. kmounts[i].at \in DOMAIN mounts
  BY <1>1, <1>2 DEF MountsTracked
<1> QED  BY <1>3 DEF DeviceInv

\* What untar, the copy of the fstab and grub change is on disks mounted under /t, and
\* the fstab they change is the root's.
LEMMA DisksChanged ==
  ASSUME tree \in [Devices -> Content], untar \/ cp_fstab \/ grub_conf,
         NEW d \in Devices
  PROVE  /\ tree'[d] # tree[d] => d = DevOf("/") \/ d \in BelowRoot
         /\ tree'[d].fstab # tree[d].fstab => d = DevOf("/")
<1>1. CASE grub_conf
  BY <1>1, WrittenFacts DEF grub_conf
<1>2. CASE cp_fstab
  BY <1>2 DEF cp_fstab
<1>3. CASE untar
  <2>1. ASSUME NEW D \in SUBSET BelowRoot, NEW c,
               tree' = [WrittenTo(D) EXCEPT ![DevOf("/")] = c], d # DevOf("/")
        PROVE  /\ tree'[d] # tree[d] => d \in BelowRoot
               /\ tree'[d].fstab = tree[d].fstab
    <3>1. /\ WrittenTo(D) \in [Devices -> Content]
          /\ WrittenTo(D)[d].fstab = tree[d].fstab
          /\ d \notin D => WrittenTo(D)[d] = tree[d]
      BY WrittenFacts
    <3>2. tree'[d] = WrittenTo(D)[d]  BY <2>1, <3>1
    <3> QED  BY <3>1, <3>2
  <2>2. \/ tree' = tree
        \/ \E D \in SUBSET BelowRoot :
             tree' = [WrittenTo(D) EXCEPT ![DevOf("/")] = [st |-> "full", fstab |-> StockFstab]]
        \/ \E D \in SUBSET BelowRoot, f \in {tree[DevOf("/")].fstab, StockFstab} :
             tree' = [WrittenTo(D) EXCEPT ![DevOf("/")] = [st |-> "partial", fstab |-> f]]
    <3> DEFINE root == DevOf("/")
    <3> HIDE DEF root
    <3>1. \/ tree' = tree
          \/ \E D \in SUBSET BelowRoot :
               tree' = [WrittenTo(D) EXCEPT ![root] = [st |-> "full", fstab |-> StockFstab]]
          \/ \E D \in SUBSET BelowRoot, f \in {tree[root].fstab, StockFstab} :
               tree' = [WrittenTo(D) EXCEPT ![root] = [st |-> "partial", fstab |-> f]]
      BY <1>3, Zenon DEF untar, root
    <3> QED  BY <3>1 DEF root
  <2> QED  BY <2>1, <2>2
<1> QED  BY <1>1, <1>2, <1>3

\* An install and grub write to no filesystem but those mounts has, and change the
\* fstab of none but the root (installer.py:506-549, 718-806).
THEOREM InstallStaysOnMounts ==
  ASSUME SetupWindow \subseteq Shielded
  PROVE  Spec => InstallWritesOnlyMounts
<1> DEFINE Only ==
      kmounts' = kmounts /\ pc \in {"untar", "cp_fstab", "grub_conf"} => WritesOnlyMounts
<1>1. ASSUME TInv, MountsTracked, DeviceInv, [Next]_vars PROVE [Only]_vars
  <2> SUFFICES ASSUME kmounts' = kmounts, pc \in {"untar", "cp_fstab", "grub_conf"},
                      NEW d \in Devices
               PROVE  /\ tree'[d] # tree[d] => \E p \in DOMAIN mounts : d = mounts[p]
                      /\ tree'[d].fstab # tree[d].fstab
                           => "/" \in DOMAIN mounts /\ d = mounts["/"]
    BY DEF Only, WritesOnlyMounts
  <2>0. /\ kmounts \in Seq(KMount) /\ tree \in [Devices -> Content]
        /\ pc \notin SetupSteps
    BY <1>1 DEF TInv, TypeOK, SetupSteps
  <2>1. untar \/ cp_fstab \/ grub_conf \/ tree' = tree
    <3>1. Restarted => tree' = tree
      <4>1. CASE kmounts = <<>>  BY <2>0, <4>1 DEF Restarted
      <4> QED  BY <4>1 DEF Restarted
    <3> QED
      BY <1>1, <3>1 DEF Next, Step, Wait, Choice, vars, world, unmount_all_special,
         unmount_all_keys, mount_all_keys, mount_all_special, reread_fstab, mvpartition,
         setup_mount, setup_cp, setup_umount, setup_fail, umount_dev, untar_ok,
         untar_failed, fix_rcS, set_inittab, grub, hostname, hostname_ask, auto_fstab,
         auto_disks, auto_volumes, auto_resync, auto_mark, again, respawn, reboot_f,
         PowerLoss, KeyboardInterrupt, partition, install, def_user_installer, restart,
         reboot, submenu, setup_from_existing_install, do_grub, set_hostname
  <2>2. CASE tree' = tree  BY <2>2
  <2>3. CASE untar \/ cp_fstab \/ grub_conf
    <3>1. /\ tree'[d] # tree[d] => d = DevOf("/") \/ d \in BelowRoot
          /\ tree'[d].fstab # tree[d].fstab => d = DevOf("/")
      BY <2>0, <2>3, DisksChanged
    <3>2. d = DevOf("/") => "/" \in DOMAIN mounts /\ d = mounts["/"]
      <4> SUFFICES ASSUME d = DevOf("/") PROVE "/" \in DOMAIN mounts /\ d = mounts["/"]
        OBVIOUS
      <4>1. PICK i \in 1..Len(kmounts) : kmounts[i].at = "/" /\ kmounts[i].dev = d
        BY <2>0, RootDevice, DevicesAssumption
      <4> QED  BY <1>1, <2>0, <4>1, MountedDisk
    <3>3. d \in BelowRoot => \E p \in DOMAIN mounts : d = mounts[p]
      <4> SUFFICES ASSUME d \in BelowRoot PROVE \E p \in DOMAIN mounts : d = mounts[p]
        OBVIOUS
      <4>1. PICK i \in 1..Len(kmounts) : kmounts[i].dev = d  BY DEF BelowRoot
      <4> QED  BY <1>1, <2>0, <4>1, MountedDisk
    <3> QED  BY <3>1, <3>2, <3>3
  <2> QED  BY <2>1, <2>2, <2>3
<1>2. Init => TInv /\ MountsTracked /\ DeviceInv
  BY TypeInit, TrackedInit DEF Init, DeviceInv
<1>3. TInv /\ MountsTracked /\ DeviceInv /\ [Next]_vars
        => (TInv /\ MountsTracked /\ DeviceInv)'
  BY TypeStep, TrackedStep, DeviceNext
<1>4. TInv /\ MountsTracked /\ DeviceInv /\ [Next]_vars => [Only]_vars
  BY <1>1
<1> QED  BY <1>2, <1>3, <1>4, PTL DEF Spec, InstallWritesOnlyMounts, Only

-----------------------------------------------------------------------------
(* The fstab that install copies.                                          *)

\* While something is mounted and auto-install has not begun to unmount it,
\* /tmp/fstab still is what mounts was read from.
InUse ==
  /\ kmounts # <<>> \/ pc \in {"mount_keys", "mount_special"}
  /\ pc \notin SetupSteps
  /\ ~ (op = "auto" /\ pc \in Unmounting)

FstabInv == InUse => fstab \in Seq(Entry) /\ MountsOf(fstab) = mounts

LEMMA FstabNext ==
  ASSUME SetupWindow \cup AutoWindow \subseteq Shielded, TInv, MountsTracked,
         MountsTracked', FstabInv, [Next]_vars
  PROVE  FstabInv'
<1>0. /\ kmounts \in Seq(KMount)
      /\ mounts \in [DOMAIN mounts -> Devices]
      /\ DOMAIN mounts \subseteq MountPoints /\ MountPoints \cap Special = {}
      /\ Special = {"/dev", "/proc", "/sys"}
      /\ SetupWindow \subseteq Shielded
  BY MountPointsAssumption DEF TInv, TypeOK, Special
<1>1. CASE kmounts' = <<>> /\ pc' \notin {"mount_keys", "mount_special"}
  BY <1>1 DEF FstabInv, InUse
<1>2. CASE pc' \in SetupSteps
  BY <1>2 DEF FstabInv, InUse
<1>3. CASE UNCHANGED <<fstab, mounts>> /\ (InUse' => InUse)
  BY <1>3 DEF FstabInv
<1>4. CASE unmount_all_special
  <2>1. PICK p : unmount(p)  BY <1>4 DEF unmount_all_special
  <2>2. kmounts = <<>> => kmounts' = <<>>  BY <1>0, <2>1, UnmountRest
  <2>3. /\ UNCHANGED <<fstab, mounts, op>> /\ pc = "umount_special"
        /\ pc' \in Unmounting
    BY <1>4 DEF unmount_all_special, state, Unmounting
  <2>4. pc' \notin {"mount_keys", "mount_special"}  BY <2>3 DEF Unmounting
  <2> QED  BY <1>3, <2>2, <2>3, <2>4 DEF InUse, SetupSteps, Unmounting
<1>5. CASE unmount_all_keys
  <2>1. PICK p : unmount(p)  BY <1>5 DEF unmount_all_keys
  <2>2. kmounts = <<>> => kmounts' = <<>>  BY <1>0, <2>1, UnmountRest
  <2>3. /\ UNCHANGED <<fstab, mounts, op>> /\ pc = "umount_keys"
        /\ pc' = pc \/ pc' = ret
    BY <1>5 DEF unmount_all_keys, state
  <2>4. CASE pc' = pc
    BY <1>3, <2>2, <2>3, <2>4 DEF InUse, SetupSteps, Unmounting
  <2>5. CASE pc' = ret
    <3>1. ret \in Returns \ {"menu"}
      BY <2>3 DEF MountsTracked, Unmounting, TInv, TypeOK
    <3>2. pc' \in Clean  BY <2>5, <3>1 DEF Clean
    <3>3. kmounts' = <<>>  BY <3>2 DEF MountsTracked
    <3> QED  BY <1>1, <3>2, <3>3 DEF Clean, Returns
  <2> QED  BY <2>3, <2>4, <2>5
<1>6. CASE mount_all_keys \/ mount_all_special
  BY <1>3, <1>6 DEF mount_all_keys, mount_all_special, InUse, state, SetupSteps, Unmounting
<1>7. CASE umount_dev
  <2>1. kmounts = <<>> => kmounts' = <<>>
    BY <1>0, <1>7, UnmountRest DEF umount_dev
  <2> QED  BY <1>3, <1>7, <2>1 DEF umount_dev, Goto, InUse, state, SetupSteps, Unmounting
<1>8. CASE untar_ok \/ untar_failed
  <2>1. mount("/dev", "none")  BY <1>8 DEF untar_ok, untar_failed
  <2>2. [at |-> "/dev", dev |-> "none"] \in KMount  BY <1>0 DEF KMount
  <2>3. kmounts = <<>> => kmounts' = <<>>
    BY <1>0, <2>1, <2>2, MountRest
  <2> QED
    BY <1>3, <1>8, <2>3 DEF untar_ok, untar_failed, Goto, InUse, state, SetupSteps, Unmounting
<1>9. CASE reread_fstab
  <2>1. CASE Raise
    <3>1. kmounts' = <<>>  BY <1>0, <1>9, Emptied
    <3> QED  BY <1>1, <2>1, <3>1 DEF Raise, ToMenu
  <2> DEFINE m == MountsOf(fstab)
  <2>2. CASE Acceptable(fstab) /\ mounts' = m /\ UNCHANGED fstab
    <3>1. fstab \in Seq(Entry)
      BY <2>2 DEF Acceptable, TInv, TypeOK, Fstab
    <3>2. MountsOf(fstab)' = m  BY <2>2
    <3> HIDE DEF m
    <3> QED  BY <2>2, <3>1, <3>2 DEF FstabInv
  <2> QED  BY <1>9, <2>1, <2>2 DEF reread_fstab
<1>10. CASE setup_mount
  <2>1. (Raise /\ pc = "setup_mount") \/ pc' \in SetupSteps
    BY <1>10 DEF setup_mount, Goto, SetupSteps
  <2>2. CASE Raise /\ pc = "setup_mount"
    <3>1. kmounts' = <<>>
      BY <2>2 DEF Raise, MountsTracked, Clean, Returns
    <3> QED  BY <1>1, <2>2, <3>1 DEF Raise, ToMenu
  <2> QED  BY <1>2, <2>1, <2>2
<1>11. CASE setup_cp
  BY <1>2, <1>11 DEF setup_cp, Goto, SetupSteps
<1>12. CASE \/ mvpartition \/ auto_disks \/ auto_volumes \/ respawn
            \/ Restarted \/ setup_umount \/ setup_fail
  <2>1. kmounts' = <<>>  BY <1>0, <1>12, Emptied
  <2>2. pc' \notin {"mount_keys", "mount_special"}
    BY <1>12 DEF mvpartition, auto_disks, auto_volumes, respawn, Restarted, FreshProcess,
       setup_umount, setup_fail, Raise, Goto, ToMenu, CallUnmountAll
  <2> QED  BY <1>1, <2>1, <2>2
<1>13. CASE auto_fstab
  <2>1. pc' \in Unmounting \/ (pc' = "auto_disks" /\ kmounts' = <<>>)
    BY <1>13 DEF auto_fstab, CallUnmountAll, MountsTracked, Unmounting, Clean, Returns,
       SetupSteps
  <2>2. op' = "auto"  BY <1>13 DEF auto_fstab, CallUnmountAll
  <2> QED  BY <1>1, <2>1, <2>2 DEF FstabInv, InUse
<1>14. CASE KeyboardInterrupt
  <2>1. pc \notin SetupSteps
    BY <1>14 DEF KeyboardInterrupt, SetupWindow, SetupSteps, MountsTracked
  <2>2. ~ (op = "auto" /\ pc \in Unmounting)
    BY <1>14 DEF KeyboardInterrupt, AutoWindow, Unmounting
  <2> QED
    BY <1>3, <1>14, <2>1, <2>2 DEF KeyboardInterrupt, ToMenu, InUse, state, world
<1>15. CASE Choice
  <2>1. UNCHANGED <<kmounts, fstab, mounts>> /\ pc = "menu"
        /\ pc' \notin {"mount_keys", "mount_special"}
    BY <1>15 DEF Choice, partition, install, def_user_installer, restart, reboot, control,
       submenu, setup_from_existing_install, do_grub, set_hostname, state, world,
       CallUnmountAll
  <2> QED  BY <1>3, <2>1 DEF InUse, SetupSteps, Unmounting
<1>16. CASE \/ untar \/ cp_fstab \/ fix_rcS \/ set_inittab \/ grub \/ grub_conf
            \/ hostname \/ hostname_ask \/ auto_mark \/ again \/ auto_resync
  <2>1. UNCHANGED <<kmounts, fstab, mounts>> /\ pc \notin SetupSteps \cup Unmounting
        /\ pc' \notin {"mount_keys", "mount_special"}
    BY <1>16 DEF untar, cp_fstab, fix_rcS, set_inittab, grub, grub_conf, hostname,
       hostname_ask, auto_mark, again, auto_resync, Raise, Goto, ToMenu, Finish,
       AfterHostname, CallUnmountAll, state, world, SetupSteps, Unmounting
  <2> QED  BY <1>3, <2>1 DEF InUse
<1>17. CASE UNCHANGED vars
  BY <1>3, <1>17 DEF vars, control, state, world, InUse
<1> QED
  BY <1>4, <1>5, <1>6, <1>7, <1>8, <1>9, <1>10, <1>11, <1>12, <1>13, <1>14, <1>15, <1>16,
     <1>17 DEF Next, Step, Wait, reboot_f, PowerLoss

\* From the untar to set_inittab the root stays and gets the fstab.
RootInv ==
  /\ pc \in {"untar_ok", "cp_fstab"} => DevOf("/") # "none"
  /\ pc \in {"fix_rcS", "set_inittab"} => MountsOf(tree[DevOf("/")].fstab) = mounts

\* A mount elsewhere leaves the root.
LEMMA DevMount ==
  ASSUME kmounts \in Seq(KMount), mount("/dev", "none")
  PROVE  DevOf("/")' = DevOf("/")
<1> DEFINE N == Len(kmounts)
           e == [at |-> "/dev", dev |-> "none"]
           C == {i \in 1..N : kmounts[i].at = "/"}
<1>0. N \in Nat /\ "/" # "/dev"  BY LenProperties
<1>1. Cover("/") = C  BY MountPointsAssumption DEF Cover
<1>2. CASE kmounts' = kmounts
  BY <1>2 DEF DevOf, Cover
<1>3. CASE kmounts' = Append(kmounts, e)
  <2>1. /\ Len(kmounts') = N + 1 /\ kmounts'[N + 1] = e
        /\ \A i \in 1..N : kmounts'[i] = kmounts[i]
    BY <1>3, AppendProperties
  <2>2. Cover("/")' = {i \in 1..(N + 1) : kmounts'[i].at = "/"}
    BY <2>1, MountPointsAssumption DEF Cover
  <2>3. \A i \in 1..(N + 1) : kmounts'[i].at = "/" <=> i \in C
    <3>1. kmounts'[N + 1].at = "/dev" /\ N + 1 \notin 1..N  BY <1>0, <2>1
    <3>2. \A i \in 1..(N + 1) : i \in 1..N \/ i = N + 1  BY <1>0
    <3> HIDE DEF e
    <3> QED  BY <1>0, <2>1, <3>1, <3>2
  <2>4. Cover("/")' = C
    <3>1. C \subseteq 1..(N + 1)  BY <1>0
    <3> HIDE DEF C, N
    <3> QED  BY <2>2, <2>3, <3>1
  <2>5. C # {} => Max(C) \in 1..N
    <3>1. C \in SUBSET (1..N)  OBVIOUS
    <3> HIDE DEF C, N
    <3> QED  BY <1>0, <3>1, MaxPosition
  <2> HIDE DEF C, N
  <2> QED  BY <1>1, <2>1, <2>4, <2>5 DEF DevOf
<1> QED  BY <1>2, <1>3 DEF mount

LEMMA RootNext ==
  ASSUME TInv, FstabInv, RootInv, [Next]_vars
  PROVE  RootInv'
<1>0. /\ kmounts \in Seq(KMount) /\ tree \in [Devices -> Content] /\ NoFile \notin Seq(Entry)
  BY DevicesAssumption DEF TInv, TypeOK
<1>1. CASE pc' \notin {"untar_ok", "cp_fstab", "fix_rcS", "set_inittab"}
  BY <1>1 DEF RootInv
<1>2. CASE untar
  <2>1. UNCHANGED kmounts /\ (pc' = "untar_ok" => DevOf("/") # "none")
        /\ pc' \notin {"cp_fstab", "fix_rcS", "set_inittab"}
    BY <1>2 DEF untar, Goto
  <2>2. DevOf("/")' = DevOf("/")  BY <2>1 DEF DevOf, Cover
  <2> QED  BY <2>1, <2>2 DEF RootInv
<1>3. CASE untar_ok
  <2>1. pc = "untar_ok" /\ pc' = "cp_fstab" /\ mount("/dev", "none")
    BY <1>3 DEF untar_ok, Goto
  <2> QED  BY <1>0, <2>1, DevMount DEF RootInv
<1>4. CASE cp_fstab
  <2>1. pc = "cp_fstab" /\ pc' = "fix_rcS" /\ UNCHANGED <<kmounts, fstab, mounts>>
    BY <1>4 DEF cp_fstab, Goto, state
  <2>2. DevOf("/") # "none" /\ DevOf("/")' = DevOf("/")
    BY <2>1 DEF RootInv, DevOf, Cover
  <2>3. PICK i \in 1..Len(kmounts) : kmounts[i].dev = DevOf("/")
    BY <1>0, <2>2, RootDevice
  <2>4. DevOf("/") \in Devices
    <3>1. kmounts[i] \in KMount  BY <1>0, ElementOfSeq
    <3> QED  BY <2>2, <2>3, <3>1 DEF KMount
  <2>5. fstab \in Seq(Entry) /\ MountsOf(fstab) = mounts
    <3>1. kmounts # <<>>  BY <2>3
    <3> QED  BY <2>1, <3>1 DEF FstabInv, InUse, SetupSteps, Unmounting
  <2>6. tree' = [tree EXCEPT ![DevOf("/")].fstab = fstab]
    BY <1>0, <1>4, <2>5 DEF cp_fstab
  <2>7. tree'[DevOf("/")].fstab = fstab
    <3> DEFINE d == DevOf("/")
    <3>1. d \in Devices /\ tree[d] \in Content  BY <1>0, <2>4
    <3>2. tree'[d] = [tree[d] EXCEPT !.fstab = fstab]
      <4> HIDE DEF d
      <4>1. tree' = [tree EXCEPT ![d].fstab = fstab]  BY <2>6 DEF d
      <4> QED  BY <1>0, <3>1, <4>1
    <3> HIDE DEF d
    <3>3. tree'[d].fstab = fstab  BY <3>1, <3>2 DEF Content
    <3> QED  BY <3>3 DEF d
  <2>8. (tree[DevOf("/")].fstab)' = fstab  BY <2>2, <2>7
  <2>9. MountsOf(tree[DevOf("/")].fstab)' = mounts'
    BY <2>1, <2>5, <2>8 DEF MountsOf, Kept
  <2> QED  BY <2>1, <2>9 DEF RootInv
<1>5. CASE fix_rcS \/ UNCHANGED vars
  <2>1. /\ UNCHANGED <<kmounts, tree, mounts>>
        /\ (pc = "fix_rcS" /\ pc' = "set_inittab") \/ pc' = pc
    BY <1>5 DEF fix_rcS, Goto, vars, control, state, world
  <2>2. DevOf("/")' = DevOf("/")  BY <2>1 DEF DevOf, Cover
  <2>3. MountsOf(tree[DevOf("/")].fstab)' = MountsOf(tree[DevOf("/")].fstab)
    BY <2>1, <2>2 DEF MountsOf, Kept
  <2> QED  BY <2>1, <2>2, <2>3 DEF RootInv
<1>6. Next => \/ pc' \notin {"untar_ok", "cp_fstab", "fix_rcS", "set_inittab"}
              \/ untar \/ untar_ok \/ cp_fstab \/ fix_rcS \/ UNCHANGED vars
  <2>1. unmount_all_keys => pc' \notin {"untar_ok", "cp_fstab", "fix_rcS", "set_inittab"}
    BY DEF unmount_all_keys, TInv, TypeOK, Returns
  <2> QED
    BY <2>1 DEF Next, Step, Wait, Choice, control, auto_resync, unmount_all_special, mount_all_keys,
       mount_all_special, reread_fstab, mvpartition, setup_mount, setup_cp, setup_umount,
       setup_fail, umount_dev, untar_failed, set_inittab, grub, grub_conf, hostname,
       hostname_ask, auto_fstab, auto_disks, auto_volumes, auto_mark, again, respawn,
       reboot_f, PowerLoss, Restarted, FreshProcess, KeyboardInterrupt, partition,
       install, def_user_installer, restart, reboot, submenu,
       setup_from_existing_install, do_grub, set_hostname, Raise, Goto, ToMenu, Finish,
       AfterHostname, CallUnmountAll
<1> QED  BY <1>1, <1>2, <1>3, <1>4, <1>5, <1>6

\* The fstab of the installed system names the devices it was installed on, if no
\* interrupt strikes in the two windows (installer.py:187, 549, 1148).
THEOREM InstalledFstab ==
  ASSUME SetupWindow \cup AutoWindow \subseteq Shielded
  PROVE  Spec => []TargetFstabIsMounts
<1>1. Init => TInv /\ MountsTracked /\ FstabInv /\ RootInv
  BY TypeInit, TrackedInit DEF Init, FstabInv, InUse, RootInv
<1>2. TInv /\ MountsTracked /\ FstabInv /\ RootInv /\ [Next]_vars
        => (TInv /\ MountsTracked /\ FstabInv /\ RootInv)'
  <2> SUFFICES ASSUME TInv, MountsTracked, FstabInv, RootInv, [Next]_vars
               PROVE  (TInv /\ MountsTracked /\ FstabInv /\ RootInv)'
    OBVIOUS
  <2>1. TInv' /\ MountsTracked'
    BY TypeStep, TrackedStep
  <2> QED  BY <2>1, FstabNext, RootNext
<1>3. RootInv => TargetFstabIsMounts  BY DEF RootInv, TargetFstabIsMounts
<1> QED  BY <1>1, <1>2, <1>3, PTL DEF Spec

=============================================================================
