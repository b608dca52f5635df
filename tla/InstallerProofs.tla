--------------------------- MODULE InstallerProofs ---------------------------
(***************************************************************************)
(* Theorems about the installer's mount bookkeeping, for every set of      *)
(* devices, every mount-point tree and every fstab.                        *)
(***************************************************************************)
EXTENDS Installer, TLAPS, WellFoundedInduction, SequenceTheorems

-----------------------------------------------------------------------------
(* Sequences and maxima.                                                   *)

\* A non-empty set of positions has a greatest element.
LEMMA MaxPosition ==
  ASSUME NEW n \in Nat, NEW S \in SUBSET (1..n), S # {}
  PROVE  /\ Max(S) \in S
         /\ \A y \in S : y <= Max(S)
<1> DEFINE R == {z \in Nat \X Nat : z[1] < z[2]}
           T == {n - i : i \in S}
<1>1. T \subseteq Nat /\ T # {}
  OBVIOUS
<1>2. OpToRel(<, Nat) = R
  BY DEF OpToRel
<1>3. IsWellFoundedOn(R, Nat)
  BY <1>2, NatLessThanWellFounded
<1>4. PICK t \in T : \A u \in T : ~ (<<u, t>> \in R)
  <2> HIDE DEF R, T
  <2> QED
    BY <1>1, <1>3, WFMin
<1>5. \A u \in T : t <= u
  <2> SUFFICES ASSUME NEW u \in T PROVE t <= u
    OBVIOUS
  <2>1. u \in Nat /\ t \in Nat
    BY <1>1
  <2>2. ~ (u < t)
    BY <1>4, <2>1
  <2> QED
    BY <2>1, <2>2
<1>6. PICK m \in S : t = n - m
  BY <1>4
<1>7. \A y \in S : m >= y
  BY <1>5, <1>6
<1>8. \E x \in S : \A y \in S : x >= y
  BY <1>7
<1> QED
  BY <1>8 DEF Max

\* The last position is the greatest of any set it belongs to.
LEMMA LastIsMax ==
  ASSUME NEW n \in Nat, NEW S \in SUBSET (1..n), n \in S
  PROVE  Max(S) = n
<1>1. Max(S) \in S /\ n <= Max(S)
  BY MaxPosition
<1>2. Max(S) \in 1..n
  BY <1>1
<1> QED
  BY <1>1, <1>2

\* What is on a device after its state, its fstab or both are replaced.
LEMMA ContentUpdates ==
  ASSUME NEW c \in Content, NEW f \in Fstab
  PROVE  /\ [c EXCEPT !.st = "partial"] \in Content
         /\ [c EXCEPT !.fstab = f] \in Content
         /\ \A s \in {"nofs", "blank", "partial", "full"} :
               [st |-> s, fstab |-> f] \in Content
  BY DEF Content

\* Files that come to a device change neither its type nor its fstab.
LEMMA WrittenFacts ==
  ASSUME tree \in [Devices -> Content], NEW D
  PROVE  /\ WrittenTo(D) \in [Devices -> Content]
         /\ \A d \in Devices : WrittenTo(D)[d].fstab = tree[d].fstab
         /\ \A d \in Devices \ D : WrittenTo(D)[d] = tree[d]
<1>1. ASSUME NEW d \in Devices, NEW s \in {"files", "partial"}
      PROVE  /\ [tree[d] EXCEPT !.st = s] \in Content
             /\ [tree[d] EXCEPT !.st = s].fstab = tree[d].fstab
  <2>1. tree[d] \in Content
    OBVIOUS
  <2> QED
    BY <2>1 DEF Content
<1>2. ASSUME NEW d \in Devices
      PROVE  /\ WrittenTo(D)[d] \in Content
             /\ WrittenTo(D)[d].fstab = tree[d].fstab
             /\ d \notin D => WrittenTo(D)[d] = tree[d]
  <2>1. WrittenTo(D)[d] =
          IF d \notin D THEN tree[d]
          ELSE [tree[d] EXCEPT !.st = IF tree[d].st \in {"blank", "files"}
                                      THEN "files" ELSE "partial"]
    BY DEF WrittenTo
  <2> QED
    BY <1>1, <2>1
<1>3. WrittenTo(D) = [d \in Devices |-> WrittenTo(D)[d]]
  BY DEF WrittenTo
<1> QED
  BY <1>2, <1>3

\* Only device d changes.
LEMMA TreeUpdate ==
  ASSUME NEW t \in [Devices -> Content], NEW d, NEW c,
         d \in Devices => c \in Content
  PROVE  [t EXCEPT ![d] = c] \in [Devices -> Content]
  OBVIOUS

\* Dropping position i of a sequence.
LEMMA RemoveAtProperties ==
  ASSUME NEW D, NEW s \in Seq(D), NEW i \in 1..Len(s)
  PROVE  /\ RemoveAt(s, i) \in Seq(D)
         /\ Len(RemoveAt(s, i)) = Len(s) - 1
         /\ \A j \in 1..(Len(s) - 1) :
               RemoveAt(s, i)[j] = IF j < i THEN s[j] ELSE s[j + 1]
<1> DEFINE a == SubSeq(s, 1, i - 1)
           b == SubSeq(s, i + 1, Len(s))
           N == Len(s)
<1>0. N \in Nat /\ i \in 1..N /\ \A j \in 1..N : s[j] \in D
  BY LenProperties, ElementOfSeq
<1>1. a \in Seq(D) /\ Len(a) = i - 1 /\ \A j \in 1..(i - 1) : a[j] = s[j]
  BY <1>0, SubSeqProperties
<1>2. b \in Seq(D) /\ Len(b) = N - i /\ \A j \in 1..(N - i) : b[j] = s[j + i]
  BY <1>0, SubSeqProperties
<1>3. RemoveAt(s, i) = a \o b
  BY DEF RemoveAt
<1> HIDE DEF a, b, N
<1>9. Len(a) + Len(b) = N - 1
  BY <1>0, <1>1, <1>2
<1>4. /\ a \o b \in Seq(D)
      /\ Len(a \o b) = N - 1
      /\ \A j \in 1..(N - 1) :
            (a \o b)[j] = IF j <= Len(a) THEN a[j] ELSE b[j - Len(a)]
  BY <1>1, <1>2, <1>9, ConcatProperties
<1>5. ASSUME NEW j \in 1..(N - 1)
      PROVE  (a \o b)[j] = IF j < i THEN s[j] ELSE s[j + 1]
  <2>1. CASE j < i
    BY <2>1, <1>0, <1>1, <1>4
  <2>2. CASE ~ (j < i)
    <3>1. j - (i - 1) \in 1..(N - i) /\ j - (i - 1) + i = j + 1
      BY <2>2, <1>0
    <3>2. (a \o b)[j] = b[j - (i - 1)]
      BY <2>2, <1>0, <1>1, <1>4
    <3> QED
      BY <2>2, <1>2, <3>1, <3>2
  <2> QED
    BY <2>1, <2>2
<1> QED
  BY <1>3, <1>4, <1>5 DEF N

-----------------------------------------------------------------------------
(* The fstab and the kernel's mount table.                                 *)

\* reread_fstab builds a function from mount points to devices.
LEMMA MountsOfType ==
  ASSUME NEW f \in Seq(Entry)
  PROVE  /\ DOMAIN MountsOf(f) \subseteq MountPoints
         /\ MountsOf(f) \in [DOMAIN MountsOf(f) -> Devices]
<1>1. Len(f) \in Nat /\ \A i \in 1..Len(f) : f[i] \in Entry
  BY LenProperties, ElementOfSeq
<1>2. DOMAIN MountsOf(f) = {f[i].mp : i \in Kept(f)}
  BY DEF MountsOf
<1>3. Kept(f) \subseteq 1..Len(f)
  BY DEF Kept
<1>4. ASSUME NEW p \in {f[i].mp : i \in Kept(f)}
      PROVE  f[Max({i \in Kept(f) : f[i].mp = p})].dev \in Devices
  <2> DEFINE S == {i \in Kept(f) : f[i].mp = p}
  <2>1. S \in SUBSET (1..Len(f)) /\ S # {}
    BY <1>3
  <2> HIDE DEF S
  <2>2. Max(S) \in 1..Len(f)
    BY <1>1, <2>1, MaxPosition
  <2> QED
    BY <1>1, <2>2 DEF Entry, S
<1> QED
  BY <1>1, <1>2, <1>3, <1>4 DEF MountsOf, Entry

\* Unmounting p takes nothing else away, and takes p away unless something is
\* mounted below it.
LEMMA UnmountEffect ==
  ASSUME NEW p \in MountPoints \cup Special,
         kmounts \in Seq(KMount), NoHiddenMount, unmount(p)
  PROVE  /\ kmounts' \in Seq(KMount)
         /\ NoHiddenMount'
         /\ Mounted' \subseteq Mounted
         /\ (\A q \in Mounted : p \notin Above[q]) => p \notin Mounted'
<1> USE DEF Mounted
<1> DEFINE N == Len(kmounts)
<1>0. N \in Nat /\ \A i \in 1..N : kmounts[i] \in KMount
  BY LenProperties, ElementOfSeq
<1>1. CASE \E i \in 1..N : CanUmount(i, p)
  <2>1. PICK i \in 1..N : CanUmount(i, p) /\ kmounts' = RemoveAt(kmounts, i)
    BY <1>1 DEF unmount
  <2>2. /\ kmounts' \in Seq(KMount)
        /\ Len(kmounts') = N - 1
        /\ \A j \in 1..(N - 1) :
              kmounts'[j] = IF j < i THEN kmounts[j] ELSE kmounts[j + 1]
    BY <2>1, RemoveAtProperties
  <2>3. Mounted' \subseteq Mounted
    <3>0. Len(kmounts') = N - 1
      BY <2>2
    <3>3. Mounted' = {kmounts'[j].at : j \in 1..(N - 1)}
      BY <3>0, Zenon
    <3>1. Mounted = {kmounts[k].at : k \in 1..N}
      BY Zenon
    <3> HIDE DEF Mounted
    <3>2. ASSUME NEW j \in 1..(N - 1)
          PROVE  kmounts'[j].at \in Mounted
      <4>1. CASE j < i
        <5>1. j \in 1..N /\ kmounts'[j] = kmounts[j]
          BY <1>0, <2>2, <4>1
        <5> QED
          BY <3>1, <5>1
      <4>2. CASE ~ (j < i)
        <5>1. j + 1 \in 1..N /\ kmounts'[j] = kmounts[j + 1]
          BY <1>0, <2>2, <4>2
        <5> QED
          BY <3>1, <5>1
      <4> QED
        BY <4>1, <4>2
    <3> QED
      BY <3>2, <3>3
  <2>4. NoHiddenMount'
    <3> SUFFICES ASSUME NEW j \in 1..(N - 1), NEW k \in 1..(N - 1), j < k
                 PROVE  kmounts'[k].at \notin {kmounts'[j].at} \cup Above[kmounts'[j].at]
      BY <2>2 DEF NoHiddenMount
    <3>1. PICK jj \in 1..N, kk \in 1..N :
             /\ jj < kk
             /\ kmounts'[j] = kmounts[jj] /\ kmounts'[k] = kmounts[kk]
      <4> DEFINE J == IF j < i THEN j ELSE j + 1
                 K == IF k < i THEN k ELSE k + 1
      <4>1. J \in 1..N /\ K \in 1..N /\ J < K
        BY <1>0
      <4>2. kmounts'[j] = kmounts[J] /\ kmounts'[k] = kmounts[K]
        BY <2>2
      <4> QED
        BY <4>1, <4>2
    <3> QED
      BY <3>1 DEF NoHiddenMount
  <2>5. p \notin Mounted'
    <3> SUFFICES ASSUME NEW j \in 1..(N - 1), kmounts'[j].at = p PROVE FALSE
      BY <2>2
    <3>1. kmounts[i].at = p
      BY <2>1 DEF CanUmount, IsTopMount
    <3>2. CASE j < i
      BY <3>1, <3>2, <2>2, <1>0 DEF NoHiddenMount
    <3>3. CASE ~ (j < i)
      BY <3>1, <3>3, <2>2, <1>0 DEF NoHiddenMount
    <3> QED
      BY <3>2, <3>3
  <2> QED
    BY <2>2, <2>3, <2>4, <2>5
<1>2. CASE ~ \E i \in 1..N : CanUmount(i, p)
  <2>1. kmounts' = kmounts
    BY <1>2 DEF unmount
  <2>2. ASSUME \A q \in Mounted : p \notin Above[q]
        PROVE  p \notin Mounted
    <3> SUFFICES ASSUME NEW i \in 1..N, kmounts[i].at = p PROVE FALSE
      OBVIOUS
    <3>1. IsTopMount(i, p)
      BY <1>0 DEF IsTopMount, NoHiddenMount
    <3>2. CanUmount(i, p)
      BY <1>0, <2>2, <3>1 DEF CanUmount
    <3> QED
      BY <1>2, <3>2
  <2> QED
    BY <2>1, <2>2 DEF NoHiddenMount
<1> QED
  BY <1>1, <1>2

\* Mounting p where it hides nothing adds p and nothing else; below the
\* read-only image only "/" can be mounted.
LEMMA MountEffect ==
  ASSUME NEW p \in MountPoints \cup Special, NEW dev \in Devices \cup {"none"},
         kmounts \in Seq(KMount), NoHiddenMount, mount(p, dev),
         \A q \in Mounted : p \notin {q} \cup Above[q]
  PROVE  /\ kmounts' \in Seq(KMount)
         /\ NoHiddenMount'
         /\ Mounted' \subseteq Mounted \cup {p}
         /\ p # "/" /\ kmounts = <<>> => kmounts' = <<>>
<1> USE DEF Mounted
<1> DEFINE N == Len(kmounts)
           e == [at |-> p, dev |-> dev]
<1>0. N \in Nat /\ \A i \in 1..N : kmounts[i] \in KMount
  BY LenProperties, ElementOfSeq
<1>1. CASE CanMount(p, dev)
  <2>1. kmounts' = Append(kmounts, e)
    BY <1>1 DEF mount
  <2>2. e \in KMount
    BY DEF KMount
  <2>3. /\ kmounts' \in Seq(KMount)
        /\ Len(kmounts') = N + 1
        /\ \A i \in 1..N : kmounts'[i] = kmounts[i]
        /\ kmounts'[N + 1] = e
    BY <2>1, <2>2, AppendProperties
  <2>4. Mounted' \subseteq Mounted \cup {p}
    BY <1>0, <2>3
  <2>5. NoHiddenMount'
    <3> SUFFICES ASSUME NEW j \in 1..(N + 1), NEW k \in 1..(N + 1), j < k
                 PROVE  kmounts'[k].at \notin {kmounts'[j].at} \cup Above[kmounts'[j].at]
      BY <2>3 DEF NoHiddenMount
    <3>1. CASE k \in 1..N
      BY <1>0, <2>3, <3>1 DEF NoHiddenMount
    <3>2. CASE k = N + 1
      <4>1. j \in 1..N /\ kmounts'[j] = kmounts[j] /\ kmounts'[k].at = p
        BY <1>0, <2>3, <3>2
      <4> QED
        BY <4>1
    <3> QED
      BY <1>0, <3>1, <3>2
  <2>6. p # "/" => kmounts # <<>>
    <3>1. p # "/" => \E i \in 1..N : TRUE
      BY <1>1 DEF CanMount, Cover
    <3> QED
      BY <3>1
  <2> QED
    BY <2>3, <2>4, <2>5, <2>6
<1>2. CASE ~ CanMount(p, dev)
  BY <1>2 DEF mount, NoHiddenMount
<1> QED
  BY <1>1, <1>2

-----------------------------------------------------------------------------
(* Type correctness.                                                       *)

LEMMA UnmountType ==
  ASSUME NEW p, kmounts \in Seq(KMount), unmount(p)
  PROVE  kmounts' \in Seq(KMount)
  BY RemoveAtProperties DEF unmount

LEMMA MountType ==
  ASSUME NEW p \in MountPoints \cup Special, NEW dev \in Devices \cup {"none"},
         kmounts \in Seq(KMount), mount(p, dev)
  PROVE  kmounts' \in Seq(KMount)
<1>1. [at |-> p, dev |-> dev] \in KMount
  BY DEF KMount
<1> QED
  BY <1>1, AppendProperties DEF mount

\* A root that is mounted is the one "/" leads to.
LEMMA MountOnTop ==
  ASSUME NEW dev \in Devices, kmounts \in Seq(KMount),
         CanMount("/", dev), mount("/", dev)
  PROVE  DevOf("/")' = dev
<1> DEFINE N == Len(kmounts)
           e == [at |-> "/", dev |-> dev]
<1>0. N \in Nat
  BY LenProperties
<1>1. kmounts' = Append(kmounts, e)
  BY DEF mount
<1>2. Len(kmounts') = N + 1 /\ kmounts'[N + 1] = e
  BY <1>1
<1>3. Cover("/")' \in SUBSET (1..(N + 1)) /\ N + 1 \in Cover("/")'
  BY <1>0, <1>2 DEF Cover
<1>4. Max(Cover("/")') = N + 1
  <2> DEFINE C == Cover("/")'
  <2>1. C \in SUBSET (1..(N + 1)) /\ N + 1 \in C
    BY <1>3
  <2> HIDE DEF C
  <2>2. Max(C) = N + 1
    <3> N + 1 \in Nat
      BY <1>0
    <3> HIDE DEF N
    <3> QED
      BY <2>1, LastIsMax
  <2> QED
    BY <2>2 DEF C
<1> QED
  BY <1>2, <1>3, <1>4 DEF DevOf

\* The lines auto-install adds to /tmp/fstab.
LEMMA LinesTyped ==
  ASSUME NEW l \in {BootEntry, RootEntry}, fstab \in Fstab
  PROVE  WithLine(l) \in Seq(Entry)
<1>1. RootEntry \in Entry
  BY MountPointsAssumption, DevicesAssumption DEF RootEntry, Entry, FsTypes
<1>2. BootEntry \in Entry
  <2>1. /\ (IF EFI THEN "vfat" ELSE "ext4") \in FsTypes
        /\ (IF EFI THEN "/boot/efi" ELSE "/boot") \in MountPoints
        /\ AutoBoot \in Devices
    BY MountPointsAssumption, DevicesAssumption DEF FsTypes
  <2> QED
    BY <2>1 DEF BootEntry, Entry
<1> QED
  BY <1>1, <1>2 DEF WithLine, Fstab

\* TypeOK, with the facts that setup_cp reads a disk and that the first loop
\* of mount_all runs over keys of mounts.
TInv ==
  /\ TypeOK
  /\ pc = "setup_cp" => DevOf("/") \in Devices
  /\ pc = "mount_keys" => todo \subseteq DOMAIN mounts

LEMMA TypeStep == TInv /\ [Next]_vars => TInv'
<1> SUFFICES ASSUME TInv, [Next]_vars PROVE TInv'
  OBVIOUS
<1> USE MountPointsAssumption, DevicesAssumption
    DEF TInv, TypeOK, Ops, Locations, Returns, Special, control, state, world, vars
<1>1. ASSUME unmount_all_special PROVE TInv'
  BY <1>1, UnmountType DEF unmount_all_special
<1>2. ASSUME unmount_all_keys PROVE TInv'
  BY <1>2, UnmountType DEF unmount_all_keys
<1>3. ASSUME mount_all_keys PROVE TInv'
  <2>1. PICK p \in todo : mount(p, mounts[p]) /\ pc = "mount_keys"
    BY <1>3 DEF mount_all_keys
  <2>2. p \in MountPoints /\ mounts[p] \in Devices
    BY <2>1
  <2>3. kmounts' \in Seq(KMount)
    BY <2>1, <2>2, MountType
  <2> QED
    BY <1>3, <2>3 DEF mount_all_keys
<1>4. ASSUME mount_all_special PROVE TInv'
  <2>1. PICK p \in todo : mount(p, "none") /\ pc = "mount_special"
    BY <1>4 DEF mount_all_special
  <2>2. kmounts' \in Seq(KMount)
    BY <2>1, MountType
  <2> QED
    BY <1>4, <2>2 DEF mount_all_special, Finish, ToMenu
<1>5. ASSUME reread_fstab PROVE TInv'
  <2>1. CASE Raise /\ UNCHANGED <<fstab, tree>>
    BY <2>1 DEF Raise, ToMenu
  <2>2. CASE Acceptable(fstab)
    <3>1. fstab \in Seq(Entry)
      BY <2>2 DEF Acceptable, Fstab
    <3> DEFINE m == MountsOf(fstab)
    <3>2. DOMAIN m \subseteq MountPoints /\ m \in [DOMAIN m -> Devices]
      BY <3>1, MountsOfType
    <3> HIDE DEF m
    <3>3. /\ mounts' = m /\ pc' = "mount_keys" /\ todo' = DOMAIN m
          /\ UNCHANGED <<op, ret, menu_to_use, installed, kmounts, fstab, tree>>
      BY <1>5, <2>2 DEF reread_fstab, m
    <3> QED
      BY <3>2, <3>3
  <2> QED
    BY <1>5, <2>1, <2>2 DEF reread_fstab
<1>6. ASSUME mvpartition PROVE TInv'
  BY <1>6 DEF mvpartition, Goto, Fstab, Content
<1>7. ASSUME setup_cp PROVE TInv'
  BY <1>7 DEF setup_cp, Goto, Content
<1>8. ASSUME setup_umount PROVE TInv'
  BY <1>8, UnmountType DEF setup_umount, Goto
<1>9. ASSUME setup_fail PROVE TInv'
  BY <1>9, UnmountType DEF setup_fail, ToMenu
<1>10. ASSUME umount_dev PROVE TInv'
  BY <1>10, UnmountType DEF umount_dev, Goto
<1>11. ASSUME untar PROVE TInv'
  <2>1. tree' \in [Devices -> Content]
    <3> DEFINE root == DevOf("/")
    <3>1. /\ StockFstab \in Fstab
          /\ root \in Devices => tree[root].fstab \in Fstab
      BY DEF Content, Fstab
    <3>2. PICK s \in {"full", "partial"}, f \in {tree[root].fstab, StockFstab}, D \in SUBSET BelowRoot :
             tree' = [WrittenTo(D) EXCEPT ![root] = [st |-> s, fstab |-> f]] \/ tree' = tree
      BY <1>11 DEF untar
    <3>3. WrittenTo(D) \in [Devices -> Content]
      BY WrittenFacts
    <3>4. root \in Devices => [st |-> s, fstab |-> f] \in Content
      BY <3>1, <3>2, ContentUpdates
    <3> HIDE DEF root, TInv
    <3>5. [WrittenTo(D) EXCEPT ![root] = [st |-> s, fstab |-> f]] \in [Devices -> Content]
      BY <3>3, <3>4, TreeUpdate
    <3> QED
      BY <3>2, <3>5 DEF TInv
  <2> QED
    BY <1>11, <2>1 DEF untar, Goto
<1>12. ASSUME untar_ok PROVE TInv'
  BY <1>12, MountType DEF untar_ok, Goto
<1>13. ASSUME untar_failed PROVE TInv'
  BY <1>13, MountType DEF untar_failed, Goto
<1>14. ASSUME cp_fstab PROVE TInv'
  <2>1. tree' \in [Devices -> Content]
    <3> DEFINE root == DevOf("/")
    <3>1. root \in Devices => [tree[root] EXCEPT !.fstab = fstab] \in Content
      BY ContentUpdates
    <3>2. tree' = [tree EXCEPT ![root] = [tree[root] EXCEPT !.fstab = fstab]] \/ tree' = tree
      BY <1>14 DEF cp_fstab
    <3> HIDE DEF TypeOK, TInv
    <3>3. tree \in [Devices -> Content]
      BY DEF TypeOK, TInv
    <3> QED
      BY <3>1, <3>2, <3>3, TreeUpdate
  <2> QED
    BY <1>14, <2>1 DEF cp_fstab, Goto
<1>15. ASSUME fix_rcS PROVE TInv'
  BY <1>15 DEF fix_rcS, Goto
<1>16. ASSUME set_inittab PROVE TInv'
  BY <1>16 DEF set_inittab, Goto, Raise, ToMenu
<1>17. ASSUME grub PROVE TInv'
  BY <1>17 DEF grub, Goto, Raise, ToMenu
<1>18. ASSUME grub_conf PROVE TInv'
  <2>1. tree' \in [Devices -> Content]
    BY <1>18, WrittenFacts DEF grub_conf
  <2> QED
    BY <1>18, <2>1 DEF grub_conf, Goto, Raise, ToMenu, Finish
<1>19. ASSUME hostname PROVE TInv'
  BY <1>19 DEF hostname, Goto, Raise, ToMenu, AfterHostname, Finish, CallUnmountAll
<1>20. ASSUME hostname_ask PROVE TInv'
  BY <1>20 DEF hostname_ask, Raise, ToMenu, AfterHostname, Finish, CallUnmountAll
<1>21. ASSUME auto_fstab PROVE TInv'
  BY <1>21 DEF auto_fstab, CallUnmountAll, Fstab
<1>22. ASSUME auto_disks PROVE TInv'
  <2>1. Wiped \in [Devices -> Content] /\ Blank \in Content
    BY DEF Wiped, Blank, Content, Fstab
  <2>2. tree' \in [Devices -> Content]
    <3> HIDE DEF TInv
    <3> QED
      BY <1>22, <2>1 DEF auto_disks, TInv
  <2>3. fstab' \in Fstab
    BY <1>22, LinesTyped DEF auto_disks, Fstab
  <2>4. /\ pc' \in {"menu", "auto_volumes", "umount_special"}
        /\ op' \in Ops /\ ret' \in Returns /\ todo' \subseteq Special
        /\ UNCHANGED <<state, kmounts>>
    BY <1>22 DEF auto_disks, CallUnmountAll, Raise, ToMenu
  <2> QED
    BY <2>2, <2>3, <2>4
<1>23. ASSUME auto_volumes PROVE TInv'
  <2>1. Blank \in Content
    BY DEF Blank, Content, Fstab
  <2>2. tree' \in [Devices -> Content]
    BY <1>23, <2>1 DEF auto_volumes
  <2>3. fstab' \in Fstab
    BY <1>23, LinesTyped DEF auto_volumes, Fstab
  <2>4. /\ pc' \in {"menu", "auto_resync", "reread", "exit", "umount_special"}
        /\ op' \in Ops /\ ret' \in Returns /\ todo' \subseteq MountPoints \cup Special
        /\ UNCHANGED <<state, kmounts>>
    BY <1>23 DEF auto_volumes, CallUnmountAll, Goto, Raise, ToMenu
  <2> QED
    BY <2>2, <2>3, <2>4
<1>24. ASSUME auto_mark PROVE TInv'
  BY <1>24 DEF auto_mark, Goto
<1>25. ASSUME again PROVE TInv'
  BY <1>25 DEF again, ToMenu
<1>26. ASSUME respawn PROVE TInv'
  BY <1>26 DEF respawn, FreshProcess, NoMounts, ToMenu
<1>27. ASSUME partition PROVE TInv'
  BY <1>27 DEF partition, CallUnmountAll
<1>28. ASSUME install PROVE TInv'
  BY <1>28 DEF install
<1>29. ASSUME def_user_installer PROVE TInv'
  BY <1>29 DEF def_user_installer, CallUnmountAll
<1>30. ASSUME restart PROVE TInv'
  BY <1>30 DEF restart, CallUnmountAll
<1>31. ASSUME reboot PROVE TInv'
  BY <1>31 DEF reboot, CallUnmountAll
<1>32. ASSUME submenu PROVE TInv'
  BY <1>32 DEF submenu
<1>33. ASSUME setup_from_existing_install PROVE TInv'
  BY <1>33 DEF setup_from_existing_install, CallUnmountAll
<1>34. ASSUME do_grub PROVE TInv'
  BY <1>34 DEF do_grub
<1>35. ASSUME set_hostname PROVE TInv'
  BY <1>35 DEF set_hostname
<1>36. ASSUME KeyboardInterrupt PROVE TInv'
  BY <1>36 DEF KeyboardInterrupt, ToMenu
<1>37. ASSUME Restarted PROVE TInv'
  <2>1. tree' \in [Devices -> Content]
    <3>1. \A d \in Devices : [tree[d] EXCEPT !.st = "partial"] \in Content
      BY ContentUpdates
    <3> QED
      BY <1>37, <3>1 DEF Restarted
  <2>2. kmounts' \in Seq(KMount) /\ fstab' \in Fstab
    BY <1>37, EmptySeq DEF Restarted, Fstab
  <2>3. DOMAIN mounts' \subseteq MountPoints /\ mounts' \in [DOMAIN mounts' -> Devices]
    BY <1>37 DEF Restarted, FreshProcess, NoMounts
  <2>4. /\ pc' = "menu" /\ op' = "none" /\ ret' = "menu" /\ todo' = {}
        /\ menu_to_use' = 0 /\ installed' = FALSE
    BY <1>37 DEF Restarted, FreshProcess, ToMenu
  <2> QED
    BY <2>1, <2>2, <2>3, <2>4
<1>38. ASSUME setup_mount PROVE TInv'
  <2>1. CASE Raise /\ UNCHANGED <<fstab, tree>>
    BY <2>1 DEF Raise, ToMenu
  <2>2. ASSUME NEW root \in Devices, CanMount("/", root), mount("/", root),
               Goto("setup_cp"), UNCHANGED <<state, fstab, tree>>
        PROVE  TInv'
    <3>1. DevOf("/")' = root
      BY <2>2, MountOnTop
    <3> QED
      BY <2>2, <3>1, MountType DEF Goto
  <2> QED
    BY <1>38, <2>1, <2>2 DEF setup_mount
<1>39. ASSUME auto_resync PROVE TInv'
  BY <1>39 DEF auto_resync, Goto
<1>40. CASE UNCHANGED vars
  BY <1>40 DEF DevOf, Cover
<1> QED
  BY <1>1, <1>2, <1>3, <1>4, <1>5, <1>6, <1>7, <1>8, <1>9, <1>10, <1>11, <1>12, <1>13, <1>14, <1>15, <1>16, <1>17, <1>18, <1>19, <1>20, <1>21, <1>22, <1>23, <1>24, <1>25, <1>26, <1>27, <1>28, <1>29, <1>30, <1>31, <1>32, <1>33, <1>34, <1>35, <1>36, <1>37, <1>38, <1>39, <1>40 DEF Next, Step, Wait, Choice, reboot_f, PowerLoss

LEMMA TypeInit == Init => TInv
<1> SUFFICES ASSUME Init PROVE TInv
    OBVIOUS
<1>1. kmounts \in Seq(KMount) /\ fstab \in Fstab
  BY EmptySeq DEF Init, Fstab
<1>2. tree \in [Devices -> Content]
  BY DEF Init, Wiped, Content, Fstab
<1>3. DOMAIN mounts \subseteq MountPoints /\ mounts \in [DOMAIN mounts -> Devices]
  BY DEF Init, NoMounts
<1> QED
  BY <1>1, <1>2, <1>3 DEF Init, TInv, TypeOK, Ops, Locations, Returns

\* Every variable keeps its type: above all, the table read from any fstab
\* always is a function from mount points to devices.
THEOREM TypeCorrect == Spec => []TypeOK
<1>2. TInv => TypeOK
  BY DEF TInv
<1> QED
  BY <1>2, TypeInit, TypeStep, PTL DEF Spec

=============================================================================
