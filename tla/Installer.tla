------------------------------ MODULE Installer ------------------------------
(***************************************************************************)
(* The interactive installer of mvinstaller (installer.py): the menu loop, *)
(* the mount bookkeeping every operation is built on (unmount_all,         *)
(* mount_all, reread_fstab), and the operations themselves: partition,     *)
(* install, set up from an existing root, grub, hostname, auto-install,    *)
(* restart and reboot.                                                     *)
(*                                                                         *)
(* Every external command is one step.  A KeyboardInterrupt can arrive     *)
(* between any two steps and only returns to the menu; power can fail at   *)
(* any time.  The installer boots from a read-only ISO image, so nothing   *)
(* can be written under /t unless a disk is mounted there.                 *)
(***************************************************************************)
EXTENDS Naturals, Sequences, FiniteSetsExt, SequencesExt

CONSTANTS
  Devices,      \* block devices that can hold a filesystem
  MountPoints,  \* the mount points an fstab can name, "/" among them
  Above,        \* Above[p]: the directories strictly above p
  SortPos,      \* SortPos[p]: the place of p in Python's order on strings
  Partitionings,\* fstab contents the partitioner can leave in /tmp/fstab
  BaseFstab,    \* /etc/fstab of the installer image
  StockFstab,   \* /etc/fstab inside /to_install.tar.gz
  AutoBoot,     \* device auto-install puts /boot (or /boot/efi) on
  AutoRoot,     \* device auto-install puts / on
  EFI,          \* efi_system: booted with UEFI firmware
  Shielded,     \* <<op, pc>> places where Ctrl-C is assumed not to strike
  MaxMounts,    \* bound on the length of the kernel's mount table
  NoFile        \* "the file does not exist"

NoMounts == [p \in {} |-> NoFile]

Special == {"/dev", "/proc", "/sys"}                 \* smounts

ignore_fs_types == {"proc", "tmpfs", "devpts", "usbfs", "auto", "swap"}

\* A line of an fstab; type "" stands for a line of fewer than four words.
FsTypes == {"", "ext4", "vfat"} \cup ignore_fs_types
Entry == [dev : Devices, mp : MountPoints, type : FsTypes]
Fstab == Seq(Entry) \cup {NoFile}

\* A mount of the kernel's, and what a device holds: nothing, an empty
\* filesystem, files, part of a system or all of it, and its /etc/fstab.
KMount  == [at : MountPoints \cup Special, dev : Devices \cup {"none"}]
Content == [st : {"nofs", "blank", "files", "partial", "full"}, fstab : Fstab]

ASSUME MountPointsAssumption ==
  /\ "/" \in MountPoints
  /\ {"/tmp", "/boot", "/boot/efi"} \subseteq MountPoints
  /\ MountPoints \cap Special = {}
  /\ Above \in [MountPoints \cup Special -> SUBSET MountPoints]
  /\ SortPos \in [MountPoints -> Nat]
  /\ Above["/"] = {}
  \* a proper prefix of a string sorts before the string
  /\ \A p, q \in MountPoints : q \in Above[p] => SortPos[q] < SortPos[p]
  /\ \A p, q \in MountPoints : SortPos[p] = SortPos[q] => p = q

ASSUME DevicesAssumption ==
  /\ AutoBoot \in Devices /\ AutoRoot \in Devices
  /\ "none" \notin Devices
  /\ BaseFstab \in Seq(Entry) /\ StockFstab \in Seq(Entry)
  /\ Partitionings \subseteq Seq(Entry)
  /\ NoFile \notin Seq(Entry)
  /\ EFI \in BOOLEAN
  /\ MaxMounts \in Nat

VARIABLES
  pc,           \* the step the installer is about to take
  op,           \* the menu choice being carried out
  ret,          \* where unmount_all returns to
  todo,         \* keys the loop of unmount_all or mount_all has left
  menu_to_use,  \* 0: main menu, 1: recovery sub-menu
  mounts,       \* Installer.mounts: mount point -> device
  installed,    \* Installer.installed
  kmounts,      \* the kernel's mounts under /t, oldest first
  fstab,        \* /tmp/fstab
  tree          \* what is on each device

control == <<pc, op, ret, todo>>
state   == <<menu_to_use, mounts, installed>>
world   == <<kmounts, fstab, tree>>
vars    == <<control, state, world>>

Ops == {"none", "partition", "install", "setup", "grub", "hostname", "auto",
        "restart", "reboot"}
Returns == {"menu", "mvpartition", "setup_mount", "auto_disks",
            "auto_volumes", "exit", "reboot"}
Locations == Returns \cup
  {"umount_special", "umount_keys", "mount_keys", "mount_special", "reread",
   "setup_cp", "setup_umount", "setup_fail", "auto_fstab", "auto_mark",
   "umount_dev", "untar", "untar_ok", "untar_failed", "cp_fstab", "fix_rcS",
   "set_inittab", "grub", "grub_conf", "hostname", "hostname_ask", "auto_resync",
   "finished"}

TypeOK ==
  /\ pc \in Locations
  /\ op \in Ops
  /\ ret \in Returns
  /\ todo \subseteq MountPoints \cup Special
  /\ menu_to_use \in {0, 1}
  /\ DOMAIN mounts \subseteq MountPoints
  /\ mounts \in [DOMAIN mounts -> Devices]
  /\ installed \in BOOLEAN
  /\ kmounts \in Seq(KMount)
  /\ fstab \in Fstab
  /\ tree \in [Devices -> Content]

-----------------------------------------------------------------------------
(* The kernel's side: mount(2) and umount(2) under /t.                     *)

\* Mounts that cover path p: those on p or on a directory above it.
Cover(p) == {i \in 1..Len(kmounts) : kmounts[i].at \in {p} \cup Above[p]}

\* The device that holds the files of directory p, "none" for the ISO image.
DevOf(p) == IF Cover(p) = {} THEN "none" ELSE kmounts[Max(Cover(p))].dev

IsTopMount(i, p) ==
  /\ kmounts[i].at = p
  /\ \A j \in (i+1)..Len(kmounts) : kmounts[j].at \notin {p} \cup Above[p]

\* umount finds a mount point that nothing hides and nothing is mounted below.
CanUmount(i, p) ==
  /\ IsTopMount(i, p)
  /\ \A j \in (i+1)..Len(kmounts) : p \notin Above[kmounts[j].at]

\* Installer.unmount: the result of umount is not looked at.
unmount(p) ==
  IF \E i \in 1..Len(kmounts) : CanUmount(i, p)
  THEN \E i \in 1..Len(kmounts) :
          CanUmount(i, p) /\ kmounts' = RemoveAt(kmounts, i)
  ELSE kmounts' = kmounts

\* mkdir -p fails on the ISO image; a device without a filesystem, or one
\* already mounted on top of this very place, is refused (tmpfs never is).
CanMount(p, dev) ==
  /\ p # "/" => Cover(p) # {}
  /\ dev \in Devices => tree[dev].st # "nofs"
  /\ ~ \E i \in 1..Len(kmounts) :
          p # "/dev" /\ IsTopMount(i, p) /\ kmounts[i].dev = dev

\* Installer.mount as mount_all calls it: the result is not looked at.
mount(p, dev) ==
  IF CanMount(p, dev)
  THEN /\ Len(kmounts) < MaxMounts
       /\ kmounts' = Append(kmounts, [at |-> p, dev |-> dev])
  ELSE kmounts' = kmounts

-----------------------------------------------------------------------------
(* Control.                                                                *)

Goto(l) == pc' = l /\ UNCHANGED <<op, ret, todo>>

\* The next turn of the menu loop, also by the handlers of its try.
ToMenu ==
  pc' = "menu" /\ op' = "none" /\ ret' = "menu" /\ todo' = {}

\* The menu choice returns without an exception.
Finish == pc' = "finished" /\ todo' = {} /\ UNCHANGED <<op, ret>>

\* raise InstallerException, or any other exception of a step.
Raise == ToMenu /\ UNCHANGED <<state, kmounts>>

\* Call unmount_all and go on at l; it does nothing while mounts is empty.
CallUnmountAll(o, l) ==
  /\ op' = o
  /\ IF DOMAIN mounts = {}
     THEN pc' = l /\ ret' = "menu" /\ todo' = {}
     ELSE pc' = "umount_special" /\ ret' = l /\ todo' = Special

\* Variant: a mount point is tried again until its umount succeeds.
unmount_all_special_retrying == \E p \in todo :
  /\ pc = "umount_special"
  /\ unmount(p)
  /\ todo' = IF kmounts' = kmounts THEN todo ELSE todo \ {p}
  /\ pc' = IF todo' = {} THEN "umount_keys" ELSE pc
  /\ UNCHANGED <<op, ret, state, fstab, tree>>

unmount_all_special == \E p \in todo :
  /\ pc = "umount_special"
  /\ unmount(p)
  /\ IF todo = {p}
     THEN pc' = "umount_keys" /\ todo' = DOMAIN mounts
     ELSE pc' = pc /\ todo' = todo \ {p}
  /\ UNCHANGED <<op, ret, state, fstab, tree>>

\* Variant: keys.sort() without reverse.
unmount_all_keys_ascending == \E p \in todo :
  /\ pc = "umount_keys"
  /\ \A q \in todo : SortPos[p] <= SortPos[q]
  /\ unmount(p)
  /\ IF todo = {p}
     THEN pc' = ret /\ ret' = "menu" /\ todo' = {}
     ELSE pc' = pc /\ ret' = ret /\ todo' = todo \ {p}
  /\ UNCHANGED <<op, state, fstab, tree>>

\* keys.sort(reverse=True): the last key left comes first.
unmount_all_keys == \E p \in todo :
  /\ pc = "umount_keys"
  /\ \A q \in todo : SortPos[q] <= SortPos[p]
  /\ unmount(p)
  /\ IF todo = {p}
     THEN pc' = ret /\ ret' = "menu" /\ todo' = {}
     ELSE pc' = pc /\ ret' = ret /\ todo' = todo \ {p}
  /\ UNCHANGED <<op, state, fstab, tree>>

\* Variant: the keys in the order of a hash, not sorted.
mount_all_keys_unsorted == \E p \in todo :
  /\ pc = "mount_keys"
  /\ mount(p, mounts[p])
  /\ IF todo = {p}
     THEN pc' = "mount_special" /\ todo' = Special
     ELSE pc' = pc /\ todo' = todo \ {p}
  /\ UNCHANGED <<op, ret, state, fstab, tree>>

\* keys.sort(): the first key left comes first.
mount_all_keys == \E p \in todo :
  /\ pc = "mount_keys"
  /\ \A q \in todo : SortPos[p] <= SortPos[q]
  /\ mount(p, mounts[p])
  /\ IF todo = {p}
     THEN pc' = "mount_special" /\ todo' = Special
     ELSE pc' = pc /\ todo' = todo \ {p}
  /\ UNCHANGED <<op, ret, state, fstab, tree>>

\* The second loop; after it partition and setup are finished and
\* auto-install goes on.
mount_all_special == \E p \in todo :
  /\ pc = "mount_special"
  /\ mount(p, "none")
  /\ IF todo # {p}
     THEN todo' = todo \ {p} /\ UNCHANGED <<pc, op, ret>>
     ELSE IF op = "auto"
          THEN pc' = "auto_mark" /\ todo' = {} /\ UNCHANGED <<op, ret>>
          ELSE Finish
  /\ UNCHANGED <<state, fstab, tree>>

-----------------------------------------------------------------------------
(* reread_fstab.                                                           *)

Kept(f) == {i \in 1..Len(f) : f[i].type \notin ignore_fs_types}

\* Variant: all words of the line are kept for the device.
MountsOf_words(f) ==
  [p \in {f[i].mp : i \in Kept(f)} |-> f[Max({i \in Kept(f) : f[i].mp = p})]]

\* The dictionary the loop builds: a later line replaces an earlier one.
MountsOf(f) ==
  [p \in {f[i].mp : i \in Kept(f)} |->
     f[Max({i \in Kept(f) : f[i].mp = p})].dev]

\* The file opens, every line has its words, and the checks on / and, on an
\* EFI system, /boot/efi pass.
Acceptable(f) ==
  /\ f # NoFile
  /\ \A i \in 1..Len(f) : f[i].type # ""
  /\ "/" \in DOMAIN MountsOf(f)
  /\ EFI => "/boot/efi" \in DOMAIN MountsOf(f)

reread_fstab ==
  /\ pc = "reread"
  /\ \/ /\ ~ Acceptable(fstab)
        /\ Raise
     \/ /\ Acceptable(fstab)
        /\ mounts' = MountsOf(fstab)
        /\ pc' = "mount_keys"
        /\ todo' = DOMAIN MountsOf(fstab)
        /\ UNCHANGED <<op, ret, menu_to_use, installed, kmounts>>
  /\ UNCHANGED <<fstab, tree>>

-----------------------------------------------------------------------------
(* partition.                                                              *)

\* Variant: the partitioner is called without unmount_all.
partition_mounted ==
  /\ pc = "menu" /\ menu_to_use = 0
  /\ pc' = "mvpartition" /\ op' = "partition"
  /\ UNCHANGED <<ret, todo, state, world>>

partition ==
  /\ pc = "menu" /\ menu_to_use = 0
  /\ CallUnmountAll("partition", "mvpartition")
  /\ UNCHANGED <<state, world>>

\* The partitioner, whatever its exit status: it may have changed nothing, or
\* written a new table, with or without making the filesystems.
mvpartition ==
  /\ pc = "mvpartition"
  /\ \/ UNCHANGED <<fstab, tree>>
     \/ \E f \in Partitionings : \E formatted \in SUBSET {f[i].dev : i \in 1..Len(f)} :
          /\ fstab' = f
          /\ tree' = [d \in Devices |->
                        IF d \in formatted
                        THEN [st |-> "blank", fstab |-> NoFile] ELSE tree[d]]
  /\ Goto("reread")
  /\ UNCHANGED <<state, kmounts>>

-----------------------------------------------------------------------------
(* setup_from_existing_install.                                            *)

setup_from_existing_install ==
  /\ pc = "menu" /\ menu_to_use = 1
  /\ CallUnmountAll("setup", "setup_mount")
  /\ UNCHANGED <<state, world>>

\* The device is asked for and mounted; here a failed mount raises.
setup_mount ==
  /\ pc = "setup_mount"
  /\ \/ Raise                                  \* no device of the list entered
     \/ \E root \in Devices :
          \/ ~ CanMount("/", root) /\ Raise
          \/ /\ CanMount("/", root) /\ mount("/", root)
             /\ Goto("setup_cp")
             /\ UNCHANGED <<state>>
  /\ UNCHANGED <<fstab, tree>>

setup_cp ==
  /\ pc = "setup_cp"
  /\ IF tree[DevOf("/")].fstab # NoFile
     THEN fstab' = tree[DevOf("/")].fstab /\ Goto("setup_umount")
     ELSE fstab' = fstab /\ Goto("setup_fail")
  /\ UNCHANGED <<state, kmounts, tree>>

\* installed is set before the table read from the disk is looked at.
setup_umount ==
  /\ pc = "setup_umount"
  /\ unmount("/")
  /\ installed' = TRUE
  /\ Goto("reread")
  /\ UNCHANGED <<menu_to_use, mounts, fstab, tree>>

\* Variant: the exception is raised before the root is unmounted.
setup_fail_mounted ==
  /\ pc = "setup_fail"
  /\ Raise
  /\ UNCHANGED <<fstab, tree>>

setup_fail ==
  /\ pc = "setup_fail"
  /\ unmount("/")
  /\ ToMenu
  /\ UNCHANGED <<state, fstab, tree>>

-----------------------------------------------------------------------------
(* install.                                                                *)

\* Menu choice 2; without mounts it raises and nothing has changed.
install ==
  /\ pc = "menu" /\ menu_to_use = 0
  /\ DOMAIN mounts # {}
  /\ pc' = "umount_dev" /\ op' = "install"
  /\ UNCHANGED <<ret, todo, state, world>>

\* Variant: /dev stays mounted around the untar.
umount_dev_skipped ==
  /\ pc = "umount_dev"
  /\ Goto("untar")
  /\ UNCHANGED <<state, world>>

umount_dev ==
  /\ pc = "umount_dev"
  /\ unmount("/dev")
  /\ Goto("untar")
  /\ UNCHANGED <<state, fstab, tree>>

\* The devices mounted below the root, and some of them after files came there.
BelowRoot == ({kmounts[i].dev : i \in 1..Len(kmounts)} \cap Devices) \ {DevOf("/")}

WrittenTo(D) ==
  [d \in Devices |->
     IF d \notin D THEN tree[d]
     ELSE [tree[d] EXCEPT !.st = IF @ \in {"blank", "files"} THEN "files" ELSE "partial"]]

\* tar -C /t -x: into the filesystem that is on /t now, and those below it.  On
\* the read-only image nothing can be extracted.
untar ==
  /\ pc = "untar"
  /\ LET root == DevOf("/") IN
     \/ /\ root # "none"
        /\ \E D \in SUBSET BelowRoot :
             tree' = [WrittenTo(D) EXCEPT ![root] = [st |-> "full", fstab |-> StockFstab]]
        /\ Goto("untar_ok")
     \/ /\ root # "none"
        /\ \E D \in SUBSET BelowRoot, f \in {tree[root].fstab, StockFstab} :
             tree' = [WrittenTo(D) EXCEPT ![root] = [st |-> "partial", fstab |-> f]]
        /\ Goto("untar_failed")
     \/ /\ root = "none"
        /\ UNCHANGED tree
        /\ Goto("untar_failed")
  /\ UNCHANGED <<state, kmounts, fstab>>

untar_ok ==
  /\ pc = "untar_ok"
  /\ mount("/dev", "none")
  /\ Goto("cp_fstab")
  /\ UNCHANGED <<state, fstab, tree>>

\* A tar error is printed and install returns without an exception.
untar_failed ==
  /\ pc = "untar_failed"
  /\ mount("/dev", "none")
  /\ Goto("grub")
  /\ UNCHANGED <<state, fstab, tree>>

\* Variant: the fstab of the tarball is kept.
cp_fstab_skipped ==
  /\ pc = "cp_fstab"
  /\ Goto("fix_rcS")
  /\ UNCHANGED <<state, world>>

cp_fstab ==
  /\ pc = "cp_fstab"
  /\ IF fstab = NoFile
     THEN UNCHANGED tree
     ELSE tree' = [tree EXCEPT ![DevOf("/")].fstab = fstab]
  /\ Goto("fix_rcS")
  /\ UNCHANGED <<state, kmounts, fstab>>

\* fsck of the root is enabled in rcS, a file no property tells apart.
fix_rcS ==
  /\ pc = "fix_rcS"
  /\ Goto("set_inittab")
  /\ UNCHANGED <<state, world>>

\* The console settings and inittab, which may fail, then installed = True.
set_inittab ==
  /\ pc = "set_inittab"
  /\ \/ Raise
     \/ installed' = TRUE /\ Goto("grub")
        /\ UNCHANGED <<menu_to_use, mounts, kmounts>>
  /\ UNCHANGED <<fstab, tree>>

-----------------------------------------------------------------------------
(* do_grub and set_hostname.                                               *)

\* May a file be created in /t/etc?
HasEtc == DevOf("/") # "none" /\ tree[DevOf("/")].st \in {"partial", "full"}

do_grub ==
  /\ pc = "menu" /\ menu_to_use = 1
  /\ pc' = "grub" /\ op' = "grub"
  /\ UNCHANGED <<ret, todo, state, world>>

\* The two guards, then etc/mdadm.conf is written.
grub ==
  /\ pc = "grub"
  /\ \/ (DOMAIN mounts = {} \/ ~ installed \/ ~ HasEtc) /\ Raise
     \/ /\ DOMAIN mounts # {} /\ installed /\ HasEtc
        /\ Goto("grub_conf")
        /\ UNCHANGED <<state, kmounts>>
  /\ UNCHANGED <<fstab, tree>>

\* grub-install and mv-re-grub in the chroot write to /boot and its like; naming the
\* boot devices may raise.
grub_conf ==
  /\ pc = "grub_conf"
  /\ \E D \in SUBSET BelowRoot : tree' = WrittenTo(D)
  /\ \/ Raise
     \/ /\ IF op = "grub" THEN Finish ELSE Goto("hostname")
        /\ UNCHANGED <<state, kmounts>>
  /\ UNCHANGED fstab

set_hostname ==
  /\ pc = "menu" /\ menu_to_use = 1
  /\ pc' = "hostname" /\ op' = "hostname"
  /\ UNCHANGED <<ret, todo, state, world>>

\* The caller goes on: the menu loop, or the end of auto-install.
AfterHostname ==
  IF op = "auto" THEN CallUnmountAll("auto", "exit")
                 ELSE Finish

\* Without a DHCP lease nothing is asked and nothing is written.
hostname ==
  /\ pc = "hostname"
  /\ \/ ~ installed /\ Raise
     \/ installed /\ Goto("hostname_ask") /\ UNCHANGED <<state, kmounts>>
     \/ installed /\ AfterHostname /\ UNCHANGED <<state, kmounts>>
  /\ UNCHANGED <<fstab, tree>>

\* It is asked again until something is typed; auto-install takes the lease's name.
hostname_ask ==
  /\ pc = "hostname_ask"
  /\ \/ Raise
     \/ /\ HasEtc
        /\ AfterHostname
        /\ UNCHANGED <<state, kmounts>>
  /\ UNCHANGED <<fstab, tree>>

-----------------------------------------------------------------------------
(* def_user_installer, with the work on the disks in two steps.            *)

\* Declined, or no disks: it returns, and the menu loop unmounts and breaks.
def_user_installer ==
  /\ pc = "menu" /\ menu_to_use = 0
  /\ \/ CallUnmountAll("auto", "exit")
     \/ pc' = "auto_fstab" /\ op' = "auto" /\ UNCHANGED <<ret, todo>>
  /\ UNCHANGED <<state, world>>

auto_fstab ==
  /\ pc = "auto_fstab"
  /\ fstab' = BaseFstab
  /\ CallUnmountAll("auto", "auto_disks")
  /\ UNCHANGED <<state, kmounts, tree>>

BootEntry == [dev |-> AutoBoot, type |-> IF EFI THEN "vfat" ELSE "ext4",
              mp |-> IF EFI THEN "/boot/efi" ELSE "/boot"]
RootEntry == [dev |-> AutoRoot, type |-> "ext4", mp |-> "/"]

\* echo ... >>/tmp/fstab
WithLine(l) == IF fstab = NoFile THEN <<l>> ELSE Append(fstab, l)

Wiped == [d \in Devices |-> [st |-> "nofs", fstab |-> NoFile]]
Blank == [st |-> "blank", fstab |-> NoFile]

\* Partition tables cleared, /boot made; parted or udev may fail on the way.
auto_disks ==
  /\ pc = "auto_disks"
  /\ \/ /\ tree' = [Wiped EXCEPT ![AutoBoot] = Blank]
        /\ fstab' = WithLine(BootEntry)
        /\ CallUnmountAll("auto", "auto_volumes")
        /\ UNCHANGED <<state, kmounts>>
     \/ /\ tree' \in {tree, Wiped}
        /\ UNCHANGED fstab
        /\ Raise

\* RAID, volume group and the logical volumes, and with RAID the wait for the
\* mirrors; it returns when the space is too small and raises when a command fails.
auto_volumes ==
  /\ pc = "auto_volumes"
  /\ \/ /\ tree' = [tree EXCEPT ![AutoRoot] = Blank]
        /\ fstab' = WithLine(RootEntry)
        /\ Goto("auto_resync") \/ Goto("reread")
        /\ UNCHANGED <<state, kmounts>>
     \/ CallUnmountAll("auto", "exit") /\ UNCHANGED <<state, world>>
     \/ Raise /\ UNCHANGED <<fstab, tree>>

\* /proc/mdstat shows no resync any more: until then the loop goes round.
auto_resync == pc = "auto_resync" /\ Goto("reread") /\ UNCHANGED <<state, world>>

\* installed is set before install is called.
auto_mark ==
  /\ pc = "auto_mark"
  /\ installed' = TRUE
  /\ Goto("umount_dev")
  /\ UNCHANGED <<menu_to_use, mounts, world>>

-----------------------------------------------------------------------------
(* The menu loop and its surroundings.                                     *)

again == pc = "finished" /\ ToMenu /\ UNCHANGED <<state, world>>

submenu ==
  /\ pc = "menu"
  /\ menu_to_use' = 1 - menu_to_use
  /\ UNCHANGED <<control, mounts, installed, world>>

restart ==
  /\ pc = "menu" /\ menu_to_use = 0
  /\ CallUnmountAll("restart", "exit")
  /\ UNCHANGED <<state, world>>

reboot ==
  /\ pc = "menu" /\ menu_to_use = 0
  /\ CallUnmountAll("reboot", "reboot")
  /\ UNCHANGED <<state, world>>

FreshProcess ==
  /\ ToMenu
  /\ menu_to_use' = 0 /\ mounts' = NoMounts /\ installed' = FALSE

\* init respawns the installer on its console.
respawn == pc = "exit" /\ FreshProcess /\ UNCHANGED world

\* The machine starts from the ISO again.  What a mounted filesystem had not
\* written back is lost.
Restarted ==
  /\ FreshProcess
  /\ kmounts' = <<>> /\ fstab' = NoFile
  /\ \E lost \in SUBSET {d \in Devices : /\ tree[d].st = "full"
                                        /\ \E i \in 1..Len(kmounts) : kmounts[i].dev = d} :
        tree' = [d \in Devices |-> IF d \in lost THEN [tree[d] EXCEPT !.st = "partial"]
                                                 ELSE tree[d]]

reboot_f == pc = "reboot" /\ Restarted

PowerLoss == Restarted

\* Ctrl-C, caught by the menu loop.
KeyboardInterrupt ==
  /\ pc \notin {"menu", "finished", "exit"}
  /\ <<op, pc>> \notin Shielded
  /\ ToMenu
  /\ UNCHANGED <<state, world>>

-----------------------------------------------------------------------------

Init ==
  /\ pc = "menu" /\ op = "none" /\ ret = "menu" /\ todo = {}
  /\ menu_to_use = 0 /\ mounts = NoMounts /\ installed = FALSE
  /\ kmounts = <<>> /\ fstab = NoFile
  /\ tree = Wiped

\* The steps the installer takes by itself once a choice is made.
Step ==
  \/ unmount_all_special \/ unmount_all_keys
  \/ mount_all_keys \/ mount_all_special \/ reread_fstab
  \/ mvpartition
  \/ setup_mount \/ setup_cp \/ setup_umount \/ setup_fail
  \/ umount_dev \/ untar \/ untar_ok \/ untar_failed
  \/ cp_fstab \/ fix_rcS \/ set_inittab
  \/ grub \/ grub_conf \/ hostname
  \/ auto_fstab \/ auto_disks \/ auto_volumes \/ auto_mark
  \/ again \/ respawn \/ reboot_f

\* The steps that end a loop without a bound.
Wait == auto_resync \/ hostname_ask

Choice ==
  \/ partition \/ install \/ def_user_installer \/ restart \/ reboot
  \/ submenu \/ setup_from_existing_install \/ do_grub \/ set_hostname

Next == Step \/ Wait \/ Choice \/ KeyboardInterrupt \/ PowerLoss

Spec == Init /\ [][Next]_vars

\* Each step is a subprocess the installer waits for, or a prompt it reads.  What
\* it waits for in a loop it cannot bring about: the end of the kernel's resync,
\* and a name from the user.
FairSpec == Spec /\ WF_vars(Step) /\ WF_vars(auto_resync) /\ WF_vars(hostname_ask)

-----------------------------------------------------------------------------
(* Properties.                                                             *)

\* Between the mount of the root and its umount in setup_from_existing_install
\* an interrupt leaves a mount nobody knows of while mounts is still empty.
SetupWindow == {"setup"} \X {"setup_cp", "setup_umount", "setup_fail"}

\* Auto-install replaces /tmp/fstab before it unmounts what mounts lists.
AutoWindow == {"auto"} \X {"umount_special", "umount_keys"}

\* When the partitioner, mkfs, the mount of another root, the exit of the
\* process or reboot -f come, unmount_all has left nothing mounted under /t
\* (L364-368, L631, L1148, L1403-1410).
UnmountedBeforeDiskWork ==
  pc \in {"mvpartition", "setup_mount", "auto_disks", "auto_volumes", "exit",
          "reboot"}
    => kmounts = <<>>

\* mount_all never mounts a directory over one mounted before, nor twice on
\* the same place: every entry of mounts stays reachable (L321-334).
NoHiddenMount ==
  \A i, j \in 1..Len(kmounts) :
     i < j => kmounts[j].at \notin {kmounts[i].at} \cup Above[kmounts[i].at]

\* mounts, the only record unmount_all has, is replaced or forgotten only when
\* nothing it lists is mounted (L417, and the restart of the process).
MountsReplacedOnlyWhenUnmounted ==
  [][mounts' # mounts => kmounts' = <<>>]_vars

\* The mount points in use.
Mounted == {kmounts[i].at : i \in 1..Len(kmounts)}

SetupSteps == {"setup_cp", "setup_umount", "setup_fail"}
Unmounting == {"umount_special", "umount_keys"}
Clean == (Returns \ {"menu"}) \cup {"auto_resync", "reread"}

\* The bookkeeping of unmount_all and mount_all, step by step: outside setup's
\* own mount everything mounted is in mounts or special, what the unmount
\* loops have passed is gone, and what the mount loops have still to mount
\* sorts after everything mounted (L308-334).  The inductive invariant of the
\* properties above.
MountsTracked ==
  /\ NoHiddenMount
  /\ ret # "menu" <=> pc \in Unmounting
  /\ ret = "setup_mount" \/ pc \in SetupSteps \cup {"setup_mount"} => op = "setup"
  /\ pc \in Clean => kmounts = <<>>
  /\ pc \in SetupSteps => Len(kmounts) = 1 /\ kmounts[1].at = "/"
  /\ pc \notin SetupSteps =>
       /\ Mounted \subseteq DOMAIN mounts \cup Special
       /\ DOMAIN mounts = {} => kmounts = <<>>
  /\ pc = "umount_special" =>
       todo \subseteq Special /\ Mounted \subseteq DOMAIN mounts \cup todo
  /\ pc = "umount_keys" => Mounted \subseteq todo /\ todo \subseteq DOMAIN mounts
  /\ pc = "mount_keys" =>
       /\ todo \subseteq DOMAIN mounts /\ Mounted \subseteq DOMAIN mounts
       /\ \A q \in Mounted, t \in todo : SortPos[q] < SortPos[t]
  /\ pc = "mount_special" => todo \subseteq Special /\ Mounted \cap todo = {}
  /\ pc \in {"untar", "untar_ok", "untar_failed"} => "/dev" \notin Mounted

\* A step changes no filesystem but those in mounts, and gives no other fstab to any
\* but the one mounts has for /.
WritesOnlyMounts ==
  \A d \in Devices :
    /\ tree'[d] # tree[d] => \E p \in DOMAIN mounts : d = mounts[p]
    /\ tree'[d].fstab # tree[d].fstab => "/" \in DOMAIN mounts /\ d = mounts["/"]

\* The tarball, the new fstab and grub reach no disk that mounts does not have
\* (L506-549, L718-806); a power failure is not their doing.
InstallWritesOnlyMounts ==
  [][kmounts' = kmounts /\ pc \in {"untar", "cp_fstab", "grub_conf"}
       => WritesOnlyMounts]_vars

\* The installed system's own /etc/fstab names the devices it was installed
\* on: /tmp/fstab, which install copies, still is what mounts was read from
\* (L187, L549).
TargetFstabIsMounts ==
  pc = "set_inittab" => MountsOf(tree[DevOf("/")].fstab) = mounts

\* The device files of the tarball land on the disk, not in the tmpfs that
\* mount_all puts over /dev (L519-522).
DevUncoveredDuringUntar ==
  pc = "untar" => ~ \E i \in 1..Len(kmounts) : IsTopMount(i, "/dev")

\* Every choice comes back to the menu, by itself or in a new process, if the
\* mirrors' resync ends (L1320-1327) and a name is given (L1080).
OperationEnds == pc # "menu" ~> pc = "menu"

=============================================================================
