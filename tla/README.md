# A verification of meta-montavista-cgx

meta-montavista-cgx is the layer of OpenEmbedded that makes MontaVista CGX: mostly
recipes and patches, and with them a number of programs of its own that run on the
target. Those programs carry the layer's logic: an installer that partitions disks and
unpacks a system on them, an initial ramdisk that finds the root filesystem while devices
appear, the script that changes runlevels, and some smaller ones. They are written in
Python and shell, they are full of processes that run side by side or end half-way, and
no test in the repository runs them. This directory models the programs in TLA+, checks
the models with TLC and proves what matters most about them with TLAPS.

Paths below are relative to the repository. `INST` stands for
`recipes-mvista/mvinstaller/mvinstaller-0.1`, `RAMD` for
`recipes-mvista/mvmkramdisk/mvmkramdisk-0.1`, and `CRYPT` for
`dynamic-layers/openembedded-layer/recipes-support/cryptsetup/files/cryptdisk_support`.

## Running it

    tlc -workers 2 -config Installer.cfg MCInstaller     # every .cfg below the same way
    tlapm InstallerProofs.tla                            # every *Proofs.tla the same way

## 1. Inventory

| component | source | module |
|---|---|---|
| Installer: menus, mounts, fstab | `INST/installer.py` (and `mktmpwrite` for its surroundings) | Installer |
| Installer: disks of the automatic install | `INST/installer.py` L206-277, L827-1318 | AutoInstall |
| Initial ramdisk at boot | `RAMD/init_template`, `RAMD/hotplug` | RamdiskBoot |
| Runlevel changes | `recipes-core/sysvinit/files/mvista-cgx/rc` | RcRunlevel |
| Encrypted disks | `CRYPT/` | CryptDisks, CryptMapping |
| LTT trace extraction | `recipes-kernel/lttng-2.0/ltt-kdump-0.2/sources/ltt.py` | LttDump |
| Making the initial ramdisk, LXC template, initramfs boot scripts, daemon scripts, network at boot, crash dump, classes, recipes, native helpers | see PROJECT.json | not modelled (section 7) |

### Installer

*State.* `mounts` (mount point to device, "A hash of all mounts from /tmp/fstab", L187),
`installed` (L196), the file `/tmp/fstab`, the kernel's mounts under `/t`, and what is on
the disks. The process itself is disposable: init starts it again when it ends
(`mktmpwrite` L31). It runs from a read-only ISO image, so that nothing can be written
under `/t` unless a disk is mounted there.

*Operations.* The menu (L1345-1457): partition, install, user (auto) install, restart,
reboot, and a recovery menu with set up from an existing install, grub, hostname and two
shells. They share `unmount_all` (L284), `mount_all` (L317) and `reread_fstab` (L382).

*Interaction.* Only through external programs, whose results are often ignored
(`unmount`, L279; the mounts of `mount_all`, L327), and through files: the partitioner
leaves `/tmp/fstab`, `install` copies it into the new system.

*Hard.* Ctrl-C is caught in one place, the menu loop (L1445): any operation can stop
between any two steps and leave mounts, files and variables as they are. Every operation
begins with a clean-up that trusts `mounts`. Power can fail. Two loops have no bound: the
wait for the resync of the mirrors (L1320-1327) and the prompt for a host name (L1080).

*Correct when* nothing is mounted when the disks are rewritten, no mount hides another or
is forgotten, an install writes to no disk but those in `mounts` and changes no fstab but
the root's, the new system's fstab names the disks it is on, and every choice comes back to
the menu.

### Initial ramdisk at boot

*State.* The device nodes in `/dev`, the directory `/dev/.md.lock` that is a lock, the
file `/proc/sys/kernel/hotplug`, and the kernel's and md driver's devices and arrays.

*Operations.* `/init` is one sequential process: activate hotplug, make nodes of the
devices that are there, `mdadm --assemble`, load modules, wait for the root, switch to it.
Each uevent starts one more process, `hotplug`: make or remove the node, and call mdadm
under the lock to start an array or to add a member to it.

*Hard.* All of these run side by side, in no order but the lock's; devices appear at any
time, arrays appear because of handlers; the root may never come; the ramdisk is deleted
under handlers that still run.

*Correct when* handlers call mdadm one at a time, the RAID set stays in one piece, no
device and no member falls between the scan at boot and the uevents, and `/init` ends.

### Runlevel changes

*State.* The links of `/etc/rc?.d`, what each service was told last, the step of the
progress bar.
*Operations.* Two loops over links: K links stop, S links start (in 0 and 6 they stop).
*Hard.* Whether a service runs is never asked, nor whether a script succeeded (L56): a
start script is skipped when the *previous* runlevel had an S link and the new one no K
link. That is right only over whole sequences of complete changes; init kills an rc that
still runs. The steps of the bar are counted up to the first display manager, reboot or
halt (L123-127), the scripts behind it run all the same.
*Correct when* only services are skipped that were told to start and not to stop since,
each runlevel ends with its services told to start and its kills told to stop, and the
progress bar stays in its range.

### Encrypted disks

*State.* The mappings of the device mapper, under the name `<dst>_unformatted` while an
entry of `/etc/crypttab` is being set up and `<dst>` after it; what is on the source; the
mounted filesystems of the keys; and the shell variables of each process.

*Operations.* Start: parse the options, open the source, check it, make swap or a temporary
filesystem on it, rename it (`handle_crypttab_line_start`). Stop: close what is not open
(`handle_crypttab_line_stop`).

*Interaction.* Four callers run these functions: the init scripts `cryptdisks-early` and
`cryptdisks`, and the commands `cryptdisks_start` and `cryptdisks_stop`, which udev runs
when a disk comes or goes. They share the device mapper and nothing else.

*Hard.* Nothing locks an entry (L718: "FIXME: no locking"): only the failing second open of
a source keeps two starts apart. Results of most commands are not looked at.

*Correct when* a process works on the mapping it opened, data behind a key is never
overwritten by accident, no device gets its name before its check, and commands end.

### Disks of the automatic install

*State.* The partition tables, what md and LVM have written on the disks, now or for a
system that was there before, the arrays that run, the filesystems made and the lines of
`/tmp/fstab` so far.

*Operations.* `def_user_installer` (L1114): remove volume groups, stop arrays, clear the
superblocks, then for each disk a new table and two partitions, then two mirrors over all
disks if there are at least two, a volume group, and its volumes, whose sizes are computed
from what `pvdisplay` and `free` print.

*Interaction.* udev, which assembles the array of any superblock it sees, at any time.

*Hard.* What md and LVM write on a disk is not in the partition table: arrays and volume
groups of the system before, or of an earlier, interrupted install, can appear in the middle
of this one, also those that no partition showed when it began. Most results of commands are
not looked at. Sizes are in 10^6 bytes, 2^20 bytes, 1000 KiB and extents.

*Correct when* nothing old is in the way when the volume group is made, the volumes fit in
it, and each line of fstab names a device this install has formatted.

### LTT trace extraction

*State.* In the dump: per CPU a ring of subbuffers with `offset`, `consumed`, `cc`, `seq`,
`data_size`, and which CPUs are online. Of the program: the files it writes.

*Operations.* `dumpltt` walks each ring from `consumed` to `offset` and appends what was
committed, padded to pages, with the header of each packet corrected (L279-410).

*Interaction.* Only with what the kernel left: the ring buffer's writer, stopped at any
moment by the crash.

*Hard.* Records are reserved and committed in different orders; the last subbuffer, the
first one and an unfinished one each have their own rule for the size.

*Correct when* the files parse, in order, nothing uncommitted is in them and nothing
committed is missing.

## 2. Plan

Modules in the order of importance, each written so that it can be proved about: constants
with named assumptions, an action for each operation, no RECURSIVE operator.

1. `Installer`, `InstallerProofs`, `InstallerMountProofs` — done: mounts, install, fstab.
2. `RamdiskBoot`, `RamdiskProofs` — done: /init, handlers, md lock.
3. `RcRunlevel`, `RcProofs` — done.
4. `CryptMapping`, `CryptDisks`, `CryptProofs` — done: an abstract specification of one
   device, and the scripts shown to implement it.
5. `AutoInstall`, `AutoProofs` — done: the disks and the arithmetic that Installer's
   `auto_disks` and `auto_volumes` leave out.
6. `LttDump`, `LttProofs` — done: the ring buffer's writer, a crash, and dumpltt.
7. The proofs of the invariants that were only model-checked at first — done:
   `InstallStaysOnMounts` and `InstalledFstab` in `InstallerMountProofs`, the arrays and
   devices in `RamdiskProofs`, the rest of `RcProofs`, `KeyFsStays` and `DataStays` in
   `CryptProofs`, and `LttWalkProofs` with what the walk round a ring takes.

A run is bounded by the smallest instance in which the hazards meet (section 4).

## 3. The modules

### Installer, MCInstaller

Each external command whose effect the properties see is a step of its own, so that Ctrl-C
and power loss come between any two. `pc` is the step, `op` the menu choice, `ret` where
`unmount_all` returns to (the call is inlined), `todo` the keys the loop of `unmount_all`
or `mount_all` has left.

| code | model |
|---|---|
| `Installer.mounts`, `installed`, `menu_to_use` | the variables of that name |
| `/tmp/fstab`; fstab lines | `fstab`, a sequence of `Entry`, or `NoFile` |
| mount(2), umount(2) under `/t` | `kmounts`, in the order of mounting, with `CanMount` and `CanUmount` for EBUSY, EROFS, a device without a filesystem |
| a disk's contents | `tree`: no filesystem, blank, with files, partly or fully installed, and its `/etc/fstab` |
| `unmount_all` | `CallUnmountAll`, `unmount_all_special`, `unmount_all_keys` |
| `mount_all`, `reread_fstab` | `mount_all_keys`, `mount_all_special`, `reread_fstab` (`MountsOf`, `Acceptable`) |
| menu 1 | `partition`, `mvpartition`, then reread and mount |
| menu 2 | `install`, `umount_dev`, `untar`, `untar_ok`/`untar_failed`, `cp_fstab`, `fix_rcS`, `set_inittab`, then grub and hostname |
| recovery 1, 2, 5 | `setup_from_existing_install`..., `do_grub`..., `set_hostname`... |
| auto-install | `def_user_installer`, `auto_*`; the wait for the resync is `auto_resync` |
| the prompt for a host name | `hostname_ask`; asked until something is typed, while auto-install takes the lease's name |
| exceptions, Ctrl-C | `Raise`, `KeyboardInterrupt`: back to the menu, variables kept |
| `exit`, `reboot -f`, power | `respawn`, `reboot_f`, `PowerLoss`: what was not written back may be lost |

tar and grub write below `/t` wherever a path leads them: into the root and into any of the
filesystems mounted below it (`BelowRoot`, `WrittenTo`), each of which may get files or not.
The table's `/etc` is taken to be on the root: a filesystem of its own for `/etc` is not
modelled (`cp_fstab`).

The file mixes tabs and spaces (from L463 on). Its first line names python3, which refuses
that (TabError); it is modelled as Python 2 reads it, where `input()` evaluates what is typed
and so any prompt may raise. Mount points are abstract:
`Above` is the directory order, `SortPos` the order of strings, and the only fact assumed
of them is that a proper prefix sorts first.

Not in the model: the shells of menu entries 3.3 and 3.4 (anything may happen there), the
optional `user_installer.py` (a plug-in outside the repository), the text of files other
than fstab, and how auto-install computes its table, which is in AutoInstall. The
installer carries on to grub after a tar that failed, although L813 asks to install first;
this is in the model (`untar_failed`, `grub_conf`) but no run asks about it.

### AutoInstall, MCAutoInstall

The two modules share one operation and see two sides of it: Installer has its mounts and
fstab as one step each, AutoInstall what it does to the disks. `todo` is what the loop over
disks has left. A disk has two places for a partition; `parts` says which are in its table,
`super` and `label` what md and LVM have written there, which stays when the partition
goes. `arrays` is what runs. `Machines` says what is on the disks before the first run, any
mix of the three: so a superblock may be in a partition of the old table, or where only the
new table has one again. The second is hidden from `--zero-superblock`, which reaches what
the kernel shows as a partition.

| code | model |
|---|---|
| `clean_system`, `clean_vgs` | `clean_system`, `clean_vgs`, `vgremove`; arrays are stopped with them |
| `--zero-superblock` | `zero_superblock`: only what the kernel shows as a partition |
| `clear_partition_table`, `create_partition`, `_set_dev_contents` | the actions and operators of these names; `boot_fs`, `lvm_partition` |
| `create_raid`, `create_vg`, `create_lv` | `create_raid`, `vgcreate`, `create_lvs` |
| `det_sz`, `sz`, `memcount`, `lv_rt_sz` | `usable`, `swap_sz`, `lv_rt_sz`, `root_sz` |
| udev | `udev_assembles`, at any time |
| Ctrl-C, an exception | back to the menu, the disks as they are |

Sizes are numbers in the units of each command; the rest of the table is names. `memory` and
`psize` are what `free` and `pvdisplay` said when `volume_sizes` read them.

Of LVM and md it is assumed that `pvcreate` refuses a device with an md superblock, running
or not, as LVM takes it for a member of an array, and that `mdadm --create --run` passes over
an old superblock on a device not in use. Nothing names two arrays alike: numbers go from 0 to
127, the least free one first (L959-968).

### RamdiskBoot, MCRamdiskBoot

`pc` is /init's step; handler `h` is in `hpc[h]` with its event `ev[h]`. `present` is what
the kernel has, `nodes` what `/dev` has. mdadm is two steps, looking for the array of the
RAID set (`saw`) and then acting on it, which is what the lock is for; the md driver is
`arrays` (members, running) and `rejected` (members a running array did not take back).
Modelled with one RAID set holding the root. Uevents for firmware run the same script but
change nothing the model has, and are left out, as is what `add_device_table` edits in the
new root. When `exec switch_root` fails the shell ends with it, and that shell is PID 1: the
kernel panics (`panic`), and `exec /bin/sh` at L218 is not reached.

### RcRunlevel, MCRcRunlevel

`start` and `kill` are the links, chosen freely at the start; the actions are its two loops,
in the order of the numbers; `telinit`, `single_user`, `leave_single_user`, `initdefault`,
`boot` and `power_off` are sysvinit. `called` is the argument of the last script of each
service. Whether a script succeeds and how long its service lives is not in the model, as rc
never asks (L56): a service whose start failed is skipped in the next level all the same.
Nothing is skipped after single user (`previous` is `S`, L150). `DisplayManagers` are the
names at which the counting of steps stops; `reboot` and `halt` are among them (L123-127).
sysvinit reports the previous runlevel `N` for the sysinit run and for the first level after
it. Runlevel 0 is handled by the same lines as 6 and is not a level of its own. The progress
bar is an operator over the step counter, with the integer division of the shell.

### CryptDisks, CryptMapping, MCCryptDisks

One entry of crypttab, `opts`, and processes `p` that start and stop it: `pc[p]` is the
step, `cmd[p]` the caller's `INITSTATE` (or force-start), `tried[p]` the counter of the
loop of tries (and of the six rounds of `do_stop`), `mounted[p]` is `MOUNTED`. The mappings
`unf` and `fin` are `<dst>_unformatted` and `<dst>`. A mapping records who opened it, with
the right key or a wrong one, and what it shows; `stored` is what the right key shows. A
wrong key opens only a plain device, and shows nothing known.

| code | model |
|---|---|
| `do_start`, `cryptdisks_start`; `do_stop`, `cryptdisks_stop` | `start`, `stop` |
| `mount_fs`, `umount_fs` | the actions of these names |
| `parse_opts`, `check_key` | the fields of `Entry`, `Ignored`, `check_key` |
| `do_luks`, `do_tcrypt`, `do_noluks` | `setup` (the precheck), `open`, `check`, `close_unf`, `Retry`; the types differ in the guards |
| `do_swap`, `do_tmp`, `finalize_device` | the actions of these names; `mkswap` is a step of its own |
| `handle_crypttab_line_stop`, `do_close` | `stop_line`, `do_close`, `Closed` |

cryptsetup and dmsetup are external: an open fails when either name or the source is in
use, a close when the device is open. That after a failed check (`close_unf`) may be refused
too, when something has the device open; the mapping stays under its first name, and later
starts find it. Left out: keyscripts other than their result, the text of options, several
entries that need each other, a rename that fails with both names free, the wait for a job of
upstart, where there is upstart (L752-754), and `crypttab_start_one_disk`, which nothing
calls.

`CryptMapping` is what a user of the device relies on: absent, opened, ready, published.
`ImplementsPromise` is the refinement; the state is read off the two mappings.

### LttDump, MCLttDump

Two processes that never run together. The writer is external and modelled by the fields
that ltt.py reads: `reserve` takes a place (and, when it does not fit, pads the subbuffer
and starts the next), `commit` fills it, an interrupt's record before that of what it
interrupted; `commit_hot.seq` follows `cc` only when nothing before is open; the last
commit of a subbuffer delivers it. `crash` stops it between two steps, `crash_in_switch`
inside the one that starts a subbuffer. A unit of data is represented by the position at
which it was reserved, which never wraps: so a stale unit can be told from a new one.
Reservations before a subbuffer that is not fully committed wait (`CanReserve`), as the
kernel drops those records.

| code | model |
|---|---|
| `find_module`, `find_and_load_module` | `find_and_load_module` |
| `find_channel`, `find_session_channel` | the operators of these names, `Found` |
| `get_cpu_list`, the loop of `invoke` | `get_cpu_list`, `cpus` |
| `invoke` | `invoke`; it can be run again in the same directory |
| `handle_buffer` | `handle_buffer`, `walk`, `Coffset` |
| `handle_subbuffer`, `dump_subbuffer`, `dump_page`, `add_alignment` | `handle_subbuffer`, `Committed`, `fix_header`, `align` |

Of the metadata only the session it is of is kept; how gdb reads memory is left out.

## 4. Runs

| run | configuration | result |
|---|---|---|
| `installer` | EFI: two disks that can hold a root and a boot disk, tables out of order, with `/` twice, without `/`, with a malformed line; fairness | all hold, 889 000 states |
| `installer_partition_mounted` | Ctrl-C everywhere | violated: the partitioner runs with a root mounted |
| `auto_install` | one to three disks with anything on them at first, interrupted and started again at will | all hold, 161 000 states |
| `ramdisk` | two members, one disk that comes and goes, four uevents; fairness | all hold, 471 000 states |
| `ramdisk_mdadm_race` | without `QuietAssemble` | violated: two mdadm at a time |
| `ramdisk_timeout` | the real counter, 120 | violated: the wait ends after 125 s, not 600 s |
| `rc` | a service and a display manager, all links, two multiuser levels and single user | all hold, 4.3 million states |
| `rc_interrupted` | telinit during rc | violated: a service is skipped that was not told to start |
| `crypt` | two processes, 34 entries of all types, fairness | all hold, 393 000 states |
| `crypt_refused_swap` | one process, a swap entry | violated: what was refused is published |
| `ltt` | a ring of three subbuffers, one record inside another, a crash anywhere | all hold, 1.4 million states |
| `ltt_full` | a smaller ring | violated: of an exactly full ring one subbuffer is dumped |

What the properties say:

* `UnmountedBeforeDiskWork`, `NoHiddenMount`, `MountsReplacedOnlyWhenUnmounted`,
  `DevUncoveredDuringUntar`: the bookkeeping of mounts through every sequence of choices,
  failures and interrupts. `MountsTracked` is their inductive invariant.
* `InstallWritesOnlyMounts`, `TargetFstabIsMounts`: what an install writes and where.
* `VgcreateSucceeds`, `VolumesFit`, `FstabFormatted`: the automatic install in spite of
  what is left of earlier ones, of units and of ignored results.
* `OperationEnds`: every choice comes back to the menu, if the resync ends and a name is given.
* `HandlersSerial`, `SingleArray`: what the md lock is for. `NoDeviceLost`,
  `NoMemberLost`: no gap between the scan of `/proc/diskstats` and the uevents.
  `BootEnds`, `HandlersEnd`: the loops end.
* `SkippedWasStarted`, `LevelReached`, `StoppedWasStopped`: what rc told each service agrees
  with the links of the levels it went through. `ProgressInRange`: the bar up to the first
  display manager, reboot or halt.
* `OpenerOnly`, `StartPublishesOwn`: ownership without a lock. `KeyFsKept`, `DataKept`:
  what a start must not take from others. `ImplementsPromise`: the refinement.
  `CommandEnds`: the loops end.
* `TraceParses`, `EndCovers`: what a reader of the trace steps by. `InOrder`: nothing stale,
  nothing twice. `NothingUncommitted` and `DumpComplete`: not too much and not too little.

### Assumptions of the runs, and what happens without them

* `Shielded` (Installer) lists the places where Ctrl-C is taken not to strike. The passing
  runs shield two: `SetupWindow`, between the mount of an existing root and its umount,
  and `AutoWindow`, the unmounting that follows auto-install's overwriting of `/tmp/fstab`.
  In the first window an interrupt leaves a mount that nothing records: run
  `installer_partition_mounted` has no shield and shows it. In the second, an interrupt and
  an install later give the new system a fstab of other disks (`TargetFstabIsMounts` fails).
  Everywhere else the properties hold with interrupts.
* `QuietAssemble` (RamdiskBoot): no handler calls mdadm while `/init` does.
  `/init` takes no lock, so this is luck, and `ramdisk_mdadm_race` has it FALSE. Without it
  `SingleArray` fails as well.
* Disks of the RAID set are not unplugged (`Removable`): the scripts do not handle it. For the
  disk that does come and go `NoDeviceLost` holds too, but for the time after it came back
  before the handler of its removal had run (`overtaken`): the `rm` of that handler (L44) can
  come after the `mknod` of the other and take the new node away.
* `Interruptible = FALSE` (RcRunlevel): a change is over before the next. `rc_interrupted`
  drops it. `ProgressInRange` goes up to the first display manager, reboot or halt. From there
  on the bar leaves the range that L101 and L114 give: it goes past its end, or, with such a
  link first and so nothing counted, stands at the size of its share (L26); every `rc6.d` and
  `rc0.d` ends with one.
* `VgcreateSucceeds` and `FstabFormatted` (AutoInstall) name the cases in which what the old
  table hid does get in the way. On a single disk a superblock on the second partition makes
  `pvcreate` fail without a word, and then `vgcreate` (`HiddenMember`); the next attempt sees
  the partition and clears it. A superblock under `/boot` or `/boot/efi` may be assembled
  between `mkpart` and `mkfs`, which then fails without a word and leaves the line in the
  fstab. With mirrors neither happens to what is on them, as `clean_again` stops the arrays
  before they are made, but it comes after the mkfs of each `/boot/efi`.
* `Overlapping` (CryptDisks) leaves out plain devices: commands for them run one at a time.
  `do_noluks` does not look at the result of the open (L443), so that with plain devices in
  it a process goes on with a mapping of another one, and `OpenerOnly` fails.
* `MaxNesting = 2` (LttDump): at most one record is open inside another. With three,
  two of them of one length, committing the inner two brings `cc` to where `seq` is looked
  for although the outer one is still open. The kernel's own `seq` is then wrong, and
  `TraceParses` and `NothingUncommitted` fail; no code of ltt.py could help.
* `DumpComplete` leaves out three cases, each named in it: the ring that is filled to its
  last unit (`ltt_full` shows it), a subbuffer whose commits were out of order (what is
  committed behind a gap cannot be told), and a crash after `offset` has moved and before
  `consumed` followed. `InOrder` excepts the last packet of a file when the crash struck
  inside a switch of subbuffers: it may be of an older lap.

### Bounds

* Installer: `MaxMounts` bounds the kernel's mounts under `/t`. A `mount_all` makes at most
  three for keys and three special ones, and `tmpfs` on `/dev` can be mounted again by an
  install, one at a time as it unmounts one first; 8 is never reached in the passing runs.
  Two disks that can hold a root are needed for a mount or an fstab of the wrong one; a
  third adds nothing that two do not show. The run has EFI, whose mount points are the
  deeper tree; the proofs cover both.
* AutoInstall: with one disk there are no mirrors, with two a mirror that can come back
  whole, in part, or as two halves, with three also one of two halves against one. One disk
  may have anything on it; of two the second is blank or has a mirror of before, shown or
  hidden by the table; of three the first is any of these and the others get theirs from
  interrupted runs. The proofs take anything on any number of disks. The sizes lie around
  the limits of 10000 and of a tenth; the memories are none, a small one, one whose count is
  rounded up, and one of which twice is more than the disk.
* RamdiskBoot: `MaxUevents` and `MaxHandlers` bound events and processes; four of each are
  enough for two handlers that contend with each other and with `/init`, and for an array's
  own event after them; with three handlers two disks never meet at the lock. `RoomForDisks`
  keeps room for the events of the arrays so that the bound never drops one. The passing run
  counts down from 5 instead of 120, which changes the number of turns of a loop and nothing
  else; `elapsed` is capped just above.
* RcRunlevel: skipping looks at one service at a time and the loops at one order, so a
  service and a display manager behind it, with every choice of links, show every case; any
  sequence of two multiuser levels, single user, 6 and reboots.
* CryptDisks: a third process adds no order between two that two do not have, as only one
  mapping of the source can exist. Two tries show a first and a last one, and 0 none; two
  rounds of `do_stop` instead of six likewise.
* LttDump: three subbuffers of four units, pages of two, records of one and three units. 18
  units go round the ring of 12 once and half again, so that a subbuffer is overwritten and
  the walk wraps; CPU 1 writes one record and may go offline.

The configurations of RamdiskBoot turn deadlock checking off: the system really stops, in
a shell or in the new root; so does that of `ltt_full`. Those of the others check it.

### Fairness

Installer: weak fairness of `Step`, the steps the installer takes by itself — each is a
subprocess it waits for or a prompt it reads; choices of the menu are not fair. The two loops
without a bound have a fairness each, which is not the installer's: of `auto_resync`, that the
kernel's resync comes to its end, and of `hostname_ask`, that the user types a name.
RamdiskBoot: weak fairness of `/init` and of each handler — they are processes of one
scheduler. `HandlersEnd` needs no more than that because uevents are finite; the lock is
not a fair one. It exempts handlers caught by `switch_root`, which deletes `mkdir` and
`sleep` under a waiting handler: that one spins for ever.
CryptDisks: weak fairness of each process's steps; a prompt for a passphrase is answered,
rightly or wrongly. Starts, stops and the users of the device are not fair.

## 5. Proofs

All theorems hold for every value of the constants that meets the modules' assumptions.

* `InstallerProofs`: `TypeCorrect`, `Spec => []TypeOK`. The work is in the lemmas about
  `RemoveAt` and about `MountsOf`, the dictionary a loop over lines builds.
* `InstallerMountProofs`: `TrackedAlways`, `Spec => []MountsTracked`, assuming
  `SetupWindow \subseteq Shielded`, and from it `DiskWorkUnmounted`, `NothingHidden`,
  `TarSeesDiskDev` and `MountsNeverForgotten`. None of these is inductive. That the
  unmounting loop leaves nothing needs to know that each umount succeeds, for which
  nothing may be mounted below or over a key when its turn comes, for which keys must go in
  descending order *and* everything mounted must be a key: `MountsTracked` says so for each
  step of both loops. The order of strings enters through one assumption, that a path sorts
  after its prefixes. `AutoWindow` is not needed for these, nor for `InstallStaysOnMounts`:
  while an install runs each device that is mounted is the one `mounts` has for the place it
  is mounted on, the special mounts have none, and on `/t` itself is the one it has for `/`.
  `InstalledFstab` assumes both windows shielded: `/tmp/fstab` is the table `mounts` was
  read from, except on the ways to a menu before both were replaced.
* `RamdiskProofs`: `MdlockExcludes`, `Spec => []HandlersSerial`, and `TypeCorrect`, for any
  number of handlers, uevents, disks and members. The invariant of the first adds the
  handlers' types; the case of interest is `switch_root`, which takes the lock's directory
  away while a handler holds it, and with it every means to take the lock. That of
  `TypeCorrect` says of each handler what it may still call: mdadm makes a second array
  when a handler races with `/init`, and never a third. Then `OneArray`, `EveryDeviceSeen`
  and `EveryMemberSeen`, assuming `QuietAssemble`. The invariant says where each device
  that is there is still to be seen: in the scan, in a uevent that is on its way, or in a
  handler before it; a disk that is back has no removal outstanding unless it is `overtaken`.
* `RcProofs`: `SkipsOnlyStarted` and `LevelAlwaysReached`, assuming `~ Interruptible`. The
  invariant says how far each loop has come: after the K links what the previous level
  started and this one does not stop was told to start last, and then so was what the S loop
  has passed. `RcTyped`, `StoppedAlwaysStopped` and `BarStaysInRange` hold also when changes
  overlap. The last rests on this: as long as the loops are before the first link at which
  the counting stops, what they have run is among what was counted.
* `AutoProofs`: `TypeCorrect`, `VgcreateAlwaysSucceeds`, `VolumesAlwaysFit` and
  `FstabAlwaysFormatted`, for any disks, sizes and memories. The second rests
  on this: when `clean_vgs` comes a mirror over all disks runs, or there is one disk and no
  superblock on its second partition, or it is `HiddenMember`; in the first two LVM sees
  whatever group is left and `vgremove` takes it away. The fourth on this: an array is only
  where its members have superblocks, so what has none under a new partition is free when
  mkfs comes, and a mirror is made only when none of its members is busy.
* `CryptProofs`: `OInvAlways`, and from it `CryptTyped`, `Ownership`, `Publication` and
  the refinement, `Refinement`, for any number of processes, assuming `"plain" \notin
  Overlapping`. The invariant says that there is never a mapping under each name at
  once, that a process between opening and renaming owns the one under the first name,
  that there is no second such process, and how far the check has come there. A mapping may
  also be left there, by a close that was refused; no later open gets past it but, for a
  plain device, that of a process which left it itself (`Ready`).
  `DataStays` adds to it that a mapping of a LUKS or TCRYPT source has the right key and,
  under its first name, shows what the source holds, so that mkswap finds there what
  `do_swap` has found. `KeyFsStays` needs no assumption about overlapping commands.

* `LttProofs`: `FilesParse`, `OnlyCommitted` and `EndsCover`, for rings, pages and records
  of any size, assuming `MaxNesting <= 2`. The module begins with the division that places
  positions in the ring. `RingInv` then says of each subbuffer that `cc` is what is reserved
  and not open, that what `seq` (or `data_size`) lets ltt.py take was written and is before
  every open record, and that its header has an end only when it is full and committed.
  Committing keeps it for this reason: `seq` moves only when the end of the record is `cc`
  modulo the subbuffer; with at most one record left open, which then is before it, this
  happens only if none of the subbuffer is open. Reserving is taken apart into padding the
  old subbuffer, starting the new one and adding the record. `Sound` is what remains of
  `RingInv` after a crash, also one inside a switch, and from it follow the packets
  (`PacketIs`) and that a file can still be read with a packet behind it (`AppendPacket`).

* `LttWalkProofs`: `TypeCorrect`, `FilesInOrder` and `DumpsComplete`, under the same
  assumption. They rest on the walk going round the ring just once, and so on which laps the
  ring holds. `Lapped` says it while the kernel runs: the subbuffers hold the last
  `num_subbuf` laps, `consumed` is at the oldest, nothing in the ring is from ahead of
  `offset`, and what was written in a lap without a commit out of order is counted by `seq`.
  The crash turns this into `Shaped`, which is what the walk meets: turn k finds lap k from
  `consumed`, or a blank subbuffer; only the last turn may find an older one, if the crash
  was inside a switch; and what is kept is taken by some turn. `WalkInv` then counts the
  turns: before turn k the file is in order, ends before that turn's lap (`Between`), and has
  all that is kept of the laps before (`KeptTo`). Between the CPUs of the list it needs that
  each online CPU is listed once. `get_cpu_list` chooses an ascending list, and that there is
  one for every finite set of numbers is an induction, done by a smallest counterexample
  (`Ascending`). The constants are assumed as in a kernel: finitely many CPUs, session
  numbers that are not 0, and room for the first header.

Model-checked only: the liveness properties `OperationEnds`, `BootEnds`, `HandlersEnd` and
`CommandEnds`, which are out of the prover's reach.

## 6. Where the code and its comments disagree

PROJECT.json lists, with the lines, those a run shows: `unmount_all` that does nothing while
`mounts` is empty; mdadm in `/init` outside the lock; a time-out of two minutes for ten; a
start script skipped for a service that was never started; a swap device published after
its refusal; and a full ring of which one subbuffer is dumped.

More were met while modelling and have no run. `mounts` is called a hash of all mounts
from `/tmp/fstab` (L187), but keeps the table before while the partitioner writes a new
one. And when `free` fails, auto-install says that it goes on without swap (L1251), but the
size of the root is then never set, and using it raises. The comment at L1206 has the arrays
gone that came up when the partitions were added; they go after the mkfs of the boot
partitions and the `pvcreate` of a single disk, which they may have stopped (section 4). And
the comments of rc at L101 and L114 give the bar a range it leaves once a display manager,
reboot or halt was counted to.

## 7. Not modelled

* *Making the initial ramdisk* (`mvmkramdisk`, `mv-re-grub`): one sequential process that
  copies files and writes text. Nothing runs beside it and nothing it keeps survives it.
* *LXC template*: `flock` serialises the one thing two creations share, its cache; a failing
  creation removes its whole directory. What is left is the text of configuration files.
* *Initramfs boot scripts*: a chain of alternatives that one process tries in turn, each a
  few mounts, ending in exec.
* *Daemon scripts, crash dump, network at boot*: straight lines around `start-stop-daemon`,
  `ifup` and `udhcpc`; their state is that of those programs.
* *BitBake classes, configuration, recipes and patches, native helpers*: declarations, or
  code that runs under BitBake's own scheduling, or thin wrappers of one system call.

Of the modelled components, what each leaves out is named in its section above and in
PROJECT.json.
