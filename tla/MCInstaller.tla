---------------------------- MODULE MCInstaller ----------------------------
(* Small installations for TLC: two disks that can hold a root filesystem  *)
(* and one boot partition.                                                 *)
EXTENDS Installer

CONSTANTS r1, r2, b1

MCDevices == {r1, r2, b1}
MCMountPoints == {"/", "/boot", "/boot/efi", "/tmp"}

MCAbove == [p \in MCMountPoints \cup Special |->
  CASE p = "/" -> {} [] p = "/boot/efi" -> {"/", "/boot"} [] OTHER -> {"/"}]

MCSortPos == [p \in MCMountPoints |->
  CASE p = "/" -> 1 [] p = "/boot" -> 2 [] p = "/boot/efi" -> 3 [] OTHER -> 4]

Line(d, m, t) == [dev |-> d, mp |-> m, type |-> t]

\* What base-files ships: no line that reread_fstab keeps.
MCBaseFstab == <<Line(r1, "/", "auto")>>
MCStockFstab == <<Line(r1, "/", "auto"), Line(b1, "/tmp", "tmpfs")>>

\* The tables of a BIOS machine: one with its lines out of order, one with two
\* roots, one with none.
MCPartitionings ==
  { <<Line(b1, "/boot", "ext4"), Line(r1, "/", "ext4")>>,
    <<Line(r1, "/", "ext4"), Line(r2, "/", "ext4")>>,
    <<Line(b1, "/boot", "ext4")>> }

\* With EFI: /boot/efi below /boot, either disk as the root, two roots, no root,
\* no /boot/efi and a line without a type.
MCEfiPartitionings ==
  { <<Line(b1, "/boot/efi", "vfat"), Line(r1, "/", "ext4"),
      Line(r2, "/boot", "ext4")>>,
    <<Line(r1, "/", "ext4"), Line(b1, "/boot/efi", "vfat"), Line(r2, "/", "ext4")>>,
    <<Line(b1, "/boot/efi", "vfat")>>,
    <<Line(r2, "/", "ext4"), Line(b1, "/", "")>>,
    <<Line(r2, "/", "ext4")>> }

MCBothWindows == SetupWindow \cup AutoWindow
MCNowhere == {}
=============================================================================
