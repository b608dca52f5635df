--------------------------- MODULE MCRamdiskBoot ---------------------------
(* A mirror of two disks that holds the root, and a disk that can be       *)
(* unplugged.                                                              *)
EXTENDS RamdiskBoot

CONSTANTS m1, m2, usb, md0, md127

MCMdNames == <<md0, md127>>
=============================================================================
