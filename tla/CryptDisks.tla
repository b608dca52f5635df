----------------------------- MODULE CryptDisks -----------------------------
(***************************************************************************)
(* Starting and stopping one entry of /etc/crypttab (cryptdisks.functions) *)
(* by processes that may run side by side: the init scripts                *)
(* cryptdisks-early and cryptdisks, and cryptdisks_start/_stop, which udev *)
(* runs for each device.  No lock orders them.  A start opens the source   *)
(* under the name <dst>_unformatted, checks it, makes swap or a temporary  *)
(* filesystem on it, and renames it to <dst>.  cryptsetup and the device   *)
(* mapper are modelled as far as the scripts use them.                     *)
(***************************************************************************)
EXTENDS Naturals

CONSTANTS
  Procs,        \* processes
  Crypttab,     \* entries the file may hold
  Overlapping,  \* types of entries whose commands may run side by side
  Rounds,       \* rounds in which do_stop tries to close an entry (6)
  NoMapping     \* "there is no such device"

Types == {"luks", "tcrypt", "plain"}

\* An entry: what blkid says of the source, and the options.  tries is 0 for
\* no limit; keyfs says that the key is on a filesystem of CRYPTDISKS_MOUNT,
\* random that it is /dev/random.
Entry == [type : Types, raw : {"luks", "none", "swap", "fs"},
          precheck : BOOLEAN, check : BOOLEAN, swap : BOOLEAN, tmp : BOOLEAN,
          tries : Nat, auto : {"yes", "noearly", "noauto"},
          keyfs : BOOLEAN, random : BOOLEAN]

ASSUME CrypttabAssumption ==
  /\ Crypttab \subseteq Entry
  /\ Overlapping \subseteq Types
  /\ Rounds \in Nat \ {0}

\* What a device shows: nothing known, or a filesystem with data, or swap, or
\* a temporary filesystem.
Shown == {"blank", "data", "swap", "tmp"}

\* A mapping of the source: who opened it, with the right key or not, whether
\* its check was passed, and what it shows.
Mapping == [by : Procs, right : BOOLEAN, passed : BOOLEAN, shows : Shown]

ASSUME NoMappingAssumption == NoMapping \notin Mapping

VARIABLES
  opts,     \* the entry
  pc,       \* pc[p]: the step p is about to take
  cmd,      \* cmd[p]: INITSTATE of p, or "force" for force-start
  tried,    \* tried[p]: attempts to open, as far as they are compared, or
            \*   rounds of a stop
  mounted,  \* mounted[p]: MOUNTED of p is not empty
  keyfs_on, \* the filesystem of the key is mounted
  unf,      \* the mapping <dst>_unformatted
  fin,      \* the mapping <dst>
  used,     \* <dst> is open
  stored    \* what the source shows through the right key

procs == <<pc, cmd, tried, mounted>>
disk  == <<unf, fin, used, stored>>
vars  == <<opts, procs, keyfs_on, disk>>

\* Steps between the opening of a mapping and its renaming.
Owning == {"check", "close_unf", "swap", "mkswap", "tmp", "finalize"}
Stopping  == {"stop_line", "do_close"}
Locations == Owning \cup Stopping \cup
  {"idle", "mount_fs", "line", "setup", "open", "umount_fs", "mount", "stop"}

ProcsTyped ==
  /\ pc \in [Procs -> Locations]
  /\ cmd \in [Procs -> {"none", "early", "udev", "manual", "force"}]
  /\ mounted \in [Procs -> BOOLEAN]
  /\ tried \in [Procs -> Nat]
  /\ \A p \in Procs :
       /\ pc[p] \in {"idle", "stop"} => tried[p] = 0
       /\ pc[p] \in Stopping => tried[p] < Rounds
       /\ pc[p] \notin Stopping /\ opts.tries # 0 => tried[p] < opts.tries

DiskTyped ==
  /\ keyfs_on \in BOOLEAN /\ used \in BOOLEAN
  /\ unf \in Mapping \cup {NoMapping} /\ fin \in Mapping \cup {NoMapping}
  /\ stored \in Shown

TypeOK == opts \in Crypttab /\ ProcsTyped /\ DiskTyped

Goto(p, l) == pc' = [pc EXCEPT ![p] = l] /\ UNCHANGED <<cmd, tried, mounted>>

\* The process ends.
Exit(p) ==
  /\ pc' = [pc EXCEPT ![p] = "idle"]
  /\ cmd' = [cmd EXCEPT ![p] = "none"]
  /\ tried' = [tried EXCEPT ![p] = 0]
  /\ UNCHANGED mounted

-----------------------------------------------------------------------------
(* The commands.                                                           *)

MayRun == opts.type \in Overlapping \/ \A q \in Procs : pc[q] = "idle"

Command(p, c, l) ==
  /\ pc[p] = "idle" /\ MayRun
  /\ pc' = [pc EXCEPT ![p] = l]
  /\ cmd' = [cmd EXCEPT ![p] = c]
  /\ UNCHANGED <<opts, tried, mounted, keyfs_on, disk>>

start(p) == \E c \in {"early", "udev", "manual", "force"} : Command(p, c, "mount_fs")

\* cryptdisks_stop unmounts first; the init scripts stop right away.
stop(p) ==
  \/ Command(p, "manual", "stop")
  \/ \E c \in {"early", "udev"} : Command(p, c, "stop_line")

-----------------------------------------------------------------------------
(* handle_crypttab_line_start.                                             *)

\* A filesystem that is mounted already is not mounted again, and not noted.
mount_fs(p) ==
  /\ pc[p] = "mount_fs"
  /\ mounted' = [mounted EXCEPT ![p] = opts.keyfs /\ ~ keyfs_on]
  /\ keyfs_on' = (keyfs_on \/ opts.keyfs)
  /\ pc' = [pc EXCEPT ![p] = "line"]
  /\ UNCHANGED <<opts, cmd, tried, disk>>

Ignored(p) ==
  \/ opts.auto = "noearly" /\ cmd[p] = "early"
  \/ opts.auto = "noauto" /\ cmd[p] \in {"early", "udev"}

\* Random keys are refused for LUKS; the same test for TCRYPT looks at a
\* variable that is never set.
check_key == /\ opts.keyfs => keyfs_on
             /\ ~ (opts.type = "luks" /\ opts.random)

\* Ignored, refused, without a source, running already, or to be set up.
crypttab_line(p) ==
  /\ pc[p] = "line"
  /\ \/ Goto(p, "umount_fs")
     \/ /\ ~ Ignored(p) /\ check_key
        /\ unf = NoMapping /\ fin = NoMapping
        /\ Goto(p, "setup")
  /\ UNCHANGED <<opts, keyfs_on, disk>>

\* The test before anything is opened.  PRECHECK has a default for plain
\* devices only; without it do_tcrypt runs the device itself as a command.
Precheck ==
  CASE opts.type = "luks" -> {opts.raw = "luks"}
    [] opts.type # "luks" /\ opts.raw = "swap" -> {TRUE}
    [] opts.type # "luks" /\ opts.raw # "swap" /\ opts.precheck -> BOOLEAN
    [] OTHER -> {opts.type = "plain" /\ opts.raw = "none"}

\* For a plain device tries=0 means no attempt, and no error.
setup(p) ==
  /\ pc[p] = "setup"
  /\ \E passes \in Precheck :
       Goto(p, CASE ~ passes -> "umount_fs"
                 [] passes /\ opts.type = "plain" /\ opts.tries = 0 -> "swap"
                 [] OTHER -> "open")
  /\ UNCHANGED <<opts, keyfs_on, disk>>

\* Variant: one attempt too many.
Retry_once_more(p) ==
  IF opts.tries = 0
  THEN Goto(p, "open")
  ELSE IF tried[p] < opts.tries
  THEN /\ pc' = [pc EXCEPT ![p] = "open"]
       /\ tried' = [tried EXCEPT ![p] = @ + 1]
       /\ UNCHANGED <<cmd, mounted>>
  ELSE Goto(p, "umount_fs")

\* Variant: the attempts are not counted.
Retry_uncounted(p) == Goto(p, "open")

\* Once more, or give up.
Retry(p) ==
  IF opts.tries = 0
  THEN Goto(p, "open")
  ELSE IF tried[p] + 1 < opts.tries
  THEN /\ pc' = [pc EXCEPT ![p] = "open"]
       /\ tried' = [tried EXCEPT ![p] = @ + 1]
       /\ UNCHANGED <<cmd, mounted>>
  ELSE Goto(p, "umount_fs")

\* cryptsetup open: the name is free, nothing else maps the source, the key
\* can be read, and only a plain device takes a wrong one.
Opens(right) ==
  /\ unf = NoMapping /\ fin = NoMapping
  /\ opts.keyfs => keyfs_on
  /\ right \/ opts.type = "plain"

NewMapping(p, right) ==
  [by |-> p, right |-> right, passed |-> FALSE,
   shows |-> IF right THEN stored ELSE "blank"]

\* Variant: the result of cryptsetup is not looked at, as for a plain device.
open_unchecked(p) ==
  /\ pc[p] = "open"
  /\ \E right \in BOOLEAN :
       /\ right => ~ opts.random
       /\ unf' = IF Opens(right) THEN NewMapping(p, right) ELSE unf
       /\ Goto(p, "check")
  /\ UNCHANGED <<opts, keyfs_on, fin, used, stored>>

\* For a plain device the result of cryptsetup is not looked at.
open(p) ==
  /\ pc[p] = "open"
  /\ \E right \in BOOLEAN :
       /\ right => ~ opts.random
       /\ unf' = IF Opens(right) THEN NewMapping(p, right) ELSE unf
       /\ IF Opens(right) \/ opts.type = "plain"
          THEN Goto(p, "check") ELSE Retry(p)
  /\ UNCHANGED <<opts, keyfs_on, fin, used, stored>>

\* Variant: the device is used although its check has failed.
check_ignored(p) ==
  /\ pc[p] = "check"
  /\ unf' = IF unf # NoMapping /\ unf.shows # "blank"
            THEN [unf EXCEPT !.passed = opts.check] ELSE unf
  /\ Goto(p, "swap")
  /\ UNCHANGED <<opts, keyfs_on, fin, used, stored>>

\* The check script finds a filesystem or swap on the device.
check(p) ==
  /\ pc[p] = "check"
  /\ \/ ~ opts.check /\ Goto(p, "swap") /\ UNCHANGED unf
     \/ /\ opts.check
        /\ unf # NoMapping /\ unf.shows # "blank"
        /\ unf' = [unf EXCEPT !.passed = TRUE]
        /\ Goto(p, "swap")
     \/ /\ opts.check
        /\ unf # NoMapping => unf.shows = "blank"
        /\ Goto(p, "close_unf") /\ UNCHANGED unf
  /\ UNCHANGED <<opts, keyfs_on, fin, used, stored>>

\* cryptsetup does not close a device that somebody holds open, and its result is not
\* looked at.  Only a plain device is tried again.
close_unf(p) ==
  /\ pc[p] = "close_unf"
  /\ unf' \in {NoMapping, unf}
  /\ IF opts.type = "plain" THEN Retry(p) ELSE Goto(p, "umount_fs")
  /\ UNCHANGED <<opts, keyfs_on, fin, used, stored>>

\* do_close, which names <dst>, not <dst>_unformatted.
Closed == IF used THEN fin ELSE NoMapping

\* Variant: nothing is looked at before mkswap.
do_swap_blindly(p) ==
  /\ pc[p] = "swap"
  /\ Goto(p, IF opts.swap /\ unf # NoMapping THEN "mkswap" ELSE "tmp")
  /\ UNCHANGED <<opts, keyfs_on, disk>>

\* What holds data is not made swap; its result is not looked at.
do_swap(p) ==
  /\ pc[p] = "swap"
  /\ \/ /\ ~ opts.swap \/ unf = NoMapping
        /\ Goto(p, "tmp") /\ UNCHANGED fin
     \/ /\ opts.swap /\ unf # NoMapping /\ unf.shows \in {"blank", "swap"}
        /\ Goto(p, "mkswap") /\ UNCHANGED fin
     \/ /\ opts.swap /\ unf # NoMapping /\ unf.shows \notin {"blank", "swap"}
        /\ fin' = Closed
        /\ Goto(p, "tmp")
  /\ UNCHANGED <<opts, keyfs_on, unf, used, stored>>

\* A new content, seen through mapping unf.
Make(c) ==
  IF unf = NoMapping THEN UNCHANGED <<unf, stored>>
  ELSE /\ unf' = [unf EXCEPT !.shows = c]
       /\ stored' = IF unf.right THEN c ELSE "blank"

mkswap(p) ==
  /\ pc[p] = "mkswap"
  /\ Make("swap") \/ UNCHANGED <<unf, stored>>
  /\ Goto(p, "tmp")
  /\ UNCHANGED <<opts, keyfs_on, fin, used>>

\* mkfs, a mount, chmod and umount in one: any of them may fail, unnoticed.
do_tmp(p) ==
  /\ pc[p] = "tmp"
  /\ (opts.tmp /\ Make("tmp")) \/ UNCHANGED <<unf, stored>>
  /\ Goto(p, "finalize")
  /\ UNCHANGED <<opts, keyfs_on, fin, used>>

\* dmsetup rename; its result is not looked at.
finalize_device(p) ==
  /\ pc[p] = "finalize"
  /\ IF unf # NoMapping /\ fin = NoMapping
     THEN fin' = unf /\ unf' = NoMapping /\ used' = FALSE
     ELSE UNCHANGED <<fin, unf, used>>
  /\ Goto(p, "umount_fs")
  /\ UNCHANGED <<opts, keyfs_on, stored>>

\* Variant: umount_fs unmounts all of CRYPTDISKS_MOUNT.
umount_fs_all(p) ==
  /\ pc[p] = "umount_fs"
  /\ keyfs_on' = FALSE
  /\ mounted' = [mounted EXCEPT ![p] = FALSE]
  /\ pc' = [pc EXCEPT ![p] = "mount"]
  /\ UNCHANGED <<opts, cmd, tried, disk>>

umount_fs(p) ==
  /\ pc[p] = "umount_fs"
  /\ keyfs_on' = (keyfs_on /\ ~ mounted[p])
  /\ mounted' = [mounted EXCEPT ![p] = FALSE]
  /\ pc' = [pc EXCEPT ![p] = "mount"]
  /\ UNCHANGED <<opts, cmd, tried, disk>>

\* cryptdisks and cryptdisks_start mount what is there.
mount(p) ==
  /\ pc[p] = "mount"
  /\ \/ cmd[p] \in {"udev", "manual"} /\ fin # NoMapping /\ used' = TRUE
     \/ UNCHANGED used
  /\ Exit(p)
  /\ UNCHANGED <<opts, keyfs_on, unf, fin, stored>>

-----------------------------------------------------------------------------
(* handle_crypttab_line_stop.                                              *)

\* What is mounted is unmounted, what is swap is not; a failed umount ends
\* cryptdisks_stop.
stop_umount(p) ==
  /\ pc[p] = "stop"
  /\ \/ (used' = FALSE \/ UNCHANGED used) /\ Goto(p, "stop_line")
     \/ used /\ UNCHANGED used /\ Exit(p)
  /\ UNCHANGED <<opts, keyfs_on, unf, fin, stored>>

\* Absent, busy, or to be closed.  do_stop does not try again when it is busy:
\* no caller has the INITSTATE for that.
stop_line(p) ==
  /\ pc[p] = "stop_line"
  /\ IF fin = NoMapping \/ used THEN Exit(p) ELSE Goto(p, "do_close")
  /\ UNCHANGED <<opts, keyfs_on, disk>>

\* What cannot be closed is tried again in the next round of do_stop, but for
\* a device whose dependencies cannot be read, as it is gone.
do_close(p) ==
  /\ pc[p] = "do_close"
  /\ fin' = Closed
  /\ \/ /\ used \/ fin = NoMapping
        /\ cmd[p] # "manual" /\ tried[p] + 1 < Rounds
        /\ pc' = [pc EXCEPT ![p] = "stop_line"]
        /\ tried' = [tried EXCEPT ![p] = @ + 1]
        /\ UNCHANGED <<cmd, mounted>>
     \/ /\ ~ used \/ cmd[p] = "manual" \/ tried[p] + 1 >= Rounds
        /\ Exit(p)
  /\ UNCHANGED <<opts, keyfs_on, unf, used, stored>>

-----------------------------------------------------------------------------
(* Whoever uses <dst>: the mount of fstab, swapon, a user who stores data. *)

Use ==
  /\ fin # NoMapping /\ ~ used
  /\ used' = TRUE
  /\ \/ UNCHANGED <<fin, stored>>
     \/ fin' = [fin EXCEPT !.shows = "data"]
        /\ stored' = IF fin.right THEN "data" ELSE "blank"
  /\ UNCHANGED <<opts, procs, keyfs_on, unf>>

Release == used /\ used' = FALSE /\ UNCHANGED <<opts, procs, keyfs_on, unf, fin, stored>>

-----------------------------------------------------------------------------

Init ==
  /\ opts \in Crypttab
  /\ pc = [p \in Procs |-> "idle"] /\ cmd = [p \in Procs |-> "none"]
  /\ tried = [p \in Procs |-> 0] /\ mounted = [p \in Procs |-> FALSE]
  /\ keyfs_on = FALSE
  /\ unf = NoMapping /\ fin = NoMapping /\ used = FALSE
  /\ stored \in {"blank", "data"}

Step(p) ==
  \/ mount_fs(p) \/ crypttab_line(p) \/ setup(p) \/ open(p) \/ check(p)
  \/ close_unf(p) \/ do_swap(p) \/ mkswap(p) \/ do_tmp(p)
  \/ finalize_device(p) \/ umount_fs(p) \/ mount(p)
  \/ stop_umount(p) \/ stop_line(p) \/ do_close(p)

Next ==
  \/ \E p \in Procs : start(p) \/ stop(p) \/ Step(p)
  \/ Use \/ Release

Spec == Init /\ [][Next]_vars

\* Every process is run by the scheduler, and every prompt is answered.
FairSpec == Spec /\ \A p \in Procs : WF_vars(Step(p))

-----------------------------------------------------------------------------
(* Properties.                                                             *)

\* From its opening to its renaming a mapping belongs to the process that has
\* opened it, although nothing locks it (L718): the second open of a source
\* fails, and but for plain devices its result is looked at (L317-330).
OpenerOnly ==
  \A p \in Procs : pc[p] \in Owning =>
    \/ unf = NoMapping /\ opts.type = "plain"
    \/ unf # NoMapping /\ unf.by = p

\* The filesystem with the keys stays mounted until the process that has
\* mounted it unmounts it (L465-483).
KeyFsKept == \A p \in Procs : mounted[p] => keyfs_on

\* A start that comes to its end ("started", L646) has published the very
\* mapping it has opened and checked.
StartPublishesOwn ==
  [][\A p \in Procs :
        opts.type # "plain" /\ pc[p] = "finalize" /\ pc'[p] # "finalize"
          => fin' # NoMapping /\ fin'.by = p]_vars

\* Data behind a key is overwritten for entries with tmp only (L486-517).  A
\* plain device with a wrong key does not show its data.
DataKept ==
  [][stored = "data" /\ stored' # "data" => opts.tmp \/ opts.type = "plain"]_vars

\* The state of the abstract specification.
mapping_state ==
  CASE fin # NoMapping -> "published"
    [] fin = NoMapping /\ unf = NoMapping -> "absent"
    [] OTHER -> IF opts.check /\ ~ unf.passed THEN "opened" ELSE "ready"

\* The device never gets its name before its check is passed, and is not taken
\* away while it is used (L335-339, L521, L663-675).
Promise == INSTANCE CryptMapping WITH state <- mapping_state, used <- used
ImplementsPromise == Promise!Spec

\* Every command ends if the tries are limited.
CommandEnds ==
  \A p \in Procs : opts.tries # 0 /\ pc[p] # "idle" ~> pc[p] = "idle"

(* What a message of the code says; the code does otherwise.               *)

\* L497: the check for the device "failed", it "contains data": it is closed and
\* not renamed.
RefusedSwapIsClosed ==
  \A p \in Procs :
    pc[p] = "finalize" /\ opts.swap /\ ~ opts.tmp /\ unf # NoMapping
      => unf.shows # "data"

=============================================================================
