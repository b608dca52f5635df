------------------------------ MODULE RcRunlevel ------------------------------
(***************************************************************************)
(* The rc script that init runs at boot and whenever the runlevel changes: *)
(* it stops the services with a K link in the new runlevel, starts those   *)
(* with an S link, and leaves alone what the previous runlevel has started *)
(* and the new one does not stop.  Links are those of /etc/rc?.d; a        *)
(* service's links have the same number everywhere.  The progress bar is   *)
(* the one of psplash.                                                     *)
(*                                                                         *)
(* rc looks at no script's exit status and at no service: whether a start  *)
(* script succeeds and how long its service lives is not its business, and *)
(* not in the model, which keeps what each service was told last.          *)
(***************************************************************************)
EXTENDS Integers, FiniteSets

CONSTANTS
  Services,        \* names behind the numbers of the links
  Number,          \* Number[s]: the two digits of the links of s
  Multiuser,       \* runlevels but for S, 0 and 6
  DisplayManagers, \* gdm, xdm and the like, reboot and halt
  Interruptible    \* telinit may come while rc still runs

Levels == {"S", "6"} \cup Multiuser      \* 0 is handled as 6

ASSUME RcAssumption ==
  /\ IsFiniteSet(Services)
  /\ Number \in [Services -> Nat]
  /\ \A s, t \in Services : Number[s] = Number[t] => s = t
  /\ DisplayManagers \subseteq Services
  /\ {"S", "6", "N"} \cap Multiuser = {}
  /\ Interruptible \in BOOLEAN

VARIABLES
  start,     \* start[r]: services with an S link in /etc/rc<r>.d
  kill,      \* kill[r]: services with a K link there
  pc,        \* "off", "kill", "start" or "idle"
  runlevel,
  previous,
  todo,      \* links the loop has left
  step,      \* steps counted for the progress bar
  called     \* called[s]: argument of the last script of s that was run

links == <<start, kill>>
vars  == <<links, pc, runlevel, previous, todo, step, called>>

TypeOK ==
  /\ start \in [Levels -> SUBSET Services]
  /\ kill \in [Levels -> SUBSET Services]
  /\ pc \in {"off", "kill", "start", "idle"}
  /\ runlevel \in Levels /\ previous \in Multiuser \cup {"N", "S"}
  /\ todo \subseteq Services /\ called \in [Services -> {"none", "start", "stop"}]
  /\ step \in 0..(2 * Cardinality(Services))

-----------------------------------------------------------------------------
(* The loops of rc.                                                        *)

\* rc is started for runlevel r, coming from p.  Without a previous runlevel
\* there is nothing to kill.
Rc(r, p) ==
  /\ runlevel' = r /\ previous' = p /\ step' = 0
  /\ IF p = "N" THEN pc' = "start" /\ todo' = start[r]
                ELSE pc' = "kill" /\ todo' = kill[r]

\* The glob gives the links in the order of their numbers.
First(s) == s \in todo /\ \A t \in todo : Number[s] <= Number[t]

\* startup runs the script of s with argument arg, whatever comes of it, and
\* counts a step.
startup(s, arg) == called' = [called EXCEPT ![s] = arg] /\ step' = step + 1

kill_script == \E s \in todo :
  /\ pc = "kill" /\ First(s)
  /\ startup(s, "stop")
  /\ todo' = todo \ {s}
  /\ UNCHANGED <<links, pc, runlevel, previous>>

kill_done ==
  /\ pc = "kill" /\ todo = {}
  /\ pc' = "start" /\ todo' = start[runlevel]
  /\ UNCHANGED <<links, runlevel, previous, step, called>>

\* Variant: the links of the new runlevel are taken for those of the old.
Skips_new_level(s) == previous \notin {"N", "S"} /\ s \in start[runlevel] /\ s \notin kill[runlevel]

\* Variant: a K link does not matter.
Skips_killed(s) == previous \notin {"N", "S"} /\ s \in start[previous]

\* Started in the previous runlevel, not stopped in this one.
Skips(s) ==
  previous \notin {"N", "S"} /\ s \in start[previous] /\ s \notin kill[runlevel]

\* Variant: skipped links count, too, once they are done and once they are seen.
start_script_counted_twice == \E s \in todo :
  /\ pc = "start" /\ First(s)
  /\ IF Skips(s) THEN UNCHANGED called
     ELSE called' = [called EXCEPT ![s] = IF runlevel = "6" THEN "stop" ELSE "start"]
  /\ step' = step + 2
  /\ todo' = todo \ {s}
  /\ UNCHANGED <<links, pc, runlevel, previous>>

\* Variant: S links are started in runlevel 6 as well.
start_script_at_halt == \E s \in todo :
  /\ pc = "start" /\ First(s)
  /\ IF Skips(s) THEN UNCHANGED <<called, step>> ELSE startup(s, "start")
  /\ todo' = todo \ {s}
  /\ UNCHANGED <<links, pc, runlevel, previous>>

\* In runlevels 0 and 6 an S link is run to stop.
start_script == \E s \in todo :
  /\ pc = "start" /\ First(s)
  /\ IF Skips(s) THEN UNCHANGED <<called, step>>
     ELSE startup(s, IF runlevel = "6" THEN "stop" ELSE "start")
  /\ todo' = todo \ {s}
  /\ UNCHANGED <<links, pc, runlevel, previous>>

start_done ==
  /\ pc = "start" /\ todo = {}
  /\ pc' = "idle"
  /\ UNCHANGED <<links, runlevel, previous, todo, step, called>>

-----------------------------------------------------------------------------
(* init, which calls rc.                                                   *)

boot ==
  /\ pc = "off"
  /\ Rc("S", "N")
  /\ UNCHANGED <<links, called>>

\* The first runlevel after the boot has no previous one.
initdefault == \E r \in Multiuser :
  /\ pc = "idle" /\ runlevel = "S" /\ previous = "N"
  /\ Rc(r, "N")
  /\ UNCHANGED <<links, called>>

\* A rc that still runs is killed.
telinit == \E r \in (Multiuser \cup {"6"}) \ {runlevel} :
  /\ pc = "idle" \/ (Interruptible /\ pc # "off")
  /\ runlevel \in Multiuser
  /\ Rc(r, runlevel)
  /\ UNCHANGED <<links, called>>

\* telinit S: init starts a shell, and no rc.
single_user ==
  /\ pc = "idle" \/ (Interruptible /\ pc # "off")
  /\ runlevel \in Multiuser
  /\ pc' = "idle" /\ runlevel' = "S" /\ previous' = runlevel
  /\ todo' = {} /\ step' = 0
  /\ UNCHANGED <<links, called>>

\* From there, or from a boot that ended there, on to a runlevel.
leave_single_user == \E r \in Multiuser \cup {"6"} :
  /\ pc = "idle" /\ runlevel = "S"
  /\ Rc(r, "S")
  /\ UNCHANGED <<links, called>>

NoneCalled == [s \in Services |-> "none"]

power_off ==
  /\ pc = "idle" /\ runlevel = "6"
  /\ pc' = "off" /\ runlevel' = "S" /\ previous' = "N"
  /\ step' = 0 /\ called' = NoneCalled
  /\ UNCHANGED <<links, todo>>

Init ==
  /\ start \in [Levels -> SUBSET Services]
  /\ kill \in [Levels -> SUBSET Services]
  /\ pc = "off" /\ runlevel = "S" /\ previous = "N"
  /\ todo = {} /\ step = 0 /\ called = NoneCalled

rc == kill_script \/ kill_done \/ start_script \/ start_done

Next ==
  \/ rc \/ boot \/ initdefault \/ telinit
  \/ single_user \/ leave_single_user \/ power_off

Spec == Init /\ [][Next]_vars

-----------------------------------------------------------------------------
(* The progress bar.                                                       *)

third == 100 \div 3

first_step ==
  CASE runlevel = "6" -> -100
    [] runlevel = "S" -> 0
    [] OTHER          -> third * 2

progress_size ==
  CASE runlevel = "6" -> 100
    [] runlevel = "S" -> third * 2
    [] OTHER          -> third

\* The links the loop counts before it breaks at a display manager.  In an empty
\* directory that is the pattern of the glob.
num_steps ==
  IF kill[runlevel] \cup start[runlevel] = {} THEN 1 ELSE
  Cardinality(kill[runlevel]) +
  Cardinality({s \in start[runlevel] :
    \A t \in start[runlevel] : Number[t] <= Number[s] => t \notin DisplayManagers})

\* What startup_progress writes.
progress ==
  IF num_steps # 0
  THEN ((step * progress_size) \div num_steps) + first_step
  ELSE progress_size

-----------------------------------------------------------------------------
(* Properties.                                                             *)

\* rc:6-10: "A startup script is _not_ run when the service was running in the
\* previous runlevel and it wasn't stopped in the runlevel transition": the last
\* script run for a service that is passed over is its start, however many
\* runlevels ago.  That this start has succeeded rc cannot know (L56, L164).
SkippedWasStarted ==
  \A s \in todo :
    pc = "start" /\ First(s) /\ Skips(s) /\ runlevel # "6" => called[s] = "start"

\* After any sequence of runlevels, also through single user, what the current one
\* starts was told so, and nothing else since (L145-174): no service falls between
\* skipping and killing.
LevelReached ==
  pc = "idle" /\ runlevel \in Multiuser => \A s \in start[runlevel] : called[s] = "start"

\* What the current runlevel stops and does not start was told to stop last, in 0
\* and 6 also what has an S link there that is not skipped (L132-143, L166-169).
StoppedWasStopped ==
  pc = "idle" /\ previous # "N" /\ runlevel # "S" =>
    \A s \in IF runlevel = "6" THEN kill["6"] \cup {t \in start["6"] : ~ Skips(t)}
                              ELSE kill[runlevel] \ start[runlevel] :
      called[s] = "stop"

\* The loop of the S links has come past a display manager, or past reboot.
PastManager ==
  pc \in {"start", "idle"} /\ \E s \in start[runlevel] \cap DisplayManagers : s \notin todo

\* The bar stays in the part that is the runlevel's (L99-119): L101 "Count down
\* from -100 to 0", L114 "Begin where rcS left off and use the final 1/3 of the
\* space", up to the first display manager, or reboot or halt: the scripts from
\* there on are not counted (L122-129) and move it past its end.
ProgressInRange ==
  step > 0 /\ ~ PastManager => progress \in first_step..(first_step + progress_size)

=============================================================================
