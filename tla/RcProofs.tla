------------------------------ MODULE RcProofs ------------------------------
(***************************************************************************)
(* The optimisation of rc is right for any services, runlevels and links,  *)
(* as long as a runlevel change is not interrupted by the next one.  That  *)
(* services are told to stop and that the progress bar stays in its range  *)
(* needs no such assumption.                                               *)
(***************************************************************************)
EXTENDS RcRunlevel, FiniteSetTheorems, TLAPS

\* What the loops keep: kept services, those the previous runlevel started and
\* this one does not kill, were told to start throughout; and so was the part of
\* the S links that is behind the loop.
Kept == start[previous] \ kill[runlevel]

RcInv ==
  /\ start \in [Levels -> SUBSET Services]
  /\ kill \in [Levels -> SUBSET Services]
  /\ called \in [Services -> {"none", "start", "stop"}]
  /\ runlevel \in Levels /\ previous \in Multiuser \cup {"N", "S"}
  /\ todo \subseteq Services
  /\ pc = "idle" /\ runlevel \in Multiuser => \A s \in start[runlevel] : called[s] = "start"
  /\ pc = "kill" => todo \subseteq kill[runlevel]
  /\ pc \in {"kill", "start"} /\ previous \notin {"N", "S"} /\ runlevel # "6" =>
       \A s \in Kept : called[s] = "start"
  /\ pc = "start" /\ runlevel # "6" =>
       \A s \in start[runlevel] \ todo : called[s] = "start"

LEMMA RcStep ==
  ASSUME ~ Interruptible, RcInv, [Next]_vars
  PROVE  RcInv'
<1> USE RcAssumption DEF RcInv, Kept, Levels, links
<1>1. CASE kill_script
  <2>1. PICK s \in todo :
           /\ pc = "kill" /\ called' = [called EXCEPT ![s] = "stop"]
           /\ todo' = todo \ {s}
           /\ UNCHANGED <<links, pc, runlevel, previous>>
    BY <1>1 DEF kill_script, startup
  <2>2. called' \in [Services -> {"none", "start", "stop"}]
    BY <2>1
  <2>3. \A t \in Kept : t # s /\ called'[t] = called[t]
    BY <2>1
  <2> QED  BY <2>1, <2>2, <2>3
<1>2. CASE kill_done
  BY <1>2 DEF kill_done
<1>3. CASE start_script
  <2>1. PICK s \in todo :
           /\ pc = "start" /\ todo' = todo \ {s}
           /\ Skips(s) => called' = called
           /\ ~ Skips(s) => called' = [called EXCEPT ![s] = IF runlevel = "6" THEN "stop" ELSE "start"]
           /\ UNCHANGED <<links, pc, runlevel, previous>>
    BY <1>3 DEF start_script, startup
  <2>2. called' \in [Services -> {"none", "start", "stop"}]
    BY <2>1
  <2>3. runlevel # "6" =>
          /\ called'[s] = "start"
          /\ \A t \in Services : called[t] = "start" => called'[t] = "start"
    BY <2>1 DEF Skips
  <2> QED
    BY <2>1, <2>2, <2>3
<1>4. CASE start_done
  BY <1>4 DEF start_done
<1>5. CASE boot
  BY <1>5 DEF boot, Rc
<1>6. CASE initdefault
  BY <1>6 DEF initdefault, Rc
<1>7. CASE telinit
  <2>1. PICK r \in (Multiuser \cup {"6"}) \ {runlevel} :
           /\ pc = "idle" /\ runlevel \in Multiuser /\ Rc(r, runlevel)
           /\ UNCHANGED <<links, called>>
    BY <1>7 DEF telinit
  <2>2. /\ runlevel' = r /\ previous' = runlevel
        /\ pc' = "kill" /\ todo' = kill[r]
    BY <2>1 DEF Rc
  <2> QED
    BY <2>1, <2>2
<1>8. CASE single_user
  BY <1>8 DEF single_user
<1>9. CASE leave_single_user
  BY <1>9 DEF leave_single_user, Rc
<1>10. CASE power_off
  BY <1>10 DEF power_off, NoneCalled
<1>11. CASE UNCHANGED vars
  BY <1>11 DEF vars
<1> QED
  BY <1>1, <1>2, <1>3, <1>4, <1>5, <1>6, <1>7, <1>8, <1>9, <1>10, <1>11 DEF Next, rc

LEMMA RcAlways == ASSUME ~ Interruptible PROVE Spec => []RcInv
<1>1. Init => RcInv
  BY RcAssumption DEF Init, RcInv, Kept, Levels, NoneCalled
<1> QED
  BY <1>1, RcStep, PTL DEF Spec

\* rc:6-10: the last script run for a service that is skipped was its start.
THEOREM SkipsOnlyStarted ==
  ASSUME ~ Interruptible
  PROVE  Spec => []SkippedWasStarted
<1>1. RcInv => SkippedWasStarted
  BY DEF RcInv, Kept, SkippedWasStarted, Skips
<1> QED
  BY <1>1, RcAlways, PTL

\* Whatever the runlevels before, through single user or not, what the current one
\* starts was told to start last (rc:145-174).
THEOREM LevelAlwaysReached ==
  ASSUME ~ Interruptible
  PROVE  Spec => []LevelReached
<1>1. RcInv => LevelReached
  BY DEF RcInv, LevelReached
<1> QED
  BY <1>1, RcAlways, PTL

-----------------------------------------------------------------------------
(* Steps of the progress bar, and types.                                   *)

\* No step is counted for a link that is still to come, and the S links behind the
\* loop are those with the smallest numbers.
StepInv ==
  /\ start \in [Levels -> SUBSET Services]
  /\ kill \in [Levels -> SUBSET Services]
  /\ called \in [Services -> {"none", "start", "stop"}]
  /\ pc \in {"off", "kill", "start", "idle"}
  /\ runlevel \in Levels /\ previous \in Multiuser \cup {"N", "S"}
  /\ todo \subseteq Services
  /\ step \in Nat
  /\ pc = "off" => step = 0
  /\ pc = "kill" =>
       todo \subseteq kill[runlevel] /\ step + Cardinality(todo) <= Cardinality(kill[runlevel])
  /\ pc = "idle" => todo = {}
  /\ pc \in {"start", "idle"} =>
       /\ todo \subseteq start[runlevel]
       /\ \A s \in start[runlevel] \ todo, t \in todo : Number[s] <= Number[t]
       /\ step <= Cardinality(kill[runlevel]) + Cardinality(start[runlevel] \ todo)

LEMMA Cards ==
  /\ \A T \in SUBSET Services :
       Cardinality(T) \in Nat /\ Cardinality(T) <= Cardinality(Services)
  /\ \A T \in SUBSET Services : \A s \in T : Cardinality(T \ {s}) = Cardinality(T) - 1
  /\ \A T \in SUBSET Services : \A R \in SUBSET T : Cardinality(R) <= Cardinality(T)
  /\ Cardinality({}) = 0
<1>1. ASSUME NEW T \in SUBSET Services
      PROVE  /\ IsFiniteSet(T)
             /\ Cardinality(T) \in Nat /\ Cardinality(T) <= Cardinality(Services)
  BY RcAssumption, FS_Subset, FS_CardinalityType
<1>2. ASSUME NEW T \in SUBSET Services, NEW s \in T
      PROVE  Cardinality(T \ {s}) = Cardinality(T) - 1
  BY <1>1, FS_RemoveElement
<1>3. ASSUME NEW T \in SUBSET Services, NEW R \in SUBSET T
      PROVE  Cardinality(R) <= Cardinality(T)
  BY <1>1, FS_Subset
<1> QED  BY <1>1, <1>2, <1>3, FS_EmptySet

LEMMA StepNext == StepInv /\ [Next]_vars => StepInv'
<1> SUFFICES ASSUME StepInv, [Next]_vars PROVE StepInv'
  OBVIOUS
<1> USE RcAssumption, Cards DEF StepInv, Levels, links
<1>a. ASSUME NEW r \in Levels
      PROVE  /\ start[r] \in SUBSET Services /\ kill[r] \in SUBSET Services
             /\ start[r] \ start[r] = {}
             /\ Cardinality(start[r]) \in Nat /\ Cardinality(kill[r]) \in Nat
  BY <1>a
<1>1. CASE kill_script
  <2>1. PICK s \in todo :
           /\ pc = "kill" /\ called' = [called EXCEPT ![s] = "stop"]
           /\ todo' = todo \ {s} /\ step' = step + 1
           /\ UNCHANGED <<links, pc, runlevel, previous>>
    BY <1>1 DEF kill_script, startup
  <2>2. /\ Cardinality(todo) \in Nat /\ Cardinality(todo \ {s}) = Cardinality(todo) - 1
        /\ Cardinality(kill[runlevel]) \in Nat
    BY <1>a
  <2>3. step' + Cardinality(todo') <= Cardinality(kill[runlevel])
    BY <2>1, <2>2
  <2> QED  BY <2>1, <2>3
<1>2. CASE kill_done
  <2>1. /\ pc = "kill" /\ todo = {} /\ pc' = "start" /\ todo' = start[runlevel]
        /\ UNCHANGED <<links, runlevel, previous, step, called>>
    BY <1>2 DEF kill_done
  <2>2. step <= Cardinality(kill[runlevel]) /\ start[runlevel] \ todo' = {}
    BY <2>1, <1>a
  <2> QED  BY <2>1, <2>2, <1>a
<1>3. CASE start_script
  <2>1. PICK s \in todo :
           /\ pc = "start" /\ First(s)
           /\ called' \in [Services -> {"none", "start", "stop"}]
           /\ todo' = todo \ {s} /\ step' \in {step, step + 1}
           /\ UNCHANGED <<links, pc, runlevel, previous>>
    BY <1>3 DEF start_script, startup
  <2> DEFINE S == start[runlevel]
             Done == S \ todo'
  <2>2. S \in SUBSET Services /\ Done \in SUBSET S /\ s \in Done /\ Done \ {s} = S \ todo
    BY <2>1, <1>a
  <2>3. Cardinality(S \ todo) = Cardinality(Done) - 1
    BY <2>2
  <2>4. Cardinality(Done) \in Nat /\ Cardinality(kill[runlevel]) \in Nat
    BY <2>2, <1>a
  <2>5. step' <= Cardinality(kill[runlevel]) + Cardinality(Done)
    BY <2>1, <2>3, <2>4
  <2>6. ASSUME NEW d \in Done, NEW t \in todo' PROVE Number[d] <= Number[t]
    BY <2>1, <2>2, <2>6 DEF First
  <2> HIDE DEF Done
  <2>7. Done = start'[runlevel'] \ todo'
    BY <2>1 DEF Done
  <2> QED  BY <2>1, <2>5, <2>6, <2>7
<1>4. CASE start_done
  BY <1>4 DEF start_done
<1>5. ASSUME NEW r \in Levels, NEW p \in Multiuser \cup {"N", "S"}, Rc(r, p),
             UNCHANGED <<links, called>>
      PROVE  StepInv'
  <2>1. step' = 0 /\ runlevel' = r /\ previous' = p
        /\ \/ pc' = "start" /\ todo' = start[r]
           \/ pc' = "kill" /\ todo' = kill[r]
    BY <1>5 DEF Rc
  <2>2. start[r] \ start[r] = {} /\ 0 <= Cardinality(kill[r]) + Cardinality({})
        /\ 0 + Cardinality(kill[r]) <= Cardinality(kill[r])
    BY <1>a
  <2> QED  BY <2>1, <2>2, <1>5, <1>a
<1>6. CASE boot
  BY <1>6, <1>5 DEF boot
<1>7. CASE initdefault
  BY <1>7, <1>5 DEF initdefault
<1>8. CASE telinit
  BY <1>8, <1>5 DEF telinit
<1>9. CASE single_user
  <2>1. /\ pc' = "idle" /\ runlevel' = "S" /\ previous' = runlevel /\ runlevel \in Multiuser
        /\ todo' = {} /\ step' = 0 /\ UNCHANGED <<links, called>>
    BY <1>9 DEF single_user
  <2>2. Cardinality(kill["S"]) \in Nat /\ Cardinality(start["S"] \ {}) \in Nat
    BY <1>a
  <2> QED  BY <2>1, <2>2
<1>10. CASE leave_single_user
  BY <1>10, <1>5 DEF leave_single_user
<1>11. CASE power_off
  BY <1>11 DEF power_off, NoneCalled
<1>12. CASE UNCHANGED vars
  BY <1>12 DEF vars
<1> QED
  BY <1>1, <1>2, <1>3, <1>4, <1>6, <1>7, <1>8, <1>9, <1>10, <1>11, <1>12 DEF Next, rc

LEMMA StepAlways == Spec => []StepInv
<1>1. Init => StepInv
  BY DEF Init, StepInv, Levels, NoneCalled
<1> QED  BY <1>1, StepNext, PTL DEF Spec

LEMMA StepBound ==
  ASSUME StepInv
  PROVE  step <= Cardinality(kill[runlevel]) + Cardinality(start[runlevel])
<1>1. /\ start[runlevel] \in SUBSET Services /\ kill[runlevel] \in SUBSET Services
      /\ start[runlevel] \ todo \in SUBSET start[runlevel]
  BY DEF StepInv
<1>2. /\ Cardinality(start[runlevel] \ todo) <= Cardinality(start[runlevel])
      /\ Cardinality(start[runlevel] \ todo) \in Nat /\ Cardinality(todo) \in Nat
      /\ Cardinality(start[runlevel]) \in Nat /\ Cardinality(kill[runlevel]) \in Nat
  BY <1>1, Cards DEF StepInv
<1> QED  BY <1>2 DEF StepInv

\* Types, and that no change counts more steps than there are links, interrupted or
\* not (rc:121-175).
THEOREM RcTyped == Spec => []TypeOK
<1>1. StepInv => TypeOK
  <2> SUFFICES ASSUME StepInv PROVE TypeOK
    OBVIOUS
  <2>1. start[runlevel] \in SUBSET Services /\ kill[runlevel] \in SUBSET Services
    BY DEF StepInv
  <2>2. step \in 0..(2 * Cardinality(Services))
    BY <2>1, StepBound, Cards DEF StepInv
  <2> QED  BY <2>2 DEF StepInv, TypeOK
<1> QED  BY <1>1, StepAlways, PTL

\* The shell's division keeps a share of c within c.
LEMMA Share ==
  ASSUME NEW n \in Nat \ {0}, NEW k \in 0..n, NEW c \in Nat
  PROVE  (k * c) \div n \in 0..c
<1>1. k * c \in 0..(n * c)  OBVIOUS
<1> DEFINE a == k * c
           q == a \div n
<1>2. q \in Int /\ n * q <= a /\ a < n * q + n  OBVIOUS
<1>3. q >= 0  OBVIOUS
<1>4. q <= c
  <2> HIDE DEF q, a
  <2>1. SUFFICES ASSUME q >= c + 1 PROVE FALSE
    BY <1>2
  <2>2. n * (c + 1) <= n * q  BY <2>1, <1>2
  <2> QED  BY <2>2, <1>1, <1>2 DEF a
<1> QED  BY <1>2, <1>3, <1>4

\* The links counted for the bar (rc:121-129).
Counted ==
  {s \in start[runlevel] :
     \A t \in start[runlevel] : Number[t] <= Number[s] => t \notin DisplayManagers}

\* As long as the loop has not come to a display manager, each S link behind it is
\* one that was counted: the order of the glob is the same both times.
LEMMA StepsCounted ==
  ASSUME StepInv, ~ PastManager, step > 0
  PROVE  num_steps \in Nat \ {0} /\ step \in 0..num_steps
<1> DEFINE S == start[runlevel]
           K == kill[runlevel]
<1>1. S \in SUBSET Services /\ K \in SUBSET Services /\ Counted \in SUBSET Services
  BY DEF StepInv, Counted
<1>2. Cardinality(K) \in Nat /\ Cardinality(Counted) \in Nat
  BY <1>1, Cards
<1>3. step <= Cardinality(K) + Cardinality(Counted)
  <2>1. CASE pc = "kill"
    <3>1. Cardinality(todo) \in Nat
      BY Cards DEF StepInv
    <3> QED  BY <2>1, <3>1, <1>2 DEF StepInv
  <2>2. CASE pc \in {"start", "idle"}
    <3>1. ASSUME NEW s \in S \ todo PROVE s \in Counted
      <4>1. ASSUME NEW t \in S, Number[t] <= Number[s] PROVE t \notin DisplayManagers
        <5>1. s \in Services /\ t \in Services /\ Number[s] \in Nat /\ Number[t] \in Nat
          BY <1>1, RcAssumption
        <5>2. t \in todo => Number[s] <= Number[t]
          BY <2>2 DEF StepInv
        <5>3. t \in todo => s = t
          BY <5>1, <5>2, <4>1, RcAssumption
        <5>4. t \notin todo
          BY <5>3
        <5> QED  BY <5>4, <2>2 DEF PastManager
      <4> QED  BY <4>1 DEF Counted
    <3>2. Cardinality(S \ todo) <= Cardinality(Counted) /\ Cardinality(S \ todo) \in Nat
      BY <3>1, <1>1, Cards
    <3>3. step <= Cardinality(K) + Cardinality(S \ todo) /\ step \in Nat
      BY <2>2 DEF StepInv
    <3> QED  BY <3>2, <3>3, <1>2
  <2>3. pc # "off"
    BY DEF StepInv
  <2> QED  BY <2>1, <2>2, <2>3 DEF StepInv
<1>4. K \cup S # {}
  <2> SUFFICES ASSUME K \cup S = {} PROVE FALSE
    OBVIOUS
  <2>1. K = {} /\ Counted = {}
    BY DEF Counted
  <2>2. step <= 0
    BY <2>1, <1>3, Cards
  <2> QED  BY <2>2 DEF StepInv
<1>5. num_steps = Cardinality(K) + Cardinality(Counted)
  BY <1>4 DEF num_steps, Counted
<1> QED  BY <1>2, <1>3, <1>5 DEF StepInv

\* The progress bar stays in its runlevel's part up to the first display manager,
\* reboot or halt, wherever among the links it is (rc:99-129).
THEOREM BarStaysInRange == Spec => []ProgressInRange
<1>1. StepInv => ProgressInRange
  <2> SUFFICES ASSUME StepInv, step > 0, ~ PastManager
               PROVE  progress \in first_step..(first_step + progress_size)
    BY DEF ProgressInRange
  <2>1. num_steps \in Nat \ {0} /\ step \in 0..num_steps
    BY StepsCounted
  <2>2. progress_size \in Nat /\ first_step \in Int
    BY DEF progress_size, first_step, third
  <2>3. (step * progress_size) \div num_steps \in 0..progress_size
    BY <2>1, <2>2, Share
  <2>4. progress = ((step * progress_size) \div num_steps) + first_step
    BY <2>1 DEF progress
  <2> QED  BY <2>2, <2>3, <2>4
<1> QED  BY <1>1, StepAlways, PTL

-----------------------------------------------------------------------------
(* What is stopped was told to stop.                                       *)

\* How far the loops have come with what they stop.
DownInv ==
  /\ start \in [Levels -> SUBSET Services]
  /\ kill \in [Levels -> SUBSET Services]
  /\ called \in [Services -> {"none", "start", "stop"}]
  /\ runlevel \in Levels /\ previous \in Multiuser \cup {"N", "S"}
  /\ todo \subseteq Services
  /\ pc = "kill" => previous # "N" /\ \A s \in kill[runlevel] \ todo : called[s] = "stop"
  /\ pc = "start" /\ previous # "N" /\ runlevel # "6" =>
       /\ todo \subseteq start[runlevel]
       /\ \A s \in kill[runlevel] \ start[runlevel] : called[s] = "stop"
  /\ pc = "start" /\ previous # "N" /\ runlevel = "6" =>
       /\ \A s \in kill["6"] : called[s] = "stop"
       /\ \A s \in start["6"] \ todo : ~ Skips(s) => called[s] = "stop"
  /\ StoppedWasStopped

LEMMA DownNext == DownInv /\ [Next]_vars => DownInv'
<1> SUFFICES ASSUME DownInv, [Next]_vars PROVE DownInv'
  OBVIOUS
<1> USE RcAssumption DEF DownInv, StoppedWasStopped, Skips, Levels, links
<1>1. CASE kill_script
  <2>1. PICK s \in todo :
           /\ pc = "kill" /\ called' = [called EXCEPT ![s] = "stop"]
           /\ todo' = todo \ {s}
           /\ UNCHANGED <<links, pc, runlevel, previous>>
    BY <1>1 DEF kill_script, startup
  <2>2. /\ called' \in [Services -> {"none", "start", "stop"}]
        /\ called'[s] = "stop"
        /\ \A t \in Services : called[t] = "stop" => called'[t] = "stop"
    BY <2>1
  <2> QED  BY <2>1, <2>2
<1>2. CASE kill_done
  BY <1>2 DEF kill_done
<1>3. CASE start_script
  <2>1. PICK s \in todo :
           /\ pc = "start" /\ todo' = todo \ {s}
           /\ Skips(s) => called' = called
           /\ ~ Skips(s) => called' = [called EXCEPT ![s] = IF runlevel = "6" THEN "stop" ELSE "start"]
           /\ UNCHANGED <<links, pc, runlevel, previous>>
    BY <1>3 DEF start_script, startup
  <2>2. /\ called' \in [Services -> {"none", "start", "stop"}]
        /\ \A t \in Services \ {s} : called'[t] = called[t]
    BY <2>1
  <2>3. CASE runlevel = "6"
    <3>1. \A t \in Services : called[t] = "stop" => called'[t] = "stop"
      BY <2>1, <2>3
    <3>2. ~ Skips(s) => called'[s] = "stop"
      BY <2>1, <2>3
    <3> QED  BY <2>1, <2>2, <2>3, <3>1, <3>2
  <2>4. CASE runlevel # "6"
    BY <2>1, <2>2, <2>4
  <2> QED  BY <2>3, <2>4
<1>4. CASE start_done
  BY <1>4 DEF start_done
<1>5. CASE boot
  BY <1>5 DEF boot, Rc
<1>6. CASE initdefault
  BY <1>6 DEF initdefault, Rc
<1>7. CASE telinit
  BY <1>7 DEF telinit, Rc
<1>8. CASE single_user
  BY <1>8 DEF single_user
<1>9. CASE leave_single_user
  BY <1>9 DEF leave_single_user, Rc
<1>10. CASE power_off
  BY <1>10 DEF power_off, NoneCalled
<1>11. CASE UNCHANGED vars
  BY <1>11 DEF vars
<1> QED
  BY <1>1, <1>2, <1>3, <1>4, <1>5, <1>6, <1>7, <1>8, <1>9, <1>10, <1>11 DEF Next, rc

\* What a runlevel stops was told to stop last when its rc ends, whatever was
\* interrupted before (rc:132-174).
THEOREM StoppedAlwaysStopped == Spec => []StoppedWasStopped
<1>1. Init => DownInv
  BY RcAssumption DEF Init, DownInv, StoppedWasStopped, Levels, NoneCalled
<1>2. DownInv => StoppedWasStopped
  BY DEF DownInv
<1> QED  BY <1>1, <1>2, DownNext, PTL DEF Spec

=============================================================================
