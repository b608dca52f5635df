---------------------------- MODULE CryptMapping ----------------------------
(***************************************************************************)
(* What the scripts of cryptdisks promise of one encrypted device: it gets *)
(* its name only after its check, and it is taken away only while nobody   *)
(* uses it.                                                                *)
(***************************************************************************)
VARIABLES
  state,   \* "absent", "opened", "ready" or "published"
  used     \* somebody has the published device open

vars == <<state, used>>

Init == state = "absent" /\ used = FALSE

\* Opened, ready at once when the entry asks for no check.
Open(checked) ==
  /\ state = "absent"
  /\ state' = IF checked THEN "opened" ELSE "ready"
  /\ UNCHANGED used

PassCheck == state = "opened" /\ state' = "ready" /\ UNCHANGED used

FailCheck == state = "opened" /\ state' = "absent" /\ UNCHANGED used

Publish == state = "ready" /\ state' = "published" /\ UNCHANGED used

Use == state = "published" /\ ~ used /\ used' = TRUE /\ UNCHANGED state

Release == used /\ used' = FALSE /\ UNCHANGED state

Remove == state = "published" /\ ~ used /\ state' = "absent" /\ UNCHANGED used

Next ==
  \/ \E checked \in BOOLEAN : Open(checked)
  \/ PassCheck \/ FailCheck \/ Publish \/ Use \/ Release \/ Remove

Spec == Init /\ [][Next]_vars

=============================================================================
