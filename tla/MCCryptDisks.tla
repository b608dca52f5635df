---------------------------- MODULE MCCryptDisks ----------------------------
(* Entries of each type with the options that meet each other.             *)
EXTENDS CryptDisks

CONSTANTS p1, p2

MCEntry(t, r) == [type |-> t, raw |-> r, precheck |-> FALSE, check |-> FALSE,
                  swap |-> FALSE, tmp |-> FALSE, tries |-> 2, auto |-> "yes",
                  keyfs |-> FALSE, random |-> FALSE]

MCLuks   == MCEntry("luks", "luks")
MCTcrypt == MCEntry("tcrypt", "none")
MCPlain  == MCEntry("plain", "none")

\* The options with the result of each other's steps.
MCMade(e) == {[e EXCEPT !.check = c, !.swap = s, !.tmp = t] : c, s, t \in BOOLEAN}

\* Options read once.
MCRead(e) ==
  {[e EXCEPT !.auto = a, !.keyfs = k] : a \in {"noearly", "noauto"}, k \in BOOLEAN}
  \cup {[e EXCEPT !.random = TRUE], [e EXCEPT !.tries = 0], [e EXCEPT !.raw = "fs"]}

MCCrypttab ==
  MCMade(MCLuks) \cup MCRead(MCLuks)
  \cup {[MCTcrypt EXCEPT !.precheck = TRUE, !.check = TRUE], MCTcrypt}
  \cup MCMade(MCPlain) \cup MCRead(MCPlain)
  \cup {[MCPlain EXCEPT !.raw = "swap", !.swap = TRUE],
        [MCPlain EXCEPT !.raw = "fs", !.precheck = TRUE]}

MCSwapTab == {[MCLuks EXCEPT !.swap = TRUE]}
=============================================================================
