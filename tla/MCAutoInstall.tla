----------------------------- MODULE MCAutoInstall -----------------------------
(***************************************************************************)
(* One to three disks, of sizes around the limits, and memory of which     *)
(* twice is less and more than a disk.  Anything is on the first disk; the *)
(* others are blank or, of two, have a mirror of before, shown or hidden.  *)
(***************************************************************************)
EXTENDS AutoInstall

MCDisks == {"sda", "sdb", "sdc"}

Blank == [parts |-> {}, super |-> {}, label |-> "none"]
Mirror == [parts |-> Places, super |-> Places, label |-> "vg"]
HiddenMirror == [Mirror EXCEPT !.parts = {}]

On(a, b) == [d \in MCDisks |-> IF d = "sda" THEN a ELSE IF d = "sdb" THEN b ELSE Blank]

MCMachines ==
  {[basedevs |-> <<"sda">>, old |-> On(a, Blank)] : a \in Leftover}
  \cup {[basedevs |-> <<"sda", "sdb">>, old |-> On(a, b)] :
           a \in Leftover, b \in {Blank, Mirror, HiddenMirror}}
  \cup {[basedevs |-> <<"sda", "sdb", "sdc">>, old |-> On(a, Blank)] :
           a \in {Blank, Mirror, HiddenMirror}}

MCSizes == {8000, 11112, 11115, 60000}
MCMemories == {0, 1, 999001, 8000000}

=============================================================================
