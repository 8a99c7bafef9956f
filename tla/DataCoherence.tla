---------------------------- MODULE DataCoherence ----------------------------
(***************************************************************************)
(* What the data-copy registry promises (design section 4.1), without     *)
(* lists, readers or transfers: every data block has a latest version and  *)
(* a non-empty set of devices whose copy holds it.  A write happens on a   *)
(* device holding the latest version and leaves that device the only one;  *)
(* a transfer gives another device the latest version of some blocks at    *)
(* once; a device may drop its copy only while another device still holds  *)
(* the latest version.                                                     *)
(***************************************************************************)
EXTENDS Naturals

CONSTANTS
    Data,        \* logical data blocks
    Devices,     \* devices, the host included
    Home,        \* the device every block starts on (the host)
    MaxVersion   \* bound on the number of writes of one block

VARIABLES
    latest,      \* latest[d]: the version of the last write of d
    valid        \* valid[d]: the devices whose copy of d is at latest[d]

Init ==
    /\ latest = [d \in Data |-> 0]
    /\ valid = [d \in Data |-> {Home}]

Write(dev, d) ==
    /\ dev \in valid[d]
    /\ latest[d] < MaxVersion
    /\ latest' = [latest EXCEPT ![d] = @ + 1]
    /\ valid' = [valid EXCEPT ![d] = {dev}]

Copy(dev, D) ==
    /\ \A d \in D : valid[d] # {}
    /\ valid' = [d \in Data |-> IF d \in D THEN valid[d] \cup {dev} ELSE valid[d]]
    /\ UNCHANGED latest

Drop(dev, d) ==
    /\ valid[d] \ {dev} # {}
    /\ valid' = [valid EXCEPT ![d] = @ \ {dev}]
    /\ UNCHANGED latest

Next ==
    \E dev \in Devices :
        \/ \E d \in Data : Write(dev, d) \/ Drop(dev, d)
        \/ \E D \in SUBSET Data : Copy(dev, D)

Spec == Init /\ [][Next]_<<latest, valid>>

\* The latest version of a block is never lost.
NeverLost == \A d \in Data : valid[d] # {}

=============================================================================
