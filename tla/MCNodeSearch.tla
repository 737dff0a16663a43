--------------------------- MODULE MCNodeSearch ---------------------------
(* A small instance of NodeSearch and of Workload, of which a behaviour    *)
(* exercises one.                                                          *)
EXTENDS Workload

\* On either side of the sign bit of a lane of three bits, and its ends.
SixLanes == {0, 2, 3, 4, 5, 7}

InitKernels == Init /\ InitWorkload

NextKernels ==
  \/ Next /\ nodes = <<>> /\ UNCHANGED workVars
  \/ NextWorkload /\ word = 0 /\ pc = "idle" /\ UNCHANGED vars

SpecKernels == InitKernels /\ [][NextKernels]_<<vars, workVars>>
=============================================================================
