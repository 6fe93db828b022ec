------------------------------ MODULE MCKernel ------------------------------
(***************************************************************************)
(* Parts of the kernel that share no state with each other, one at a time: *)
(* which one is chosen in the first state.                                 *)
(***************************************************************************)
EXTENDS Channel, Semaphore, Accounting

CONSTANT Parts   \* the parts that are checked

VARIABLE part    \* the part

accounts == <<vars, now, accvars>>
kernel == <<part, channelvars, semvars, accounts>>

\* Three acquirers, two of one priority.
ThreeAcquirers == {1, 2, 3}
ThreePriorities == <<1, 1, 0>>

\* Boot-time tasks: a periodic one above one that runs all the time.
BootPeriodic == <<1, 2>>

KnInit ==
  /\ part \in Parts
  /\ ChannelInit /\ SemInit /\ AccInit
  /\ part # "channel" => got = CHOOSE v \in Values : TRUE

KnNext ==
  /\ UNCHANGED part
  /\ \/ part = "channel" /\ ChannelNext /\ UNCHANGED <<semvars, accounts>>
     \/ part = "semaphore" /\ SemNext /\ UNCHANGED <<channelvars, accounts>>
     \/ part = "accounting" /\ AccNext /\ UNCHANGED <<channelvars, semvars>>

KnSpec == KnInit /\ [][KnNext]_kernel
=============================================================================
