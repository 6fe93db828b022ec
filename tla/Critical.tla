------------------------------ MODULE Critical ------------------------------
(***************************************************************************)
(* critical::enter: a local interrupt mask, and under it a spinlock across *)
(* harts that only the outermost of nested calls takes and gives back.     *)
(*                                                                         *)
(* Calls nest on a hart because the closure may call enter again.  Only    *)
(* the innermost call moves, so a hart has one program counter and, for    *)
(* each call in progress, the two locals the call keeps: the depth it read *)
(* and the mask token it must restore.  An interrupt handler runs on top   *)
(* of the task's code when interrupts are not masked and calls enter too.  *)
(***************************************************************************)
EXTENDS Integers

CONSTANTS MAX_HARTS,   \* harts
          MAX_NEST     \* bound on nested calls on a hart

ASSUME CriticalAssumption == MAX_HARTS \in Nat \ {0} /\ MAX_NEST \in Nat \ {0}

Harts == 0..(MAX_HARTS - 1)
Calls == 1..MAX_NEST

UNLOCKED == -1

VARIABLES LOCK_OWNER,   \* the hart that holds the lock, or UNLOCKED
          NESTING,      \* per hart, the nesting depth
          masked,       \* harts whose interrupts are masked
          level,        \* per hart, the calls in progress
          pc,           \* per hart, where its innermost call is
          depth,        \* per hart and call, the depth the call read
          token,        \* per hart, the calls that found interrupts masked
          handler       \* per hart, what runs below the calls

vars == <<LOCK_OWNER, NESTING, masked, level, pc, depth, token, handler>>

PcLabels == {"idle", "load", "cas", "store", "body", "unlock", "restore"}

\* A task, or an interrupt handler on a target that masks interrupts on entry
\* (RISC-V) or on one that does not (Cortex-M).
Contexts == {"task", "isr_masked", "isr_unmasked"}

TypeOK ==
  /\ LOCK_OWNER \in Harts \cup {UNLOCKED}
  /\ NESTING \in [Harts -> 0..MAX_NEST]
  /\ masked \subseteq Harts
  /\ level \in [Harts -> 0..MAX_NEST]
  /\ pc \in [Harts -> PcLabels]
  /\ depth \in [Harts -> [Calls -> 0..MAX_NEST]]
  /\ token \in [Harts -> SUBSET Calls]
  /\ handler \in [Harts -> Contexts]

Init ==
  /\ LOCK_OWNER = UNLOCKED
  /\ NESTING = [h \in Harts |-> 0]
  /\ masked = {}
  /\ level = [h \in Harts |-> 0]
  /\ pc = [h \in Harts |-> "idle"]
  /\ depth = [h \in Harts |-> [c \in Calls |-> 0]]
  /\ token = [h \in Harts |-> {}]
  /\ handler = [h \in Harts |-> "task"]

Goto(h, l) == pc' = [pc EXCEPT ![h] = l]

-----------------------------------------------------------------------------
\* enter() is called outside any call, or from the closure of one: mask
\* interrupts and remember whether they were masked.
Call(h) ==
  /\ pc[h] \in {"idle", "body"}
  /\ level[h] < MAX_NEST
  /\ level' = [level EXCEPT ![h] = @ + 1]
  /\ token' = [token EXCEPT ![h] = IF h \in masked THEN @ \cup {level[h] + 1}
                                                   ELSE @ \ {level[h] + 1}]
  /\ masked' = masked \cup {h}
  /\ Goto(h, "load")
  /\ UNCHANGED <<LOCK_OWNER, NESTING, depth, handler>>

\* Every call goes for the lock: a nested one spins on its own hart.
Load_Bad(h) ==
  /\ pc[h] = "load"
  /\ depth' = [depth EXCEPT ![h][level[h]] = NESTING[h]]
  /\ Goto(h, "cas")
  /\ UNCHANGED <<LOCK_OWNER, NESTING, masked, level, token, handler>>

\* Read the nesting depth: only the outermost call goes for the lock.
Load(h) ==
  /\ pc[h] = "load"
  /\ depth' = [depth EXCEPT ![h][level[h]] = NESTING[h]]
  /\ Goto(h, IF NESTING[h] = 0 THEN "cas" ELSE "store")
  /\ UNCHANGED <<LOCK_OWNER, NESTING, masked, level, token, handler>>

\* The owner is stored as hart + 1.
\* The lock is taken without looking at it.
Cas_Bad(h) ==
  /\ pc[h] = "cas"
  /\ LOCK_OWNER' = h
  /\ Goto(h, "store")
  /\ UNCHANGED <<NESTING, masked, level, depth, token, handler>>

\* The compare-and-swap that succeeds; one that fails changes nothing.
Cas(h) ==
  /\ pc[h] = "cas"
  /\ LOCK_OWNER = UNLOCKED
  /\ LOCK_OWNER' = h
  /\ Goto(h, "store")
  /\ UNCHANGED <<NESTING, masked, level, depth, token, handler>>

Store(h) ==
  /\ pc[h] = "store"
  /\ NESTING' = [NESTING EXCEPT ![h] = depth[h][level[h]] + 1]
  /\ Goto(h, "body")
  /\ UNCHANGED <<LOCK_OWNER, masked, level, depth, token, handler>>

\* The closure has returned.
Exit(h) ==
  /\ pc[h] = "body"
  /\ NESTING' = [NESTING EXCEPT ![h] = depth[h][level[h]]]
  /\ Goto(h, IF depth[h][level[h]] = 0 THEN "unlock" ELSE "restore")
  /\ UNCHANGED <<LOCK_OWNER, masked, level, depth, token, handler>>

Unlock(h) ==
  /\ pc[h] = "unlock"
  /\ LOCK_OWNER' = UNLOCKED
  /\ Goto(h, "restore")
  /\ UNCHANGED <<NESTING, masked, level, depth, token, handler>>

\* Interrupts are enabled whatever they were before the call.
Restore_Bad(h) ==
  /\ pc[h] = "restore"
  /\ masked' = masked \ {h}
  /\ level' = [level EXCEPT ![h] = @ - 1]
  /\ Goto(h, IF level[h] = 1 THEN "idle" ELSE "body")
  /\ UNCHANGED <<LOCK_OWNER, NESTING, depth, token, handler>>

\* irq_restore(token), and back to the caller.
Restore(h) ==
  /\ pc[h] = "restore"
  /\ masked' = IF level[h] \in token[h] THEN masked \cup {h} ELSE masked \ {h}
  /\ level' = [level EXCEPT ![h] = @ - 1]
  /\ Goto(h, IF level[h] = 1 THEN "idle" ELSE "body")
  /\ UNCHANGED <<LOCK_OWNER, NESTING, depth, token, handler>>

\* An interrupt, possible whenever interrupts are enabled on the hart.
Interrupt(h) ==
  /\ h \notin masked
  /\ handler[h] = "task"
  /\ \E c \in Contexts \ {"task"} :
       /\ handler' = [handler EXCEPT ![h] = c]
       /\ masked' = IF c = "isr_masked" THEN masked \cup {h} ELSE masked
  /\ UNCHANGED <<LOCK_OWNER, NESTING, level, pc, depth, token>>

\* The handler returns, and the task goes on with interrupts enabled.
Return(h) ==
  /\ handler[h] # "task"
  /\ pc[h] = "idle"
  /\ handler' = [handler EXCEPT ![h] = "task"]
  /\ masked' = masked \ {h}
  /\ UNCHANGED <<LOCK_OWNER, NESTING, level, pc, depth, token>>

Progress(h) ==
  Load(h) \/ Cas(h) \/ Store(h) \/ Exit(h) \/ Unlock(h) \/ Restore(h) \/ Return(h)

Next == \E h \in Harts : Call(h) \/ Progress(h) \/ Interrupt(h)

Spec == Init /\ [][Next]_vars

-----------------------------------------------------------------------------
\* The harts that run a closure passed to enter, or one nested in it.
Inside == {h \in Harts : NESTING[h] > 0}

\* enter implements the abstract exclusion: at most one hart runs closures,
\* and nested calls neither take the lock again nor give it back early.
Excl == INSTANCE Exclusion WITH Procs <- Harts, inside <- Inside

ImplementsExclusion == Excl!Spec

\* A closure runs with its hart's interrupts masked and the lock held, and
\* when all calls have returned the interrupt mask is what the code below
\* them had, so no call enables interrupts behind its caller's back.
MaskKept ==
  \A h \in Harts :
    /\ NESTING[h] > 0 => h \in masked /\ LOCK_OWNER = h
    /\ level[h] = 0 => (h \in masked <=> handler[h] = "isr_masked")

\* Every call in progress moves on, and a closure at any depth makes finitely
\* many nested calls: it returns.
Fairness ==
  \A h \in Harts :
    /\ WF_vars(Progress(h))
    /\ \A n \in 1..MAX_NEST : SF_vars(level[h] = n /\ Exit(h))

FairSpec == Spec /\ Fairness

\* Nested calls compose: a hart that is inside gets out again, whatever its
\* closures call, so that the lock is free again and again.
SectionEnds == \A h \in Harts : NESTING[h] > 0 ~> NESTING[h] = 0
=============================================================================
