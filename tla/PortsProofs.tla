---------------------------- MODULE PortsProofs ----------------------------
(***************************************************************************)
(* The ports keep every task's context, for any number of tasks, harts and *)
(* instructions.                                                           *)
(*                                                                         *)
(* Core is what they have in common: a task that waits has a stack pointer *)
(* from which its port makes the task, where it stopped (Resumable); a     *)
(* handler has saved that of the task it interrupted (Deciding), and after *)
(* its decision holds such a pointer for the task it goes to (Resuming).   *)
(* There is one lemma for each kind of step a port takes, and per port an  *)
(* invariant for its own part:                                             *)
(*   - RvInv: mscratch is the handler's stack or the interrupted frame;    *)
(*   - CmInv: region 7 is the current task's, and the slots of spawns in   *)
(*     progress are nobody else's;                                         *)
(*   - XtInv: a bootstrap record is of one task, and the handler's frame   *)
(*     is that of the task it is on the stack of.                          *)
(***************************************************************************)
EXTENDS MCPorts, FiniteSetTheorems, SequenceTheorems, TLAPS

USE MachineAssumption

Regs == [task : Tasks \cup {NONE}, at : Nat, ret : {"rivet_task_exit", "none", "lost"}]

Pointers == {"frame", "hardware frame", "context"} \X Tasks
            \cup {"bootstrap"} \X BootIndices \cup {<<"none">>}

\* A handler that has saved the task it interrupted, one that knows which task
\* it resumes, and the harts that have a task at all.
Deciding == {"timer", "soft", "ext", "dispatch", "fault", "pendsv", "decide"}
Resuming == {"dispatch", "exit", "unstack", "switch", "stmia"}
Engaged == Deciding \cup Resuming \cup {"task", "leave"}
Phases == Engaged \cup {"off", "boot", "panic"}

Types ==
  /\ spawned \subseteq Tasks
  /\ current \in [Harts -> Tasks \cup {NONE}]
  /\ at \in [Tasks -> Nat]
  /\ regs \in [Harts -> Regs]
  /\ frame \in [Tasks -> Regs]
  /\ sp \in [Tasks -> Pointers]
  /\ resume \in [Harts -> Pointers]
  /\ phase \in [Harts -> Phases]

\* With these registers task t goes on after its a-th instruction.
Holds(r, t, a) == r.task = t /\ r.at = a

\* The bootstrap records nobody has consumed, with their tasks.
Booted == {b \in BootIndices \X Tasks :
             boots[b[1]] = b[2] /\ b[1] < next /\ ~Contains(free, b[1])}

\* What a port makes of the stack pointer s is task t where it stopped.
ResumableAt(arch, t, a, r, B, s) ==
  \/ /\ s = IF arch = "xtensa" THEN <<"context", t>> ELSE <<"frame", t>>
     /\ Holds(r, t, a)
  \/ /\ arch = "xtensa" /\ a = 0
     /\ \E i \in BootIndices : s = <<"bootstrap", i>> /\ <<i, t>> \in B

Resumable(t, s) == ResumableAt(board.arch, t, at[t], frame[t], Booted, s)

HartInv(h) ==
  /\ current[h] \in spawned \cup {NONE}
  /\ \A g \in Harts \ {h} : current[g] = current[h] => current[h] = NONE
  /\ phase[h] = "boot" => current[h] = NONE
  /\ phase[h] \in Engaged => current[h] # NONE
  /\ phase[h] = "task" => Holds(regs[h], current[h], at[current[h]])
  /\ phase[h] \in Deciding => Holds(frame[current[h]], current[h], at[current[h]])
  /\ phase[h] \in Resuming => Resumable(current[h], resume[h])

Waits == \A t \in Ready : Resumable(t, sp[t])

Unborn == \A t \in Tasks \ spawned : at[t] = 0

Core == Types /\ Unborn /\ Waits /\ \A h \in Harts : HartInv(h)

-----------------------------------------------------------------------------
LEMMA Numbers ==
  /\ NONE \notin Tasks /\ Tasks \subseteq Nat /\ Harts \subseteq Nat /\ 0 \in Harts
  /\ \A n \in Nat : (n + 1) % LAPS \in Nat
BY DEF NONE, Tasks, Harts

LEMMA FreshRegs == \A t \in Tasks : Fresh(t) \in Regs /\ Holds(Fresh(t), t, 0)
BY DEF Fresh, Regs, Holds

LEMMA PointerTypes ==
  /\ \A t \in Tasks : <<"frame", t>> \in Pointers /\ <<"context", t>> \in Pointers
                      /\ <<"hardware frame", t>> \in Pointers
  /\ \A i \in BootIndices : <<"bootstrap", i>> \in Pointers
  /\ <<"none">> \in Pointers
BY DEF Pointers

\* What a step leaves of a task's context.
Kept(t) ==
  /\ at'[t] = at[t] /\ frame'[t] = frame[t]
  /\ \A i \in BootIndices : <<i, t>> \in Booted => <<i, t>> \in Booted'

LEMMA KeptResumable ==
  ASSUME NEW t, NEW s, Kept(t), board' = board, Resumable(t, s)
  PROVE  ResumableAt(board'.arch, t, at'[t], frame'[t], Booted', s)
BY DEF Kept, Resumable, ResumableAt

\* The other harts' part of the invariant: a step of hart h keeps the contexts
\* of the tasks that are not its own.
LEMMA OtherHart ==
  ASSUME Core, NEW h \in Harts, NEW g \in Harts \ {h}, board' = board,
         current'[g] = current[g], phase'[g] = phase[g], regs'[g] = regs[g],
         resume'[g] = resume[g],
         current[g] # NONE => Kept(current[g]) /\ current[g] \in spawned',
         \A f \in Harts \ {g, h} : current'[f] = current[f],
         current'[h] = current[g] => current[g] = NONE
  PROVE  HartInv(g)'
<1>1. HartInv(g) BY DEF Core
<1>2. phase[g] \in Engaged => current[g] # NONE /\ Kept(current[g])
  BY <1>1 DEF HartInv
<1>3. phase[g] \in Resuming =>
        ResumableAt(board'.arch, current[g], at'[current[g]], frame'[current[g]], Booted', resume[g])
  <2> SUFFICES ASSUME phase[g] \in Resuming
               PROVE  ResumableAt(board'.arch, current[g], at'[current[g]], frame'[current[g]],
                                  Booted', resume[g])
    OBVIOUS
  <2>1. Kept(current[g]) /\ Resumable(current[g], resume[g])
    BY <1>1, <1>2 DEF HartInv, Engaged
  <2> QED BY <2>1, KeptResumable
<1>4. phase[g] = "task" \/ phase[g] \in Deciding => Kept(current[g])
  BY <1>2 DEF Engaged
<1> HIDE DEF ResumableAt, Booted
<1> QED BY <1>1, <1>3, <1>4 DEF HartInv, Resumable, Kept

-----------------------------------------------------------------------------
\* A step within a handler: who is current stays, and the handler is about the
\* current task's context alone.
LEMMA HandlerCore ==
  ASSUME Core, Types', NEW h \in Harts,
         UNCHANGED <<board, spawned, current, sp, at>>, done \subseteq done',
         \A g \in Harts \ {h} : /\ phase'[g] = phase[g] /\ regs'[g] = regs[g]
                                /\ resume'[g] = resume[g],
         \A t \in Tasks \ {current[h]} : Kept(t),
         phase'[h] = "boot" => phase[h] = "boot",
         phase'[h] \in Engaged => current[h] # NONE,
         phase'[h] = "task" => Holds(regs'[h], current[h], at[current[h]]),
         phase'[h] \in Deciding => Holds(frame'[current[h]], current[h], at[current[h]]),
         phase'[h] \in Resuming =>
           ResumableAt(board.arch, current[h], at[current[h]], frame'[current[h]], Booted', resume'[h])
  PROVE  Core'
<1> USE Numbers
<1>1. ASSUME NEW g \in Harts \ {h} PROVE HartInv(g)'
  <2>1. HartInv(g) /\ HartInv(h) /\ current[g] \in Tasks \cup {NONE} BY DEF Core, Types
  <2>2. current[g] # NONE => current[g] \in Tasks \ {current[h]} /\ current[g] \in spawned
    BY <2>1 DEF HartInv
  <2>3. current[h] = current[g] => current[g] = NONE BY <2>1 DEF HartInv
  <2> QED BY <2>2, <2>3, OtherHart
<1>2. HartInv(h)'
  <2>1. HartInv(h) BY DEF Core
  <2> HIDE DEF ResumableAt, Booted, Holds
  <2> QED BY <2>1 DEF HartInv, Resumable
<1>3. Waits'
  <2> SUFFICES ASSUME NEW t \in Ready' PROVE Resumable(t, sp[t])'
    BY DEF Waits
  <2>1. t \in Ready /\ t \in Tasks \ {current[h]} BY DEF Ready, Core, Types
  <2>2. Resumable(t, sp[t]) /\ Kept(t) BY <2>1 DEF Core, Waits
  <2>3. ResumableAt(board'.arch, t, at'[t], frame'[t], Booted', sp[t])
    BY <2>2, KeptResumable
  <2> QED BY <2>3 DEF Resumable
<1>4. Unborn' BY DEF Core, Unborn
<1> QED BY <1>1, <1>2, <1>3, <1>4 DEF Core

\* A step that leaves every context alone; a hart may stop for good.
LEMMA CalmCore ==
  ASSUME Core, NEW h \in Harts,
         UNCHANGED <<board, spawned, current, sp, resume, at, regs, frame>>, done \subseteq done',
         Booted' = Booted,
         phase' = phase \/ phase' = [phase EXCEPT ![h] = "off"]
  PROVE  Core'
<1>1. Types' BY DEF Core, Types, Phases
<1>2. phase'[h] \in {phase[h], "off"} /\ \A g \in Harts \ {h} : phase'[g] = phase[g]
  BY DEF Core, Types
<1>3. \A t \in Tasks : Kept(t) BY DEF Kept
<1>4. HartInv(h) BY DEF Core
<1>5. phase'[h] \in Engaged \/ phase'[h] \in Deciding \/ phase'[h] \in Resuming
      \/ phase'[h] \in {"task", "boot"} => phase'[h] = phase[h]
  BY <1>2 DEF Engaged, Deciding, Resuming
<1>6. phase'[h] \in Resuming =>
        ResumableAt(board.arch, current[h], at[current[h]], frame'[current[h]], Booted', resume'[h])
  BY <1>4, <1>5 DEF HartInv, Resumable
<1> HIDE DEF ResumableAt, Booted, Holds
<1>7. /\ phase'[h] \in Engaged => current[h] # NONE
      /\ phase'[h] = "task" => Holds(regs'[h], current[h], at[current[h]])
      /\ phase'[h] \in Deciding => Holds(frame'[current[h]], current[h], at[current[h]])
  BY <1>4, <1>5 DEF HartInv
<1> QED BY <1>1, <1>2, <1>3, <1>5, <1>6, <1>7, HandlerCore

\* An instruction of a task.
LEMMA ExecuteCore ==
  ASSUME Core, NEW h \in Harts, Execute(h),
         UNCHANGED <<kernel, phase, frame>>, Booted' = Booted
  PROVE  Core'
<1> USE Numbers
<1> DEFINE c == current[h]
<1>u. UNCHANGED <<board, spawned, done, current, sp, resume>> BY DEF kernel
<1>h. HartInv(h) /\ phase[h] = "task" BY DEF Core, Execute, Running
<1>1. c \in Tasks /\ c \in spawned /\ regs[h] \in Regs /\ regs[h].task = c /\ regs[h].at = at[c]
  BY <1>h DEF HartInv, Engaged, Holds, Core, Types
<1>2. /\ regs' = [regs EXCEPT ![h].at = (@ + 1) % LAPS]
      /\ at' = [at EXCEPT ![c] = (@ + 1) % LAPS]
  BY <1>1 DEF Execute
<1> DEFINE n == (at[c] + 1) % LAPS
<1>3. n \in Nat BY <1>1 DEF Core, Types
<1>4. /\ at' \in [Tasks -> Nat] /\ at'[c] = n /\ \A t \in Tasks \ {c} : at'[t] = at[t]
      /\ regs' \in [Harts -> Regs] /\ regs'[h].task = c /\ regs'[h].at = n
      /\ \A g \in Harts \ {h} : regs'[g] = regs[g]
  BY <1>1, <1>2, <1>3 DEF Core, Types, Regs
<1> HIDE DEF n
<1>5. Types' BY <1>u, <1>4 DEF Core, Types
<1>6. \A t \in Tasks \ {c} : Kept(t) BY <1>4 DEF Kept
<1>7. ASSUME NEW g \in Harts \ {h} PROVE HartInv(g)'
  <2>1. HartInv(g) /\ current[g] \in Tasks \cup {NONE} BY DEF Core, Types
  <2>2. current[g] # NONE => current[g] \in Tasks \ {c} /\ current[g] \in spawned
    BY <1>h, <2>1 DEF HartInv
  <2>3. c = current[g] => current[g] = NONE BY <2>2
  <2> QED BY <1>u, <1>4, <1>6, <2>2, <2>3, OtherHart
<1>8. HartInv(h)'
  BY <1>u, <1>h, <1>4 DEF HartInv, Holds, Deciding, Resuming
<1>9. Waits'
  <2> SUFFICES ASSUME NEW t \in Ready' PROVE Resumable(t, sp[t])'
    BY DEF Waits
  <2>1. t \in Ready /\ t \in Tasks \ {c} BY <1>u DEF Ready, Core, Types
  <2>2. Resumable(t, sp[t]) /\ Kept(t) BY <1>6, <2>1 DEF Core, Waits
  <2>3. ResumableAt(board'.arch, t, at'[t], frame'[t], Booted', sp[t])
    BY <1>u, <2>2, KeptResumable
  <2> QED BY <1>u, <2>3 DEF Resumable
<1>10. Unborn' BY <1>u, <1>1, <1>4 DEF Core, Unborn
<1> QED BY <1>5, <1>7, <1>8, <1>9, <1>10 DEF Core

\* despawn frees the slot of a task that no hart has.
LEMMA DespawnCore ==
  ASSUME Core, NEW h \in Harts, NEW t \in Tasks, despawn(h, t), Booted' = Booted, frame' = frame
  PROVE  Core'
<1> USE Numbers
<1>1. /\ UNCHANGED <<board, current, sp, resume, regs, phase>>
      /\ t \in spawned /\ \A g \in Harts : current[g] # t
      /\ spawned' = spawned \ {t} /\ done' = done \ {t} /\ at' = [at EXCEPT ![t] = 0]
  BY DEF despawn
<1>2. /\ at' \in [Tasks -> Nat] /\ at'[t] = 0 /\ \A u \in Tasks \ {t} : at'[u] = at[u]
  BY <1>1 DEF Core, Types
<1>3. Types' BY <1>1, <1>2 DEF Core, Types
<1>4. \A u \in Tasks \ {t} : Kept(u) BY <1>2 DEF Kept
<1>5. ASSUME NEW g \in Harts PROVE HartInv(g)'
  <2>1. HartInv(g) /\ current[g] \in Tasks \cup {NONE} BY DEF Core, Types
  <2>2. current[g] # NONE => Kept(current[g]) /\ current[g] \in spawned'
    BY <1>1, <1>4, <2>1 DEF HartInv
  <2>3. ASSUME current[g] # NONE
        PROVE  Resumable(current[g], resume[g]) =>
                 ResumableAt(board'.arch, current[g], at'[current[g]], frame'[current[g]],
                             Booted', resume[g])
    BY <1>1, <2>2, <2>3, KeptResumable
  <2>4. phase[g] \in Engaged => current[g] # NONE BY <2>1 DEF HartInv
  <2> HIDE DEF ResumableAt, Booted
  <2> QED BY <1>1, <2>1, <2>2, <2>3, <2>4 DEF HartInv, Resumable, Kept, Engaged
<1>6. Waits'
  <2> SUFFICES ASSUME NEW u \in Ready' PROVE Resumable(u, sp[u])'
    BY DEF Waits
  <2>1. u \in Ready /\ u \in Tasks \ {t} BY <1>1 DEF Ready, Core, Types
  <2>2. Resumable(u, sp[u]) /\ Kept(u) BY <1>4, <2>1 DEF Core, Waits
  <2>3. ResumableAt(board'.arch, u, at'[u], frame'[u], Booted', sp[u])
    BY <1>1, <2>2, KeptResumable
  <2> QED BY <1>1, <2>3 DEF Resumable
<1>7. Unborn' BY <1>1, <1>2 DEF Core, Unborn
<1> QED BY <1>3, <1>5, <1>6, <1>7 DEF Core

\* A frame is built for a task that is not registered, or registered with it.
LEMMA SpawnCore ==
  ASSUME Core, NEW t \in Tasks \ spawned, spawned' \in {spawned, spawned \cup {t}},
         UNCHANGED <<board, done, current, resume, at, regs, phase>>,
         sp' \in [Tasks -> Pointers], frame' \in [Tasks -> Regs],
         \A u \in Tasks \ {t} : sp'[u] = sp[u] /\ frame'[u] = frame[u],
         \A b \in Booted : b[2] # t => b \in Booted',
         t \in spawned' => ResumableAt(board.arch, t, at[t], frame'[t], Booted', sp'[t])
  PROVE  Core'
<1> USE Numbers
<1>1. Types' BY DEF Core, Types
<1>2. ASSUME NEW u \in spawned PROVE Kept(u) /\ u \in Tasks \ {t}
  BY DEF Kept, Core, Types
<1>3. ASSUME NEW g \in Harts PROVE HartInv(g)'
  <2>1. HartInv(g) BY DEF Core
  <2>2. current[g] # NONE => Kept(current[g]) /\ current[g] \in spawned'
    BY <1>2, <2>1 DEF HartInv
  <2>3. ASSUME current[g] # NONE
        PROVE  Resumable(current[g], resume[g]) =>
                 ResumableAt(board'.arch, current[g], at'[current[g]], frame'[current[g]],
                             Booted', resume[g])
    BY <2>2, <2>3, KeptResumable
  <2>4. phase[g] \in Engaged => current[g] # NONE BY <2>1 DEF HartInv
  <2> HIDE DEF ResumableAt, Booted
  <2> QED BY <2>1, <2>2, <2>3, <2>4 DEF HartInv, Resumable, Kept, Engaged
<1>4. Waits'
  <2> SUFFICES ASSUME NEW u \in Ready' PROVE Resumable(u, sp[u])'
    BY DEF Waits
  <2>1. CASE u = t BY <2>1 DEF Ready, Resumable
  <2>2. CASE u # t
    <3>1. u \in Ready /\ u \in spawned BY <2>2 DEF Ready
    <3>2. Resumable(u, sp[u]) /\ Kept(u) /\ sp'[u] = sp[u] BY <1>2, <3>1 DEF Core, Waits
    <3>3. ResumableAt(board'.arch, u, at'[u], frame'[u], Booted', sp[u])
      BY <3>2, KeptResumable
    <3> QED BY <3>2, <3>3 DEF Resumable
  <2> QED BY <2>1, <2>2
<1>5. Unborn' BY DEF Core, Unborn
<1> QED BY <1>1, <1>3, <1>4, <1>5 DEF Core

\* start_first_task: a task that is ready goes on, or nothing runs at all.
LEMMA StartCore ==
  ASSUME Core, NEW h \in Harts, NEW c \in Tasks, StartsWith(h, c),
         UNCHANGED <<board, spawned, done, sp, resume, at, frame>>, Booted' = Booted,
         NEW p \in {"task", "panic"}, phase' = [phase EXCEPT ![h] = p],
         regs' \in [Harts -> Regs], \A g \in Harts \ {h} : regs'[g] = regs[g],
         p = "task" => Holds(regs'[h], c, at[c])
  PROVE  Core'
<1> USE Numbers
<1>1. /\ phase[h] = "boot" /\ c \in Ready /\ current' = [current EXCEPT ![h] = c]
      /\ current[h] = NONE
  BY DEF StartsWith, Core, HartInv
<1>2. /\ current' \in [Harts -> Tasks \cup {NONE}] /\ current'[h] = c
      /\ \A g \in Harts \ {h} : current'[g] = current[g]
      /\ phase' \in [Harts -> Phases] /\ phase'[h] = p
      /\ \A g \in Harts \ {h} : phase'[g] = phase[g]
  BY <1>1 DEF Core, Types, Phases, Engaged
<1>3. Types' BY <1>2 DEF Core, Types
<1>4. \A t \in Tasks : Kept(t) BY DEF Kept
<1>5. c \in spawned /\ \A g \in Harts : current[g] # c BY <1>1 DEF Ready
<1>6. ASSUME NEW g \in Harts \ {h} PROVE HartInv(g)'
  <2>1. HartInv(g) /\ current[g] \in Tasks \cup {NONE} BY DEF Core, Types
  <2>2. current[g] # NONE => Kept(current[g]) /\ current[g] \in spawned'
    BY <1>4, <2>1 DEF HartInv
  <2> QED BY <1>2, <1>5, <2>2, OtherHart
<1>7. HartInv(h)'
  BY <1>2, <1>5 DEF HartInv, Deciding, Resuming, Engaged
<1>8. Waits'
  <2> SUFFICES ASSUME NEW t \in Ready' PROVE Resumable(t, sp[t])'
    BY DEF Waits
  <2>1. t \in Ready
    <3>1. t \in Tasks BY DEF Ready, Core, Types
    <3> QED BY <1>1, <1>2, <3>1 DEF Ready
  <2>2. Resumable(t, sp[t]) /\ Kept(t) BY <1>4, <2>1 DEF Core, Waits, Ready, Types
  <2>3. ResumableAt(board'.arch, t, at'[t], frame'[t], Booted', sp[t])
    BY <2>2, KeptResumable
  <2> QED BY <2>3 DEF Resumable
<1>9. Unborn' BY DEF Core, Unborn
<1> QED BY <1>3, <1>6, <1>7, <1>8, <1>9 DEF Core

\* What on_tick and on_fault may answer: the task that was interrupted, if its
\* stack pointer is one to resume it from, or a task that is ready; the task left
\* behind is resumable from what was stored, or never runs again.
Answers(h) ==
  \/ /\ current' = current /\ done' = done
     /\ Resumable(current[h], resume'[h]) /\ sp'[current[h]] = resume'[h]
  \/ \E c \in Ready :
       /\ current' = [current EXCEPT ![h] = c]
       /\ resume'[h] = sp[c]
       /\ done \subseteq done'
       /\ current[h] \in done' \/ Resumable(current[h], sp'[current[h]])

LEMMA TickAnswers ==
  ASSUME Types, NEW h \in Harts, NEW isp \in Pointers, current[h] \in Tasks,
         Resumable(current[h], isp), OnTick(h, isp)
  PROVE  /\ Answers(h) /\ sp' \in [Tasks -> Pointers] /\ resume' \in [Harts -> Pointers]
         /\ \A t \in Tasks \ {current[h]} : sp'[t] = sp[t]
         /\ \A g \in Harts \ {h} : resume'[g] = resume[g]
<1>1. /\ sp' = [sp EXCEPT ![current[h]] = isp]
      /\ \/ current' = current /\ done' = done /\ resume' = [resume EXCEPT ![h] = isp]
         \/ \E c \in Ready : /\ current' = [current EXCEPT ![h] = c]
                             /\ resume' = [resume EXCEPT ![h] = sp[c]]
                             /\ done \subseteq done'
  BY DEF OnTick, OnFault
<1>2. sp' \in [Tasks -> Pointers] /\ sp'[current[h]] = isp
      /\ \A t \in Tasks \ {current[h]} : sp'[t] = sp[t]
  BY <1>1 DEF Types
<1>3. \A c \in Ready : c \in Tasks /\ sp[c] \in Pointers BY DEF Types, Ready
<1> HIDE DEF Resumable
<1>4. /\ resume' \in [Harts -> Pointers]
      /\ \A g \in Harts \ {h} : resume'[g] = resume[g]
  BY <1>1, <1>3 DEF Types
<1>5. Answers(h)
  <2>1. CASE current' = current /\ done' = done /\ resume' = [resume EXCEPT ![h] = isp]
    BY <1>2, <2>1 DEF Answers, Types
  <2>2. ASSUME NEW c \in Ready, current' = [current EXCEPT ![h] = c],
               resume' = [resume EXCEPT ![h] = sp[c]], done \subseteq done'
        PROVE  Answers(h)
    BY <1>2, <2>2 DEF Answers, Types
  <2> QED BY <1>1, <2>1, <2>2
<1> QED BY <1>2, <1>4, <1>5

LEMMA FaultAnswers ==
  ASSUME Types, NEW h \in Harts, OnFault(h)
  PROVE  /\ Answers(h) /\ resume' \in [Harts -> Pointers]
         /\ \A g \in Harts \ {h} : resume'[g] = resume[g]
<1>1. PICK c \in Ready : /\ current' = [current EXCEPT ![h] = c]
                         /\ resume' = [resume EXCEPT ![h] = sp[c]]
  BY DEF OnFault
<1>2. done' = done \cup {current[h]} BY DEF OnFault
<1>3. c \in Tasks /\ sp[c] \in Pointers BY DEF Types, Ready
<1> HIDE DEF Resumable
<1>4. /\ resume' \in [Harts -> Pointers] /\ resume'[h] = sp[c]
      /\ \A g \in Harts \ {h} : resume'[g] = resume[g]
  BY <1>1, <1>3 DEF Types
<1> QED BY <1>1, <1>2, <1>4 DEF Answers

\* The decision of a handler.
LEMMA DecideCore ==
  ASSUME Core, NEW h \in Harts, current[h] # NONE, Answers(h),
         UNCHANGED <<board, spawned, at, regs, frame>>, Booted' = Booted,
         NEW p \in Resuming \ Deciding, phase' = [phase EXCEPT ![h] = p],
         sp' \in [Tasks -> Pointers], resume' \in [Harts -> Pointers],
         \A t \in Tasks \ {current[h]} : sp'[t] = sp[t],
         \A g \in Harts \ {h} : resume'[g] = resume[g]
  PROVE  Core' /\ current'[h] \in Tasks
<1> USE Numbers
<1> DEFINE a == current[h]
<1>1. HartInv(h) /\ a \in Tasks BY DEF Core, Types
<1>2. /\ phase' \in [Harts -> Phases] /\ phase'[h] = p
      /\ \A g \in Harts \ {h} : phase'[g] = phase[g]
  BY DEF Core, Types, Phases, Engaged
<1>3. \A t \in Tasks : Kept(t) BY DEF Kept
<1>p. p # "boot" /\ p # "task" /\ p \notin Deciding BY DEF Resuming
<1>4. \A t \in Tasks : \A s : Resumable(t, s) =>
        ResumableAt(board'.arch, t, at'[t], frame'[t], Booted', s)
  BY <1>3, KeptResumable
<1>c. \E c \in spawned :
        /\ current' \in [Harts -> Tasks \cup {NONE}] /\ current'[h] = c /\ c # NONE
        /\ \A g \in Harts \ {h} : current'[g] = current[g] /\ current[g] # c
        /\ Resumable(c, resume'[h])
        /\ \A t \in Ready' : Resumable(t, sp'[t])
  <2>1. CASE /\ current' = current /\ done' = done
             /\ Resumable(current[h], resume'[h]) /\ sp'[current[h]] = resume'[h]
    <3>1. Ready' = Ready BY <2>1 DEF Ready
    <3>2. \A t \in Ready : Resumable(t, sp'[t])
      BY DEF Core, Waits, Ready, Types
    <3>3. a \in spawned /\ \A g \in Harts \ {h} : current[g] # a
      BY <1>1 DEF HartInv
    <3> QED BY <1>1, <2>1, <3>1, <3>2, <3>3 DEF Core, Types
  <2>2. ASSUME NEW c \in Ready, current' = [current EXCEPT ![h] = c],
               resume'[h] = sp[c], done \subseteq done',
               current[h] \in done' \/ Resumable(current[h], sp'[current[h]])
        PROVE  /\ current' \in [Harts -> Tasks \cup {NONE}] /\ current'[h] = c /\ c # NONE
               /\ \A g \in Harts \ {h} : current'[g] = current[g] /\ current[g] # c
               /\ Resumable(c, resume'[h]) /\ c \in spawned
               /\ \A t \in Ready' : Resumable(t, sp'[t])
    <3>1. c \in spawned /\ c \in Tasks /\ \A g \in Harts : current[g] # c
      BY DEF Ready, Core, Types
    <3>2. /\ current' \in [Harts -> Tasks \cup {NONE}] /\ current'[h] = c
          /\ \A g \in Harts \ {h} : current'[g] = current[g]
      BY <2>2, <3>1 DEF Core, Types
    <3>3. Resumable(c, resume'[h]) BY <2>2 DEF Core, Waits
    <3>4. ASSUME NEW t \in Ready' PROVE Resumable(t, sp'[t])
      <4>1. t \in spawned /\ t \in Tasks /\ t \notin done' /\ \A g \in Harts : current'[g] # t
        BY DEF Ready, Core, Types
      <4>2. CASE t = a BY <2>2, <4>1, <4>2
      <4>3. CASE t # a
        <5>1. t \in Ready BY <2>2, <3>2, <4>1, <4>3 DEF Ready
        <5> QED BY <4>1, <4>3, <5>1 DEF Core, Waits
      <4> QED BY <4>2, <4>3
    <3> QED BY <3>1, <3>2, <3>3, <3>4
  <2> HIDE DEF Resumable
  <2> QED BY <2>1, <2>2 DEF Answers
<1>5. PICK c \in spawned :
        /\ current' \in [Harts -> Tasks \cup {NONE}] /\ current'[h] = c /\ c # NONE
        /\ \A g \in Harts \ {h} : current'[g] = current[g] /\ current[g] # c
        /\ Resumable(c, resume'[h])
        /\ \A t \in Ready' : Resumable(t, sp'[t])
  BY <1>c
<1>6. Types' BY <1>2, <1>5 DEF Core, Types
<1>7. ASSUME NEW g \in Harts \ {h} PROVE HartInv(g)'
  <2>1. HartInv(g) /\ current[g] \in Tasks \cup {NONE} BY DEF Core, Types
  <2>2. current[g] # NONE => Kept(current[g]) /\ current[g] \in spawned'
    BY <1>3, <2>1 DEF HartInv
  <2> QED BY <1>2, <1>5, <2>2, OtherHart
<1>8. HartInv(h)'
  <2>1. c \in Tasks BY DEF Core, Types
  <2>2. ResumableAt(board'.arch, c, at'[c], frame'[c], Booted', resume'[h])
    BY <1>4, <1>5, <2>1
  <2> HIDE DEF ResumableAt, Booted
  <2> QED BY <1>2, <1>5, <1>p, <2>2 DEF HartInv, Resumable
<1>9. Waits'
  <2> SUFFICES ASSUME NEW t \in Ready' PROVE Resumable(t, sp[t])'
    BY DEF Waits
  <2>1. t \in Tasks BY DEF Ready, Core, Types
  <2> QED BY <1>4, <1>5, <2>1 DEF Resumable
<1>10. Unborn' BY DEF Core, Unborn
<1>11. current'[h] \in Tasks BY <1>5 DEF Core, Types
<1> QED BY <1>6, <1>7, <1>8, <1>9, <1>10, <1>11 DEF Core

-----------------------------------------------------------------------------
Signals == {"timer", "soft"}

\* Hart h stops for good, or is where it was.
Stops(h) ==
  \/ phase' = phase
  \/ /\ phase' = [phase EXCEPT ![h] = "off"]
     /\ phase[h] = "task"

\* An interrupt may be pending on hart h that was not.
Interrupts(h) ==
  \/ pend' = pend
  \/ \E i \in Signals : pend' = [pend EXCEPT ![h] = @ \cup {i}]

\* What every port lets a task do, and the interrupts that come in.
LEMMA TaskCodeCore ==
  ASSUME Core, NEW h \in Harts, TaskCode(h) \/ (\E i \in Signals : Raise(h, i)),
         Booted' = Booted
  PROVE  /\ Core' /\ Stops(h) /\ Interrupts(h)
         /\ board' = board /\ current' = current /\ frame' = frame /\ regs' = regs
         /\ resume' = resume /\ sp' = sp
         /\ \A t \in Tasks : at[t] = 0 => at'[t] = 0
         /\ spawned' \subseteq spawned
<1>1. CASE irq_save(h) \/ irq_restore(h) \/ (\E i \in Signals : Raise(h, i))
  <2>1. UNCHANGED <<board, spawned, done, current, sp, resume, at, regs, phase, frame>>
    BY <1>1 DEF irq_save, irq_restore, Raise, kernel
  <2>2. Interrupts(h)
    BY <1>1 DEF irq_save, irq_restore, Raise, Interrupts
  <2>3. Core' BY <2>1, CalmCore
  <2> QED BY <2>1, <2>2, <2>3 DEF Stops
<1>2. CASE Return(h)
  <2>1. /\ UNCHANGED <<board, spawned, current, sp, resume, at, regs, frame>>
        /\ done \subseteq done'
        /\ phase[h] = "task"
        /\ \/ phase' = phase
           \/ phase' = [phase EXCEPT ![h] = "off"]
        /\ \/ pend' = pend
           \/ pend' = [pend EXCEPT ![h] = @ \cup {"soft"}]
    BY <1>2 DEF Return, Running
  <2>2. Core' BY <2>1, CalmCore
  <2> QED BY <2>1, <2>2 DEF Signals, Stops, Interrupts
<1>3. ASSUME NEW t \in Tasks, despawn(h, t)
      PROVE  /\ Core' /\ board' = board /\ current' = current /\ frame' = frame /\ regs' = regs
             /\ resume' = resume /\ sp' = sp /\ phase' = phase /\ pend' = pend
             /\ \A u \in Tasks : at[u] = 0 => at'[u] = 0
             /\ spawned' \subseteq spawned
  <2>1. /\ UNCHANGED <<board, current, sp, resume, regs, phase, pend, frame>>
        /\ at' = [at EXCEPT ![t] = 0] /\ spawned' \subseteq spawned
    BY <1>3 DEF despawn
  <2>2. Core' BY <1>3, <2>1, DespawnCore
  <2>3. \A u \in Tasks : at[u] = 0 => at'[u] = 0 BY <2>1 DEF Core, Types
  <2> QED BY <2>1, <2>2, <2>3
<1> QED BY <1>1, <1>2, <1>3 DEF TaskCode, Stops, Interrupts

\* Only hart h's current task changes when its handler decides.
LEMMA AnswersElsewhere ==
  ASSUME Core, NEW h \in Harts, Answers(h)
  PROVE  \A g \in Harts \ {h} : current'[g] = current[g]
BY DEF Answers, Core, Types

-----------------------------------------------------------------------------
(* The three steps of a handler, as the ports take them. *)

\* The interrupted task's registers are saved.
LEMMA SaveCore ==
  ASSUME Core, NEW h \in Harts, phase[h] = "task", NEW p \in Deciding \ Resuming,
         frame' = [frame EXCEPT ![regs[h].task] = regs[h]], phase' = [phase EXCEPT ![h] = p],
         UNCHANGED <<board, spawned, done, current, sp, resume, at, regs>>, Booted' = Booted
  PROVE  /\ Core' /\ current[h] \in Tasks /\ regs[h].task = current[h]
         /\ Holds(regs[h], current[h], at[current[h]])
         /\ phase'[h] = p /\ \A g \in Harts \ {h} : phase'[g] = phase[g]
         /\ frame'[current[h]] = regs[h]
         /\ \A t \in Tasks \ {current[h]} : frame'[t] = frame[t]
<1> USE Numbers
<1> DEFINE c == current[h]
<1>h. HartInv(h) BY DEF Core
<1>1. c \in Tasks /\ regs[h] \in Regs /\ regs[h].task = c /\ Holds(regs[h], c, at[c])
  BY <1>h DEF HartInv, Engaged, Holds, Core, Types
<1>3. /\ frame' \in [Tasks -> Regs] /\ frame'[c] = regs[h]
      /\ \A t \in Tasks \ {c} : frame'[t] = frame[t]
  BY <1>1 DEF Core, Types
<1>4. /\ phase' \in [Harts -> Phases] /\ phase'[h] = p /\ p # "boot" /\ p # "task"
      /\ \A g \in Harts \ {h} : phase'[g] = phase[g]
  BY DEF Core, Types, Phases, Engaged, Deciding
<1>5. Types' BY <1>3, <1>4 DEF Core, Types
<1>6. \A t \in Tasks \ {c} : Kept(t) BY <1>3 DEF Kept
<1>7. Core' BY <1>1, <1>3, <1>4, <1>5, <1>6, HandlerCore
<1> QED BY <1>1, <1>3, <1>4, <1>7

\* The scheduling decision, with a stack pointer to resume the task from.
LEMMA TickCore ==
  ASSUME Core, NEW h \in Harts, phase[h] \in Deciding,
         NEW isp \in Pointers, Resumable(current[h], isp), OnTick(h, isp),
         NEW p \in Resuming \ Deciding, phase' = [phase EXCEPT ![h] = p],
         UNCHANGED <<board, spawned, at, regs, frame>>, Booted' = Booted
  PROVE  /\ Core' /\ current[h] \in Tasks /\ current'[h] \in Tasks
         /\ phase'[h] = p /\ \A g \in Harts \ {h} : phase'[g] = phase[g] /\ current'[g] = current[g]
         /\ sp' = [sp EXCEPT ![current[h]] = isp]
<1> USE Numbers
<1>1. current[h] \in Tasks
  <2>1. HartInv(h) BY DEF Core
  <2> QED BY <2>1 DEF HartInv, Engaged, Core, Types
<1>2. /\ Answers(h) /\ sp' \in [Tasks -> Pointers] /\ resume' \in [Harts -> Pointers]
      /\ \A t \in Tasks \ {current[h]} : sp'[t] = sp[t]
      /\ \A g \in Harts \ {h} : resume'[g] = resume[g]
  <2>1. Types BY DEF Core
  <2> QED BY <1>1, <2>1, TickAnswers
<1>3. current[h] # NONE BY <1>1
<1>4. Core' /\ current'[h] \in Tasks BY <1>2, <1>3, DecideCore
<1>5. \A g \in Harts \ {h} : current'[g] = current[g] BY <1>2, AnswersElsewhere
<1>6. phase'[h] = p /\ \A g \in Harts \ {h} : phase'[g] = phase[g] BY DEF Core, Types
<1> QED BY <1>1, <1>4, <1>5, <1>6 DEF OnTick

\* The fault policy's, with the task's own stack pointer as it may be.
LEMMA FaultCore ==
  ASSUME Core, NEW h \in Harts, phase[h] \in Deciding \cup {"task", "stmia"}, OnFault(h),
         NEW p \in Resuming \ Deciding, phase' = [phase EXCEPT ![h] = p],
         sp' \in [Tasks -> Pointers], \A t \in Tasks \ {current[h]} : sp'[t] = sp[t],
         UNCHANGED <<board, spawned, at, regs, frame>>, Booted' = Booted
  PROVE  /\ Core' /\ current[h] \in Tasks /\ current'[h] \in Tasks
         /\ phase'[h] = p /\ \A g \in Harts \ {h} : phase'[g] = phase[g] /\ current'[g] = current[g]
<1> USE Numbers
<1>1. current[h] \in Tasks
  <2>1. HartInv(h) BY DEF Core
  <2> QED BY <2>1 DEF HartInv, Engaged, Resuming, Core, Types
<1>2. /\ Answers(h) /\ resume' \in [Harts -> Pointers]
      /\ \A g \in Harts \ {h} : resume'[g] = resume[g]
  <2>1. Types BY DEF Core
  <2> QED BY <2>1, FaultAnswers
<1>3. current[h] # NONE BY <1>1
<1>5. Core' /\ current'[h] \in Tasks BY <1>2, <1>3, DecideCore
<1>6. \A g \in Harts \ {h} : current'[g] = current[g] BY <1>2, AnswersElsewhere
<1>7. phase'[h] = p /\ \A g \in Harts \ {h} : phase'[g] = phase[g] BY DEF Core, Types
<1> QED BY <1>1, <1>5, <1>6, <1>7

\* The registers of the answer are reloaded.
LEMMA ResumeCore ==
  ASSUME Core, NEW h \in Harts, phase[h] \in Resuming, resume[h] = <<"frame", current[h]>>,
         board.arch # "xtensa",
         regs' = [regs EXCEPT ![h] = frame[current[h]]], phase' = [phase EXCEPT ![h] = "task"],
         resume' = [resume EXCEPT ![h] = <<"none">>],
         UNCHANGED <<board, spawned, done, current, sp, at, frame>>, Booted' = Booted
  PROVE  /\ Core' /\ current[h] \in Tasks
         /\ phase'[h] = "task" /\ \A g \in Harts \ {h} : phase'[g] = phase[g]
<1> USE Numbers
<1> DEFINE c == current[h]
<1>h. HartInv(h) BY DEF Core
<1>1. c \in Tasks /\ Resumable(c, resume[h])
  BY <1>h DEF HartInv, Engaged, Core, Types
<1>2. Holds(frame[c], c, at[c]) BY <1>1 DEF Resumable, ResumableAt
<1>4. /\ phase' \in [Harts -> Phases] /\ phase'[h] = "task"
      /\ \A g \in Harts \ {h} : phase'[g] = phase[g]
  BY DEF Core, Types, Phases, Engaged
<1>5. /\ resume' \in [Harts -> Pointers]
      /\ \A g \in Harts \ {h} : resume'[g] = resume[g]
  BY PointerTypes DEF Core, Types
<1>6. /\ regs' \in [Harts -> Regs] /\ regs'[h] = frame[c]
      /\ \A g \in Harts \ {h} : regs'[g] = regs[g]
  <2>2. frame[c] \in Regs /\ regs \in [Harts -> Regs] BY <1>1 DEF Core, Types
  <2> QED BY <2>2
<1>7. Types' BY <1>4, <1>5, <1>6 DEF Core, Types
<1>8. \A t \in Tasks : Kept(t) BY DEF Kept
<1>9. Core'
  <2>1. phase'[h] \notin Deciding /\ phase'[h] \notin Resuming /\ phase'[h] # "boot"
    BY <1>4 DEF Deciding, Resuming
  <2>2. c # NONE BY <1>1
  <2> QED BY <1>2, <1>4, <1>5, <1>6, <1>7, <1>8, <2>1, <2>2, HandlerCore
<1> QED BY <1>1, <1>4, <1>9

-----------------------------------------------------------------------------
(* RISC-V: any number of harts. *)
Tops == {"isr_stack"} \X Harts

RvHart(h) ==
  /\ phase[h] \in {"off", "boot", "task"} => mscratch[h] = isr_stack_top(h)
  /\ phase[h] \in Deciding => mscratch[h] = <<"frame", current[h]>>
  /\ phase[h] \in {"ext", "dispatch"} => h = 0

RvInv ==
  /\ mscratch \in [Harts -> Tops \cup ({"frame"} \X Tasks)]
  /\ pend \in [Harts -> SUBSET Signals]
  /\ \A h \in Harts : RvHart(h)
  /\ claimed # {} => phase[0] = "dispatch"

IsrTops == isr = [h \in Harts |-> isr_stack_top(h)]

LEMMA RvOther ==
  ASSUME NEW h \in Harts, NEW g \in Harts \ {h}, RvHart(g), mscratch'[g] = mscratch[g],
         phase'[g] = phase[g], current'[g] = current[g]
  PROVE  RvHart(g)'
BY DEF RvHart

\* A step that is not a handler's.
LEMMA RvCalm ==
  ASSUME Core, RvInv, NEW h \in Harts, UNCHANGED <<mscratch, claimed, current>>, Stops(h),
         pend' \in [Harts -> SUBSET Signals]
  PROVE  RvInv'
<1>1. ASSUME NEW g \in Harts
      PROVE  phase'[g] = phase[g] \/ (phase'[g] = "off" /\ phase[g] = "task")
  BY DEF Core, Types, Stops
<1>2. ASSUME NEW g \in Harts PROVE RvHart(g)'
  <2>1. RvHart(g) BY DEF RvInv
  <2> QED BY <1>1, <2>1 DEF RvHart, Deciding
<1>3. claimed' # {} => phase'[0] = "dispatch"
  <2>1. claimed # {} => phase[0] = "dispatch" BY DEF RvInv
  <2> QED BY <1>1, <2>1, Numbers
<1>4. mscratch' \in [Harts -> Tops \cup ({"frame"} \X Tasks)] BY DEF RvInv
<1> QED BY <1>2, <1>3, <1>4 DEF RvInv

LEMMA RvTaskStep ==
  ASSUME Core, RvInv, IsrTops, board.arch = "riscv", UNCHANGED xtensa,
         \/ \E h \in Harts : TaskCode(h) /\ UNCHANGED riscv
         \/ \E h \in Harts : \E i \in Signals : Raise(h, i) /\ UNCHANGED riscv
         \/ \E s \in Sources : RvDevice(s)
         \/ \E h \in Harts : \E s \in Sources : RvPlicSet(h, s)
         \/ \E h \in Harts : RvStart(h) \/ RvExecute(h) \/ (\E t \in Tasks : RvSpawn(h, t))
  PROVE  Core' /\ RvInv' /\ IsrTops'
<1> USE Numbers
<1>b. Booted' = Booted BY DEF xtensa, Booted
<1>p. pend \in [Harts -> SUBSET Signals] BY DEF RvInv
<1>1. ASSUME NEW h \in Harts, TaskCode(h) \/ (\E i \in Signals : Raise(h, i)), UNCHANGED riscv
      PROVE  Core' /\ RvInv' /\ IsrTops'
  <2>1. Core' /\ current' = current /\ Stops(h) /\ Interrupts(h)
    BY <1>1, <1>b, TaskCodeCore
  <2>2. UNCHANGED <<mscratch, claimed, isr>> BY <1>1 DEF riscv
  <2>3. pend' \in [Harts -> SUBSET Signals] BY <1>p, <2>1 DEF Interrupts
  <2>4. RvInv' BY <2>1, <2>2, <2>3, RvCalm
  <2> QED BY <2>1, <2>2, <2>4 DEF IsrTops
<1>2. ASSUME NEW s, RvDevice(s) \/ (\E h \in Harts : RvPlicSet(h, s))
      PROVE  Core' /\ RvInv' /\ IsrTops'
  <2>1. UNCHANGED <<machine, mscratch, isr, claimed>> BY <1>2 DEF RvDevice, RvPlicSet
  <2>2. UNCHANGED <<board, spawned, done, current, sp, resume, at, regs, phase, pend, frame>>
    BY <2>1 DEF machine, kernel
  <2>3. Core' BY <1>b, <2>2, CalmCore
  <2>4. Stops(0) /\ pend' \in [Harts -> SUBSET Signals] BY <1>p, <2>2 DEF Stops
  <2>5. RvInv' BY <2>1, <2>2, <2>4, RvCalm
  <2> QED BY <2>1, <2>3, <2>5 DEF IsrTops
<1>3. ASSUME NEW h \in Harts, RvStart(h) PROVE Core' /\ RvInv' /\ IsrTops'
  <2>1. PICK c \in Tasks : StartsWith(h, c) /\ rivet_trap_resume(h, sp[c])
    BY <1>3 DEF RvStart
  <2>2. /\ UNCHANGED <<board, spawned, done, sp, resume, at, pend, frame, mscratch, isr, claimed>>
        /\ phase' = [phase EXCEPT ![h] = "task"] /\ regs' = [regs EXCEPT ![h] = frame[sp[c][2]]]
    BY <1>3, <2>1 DEF RvStart, rivet_trap_resume, riscv
  <2>3. sp[c] = <<"frame", c>> /\ Holds(frame[c], c, at[c])
    <3>1. Resumable(c, sp[c]) BY <2>1 DEF StartsWith, Core, Waits
    <3> QED BY <3>1 DEF Resumable, ResumableAt
  <2>4. /\ regs' \in [Harts -> Regs] /\ regs'[h] = frame[c]
        /\ \A g \in Harts \ {h} : regs'[g] = regs[g]
    <3>1. sp[c][2] = c BY <2>3
    <3>2. frame[c] \in Regs /\ regs \in [Harts -> Regs] BY DEF Core, Types
    <3> QED BY <2>2, <3>1, <3>2
  <2>5. Core' BY <1>b, <2>1, <2>2, <2>3, <2>4, StartCore
  <2>6. /\ phase[h] = "boot" /\ phase'[h] = "task"
        /\ \A g \in Harts \ {h} : phase'[g] = phase[g] /\ current'[g] = current[g]
    BY <2>1, <2>2 DEF StartsWith, Core, Types
  <2>7. ASSUME NEW g \in Harts PROVE RvHart(g)'
    <3>r. RvHart(g) BY DEF RvInv
    <3>1. CASE g # h BY <3>r, <3>1, <2>2, <2>6, RvOther
    <3>2. CASE g = h BY <3>r, <3>2, <2>2, <2>6 DEF RvHart, Deciding
    <3> QED BY <3>1, <3>2
  <2>8. claimed' # {} => phase'[0] = "dispatch"
    <3>1. claimed # {} => phase[0] = "dispatch" BY DEF RvInv
    <3> QED BY <3>1, <2>2, <2>6
  <2>9. RvInv' BY <1>p, <2>2, <2>7, <2>8 DEF RvInv
  <2> QED BY <2>2, <2>5, <2>9 DEF IsrTops
<1>4. ASSUME NEW h \in Harts, RvExecute(h) PROVE Core' /\ RvInv' /\ IsrTops'
  <2>1. Execute(h) /\ UNCHANGED <<kernel, phase, pend, frame, mscratch, isr, claimed>>
    BY <1>4 DEF RvExecute, riscv
  <2>2. Core' BY <1>b, <2>1, ExecuteCore
  <2>3. current' = current /\ Stops(h) /\ pend' \in [Harts -> SUBSET Signals]
    BY <1>p, <2>1 DEF kernel, Stops
  <2>4. RvInv' BY <2>1, <2>3, RvCalm
  <2> QED BY <2>1, <2>2, <2>4 DEF IsrTops
<1>5. ASSUME NEW h \in Harts, NEW t \in Tasks, RvSpawn(h, t) PROVE Core' /\ RvInv' /\ IsrTops'
  <2>1. /\ t \notin spawned /\ spawned' = spawned \cup {t}
        /\ frame' = [frame EXCEPT ![t] = Fresh(t)] /\ sp' = [sp EXCEPT ![t] = <<"frame", t>>]
        /\ UNCHANGED <<board, done, current, at, regs, phase, pend, resume, mscratch, isr, claimed>>
    BY <1>5 DEF RvSpawn, rv_init_task_stack
  <2>2. /\ frame' \in [Tasks -> Regs] /\ sp' \in [Tasks -> Pointers]
        /\ \A u \in Tasks \ {t} : sp'[u] = sp[u] /\ frame'[u] = frame[u]
        /\ frame'[t] = Fresh(t) /\ sp'[t] = <<"frame", t>>
    BY <2>1, FreshRegs, PointerTypes DEF Core, Types
  <2>3. at[t] = 0 BY <2>1 DEF Core, Unborn
  <2>4. ResumableAt(board.arch, t, at[t], frame'[t], Booted', sp'[t])
    BY <2>2, <2>3, FreshRegs DEF ResumableAt
  <2>5. Core' BY <1>b, <2>1, <2>2, <2>4, SpawnCore
  <2>6. Stops(h) /\ pend' \in [Harts -> SUBSET Signals] BY <1>p, <2>1 DEF Stops
  <2>7. RvInv' BY <2>1, <2>6, RvCalm
  <2> QED BY <2>1, <2>5, <2>7 DEF IsrTops
<1> QED BY <1>1, <1>2, <1>3, <1>4, <1>5


\* The parts of RvInv a handler's step of hart h cannot disturb.
LEMMA RvHandler ==
  ASSUME Core, RvInv, NEW h \in Harts,
         mscratch' \in [Harts -> Tops \cup ({"frame"} \X Tasks)],
         pend' \in [Harts -> SUBSET Signals],
         \A g \in Harts \ {h} : /\ mscratch'[g] = mscratch[g] /\ phase'[g] = phase[g]
                                /\ current'[g] = current[g],
         RvHart(h)', claimed' # {} => phase'[0] = "dispatch"
  PROVE  RvInv'
<1>1. ASSUME NEW g \in Harts PROVE RvHart(g)'
  <2>1. CASE g = h BY <2>1
  <2>2. CASE g # h
    <3>1. RvHart(g) BY DEF RvInv
    <3> QED BY <2>2, <3>1, RvOther
  <2> QED BY <2>1, <2>2
<1> QED BY <1>1 DEF RvInv

LEMMA RvTrapStep ==
  ASSUME Core, RvInv, IsrTops, board.arch = "riscv", UNCHANGED xtensa,
         NEW h \in Harts, NEW cause \in {"timer", "soft", "ext", "fault"}, RvTrap(h, cause)
  PROVE  Core' /\ RvInv' /\ IsrTops'
<1> USE Numbers
<1> DEFINE c == current[h]
<1>b. Booted' = Booted BY DEF xtensa, Booted
<1>h. phase[h] = "task" /\ RvHart(h) BY DEF RvInv, RvTrap
<1>1. mscratch[h] = isr_stack_top(h) BY <1>h DEF RvHart
<1>2. /\ frame' = [frame EXCEPT ![regs[h].task] = regs[h]]
      /\ mscratch' = [mscratch EXCEPT ![h] = <<"frame", regs[h].task>>]
      /\ isr' = [isr EXCEPT ![h] = mscratch[h]]
      /\ phase' = [phase EXCEPT ![h] = cause]
      /\ UNCHANGED <<board, spawned, done, current, sp, resume, at, regs, pend, claimed>>
  BY DEF RvTrap, kernel
<1>3. cause \in Deciding \ Resuming BY DEF Deciding, Resuming
<1>7. /\ Core' /\ c \in Tasks /\ regs[h].task = c
      /\ phase'[h] = cause /\ \A g \in Harts \ {h} : phase'[g] = phase[g]
  BY <1>b, <1>h, <1>2, <1>3, SaveCore
<1>8. cause = "ext" => h = 0
  <2>1. pend[h] \subseteq Signals BY DEF RvInv
  <2> QED BY <2>1 DEF RvTrap, Causes, Signals
<1>9. RvInv'
  <2>1. /\ mscratch' \in [Harts -> Tops \cup ({"frame"} \X Tasks)]
        /\ mscratch'[h] = <<"frame", c>>
        /\ \A g \in Harts \ {h} : mscratch'[g] = mscratch[g]
    BY <1>2, <1>7 DEF RvInv
  <2>2. pend' \in [Harts -> SUBSET Signals] BY <1>2 DEF RvInv
  <2>3. RvHart(h)' BY <1>2, <1>7, <1>8, <2>1 DEF RvHart, Deciding
  <2>4. claimed' # {} => phase'[0] = "dispatch"
    <3>1. claimed # {} => phase[0] = "dispatch" BY DEF RvInv
    <3> QED BY <1>h, <1>2, <1>7, <3>1
  <2> QED BY <1>2, <1>7, <2>1, <2>2, <2>3, <2>4, RvHandler
<1>10. IsrTops' BY <1>1, <1>2 DEF IsrTops
<1> QED BY <1>7, <1>9, <1>10

LEMMA RvDecideStep ==
  ASSUME Core, RvInv, IsrTops, board.arch = "riscv", UNCHANGED xtensa, NEW h \in Harts,
         RvFault(h) \/ (\E cause \in {"timer", "soft"} : RvReschedule(h, cause))
  PROVE  Core' /\ RvInv' /\ IsrTops'
<1> USE Numbers
<1> DEFINE c == current[h]
<1>b. Booted' = Booted BY DEF xtensa, Booted
<1>h. HartInv(h) /\ RvHart(h) /\ phase[h] \in {"timer", "soft", "fault"}
  BY DEF Core, RvInv, RvFault, RvReschedule
<1>1. /\ c \in Tasks /\ Holds(frame[c], c, at[c]) /\ mscratch[h] = <<"frame", c>>
  BY <1>h DEF HartInv, Engaged, Deciding, Core, Types, RvHart
<1>2. /\ phase' = [phase EXCEPT ![h] = "exit"]
      /\ UNCHANGED <<board, spawned, at, regs, frame, mscratch, isr, claimed>>
  BY DEF RvFault, RvReschedule, riscv
<1>3. pend' \in [Harts -> SUBSET Signals] BY DEF RvFault, RvReschedule, RvInv
<1>4. "exit" \in Resuming \ Deciding BY DEF Resuming, Deciding
<1>5. phase[h] \in Deciding BY <1>h DEF Deciding
<1>6. /\ Core' /\ phase'[h] = "exit"
      /\ \A g \in Harts \ {h} : phase'[g] = phase[g] /\ current'[g] = current[g]
  <2>1. CASE RvFault(h)
    <3>1. OnFault(h) /\ sp' = sp /\ sp \in [Tasks -> Pointers]
      BY <2>1 DEF RvFault, Core, Types
    <3> QED BY <1>b, <1>2, <1>4, <1>5, <3>1, FaultCore
  <2>2. CASE \E cause \in {"timer", "soft"} : RvReschedule(h, cause)
    <3>1. OnTick(h, mscratch[h]) BY <2>2 DEF RvReschedule, InterruptedSp
    <3>2. mscratch[h] \in Pointers /\ Resumable(c, mscratch[h])
      BY <1>1, PointerTypes DEF Resumable, ResumableAt
    <3> QED BY <1>b, <1>2, <1>4, <1>5, <3>1, <3>2, TickCore
  <2> QED BY <2>1, <2>2
<1>7. RvInv'
  <2>2. RvHart(h)' BY <1>6 DEF RvHart, Deciding
  <2>3. claimed' # {} => phase'[0] = "dispatch"
    <3>1. claimed # {} => phase[0] = "dispatch" BY DEF RvInv
    <3> QED BY <1>h, <1>2, <1>6, <3>1
  <2>4. mscratch' \in [Harts -> Tops \cup ({"frame"} \X Tasks)] BY <1>2 DEF RvInv
  <2> QED BY <1>2, <1>3, <1>6, <2>2, <2>3, <2>4, RvHandler
<1> QED BY <1>2, <1>6, <1>7 DEF IsrTops

LEMMA RvClaimStep ==
  ASSUME Core, RvInv, IsrTops, board.arch = "riscv", UNCHANGED xtensa, NEW h \in Harts,
         RvClaim(h) \/ RvComplete(h)
  PROVE  Core' /\ RvInv' /\ IsrTops'
<1> USE Numbers
<1> DEFINE c == current[h]
<1>b. Booted' = Booted BY DEF xtensa, Booted
<1>h. HartInv(h) /\ RvHart(h) /\ phase[h] \in {"ext", "dispatch"}
  BY DEF Core, RvInv, RvClaim, RvComplete
<1>1. /\ h = 0 /\ c \in Tasks /\ Holds(frame[c], c, at[c]) /\ mscratch[h] = <<"frame", c>>
  BY <1>h DEF HartInv, Engaged, Deciding, Core, Types, RvHart
<1>2. /\ UNCHANGED <<board, spawned, done, current, sp, at, regs, frame, mscratch, isr>>
      /\ \/ resume' = resume /\ phase[h] = "dispatch"
         \/ resume' = [resume EXCEPT ![h] = mscratch[h]]
      /\ \/ phase' = [phase EXCEPT ![h] = "exit"]
         \/ phase' = [phase EXCEPT ![h] = "dispatch"]
  BY DEF RvClaim, RvComplete, riscv, kernel, InterruptedSp
<1>3. pend' \in [Harts -> SUBSET Signals]
  <2>1. pend' = pend \/ (\E woken \in SUBSET {"soft"} : pend' = [pend EXCEPT ![h] = @ \cup woken])
    BY DEF RvClaim, RvComplete
  <2>2. ASSUME NEW woken \in SUBSET {"soft"}, pend' = [pend EXCEPT ![h] = @ \cup woken]
        PROVE  pend' \in [Harts -> SUBSET Signals]
    <3>1. pend \in [Harts -> SUBSET Signals] BY DEF RvInv
    <3>2. pend[h] \cup woken \in SUBSET Signals BY <3>1 DEF Signals
    <3> QED BY <2>2, <3>1, <3>2
  <2>3. pend \in [Harts -> SUBSET Signals] BY DEF RvInv
  <2> QED BY <2>1, <2>2, <2>3
<1>4. /\ phase' \in [Harts -> Phases] /\ phase'[h] \in {"exit", "dispatch"}
      /\ \A g \in Harts \ {h} : phase'[g] = phase[g]
  BY <1>2 DEF Core, Types, Phases, Engaged, Deciding, Resuming
<1>5. /\ resume' \in [Harts -> Pointers] /\ resume'[h] = <<"frame", c>>
      /\ \A g \in Harts \ {h} : resume'[g] = resume[g]
  <2>1. resume \in [Harts -> Pointers] /\ mscratch[h] \in Pointers
    BY <1>1, PointerTypes DEF Core, Types
  <2>2. phase[h] = "dispatch" => Resumable(c, resume[h]) BY <1>h DEF HartInv, Resuming
  <2> QED BY <1>1, <1>2, <2>1, <2>2 DEF Resumable, ResumableAt
<1>6. Types' BY <1>2, <1>4, <1>5 DEF Core, Types
<1>7. \A t \in Tasks : Kept(t) BY <1>b, <1>2 DEF Kept
<1>8. ResumableAt(board.arch, c, at[c], frame'[c], Booted', resume'[h])
  BY <1>1, <1>2, <1>5 DEF ResumableAt
<1>9. Core'
  <2>1. phase'[h] # "boot" /\ phase'[h] # "task" BY <1>4
  <2>2. c # NONE BY <1>1
  <2> QED BY <1>1, <1>2, <1>4, <1>5, <1>6, <1>7, <1>8, <2>1, <2>2, HandlerCore
<1>10. RvInv'
  <2>1. RvHart(h)' BY <1>1, <1>2, <1>4 DEF RvHart
  <2>2. claimed' # {} => phase'[0] = "dispatch"
    <3>1. claimed # {} => phase[0] = "dispatch" BY DEF RvInv
    <3>2. phase \in [Harts -> Phases] BY DEF Core, Types
    <3> QED BY <1>1, <3>1, <3>2 DEF RvClaim, RvComplete
  <2>3. mscratch' \in [Harts -> Tops \cup ({"frame"} \X Tasks)] BY <1>2 DEF RvInv
  <2> QED BY <1>2, <1>3, <1>4, <2>1, <2>2, <2>3, RvHandler
<1> QED BY <1>2, <1>9, <1>10 DEF IsrTops

LEMMA RvExitStep ==
  ASSUME Core, RvInv, IsrTops, board.arch = "riscv", UNCHANGED xtensa, NEW h \in Harts,
         RvExit(h)
  PROVE  Core' /\ RvInv' /\ IsrTops'
<1> USE Numbers
<1> DEFINE c == current[h]
<1>b. Booted' = Booted BY DEF xtensa, Booted
<1>h. HartInv(h) /\ RvHart(h) /\ phase[h] = "exit"
  BY DEF Core, RvInv, RvExit
<1>1. c \in Tasks /\ Resumable(c, resume[h])
  BY <1>h DEF HartInv, Engaged, Resuming, Core, Types
<1>r. resume[h] = <<"frame", c>>
  BY <1>1 DEF Resumable, ResumableAt
<1>2. /\ UNCHANGED <<board, spawned, done, current, sp, at, frame, pend, isr, claimed>>
      /\ phase' = [phase EXCEPT ![h] = "task"] /\ resume' = [resume EXCEPT ![h] = <<"none">>]
      /\ regs' = [regs EXCEPT ![h] = frame[resume[h][2]]]
      /\ mscratch' = [mscratch EXCEPT ![h] = isr_stack_top(h)]
  BY DEF RvExit, rivet_trap_resume, rearmed
<1>4. /\ Core' /\ phase'[h] = "task" /\ \A g \in Harts \ {h} : phase'[g] = phase[g]
  <2>1. resume[h][2] = c BY <1>r
  <2>2. phase[h] \in Resuming /\ board.arch # "xtensa" BY <1>h DEF Resuming
  <2> QED BY <1>b, <1>r, <1>2, <2>1, <2>2, ResumeCore
<1>10. RvInv'
  <2>1. /\ mscratch' \in [Harts -> Tops \cup ({"frame"} \X Tasks)]
        /\ mscratch'[h] = isr_stack_top(h)
        /\ \A g \in Harts \ {h} : mscratch'[g] = mscratch[g]
    BY <1>2 DEF RvInv, Tops, isr_stack_top
  <2>2. RvHart(h)' BY <1>4, <2>1 DEF RvHart, Deciding, isr_stack_top
  <2>3. claimed' # {} => phase'[0] = "dispatch"
    <3>1. claimed # {} => phase[0] = "dispatch" BY DEF RvInv
    <3> QED BY <1>h, <1>2, <1>4, <3>1
  <2>4. pend' \in [Harts -> SUBSET Signals] BY <1>2 DEF RvInv
  <2> QED BY <1>2, <1>4, <2>1, <2>2, <2>3, <2>4, RvHandler
<1> QED BY <1>2, <1>4, <1>10 DEF IsrTops

LEMMA RvNextStep ==
  ASSUME Core, RvInv, IsrTops, board.arch = "riscv", UNCHANGED xtensa, RvNext
  PROVE  Core' /\ RvInv' /\ IsrTops'
<1>1. CASE \/ \E h \in Harts : TaskCode(h) /\ UNCHANGED riscv
           \/ \E h \in Harts : \E i \in Signals : Raise(h, i) /\ UNCHANGED riscv
           \/ \E s \in Sources : RvDevice(s)
           \/ \E h \in Harts : \E s \in Sources : RvPlicSet(h, s)
           \/ \E h \in Harts : RvStart(h) \/ RvExecute(h) \/ (\E t \in Tasks : RvSpawn(h, t))
  BY <1>1, RvTaskStep
<1>2. ASSUME NEW h \in Harts,
             \/ \E cause \in {"timer", "soft", "ext", "fault"} : RvTrap(h, cause)
             \/ \E cause \in {"timer", "soft"} : RvReschedule(h, cause)
             \/ RvClaim(h) \/ RvComplete(h) \/ RvFault(h) \/ RvExit(h)
      PROVE  Core' /\ RvInv' /\ IsrTops'
  BY <1>2, RvTrapStep, RvDecideStep, RvClaimStep, RvExitStep
<1> QED BY <1>1, <1>2 DEF RvNext, Signals


-----------------------------------------------------------------------------
(* ARMv6-M: what it does to the contexts, it does on any number of harts. *)
LEMMA M0TaskStep ==
  ASSUME Core, NEW h \in Harts, board.arch = "cortex_m0", Booted' = Booted,
         \/ TaskCode(h) \/ (\E i \in Signals : Raise(h, i))
         \/ M0SysTick(h) \/ M0Start(h) \/ M0Execute(h) \/ (\E c \in Tasks : M0Spawn(h, c))
  PROVE  Core'
<1> USE Numbers
<1>1. CASE TaskCode(h) \/ (\E i \in Signals : Raise(h, i))
  BY <1>1, TaskCodeCore
<1>2. CASE M0SysTick(h)
  <2>1. UNCHANGED <<board, spawned, done, current, sp, resume, at, regs, phase, frame>>
    BY <1>2 DEF M0SysTick, kernel
  <2> QED BY <2>1, CalmCore
<1>3. CASE M0Start(h)
  <2>1. PICK c \in Tasks : /\ StartsWith(h, c)
                           /\ regs' = [regs EXCEPT ![h] = [frame[c] EXCEPT !.ret = "none"]]
    BY <1>3 DEF M0Start
  <2>2. Resumable(c, sp[c]) BY <2>1 DEF StartsWith, Core, Waits
  <2>3. Holds(frame[c], c, at[c]) /\ frame[c] \in Regs
    BY <2>2 DEF Resumable, ResumableAt, Core, Types
  <2> DEFINE r == [frame[c] EXCEPT !.ret = "none"]
  <2>4. r \in Regs /\ Holds(r, c, at[c]) BY <2>3 DEF Regs, Holds
  <2> HIDE DEF r
  <2>5. /\ regs' \in [Harts -> Regs] /\ regs'[h] = r
        /\ \A g \in Harts \ {h} : regs'[g] = regs[g]
    BY <2>1, <2>4 DEF Core, Types, r
  <2>6. /\ UNCHANGED <<board, spawned, done, sp, resume, at, frame>>
        /\ phase' = [phase EXCEPT ![h] = "task"]
    BY <1>3 DEF M0Start
  <2> QED BY <2>1, <2>4, <2>5, <2>6, StartCore
<1>4. CASE M0Execute(h) BY <1>4, ExecuteCore DEF M0Execute
<1>5. ASSUME NEW c \in Tasks, M0Spawn(h, c) PROVE Core'
  <2>1. /\ c \notin spawned /\ spawned' = spawned \cup {c}
        /\ frame' = [frame EXCEPT ![c] = Fresh(c)] /\ sp' = [sp EXCEPT ![c] = <<"frame", c>>]
        /\ UNCHANGED <<board, done, current, at, regs, phase, resume>>
    BY <1>5 DEF M0Spawn, m0_init_task_stack_impl
  <2>2. /\ frame' \in [Tasks -> Regs] /\ sp' \in [Tasks -> Pointers]
        /\ \A u \in Tasks \ {c} : sp'[u] = sp[u] /\ frame'[u] = frame[u]
        /\ frame'[c] = Fresh(c) /\ sp'[c] = <<"frame", c>>
    BY <2>1, FreshRegs, PointerTypes DEF Core, Types
  <2>3. at[c] = 0 BY <2>1 DEF Core, Unborn
  <2>4. ResumableAt(board.arch, c, at[c], frame'[c], Booted', sp'[c])
    BY <2>2, <2>3, FreshRegs DEF ResumableAt
  <2> QED BY <2>1, <2>2, <2>4, SpawnCore
<1> QED BY <1>1, <1>2, <1>3, <1>4, <1>5

LEMMA M0HandlerStep ==
  ASSUME Core, NEW h \in Harts, board.arch = "cortex_m0", Booted' = Booted,
         M0PendSV(h) \/ m0_rivet_pendsv_rust(h) \/ M0Unstack(h)
  PROVE  Core'
<1>h. HartInv(h) BY DEF Core
<1>p. "pendsv" \in Deciding \ Resuming /\ "unstack" \in Resuming \ Deciding
  BY DEF Deciding, Resuming
<1>1. CASE M0PendSV(h)
  <2>1. /\ phase[h] = "task" /\ frame' = [frame EXCEPT ![regs[h].task] = regs[h]]
        /\ phase' = [phase EXCEPT ![h] = "pendsv"]
        /\ UNCHANGED <<board, spawned, done, current, sp, resume, at, regs>>
    BY <1>1 DEF M0PendSV, M0Taken, kernel
  <2> QED BY <1>p, <2>1, SaveCore
<1>2. CASE m0_rivet_pendsv_rust(h)
  <2> DEFINE c == current[h]
  <2>1. /\ phase[h] = "pendsv" /\ OnTick(h, <<"frame", c>>)
        /\ phase' = [phase EXCEPT ![h] = "unstack"]
        /\ UNCHANGED <<board, spawned, at, regs, frame>>
    BY <1>2 DEF m0_rivet_pendsv_rust
  <2>2. c \in Tasks /\ Holds(frame[c], c, at[c])
    BY <1>h, <1>p, <2>1 DEF HartInv, Engaged, Core, Types
  <2>3. <<"frame", c>> \in Pointers /\ Resumable(c, <<"frame", c>>)
    BY <2>2, PointerTypes DEF Resumable, ResumableAt
  <2>4. phase[h] \in Deciding BY <1>p, <2>1
  <2> QED BY <1>p, <2>1, <2>3, <2>4, TickCore
<1>3. CASE M0Unstack(h)
  <2>1. /\ phase[h] = "unstack" /\ regs' = [regs EXCEPT ![h] = frame[resume[h][2]]]
        /\ resume' = [resume EXCEPT ![h] = <<"none">>]
        /\ phase' = [phase EXCEPT ![h] = "task"]
        /\ UNCHANGED <<board, spawned, done, current, sp, at, frame>>
    BY <1>3 DEF M0Unstack
  <2>2. resume[h] = <<"frame", current[h]>>
    BY <1>h, <1>p, <2>1 DEF HartInv, Resumable, ResumableAt
  <2>3. resume[h][2] = current[h] /\ phase[h] \in Resuming /\ board.arch # "xtensa"
    BY <1>p, <2>1, <2>2
  <2> QED BY <2>1, <2>2, <2>3, ResumeCore
<1> QED BY <1>1, <1>2, <1>3

LEMMA M0NextStep ==
  ASSUME Core, board.arch = "cortex_m0", Booted' = Booted, M0Next
  PROVE  Core'
BY M0TaskStep, M0HandlerStep DEF M0Next, Signals


-----------------------------------------------------------------------------
(* One hart, and nothing executed before it starts. *)
Single ==
  /\ \A h \in Harts : h # 0 => phase[h] = "off"
  /\ phase[0] = "boot" => \A t \in Tasks : at[t] = 0

LEMMA SingleStep ==
  ASSUME Core, Single, NEW h \in Harts, phase[h] # "off",
         \A g \in Harts \ {h} : phase'[g] = phase[g],
         phase'[h] = "boot" => phase[h] = "boot",
         at' = at \/ phase[h] = "task"
  PROVE  h = 0 /\ Single'
<1>1. h = 0 /\ 0 \in Harts BY Numbers DEF Single
<1>2. \A g \in Harts : g # 0 => phase'[g] = "off" BY <1>1 DEF Single
<1>3. ASSUME phase'[0] = "boot" PROVE \A t \in Tasks : at'[t] = 0
  BY <1>1, <1>3 DEF Single
<1> QED BY <1>1, <1>2, <1>3 DEF Single

(* ARMv7-M. *)
Building == {"open", "unmasked", "built"}

Windows == ((Building \cup {"framed"}) \X Tasks) \cup {NoSpawn}

\* The slot of a spawn in progress belongs to nobody else, and its frame, once
\* built, starts the task.
WindowInv(t) == window[t] # NoSpawn =>
  /\ window[t][2] \notin spawned
  /\ window[t][1] \in {"built", "framed"} => frame[window[t][2]] = Fresh(window[t][2])
  /\ \A u \in Tasks \ {t} : window[u][2] # window[t][2]

CmInv ==
  /\ Single
  /\ sp \in [Tasks -> {"frame", "hardware frame"} \X Tasks]
  /\ phase[0] \in {"task", "pendsv", "unstack", "stmia"} => region7 = current[0]
  /\ window \in [Tasks -> Windows]
  /\ deny \/ (\E t \in Tasks : window[t][1] \in Building)
  /\ \A t \in Tasks : WindowInv(t)

\* A step no spawn takes.
LEMMA CmWindows ==
  ASSUME CmInv, Single', window' = window, deny' = deny,
         sp' \in [Tasks -> {"frame", "hardware frame"} \X Tasks],
         phase'[0] \in {"task", "pendsv", "unstack", "stmia"} => region7' = current'[0],
         spawned' \subseteq spawned, \A t \in Tasks \ spawned : frame'[t] = frame[t]
  PROVE  CmInv'
<1>1. ASSUME NEW t \in Tasks PROVE WindowInv(t)'
  <2>1. WindowInv(t) /\ window[t] \in Windows BY DEF CmInv
  <2>2. window[t] # NoSpawn => window[t][2] \in Tasks BY <2>1 DEF Windows
  <2> QED BY <2>1, <2>2 DEF WindowInv
<1> QED BY <1>1 DEF CmInv

LEMMA CmTaskStep ==
  ASSUME Core, CmInv, board.arch = "cortex_m", Booted' = Booted, NEW h \in Harts,
         \/ CmTaskCode(h)
         \/ \E i \in Signals : Raise(h, i) /\ UNCHANGED cortex_m
         \/ CmExecute(h) \/ SysTick(h) \/ CmStart(h)
  PROVE  Core' /\ CmInv'
<1> USE Numbers
<1>s. Single /\ sp \in [Tasks -> {"frame", "hardware frame"} \X Tasks] BY DEF CmInv
<1>c. phase[0] \in {"task", "pendsv", "unstack", "stmia"} => region7 = current[0] BY DEF CmInv
<1>1. CASE CmTaskCode(h) \/ (\E i \in Signals : Raise(h, i) /\ UNCHANGED cortex_m)
  <2>1. (TaskCode(h) \/ (\E i \in Signals : Raise(h, i))) /\ UNCHANGED cortex_m
    BY <1>1 DEF CmTaskCode, TaskCode
  <2>2. /\ Core' /\ Stops(h)
        /\ current' = current /\ frame' = frame /\ sp' = sp /\ spawned' \subseteq spawned
    BY <2>1, TaskCodeCore
  <2>3. UNCHANGED <<deny, region7, window>> BY <2>1 DEF cortex_m
  <2>4. phase[h] # "off" /\ (at' = at \/ phase[h] = "task")
    BY <2>1 DEF TaskCode, irq_save, irq_restore, Return, despawn, Raise, Running
  <2>5. \A g \in Harts : phase'[g] = phase[g] \/ (g = h /\ phase'[g] = "off")
    BY <2>2 DEF Stops, Core, Types
  <2>6. /\ phase'[h] = "boot" => phase[h] = "boot"
        /\ \A g \in Harts \ {h} : phase'[g] = phase[g]
    BY <2>5
  <2>7. Single' BY <1>s, <2>4, <2>6, SingleStep
  <2>8. phase'[0] \in {"task", "pendsv", "unstack", "stmia"} => region7' = current'[0]
    BY <1>c, <2>2, <2>3, <2>5
  <2>9. CmInv' BY <1>s, <2>2, <2>3, <2>7, <2>8, CmWindows
  <2> QED BY <2>2, <2>9
<1>2. CASE CmExecute(h)
  <2>1. Execute(h) /\ phase[h] = "task" /\ UNCHANGED <<kernel, phase, frame, deny, region7, window>>
    BY <1>2 DEF CmExecute, cortex_m, Execute, Running
  <2>2. Core' BY <2>1, ExecuteCore
  <2>3. UNCHANGED <<spawned, current, sp>> BY <2>1 DEF kernel
  <2>4. phase[h] # "off" /\ Single' BY <1>s, <2>1, SingleStep
  <2>5. CmInv' BY <1>s, <1>c, <2>1, <2>3, <2>4, CmWindows
  <2> QED BY <2>2, <2>5
<1>3. CASE SysTick(h)
  <2>1. /\ UNCHANGED <<board, spawned, done, current, sp, resume, at, regs, phase, frame>>
        /\ UNCHANGED <<deny, region7, window>>
    BY <1>3 DEF SysTick, kernel, cortex_m
  <2>2. Core' BY <2>1, CalmCore
  <2>3. Single' BY <1>s, <2>1 DEF Single
  <2>4. CmInv' BY <1>s, <1>c, <2>1, <2>3, CmWindows
  <2> QED BY <2>2, <2>4
<1>4. CASE CmStart(h)
  <2>1. PICK c \in Tasks : /\ StartsWith(h, c)
                           /\ regs' = [regs EXCEPT ![h] = [Fresh(c) EXCEPT !.ret = "none"]]
                           /\ region7' = c
    BY <1>4 DEF CmStart, set_current_stack
  <2>2. /\ UNCHANGED <<board, spawned, done, sp, resume, at, frame, deny, window>>
        /\ phase' = [phase EXCEPT ![h] = "task"] /\ phase[h] = "boot"
        /\ current' = [current EXCEPT ![h] = c]
    BY <1>4, <2>1 DEF CmStart, StartsWith
  <2>3. h = 0 /\ at[c] = 0 BY <1>s, <2>2 DEF Single
  <2> DEFINE r == [Fresh(c) EXCEPT !.ret = "none"]
  <2>4. r \in Regs /\ Holds(r, c, at[c]) BY <2>3 DEF Fresh, Regs, Holds
  <2> HIDE DEF r
  <2>5. /\ regs' \in [Harts -> Regs] /\ regs'[h] = r
        /\ \A g \in Harts \ {h} : regs'[g] = regs[g]
    BY <2>1, <2>4 DEF Core, Types, r
  <2>6. Core' BY <2>1, <2>2, <2>4, <2>5, StartCore
  <2>7. phase'[h] = "task" /\ (\A g \in Harts \ {h} : phase'[g] = phase[g]) /\ current'[h] = c
    BY <2>2 DEF Core, Types
  <2>8. Single' BY <1>s, <2>2, <2>7, SingleStep
  <2>9. CmInv' BY <1>s, <2>1, <2>2, <2>3, <2>7, <2>8, CmWindows
  <2> QED BY <2>6, <2>9
<1> QED BY <1>1, <1>2, <1>3, <1>4

LEMMA CmHandlerStep ==
  ASSUME Core, CmInv, board.arch = "cortex_m", Booted' = Booted, NEW h \in Harts,
         PendSV(h) \/ rivet_pendsv_rust(h) \/ Unstack(h) \/ MemManage(h) \/ StmiaFaults(h)
  PROVE  Core' /\ CmInv'
<1> USE Numbers
<1> DEFINE c == current[h]
<1>s. Single /\ sp \in [Tasks -> {"frame", "hardware frame"} \X Tasks] BY DEF CmInv
<1>c. phase[0] \in {"task", "pendsv", "unstack", "stmia"} => region7 = current[0] BY DEF CmInv
<1>h. HartInv(h) BY DEF Core
<1>p. "pendsv" \in Deciding \ Resuming /\ "unstack" \in Resuming \ Deciding
  BY DEF Deciding, Resuming
<1>1. CASE PendSV(h)
  <2>1. /\ phase[h] = "task" /\ frame' = [frame EXCEPT ![regs[h].task] = regs[h]]
        /\ phase' = [phase EXCEPT ![h] = "pendsv"]
        /\ UNCHANGED <<board, spawned, done, current, sp, resume, at, regs>>
        /\ UNCHANGED <<deny, region7, window>>
    BY <1>1 DEF PendSV, Taken, kernel, cortex_m
  <2>2. /\ Core' /\ c \in Tasks /\ regs[h].task = c
        /\ phase'[h] = "pendsv" /\ \A g \in Harts \ {h} : phase'[g] = phase[g]
        /\ \A t \in Tasks \ {c} : frame'[t] = frame[t]
    BY <1>p, <2>1, SaveCore
  <2>3. h = 0 /\ Single' BY <1>s, <2>1, <2>2, SingleStep
  <2>4. c \in spawned BY <1>h, <2>2 DEF HartInv
  <2>5. CmInv' BY <1>s, <1>c, <2>1, <2>2, <2>3, <2>4, CmWindows
  <2> QED BY <2>2, <2>5
<1>2. CASE rivet_pendsv_rust(h)
  <2>1. /\ phase[h] = "pendsv" /\ OnTick(h, <<"frame", c>>)
        /\ region7' = IF current'[h] = c THEN region7 ELSE current'[h]
        /\ phase' = [phase EXCEPT ![h] = "unstack"]
        /\ UNCHANGED <<board, spawned, at, regs, frame, deny, window>>
    BY <1>2 DEF rivet_pendsv_rust, set_current_stack
  <2>2. c \in Tasks /\ Holds(frame[c], c, at[c])
    BY <1>h, <1>p, <2>1 DEF HartInv, Engaged, Core, Types
  <2>3. <<"frame", c>> \in Pointers /\ Resumable(c, <<"frame", c>>)
    BY <2>2, PointerTypes DEF Resumable, ResumableAt
  <2>4. phase[h] \in Deciding BY <1>p, <2>1
  <2>5. /\ Core' /\ sp' = [sp EXCEPT ![c] = <<"frame", c>>]
        /\ phase'[h] = "unstack" /\ \A g \in Harts \ {h} : phase'[g] = phase[g]
    BY <1>p, <2>1, <2>3, <2>4, TickCore
  <2>6. h = 0 /\ Single' BY <1>s, <2>1, <2>5, SingleStep
  <2>7. sp' \in [Tasks -> {"frame", "hardware frame"} \X Tasks] BY <1>s, <2>2, <2>5
  <2>8. CmInv' BY <1>c, <2>1, <2>6, <2>7, CmWindows
  <2> QED BY <2>5, <2>8
<1>3. CASE Unstack(h)
  <2>1. /\ phase[h] = "unstack"
        /\ regs' = [regs EXCEPT ![h] = IF resume[h][1] = "frame" THEN frame[resume[h][2]] ELSE Lost]
        /\ resume' = [resume EXCEPT ![h] = <<"none">>]
        /\ phase' = [phase EXCEPT ![h] = "task"]
        /\ UNCHANGED <<board, spawned, done, current, sp, at, frame, deny, region7, window>>
    BY <1>3 DEF Unstack, cortex_m
  <2>2. resume[h] = <<"frame", c>>
    BY <1>h, <1>p, <2>1 DEF HartInv, Resumable, ResumableAt
  <2>3. resume[h][1] = "frame" /\ resume[h][2] = c BY <2>2
  <2>4. phase[h] \in Resuming /\ board.arch # "xtensa" BY <1>p, <2>1
  <2>5. regs' = [regs EXCEPT ![h] = frame[c]] BY <2>1, <2>3
  <2>6. /\ Core' /\ phase'[h] = "task" /\ \A g \in Harts \ {h} : phase'[g] = phase[g]
    BY <2>1, <2>2, <2>4, <2>5, ResumeCore
  <2>7. h = 0 /\ Single' BY <1>s, <2>1, <2>6, SingleStep
  <2>8. CmInv' BY <1>s, <1>c, <2>1, <2>7, CmWindows
  <2> QED BY <2>6, <2>8
<1>4. CASE MemManage(h) \/ StmiaFaults(h)
  <2> DEFINE p == IF MemManage(h) THEN "unstack" ELSE "stmia"
  <2>p. p \in Resuming \ Deciding BY DEF Resuming, Deciding
  <2>1. /\ phase[h] \in {"task", "stmia"} /\ OnFault(h)
        /\ sp' = [sp EXCEPT ![c] = <<"hardware frame", @[2]>>]
        /\ region7' = current'[h]
        /\ phase' = [phase EXCEPT ![h] = p]
        /\ UNCHANGED <<board, spawned, at, regs, frame, deny, window>>
    BY <1>4 DEF MemManage, StmiaFaults, Taken, set_current_stack, NotSpawning, Running
  <2>2. c \in Tasks BY <1>h, <2>1 DEF HartInv, Engaged, Resuming, Core, Types
  <2>3. sp[c][2] \in Tasks BY <1>s, <2>2
  <2> DEFINE s == <<"hardware frame", sp[c][2]>>
  <2>4. s \in Pointers /\ sp' = [sp EXCEPT ![c] = s] BY <1>s, <2>1, <2>2, <2>3, PointerTypes
  <2>5. sp' \in [Tasks -> {"frame", "hardware frame"} \X Tasks]
    <3>1. s \in {"frame", "hardware frame"} \X Tasks BY <2>3
    <3> HIDE DEF s
    <3> QED BY <1>s, <2>4, <3>1
  <2> HIDE DEF s, p
  <2>6. /\ Core' /\ phase'[h] = p /\ \A g \in Harts \ {h} : phase'[g] = phase[g]
    <3>1. phase[h] \in Deciding \cup {"task", "stmia"} BY <2>1
    <3>2. sp' \in [Tasks -> Pointers] /\ \A t \in Tasks \ {c} : sp'[t] = sp[t]
      BY <2>2, <2>4 DEF Core, Types
    <3> QED BY <2>p, <2>1, <3>1, <3>2, FaultCore
  <2>7. h = 0 /\ Single' BY <2>p, <1>s, <2>1, <2>6, SingleStep DEF Resuming
  <2>8. CmInv' BY <2>1, <2>5, <2>7, CmWindows
  <2> QED BY <2>6, <2>8
<1> QED BY <1>1, <1>2, <1>3, <1>4


\* A spawn in progress moves on.
LEMMA CmMoves ==
  ASSUME CmInv, NEW w \in Tasks,
         NEW from \in Building, NEW to \in Building \cup {"framed"}, Step(w, from, to),
         UNCHANGED <<spawned, sp, phase, current, at, region7>>,
         \A t \in Tasks : t # window[w][2] => frame'[t] = frame[t],
         to \in {"built", "framed"} => frame'[window[w][2]] = Fresh(window[w][2]),
         \/ deny'
         \/ deny' = deny /\ to \in Building
  PROVE  CmInv'
<1> DEFINE c == window[w][2]
<1>1. /\ window \in [Tasks -> Windows] /\ window[w][1] = from
      /\ window' = [window EXCEPT ![w] = <<to, c>>]
  BY DEF CmInv, Step
<1>2. window[w] # NoSpawn /\ c \in Tasks BY <1>1 DEF NoSpawn, Building, Windows
<1> HIDE DEF c
<1>3. <<to, c>> \in Windows BY <1>2 DEF Windows
<1>4. /\ window' \in [Tasks -> Windows] /\ window'[w] = <<to, c>>
      /\ \A t \in Tasks \ {w} : window'[t] = window[t]
  BY <1>1, <1>3
<1>5. window'[w][1] = to /\ window'[w][2] = c BY <1>4
<1>6. ASSUME NEW t \in Tasks PROVE WindowInv(t)'
  <2>1. WindowInv(t) /\ WindowInv(w) /\ window[t] \in Windows BY <1>1 DEF CmInv
  <2>2. CASE t = w
    <3>1. /\ c \notin spawned /\ \A u \in Tasks \ {w} : window[u][2] # c
      BY <1>2, <2>1 DEF WindowInv, c
    <3>2. to \in {"built", "framed"} => frame'[c] = Fresh(c) BY DEF c
    <3> QED BY <1>4, <1>5, <2>2, <3>1, <3>2 DEF WindowInv
  <2>3. CASE t # w
    <3>1. window'[t] = window[t] BY <1>4, <2>3
    <3>2. window[t] # NoSpawn => window[t][2] \in Tasks BY <2>1 DEF Windows
    <3>3. window[t][2] # c BY <1>2, <2>1, <2>3 DEF WindowInv, c
    <3>4. window[t] # NoSpawn => frame'[window[t][2]] = frame[window[t][2]]
      BY <3>2, <3>3 DEF c
    <3>5. \A u \in Tasks : window'[u][2] = window[u][2]
      BY <1>4, <1>5 DEF c
    <3> QED BY <2>1, <3>1, <3>4, <3>5 DEF WindowInv
  <2> QED BY <2>2, <2>3
<1>7. deny' \/ (\E t \in Tasks : window'[t][1] \in Building)
  <2>1. CASE deny' BY <2>1
  <2>2. CASE to \in Building BY <1>5, <2>2
  <2> QED BY <2>1, <2>2
<1> QED BY <1>4, <1>6, <1>7 DEF CmInv, Single

LEMMA CmSpawnStep ==
  ASSUME Core, CmInv, board.arch = "cortex_m", Booted' = Booted, NEW h \in Harts,
         \/ \E c \in Tasks : allow_scratch(h, c)
         \/ SvcUnmask(h) \/ Svc(h) \/ clear_scratch(h) \/ CmRegister(h)
  PROVE  Core' /\ CmInv'
<1> USE Numbers
<1> DEFINE w == regs[h].task
<1>s. Single /\ sp \in [Tasks -> {"frame", "hardware frame"} \X Tasks] BY DEF CmInv
<1>c. phase[0] \in {"task", "pendsv", "unstack", "stmia"} => region7 = current[0] BY DEF CmInv
<1>w. w \in Tasks
  <2>1. w # NONE /\ regs[h] \in Regs
    BY DEF allow_scratch, NotSpawning, SvcUnmask, Svc, clear_scratch, CmRegister, Running, Core, Types
  <2> QED BY <2>1 DEF Regs
<1>t. /\ window \in [Tasks -> Windows] /\ window[w] \in Windows
      /\ WindowInv(w)
  BY <1>w DEF CmInv
<1>1. ASSUME NEW c \in Tasks, allow_scratch(h, c) PROVE Core' /\ CmInv'
  <2>1. /\ UNCHANGED <<board, spawned, done, current, sp, resume, at, regs, phase, frame, region7>>
        /\ window' = [window EXCEPT ![w] = <<"open", c>>]
        /\ c \notin spawned /\ \A t \in Tasks : window[t][2] # c
    BY <1>1 DEF allow_scratch, kernel, Unclaimed
  <2>2. Core' BY <2>1, CalmCore
  <2>3. <<"open", c>> \in Windows BY DEF Windows, Building
  <2>4. /\ window' \in [Tasks -> Windows] /\ window'[w] = <<"open", c>>
        /\ \A t \in Tasks \ {w} : window'[t] = window[t]
    BY <1>w, <1>t, <2>1, <2>3
  <2>5. window'[w][1] = "open" /\ window'[w][2] = c BY <2>4
  <2>6. ASSUME NEW t \in Tasks PROVE WindowInv(t)'
    <3>1. CASE t = w BY <2>1, <2>4, <2>5, <3>1 DEF WindowInv
    <3>2. CASE t # w
      <4>1. WindowInv(t) /\ window'[t] = window[t] /\ window[t][2] # c
        BY <2>1, <2>4, <3>2 DEF CmInv
      <4>2. \A u \in Tasks : window'[u][2] \in {window[u][2], c} BY <2>4, <2>5
      <4> QED BY <2>1, <4>1, <4>2 DEF WindowInv
    <3> QED BY <3>1, <3>2
  <2>7. \E t \in Tasks : window'[t][1] \in Building BY <1>w, <2>5 DEF Building
  <2> QED BY <1>s, <1>c, <2>1, <2>2, <2>4, <2>6, <2>7 DEF CmInv, Single
<1>2. CASE SvcUnmask(h) \/ Svc(h) \/ clear_scratch(h)
  <2> DEFINE c == window[w][2]
  <2>1. /\ UNCHANGED <<board, spawned, done, current, sp, resume, at, regs, phase, region7>>
        /\ \/ Step(w, "open", "unmasked") /\ frame' = frame /\ deny' = deny
           \/ /\ Step(w, "unmasked", "built") /\ deny' = deny
              /\ frame' = [frame EXCEPT ![c] = Fresh(c)]
           \/ Step(w, "built", "framed") /\ frame' = frame /\ deny' = TRUE
    BY <1>2 DEF SvcUnmask, Svc, clear_scratch, kernel, machine, init_task_stack_impl
  <2>2. window[w] # NoSpawn /\ c \in Tasks /\ c \notin spawned
    <3>1. window[w][1] \in Building BY <2>1 DEF Step, Building
    <3>2. window[w] # NoSpawn /\ c \in Tasks BY <1>t, <3>1 DEF NoSpawn, Building, Windows
    <3> QED BY <1>t, <3>2 DEF WindowInv
  <2> HIDE DEF c, w
  <2>3. /\ frame' \in [Tasks -> Regs] /\ \A t \in Tasks \ {c} : frame'[t] = frame[t]
    <3>1. Fresh(c) \in Regs /\ frame \in [Tasks -> Regs] BY <2>2, FreshRegs DEF Core, Types
    <3> QED BY <2>1, <2>2, <3>1
  <2>4. Core'
    <3>1. c \in Tasks \ spawned /\ c \notin spawned' BY <2>1, <2>2
    <3>2. sp' \in [Tasks -> Pointers] /\ spawned' \in {spawned, spawned \cup {c}}
      BY <2>1 DEF Core, Types
    <3>3. \A u \in Tasks \ {c} : sp'[u] = sp[u] BY <2>1
    <3> QED BY <2>1, <2>3, <3>1, <3>2, <3>3, SpawnCore
  <2>5. CmInv'
    <3>u. UNCHANGED <<spawned, sp, phase, current, at, region7>> BY <2>1
    <3>f. \A t \in Tasks : t # window[w][2] => frame'[t] = frame[t] BY <2>3 DEF c
    <3>1. CASE Step(w, "open", "unmasked") /\ frame' = frame /\ deny' = deny
      <4>1. "open" \in Building /\ "unmasked" \in Building /\ "unmasked" \notin {"built", "framed"}
        BY DEF Building
      <4> QED BY <1>w, <3>u, <3>f, <3>1, <4>1, CmMoves
    <3>2. CASE /\ Step(w, "unmasked", "built") /\ deny' = deny
               /\ frame' = [frame EXCEPT ![c] = Fresh(c)]
      <4>1. "built" \in Building /\ "unmasked" \in Building BY DEF Building
      <4>2. frame'[window[w][2]] = Fresh(window[w][2]) BY <2>2, <3>2 DEF c, Core, Types
      <4> QED BY <1>w, <3>u, <3>f, <3>2, <4>1, <4>2, CmMoves
    <3>3. CASE Step(w, "built", "framed") /\ frame' = frame /\ deny' = TRUE
      <4>1. "built" \in Building /\ "framed" \in Building \cup {"framed"} BY DEF Building
      <4>2. frame'[window[w][2]] = Fresh(window[w][2])
        BY <1>t, <2>2, <3>3 DEF WindowInv, Step, c
      <4> QED BY <1>w, <3>u, <3>f, <3>3, <4>1, <4>2, CmMoves
    <3> QED BY <2>1, <3>1, <3>2, <3>3
  <2> QED BY <2>4, <2>5
<1>3. CASE CmRegister(h)
  <2> DEFINE c == window[w][2]
  <2>1. /\ UNCHANGED <<board, done, current, resume, at, regs, phase, frame, deny, region7>>
        /\ window[w][1] = "framed" /\ window' = [window EXCEPT ![w] = NoSpawn]
        /\ spawned' = spawned \cup {c} /\ sp' = [sp EXCEPT ![c] = <<"frame", c>>]
    BY <1>3 DEF CmRegister
  <2>2. window[w] # NoSpawn /\ c \in Tasks BY <1>t, <2>1 DEF NoSpawn, Building, Windows
  <2>3. /\ c \notin spawned /\ frame[c] = Fresh(c)
        /\ \A u \in Tasks \ {w} : window[u][2] # c
    BY <1>t, <2>1, <2>2 DEF WindowInv
  <2> HIDE DEF c, w
  <2>4. /\ sp' \in [Tasks -> {"frame", "hardware frame"} \X Tasks] /\ sp'[c] = <<"frame", c>>
        /\ sp' \in [Tasks -> Pointers] /\ \A u \in Tasks \ {c} : sp'[u] = sp[u]
    <3>1. /\ <<"frame", c>> \in {"frame", "hardware frame"} \X Tasks
          /\ <<"frame", c>> \in Pointers
      BY <2>2, PointerTypes
    <3>2. sp \in [Tasks -> Pointers] BY DEF Core, Types
    <3> QED BY <1>s, <2>1, <2>2, <3>1, <3>2
  <2>5. Core'
    <3>1. at[c] = 0 BY <2>2, <2>3 DEF Core, Unborn
    <3>2. ResumableAt(board.arch, c, at[c], frame'[c], Booted', sp'[c])
      <4>1. frame'[c] = Fresh(c) BY <2>1, <2>3
      <4>2. Holds(frame'[c], c, at[c]) BY <2>2, <3>1, <4>1, FreshRegs
      <4> QED BY <2>4, <4>2 DEF ResumableAt
    <3>3. frame' \in [Tasks -> Regs] BY <2>1 DEF Core, Types
    <3> QED BY <2>1, <2>2, <2>3, <2>4, <3>2, <3>3, SpawnCore
  <2>6. /\ window' \in [Tasks -> Windows] /\ window'[w] = NoSpawn
        /\ \A t \in Tasks \ {w} : window'[t] = window[t]
    <3>1. NoSpawn \in Windows BY DEF Windows
    <3> QED BY <1>w, <1>t, <2>1, <3>1
  <2>7. ASSUME NEW t \in Tasks PROVE WindowInv(t)'
    <3>1. CASE t = w BY <2>6, <3>1 DEF WindowInv
    <3>2. CASE t # w
      <4>1. /\ WindowInv(t) /\ window'[t] = window[t] /\ window[t][2] # c
            /\ window[t] \in Windows
        BY <1>t, <2>3, <2>6, <3>2 DEF CmInv
      <4>2. window[t] # NoSpawn => window[t][2] \in Tasks BY <4>1 DEF Windows
      <4>3. window'[w][2] = NONE BY <2>6 DEF NoSpawn
      <4>4. window[t] # NoSpawn => \A u \in Tasks \ {t} : window'[u][2] # window[t][2]
        <5> SUFFICES ASSUME window[t] # NoSpawn, NEW u \in Tasks \ {t}
                     PROVE  window'[u][2] # window[t][2]
          OBVIOUS
        <5>1. CASE u = w BY <4>2, <4>3, <5>1
        <5>2. CASE u # w BY <2>6, <4>1, <5>2 DEF WindowInv
        <5> QED BY <5>1, <5>2
      <4> QED BY <2>1, <4>1, <4>4 DEF WindowInv
    <3> QED BY <3>1, <3>2
  <2>8. deny' \/ (\E t \in Tasks : window'[t][1] \in Building)
    <3>1. CASE deny BY <2>1, <3>1
    <3>2. ASSUME NEW t \in Tasks, window[t][1] \in Building
          PROVE  \E u \in Tasks : window'[u][1] \in Building
      <4>1. t # w BY <2>1, <3>2 DEF Building
      <4> QED BY <2>6, <3>2, <4>1
    <3> QED BY <3>1, <3>2 DEF CmInv
  <2> QED BY <1>s, <1>c, <2>1, <2>4, <2>5, <2>6, <2>7, <2>8 DEF CmInv, Single
<1> QED BY <1>1, <1>2, <1>3

LEMMA CmNextStep ==
  ASSUME Core, CmInv, board.arch = "cortex_m", Booted' = Booted, CmNext
  PROVE  Core' /\ CmInv'
BY CmTaskStep, CmHandlerStep, CmSpawnStep DEF CmNext, Signals


-----------------------------------------------------------------------------
(* Xtensa: the bootstrap records. *)
Pool ==
  /\ boots \in [BootIndices -> Tasks \cup {NONE}]
  /\ next \in Nat
  /\ free \in Seq(BootIndices)
  /\ \A i \in 1..Len(free) : free[i] < next
  /\ \A i, j \in 1..Len(free) : free[i] = free[j] => i = j

\* A record handed out is nobody else's.
LEMMA AllocPool ==
  ASSUME Pool, NEW i \in BootIndices, alloc_bootstrap_index(i),
         NEW b \in Tasks \cup {NONE}, boots' = [boots EXCEPT ![i] = b]
  PROVE  /\ Pool'
         /\ \A p \in Booted : p \in Booted'
         /\ b \in Tasks => <<i, b>> \in Booted'
<1>1. /\ boots' \in [BootIndices -> Tasks \cup {NONE}] /\ boots'[i] = b
      /\ \A j \in BootIndices \ {i} : boots'[j] = boots[j]
  BY DEF Pool
<1>2. /\ next' \in Nat /\ next <= next' /\ i < next'
      /\ free' \in Seq(BootIndices)
      /\ \A j \in 1..Len(free') : j \in 1..Len(free) /\ free'[j] = free[j] /\ free[j] # i
      /\ i < next => \E j \in 1..Len(free) : free[j] = i
  <2>1. CASE free # <<>>
    <3>1. /\ i = free[Len(free)] /\ free' = SubSeq(free, 1, Len(free) - 1) /\ next' = next
          /\ free \in Seq(BootIndices) /\ Len(free) \in Nat \ {0}
      BY <2>1 DEF alloc_bootstrap_index, Last, Front, Pool
    <3>2. /\ free' \in Seq(BootIndices) /\ Len(free') = Len(free) - 1
          /\ \A j \in 1..(Len(free) - 1) : free'[j] = free[j]
      <4> DEFINE n == Len(free) - 1
      <4>1. n \in Nat /\ \A j \in 1..n : free[j] \in BootIndices BY <3>1
      <4>2. free' = SubSeq(free, 1, n) /\ free \in Seq(BootIndices) BY <3>1
      <4>3. /\ free' \in Seq(BootIndices)
            /\ Len(free') = IF 1 <= n THEN n - 1 + 1 ELSE 0
            /\ \A j \in 1..(n - 1 + 1) : free'[j] = free[1 + j - 1]
        BY <4>1, <4>2, SubSeqProperties
      <4>4. n - 1 + 1 = n /\ \A j \in 1..n : 1 + j - 1 = j BY <4>1
      <4> HIDE DEF n
      <4>5. Len(free') = n
        <5>1. n \in Nat /\ Len(free') = IF 1 <= n THEN n - 1 + 1 ELSE 0 BY <4>1, <4>3
        <5>2. CASE n = 0 BY ONLY <5>1, <5>2
        <5>3. CASE n >= 1 BY ONLY <5>1, <5>3
        <5> QED BY ONLY <5>1, <5>2, <5>3
      <4>6. \A j \in 1..n : free'[j] = free[j] BY <4>3, <4>4
      <4> QED BY <4>3, <4>5, <4>6 DEF n
    <3>3. i < next BY <3>1 DEF Pool
    <3>4. \A j \in 1..(Len(free) - 1) : free[j] # i BY <3>1 DEF Pool
    <3> QED BY <3>1, <3>2, <3>3, <3>4 DEF Pool
  <2>2. CASE free = <<>>
    <3>1. i = next /\ next' = next + 1 /\ free' = free
      BY <2>2 DEF alloc_bootstrap_index
    <3> QED BY <2>2, <3>1 DEF Pool
  <2> QED BY <2>1, <2>2
<1>3. Pool'
  <2>1. \A j \in 1..Len(free') : free'[j] < next'
    <3> SUFFICES ASSUME NEW j \in 1..Len(free') PROVE free'[j] < next'
      OBVIOUS
    <3>1. j \in 1..Len(free) /\ free'[j] = free[j] /\ free[j] < next BY <1>2 DEF Pool
    <3>2. free[j] \in BootIndices BY <3>1 DEF Pool
    <3>3. free[j] \in Int BY <3>2 DEF BootIndices
    <3> QED BY <1>2, <3>1, <3>3 DEF Pool
  <2>2. \A j, k \in 1..Len(free') : free'[j] = free'[k] => j = k
    BY <1>2 DEF Pool
  <2> QED BY <1>1, <1>2, <2>1, <2>2 DEF Pool
<1>4. ~Contains(free', i) BY <1>2 DEF Contains
<1>5. ASSUME NEW p \in Booted PROVE p \in Booted'
  <2>1. /\ p \in BootIndices \X Tasks /\ boots[p[1]] = p[2] /\ p[1] < next
        /\ \A j \in 1..Len(free) : free[j] # p[1]
    BY DEF Booted, Contains
  <2>2. p[1] # i BY <1>2, <2>1
  <2>3. boots'[p[1]] = p[2] BY <1>1, <2>1, <2>2
  <2>4. ~Contains(free', p[1]) BY <1>2, <2>1 DEF Contains
  <2>5. p[1] < next'
    <3>1. p[1] \in Int BY <2>1 DEF BootIndices
    <3> QED BY <1>2, <2>1, <3>1 DEF Pool
  <2> QED BY <2>1, <2>3, <2>4, <2>5 DEF Booted
<1>6. b \in Tasks => <<i, b>> \in Booted' BY <1>1, <1>2, <1>4 DEF Booted
<1> QED BY <1>3, <1>5, <1>6

\* A record handed back was out.
LEMMA FreePool ==
  ASSUME Pool, NEW i \in BootIndices, i < next, ~Contains(free, i), free_bootstrap_index(i),
         boots' = boots, next' = next
  PROVE  Pool' /\ \A p \in Booted : p[1] # i => p \in Booted'
<1>1. /\ free' \in Seq(BootIndices) /\ Len(free') = Len(free) + 1 /\ Len(free) \in Nat
      /\ free'[Len(free) + 1] = i
      /\ \A j \in 1..Len(free) : free'[j] = free[j] /\ free[j] # i
  BY DEF Pool, free_bootstrap_index, Contains
<1>2. \A j \in 1..Len(free') : j \in 1..Len(free) \/ j = Len(free) + 1 BY <1>1
<1>3. \A j \in 1..Len(free') : free'[j] < next' BY <1>1, <1>2 DEF Pool
<1>4. \A j, k \in 1..Len(free') : free'[j] = free'[k] => j = k BY <1>1, <1>2 DEF Pool
<1>5. Pool' BY <1>1, <1>3, <1>4 DEF Pool
<1>6. ASSUME NEW p \in Booted, p[1] # i PROVE p \in Booted'
  <2>1. ~Contains(free', p[1]) BY <1>1, <1>2, <1>6 DEF Contains, Booted
  <2> QED BY <2>1 DEF Booted
<1> QED BY <1>5, <1>6


\* What the handler's frame holds, next to CONTEXTS.
XtFrame ==
  /\ phase[0] \in {"decide", "switch"} =>
       tid[0] \in Tasks /\ Holds(save_frame[0], tid[0], at[tid[0]])
  /\ phase[0] = "decide" => tid[0] = current[0]
  /\ phase[0] = "leave" => Holds(save_frame[0], current[0], at[current[0]])

XtInv ==
  /\ Single /\ Pool /\ XtFrame
  /\ save_frame \in [Harts -> Regs] /\ tid \in [Harts -> Tasks \cup {NONE}]

\* A step that no handler is in.
LEMMA XtQuiet ==
  ASSUME XtInv, Single', Pool', save_frame' \in [Harts -> Regs], tid' = tid,
         phase'[0] \in {"decide", "switch", "leave"} =>
           UNCHANGED <<at, current, tid, save_frame>> /\ phase'[0] = phase[0]
  PROVE  XtInv'
<1>1. XtFrame' BY DEF XtInv, XtFrame
<1> QED BY <1>1 DEF XtInv

LEMMA PoolBooted ==
  ASSUME UNCHANGED <<boots, next, free>>
  PROVE  Booted' = Booted /\ (Pool => Pool')
BY DEF Booted, Pool

LEMMA XtTaskStep ==
  ASSUME Core, XtInv, board.arch = "xtensa", NEW h \in Harts,
         \/ TaskCode(h) /\ UNCHANGED xtensa
         \/ \E i \in Signals : Raise(h, i) /\ UNCHANGED xtensa
         \/ XtExecute(h)
         \/ \E g \in Harts : request_reschedule_on(h, g)
         \/ irq_enable(h) \/ irq_disable(h) \/ Peripheral(h) \/ XtNoDecision(h)
  PROVE  Core' /\ XtInv'
<1> USE Numbers
<1>i. Single /\ Pool /\ save_frame \in [Harts -> Regs] BY DEF XtInv
<1>b. UNCHANGED <<boots, next, free, tid>>
  BY DEF xtensa, XtExecute, request_reschedule_on, irq_enable, irq_disable, Peripheral, XtNoDecision
<1>p. Booted' = Booted /\ Pool' BY <1>i, <1>b, PoolBooted
<1>1. CASE (TaskCode(h) \/ (\E i \in Signals : Raise(h, i))) /\ UNCHANGED xtensa
  <2>1. /\ Core' /\ Stops(h)
        /\ current' = current
    BY <1>p, <1>1, TaskCodeCore
  <2>2. UNCHANGED <<tid, save_frame>> BY <1>1 DEF xtensa
  <2>3. phase[h] # "off" /\ (at' = at \/ phase[h] = "task")
    BY <1>1 DEF TaskCode, irq_save, irq_restore, Return, despawn, Raise, Running
  <2>4. \A g \in Harts : phase'[g] = phase[g] \/ (g = h /\ phase'[g] = "off")
    BY <2>1 DEF Stops, Core, Types
  <2>5. /\ phase'[h] = "boot" => phase[h] = "boot"
        /\ \A g \in Harts \ {h} : phase'[g] = phase[g]
    BY <2>4
  <2>6. h = 0 /\ Single' BY <1>i, <2>3, <2>5, SingleStep
  <2>7. phase'[0] \in {"decide", "switch", "leave"} =>
          UNCHANGED <<at, current, tid, save_frame>> /\ phase'[0] = phase[0]
    BY <2>1, <2>2, <2>3, <2>4, <2>6
  <2>8. XtInv' BY <1>i, <1>b, <1>p, <2>2, <2>6, <2>7, XtQuiet
  <2> QED BY <2>1, <2>8
<1>2. CASE XtExecute(h)
  <2>1. Execute(h) /\ phase[h] = "task" /\ UNCHANGED <<kernel, phase, frame>>
    BY <1>2 DEF XtExecute, Execute, Running
  <2>2. Core' BY <1>p, <2>1, ExecuteCore
  <2>3. h = 0 /\ Single' BY <1>i, <2>1, SingleStep
  <2>4. save_frame' = save_frame
    <3>1. save_frame' = [g \in Harts |-> IF g # h /\ OnTaskStack(g) /\ tid[g] = regs[h].task
                                         THEN Lost ELSE save_frame[g]]
      BY <1>2 DEF XtExecute
    <3>2. \A g \in Harts : g # h => ~OnTaskStack(g) BY <1>i, <2>3 DEF Single, OnTaskStack
    <3> QED BY <1>i, <3>1, <3>2
  <2>5. phase'[0] = "task" BY <2>1, <2>3
  <2>6. XtInv' BY <1>i, <1>b, <1>p, <2>3, <2>4, <2>5, XtQuiet
  <2> QED BY <2>2, <2>6
<1>3. CASE \/ \E g \in Harts : request_reschedule_on(h, g)
           \/ irq_enable(h) \/ irq_disable(h) \/ Peripheral(h) \/ XtNoDecision(h)
  <2>1. /\ UNCHANGED <<board, spawned, done, current, sp, resume, at, regs, phase, frame>>
        /\ UNCHANGED <<tid, save_frame>>
    BY <1>3 DEF request_reschedule_on, irq_enable, irq_disable, Peripheral, XtNoDecision,
                kernel, machine, xtensa
  <2>2. Core' BY <1>p, <2>1, CalmCore
  <2>3. Single' BY <1>i, <2>1 DEF Single
  <2>4. XtInv' BY <1>i, <1>b, <1>p, <2>1, <2>3, XtQuiet
  <2> QED BY <2>2, <2>4
<1> QED BY <1>1, <1>2, <1>3

\* A context or a record of the task is all a stack pointer is.
LEMMA XtPointer ==
  ASSUME board.arch = "xtensa", NEW t \in Tasks, NEW s, Resumable(t, s)
  PROVE  \/ s = <<"context", t>> /\ Holds(frame[t], t, at[t])
         \/ /\ at[t] = 0
            /\ \E i \in BootIndices :
                 /\ s = <<"bootstrap", i>> /\ <<i, t>> \in Booted
                 /\ boots[i] = t /\ i < next /\ ~Contains(free, i)
BY DEF Resumable, ResumableAt, Booted

LEMMA XtStartStep ==
  ASSUME Core, XtInv, board.arch = "xtensa", NEW h \in Harts, XtStart(h)
  PROVE  Core' /\ XtInv'
<1> USE Numbers
<1>i. Single /\ Pool /\ save_frame \in [Harts -> Regs] BY DEF XtInv
<1>b. UNCHANGED <<boots, next, free, tid, save_frame>> BY DEF XtStart
<1>p. Booted' = Booted /\ Pool' BY <1>i, <1>b, PoolBooted
<1>1. PICK c \in Tasks :
        /\ StartsWith(h, c)
        /\ \/ /\ sp[c][1] = "bootstrap" /\ phase' = [phase EXCEPT ![h] = "task"]
              /\ regs' = [regs EXCEPT ![h] = Fresh(boots[sp[c][2]])]
           \/ /\ phase' = [phase EXCEPT ![h] = "panic"]
              /\ regs' = regs
  BY DEF XtStart, fresh_task_context, trampoline
<1>2. /\ UNCHANGED <<board, spawned, done, sp, resume, at, frame>>
      /\ phase[h] = "boot" /\ Resumable(c, sp[c])
  BY <1>1 DEF XtStart, StartsWith, Core, Waits
<1>3. Core' /\ phase'[h] \in {"task", "panic"} /\ \A g \in Harts \ {h} : phase'[g] = phase[g]
  <2>1. CASE /\ sp[c][1] = "bootstrap" /\ phase' = [phase EXCEPT ![h] = "task"]
             /\ regs' = [regs EXCEPT ![h] = Fresh(boots[sp[c][2]])]
    <3>1. at[c] = 0 /\ boots[sp[c][2]] = c
      <4>1. \/ sp[c] = <<"context", c>>
            \/ at[c] = 0 /\ \E i \in BootIndices : sp[c] = <<"bootstrap", i>> /\ boots[i] = c
        BY <1>2, XtPointer
      <4>2. sp[c] # <<"context", c>> BY <2>1
      <4>3. PICK i \in BootIndices : sp[c] = <<"bootstrap", i>> /\ boots[i] = c BY <4>1, <4>2
      <4>4. sp[c][2] = i BY <4>3
      <4> QED BY <4>1, <4>2, <4>3, <4>4
    <3>2. Fresh(c) \in Regs /\ Holds(Fresh(c), c, at[c]) BY <3>1, FreshRegs
    <3>3. /\ regs' \in [Harts -> Regs] /\ regs'[h] = Fresh(c)
          /\ \A g \in Harts \ {h} : regs'[g] = regs[g]
      BY <2>1, <3>1, <3>2 DEF Core, Types
    <3>4. Core' BY <1>p, <1>1, <1>2, <2>1, <3>2, <3>3, StartCore
    <3> QED BY <2>1, <3>4 DEF Core, Types
  <2>2. CASE phase' = [phase EXCEPT ![h] = "panic"] /\ regs' = regs
    <3>1. regs' \in [Harts -> Regs] BY <2>2 DEF Core, Types
    <3>2. Core' BY <1>p, <1>1, <1>2, <2>2, <3>1, StartCore
    <3> QED BY <2>2, <3>2 DEF Core, Types
  <2> QED BY <1>1, <2>1, <2>2
<1>4. h = 0 /\ Single' BY <1>i, <1>2, <1>3, SingleStep
<1>5. XtInv' BY <1>i, <1>b, <1>p, <1>3, <1>4, XtQuiet
<1> QED BY <1>3, <1>5

LEMMA XtSpawnStep ==
  ASSUME Core, XtInv, board.arch = "xtensa", NEW h \in Harts, XtSpawn(h)
  PROVE  Core' /\ XtInv'
<1> USE Numbers
<1>i. Single /\ Pool /\ save_frame \in [Harts -> Regs] BY DEF XtInv
<1>b. /\ UNCHANGED <<board, done, current, resume, at, regs, phase, frame, tid, save_frame>>
      /\ phase[h] = "task"
  BY DEF XtSpawn, Running
<1>1. PICK i \in BootIndices :
        /\ alloc_bootstrap_index(i)
        /\ \/ \E t \in Tasks \ spawned :
                /\ spawned' = spawned \cup {t} /\ sp' = [sp EXCEPT ![t] = <<"bootstrap", i>>]
                /\ boots' = [boots EXCEPT ![i] = t]
           \/ UNCHANGED <<spawned, sp>> /\ boots' = [boots EXCEPT ![i] = NONE]
  BY DEF XtSpawn
<1>2. Core' /\ Pool'
  <2>1. ASSUME NEW t \in Tasks \ spawned, spawned' = spawned \cup {t},
               sp' = [sp EXCEPT ![t] = <<"bootstrap", i>>], boots' = [boots EXCEPT ![i] = t]
        PROVE  Core' /\ Pool'
    <3>1. Pool' /\ (\A b \in Booted : b \in Booted') /\ <<i, t>> \in Booted'
      BY <1>i, <1>1, <2>1, AllocPool
    <3>2. /\ sp' \in [Tasks -> Pointers] /\ sp'[t] = <<"bootstrap", i>>
          /\ \A u \in Tasks \ {t} : sp'[u] = sp[u]
      BY <2>1, PointerTypes DEF Core, Types
    <3>3. at[t] = 0 BY DEF Core, Unborn
    <3>4. ResumableAt(board.arch, t, at[t], frame'[t], Booted', sp'[t])
      BY <3>1, <3>2, <3>3 DEF ResumableAt
    <3>5. frame' \in [Tasks -> Regs] /\ spawned' \in {spawned, spawned \cup {t}}
      BY <1>b, <2>1 DEF Core, Types
    <3> HIDE DEF Booted, ResumableAt
    <3>6. Core' BY <1>b, <3>1, <3>2, <3>4, <3>5, SpawnCore
    <3> QED BY <3>1, <3>6
  <2>2. CASE UNCHANGED <<spawned, sp>> /\ boots' = [boots EXCEPT ![i] = NONE]
    <3>1. Pool' /\ \A b \in Booted : b \in Booted'
      BY <1>i, <1>1, <2>2, AllocPool
    <3>2. Types' BY <1>b, <2>2 DEF Core, Types
    <3>3. \A t \in Tasks : Kept(t) BY <1>b, <3>1 DEF Kept
    <3>4. /\ current[h] # NONE /\ Holds(regs[h], current[h], at[current[h]])
          /\ "task" \notin Deciding /\ "task" \notin Resuming
      BY <1>b DEF Core, HartInv, Engaged, Deciding, Resuming
    <3> HIDE DEF Booted, ResumableAt
    <3>5. Core' BY <1>b, <2>2, <3>2, <3>3, <3>4, HandlerCore
    <3> QED BY <3>1, <3>5
  <2> QED BY <1>1, <2>1, <2>2
<1>3. Single' BY <1>i, <1>b DEF Single
<1>4. XtInv' BY <1>i, <1>b, <1>2, <1>3, XtQuiet
<1> QED BY <1>2, <1>4


LEMMA XtSaveStep ==
  ASSUME Core, XtInv, board.arch = "xtensa", NEW h \in Harts, XtSave(h)
  PROVE  Core' /\ XtInv'
<1> USE Numbers
<1> DEFINE c == current[h]
<1>i. Single /\ Pool /\ save_frame \in [Harts -> Regs] BY DEF XtInv
<1>b. UNCHANGED <<boots, next, free>> BY DEF XtSave
<1>p. Booted' = Booted /\ Pool' BY <1>i, <1>b, PoolBooted
<1>h. HartInv(h) BY DEF Core
<1>1. /\ phase[h] = "task"
      /\ UNCHANGED <<board, spawned, done, current, sp, resume, at, regs>>
      /\ phase' = [phase EXCEPT ![h] = "decide"] /\ frame' = [frame EXCEPT ![c] = regs[h]]
      /\ save_frame' = [save_frame EXCEPT ![h] = regs[h]] /\ tid' = [tid EXCEPT ![h] = c]
  BY <1>h DEF XtSave, Interrupted, HartInv, kernel
<1>2. regs[h].task = c BY <1>h, <1>1 DEF HartInv, Holds
<1>3. "decide" \in Deciding \ Resuming BY DEF Deciding, Resuming
<1>4. frame' = [frame EXCEPT ![regs[h].task] = regs[h]] BY <1>1, <1>2
<1>5. /\ Core' /\ c \in Tasks /\ Holds(regs[h], c, at[c])
      /\ phase'[h] = "decide" /\ \A g \in Harts \ {h} : phase'[g] = phase[g]
  BY <1>p, <1>1, <1>3, <1>4, SaveCore
<1>6. h = 0 /\ Single' BY <1>i, <1>1, <1>5, SingleStep
<1>7. save_frame' \in [Harts -> Regs] /\ save_frame'[h] = regs[h]
  <2>1. regs[h] \in Regs BY DEF Core, Types
  <2> QED BY <1>i, <1>1, <2>1
<1>8. tid' \in [Harts -> Tasks \cup {NONE}] /\ tid'[h] = c BY <1>1, <1>5 DEF XtInv
<1>9. XtFrame' BY <1>1, <1>5, <1>6, <1>7, <1>8 DEF XtFrame
<1> QED BY <1>p, <1>5, <1>6, <1>7, <1>8, <1>9 DEF XtInv

LEMMA XtDecideStep ==
  ASSUME Core, XtInv, board.arch = "xtensa", NEW h \in Harts, XtDecide(h)
  PROVE  Core' /\ XtInv'
<1> USE Numbers
<1> DEFINE c == current[h]
<1>i. Single /\ Pool /\ save_frame \in [Harts -> Regs] /\ XtFrame BY DEF XtInv
<1>b. UNCHANGED <<boots, next, free, save_frame, tid>> BY DEF XtDecide, xtensa
<1>p. Booted' = Booted /\ Pool' BY <1>i, <1>b, PoolBooted
<1>h. HartInv(h) BY DEF Core
<1>1. /\ phase[h] = "decide" /\ OnTick(h, <<"context", tid[h]>>)
      /\ phase' = [phase EXCEPT ![h] = "switch"]
      /\ UNCHANGED <<board, spawned, at, regs, frame>>
  BY DEF XtDecide
<1>2. "decide" \in Deciding /\ "switch" \in Resuming \ Deciding BY DEF Deciding, Resuming
<1>3. h = 0 BY <1>i, <1>1 DEF Single
<1>4. tid[h] = c /\ c \in Tasks /\ Holds(frame[c], c, at[c])
  BY <1>i, <1>h, <1>1, <1>2, <1>3 DEF XtFrame, HartInv, Core, Types
<1>5. <<"context", c>> \in Pointers /\ Resumable(c, <<"context", c>>)
  BY <1>4, PointerTypes DEF Resumable, ResumableAt
<1>6. /\ Core' /\ phase'[h] = "switch" /\ \A g \in Harts \ {h} : phase'[g] = phase[g]
  BY <1>p, <1>1, <1>2, <1>4, <1>5, TickCore
<1>7. Single' BY <1>i, <1>1, <1>6, SingleStep
<1>8. XtFrame' BY <1>i, <1>b, <1>1, <1>3, <1>6 DEF XtFrame
<1> QED BY <1>i, <1>b, <1>p, <1>6, <1>7, <1>8 DEF XtInv

LEMMA XtSwitchStep ==
  ASSUME Core, XtInv, board.arch = "xtensa", NEW h \in Harts, XtSwitch(h)
  PROVE  Core' /\ XtInv'
<1> USE Numbers
<1> DEFINE c == current[h]
<1> DEFINE r == resume[h]
<1>i. Single /\ Pool /\ save_frame \in [Harts -> Regs] /\ XtFrame BY DEF XtInv
<1>h. HartInv(h) BY DEF Core
<1>1. /\ phase[h] = "switch"
      /\ phase' = [phase EXCEPT ![h] = "leave"] /\ resume' = [resume EXCEPT ![h] = <<"none">>]
      /\ UNCHANGED <<board, spawned, done, current, sp, at, regs, frame, boots, next, tid>>
      /\ \/ /\ r[1] = "context" /\ free' = free
            /\ save_frame' = IF r[2] = tid[h] THEN save_frame
                             ELSE [save_frame EXCEPT ![h] = frame[r[2]]]
         \/ /\ r[1] # "context" /\ free_bootstrap_index(r[2])
            /\ save_frame' = [save_frame EXCEPT ![h] = Fresh(boots[r[2]])]
  BY DEF XtSwitch, fresh_task_context, trampoline
<1>2. h = 0 BY <1>i, <1>1 DEF Single
<1>3. c \in Tasks /\ Resumable(c, r)
  BY <1>h, <1>1 DEF HartInv, Engaged, Resuming, Core, Types
<1>4. /\ phase' \in [Harts -> Phases] /\ phase'[h] = "leave"
      /\ \A g \in Harts \ {h} : phase'[g] = phase[g]
  BY <1>1 DEF Core, Types, Phases, Engaged
<1>5. /\ resume' \in [Harts -> Pointers]
      /\ \A g \in Harts \ {h} : resume'[g] = resume[g]
  BY <1>1, PointerTypes DEF Core, Types
<1> HIDE DEF r
<1>6. /\ Pool' /\ save_frame' \in [Harts -> Regs] /\ Holds(save_frame'[h], c, at[c])
      /\ \A t \in Tasks \ {c} : Kept(t)
  <2>1. CASE r = <<"context", c>> /\ Holds(frame[c], c, at[c])
    <3>1. r[1] = "context" /\ r[2] = c BY <2>1
    <3>2. free' = free /\ save_frame' = IF c = tid[h] THEN save_frame
                                        ELSE [save_frame EXCEPT ![h] = frame[c]]
      BY <1>1, <3>1
    <3>3. Booted' = Booted /\ Pool' BY <1>i, <1>1, <3>2, PoolBooted
    <3>4. frame[c] \in Regs BY <1>3 DEF Core, Types
    <3>5. c = tid[h] => Holds(save_frame[h], c, at[c]) BY <1>i, <1>1, <1>2 DEF XtFrame
    <3>6. save_frame' \in [Harts -> Regs] /\ Holds(save_frame'[h], c, at[c])
      BY <1>i, <2>1, <3>2, <3>4, <3>5
    <3>7. \A t \in Tasks : Kept(t) BY <1>1, <3>3 DEF Kept
    <3> QED BY <3>3, <3>6, <3>7
  <2>2. ASSUME at[c] = 0, NEW i \in BootIndices, r = <<"bootstrap", i>>,
               boots[i] = c, i < next, ~Contains(free, i)
        PROVE  /\ Pool' /\ save_frame' \in [Harts -> Regs] /\ Holds(save_frame'[h], c, at[c])
               /\ \A t \in Tasks \ {c} : Kept(t)
    <3>1. r[1] # "context" /\ r[2] = i BY <2>2
    <3>2. /\ free_bootstrap_index(i)
          /\ save_frame' = [save_frame EXCEPT ![h] = Fresh(c)]
      BY <1>1, <2>2, <3>1
    <3>3. Pool' /\ \A p \in Booted : p[1] # i => p \in Booted'
      BY <1>i, <1>1, <2>2, <3>2, FreePool
    <3>4. Fresh(c) \in Regs /\ Holds(Fresh(c), c, at[c]) BY <1>3, <2>2, FreshRegs
    <3>5. save_frame' \in [Harts -> Regs] /\ Holds(save_frame'[h], c, at[c])
      BY <1>i, <3>2, <3>4
    <3>6. ASSUME NEW t \in Tasks \ {c} PROVE Kept(t)
      <4>1. ASSUME NEW j \in BootIndices, <<j, t>> \in Booted PROVE <<j, t>> \in Booted'
        <5>1. boots[j] = t BY <4>1 DEF Booted
        <5>2. j # i BY <2>2, <5>1
        <5> QED BY <3>3, <4>1, <5>2
      <4> QED BY <1>1, <4>1 DEF Kept
    <3> QED BY <3>3, <3>5, <3>6
  <2>3. \/ r = <<"context", c>> /\ Holds(frame[c], c, at[c])
        \/ /\ at[c] = 0
           /\ \E i \in BootIndices :
                r = <<"bootstrap", i>> /\ boots[i] = c /\ i < next /\ ~Contains(free, i)
    BY <1>3, XtPointer
  <2> QED BY ONLY <2>1, <2>2, <2>3
<1>7. Types' BY <1>1, <1>4, <1>5 DEF Core, Types
<1>8. Core'
  <2>1. /\ phase'[h] # "boot" /\ phase'[h] # "task" /\ phase'[h] \notin Deciding
        /\ phase'[h] \notin Resuming
    BY <1>4 DEF Deciding, Resuming
  <2>2. c # NONE BY <1>3
  <2> QED BY <1>1, <1>4, <1>5, <1>6, <1>7, <2>1, <2>2, HandlerCore
<1>9. Single' BY <1>i, <1>1, <1>4, SingleStep
<1>10. XtFrame' BY <1>1, <1>2, <1>4, <1>6 DEF XtFrame
<1> QED BY <1>1, <1>6, <1>8, <1>9, <1>10 DEF XtInv

LEMMA XtLeaveStep ==
  ASSUME Core, XtInv, board.arch = "xtensa", NEW h \in Harts, XtLeave(h)
  PROVE  Core' /\ XtInv'
<1> USE Numbers
<1> DEFINE c == current[h]
<1>i. Single /\ Pool /\ save_frame \in [Harts -> Regs] /\ XtFrame BY DEF XtInv
<1>h. HartInv(h) BY DEF Core
<1>1. /\ phase[h] = "leave" /\ phase' = [phase EXCEPT ![h] = "task"]
      /\ regs' = [regs EXCEPT ![h] = save_frame[h]]
      /\ UNCHANGED <<board, spawned, done, current, sp, resume, at, frame>>
      /\ UNCHANGED <<boots, next, free, tid, save_frame>>
  BY DEF XtLeave, kernel, xtensa
<1>p. Booted' = Booted /\ Pool' BY <1>i, <1>1, PoolBooted
<1>2. h = 0 /\ c # NONE /\ Holds(save_frame[h], c, at[c])
  BY <1>i, <1>h, <1>1 DEF Single, XtFrame, HartInv, Engaged
<1>4. /\ phase' \in [Harts -> Phases] /\ phase'[h] = "task"
      /\ \A g \in Harts \ {h} : phase'[g] = phase[g]
      /\ "task" \notin Deciding /\ "task" \notin Resuming
  BY <1>1 DEF Core, Types, Phases, Engaged, Deciding, Resuming
<1>5. /\ regs' \in [Harts -> Regs] /\ regs'[h] = save_frame[h]
      /\ \A g \in Harts \ {h} : regs'[g] = regs[g]
  BY <1>i, <1>1 DEF Core, Types
<1>6. Types' BY <1>1, <1>4, <1>5 DEF Core, Types
<1>7. \A t \in Tasks : Kept(t) BY <1>p, <1>1 DEF Kept
<1>8. Core' BY <1>1, <1>2, <1>4, <1>5, <1>6, <1>7, HandlerCore
<1>9. Single' BY <1>i, <1>1, <1>4, SingleStep
<1>10. XtInv' BY <1>i, <1>p, <1>1, <1>2, <1>4, <1>9, XtQuiet
<1> QED BY <1>8, <1>10

LEMMA XtNextStep ==
  ASSUME Core, XtInv, board.arch = "xtensa", XtNext
  PROVE  Core' /\ XtInv'
<1>1. PICK h \in Harts :
        \/ TaskCode(h) /\ UNCHANGED xtensa
        \/ \E i \in Signals : Raise(h, i) /\ UNCHANGED xtensa
        \/ XtStart(h) \/ XtExecute(h) \/ XtSpawn(h)
        \/ \E g \in Harts : request_reschedule_on(h, g)
        \/ irq_enable(h) \/ irq_disable(h) \/ Peripheral(h)
        \/ XtNoDecision(h) \/ XtSave(h) \/ XtDecide(h) \/ XtSwitch(h) \/ XtLeave(h)
  BY DEF XtNext, Signals
<1> QED BY <1>1, XtTaskStep, XtStartStep, XtSpawnStep, XtSaveStep, XtDecideStep,
           XtSwitchStep, XtLeaveStep


-----------------------------------------------------------------------------
\* The boot tasks have records of their own.
LEMMA BootRecords ==
  /\ Cardinality(BootTasks) \in Nat
  /\ \A t \in BootTasks : /\ BootIndex(t) \in BootIndices
                          /\ BootIndex(t) < Cardinality(BootTasks)
  /\ \A t, u \in BootTasks : BootIndex(t) = BootIndex(u) => t = u
<1> DEFINE Below(t) == {u \in BootTasks : u < t}
<1>1. /\ IsFiniteSet(BootTasks) /\ Cardinality(BootTasks) \in Nat
      /\ Cardinality(BootTasks) <= MAX_PTASKS
  <2>1. IsFiniteSet(Tasks) /\ Cardinality(Tasks) = MAX_PTASKS
    BY FS_Interval DEF Tasks
  <2>2. IsFiniteSet(BootTasks) /\ Cardinality(BootTasks) <= Cardinality(Tasks)
    BY <2>1, FS_Subset
  <2> QED BY <2>1, <2>2, FS_CardinalityType
<1>2. ASSUME NEW T \in SUBSET BootTasks, NEW t \in BootTasks, t \notin T
      PROVE  Cardinality(T) \in Nat /\ Cardinality(T) < Cardinality(BootTasks)
  <2>1. IsFiniteSet(T) /\ Cardinality(T) <= Cardinality(BootTasks) /\ T # BootTasks
        /\ (Cardinality(BootTasks) = Cardinality(T) => BootTasks = T)
    BY <1>1, <1>2, FS_Subset
  <2>2. Cardinality(T) \in Nat BY <2>1, FS_CardinalityType
  <2> QED BY <1>1, <2>1, <2>2
<1>3. ASSUME NEW t \in BootTasks
      PROVE  BootIndex(t) \in BootIndices /\ BootIndex(t) < Cardinality(BootTasks)
  <2>1. Below(t) \in SUBSET BootTasks /\ t \notin Below(t)
    <3>1. t \in Nat BY Numbers
    <3> QED BY <3>1
  <2>2. BootIndex(t) = Cardinality(Below(t)) BY DEF BootIndex
  <2> HIDE DEF Below
  <2>3. BootIndex(t) \in Nat /\ BootIndex(t) < Cardinality(BootTasks) BY <1>2, <2>1, <2>2
  <2> QED BY <1>1, <2>3, XtensaAssumption DEF BootIndices
<1>4. ASSUME NEW t \in BootTasks, NEW u \in BootTasks, t < u
      PROVE  BootIndex(t) # BootIndex(u)
  <2>1. t \in Nat /\ u \in Nat /\ \A v \in BootTasks : v \in Nat BY Numbers
  <2>2. /\ Below(u) \in SUBSET BootTasks /\ Below(t) \in SUBSET Below(u)
        /\ t \in Below(u) /\ t \notin Below(t)
    <3>1. ASSUME NEW v \in Below(t) PROVE v \in Below(u)
      <4>1. v \in BootTasks /\ v < t OBVIOUS
      <4>2. v < u BY <1>4, <2>1, <4>1
      <4> QED BY <4>1, <4>2
    <3>2. t \in Below(u) BY <1>4
    <3>3. t \notin Below(t) BY <2>1
    <3>4. Below(u) \in SUBSET BootTasks OBVIOUS
    <3> HIDE DEF Below
    <3> QED BY <3>1, <3>2, <3>3, <3>4
  <2>3. BootIndex(t) = Cardinality(Below(t)) /\ BootIndex(u) = Cardinality(Below(u))
    BY DEF BootIndex
  <2> HIDE DEF Below
  <2>4. IsFiniteSet(Below(u)) BY <1>1, <2>2, FS_Subset
  <2>5. Cardinality(Below(u)) = Cardinality(Below(t)) => Below(u) = Below(t)
    BY <2>2, <2>4, FS_Subset
  <2> QED BY <2>2, <2>3, <2>5
<1>5. ASSUME NEW t \in BootTasks, NEW u \in BootTasks, BootIndex(t) = BootIndex(u)
      PROVE  t = u
  <2>1. t \in Nat /\ u \in Nat BY Numbers
  <2>2. ~(t < u) /\ ~(u < t) BY <1>4, <1>5
  <2> QED BY <2>1, <2>2
<1> QED BY <1>1, <1>3, <1>5

\* There is no ARMv7-M board with two harts.  On two Xtensa cores a handler is on
\* the stack of a task that the other core may already have resumed.
PortsAsBuilt ==
  \A b \in Boards : b.arch \in {"cortex_m", "xtensa"} => b.harts = 1

PortInv ==
  /\ Core /\ IsrTops
  /\ board.arch = "riscv" => RvInv
  /\ board.arch = "cortex_m" => CmInv
  /\ board.arch = "xtensa" => XtInv
  /\ board.arch # "riscv" => claimed = {}

LEMMA PortInit ==
  ASSUME PortsAsBuilt, Init
  PROVE  PortInv
<1> USE Numbers
<1>1. /\ board \in Boards /\ spawned = BootTasks /\ current = [h \in Harts |-> NONE]
      /\ at = [t \in Tasks |-> 0] /\ regs = [h \in Harts |-> BootRegs]
      /\ phase = [h \in Harts |-> IF h < board.harts THEN "boot" ELSE "off"]
      /\ pend = [h \in Harts |-> {}] /\ resume = [h \in Harts |-> <<"none">>]
      /\ BootTasks \subseteq Tasks
  BY DEF Init, MachineInit
<1>2. /\ mscratch = [h \in Harts |-> isr_stack_top(h)]
      /\ isr = [h \in Harts |-> isr_stack_top(h)] /\ claimed = {}
      /\ deny = TRUE /\ window = [t \in Tasks |-> NoSpawn]
      /\ next = Cardinality(BootTasks) /\ free = <<>>
      /\ save_frame = [h \in Harts |-> Lost] /\ tid = [h \in Harts |-> NONE]
  BY DEF Init, RvInit, CmInit, XtInit, mpu_init
<1>3. \/ /\ board.arch \in {"riscv", "cortex_m", "cortex_m0"}
         /\ sp = [t \in Tasks |-> <<"frame", t>>]
         /\ frame = [t \in Tasks |-> IF t \in BootTasks THEN Fresh(t) ELSE Lost]
      \/ /\ board.arch = "xtensa"
         /\ sp = [t \in Tasks |-> IF t \in BootTasks THEN <<"bootstrap", BootIndex(t)>> ELSE <<"none">>]
         /\ frame = [t \in Tasks |-> Lost]
  BY DEF Init, RvTasks, CmTasks, M0Tasks, XtTasks
<1>4. /\ boots \in [BootIndices -> Tasks \cup {NONE}]
      /\ \A t \in BootTasks : boots[BootIndex(t)] = t
  <2> DEFINE b(i) == IF \E t \in BootTasks : BootIndex(t) = i
                     THEN CHOOSE t \in BootTasks : BootIndex(t) = i ELSE NONE
  <2>1. boots = [i \in BootIndices |-> b(i)] BY DEF Init, XtInit
  <2>2. \A i : b(i) \in Tasks \cup {NONE} BY <1>1
  <2>3. ASSUME NEW t \in BootTasks PROVE b(BootIndex(t)) = t
    <3> DEFINE u == CHOOSE u \in BootTasks : BootIndex(u) = BootIndex(t)
    <3>1. u \in BootTasks /\ BootIndex(u) = BootIndex(t) OBVIOUS
    <3>2. b(BootIndex(t)) = u OBVIOUS
    <3> HIDE DEF u, b
    <3>3. u = t BY <3>1, BootRecords
    <3> QED BY <3>2, <3>3
  <2> HIDE DEF b
  <2>4. \A t \in BootTasks : BootIndex(t) \in BootIndices BY BootRecords
  <2> QED BY <2>1, <2>2, <2>3, <2>4
<1>5. Types
  <2>1. BootRegs \in Regs /\ Lost \in Regs BY DEF BootRegs, Lost, Regs
  <2>2. sp \in [Tasks -> Pointers] /\ frame \in [Tasks -> Regs]
    <3>1. \A t \in BootTasks : <<"bootstrap", BootIndex(t)>> \in Pointers
      BY PointerTypes, BootRecords
    <3>2. \A t \in Tasks : Fresh(t) \in Regs BY FreshRegs
    <3>3. CASE sp = [t \in Tasks |-> <<"frame", t>>] BY <1>3, <2>1, <3>2, <3>3, PointerTypes
    <3>4. CASE sp = [t \in Tasks |-> IF t \in BootTasks THEN <<"bootstrap", BootIndex(t)>>
                                     ELSE <<"none">>]
      <4>1. sp \in [Tasks -> Pointers] BY <3>1, <3>4, PointerTypes
      <4>2. frame \in [Tasks -> Regs] BY <1>3, <2>1, <3>2
      <4> QED BY <4>1, <4>2
    <3> QED BY <1>3, <3>3, <3>4
  <2>3. phase \in [Harts -> Phases] BY <1>1 DEF Phases
  <2>4. resume \in [Harts -> Pointers] BY <1>1, PointerTypes
  <2>5. regs \in [Harts -> Regs] BY <1>1, <2>1
  <2> QED BY <1>1, <2>2, <2>3, <2>4, <2>5 DEF Types
<1>6. Unborn BY <1>1 DEF Unborn
<1>7. Waits
  <2> SUFFICES ASSUME NEW t \in BootTasks PROVE Resumable(t, sp[t])
    BY <1>1 DEF Waits, Ready
  <2>1. CASE board.arch # "xtensa"
    <3>1. sp[t] = <<"frame", t>> /\ frame[t] = Fresh(t) /\ at[t] = 0 BY <1>1, <1>3, <2>1
    <3> QED BY <1>1, <2>1, <3>1, FreshRegs DEF Resumable, ResumableAt
  <2>2. CASE board.arch = "xtensa"
    <3>1. sp[t] = <<"bootstrap", BootIndex(t)>> /\ at[t] = 0 BY <1>1, <1>3, <2>2
    <3>2. ~Contains(free, BootIndex(t)) BY <1>2 DEF Contains
    <3>3. BootIndex(t) \in BootIndices /\ BootIndex(t) < next BY <1>2, BootRecords
    <3>4. <<BootIndex(t), t>> \in Booted BY <1>1, <1>4, <3>2, <3>3 DEF Booted
    <3> QED BY <2>2, <3>1, <3>3, <3>4 DEF Resumable, ResumableAt
  <2> QED BY <2>1, <2>2
<1>8. \A h \in Harts : HartInv(h)
  <2>1. \A h \in Harts : phase[h] \in {"boot", "off"} /\ current[h] = NONE BY <1>1
  <2> QED BY <2>1 DEF HartInv, Engaged, Deciding, Resuming
<1>9. Core BY <1>5, <1>6, <1>7, <1>8 DEF Core
<1>10. RvInv
  <2>1. \A h \in Harts : phase[h] \in {"boot", "off"} BY <1>1
  <2>2. \A h \in Harts : RvHart(h) BY <1>2, <2>1 DEF RvHart, Deciding
  <2>3. mscratch \in [Harts -> Tops \cup ({"frame"} \X Tasks)]
    BY <1>2 DEF Tops, isr_stack_top
  <2> QED BY <1>1, <1>2, <2>2, <2>3 DEF RvInv
<1>11. board.arch \in {"cortex_m", "xtensa"} => Single
  <2>1. board.arch \in {"cortex_m", "xtensa"} => board.harts = 1 BY <1>1 DEF PortsAsBuilt
  <2>2. \A h \in Harts : h # 0 => ~(h < 1) BY DEF Harts
  <2> QED BY <1>1, <2>1, <2>2 DEF Single
<1>12. board.arch = "cortex_m" => CmInv
  <2> SUFFICES ASSUME board.arch = "cortex_m" PROVE CmInv
    OBVIOUS
  <2>1. phase[0] \notin {"task", "pendsv", "unstack", "stmia"} BY <1>1
  <2>2. window \in [Tasks -> Windows] BY <1>2 DEF Windows
  <2>3. \A t \in Tasks : WindowInv(t) BY <1>2 DEF WindowInv
  <2>4. sp \in [Tasks -> {"frame", "hardware frame"} \X Tasks]
    <3>1. sp = [t \in Tasks |-> <<"frame", t>>] BY <1>3
    <3> QED BY ONLY <3>1
  <2> QED BY <1>2, <1>11, <2>1, <2>2, <2>3, <2>4 DEF CmInv
<1>13. board.arch = "xtensa" => XtInv
  <2>1. Pool BY <1>2, <1>4, BootRecords DEF Pool
  <2>2. XtFrame
    <3>1. phase[0] \in {"boot", "off"} BY <1>1
    <3> QED BY <3>1 DEF XtFrame
  <2>3. save_frame \in [Harts -> Regs] /\ tid \in [Harts -> Tasks \cup {NONE}]
    <3>1. Lost \in Regs BY DEF Lost, Regs
    <3> QED BY <1>2, <3>1
  <2> QED BY <1>11, <2>1, <2>2, <2>3 DEF XtInv
<1> QED BY <1>2, <1>9, <1>10, <1>12, <1>13 DEF PortInv, IsrTops

LEMMA PortNext ==
  ASSUME PortInv, [Next]_<<machine, riscv, cortex_m, xtensa>>
  PROVE  PortInv'
<1>i. Core /\ IsrTops BY DEF PortInv
<1>1. CASE board.arch = "riscv" /\ RvNext /\ UNCHANGED <<cortex_m, xtensa>>
  <2>1. RvInv BY <1>1 DEF PortInv
  <2>2. Core' /\ RvInv' /\ IsrTops' BY <1>i, <1>1, <2>1, RvNextStep
  <2>3. board' = board
    BY <1>1 DEF RvNext, TaskCode, irq_save, irq_restore, Return, despawn, Raise, RvDevice, RvStart,
         RvExecute, RvSpawn, RvPlicSet, RvTrap, RvReschedule, RvClaim, RvComplete, RvFault, RvExit,
         kernel, machine
  <2> QED BY <1>1, <2>2, <2>3 DEF PortInv
<1>2. CASE board.arch = "cortex_m" /\ CmNext /\ UNCHANGED <<riscv, xtensa>>
  <2>1. CmInv BY <1>2 DEF PortInv
  <2>2. UNCHANGED <<isr, claimed, boots, next, free>> BY <1>2 DEF riscv, xtensa
  <2>3. Booted' = Booted BY <2>2, PoolBooted
  <2>4. Core' /\ CmInv' BY <1>i, <1>2, <2>1, <2>3, CmNextStep
  <2>5. board' = board
    BY <1>2 DEF CmNext, CmTaskCode, irq_save, irq_restore, Return, despawn, Raise, CmStart,
         CmExecute, SysTick, PendSV, rivet_pendsv_rust, Unstack, MemManage, StmiaFaults, allow_scratch,
         SvcUnmask, Svc, clear_scratch, CmRegister, kernel, machine
  <2> QED BY <1>i, <1>2, <2>2, <2>4, <2>5 DEF PortInv, IsrTops
<1>3. CASE board.arch = "cortex_m0" /\ M0Next /\ UNCHANGED <<riscv, cortex_m, xtensa>>
  <2>2. UNCHANGED <<isr, claimed, boots, next, free>> BY <1>3 DEF riscv, xtensa
  <2>3. Booted' = Booted BY <2>2, PoolBooted
  <2>4. Core' BY <1>i, <1>3, <2>3, M0NextStep
  <2>5. board' = board
    BY <1>3 DEF M0Next, TaskCode, irq_save, irq_restore, Return, despawn, Raise, M0Start,
         M0Execute, M0Spawn, M0SysTick, M0PendSV, m0_rivet_pendsv_rust, M0Unstack, kernel
  <2> QED BY <1>i, <1>3, <2>2, <2>4, <2>5 DEF PortInv, IsrTops
<1>4. CASE board.arch = "xtensa" /\ XtNext /\ UNCHANGED <<riscv, cortex_m>>
  <2>1. XtInv BY <1>4 DEF PortInv
  <2>2. UNCHANGED <<isr, claimed>> BY <1>4 DEF riscv
  <2>4. Core' /\ XtInv' BY <1>i, <1>4, <2>1, XtNextStep
  <2>5. board' = board
    BY <1>4 DEF XtNext, TaskCode, irq_save, irq_restore, Return, despawn, Raise, XtStart, XtExecute,
         XtSpawn, request_reschedule_on, irq_enable, irq_disable, Peripheral, XtNoDecision, XtSave,
         XtDecide, XtSwitch, XtLeave, kernel, machine
  <2> QED BY <1>i, <1>4, <2>2, <2>4, <2>5 DEF PortInv, IsrTops
<1>5. CASE UNCHANGED <<machine, riscv, cortex_m, xtensa>>
  <2>1. UNCHANGED <<board, spawned, done, current, sp, resume, at, regs, phase, masked, pend, frame>>
    BY <1>5 DEF machine, kernel
  <2>2. UNCHANGED <<mscratch, isr, claimed, deny, region7, window, boots, next, free, save_frame, tid>>
    BY <1>5 DEF riscv, cortex_m, xtensa
  <2>3. 0 \in Harts BY Numbers
  <2>4. Core' BY <1>i, <2>1, <2>2, <2>3, PoolBooted, CalmCore
  <2>5. RvInv => RvInv' BY <2>1, <2>2 DEF RvInv, RvHart
  <2>6. CmInv => CmInv' BY <2>1, <2>2 DEF CmInv, WindowInv, Single
  <2>7. XtInv => XtInv' BY <2>1, <2>2 DEF XtInv, XtFrame, Single, Pool
  <2> QED BY <1>i, <2>1, <2>2, <2>4, <2>5, <2>6, <2>7 DEF PortInv, IsrTops
<1> QED BY <1>1, <1>2, <1>3, <1>4, <1>5 DEF Next

\* What the ports owe the kernel: the contexts of all tasks, whatever the order of
\* the handlers' steps.
THEOREM PortsKeepContexts ==
  ASSUME PortsAsBuilt
  PROVE  Spec => []PortInv
<1>1. Init => PortInv BY PortInit
<1>2. PortInv /\ [Next]_<<machine, riscv, cortex_m, xtensa>> => PortInv' BY PortNext
<1> QED BY <1>1, <1>2, PTL DEF Spec

\* A task goes on exactly where it stopped, on every port, under every order of
\* ticks, reschedule requests, device interrupts and faults.
THEOREM TasksResumeWhereTheyStopped ==
  ASSUME PortsAsBuilt
  PROVE  Spec => []ResumesWhereItStopped
<1>1. PortInv => ResumesWhereItStopped
  BY DEF PortInv, Core, HartInv, Holds, ResumesWhereItStopped
<1> QED BY <1>1, PortsKeepContexts, PTL

\* No two harts' handlers share a slice of .isr_stack, and on ARMv7-M a task runs
\* with its own stack open and the others closed outside a spawn.
THEOREM StacksStaySeparate ==
  ASSUME PortsAsBuilt
  PROVE  Spec => []StacksAreSeparate
<1>1. PortInv => StacksAreSeparate
  <2> SUFFICES ASSUME PortInv PROVE StacksAreSeparate
    OBVIOUS
  <2>1. IsrStacksDisjoint BY DEF PortInv, IsrTops, isr_stack_top, IsrStacksDisjoint
  <2>2. StacksSeparated
    <3> SUFFICES ASSUME NEW h \in Harts, board.arch = "cortex_m", phase[h] = "task"
                 PROVE  /\ region7 = current[h]
                        /\ deny \/ \E t \in Tasks : window[t] # NoSpawn
      BY DEF StacksSeparated
    <3>1. CmInv BY DEF PortInv
    <3>2. h = 0 BY <3>1 DEF CmInv, Single
    <3>3. deny \/ \E t \in Tasks : window[t] # NoSpawn
      <4>1. ASSUME NEW t \in Tasks, window[t][1] \in Building PROVE window[t] # NoSpawn
        BY <4>1 DEF Building, NoSpawn
      <4> QED BY <3>1, <4>1 DEF CmInv
    <3> QED BY <3>1, <3>2, <3>3 DEF CmInv
  <2> QED BY <2>1, <2>2 DEF StacksAreSeparate
<1> QED BY <1>1, PortsKeepContexts, PTL

\* A PLIC source is claimed only while its handler runs.
THEOREM ClaimsAreCompleted ==
  ASSUME PortsAsBuilt
  PROVE  Spec => []ClaimsCompleted
<1>1. PortInv => ClaimsCompleted
  BY DEF PortInv, RvInv, ClaimsCompleted
<1> QED BY <1>1, PortsKeepContexts, PTL
=============================================================================
