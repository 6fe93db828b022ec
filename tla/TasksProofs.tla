----------------------------- MODULE TasksProofs -----------------------------
(***************************************************************************)
(* What tasks share: their stacks, their ends and their mutexes, for every *)
(* pool, guard and set of stack sizes, and every number of slots, mutexes, *)
(* joiners and (but for dispatch) harts.                                   *)
(*                                                                         *)
(* Stacks first, with one task that spawns and despawns.  StacksDisjoint   *)
(* is not inductive.  The invariant adds                                   *)
(*   - that everything handed out so far lies below NEXT, so that what     *)
(*     alloc_stack carves is new;                                          *)
(*   - that the count the spawner loaded in FreeList::push or pop is still *)
(*     the list's when it is used;                                         *)
(*   - who owns the stack of a slot that despawn has already freed.        *)
(* It needs nothing of the scheduler but who is registered, so the first   *)
(* lemmas say that its operations leave that alone.                        *)
(***************************************************************************)
EXTENDS Lifecycle, Mutex, PreemptProofs

USE SchedAssumption

\* The registered tasks of a scheduler record.
Registers(s, U) == "used" \in DOMAIN s /\ s.used = U

LEMMA ReadyKeeps ==
  ASSUME NEW s, NEW U, Registers(s, U), NEW me, NEW id
  PROVE  /\ Registers(wake_other_harts(s, me), U)
         /\ Registers(ready_add(s, me, id), U)
         /\ Registers(ready_remove(s, id), U)
         /\ Registers(heal(s), U)
         /\ Registers(on_dispatch(s, id), U)
BY DEF Registers, wake_other_harts, ready_add, ready_remove, heal, on_dispatch

LEMMA StateKeeps ==
  ASSUME NEW s, NEW U, Registers(s, U), NEW me, NEW id, NEW st
  PROVE  Registers(set_state(s, me, id, st), U)
<1>. DEFINE k1 == [s EXCEPT !.state[id] = st]
<1>1. Registers(k1, U)
  BY DEF Registers
<1>. HIDE DEF k1
<1>2. Registers(ready_add(k1, me, id), U) /\ Registers(ready_remove(k1, id), U)
  BY <1>1, ReadyKeeps
<1>. QED
  BY <1>2 DEF set_state, k1

LEMMA CurrentKeeps ==
  ASSUME NEW s, NEW U, Registers(s, U), NEW me, NEW c
  PROVE  Registers([s EXCEPT !.current[me] = c], U)
BY DEF Registers

\* The switches of start(), on_tick and isolate.
LEMMA SwitchKeeps ==
  ASSUME NEW s, NEW U, Registers(s, U), NEW me, NEW c
  PROVE  /\ Registers(switch_to(s, me, c), U)
         /\ Registers(first_dispatch(s, me), U)
         /\ Registers(on_tick_locked(s, me), U)
         /\ Registers(isolate(s, me), U)
<1>1. ASSUME NEW x, Registers(x, U), NEW d PROVE Registers(switch_to(x, me, d), U)
  <2>. DEFINE k1 == IF x.state[x.current[me]] = "RUNNING"
                    THEN set_state(x, me, x.current[me], "READY") ELSE x
              k2 == set_state(k1, me, d, "RUNNING")
              k3 == [k2 EXCEPT !.current[me] = d]
  <2>1. Registers(k1, U)
    BY <1>1, StateKeeps
  <2>. HIDE DEF k1
  <2>2. Registers(k2, U)
    BY <2>1, StateKeeps
  <2>. HIDE DEF k2
  <2>3. Registers(k3, U)
    BY <2>2, CurrentKeeps
  <2>. HIDE DEF k3
  <2>4. Registers(on_dispatch(k3, d), U)
    BY <2>3, ReadyKeeps
  <2>. QED
    BY <2>4 DEF switch_to, k1, k2, k3
<1>2. Registers(heal(s), U)
  BY ReadyKeeps
<1>3. Registers(first_dispatch(s, me), U)
  <2>. DEFINE d  == schedule(s)
              k1 == [heal(s) EXCEPT !.current[me] = d]
              k2 == set_state(k1, me, d, "RUNNING")
  <2>1. Registers(k1, U)
    BY <1>2, CurrentKeeps
  <2>. HIDE DEF k1
  <2>2. Registers(k2, U)
    BY <2>1, StateKeeps
  <2>. HIDE DEF k2
  <2>3. Registers(on_dispatch(k2, d), U)
    BY <2>2, ReadyKeeps
  <2>. QED
    BY <2>3 DEF first_dispatch, k1, k2
<1>4. Registers(on_tick_locked(s, me), U)
  BY <1>1, <1>2 DEF on_tick_locked
<1>5. Registers(isolate(s, me), U)
  <2>. DEFINE k1 == set_state(s, me, s.current[me], "BLOCKED")
              d  == schedule(k1)
              k2 == set_state(heal(k1), me, d, "RUNNING")
  <2>1. Registers(k1, U)
    BY StateKeeps
  <2>. HIDE DEF k1
  <2>2. Registers(heal(k1), U)
    BY <2>1, ReadyKeeps
  <2>3. Registers(k2, U)
    BY <2>2, StateKeeps
  <2>. HIDE DEF k2
  <2>4. Registers([k2 EXCEPT !.current[me] = d], U)
    BY <2>3, CurrentKeeps
  <2>. QED
    BY <2>4 DEF isolate, k1, k2
<1>. QED
  BY <1>1, <1>3, <1>4, <1>5

\* Waking tasks.
LEMMA UnblockKeeps ==
  ASSUME NEW s, NEW U, Registers(s, U), NEW me, NEW id, NEW W
  PROVE  Registers(unblock(s, me, id), U) /\ Registers(unblock_all(s, me, W), U)
<1>1. Registers(unblock(s, me, id), U)
  BY StateKeeps DEF unblock
<1>2. Registers(unblock_all(s, me, W), U)
  <2>. DEFINE V  == W \cap s.used
              k1 == [s EXCEPT
                       !.state  = [t \in Tasks |-> IF t \in V THEN "READY" ELSE s.state[t]],
                       !.queues = [p \in Prios |-> s.queues[p] \cup {t \in V : s.eff[t] = p}],
                       !.bitmap = @ \cup {s.eff[t] : t \in V}]
  <2>1. Registers(k1, U)
    BY DEF Registers
  <2>. HIDE DEF k1
  <2>2. Registers(wake_other_harts(k1, me), U)
    BY <2>1, ReadyKeeps
  <2>. QED
    BY <2>2 DEF unblock_all, k1
<1>. QED
  BY <1>1, <1>2

\* Registration takes one free slot.
LEMMA RegisterAdds ==
  ASSUME NEW s, NEW U \in SUBSET Tasks, Registers(s, U), U # Tasks, NEW me, NEW p
  PROVE  /\ FirstFree(s) \in Tasks \ U
         /\ Registers(register_full(s, me, p), U \cup {FirstFree(s)})
<1>. DEFINE id == FirstFree(s)
            k1 == [s EXCEPT !.used = @ \cup {id}, !.state[id] = "READY",
                            !.base[id] = p, !.eff[id] = p]
<1>1. FirstFree(s) \in Tasks \ U
  <2>1. FreeSlots(s) = Tasks \ U /\ FreeSlots(s) # {} /\ FreeSlots(s) \subseteq Nat
    <3>1. FreeSlots(s) = Tasks \ U
      BY DEF FreeSlots, Registers
    <3>2. Tasks \subseteq Nat
      BY DEF Tasks
    <3>. QED
      BY <3>1, <3>2
  <2>2. PICK t \in FreeSlots(s) : \A u \in FreeSlots(s) : t <= u
    BY <2>1, NatMin
  <2>. QED
    BY <2>1, <2>2 DEF FirstFree
<1>. HIDE DEF id
<1>2. Registers(k1, U \cup {id})
  BY DEF Registers
<1>. HIDE DEF k1
<1>3. Registers(ready_add(k1, me, id), U \cup {id})
  BY <1>2, ReadyKeeps
<1>. QED
  BY <1>1, <1>3 DEF register_full, k1, id

-----------------------------------------------------------------------------
\* What alloc_stack carves lies, with its guard band, above NEXT.
LEMMA Carving ==
  ASSUME NEW x \in Nat, NEW z \in Sizes
  PROVE  StackBase(x, z) \in Nat /\ StackBase(x, z) - GUARD >= x
<1>. GUARD \in Nat \ {0} /\ z \in Nat \ {0}
  BY LifecycleAssumption
<1>. DEFINE y == x + GUARD + z - 1
            q == y \div z
<1>1. y \in Nat
  OBVIOUS
<1>. HIDE DEF y
<1>2. q \in Nat /\ z * q > y - z
  BY <1>1
<1>. HIDE DEF q
<1>3. q * z = z * q /\ q * z \in Nat
  BY <1>2
<1>4. StackBase(x, z) = q * z
  BY DEF StackBase, y, q
<1>5. q * z > x + GUARD - 1
  BY <1>2, <1>3 DEF y
<1>. QED
  BY <1>3, <1>4, <1>5

\* NEXT at every boot-time spawn, by the assumption on the boot tasks.
LEMMA BootNext ==
  bootNext \in [1..MAX_PTASKS -> 0..POOL_LEN] /\ BootLayout(bootNext)
BY BootAssumption DEF bootNext

\* The boot-time spawns only move NEXT up.
LEMMA BootMonotone ==
  ASSUME NEW t \in 1..MAX_PTASKS, NEW u \in 1..MAX_PTASKS, t <= u
  PROVE  bootNext[t] <= bootNext[u]
<1>. POOL_LEN \in Nat /\ BOOT_SIZE \in Sizes /\ BOOT_SIZE \in Nat /\ GUARD \in Nat
  BY LifecycleAssumption
<1>. bootNext \in [1..MAX_PTASKS -> 0..POOL_LEN] /\ BootLayout(bootNext)
  BY BootNext
<1>. DEFINE Bad == {v \in 1..MAX_PTASKS : t <= v /\ bootNext[v] < bootNext[t]}
<1>. SUFFICES ASSUME Bad # {} PROVE FALSE
  <2>1. bootNext[t] \in Nat /\ bootNext[u] \in Nat
    OBVIOUS
  <2>2. u \notin Bad => bootNext[t] <= bootNext[u]
    BY <2>1
  <2>. QED
    BY <2>2
<1>1. PICK v \in Bad : \A w \in Bad : v <= w
  <2>1. Bad \subseteq Nat
    OBVIOUS
  <2>. QED
    BY <2>1, NatMin
<1>2. v # t /\ v - 1 \in 1..MAX_PTASKS /\ v - 1 \in Tasks \ {IDLE} /\ t <= v - 1
  BY <1>1 DEF Tasks, IDLE
<1>3. bootNext[t] <= bootNext[v - 1]
  <2>1. v - 1 \notin Bad
    BY <1>1, <1>2
  <2>. QED
    BY <2>1, <1>2
<1>4. bootNext[v] >= bootNext[v - 1]
  <2>. DEFINE b == bootNext[v - 1]
  <2>1. b \in Nat /\ bootNext[v] \in Nat
    BY <1>1, <1>2
  <2>2. bootNext[(v - 1) + 1] = bootNext[v]
    BY <1>1
  <2>3. bootNext[v] = b \/ bootNext[v] = StackBase(b, BOOT_SIZE) + BOOT_SIZE
    BY <1>2, <2>2 DEF BootLayout
  <2>. HIDE DEF b
  <2>4. StackBase(b, BOOT_SIZE) \in Nat /\ StackBase(b, BOOT_SIZE) - GUARD >= b
    BY <2>1, Carving
  <2>. QED
    BY <2>1, <2>3, <2>4 DEF b
<1>. QED
  BY <1>1, <1>2, <1>3, <1>4

-----------------------------------------------------------------------------
(***************************************************************************)
(* The layout of the pool: the stacks st[t] of the tasks of O, the first c *)
(* entries e of the free list, and what is in the set H of stacks that     *)
(* have been taken and not yet given to anybody.                           *)
(***************************************************************************)
StackType == [off : Nat, size : Nat]

Below(a, nx) == a.off >= GUARD /\ a.off + a.size <= nx

Apart(a, b) == a.off + a.size <= b.off - GUARD \/ b.off + b.size <= a.off - GUARD

Laid(nx, st, O, e, c, H) ==
  /\ \A t \in O : Below(st[t], nx)
  /\ \A i \in 0..(c - 1) : Below(e[i], nx)
  /\ \A a \in H : Below(a, nx)
  /\ \A t, u \in O : t # u => Apart(st[t], st[u])
  /\ \A i, j \in 0..(c - 1) : i # j => Apart(e[i], e[j])
  /\ \A t \in O : \A i \in 0..(c - 1) : Apart(st[t], e[i])
  /\ \A t \in O : \A a \in H : Apart(st[t], a)
  /\ \A i \in 0..(c - 1) : \A a \in H : Apart(e[i], a)

\* A layout stays one when owners or the stack in hand drop out of it.
LEMMA LaidLess ==
  ASSUME NEW nx, NEW st, NEW O, NEW e, NEW c, NEW H, Laid(nx, st, O, e, c, H),
         NEW st2, NEW O2 \in SUBSET O, NEW H2 \in SUBSET H,
         \A t \in O2 : st2[t] = st[t]
  PROVE  Laid(nx, st2, O2, e, c, H2)
BY DEF Laid

\* A stack carved at or above NEXT.
LEMMA LaidCarve ==
  ASSUME NEW nx \in Nat, NEW st, NEW O, \A t \in O : st[t] \in StackType,
         NEW e, NEW c \in Nat, \A i \in 0..(c - 1) : e[i] \in StackType,
         Laid(nx, st, O, e, c, {}), NEW z \in Nat, NEW b \in Nat, b - GUARD >= nx
  PROVE  Laid(b + z, st, O, e, c, {[off |-> b, size |-> z]})
<1>. GUARD \in Nat
  BY LifecycleAssumption
<1>. DEFINE n == [off |-> b, size |-> z]
<1>1. n.off = b /\ n.size = z
  OBVIOUS
<1>. HIDE DEF n
<1>2. ASSUME NEW a \in StackType, Below(a, nx) PROVE Below(a, b + z) /\ Apart(a, n)
  BY <1>1, <1>2 DEF Below, Apart, StackType
<1>3. Below(n, b + z)
  BY <1>1 DEF Below
<1>4. Laid(b + z, st, O, e, c, {n})
  BY <1>2, <1>3 DEF Laid
<1>. QED
  BY <1>4 DEF n

\* The stack in hand goes to a task that owns none.
LEMMA LaidGive ==
  ASSUME NEW nx, NEW st \in [Tasks -> StackType], NEW O \in SUBSET Tasks,
         NEW e, NEW c, NEW a \in StackType, Laid(nx, st, O, e, c, {a}),
         NEW id \in Tasks \ O
  PROVE  Laid(nx, [st EXCEPT ![id] = a], O \cup {id}, e, c, {})
<1>. DEFINE st2 == [st EXCEPT ![id] = a]
<1>1. st2[id] = a /\ \A t \in O : st2[t] = st[t]
  OBVIOUS
<1>. HIDE DEF st2
<1>2. \A t \in O : Apart(st[t], a) /\ Apart(a, st[t])
  BY DEF Laid, Apart
<1>3. \A j \in 0..(c - 1) : Apart(a, e[j])
  BY DEF Laid, Apart
<1>4. Laid(nx, st2, O \cup {id}, e, c, {})
  BY <1>1, <1>2, <1>3 DEF Laid
<1>. QED
  BY <1>4 DEF st2

\* ... or to the free list.
LEMMA LaidPush ==
  ASSUME NEW nx, NEW st, NEW O, NEW cap \in Nat,
         NEW e \in [0..(cap - 1) -> StackType], NEW c \in 0..(cap - 1),
         NEW a \in StackType, Laid(nx, st, O, e, c, {a})
  PROVE  Laid(nx, st, O, [e EXCEPT ![c] = a], c + 1, {})
<1>. DEFINE e2 == [e EXCEPT ![c] = a]
<1>1. e2[c] = a /\ \A i \in 0..(c - 1) : e2[i] = e[i]
  OBVIOUS
<1>2. \A i \in 0..((c + 1) - 1) : i = c \/ i \in 0..(c - 1)
  OBVIOUS
<1>. HIDE DEF e2
<1>3. \A i \in 0..(c - 1) : Apart(e[i], a) /\ Apart(a, e[i])
  BY DEF Laid, Apart
<1>4. Laid(nx, st, O, e2, c + 1, {})
  BY <1>1, <1>2, <1>3 DEF Laid
<1>. QED
  BY <1>4 DEF e2

\* A task's stack is taken from it ...
LEMMA LaidTake ==
  ASSUME NEW nx, NEW st \in [Tasks -> StackType], NEW O \in SUBSET Tasks,
         NEW e, NEW c, Laid(nx, st, O, e, c, {}), NEW id \in O
  PROVE  Laid(nx, st, O \ {id}, e, c, {st[id]})
<1>1. \A i \in 0..(c - 1) : Apart(e[i], st[id])
  BY DEF Laid, Apart
<1>2. Laid(nx, st, O \ {id}, e, c, {})
  BY LaidLess
<1>. QED
  BY <1>1, <1>2 DEF Laid

\* ... and the last entry from the free list.
LEMMA LaidPop ==
  ASSUME NEW nx, NEW st, NEW O, NEW e, NEW c \in Nat \ {0}, Laid(nx, st, O, e, c, {})
  PROVE  Laid(nx, st, O, e, c - 1, {e[c - 1]})
<1>1. c - 1 \in 0..(c - 1) /\ 0..((c - 1) - 1) \subseteq 0..(c - 1)
  OBVIOUS
<1>2. c - 1 \notin 0..((c - 1) - 1)
  OBVIOUS
<1>. QED
  BY <1>1, <1>2 DEF Laid

-----------------------------------------------------------------------------
LifeLabels ==
  {"pop", "carve", "spawn", "put_back", "put_store", "push", "push_store", "forget",
   "stop", "join", "join_wait", "join_resched", "join_release", "join_read",
   "despawn", "reset", "free", "release",
   "exit", "exit_state", "exit_queue", "exit_resched"}

\* A manager has a stack in hand.
HandLabels == {"put_back", "put_store", "spawn", "push", "push_store"}

\* It has loaded the free list's count.
CountLabels == {"pop", "put_store", "push_store"}

\* It is taking a task's registration away.
VictimLabels == {"despawn", "reset", "free"}

\* It does none of this.
PlainLabels ==
  (PcLabels \cup LifeLabels)
    \ (HandLabels \cup CountLabels \cup VictimLabels \cup {"release"})

LocType == [n : 0..FREE_LIST_CAP, size : Sizes, stack : StackType,
            h : [id : Tasks, gen : Nat]]

PoolType == [next : Nat, count : 0..FREE_LIST_CAP,
             entries : [0..(FREE_LIST_CAP - 1) -> StackType]]

\* The stacks the slots name.
Names(r, S) == "stack" \in DOMAIN r /\ r.stack = S

Types ==
  /\ pc \in [Tasks -> PcLabels \cup LifeLabels]
  /\ k.used \in SUBSET Tasks /\ Registers(k, k.used)
  /\ tcb.stack \in [Tasks -> StackType] /\ Names(tcb, tcb.stack)
  /\ pool \in PoolType /\ pool.next <= POOL_LEN
  /\ loc \in [Managers -> LocType]

\* A count that manager m has loaded is still right.
Counted(m) == pc[m] \in CountLabels => loc[m].n = pool.count

\* The task m despawns is registered until DespawnFree, and then is not.
VictimKnown(m) ==
  /\ pc[m] \in VictimLabels => loc[m].h.id \in k.used
  /\ pc[m] = "release" => loc[m].h.id \notin k.used

\* Who owns the stack its slot names: the registered tasks, and the task m has
\* just freed.
OwnersAt(S, U, l, id) ==
  {t \in Tasks : S[t] # NoStack /\ (t \in U \/ (l = "release" /\ t = id))}

HandAt(l, s) == IF l \in HandLabels THEN {s} ELSE {}

Owners(m) == OwnersAt(tcb.stack, k.used, pc[m], loc[m].h.id)

Hand(m) == HandAt(pc[m], loc[m].stack)

PoolLaid(m) ==
  Laid(pool.next, tcb.stack, Owners(m), pool.entries, pool.count, Hand(m))

LifeInv(m) == Types /\ Counted(m) /\ VictimKnown(m) /\ PoolLaid(m)

-----------------------------------------------------------------------------
\* The boot-time stacks are laid out one above the other.
LEMMA InitLife ==
  ASSUME NEW m, Spawners = {m}, LifeInit
  PROVE  LifeInv(m)
<1>. /\ POOL_LEN \in Nat /\ BOOT_SIZE \in Sizes /\ BOOT_SIZE \in Nat \ {0}
     /\ GUARD \in Nat \ {0} /\ FREE_LIST_CAP \in Nat \ {0} /\ m \in Managers /\ m \in Tasks
     /\ MAX_PTASKS \in 1..MAX_PTASKS
  BY LifecycleAssumption
<1>. /\ bootNext \in [1..MAX_PTASKS -> 0..POOL_LEN] /\ BootLayout(bootNext)
  BY BootNext
<1>1. /\ pc = [t \in Tasks |-> "run"] /\ loc = [x \in Managers |-> NoLocals]
      /\ tcb.stack = [t \in Tasks |-> BootStack(t)] /\ "stack" \in DOMAIN tcb
      /\ pool = [next |-> bootNext[MAX_PTASKS], count |-> 0,
                 entries |-> [i \in 0..(FREE_LIST_CAP - 1) |-> NoStack]]
  BY DEF LifeInit, Init
<1>2. k.used = {t \in Tasks : BootUsed(t)} /\ "used" \in DOMAIN k
  BY DEF LifeInit, Init, EmptySched
<1>3. ASSUME NEW t \in Tasks \ {IDLE}, BootUsed(t)
      PROVE  /\ BootStack(t) = [off |-> StackBase(bootNext[t], BOOT_SIZE), size |-> BOOT_SIZE]
             /\ StackBase(bootNext[t], BOOT_SIZE) \in Nat
             /\ StackBase(bootNext[t], BOOT_SIZE) - GUARD >= bootNext[t]
             /\ bootNext[t + 1] = StackBase(bootNext[t], BOOT_SIZE) + BOOT_SIZE
  <2>1. t \in 1..MAX_PTASKS /\ t + 1 \in 1..MAX_PTASKS
    BY DEF Tasks, IDLE
  <2>2. bootNext[t] \in Nat
    BY <2>1
  <2>. QED
    BY <1>3, <2>2, Carving DEF BootStack, BootLayout
<1>4. \A t \in Tasks : ~(t # IDLE /\ BootUsed(t)) => BootStack(t) = NoStack
  BY DEF BootStack
<1>5. NoStack \in StackType
  BY DEF NoStack, StackType
<1>6. tcb.stack \in [Tasks -> StackType]
  <2>1. ASSUME NEW t \in Tasks PROVE BootStack(t) \in StackType
    BY <1>3, <1>4, <1>5 DEF StackType
  <2>. QED
    BY <1>1, <2>1
<1>7. Types
  <2>1. NoLocals \in LocType
    BY <1>5 DEF NoLocals, LocType, IDLE, Tasks
  <2>2. pool \in PoolType /\ pool.next <= POOL_LEN
    BY <1>1, <1>5 DEF PoolType
  <2>. QED
    BY <1>1, <1>2, <1>6, <2>1, <2>2 DEF Types, Registers, Names, PcLabels
<1>8. Counted(m) /\ VictimKnown(m)
  BY <1>1 DEF Counted, VictimKnown, CountLabels, VictimLabels
<1>9. ASSUME NEW t \in Owners(m)
      PROVE  t \in Tasks \ {IDLE} /\ BootUsed(t)
  BY <1>1, <1>2, <1>4 DEF Owners, OwnersAt
<1>10. ASSUME NEW t \in Owners(m) PROVE Below(tcb.stack[t], bootNext[MAX_PTASKS])
  <2>1. t + 1 \in 1..MAX_PTASKS /\ t \in 1..MAX_PTASKS /\ t + 1 <= MAX_PTASKS
    BY <1>9 DEF Tasks, IDLE
  <2>2. bootNext[t + 1] <= bootNext[MAX_PTASKS]
    BY <2>1, BootMonotone
  <2>3. bootNext[t] \in Nat
    BY <2>1
  <2>. QED
    BY <1>1, <1>3, <1>9, <2>2, <2>3 DEF Below
<1>11. ASSUME NEW t \in Owners(m), NEW u \in Owners(m), t < u
       PROVE  Apart(tcb.stack[t], tcb.stack[u]) /\ Apart(tcb.stack[u], tcb.stack[t])
  <2>1. t + 1 \in 1..MAX_PTASKS /\ u \in 1..MAX_PTASKS /\ t + 1 <= u
    BY <1>9, <1>11 DEF Tasks, IDLE
  <2>2. bootNext[t + 1] <= bootNext[u]
    BY <2>1, BootMonotone
  <2>3. bootNext[t + 1] \in Nat /\ bootNext[u] \in Nat
    BY <2>1
  <2>. QED
    BY <1>1, <1>3, <1>9, <2>2, <2>3 DEF Apart
<1>12. \A t, u \in Owners(m) : t # u => t < u \/ u < t
  BY <1>9 DEF Tasks
<1>13. PoolLaid(m)
  <2>1. Hand(m) = {}
    BY <1>1 DEF Hand, HandAt, HandLabels
  <2>2. \A t, u \in Owners(m) : t # u => Apart(tcb.stack[t], tcb.stack[u])
    BY <1>11, <1>12
  <2>3. pool.next = bootNext[MAX_PTASKS] /\ 0..(pool.count - 1) = {}
    BY <1>1
  <2>. QED
    BY <1>10, <2>1, <2>2, <2>3 DEF PoolLaid, Laid
<1>. QED
  BY <1>7, <1>8, <1>13 DEF LifeInv

-----------------------------------------------------------------------------
\* A step that leaves the stacks alone, and either is not the manager's or takes
\* it from one plain label to another.
LEMMA PlainStep ==
  ASSUME NEW m, Spawners = {m}, LifeInv(m),
         Registers(k', k.used), Names(tcb', tcb.stack), pool' = pool,
         pc' \in [Tasks -> PcLabels \cup LifeLabels], loc' \in [Managers -> LocType],
         \/ pc'[m] = pc[m] /\ loc'[m] = loc[m]
         \/ pc[m] \in PlainLabels /\ pc'[m] \in PlainLabels
  PROVE  LifeInv(m)'
<1>1. k'.used = k.used /\ tcb'.stack = tcb.stack
  BY DEF Registers, Names
<1>2. Types'
  BY <1>1 DEF LifeInv, Types, Registers, Names
<1>3. CASE pc'[m] = pc[m] /\ loc'[m] = loc[m]
  <2>1. Counted(m)' /\ VictimKnown(m)'
    BY <1>1, <1>3 DEF LifeInv, Counted, VictimKnown
  <2>2. Owners(m)' = Owners(m) /\ Hand(m)' = Hand(m)
    BY <1>1, <1>3 DEF Owners, OwnersAt, Hand, HandAt
  <2>3. PoolLaid(m)'
    BY <1>1, <2>2 DEF LifeInv, PoolLaid
  <2>. QED
    BY <1>2, <2>1, <2>3 DEF LifeInv
<1>4. CASE pc[m] \in PlainLabels /\ pc'[m] \in PlainLabels
  <2>1. Counted(m)' /\ VictimKnown(m)'
    BY <1>4 DEF Counted, VictimKnown, PlainLabels
  <2>2. Owners(m)' = Owners(m) /\ Hand(m)' = Hand(m)
    BY <1>1, <1>4 DEF Owners, OwnersAt, Hand, HandAt, PlainLabels
  <2>3. PoolLaid(m)'
    BY <1>1, <2>2 DEF LifeInv, PoolLaid
  <2>. QED
    BY <1>2, <2>1, <2>3 DEF LifeInv
<1>. QED
  BY <1>3, <1>4

\* The steps of the preemptive tier register nobody when none of its tasks
\* spawns, and stay among their own labels.
LEMMA TierKeeps ==
  ASSUME SpawnPrios = {}, NEW U, Registers(k, U), Next
  PROVE  /\ Registers(k', U)
         /\ \/ pc' = pc
            \/ \E t \in Tasks, l \in PcLabels :
                 pc[t] \in PcLabels /\ pc' = [pc EXCEPT ![t] = l]
<1>. DEFINE Moves == \/ pc' = pc
                     \/ \E t \in Tasks, l \in PcLabels :
                          pc[t] \in PcLabels /\ pc' = [pc EXCEPT ![t] = l]
<1>run. CASE Run
  BY <1>run DEF Run
<1>start. ASSUME NEW h \in Harts, Start(h) PROVE Registers(k', U) /\ pc' = pc
  <2>1. Registers(first_dispatch(k, h), U)
    BY SwitchKeeps
  <2>. QED
    BY <1>start, <2>1 DEF Start
<1>tick. ASSUME NEW h \in Harts, Tick(h) PROVE Registers(k', U) /\ pc' = pc
  <2>. PICK E \in SUBSET armed :
         k' = IF E = {} THEN k ELSE wake_other_harts(unblock_all(k, h, E), h)
    BY <1>tick DEF Tick
  <2>1. Registers(wake_other_harts(unblock_all(k, h, E), h), U)
    BY UnblockKeeps, ReadyKeeps
  <2>. QED
    BY <1>tick, <2>1 DEF Tick
<1>soft. ASSUME NEW h \in Harts, NEW S PROVE Registers([k EXCEPT !.msip = S], U)
  BY DEF Registers
<1>on. ASSUME NEW h \in Harts, OnTick(h) PROVE Registers(k', U) /\ pc' = pc
  <2>1. Registers(on_tick_locked(k, h), U)
    BY SwitchKeeps
  <2>. QED
    BY <1>on, <2>1 DEF OnTick
<1>fault. ASSUME NEW h \in Harts, OnTickFault(h) PROVE Registers(k', U) /\ pc' = pc
  <2>1. Registers(heal(k), U)
    BY ReadyKeeps
  <2>2. Registers(set_state(heal(k), h, k.current[h], "BLOCKED"), U)
    BY <2>1, StateKeeps
  <2>3. Registers(isolate(heal(k), h), U)
    BY <2>1, SwitchKeeps
  <2>. QED
    BY <1>fault, <2>2, <2>3 DEF OnTickFault
<1>task. ASSUME NEW h \in Harts, NEW t \in Tasks, TaskStep(h, t)
         PROVE  Registers(k', U) /\ Moves
  <2>1. CASE SleepBegin(h, t)
    <3>1. Registers(block_current(k, h), U)
      BY StateKeeps DEF block_current
    <3>. QED
      BY <2>1, <3>1 DEF SleepBegin, At, PcLabels
  <2>2. CASE SleepResched(h, t) \/ YieldNow(h, t) \/ ParkLoop(h, t)
    BY <2>2, <1>soft DEF SleepResched, YieldNow, ParkLoop, RequestReschedule, At, PcLabels
  <2>3. CASE SleepEnd(h, t)
    BY <2>3 DEF SleepEnd, At, PcLabels
  <2>4. CASE ParkState(h, t)
    BY <2>4 DEF ParkState, At, PcLabels, Registers
  <2>5. CASE ParkQueue(h, t)
    BY <2>5, ReadyKeeps DEF ParkQueue, At, PcLabels
  <2>6. ASSUME NEW u \in Pausable, Pause(h, t, u) PROVE Registers(k', U) /\ pc' = pc
    <3>1. Registers([k EXCEPT !.state[u] = "SUSPENDED"], U)
      BY DEF Registers
    <3>. QED
      BY <2>6, <3>1, ReadyKeeps DEF Pause
  <2>7. ASSUME NEW u \in Pausable, Resume(h, t, u) PROVE Registers(k', U) /\ pc' = pc
    <3>1. Registers([k EXCEPT !.state[u] = "READY"], U)
      BY DEF Registers
    <3>. QED
      BY <2>7, <3>1, ReadyKeeps DEF Resume
  <2>. QED
    BY <1>task, <2>1, <2>2, <2>3, <2>4, <2>5, <2>6, <2>7 DEF TaskStep
<1>. QED
  BY <1>run, <1>start, <1>tick, <1>soft, <1>on, <1>fault, <1>task
     DEF Next, HartStep, SoftIrq

LEMMA TierLife ==
  ASSUME NEW m, Spawners = {m}, SpawnPrios = {}, LifeInv(m), Next, UNCHANGED lvars
  PROVE  LifeInv(m)'
<1>. m \in Managers /\ m \in Tasks
  BY LifecycleAssumption
<1>. pc \in [Tasks -> PcLabels \cup LifeLabels] /\ loc \in [Managers -> LocType]
  BY DEF LifeInv, Types
<1>1. Registers(k', k.used) /\ UNCHANGED <<tcb, pool, loc>> /\ Names(tcb', tcb.stack)
  BY TierKeeps DEF LifeInv, Types, lvars
<1>2. CASE pc' = pc
  BY <1>1, <1>2, PlainStep
<1>3. ASSUME NEW t \in Tasks, NEW l \in PcLabels, pc[t] \in PcLabels,
             pc' = [pc EXCEPT ![t] = l]
      PROVE  LifeInv(m)'
  <2>1. PcLabels \subseteq PlainLabels
    BY DEF PcLabels, PlainLabels, HandLabels, CountLabels, VictimLabels
  <2>2. pc' \in [Tasks -> PcLabels \cup LifeLabels]
    BY <1>3
  <2>3. pc'[m] = pc[m] \/ (pc[m] \in PlainLabels /\ pc'[m] \in PlainLabels)
    BY <1>3, <2>1
  <2>. QED
    BY <1>1, <2>2, <2>3, PlainStep
<1>. QED
  BY <1>2, <1>3, TierKeeps DEF LifeInv, Types

\* A task that exits keeps its registration and its stack.
LEMMA ExitLife ==
  ASSUME NEW m, Spawners = {m}, LifeInv(m), NEW h \in Harts, NEW t \in Tasks,
         ExitStep(h, t)
  PROVE  LifeInv(m)'
<1>. m \in Managers /\ m \in Tasks
  BY LifecycleAssumption
<1>. /\ pc \in [Tasks -> PcLabels \cup LifeLabels] /\ loc \in [Managers -> LocType]
     /\ Registers(k, k.used) /\ Names(tcb, tcb.stack)
  BY DEF LifeInv, Types
<1>1. PICK l \in {"exit", "exit_state", "exit_queue", "exit_resched"} :
        /\ pc' = [pc EXCEPT ![t] = l] /\ UNCHANGED <<pool, loc>>
        /\ pc[t] \in {"run", "exit", "exit_state", "exit_queue", "exit_resched"}
  BY DEF ExitStep, Exit, ExitPublish, ExitState, ExitQueue, ExitResched, Goto, At, lvars
<1>2. Names(tcb', tcb.stack)
  BY DEF ExitStep, Exit, ExitPublish, ExitState, ExitQueue, ExitResched, lvars, Names
<1>3. Registers(k', k.used)
  <2>1. CASE Exit(h, t)
    BY <2>1 DEF Exit, Quiet
  <2>2. CASE ExitPublish(h, t)
    BY <2>2, UnblockKeeps DEF ExitPublish
  <2>3. CASE ExitState(h, t)
    BY <2>3 DEF ExitState, Registers
  <2>4. CASE ExitQueue(h, t)
    BY <2>4, ReadyKeeps DEF ExitQueue
  <2>5. CASE ExitResched(h, t)
    BY <2>5 DEF ExitResched, RequestReschedule, Registers
  <2>. QED
    BY <2>1, <2>2, <2>3, <2>4, <2>5 DEF ExitStep
<1>4. pc' \in [Tasks -> PcLabels \cup LifeLabels]
  BY <1>1 DEF LifeLabels
<1>5. pc'[m] = pc[m] \/ (pc[m] \in PlainLabels /\ pc'[m] \in PlainLabels)
  BY <1>1 DEF PlainLabels, PcLabels, LifeLabels, HandLabels, CountLabels, VictimLabels
<1>. QED
  BY <1>1, <1>2, <1>3, <1>4, <1>5, PlainStep

-----------------------------------------------------------------------------
\* What a step of the manager's has to establish.
LEMMA LifeStep ==
  ASSUME NEW m, Spawners = {m}, LifeInv(m),
         NEW U \in SUBSET Tasks, Registers(k', U),
         NEW S \in [Tasks -> StackType], Names(tcb', S),
         pool' \in PoolType, pool'.next <= POOL_LEN,
         pc' \in [Tasks -> PcLabels \cup LifeLabels],
         NEW x \in LocType, loc' = [loc EXCEPT ![m] = x],
         pc'[m] \in CountLabels => x.n = pool'.count,
         pc'[m] \in VictimLabels => x.h.id \in U,
         pc'[m] = "release" => x.h.id \notin U,
         Laid(pool'.next, S, OwnersAt(S, U, pc'[m], x.h.id),
              pool'.entries, pool'.count, HandAt(pc'[m], x.stack))
  PROVE  LifeInv(m)'
<1>1. k'.used = U /\ tcb'.stack = S
  BY DEF Registers, Names
<1>2. loc' \in [Managers -> LocType] /\ loc'[m] = x
  BY LifecycleAssumption DEF LifeInv, Types
<1>3. Types'
  BY <1>1, <1>2 DEF Types, Registers, Names
<1>4. Counted(m)' /\ VictimKnown(m)'
  BY <1>1, <1>2 DEF Counted, VictimKnown
<1>5. PoolLaid(m)'
  BY <1>1, <1>2 DEF PoolLaid, Owners, Hand
<1>. QED
  BY <1>3, <1>4, <1>5 DEF LifeInv

\* The same for a step that touches neither the slots nor the pool, and takes
\* no stack in hand or out of it.
LEMMA LoadStep ==
  ASSUME NEW m, Spawners = {m}, LifeInv(m), Quiet, UNCHANGED <<tcb, pool>>,
         NEW l \in PcLabels \cup LifeLabels, Goto(m, l),
         NEW x \in LocType, loc' = [loc EXCEPT ![m] = x],
         l \in CountLabels => x.n = pool.count,
         l \in VictimLabels => x.h.id \in k.used,
         pc[m] # "release" /\ l # "release",
         l \in HandLabels => pc[m] \in HandLabels /\ x.stack = loc[m].stack
  PROVE  LifeInv(m)'
<1>. m \in Managers /\ m \in Tasks
  BY LifecycleAssumption
<1>. /\ pc \in [Tasks -> PcLabels \cup LifeLabels] /\ loc \in [Managers -> LocType]
     /\ Registers(k, k.used) /\ Names(tcb, tcb.stack) /\ k.used \in SUBSET Tasks
     /\ tcb.stack \in [Tasks -> StackType] /\ pool \in PoolType /\ pool.next <= POOL_LEN
  BY DEF LifeInv, Types
<1>1. k' = k /\ tcb' = tcb /\ pool' = pool
  BY DEF Quiet
<1>2. pc' \in [Tasks -> PcLabels \cup LifeLabels] /\ pc'[m] = l
  BY DEF Goto
<1>3. OwnersAt(tcb.stack, k.used, l, x.h.id) = Owners(m)
  BY DEF Owners, OwnersAt
<1>4. HandAt(l, x.stack) \subseteq Hand(m)
  BY DEF Hand, HandAt
<1>5. Laid(pool.next, tcb.stack, Owners(m), pool.entries, pool.count, Hand(m))
  BY DEF LifeInv, PoolLaid
<1>6. Laid(pool.next, tcb.stack, Owners(m), pool.entries, pool.count, HandAt(l, x.stack))
  BY <1>4, <1>5, LaidLess
<1>7. Registers(k', k.used) /\ Names(tcb', tcb.stack)
  BY <1>1
<1>8. Laid(pool'.next, tcb.stack, OwnersAt(tcb.stack, k.used, pc'[m], x.h.id),
           pool'.entries, pool'.count, HandAt(pc'[m], x.stack))
  BY <1>1, <1>2, <1>3, <1>6
<1>9. pool' \in PoolType /\ pool'.next <= POOL_LEN /\ pc'[m] # "release"
  BY <1>1, <1>2
<1>10. /\ pc'[m] \in CountLabels => x.n = pool'.count
       /\ pc'[m] \in VictimLabels => x.h.id \in k.used
  BY <1>1, <1>2
<1>. QED
  BY <1>2, <1>7, <1>8, <1>9, <1>10, LifeStep

\* spawn: the stack that is taken from the free list or carved.
LEMMA AllocLife ==
  ASSUME NEW m, Spawners = {m}, LifeInv(m), NEW h \in Harts,
         \/ \E z \in Sizes : AllocStack(h, m, z)
         \/ Pop(h, m) \/ Carve(h, m)
  PROVE  LifeInv(m)'
<1>. m \in Managers /\ m \in Tasks /\ FREE_LIST_CAP \in Nat \ {0} /\ GUARD \in Nat /\ Sizes \subseteq Nat
  BY LifecycleAssumption
<1>. /\ pc \in [Tasks -> PcLabels \cup LifeLabels] /\ loc \in [Managers -> LocType]
     /\ Registers(k, k.used) /\ Names(tcb, tcb.stack) /\ k.used \in SUBSET Tasks
     /\ tcb.stack \in [Tasks -> StackType] /\ pool \in PoolType /\ pool.next <= POOL_LEN
  BY DEF LifeInv, Types
<1>loc. loc[m] \in LocType
  OBVIOUS
<1>laid. Laid(pool.next, tcb.stack, Owners(m), pool.entries, pool.count, Hand(m))
  BY DEF LifeInv, PoolLaid
<1>alloc. ASSUME NEW z \in Sizes, AllocStack(h, m, z) PROVE LifeInv(m)'
  <2>. DEFINE x == [loc[m] EXCEPT !.n = pool.count, !.size = z]
  <2>1. x \in LocType /\ x.n = pool.count
    BY <1>loc DEF LocType, PoolType
  <2>2. loc' = [loc EXCEPT ![m] = x]
    BY <1>alloc DEF AllocStack
  <2>. HIDE DEF x
  <2>3. /\ Goto(m, "pop") /\ "pop" \in PcLabels \cup LifeLabels
        /\ "pop" \notin VictimLabels \cup HandLabels /\ pc[m] = "run"
    BY <1>alloc DEF AllocStack, LifeLabels, VictimLabels, HandLabels, At
  <2>4. Quiet /\ UNCHANGED <<tcb, pool>>
    BY <1>alloc DEF AllocStack
  <2>. QED
    BY <2>1, <2>2, <2>3, <2>4, LoadStep
<1>pop. CASE Pop(h, m)
  <2>1. /\ pc[m] = "pop" /\ k' = k /\ tcb' = tcb /\ loc[m].n = pool.count
        /\ Hand(m) = {}
    BY <1>pop DEF Pop, At, Quiet, LifeInv, Counted, CountLabels, Hand, HandAt, HandLabels
  <2>2. CASE loc[m].n = 0
    <3>1. Goto(m, "carve") /\ UNCHANGED <<pool, loc>>
      BY <1>pop, <2>2 DEF Pop
    <3>2. loc' = [loc EXCEPT ![m] = loc[m]]
      BY <3>1
    <3>3. /\ "carve" \in PcLabels \cup LifeLabels
          /\ "carve" \notin CountLabels \cup VictimLabels \cup HandLabels
      BY DEF LifeLabels, CountLabels, VictimLabels, HandLabels
    <3>4. Quiet /\ UNCHANGED <<tcb, pool>>
      BY <1>pop, <3>1 DEF Pop
    <3>. QED
      BY <1>loc, <2>1, <3>1, <3>2, <3>3, <3>4, LoadStep
  <2>3. CASE loc[m].n # 0
    <3>. DEFINE e == pool.entries[loc[m].n - 1]
                x == [loc[m] EXCEPT !.stack = e]
                l == IF e.size = loc[m].size THEN "spawn" ELSE "put_back"
    <3>1. pool.count \in Nat \ {0} /\ pool.count - 1 \in 0..(FREE_LIST_CAP - 1)
      BY <2>1, <2>3 DEF PoolType
    <3>2. e \in StackType /\ e = pool.entries[pool.count - 1]
      BY <2>1, <3>1 DEF PoolType
    <3>3. /\ pool' = [pool EXCEPT !.count = loc[m].n - 1]
          /\ loc' = [loc EXCEPT ![m] = x] /\ pc' = [pc EXCEPT ![m] = l]
      BY <1>pop, <2>3 DEF Pop, Goto
    <3>4. l \in {"spawn", "put_back"}
      OBVIOUS
    <3>5. x \in LocType /\ x.stack = e
      BY <1>loc, <3>2 DEF LocType
    <3>. HIDE DEF x, l, e
    <3>6. /\ pool' \in PoolType /\ pool'.next = pool.next /\ pool'.entries = pool.entries
          /\ pool'.count = pool.count - 1
      <4>1. pool.count - 1 \in 0..FREE_LIST_CAP /\ pool' = [pool EXCEPT !.count = pool.count - 1]
        BY <2>1, <3>1, <3>3
      <4>2. ASSUME NEW n \in 0..FREE_LIST_CAP PROVE [pool EXCEPT !.count = n] \in PoolType
        BY DEF PoolType
      <4>3. pool' \in PoolType
        BY <4>1, <4>2
      <4>. QED
        BY <4>1, <4>3 DEF PoolType
    <3>7. pc' \in [Tasks -> PcLabels \cup LifeLabels] /\ pc'[m] = l
      BY <3>3, <3>4 DEF LifeLabels
    <3>8. /\ HandAt(l, x.stack) = {e} /\ l \notin CountLabels \cup VictimLabels \cup {"release"}
      BY <3>4, <3>5 DEF HandAt, HandLabels, CountLabels, VictimLabels
    <3>9. OwnersAt(tcb.stack, k.used, l, x.h.id) = Owners(m)
      BY <2>1, <3>8 DEF Owners, OwnersAt
    <3>10. Laid(pool.next, tcb.stack, Owners(m), pool.entries, pool.count - 1, {e})
      BY <1>laid, <2>1, <3>1, <3>2, LaidPop
    <3>11. Laid(pool'.next, tcb.stack, OwnersAt(tcb.stack, k.used, pc'[m], x.h.id),
                pool'.entries, pool'.count, HandAt(pc'[m], x.stack))
      BY <3>6, <3>7, <3>8, <3>9, <3>10
    <3>12. Registers(k', k.used) /\ Names(tcb', tcb.stack) /\ pool'.next <= POOL_LEN
      BY <2>1, <3>6
    <3>13. pc'[m] \notin CountLabels \cup VictimLabels \cup {"release"}
      BY <3>7, <3>8
    <3>. QED
      BY <3>3, <3>5, <3>6, <3>7, <3>11, <3>12, <3>13, LifeStep
  <2>. QED
    BY <2>2, <2>3
<1>carve. CASE Carve(h, m)
  <2>. DEFINE z == loc[m].size
              b == StackBase(pool.next, z)
  <2>1. /\ pc[m] = "carve" /\ k' = k /\ tcb' = tcb /\ Hand(m) = {}
    BY <1>carve DEF Carve, At, Quiet, Hand, HandAt, HandLabels
  <2>2. z \in Sizes /\ z \in Nat /\ pool.next \in Nat
    BY <1>loc DEF LocType, PoolType
  <2>3. b \in Nat /\ b - GUARD >= pool.next
    BY <2>2, Carving
  <2>4. CASE Fits(pool.next, z)
    <3>. DEFINE x == [loc[m] EXCEPT !.stack = [off |-> b, size |-> z]]
    <3>1. /\ pool' = [pool EXCEPT !.next = b + z]
          /\ loc' = [loc EXCEPT ![m] = x] /\ pc' = [pc EXCEPT ![m] = "spawn"]
      BY <1>carve, <2>4 DEF Carve, Goto
    <3>2. b + z <= POOL_LEN
      BY <2>4 DEF Fits
    <3>. HIDE DEF b, z
    <3>3. x \in LocType /\ x.stack = [off |-> b, size |-> z]
      BY <1>loc, <2>2, <2>3 DEF LocType, StackType
    <3>. HIDE DEF x
    <3>4. /\ pool' \in PoolType /\ pool'.next = b + z /\ pool'.entries = pool.entries
          /\ pool'.count = pool.count
      <4>1. b + z \in Nat
        BY <2>2, <2>3
      <4>2. ASSUME NEW w \in Nat PROVE [pool EXCEPT !.next = w] \in PoolType
        BY DEF PoolType
      <4>3. [pool EXCEPT !.next = b + z] \in PoolType
        BY <4>1, <4>2
      <4>4. pool'.next = b + z
        BY <3>1 DEF PoolType
      <4>. QED
        BY <3>1, <4>3, <4>4
    <3>5. pc' \in [Tasks -> PcLabels \cup LifeLabels] /\ pc'[m] = "spawn"
      BY <3>1 DEF LifeLabels
    <3>6. OwnersAt(tcb.stack, k.used, "spawn", x.h.id) = Owners(m)
      BY <2>1 DEF Owners, OwnersAt
    <3>7. \A t \in Owners(m) : tcb.stack[t] \in StackType
      BY DEF Owners, OwnersAt
    <3>8. /\ pool.count \in Nat
          /\ \A i \in 0..(pool.count - 1) : pool.entries[i] \in StackType
      BY DEF PoolType
    <3>9. Laid(b + z, tcb.stack, Owners(m), pool.entries, pool.count, {[off |-> b, size |-> z]})
      BY <1>laid, <2>1, <2>2, <2>3, <3>7, <3>8, LaidCarve
    <3>10. HandAt("spawn", x.stack) = {[off |-> b, size |-> z]}
      BY <3>3 DEF HandAt, HandLabels
    <3>11. Laid(pool'.next, tcb.stack, OwnersAt(tcb.stack, k.used, pc'[m], x.h.id),
                pool'.entries, pool'.count, HandAt(pc'[m], x.stack))
      BY <3>4, <3>5, <3>6, <3>9, <3>10
    <3>12. Registers(k', k.used) /\ Names(tcb', tcb.stack) /\ pool'.next <= POOL_LEN
      BY <2>1, <3>2, <3>4
    <3>13. pc'[m] \notin CountLabels \cup VictimLabels \cup {"release"}
      BY <3>5 DEF CountLabels, VictimLabels
    <3>. QED
      BY <3>1, <3>3, <3>4, <3>5, <3>11, <3>12, <3>13, LifeStep
  <2>5. CASE ~Fits(pool.next, z)
    <3>1. /\ Goto(m, "run") /\ loc' = [loc EXCEPT ![m] = NoLocals] /\ pool' = pool
          /\ Quiet
      BY <1>carve, <2>5 DEF Carve, Return
    <3>2. NoLocals \in LocType
      BY LifecycleAssumption DEF NoLocals, NoStack, LocType, StackType, IDLE, Tasks
    <3>3. /\ "run" \in PcLabels \cup LifeLabels
          /\ "run" \notin CountLabels \cup VictimLabels \cup HandLabels
      BY DEF PcLabels, CountLabels, VictimLabels, HandLabels
    <3>. QED
      BY <2>1, <3>1, <3>2, <3>3, LoadStep
  <2>. QED
    BY <2>4, <2>5
<1>. QED
  BY <1>alloc, <1>pop, <1>carve

\* FreeList::push: the count it loaded is right when the entry is stored, and a
\* stack for which the list has no room is lost.
LEMMA PushLife ==
  ASSUME NEW m, Spawners = {m}, LifeInv(m), NEW h \in Harts, PushStep(h, m)
  PROVE  LifeInv(m)'
<1>. m \in Managers /\ m \in Tasks /\ FREE_LIST_CAP \in Nat \ {0}
  BY LifecycleAssumption
<1>. /\ pc \in [Tasks -> PcLabels \cup LifeLabels] /\ loc \in [Managers -> LocType]
     /\ Registers(k, k.used) /\ Names(tcb, tcb.stack) /\ k.used \in SUBSET Tasks
     /\ tcb.stack \in [Tasks -> StackType] /\ pool \in PoolType /\ pool.next <= POOL_LEN
  BY DEF LifeInv, Types
<1>loc. loc[m] \in LocType
  OBVIOUS
<1>laid. Laid(pool.next, tcb.stack, Owners(m), pool.entries, pool.count, Hand(m))
  BY DEF LifeInv, PoolLaid
<1>load. ASSUME NEW from \in {"put_back", "push"}, NEW to \in {"put_store", "push_store"},
                PushLoad(h, m, from, to)
         PROVE  LifeInv(m)'
  <2>. DEFINE x == [loc[m] EXCEPT !.n = pool.count]
  <2>1. x \in LocType /\ x.n = pool.count /\ x.stack = loc[m].stack
    BY <1>loc DEF LocType, PoolType
  <2>2. loc' = [loc EXCEPT ![m] = x]
    BY <1>load DEF PushLoad
  <2>. HIDE DEF x
  <2>3. Goto(m, to) /\ Quiet /\ UNCHANGED <<tcb, pool>>
    BY <1>load DEF PushLoad
  <2>4. /\ to \in PcLabels \cup LifeLabels /\ to \notin VictimLabels \cup {"release"}
        /\ pc[m] \in HandLabels /\ pc[m] # "release"
    BY <1>load DEF PushLoad, At, LifeLabels, VictimLabels, HandLabels
  <2>. QED
    BY <2>1, <2>2, <2>3, <2>4, LoadStep
<1>store. ASSUME NEW from \in {"put_store", "push_store"}, NEW to \in {"carve", "forget"},
                 PushStore(h, m, from, to)
          PROVE  LifeInv(m)'
  <2>1. /\ pc[m] = from /\ k' = k /\ tcb' = tcb /\ loc' = loc
        /\ pc' = [pc EXCEPT ![m] = to]
    BY <1>store DEF PushStore, At, Quiet, Goto
  <2>2. loc[m].n = pool.count /\ Hand(m) = {loc[m].stack}
    BY <2>1 DEF LifeInv, Counted, CountLabels, Hand, HandAt, HandLabels
  <2>3. /\ pc' \in [Tasks -> PcLabels \cup LifeLabels] /\ pc'[m] = to
        /\ pc'[m] \notin CountLabels \cup VictimLabels \cup HandLabels \cup {"release"}
    BY <2>1 DEF LifeLabels, CountLabels, VictimLabels, HandLabels
  <2>4. /\ OwnersAt(tcb.stack, k.used, pc'[m], loc[m].h.id) = Owners(m)
        /\ HandAt(pc'[m], loc[m].stack) = {}
    BY <2>1, <2>3 DEF Owners, OwnersAt, HandAt
  <2>5. CASE pool.count < FREE_LIST_CAP
    <3>1. pool' = [pool EXCEPT !.entries[pool.count] = loc[m].stack, !.count = pool.count + 1]
      BY <1>store, <2>2, <2>5 DEF PushStore
    <3>2. /\ pool.count \in 0..(FREE_LIST_CAP - 1) /\ loc[m].stack \in StackType
          /\ pool.entries \in [0..(FREE_LIST_CAP - 1) -> StackType]
      BY <1>loc, <2>5 DEF PoolType, LocType
    <3>. DEFINE e2 == [pool.entries EXCEPT ![pool.count] = loc[m].stack]
    <3>3. e2 \in [0..(FREE_LIST_CAP - 1) -> StackType]
      BY <3>2
    <3>4. /\ pool'.next = pool.next /\ pool'.entries = e2 /\ pool'.count = pool.count + 1
          /\ pool' = [next |-> pool.next, count |-> pool.count + 1, entries |-> e2]
      BY <3>1 DEF PoolType
    <3>. HIDE DEF e2
    <3>5. pool' \in PoolType
      BY <3>2, <3>3, <3>4 DEF PoolType
    <3>6. Laid(pool.next, tcb.stack, Owners(m), e2, pool.count + 1, {})
      <4>1. Laid(pool.next, tcb.stack, Owners(m), pool.entries, pool.count, {loc[m].stack})
        BY <1>laid, <2>2
      <4>. QED
        BY <3>2, <4>1, LaidPush DEF e2
    <3>7. Laid(pool'.next, tcb.stack, OwnersAt(tcb.stack, k.used, pc'[m], loc[m].h.id),
               pool'.entries, pool'.count, HandAt(pc'[m], loc[m].stack))
      BY <2>4, <3>4, <3>6
    <3>8. /\ Registers(k', k.used) /\ Names(tcb', tcb.stack) /\ pool'.next <= POOL_LEN
          /\ loc' = [loc EXCEPT ![m] = loc[m]]
      BY <2>1, <3>4
    <3>. QED
      BY <1>loc, <2>3, <3>5, <3>7, <3>8, LifeStep
  <2>6. CASE ~(pool.count < FREE_LIST_CAP)
    <3>1. pool' = pool
      BY <1>store, <2>2, <2>6 DEF PushStore
    <3>2. Goto(m, to) /\ Quiet /\ UNCHANGED <<tcb, pool>> /\ loc' = [loc EXCEPT ![m] = loc[m]]
      BY <1>store, <2>1, <3>1 DEF PushStore
    <3>3. to \in PcLabels \cup LifeLabels /\ to \notin CountLabels \cup VictimLabels \cup HandLabels
      BY DEF LifeLabels, CountLabels, VictimLabels, HandLabels
    <3>4. pc[m] # "release" /\ to # "release"
      BY <2>1
    <3>. QED
      BY <1>loc, <3>2, <3>3, <3>4, LoadStep
  <2>. QED
    BY <2>5, <2>6
<1>. QED
  BY <1>load, <1>store DEF PushStep

\* spawn: the stack in hand goes to the slot that is taken, or is lost.
LEMMA RegisterLife ==
  ASSUME NEW m, Spawners = {m}, LifeInv(m), NEW h \in Harts, NEW p, Register(h, m, p)
  PROVE  LifeInv(m)'
<1>. m \in Managers /\ m \in Tasks /\ GUARD \in Nat \ {0}
  BY LifecycleAssumption
<1>. /\ pc \in [Tasks -> PcLabels \cup LifeLabels] /\ loc \in [Managers -> LocType]
     /\ Registers(k, k.used) /\ Names(tcb, tcb.stack) /\ k.used \in SUBSET Tasks
     /\ tcb.stack \in [Tasks -> StackType] /\ pool \in PoolType /\ pool.next <= POOL_LEN
  BY DEF LifeInv, Types
<1>loc. NoLocals \in LocType /\ loc[m] \in LocType /\ loc[m].stack \in StackType
  BY LifecycleAssumption DEF NoLocals, NoStack, LocType, StackType, IDLE, Tasks
<1>1. /\ pc[m] = "spawn" /\ pool' = pool /\ Hand(m) = {loc[m].stack}
  BY DEF Register, At, Hand, HandAt, HandLabels
<1>run. /\ "run" \in PcLabels \cup LifeLabels
        /\ "run" \notin CountLabels \cup VictimLabels \cup HandLabels \cup {"release"}
  BY DEF PcLabels, CountLabels, VictimLabels, HandLabels
<1>2. Laid(pool.next, tcb.stack, Owners(m), pool.entries, pool.count, {loc[m].stack})
  BY <1>1 DEF LifeInv, PoolLaid
<1>3. CASE FreeSlots(k) = {}
  <2>1. /\ Goto(m, "run") /\ Quiet /\ UNCHANGED <<tcb, pool>>
        /\ loc' = [loc EXCEPT ![m] = NoLocals]
    BY <1>3 DEF Register, Return, Quiet
  <2>. QED
    BY <1>loc, <1>1, <1>run, <2>1, LoadStep
<1>4. CASE FreeSlots(k) # {}
  <2>. DEFINE id == FirstFree(k)
              S  == [tcb.stack EXCEPT ![id] = loc[m].stack]
  <2>1. /\ k' = register_full(k, h, p)
        /\ tcb' = [Recycled(id) EXCEPT !.stack[id] = loc[m].stack]
        /\ pc' = [pc EXCEPT ![m] = "run", ![id] = "run"]
        /\ loc' = [loc EXCEPT ![m] = NoLocals]
    BY <1>4 DEF Register
  <2>2. k.used # Tasks
    BY <1>4 DEF FreeSlots
  <2>3. id \in Tasks \ k.used /\ Registers(k', k.used \cup {id})
    BY <2>1, <2>2, RegisterAdds
  <2>4. Names(tcb', S)
    BY <2>1 DEF Names, Recycled
  <2>. HIDE DEF id
  <2>5. S \in [Tasks -> StackType] /\ S[id] = loc[m].stack
    BY <1>loc, <2>3
  <2>6. /\ pc' \in [Tasks -> PcLabels \cup LifeLabels] /\ pc'[m] = "run"
    BY <1>run, <2>1
  <2>7. Owners(m) \in SUBSET Tasks /\ id \in Tasks \ Owners(m)
    BY <1>1, <2>3 DEF Owners, OwnersAt
  <2>8. Laid(pool.next, S, Owners(m) \cup {id}, pool.entries, pool.count, {})
    BY <1>loc, <1>2, <2>7, LaidGive
  <2>9. OwnersAt(S, k.used \cup {id}, "run", NoLocals.h.id) \subseteq Owners(m) \cup {id}
    BY <2>3 DEF Owners, OwnersAt
  <2>10. HandAt("run", NoLocals.stack) = {}
    BY <1>run DEF HandAt
  <2>. HIDE DEF S
  <2>11. Laid(pool.next, S, OwnersAt(S, k.used \cup {id}, "run", NoLocals.h.id),
              pool.entries, pool.count, {})
    <3>1. ASSUME NEW O \in SUBSET (Owners(m) \cup {id})
          PROVE  Laid(pool.next, S, O, pool.entries, pool.count, {})
      BY <2>8, LaidLess
    <3>. QED
      BY <2>9, <3>1
  <2>12. Laid(pool'.next, S, OwnersAt(S, k.used \cup {id}, pc'[m], NoLocals.h.id),
              pool'.entries, pool'.count, HandAt(pc'[m], NoLocals.stack))
    BY <1>1, <2>6, <2>10, <2>11
  <2>13. k.used \cup {id} \in SUBSET Tasks /\ pool' \in PoolType /\ pool'.next <= POOL_LEN
    BY <1>1, <2>3
  <2>14. pc'[m] \notin CountLabels \cup VictimLabels \cup {"release"}
    BY <1>run, <2>6
  <2>. QED
    BY <1>loc, <2>1, <2>3, <2>4, <2>5, <2>6, <2>12, <2>13, <2>14, LifeStep
<1>. QED
  BY <1>3, <1>4

\* despawn up to its first critical section: it goes on only for a task that is
\* registered.
LEMMA DespawnLife ==
  ASSUME NEW m, Spawners = {m}, LifeInv(m), NEW h \in Harts, NEW hd \in Handles,
         Despawn(h, m, hd)
  PROVE  LifeInv(m)'
<1>. m \in Managers /\ m \in Tasks
  BY LifecycleAssumption
<1>. loc \in [Managers -> LocType]
  BY DEF LifeInv, Types
<1>. DEFINE x == [loc[m] EXCEPT !.h = hd]
<1>1. x \in LocType /\ x.h = hd
  <2>1. hd \in [id : Tasks, gen : Nat]
    BY LifecycleAssumption DEF Handles
  <2>2. loc[m] \in LocType
    OBVIOUS
  <2>. QED
    BY <2>1, <2>2 DEF LocType
<1>2. /\ loc' = [loc EXCEPT ![m] = x] /\ pc[m] = "run" /\ hd.id \in k.used
      /\ Goto(m, "despawn") /\ Quiet /\ UNCHANGED <<tcb, pool>>
  BY DEF Despawn, Call, At
<1>3. /\ "despawn" \in PcLabels \cup LifeLabels
      /\ "despawn" \notin CountLabels \cup HandLabels \cup {"release"}
  BY DEF LifeLabels, CountLabels, HandLabels
<1>. HIDE DEF x
<1>. QED
  BY <1>1, <1>2, <1>3, LoadStep

\* Where a manager is that only joins and stops others.
AskLabels == PcLabels \cup {"stop", "join", "join_wait", "join_resched", "join_release",
                            "join_read"}

AskStep(h, u) ==
  \/ SetStop(h, u) \/ JoinStep(h, u)
  \/ \E hd \in Handles : RequestStop(h, u, hd) \/ Join(h, u, hd)

\* request_stop and join, by any manager, register and unregister nobody, and
\* move no stack.
LEMMA AskKeeps ==
  ASSUME NEW h, NEW u, AskStep(h, u), NEW U, Registers(k, U), "stack" \in DOMAIN tcb
  PROVE  /\ \E l \in AskLabels : pc' = [pc EXCEPT ![u] = l] /\ pc[u] \in AskLabels
         /\ pool' = pool /\ Names(tcb', tcb.stack) /\ Registers(k', U)
         /\ \/ loc' = loc \/ loc' = [loc EXCEPT ![u] = NoLocals]
            \/ \E hd \in Handles : loc' = [loc EXCEPT ![u].h = hd]
<1>1. ASSUME NEW hd \in Handles, RequestStop(h, u, hd) \/ Join(h, u, hd)
      PROVE  /\ \E l \in AskLabels : pc' = [pc EXCEPT ![u] = l] /\ pc[u] \in AskLabels
             /\ k' = k /\ pool' = pool /\ tcb' = tcb /\ loc' = [loc EXCEPT ![u].h = hd]
  BY <1>1 DEF RequestStop, Join, Call, Goto, At, Quiet, AskLabels, PcLabels
<1>2. CASE SetStop(h, u) \/ JoinStep(h, u)
  <2>1. \E l \in AskLabels : pc' = [pc EXCEPT ![u] = l] /\ pc[u] \in AskLabels
    BY <1>2 DEF SetStop, JoinStep, JoinRegister, JoinWait, JoinResched, JoinRelease, JoinRead,
                Return, Goto, At, AskLabels, PcLabels
  <2>2. pool' = pool /\ Names(tcb', tcb.stack)
    BY <1>2 DEF SetStop, JoinStep, JoinRegister, JoinWait, JoinResched, JoinRelease, JoinRead,
                lvars, Names
  <2>3. loc' = loc \/ loc' = [loc EXCEPT ![u] = NoLocals]
    BY <1>2 DEF SetStop, JoinStep, JoinRegister, JoinWait, JoinResched, JoinRelease, JoinRead,
                lvars, Return
  <2>4. Registers(k', U)
    <3>1. CASE SetStop(h, u) \/ JoinRegister(h, u) \/ JoinRelease(h, u) \/ JoinRead(h, u)
      BY <3>1 DEF SetStop, JoinRegister, JoinRelease, JoinRead, Quiet
    <3>2. CASE JoinWait(h, u)
      <4>1. Registers(block_current(k, h), U)
        BY StateKeeps DEF block_current
      <4>. QED
        BY <3>2, <4>1 DEF JoinWait
    <3>3. CASE JoinResched(h, u)
      BY <3>3 DEF JoinResched, RequestReschedule, Registers
    <3>. QED
      BY <1>2, <3>1, <3>2, <3>3 DEF JoinStep
  <2>. QED
    BY <2>1, <2>2, <2>3, <2>4
<1>. QED
  BY <1>1, <1>2 DEF AskStep, Names

LEMMA AskLife ==
  ASSUME NEW m, Spawners = {m}, LifeInv(m), NEW h \in Harts, NEW u \in Managers, AskStep(h, u)
  PROVE  LifeInv(m)'
<1>. m \in Managers /\ m \in Tasks /\ u \in Tasks
  BY LifecycleAssumption
<1>. /\ pc \in [Tasks -> PcLabels \cup LifeLabels] /\ loc \in [Managers -> LocType]
     /\ Registers(k, k.used) /\ Names(tcb, tcb.stack)
  BY DEF LifeInv, Types
<1>1. /\ \E l \in AskLabels : pc' = [pc EXCEPT ![u] = l] /\ pc[u] \in AskLabels
      /\ pool' = pool /\ Names(tcb', tcb.stack) /\ Registers(k', k.used)
      /\ \/ loc' = loc \/ loc' = [loc EXCEPT ![u] = NoLocals]
         \/ \E hd \in Handles : loc' = [loc EXCEPT ![u].h = hd]
  BY AskKeeps DEF Names
<1>2. loc' \in [Managers -> LocType] /\ (u # m => loc'[m] = loc[m])
  <2>1. CASE loc' = loc
    BY <2>1
  <2>2. CASE loc' = [loc EXCEPT ![u] = NoLocals]
    <3>1. NoLocals \in LocType
      BY LifecycleAssumption DEF NoLocals, NoStack, LocType, StackType, IDLE, Tasks
    <3>. QED
      BY <2>2, <3>1
  <2>3. ASSUME NEW hd \in Handles, loc' = [loc EXCEPT ![u].h = hd]
        PROVE  loc' \in [Managers -> LocType] /\ (u # m => loc'[m] = loc[m])
    <3>. DEFINE x == [loc[u] EXCEPT !.h = hd]
    <3>1. hd \in [id : Tasks, gen : Nat] /\ loc[u] \in LocType
      BY LifecycleAssumption DEF Handles
    <3>2. x \in LocType /\ loc' = [loc EXCEPT ![u] = x]
      BY <2>3, <3>1 DEF LocType
    <3>. HIDE DEF x
    <3>. QED
      BY <3>2
  <2>. QED
    BY <1>1, <2>1, <2>2, <2>3
<1>3. AskLabels \subseteq PlainLabels /\ AskLabels \subseteq PcLabels \cup LifeLabels
  BY DEF AskLabels, PlainLabels, PcLabels, LifeLabels, HandLabels, CountLabels, VictimLabels
<1>4. pc' \in [Tasks -> PcLabels \cup LifeLabels]
  BY <1>1, <1>3
<1>5. \/ u # m /\ pc'[m] = pc[m] /\ loc'[m] = loc[m]
      \/ pc[m] \in PlainLabels /\ pc'[m] \in PlainLabels
  BY <1>1, <1>2, <1>3
<1>. QED
  BY <1>1, <1>2, <1>4, <1>5, PlainStep

\* despawn, from the ready queues to used: the stack is the freed slot's until
\* DespawnRelease reads it there.
LEMMA FreeLife ==
  ASSUME NEW m, Spawners = {m}, LifeInv(m), NEW h \in Harts,
         DespawnRemove(h, m) \/ DespawnReset(h, m) \/ DespawnFree(h, m)
  PROVE  LifeInv(m)'
<1>. m \in Managers /\ m \in Tasks
  BY LifecycleAssumption
<1>. /\ pc \in [Tasks -> PcLabels \cup LifeLabels] /\ loc \in [Managers -> LocType]
     /\ Registers(k, k.used) /\ Names(tcb, tcb.stack) /\ k.used \in SUBSET Tasks
     /\ tcb.stack \in [Tasks -> StackType] /\ pool \in PoolType /\ pool.next <= POOL_LEN
  BY DEF LifeInv, Types
<1>. DEFINE id == loc[m].h.id
<1>1. PICK l \in {"reset", "free", "release"} :
        /\ pc' = [pc EXCEPT ![m] = l] /\ pool' = pool /\ loc' = [loc EXCEPT ![m] = loc[m]]
        /\ pc[m] \in VictimLabels
        /\ l = "release" <=> pc[m] = "free"
  BY DEF DespawnRemove, DespawnReset, DespawnFree, Goto, At, VictimLabels, lvars
<1>2. Names(tcb', tcb.stack)
  BY DEF DespawnRemove, DespawnReset, DespawnFree, lvars, Names
<1>. DEFINE U == IF l = "release" THEN k.used \ {id} ELSE k.used
<1>3. Registers(k', U)
  <2>1. CASE DespawnRemove(h, m)
    <3>1. l # "release"
      BY <1>1, <2>1 DEF DespawnRemove, At
    <3>. QED
      BY <2>1, <3>1, ReadyKeeps DEF DespawnRemove
  <2>2. CASE DespawnReset(h, m)
    <3>1. l # "release"
      BY <1>1, <2>2 DEF DespawnReset, At
    <3>. QED
      BY <2>2, <3>1 DEF DespawnReset, Registers
  <2>3. CASE DespawnFree(h, m)
    BY <1>1, <2>3 DEF DespawnFree, At, Registers
  <2>. QED
    BY <2>1, <2>2, <2>3
<1>4. id \in k.used /\ Hand(m) = {} /\ pc[m] # "release"
  BY <1>1 DEF LifeInv, VictimKnown, VictimLabels, Hand, HandAt, HandLabels
<1>5. /\ pc' \in [Tasks -> PcLabels \cup LifeLabels] /\ pc'[m] = l
      /\ l \notin CountLabels \cup HandLabels
  BY <1>1 DEF LifeLabels, CountLabels, HandLabels
<1>6. OwnersAt(tcb.stack, U, l, id) = Owners(m) /\ HandAt(l, loc[m].stack) = {}
  BY <1>4, <1>5 DEF Owners, OwnersAt, HandAt
<1>7. Laid(pool.next, tcb.stack, Owners(m), pool.entries, pool.count, {})
  BY <1>4 DEF LifeInv, PoolLaid
<1>8. U \in SUBSET Tasks /\ (l # "release" => id \in U) /\ (l = "release" => id \notin U)
  BY <1>4
<1>9. l \in VictimLabels => l # "release"
  BY DEF VictimLabels
<1>. HIDE DEF U
<1>10. Laid(pool'.next, tcb.stack, OwnersAt(tcb.stack, U, pc'[m], loc[m].h.id),
            pool'.entries, pool'.count, HandAt(pc'[m], loc[m].stack))
  BY <1>1, <1>5, <1>6, <1>7
<1>11. pool' \in PoolType /\ pool'.next <= POOL_LEN /\ loc[m] \in LocType
  BY <1>1
<1>. QED
  BY <1>1, <1>2, <1>3, <1>5, <1>8, <1>9, <1>10, <1>11, LifeStep

\* despawn, the stack: from the freed slot into the manager's hand, and once it
\* is on the free list the slot forgets it.
LEMMA ReleaseLife ==
  ASSUME NEW m, Spawners = {m}, LifeInv(m), NEW h \in Harts,
         DespawnRelease(h, m) \/ DespawnForget(h, m)
  PROVE  LifeInv(m)'
<1>. m \in Managers /\ m \in Tasks
  BY LifecycleAssumption
<1>. /\ pc \in [Tasks -> PcLabels \cup LifeLabels] /\ loc \in [Managers -> LocType]
     /\ Registers(k, k.used) /\ Names(tcb, tcb.stack) /\ k.used \in SUBSET Tasks
     /\ tcb.stack \in [Tasks -> StackType] /\ pool \in PoolType /\ pool.next <= POOL_LEN
  BY DEF LifeInv, Types
<1>. DEFINE id == loc[m].h.id
<1>loc. loc[m] \in LocType /\ id \in Tasks
  BY DEF LocType
<1>release. CASE DespawnRelease(h, m)
  <2>. DEFINE s == tcb.stack[id]
              x == [loc[m] EXCEPT !.stack = s]
              l == IF s = NoStack THEN "forget" ELSE "push"
  <2>1. /\ pc[m] = "release" /\ pc' = [pc EXCEPT ![m] = l] /\ loc' = [loc EXCEPT ![m] = x]
        /\ k' = k /\ tcb' = tcb /\ pool' = pool
    BY <1>release DEF DespawnRelease, At, Goto, Quiet
  <2>2. x \in LocType /\ x.stack = s /\ x.h.id = id
    BY <1>loc DEF LocType
  <2>. HIDE DEF x
  <2>3. id \notin k.used /\ Hand(m) = {}
    BY <2>1 DEF LifeInv, VictimKnown, Hand, HandAt, HandLabels
  <2>4. /\ pc' \in [Tasks -> PcLabels \cup LifeLabels] /\ pc'[m] = l
        /\ l \notin CountLabels \cup VictimLabels \cup {"release"}
    BY <2>1 DEF LifeLabels, CountLabels, VictimLabels
  <2>5. Laid(pool.next, tcb.stack, Owners(m), pool.entries, pool.count, {})
    BY <2>3 DEF LifeInv, PoolLaid
  <2>6. Laid(pool.next, tcb.stack, OwnersAt(tcb.stack, k.used, l, id),
             pool.entries, pool.count, HandAt(l, s))
    <3>1. CASE s = NoStack
      <4>1. HandAt(l, s) = {}
        BY <3>1 DEF HandAt, HandLabels
      <4>2. OwnersAt(tcb.stack, k.used, l, id) \subseteq Owners(m)
        BY <2>4 DEF Owners, OwnersAt
      <4>3. Laid(pool.next, tcb.stack, OwnersAt(tcb.stack, k.used, l, id),
                 pool.entries, pool.count, {})
        BY <2>5, <4>2, LaidLess
      <4>. QED
        BY <4>1, <4>3
    <3>2. CASE s # NoStack
      <4>1. HandAt(l, s) = {s}
        BY <3>2 DEF HandAt, HandLabels
      <4>2. OwnersAt(tcb.stack, k.used, l, id) = Owners(m) \ {id}
        BY <2>1, <2>3, <2>4 DEF Owners, OwnersAt
      <4>3. id \in Owners(m) /\ Owners(m) \in SUBSET Tasks
        BY <1>loc, <2>1, <3>2 DEF Owners, OwnersAt
      <4>4. Laid(pool.next, tcb.stack, Owners(m) \ {id}, pool.entries, pool.count, {s})
        BY <2>5, <4>3, LaidTake
      <4>. QED
        BY <4>1, <4>2, <4>4
    <3>. QED
      BY <3>1, <3>2
  <2>. HIDE DEF l, s
  <2>7. Laid(pool'.next, tcb.stack, OwnersAt(tcb.stack, k.used, pc'[m], x.h.id),
             pool'.entries, pool'.count, HandAt(pc'[m], x.stack))
    BY <2>1, <2>2, <2>4, <2>6
  <2>8. /\ Registers(k', k.used) /\ Names(tcb', tcb.stack) /\ pool' \in PoolType
        /\ pool'.next <= POOL_LEN
    BY <2>1
  <2>9. pc'[m] \notin CountLabels \cup VictimLabels \cup {"release"}
    BY <2>4
  <2>. QED
    BY <2>1, <2>2, <2>4, <2>7, <2>8, <2>9, LifeStep
<1>forget. CASE DespawnForget(h, m)
  <2>. DEFINE S == [tcb.stack EXCEPT ![id] = NoStack]
  <2>1. /\ pc[m] = "forget" /\ pc' = [pc EXCEPT ![m] = "run"]
        /\ loc' = [loc EXCEPT ![m] = NoLocals]
        /\ k' = k /\ tcb' = [tcb EXCEPT !.stack[id] = NoStack] /\ pool' = pool
    BY <1>forget DEF DespawnForget, At, Goto, Quiet, Return
  <2>2. NoLocals \in LocType /\ NoStack \in StackType
    BY LifecycleAssumption DEF NoLocals, NoStack, LocType, StackType, IDLE, Tasks
  <2>3. S \in [Tasks -> StackType] /\ Names(tcb', S)
    BY <2>1, <2>2 DEF Names
  <2>4. /\ pc' \in [Tasks -> PcLabels \cup LifeLabels] /\ pc'[m] = "run"
        /\ "run" \notin CountLabels \cup VictimLabels \cup HandLabels \cup {"release"}
    BY <2>1 DEF PcLabels, LifeLabels, CountLabels, VictimLabels, HandLabels
  <2>5. Hand(m) = {} /\ HandAt("run", NoLocals.stack) = {}
    BY <2>1, <2>4 DEF Hand, HandAt, HandLabels
  <2>6. Laid(pool.next, tcb.stack, Owners(m), pool.entries, pool.count, {})
    BY <2>5 DEF LifeInv, PoolLaid
  <2>7. /\ OwnersAt(S, k.used, "run", NoLocals.h.id) \subseteq Owners(m)
        /\ \A t \in OwnersAt(S, k.used, "run", NoLocals.h.id) : S[t] = tcb.stack[t]
    BY <1>loc DEF Owners, OwnersAt
  <2>. HIDE DEF S
  <2>8. Laid(pool.next, S, OwnersAt(S, k.used, "run", NoLocals.h.id),
             pool.entries, pool.count, {})
    BY <2>6, <2>7, LaidLess
  <2>9. Laid(pool'.next, S, OwnersAt(S, k.used, pc'[m], NoLocals.h.id),
             pool'.entries, pool'.count, HandAt(pc'[m], NoLocals.stack))
    BY <2>1, <2>4, <2>5, <2>8
  <2>10. Registers(k', k.used) /\ pool' \in PoolType /\ pool'.next <= POOL_LEN
    BY <2>1
  <2>11. pc'[m] \notin CountLabels \cup VictimLabels \cup {"release"}
    BY <2>4
  <2>. QED
    BY <2>1, <2>2, <2>3, <2>4, <2>9, <2>10, <2>11, LifeStep
<1>. QED
  BY <1>release, <1>forget

-----------------------------------------------------------------------------
\* The managers that spawn nobody only ask.
Asking(m) == \A u \in Managers \ {m} : pc[u] \in AskLabels

\* What a manager does that spawns and despawns.
LEMMA SpawnSteps ==
  ASSUME NEW m, Spawners = {m}, NEW h \in Harts, NEW u \in Managers, ManagerStep(h, u)
  PROVE  \/ AskStep(h, u)
         \/ u = m
         \/ pc[u] \notin AskLabels
BY DEF ManagerStep, AskStep, AllocStack, Pop, PushStep, PushLoad, PushStore, Carve, Register,
       Despawn, DespawnRemove, DespawnReset, DespawnFree, DespawnRelease, DespawnForget, At,
       AskLabels, PcLabels

LEMMA NextAsking ==
  ASSUME NEW m, Spawners = {m}, SpawnPrios = {}, LifeInv(m), Asking(m),
         [LifeNext]_<<vars, lvars>>
  PROVE  Asking(m)'
<1>. Managers \subseteq Tasks
  BY LifecycleAssumption
<1>. pc \in [Tasks -> PcLabels \cup LifeLabels] /\ Registers(k, k.used) /\ "stack" \in DOMAIN tcb
  BY DEF LifeInv, Types, Names
<1>1. CASE UNCHANGED <<vars, lvars>>
  BY <1>1 DEF vars, Asking
<1>2. CASE Next /\ UNCHANGED lvars
  <2>1. \/ pc' = pc
        \/ \E t \in Tasks, l \in PcLabels : pc[t] \in PcLabels /\ pc' = [pc EXCEPT ![t] = l]
    BY <1>2, TierKeeps
  <2>. QED
    BY <2>1 DEF Asking, AskLabels
<1>3. ASSUME NEW h \in Harts, NEW u \in Managers, ManagerStep(h, u) PROVE Asking(m)'
  <2>1. CASE AskStep(h, u)
    <3>1. PICK l \in AskLabels : pc' = [pc EXCEPT ![u] = l]
      BY <2>1, AskKeeps
    <3>. QED
      BY <3>1 DEF Asking
  <2>2. CASE u = m /\ ~AskStep(h, u)
    <3>1. \/ \E l : pc' = [pc EXCEPT ![m] = l]
          \/ \E id : pc' = [pc EXCEPT ![m] = "run", ![id] = "run"]
      BY <1>3, <2>2 DEF ManagerStep, AskStep, AllocStack, Pop, PushStep, PushLoad, PushStore,
           Carve, Register, Despawn, Call, DespawnRemove, DespawnReset, DespawnFree,
           DespawnRelease, DespawnForget, Goto, Return
    <3>2. "run" \in AskLabels
      BY DEF AskLabels, PcLabels
    <3>. QED
      BY <3>1, <3>2 DEF Asking
  <2>. QED
    BY <1>3, <2>1, <2>2, SpawnSteps DEF Asking
<1>4. ASSUME NEW h \in Harts, NEW t \in Tasks, ExitStep(h, t) PROVE Asking(m)'
  <2>1. \E l : pc' = [pc EXCEPT ![t] = l]
    BY <1>4 DEF ExitStep, Exit, ExitPublish, ExitState, ExitQueue, ExitResched, Goto
  <2>2. t \notin Managers \/ pc[t] \notin AskLabels
    BY <1>4 DEF ExitStep, Exit, ExitPublish, ExitState, ExitQueue, ExitResched, At,
                AskLabels, PcLabels
  <2>3. t \notin Managers \ {m}
    BY <2>2 DEF Asking
  <2>. QED
    BY <2>1, <2>3 DEF Asking
<1>. QED
  BY <1>1, <1>2, <1>3, <1>4 DEF LifeNext

\* Every step keeps the invariant.
LEMMA NextLife ==
  ASSUME NEW m, Spawners = {m}, SpawnPrios = {}, LifeInv(m), Asking(m),
         [LifeNext]_<<vars, lvars>>
  PROVE  LifeInv(m)'
<1>1. CASE UNCHANGED <<vars, lvars>>
  BY <1>1 DEF vars, lvars, LifeInv, Types, Counted, VictimKnown, PoolLaid, Owners, Hand
<1>2. CASE Next /\ UNCHANGED lvars
  BY <1>2, TierLife
<1>3. ASSUME NEW h \in Harts, NEW u \in Managers, ManagerStep(h, u) PROVE LifeInv(m)'
  <2>1. CASE AskStep(h, u)
    BY <2>1, AskLife
  <2>2. CASE u = m
    BY <1>3, <2>1, <2>2, AllocLife, PushLife, RegisterLife, DespawnLife, FreeLife, ReleaseLife
       DEF ManagerStep, AskStep
  <2>. QED
    BY <1>3, <2>1, <2>2, SpawnSteps DEF Asking
<1>4. ASSUME NEW h \in Harts, NEW t \in Tasks, ExitStep(h, t) PROVE LifeInv(m)'
  BY <1>4, ExitLife
<1>. QED
  BY <1>1, <1>2, <1>3, <1>4 DEF LifeNext

\* The invariant holds in every state, as long as one task spawns and despawns
\* the others, whoever joins and stops them.
THEOREM LifeInvariance ==
  ASSUME NEW m, Spawners = {m}, SpawnPrios = {}
  PROVE  LifeSpec => [](LifeInv(m) /\ Asking(m))
<1>1. LifeInit => LifeInv(m) /\ Asking(m)
  <2>1. LifeInit => Asking(m)
    BY LifecycleAssumption DEF LifeInit, Init, Asking, AskLabels, PcLabels
  <2>. QED
    BY <2>1, InitLife
<1>2. LifeInv(m) /\ Asking(m) /\ [LifeNext]_<<vars, lvars>> => LifeInv(m)' /\ Asking(m)'
  BY NextLife, NextAsking
<1>. QED
  BY <1>1, <1>2, PTL DEF LifeSpec

\* In a laid-out pool no two holders' stacks share a byte.
LEMMA LaidDisjoint ==
  ASSUME NEW m, Spawners = {m}, LifeInv(m), Asking(m)
  PROVE  StacksDisjoint
<1>. m \in Managers /\ m \in Tasks /\ GUARD \in Nat /\ POOL_LEN \in Nat
  BY LifecycleAssumption
<1>. /\ loc \in [Managers -> LocType] /\ k.used \in SUBSET Tasks
     /\ tcb.stack \in [Tasks -> StackType] /\ pool \in PoolType /\ pool.next <= POOL_LEN
  BY DEF LifeInv, Types
<1>1. Laid(pool.next, tcb.stack, Owners(m), pool.entries, pool.count, Hand(m))
  BY DEF LifeInv, PoolLaid
<1>2. ASSUME NEW a \in Holders
      PROVE  \/ \E t \in Owners(m) : a = <<"task", t, tcb.stack[t]>>
             \/ \E i \in 0..(pool.count - 1) : a = <<"free", i, pool.entries[i]>>
             \/ a = <<"hand", m, loc[m].stack>> /\ Hand(m) = {loc[m].stack}
  <2>1. \A u \in Managers : pc[u] \in HandLabels => u = m
    BY DEF Asking, AskLabels, PcLabels, HandLabels
  <2>. QED
    BY <1>2, <2>1 DEF Holders, Owners, OwnersAt, Hand, HandAt, HandLabels
<1>3. /\ \A t \in Owners(m) : tcb.stack[t] \in StackType
      /\ \A i \in 0..(pool.count - 1) : pool.entries[i] \in StackType
      /\ loc[m].stack \in StackType
  <2>1. \A i \in 0..(pool.count - 1) : i \in 0..(FREE_LIST_CAP - 1)
    BY LifecycleAssumption DEF PoolType
  <2>. QED
    BY <2>1 DEF Owners, OwnersAt, PoolType, LocType
<1>4. ASSUME NEW a \in Holders
      PROVE  a[3] \in StackType /\ Below(a[3], pool.next)
  <2>1. ASSUME NEW t \in Owners(m), a = <<"task", t, tcb.stack[t]>>
        PROVE  a[3] \in StackType /\ Below(a[3], pool.next)
    BY <1>1, <1>3, <2>1 DEF Laid
  <2>2. ASSUME NEW i \in 0..(pool.count - 1), a = <<"free", i, pool.entries[i]>>
        PROVE  a[3] \in StackType /\ Below(a[3], pool.next)
    BY <1>1, <1>3, <2>2 DEF Laid
  <2>3. ASSUME a = <<"hand", m, loc[m].stack>>, Hand(m) = {loc[m].stack}
        PROVE  a[3] \in StackType /\ Below(a[3], pool.next)
    BY <1>1, <1>3, <2>3 DEF Laid
  <2>. QED
    BY <1>2, <2>1, <2>2, <2>3
<1>5. ASSUME NEW a \in Holders, NEW b \in Holders, a # b
      PROVE  Apart(a[3], b[3]) \/ Apart(b[3], a[3])
  <2>1. ASSUME NEW t \in Owners(m), a = <<"task", t, tcb.stack[t]>>
        PROVE  Apart(a[3], b[3]) \/ Apart(b[3], a[3])
    BY <1>1, <1>2, <1>5, <2>1 DEF Laid
  <2>2. ASSUME NEW i \in 0..(pool.count - 1), a = <<"free", i, pool.entries[i]>>
        PROVE  Apart(a[3], b[3]) \/ Apart(b[3], a[3])
    BY <1>1, <1>2, <1>5, <2>2 DEF Laid
  <2>3. ASSUME a = <<"hand", m, loc[m].stack>>, Hand(m) = {loc[m].stack}
        PROVE  Apart(a[3], b[3]) \/ Apart(b[3], a[3])
    BY <1>1, <1>2, <1>5, <2>3 DEF Laid
  <2>. QED
    BY <1>2, <2>1, <2>2, <2>3
<1>6. ASSUME NEW a \in Holders, NEW b \in Holders, a # b
      PROVE  ~Overlap(a[3], b[3])
  <2>1. \A s, u \in StackType : Apart(s, u) \/ Apart(u, s) => ~Overlap(s, u)
    BY DEF Apart, Overlap, StackType
  <2>. QED
    BY <1>4, <1>5, <1>6, <2>1
<1>7. ASSUME NEW a \in Holders
      PROVE  a[3].off - GUARD >= 0 /\ a[3].off + a[3].size <= POOL_LEN
  <2>1. \A s \in StackType, n \in Nat :
          Below(s, n) /\ n <= POOL_LEN => s.off - GUARD >= 0 /\ s.off + s.size <= POOL_LEN
    BY DEF Below, StackType
  <2>2. pool.next \in Nat
    BY DEF PoolType
  <2>. QED
    BY <1>4, <2>1, <2>2
<1>. QED
  BY <1>6, <1>7 DEF StacksDisjoint

\* alloc_stack's SAFETY claim for its two slices: however tasks are spawned,
\* despawned, exit and are joined, no stack or guard band of a task shares a
\* byte with another's or with one that is free or on its way, and all lie in
\* the pool.  One task spawns and despawns, because the free list is not atomic;
\* any number of them join and stop.
THEOREM StacksStayDisjoint ==
  ASSUME NEW m, Spawners = {m}, SpawnPrios = {}
  PROVE  LifeSpec => []StacksDisjoint
<1>1. LifeSpec => [](LifeInv(m) /\ Asking(m))
  BY LifeInvariance
<1>2. LifeInv(m) /\ Asking(m) => StacksDisjoint
  BY LaidDisjoint
<1>. QED
  BY <1>1, <1>2, PTL

-----------------------------------------------------------------------------
(* Dispatch.  OnlyTasksDispatch is not inductive.  The invariant,          *)
(* DispatchInv, adds                                                       *)
(*   - that a queued task is in the queue of its effective priority, so    *)
(*     that ready_remove takes it out of every queue, and that a task      *)
(*     between ready_remove and the end of its despawn is back in none and *)
(*     on no hart (Placed, Removed);                                       *)
(*   - that whoever can still be woken, by a deadline or as a joiner, is   *)
(*     registered (ManagersStay).                                          *)
(* One hart only: on two, a task may be despawned while the other runs it. *)

\* Everybody queued or current is registered, queued at the effective priority,
\* and not among the tasks V.
Placed(s, U, V) ==
  /\ s \in KType /\ s.used = U
  /\ \A p \in Prios : \A t \in s.queues[p] : t \in U \ V /\ s.eff[t] = p
  /\ \A h \in Harts : s.current[h] \in (U \ V) \cup {NO_TASK}

\* Out of its ready queue, and not yet free.
Removed(m) == IF pc[m] \in {"reset", "free"} THEN {loc[m].h.id} ELSE {}

Joiners(r, M) == "joiner" \in DOMAIN r /\ r.joiner \in [Tasks -> M \cup {NO_TASK}]

ManagersStay(m) ==
  /\ Managers \subseteq k.used /\ armed \subseteq Managers
  /\ pc[m] \in VictimLabels => loc[m].h.id \notin Managers
  /\ Joiners(tcb, Managers)

DispatchInv(m) == Placed(k, k.used, Removed(m)) /\ ManagersStay(m)

-----------------------------------------------------------------------------
LEMMA PlacedReady ==
  ASSUME NEW s, NEW U, NEW V, Placed(s, U, V), NEW id \in U \ V, NEW r, MadeReady(s, id, r)
  PROVE  Placed(r, U, V)
<1>1. id \in Tasks /\ s.eff[id] \in Prios BY DEF Placed, KType
<1>2. /\ r \in KType /\ r.used = U /\ r.eff = s.eff /\ r.current = s.current
      /\ r.queues = [s.queues EXCEPT ![s.eff[id]] = @ \cup {id}]
  BY DEF MadeReady, SameElsewhere, Placed
<1>3. \A p \in Prios : \A t \in r.queues[p] : t \in U \ V /\ r.eff[t] = p
  BY <1>1, <1>2 DEF Placed, KType
<1> QED BY <1>2, <1>3 DEF Placed

LEMMA PlacedNotReady ==
  ASSUME NEW s, NEW U, NEW V, Placed(s, U, V), NEW id \in Tasks, NEW v \in States, NEW r,
         MadeNotReady(s, id, v, r)
  PROVE  Placed(r, U, V)
<1>1. s.eff[id] \in Prios BY DEF Placed, KType
<1>2. /\ r \in KType /\ r.used = U /\ r.eff = s.eff /\ r.current = s.current
      /\ r.queues = [s.queues EXCEPT ![s.eff[id]] = @ \ {id}]
  BY DEF MadeNotReady, SameElsewhere, Placed
<1>3. \A p \in Prios : \A t \in r.queues[p] : t \in U \ V /\ r.eff[t] = p
  BY <1>1, <1>2 DEF Placed, KType
<1> QED BY <1>2, <1>3 DEF Placed

\* A record that differs where Placed does not look.
LEMMA PlacedSame ==
  ASSUME NEW s, NEW U, NEW V, Placed(s, U, V), NEW r \in KType,
         r.used = s.used, r.queues = s.queues, r.eff = s.eff, r.current = s.current
  PROVE  Placed(r, U, V)
BY DEF Placed

LEMMA PlacedSet ==
  ASSUME NEW s, NEW U, NEW V, Placed(s, U, V), NEW me \in Harts, NEW id \in Tasks,
         NEW v \in States, v = "READY" => id \in U \ V
  PROVE  Placed(set_state(s, me, id, v), U, V)
<1>1. s \in KType BY DEF Placed
<1>2. CASE v = "READY" BY <1>1, <1>2, SetReady, PlacedReady
<1>3. CASE v # "READY" BY <1>1, <1>3, SetNotReady, PlacedNotReady
<1> QED BY <1>2, <1>3

LEMMA PlacedHeal ==
  ASSUME NEW s, NEW U, NEW V, Placed(s, U, V)
  PROVE  Placed(heal(s), U, V)
<1>1. s \in KType BY DEF Placed
<1>2. /\ heal(s) \in KType
      /\ heal(s).used = s.used /\ heal(s).queues = s.queues /\ heal(s).eff = s.eff
      /\ heal(s).current = s.current
  BY <1>1 DEF heal, KType
<1> QED BY <1>2 DEF Placed

LEMMA PlacedWake ==
  ASSUME NEW s, NEW U, NEW V, Placed(s, U, V), NEW S \in SUBSET Harts
  PROVE  Placed([s EXCEPT !.msip = S], U, V)
<1> DEFINE r == [s EXCEPT !.msip = S]
<1>1. s \in KType BY DEF Placed
<1>2. /\ r \in KType /\ r.used = s.used /\ r.queues = s.queues /\ r.eff = s.eff
      /\ r.current = s.current
  BY <1>1 DEF KType
<1> HIDE DEF r
<1>3. Placed(r, U, V) BY <1>2, PlacedSame
<1> QED BY <1>3 DEF r

LEMMA PlacedBroadcast ==
  ASSUME NEW s, NEW U, NEW V, Placed(s, U, V), NEW me
  PROVE  Placed(wake_other_harts(s, me), U, V)
<1>1. s.msip \cup (Harts \ {me}) \in SUBSET Harts BY DEF Placed, KType
<1>2. Placed([s EXCEPT !.msip = s.msip \cup (Harts \ {me})], U, V) BY <1>1, PlacedWake
<1> QED BY <1>2 DEF wake_other_harts

LEMMA PlacedStamp ==
  ASSUME NEW s, NEW U, NEW V, Placed(s, U, V), NEW id \in Tasks
  PROVE  Placed(on_dispatch(s, id), U, V)
<1>1. s \in KType BY DEF Placed
<1>2. Stamped(s, id, on_dispatch(s, id)) BY <1>1, OnDispatch
<1> HIDE DEF on_dispatch
<1> QED BY <1>2, PlacedSame DEF Stamped

LEMMA PlacedCurrent ==
  ASSUME NEW s, NEW U, NEW V, Placed(s, U, V), NEW me \in Harts, NEW id \in U \ V
  PROVE  Placed([s EXCEPT !.current[me] = id], U, V)
<1> DEFINE r == [s EXCEPT !.current[me] = id]
<1>1. s \in KType /\ id \in Tasks BY DEF Placed, KType
<1>2. /\ r \in KType /\ r.used = s.used /\ r.queues = s.queues /\ r.eff = s.eff
      /\ r.current = [s.current EXCEPT ![me] = id]
  BY <1>1, StoreCurrent
<1> HIDE DEF r
<1>3. \A h \in Harts : r.current[h] \in (U \ V) \cup {NO_TASK}
  BY <1>1, <1>2 DEF Placed, KType
<1>4. Placed(r, U, V) BY <1>2, <1>3 DEF Placed
<1> QED BY <1>4 DEF r

\* Who is scheduled was queued.
LEMMA PlacedNext ==
  ASSUME NEW s, NEW U, NEW V, Placed(s, U, V), schedule(s) # NO_TASK
  PROVE  schedule(s) \in U \ V /\ schedule(s) \in Tasks
<1>1. s \in KType /\ LiveBits(s) # {} BY DEF Placed, schedule
<1>2. TopBit(s) \in Prios /\ schedule(s) \in s.queues[TopBit(s)] BY <1>1, ScheduleMember
<1> HIDE DEF schedule
<1> QED BY <1>1, <1>2 DEF Placed, KType

LEMMA PlacedFirst ==
  ASSUME NEW s, NEW U, NEW V, Placed(s, U, V), NEW me \in Harts, schedule(s) # NO_TASK
  PROVE  Placed(first_dispatch(s, me), U, V)
<1> DEFINE c  == schedule(s)
           k0 == heal(s)
           k1 == [k0 EXCEPT !.current[me] = c]
           k2 == set_state(k1, me, c, "RUNNING")
<1>1. c \in U \ V /\ c \in Tasks BY PlacedNext
<1>2. Placed(k0, U, V) BY PlacedHeal
<1> HIDE DEF c, k0
<1>3. Placed(k1, U, V) BY <1>1, <1>2, PlacedCurrent
<1> HIDE DEF k1
<1>4. Placed(k2, U, V) BY <1>1, <1>3, PlacedSet DEF States
<1> HIDE DEF k2
<1>5. Placed(on_dispatch(k2, c), U, V) BY <1>1, <1>4, PlacedStamp
<1> QED BY <1>5 DEF first_dispatch, k2, k1, k0, c

LEMMA PlacedSwitch ==
  ASSUME NEW s, NEW U, NEW V, Placed(s, U, V), NEW me \in Harts, s.current[me] # NO_TASK,
         NEW c \in U \ V
  PROVE  Placed(switch_to(s, me, c), U, V)
<1> DEFINE running == s.current[me]
           k1 == IF s.state[running] = "RUNNING" THEN set_state(s, me, running, "READY") ELSE s
           k2 == set_state(k1, me, c, "RUNNING")
           k3 == [k2 EXCEPT !.current[me] = c]
<1>1. running \in U \ V /\ running \in Tasks /\ c \in Tasks BY DEF Placed, KType
<1> HIDE DEF running
<1>2. Placed(k1, U, V) BY <1>1, PlacedSet DEF States
<1> HIDE DEF k1
<1>3. Placed(k2, U, V) BY <1>1, <1>2, PlacedSet DEF States
<1> HIDE DEF k2
<1>4. Placed(k3, U, V) BY <1>3, PlacedCurrent
<1> HIDE DEF k3
<1>5. Placed(on_dispatch(k3, c), U, V) BY <1>1, <1>4, PlacedStamp
<1> QED BY <1>5 DEF switch_to, k3, k2, k1, running

LEMMA PlacedTick ==
  ASSUME NEW s, NEW U, NEW V, Placed(s, U, V), NEW me \in Harts
  PROVE  Placed(on_tick_locked(s, me), U, V)
<1>1. Placed(heal(s), U, V) BY PlacedHeal
<1>2. heal(s).current = s.current BY DEF heal, Placed, KType
<1>3. CASE s.current[me] # NO_TASK /\ Switches(s, me)
  <2>1. schedule(s) # NO_TASK BY <1>3 DEF Switches
  <2>2. schedule(s) \in U \ V BY <2>1, PlacedNext
  <2> HIDE DEF heal, schedule, switch_to
  <2>3. Placed(switch_to(heal(s), me, schedule(s)), U, V)
    BY <1>1, <1>2, <1>3, <2>2, PlacedSwitch
  <2> QED BY <1>3, <2>3 DEF on_tick_locked
<1> QED BY <1>1, <1>3 DEF on_tick_locked

LEMMA PlacedIsolate ==
  ASSUME NEW s, NEW U, NEW V, Placed(s, U, V), NEW me \in Harts, s.current[me] # NO_TASK,
         schedule(set_state(s, me, s.current[me], "BLOCKED")) # NO_TASK
  PROVE  Placed(isolate(s, me), U, V)
<1> DEFINE t  == s.current[me]
           k1 == set_state(s, me, t, "BLOCKED")
           c  == schedule(k1)
           k2 == heal(k1)
           k3 == set_state(k2, me, c, "RUNNING")
<1>1. t \in Tasks BY DEF Placed, KType
<1>a. c # NO_TASK OBVIOUS
<1> HIDE DEF t
<1>2. Placed(k1, U, V) BY <1>1, PlacedSet DEF States
<1> HIDE DEF k1
<1>3. c \in U \ V /\ c \in Tasks BY <1>a, <1>2, PlacedNext
<1> HIDE DEF c
<1>4. Placed(k2, U, V) BY <1>2, PlacedHeal
<1> HIDE DEF k2
<1>5. Placed(k3, U, V) BY <1>3, <1>4, PlacedSet DEF States
<1> HIDE DEF k3
<1>6. Placed([k3 EXCEPT !.current[me] = c], U, V) BY <1>3, <1>5, PlacedCurrent
<1> QED BY <1>6 DEF isolate, k3, k2, c, k1, t

LEMMA PlacedUnblock ==
  ASSUME NEW s, NEW U, NEW V, Placed(s, U, V), NEW me \in Harts, NEW id \in Tasks \ V
  PROVE  Placed(unblock(s, me, id), U, V)
<1>1. CASE id \in s.used
  <2>1. id \in U \ V /\ "READY" \in States BY <1>1 DEF Placed, States
  <2>2. Placed(set_state(s, me, id, "READY"), U, V) BY <2>1, PlacedSet
  <2> QED BY <1>1, <2>2 DEF unblock
<1> QED BY <1>1 DEF unblock

LEMMA PlacedUnblockAll ==
  ASSUME NEW s, NEW U, NEW V, Placed(s, U, V), NEW me \in Harts, NEW W \in SUBSET (Tasks \ V)
  PROVE  Placed(unblock_all(s, me, W), U, V)
<1> DEFINE T  == W \cap s.used
           k1 == [s EXCEPT
                   !.state  = [t \in Tasks |-> IF t \in T THEN "READY" ELSE s.state[t]],
                   !.queues = [p \in Prios |-> s.queues[p] \cup {t \in T : s.eff[t] = p}],
                   !.bitmap = @ \cup {s.eff[t] : t \in T}]
<1>1. s \in KType /\ s.used = U /\ T \subseteq U \ V /\ T \subseteq Tasks BY DEF Placed
<1>2. [t \in Tasks |-> IF t \in T THEN "READY" ELSE s.state[t]] \in [Tasks -> States]
  BY <1>1 DEF KType, States
<1>3. [p \in Prios |-> s.queues[p] \cup {t \in T : s.eff[t] = p}] \in [Prios -> SUBSET Tasks]
  BY <1>1 DEF KType
<1>4. s.bitmap \cup {s.eff[t] : t \in T} \in SUBSET Prios
  BY <1>1 DEF KType
<1> HIDE DEF T
<1>5. /\ k1 \in KType /\ k1.used = U /\ k1.eff = s.eff /\ k1.current = s.current
      /\ k1.queues = [p \in Prios |-> s.queues[p] \cup {t \in T : s.eff[t] = p}]
  BY <1>1, <1>2, <1>3, <1>4 DEF KType
<1> HIDE DEF k1
<1>6. \A p \in Prios : \A t \in k1.queues[p] : t \in U \ V /\ k1.eff[t] = p
  BY <1>1, <1>5 DEF Placed
<1>7. Placed(k1, U, V) BY <1>5, <1>6 DEF Placed
<1>8. Placed(wake_other_harts(k1, me), U, V) BY <1>7, PlacedBroadcast
<1> QED BY <1>8 DEF unblock_all, T, k1

\* ready_remove alone.
LEMMA PlacedRemove ==
  ASSUME NEW s, NEW U, NEW V, Placed(s, U, V), NEW id \in Tasks
  PROVE  /\ Placed(ready_remove(s, id), U, V)
         /\ \A p \in Prios : id \notin ready_remove(s, id).queues[p]
<1> DEFINE r == ready_remove(s, id)
<1>1. s \in KType /\ s.eff[id] \in Prios BY DEF Placed, KType
<1>2. /\ r \in KType /\ r.used = s.used /\ r.eff = s.eff /\ r.current = s.current
      /\ r.queues = [s.queues EXCEPT ![s.eff[id]] = @ \ {id}]
  BY <1>1, ReadyRemove DEF SameElsewhere
<1> HIDE DEF r
<1>3. \A p \in Prios : \A t \in r.queues[p] : t \in U \ V /\ r.eff[t] = p /\ t # id
  BY <1>1, <1>2 DEF Placed, KType
<1>4. Placed(r, U, V) BY <1>2, <1>3 DEF Placed
<1> QED BY <1>3, <1>4 DEF r

\* A store to a task's state.
LEMMA PlacedStore ==
  ASSUME NEW s, NEW U, NEW V, Placed(s, U, V), NEW id \in Tasks, NEW v \in States
  PROVE  Placed([s EXCEPT !.state[id] = v], U, V)
<1> DEFINE r == [s EXCEPT !.state[id] = v]
<1>1. s \in KType BY DEF Placed
<1>2. /\ r \in KType /\ r.used = s.used /\ r.queues = s.queues /\ r.eff = s.eff
      /\ r.current = s.current
  BY <1>1, StoreState DEF SameElsewhere
<1> HIDE DEF r
<1>3. Placed(r, U, V) BY <1>2, PlacedSame
<1> QED BY <1>3 DEF r

\* A task that is registered is placed.
LEMMA PlacedRegister ==
  ASSUME NEW s, NEW U, Placed(s, U, {}), NEW me \in Harts, NEW p \in Prios,
         FirstFree(s) \in Tasks \ U
  PROVE  Placed(register_full(s, me, p), U \cup {FirstFree(s)}, {})
<1> DEFINE id == FirstFree(s)
           k1 == [s EXCEPT !.used = @ \cup {id}, !.state[id] = "READY",
                           !.base[id] = p, !.eff[id] = p]
           r  == ready_add(k1, me, id)
<1>0. s \in KType /\ s.used = U BY DEF Placed
<1>1. r = register_full(s, me, p) BY DEF register_full
<1>2. id \in Tasks \ U OBVIOUS
<1> HIDE DEF id
<1>3. /\ [s.state EXCEPT ![id] = "READY"] \in [Tasks -> States]
      /\ [s.base EXCEPT ![id] = p] \in [Tasks -> Prios]
      /\ [s.eff EXCEPT ![id] = p] \in [Tasks -> Prios]
      /\ U \cup {id} \in SUBSET Tasks
  BY <1>0, <1>2 DEF KType, States
<1>4. /\ k1 \in KType /\ k1.used = U \cup {id} /\ k1.current = s.current
      /\ k1.eff = [s.eff EXCEPT ![id] = p] /\ k1.queues = s.queues
  BY <1>0, <1>3 DEF KType
<1> HIDE DEF k1
<1>5. k1.eff[id] = p BY <1>0, <1>2, <1>4 DEF KType
<1>6. /\ r \in KType /\ r.used = U \cup {id} /\ r.current = s.current
      /\ r.eff = [s.eff EXCEPT ![id] = p]
      /\ r.queues = [s.queues EXCEPT ![p] = @ \cup {id}]
  <2>0. k1 \in KType /\ id \in Tasks BY <1>2, <1>4
  <2>1. /\ r \in KType /\ r.queues = [k1.queues EXCEPT ![k1.eff[id]] = @ \cup {id}]
        /\ r.used = k1.used /\ SameElsewhere(k1, r)
    BY ONLY <2>0, me \in Harts, ReadyAdd
  <2> HIDE DEF r
  <2> QED BY <1>4, <1>5, <2>1 DEF SameElsewhere
<1> HIDE DEF r
<1>7. \A q \in Prios : \A t \in r.queues[q] : t \in U \cup {id} /\ r.eff[t] = q
  BY <1>0, <1>2, <1>6 DEF Placed, KType
<1>8. \A h \in Harts : r.current[h] \in U \cup {id} \cup {NO_TASK} BY <1>6 DEF Placed
<1>9. Placed(r, U \cup {id}, {}) BY <1>6, <1>7, <1>8 DEF Placed
<1> QED BY <1>1, <1>9 DEF id

-----------------------------------------------------------------------------
\* One hart, and one task m that spawns and despawns.  Only managers sleep, and
\* nobody is paused: a despawned task's deadline, and a resume that comes after
\* despawn's ready_remove, would queue it again.
Managed(m) ==
  /\ Spawners = {m} /\ \A u \in Managers : BootUsed(u)
  /\ MAX_HARTS = 1 /\ SpawnPrios = {} /\ Pausable = {} /\ Sleepers \subseteq Managers

LEMMA Constants ==
  ASSUME NEW m, Managed(m)
  PROVE  /\ m \in Managers /\ Managers \subseteq Tasks /\ IDLE \in Tasks /\ NO_TASK \notin Tasks
         /\ \A g, h \in Harts : g = h
<1>1. IDLE \in Tasks /\ NO_TASK \notin Tasks BY DEF IDLE, Tasks, NO_TASK
<1>2. \A g, h \in Harts : g = h BY DEF Managed, Harts
<1> QED BY <1>1, <1>2, LifecycleAssumption DEF Managed

\* What the steps of the preemptive tier keep.
LEMMA TierPlaced ==
  ASSUME NEW m, Managed(m), LifeInv(m), DispatchInv(m), Next
  PROVE  Placed(k', k.used, Removed(m)) /\ armed' \subseteq Managers
<1> DEFINE U == k.used
           V == Removed(m)
           Goal == Placed(k', U, V) /\ armed' \subseteq Managers
<1> USE Constants
<1>pl. Placed(k, U, V) BY DEF DispatchInv
<1>k. k \in KType /\ k.current \in [Harts -> Tasks \cup {NO_TASK}] BY <1>pl DEF Placed, KType
<1>ar. armed \subseteq Managers BY DEF DispatchInv, ManagersStay
<1>v. V \cap Managers = {} BY DEF DispatchInv, ManagersStay, Removed, VictimLabels
<1>ack. \A h \in Harts : k.msip \ {h} \in SUBSET Harts BY <1>k DEF KType
<1> HIDE DEF U, V
<1>run. ASSUME Run PROVE Goal BY <1>pl, <1>ar, <1>run DEF Run
<1>start. ASSUME NEW h \in Harts, Start(h) PROVE Goal
  <2>1. Placed(first_dispatch(k, h), U, V) \/ schedule(k) = NO_TASK BY <1>pl, PlacedFirst
  <2> QED BY <1>pl, <1>ar, <1>start, <2>1 DEF Start
<1>tick. ASSUME NEW h \in Harts, Tick(h) PROVE Goal
  <2>1. PICK E \in SUBSET armed :
          k' = IF E = {} THEN k ELSE wake_other_harts(unblock_all(k, h, E), h)
    BY <1>tick DEF Tick
  <2>2. E \in SUBSET (Tasks \ V) BY <1>ar, <1>v
  <2>3. Placed(unblock_all(k, h, E), U, V) BY <1>pl, <2>2, PlacedUnblockAll
  <2>4. Placed(wake_other_harts(unblock_all(k, h, E), h), U, V) BY <2>3, PlacedBroadcast
  <2>5. armed' \subseteq Managers BY <1>ar, <1>tick DEF Tick
  <2> QED BY <1>pl, <2>1, <2>4, <2>5
<1>ackn. ASSUME NEW h \in Harts, k' = [k EXCEPT !.msip = @ \ {h}] PROVE Placed(k', U, V)
  <2>1. k' = [k EXCEPT !.msip = k.msip \ {h}] BY <1>ackn
  <2> QED BY <1>pl, <1>ack, <2>1, PlacedWake
<1>soft. ASSUME NEW h \in Harts, SoftIrq(h) PROVE Goal BY <1>ackn, <1>ar, <1>soft DEF SoftIrq
<1>on. ASSUME NEW h \in Harts, OnTick(h) PROVE Goal
  <2>1. Placed(on_tick_locked(k, h), U, V) BY <1>pl, PlacedTick
  <2> QED BY <1>ar, <1>on, <2>1 DEF OnTick
<1>fault. ASSUME NEW h \in Harts, OnTickFault(h) PROVE Goal
  <2> DEFINE t == k.current[h]
             s == heal(k)
             x == set_state(s, h, t, "BLOCKED")
  <2>1. /\ armed' = armed /\ t \in Faulters
        /\ IF schedule(x) = NO_TASK THEN k' = x ELSE k' = isolate(s, h)
    BY <1>fault DEF OnTickFault
  <2>2. t \in Tasks /\ t # NO_TASK BY <2>1, PreemptAssumption
  <2>3. Placed(s, U, V) BY <1>pl, PlacedHeal
  <2>4. s.current[h] = t BY <1>k DEF heal, KType
  <2> HIDE DEF s, t
  <2>5. Placed(x, U, V) BY <2>2, <2>3, PlacedSet DEF States
  <2>6. x = set_state(s, h, s.current[h], "BLOCKED") BY <2>4
  <2> HIDE DEF x
  <2>7. schedule(x) # NO_TASK => Placed(isolate(s, h), U, V)
    BY <2>2, <2>3, <2>4, <2>6, PlacedIsolate
  <2> QED BY <1>ar, <2>1, <2>5, <2>7
<1>task. ASSUME NEW h \in Harts, NEW t \in Tasks, TaskStep(h, t) PROVE Goal
  <2>1. CASE SleepBegin(h, t)
    <3>1. /\ t \in Managers /\ armed' = armed \cup {t} /\ k' = set_state(k, h, t, "BLOCKED")
      BY <2>1 DEF SleepBegin, At, Managed, block_current
    <3>2. Placed(k', U, V) BY <1>pl, <3>1, PlacedSet DEF States
    <3> QED BY <1>ar, <3>1, <3>2
  <2>2. CASE SleepResched(h, t) \/ YieldNow(h, t) \/ ParkLoop(h, t)
    BY <2>2, <1>ackn, <1>ar DEF SleepResched, YieldNow, ParkLoop, RequestReschedule
  <2>3. CASE SleepEnd(h, t) BY <2>3, <1>pl, <1>ar DEF SleepEnd
  <2>4. CASE ParkState(h, t)
    <3>1. Placed([k EXCEPT !.state[t] = "BLOCKED"], U, V) BY <1>pl, PlacedStore DEF States
    <3> QED BY <1>ar, <2>4, <3>1 DEF ParkState
  <2>5. CASE ParkQueue(h, t)
    <3>1. Placed(ready_remove(k, t), U, V) BY <1>pl, PlacedRemove
    <3> QED BY <1>ar, <2>5, <3>1 DEF ParkQueue
  <2> QED BY <1>task, <2>1, <2>2, <2>3, <2>4, <2>5 DEF TaskStep, Managed
<1> HIDE DEF Goal
<1>g. Goal BY <1>run, <1>start, <1>tick, <1>soft, <1>on, <1>fault, <1>task DEF Next, HartStep
<1> QED BY <1>g DEF Goal, U, V

LEMMA TierDispatch ==
  ASSUME NEW m, Managed(m), LifeInv(m), DispatchInv(m), Next, UNCHANGED lvars
  PROVE  DispatchInv(m)'
<1> USE Constants
<1>1. Placed(k', k.used, Removed(m)) /\ armed' \subseteq Managers BY TierPlaced
<1>2. k'.used = k.used BY <1>1 DEF Placed
<1>3. tcb' = tcb /\ loc' = loc BY DEF lvars
<1>4. \/ pc' = pc
      \/ \E t \in Tasks, l \in PcLabels : pc[t] \in PcLabels /\ pc' = [pc EXCEPT ![t] = l]
  BY TierKeeps DEF Managed, LifeInv, Types
<1>pc. pc \in [Tasks -> PcLabels \cup LifeLabels] BY DEF LifeInv, Types
<1>5. pc'[m] = pc[m] \/ (pc[m] \in PcLabels /\ pc'[m] \in PcLabels) BY <1>4, <1>pc
<1>6. PcLabels \cap VictimLabels = {} BY DEF PcLabels, VictimLabels
<1>7. Removed(m)' = Removed(m) BY <1>3, <1>5, <1>6 DEF Removed, VictimLabels
<1>8. ManagersStay(m)' BY <1>1, <1>2, <1>3, <1>5, <1>6 DEF DispatchInv, ManagersStay
<1> QED BY <1>1, <1>2, <1>7, <1>8 DEF DispatchInv

\* request_stop and join: at most a manager joins, blocks, or asks for a switch.
LEMMA AskDispatch ==
  ASSUME NEW m, Managed(m), LifeInv(m), DispatchInv(m), NEW h \in Harts, NEW u \in Managers,
         AskStep(h, u)
  PROVE  DispatchInv(m)'
<1> USE Constants
<1>ty. /\ pc \in [Tasks -> PcLabels \cup LifeLabels] /\ loc \in [Managers -> LocType]
       /\ Registers(k, k.used) /\ "stack" \in DOMAIN tcb
  BY DEF LifeInv, Types, Names
<1>pl. Placed(k, k.used, Removed(m)) /\ ManagersStay(m) BY DEF DispatchInv
<1>1. /\ \E l \in AskLabels : pc' = [pc EXCEPT ![u] = l] /\ pc[u] \in AskLabels
      /\ \/ loc' = loc \/ loc' = [loc EXCEPT ![u] = NoLocals]
         \/ \E hd \in Handles : loc' = [loc EXCEPT ![u].h = hd]
  BY <1>ty, AskKeeps
<1>2. AskLabels \cap VictimLabels = {} BY DEF AskLabels, PcLabels, VictimLabels
<1>3. u # m => pc'[m] = pc[m] /\ loc'[m] = loc[m] BY <1>1, <1>ty
<1>4. u = m => pc[m] \in AskLabels /\ pc'[m] \in AskLabels BY <1>1, <1>ty
<1>5. Removed(m)' = Removed(m) BY <1>2, <1>3, <1>4 DEF Removed, VictimLabels
<1>6. Joiners(tcb', Managers)
  <2>1. CASE tcb' = tcb BY <1>pl, <2>1 DEF ManagersStay
  <2>2. ASSUME NEW id, NEW v \in Managers \cup {NO_TASK}, tcb' = [tcb EXCEPT !.joiner[id] = v]
        PROVE  Joiners(tcb', Managers)
    BY <1>pl, <2>2 DEF ManagersStay, Joiners
  <2>3. CASE SetStop(h, u) BY <1>pl, <2>3 DEF SetStop, ManagersStay, Joiners
  <2>4. CASE JoinRegister(h, u) BY <2>1, <2>2, <2>4 DEF JoinRegister
  <2>5. CASE JoinRelease(h, u)
    <3> DEFINE id == loc[u].h.id
    <3>1. tcb' = [tcb EXCEPT !.joiner[id] = IF tcb.joiner[id] = u THEN NO_TASK ELSE tcb.joiner[id]]
      BY <2>5 DEF JoinRelease
    <3>2. id \in Tasks BY <1>ty DEF LocType
    <3>3. tcb.joiner[id] \in Managers \cup {NO_TASK} BY <1>pl, <3>2 DEF ManagersStay, Joiners
    <3> HIDE DEF id
    <3> QED BY <2>2, <3>1, <3>3
  <2> QED BY <2>1, <2>3, <2>4, <2>5
          DEF AskStep, JoinStep, JoinWait, JoinResched, JoinRead, RequestStop, Join, Call, lvars
<1>7. Placed(k', k.used, Removed(m)) /\ armed' = armed
  <2>1. CASE JoinWait(h, u)
    <3>1. k.current[h] = u /\ armed' = armed /\ (k' = k \/ k' = set_state(k, h, u, "BLOCKED"))
      BY <2>1 DEF JoinWait, At, block_current
    <3>2. Placed(set_state(k, h, u, "BLOCKED"), k.used, Removed(m))
      BY <1>pl, PlacedSet DEF States
    <3> QED BY <1>pl, <3>1, <3>2
  <2>2. CASE JoinResched(h, u)
    <3>1. k' = [k EXCEPT !.msip = k.msip \ {h}] /\ armed' = armed
      BY <2>2 DEF JoinResched, RequestReschedule
    <3>2. k.msip \ {h} \in SUBSET Harts BY <1>pl DEF Placed, KType
    <3> QED BY <1>pl, <3>1, <3>2, PlacedWake
  <2>3. CASE k' = k /\ armed' = armed BY <1>pl, <2>3
  <2> QED BY <2>1, <2>2, <2>3
          DEF AskStep, SetStop, JoinStep, JoinRegister, JoinRelease, JoinRead, RequestStop, Join,
              Call, Quiet
<1>8. k'.used = k.used BY <1>7 DEF Placed
<1>9. ManagersStay(m)' BY <1>pl, <1>2, <1>3, <1>4, <1>6, <1>7, <1>8 DEF ManagersStay
<1> QED BY <1>5, <1>7, <1>8, <1>9 DEF DispatchInv

\* spawn up to the registration, the start of a despawn, and despawn after the
\* slot is free.
LEMMA StackDispatch ==
  ASSUME NEW m, Managed(m), LifeInv(m), DispatchInv(m), NEW h \in Harts,
         \/ \E z \in Sizes : AllocStack(h, m, z)
         \/ Pop(h, m) \/ Carve(h, m) \/ PushStep(h, m)
         \/ \E hd \in Handles : Despawn(h, m, hd)
         \/ DespawnRelease(h, m) \/ DespawnForget(h, m)
         \/ \E p \in ChildPrios : Register(h, m, p) /\ FreeSlots(k) = {}
  PROVE  DispatchInv(m)'
<1> USE Constants
<1>ty. pc \in [Tasks -> PcLabels \cup LifeLabels] /\ loc \in [Managers -> LocType]
  BY DEF LifeInv, Types
<1>pl. Placed(k, k.used, Removed(m)) /\ ManagersStay(m) BY DEF DispatchInv
<1> DEFINE Labels == {"run", "pop", "carve", "spawn", "put_back", "put_store", "push", "push_store",
                      "release", "forget"}
<1>1. pc[m] \in Labels
  BY DEF AllocStack, Pop, Carve, PushStep, PushLoad, PushStore, Despawn, Call, DespawnRelease,
         DespawnForget, Register, At
<1>2. k' = k /\ armed' = armed
  BY DEF AllocStack, Pop, Carve, PushStep, PushLoad, PushStore, Despawn, Call, DespawnRelease,
         DespawnForget, Register, Quiet
<1>3. pc'[m] \in Labels \/ \E hd \in Handles : Despawn(h, m, hd)
  BY <1>ty DEF AllocStack, Pop, Carve, PushStep, PushLoad, PushStore, DespawnRelease,
               DespawnForget, Register, Goto, Return
<1>4. ASSUME NEW hd \in Handles, Despawn(h, m, hd)
      PROVE  pc'[m] = "despawn" /\ loc'[m].h.id \notin Managers
  BY <1>ty, <1>4 DEF Despawn, Call, Goto, LocType
<1>5. Labels \cap VictimLabels = {} BY DEF VictimLabels
<1>6. Removed(m) = {} /\ Removed(m)' = {} BY <1>1, <1>3, <1>4, <1>5 DEF Removed, VictimLabels
<1>7. tcb' = tcb \/ tcb' = [tcb EXCEPT !.stack[loc[m].h.id] = NoStack]
  BY DEF AllocStack, Pop, Carve, PushStep, PushLoad, PushStore, Despawn, Call, DespawnRelease,
         DespawnForget, Register
<1>8. Joiners(tcb', Managers) BY <1>pl, <1>7 DEF ManagersStay, Joiners
<1>9. ManagersStay(m)' BY <1>pl, <1>2, <1>3, <1>4, <1>5, <1>8 DEF ManagersStay
<1> QED BY <1>pl, <1>2, <1>6, <1>9 DEF DispatchInv

\* despawn, from the ready queues to used.
LEMMA VictimDispatch ==
  ASSUME NEW m, Managed(m), LifeInv(m), DispatchInv(m), NEW h \in Harts,
         DespawnRemove(h, m) \/ DespawnReset(h, m) \/ DespawnFree(h, m)
  PROVE  DispatchInv(m)'
<1> USE Constants
<1> DEFINE id == loc[m].h.id
<1>pc. pc \in [Tasks -> PcLabels \cup LifeLabels] /\ k.used \subseteq Tasks BY DEF LifeInv, Types
<1>1. /\ pc[m] \in VictimLabels /\ k.current[h] = m /\ loc' = loc /\ armed' = armed
      /\ pc' = [pc EXCEPT ![m] = pc'[m]]
  BY <1>pc DEF DespawnRemove, DespawnReset, DespawnFree, At, Goto, lvars, VictimLabels
<1>pl. Placed(k, k.used, Removed(m)) /\ ManagersStay(m) BY DEF DispatchInv
<1>id. id \in Tasks /\ id \notin Managers
  BY <1>1, <1>pc, <1>pl DEF LifeInv, VictimKnown, ManagersStay
<1>k. k \in KType BY <1>pl DEF Placed
<1> HIDE DEF id
<1>2. /\ pc'[m] \in {"reset", "free", "release"}
      /\ pc'[m] = "reset" <=> pc[m] = "despawn"
      /\ pc'[m] = "free" <=> pc[m] = "reset"
      /\ pc'[m] = "release" <=> pc[m] = "free"
  BY <1>pc DEF DespawnRemove, DespawnReset, DespawnFree, At, Goto
<1>3. /\ Removed(m) = (IF pc[m] = "despawn" THEN {} ELSE {id})
      /\ Removed(m)' = (IF pc[m] = "free" THEN {} ELSE {id})
  BY <1>1, <1>2 DEF Removed, VictimLabels, id
<1>4. /\ Placed(k', k'.used, Removed(m)')
      /\ k'.used = (IF pc[m] = "free" THEN k.used \ {id} ELSE k.used)
  <2>1. CASE DespawnRemove(h, m)
    <3>1. pc[m] = "despawn" /\ k' = ready_remove(k, id) BY <2>1 DEF DespawnRemove, At, id
    <3>2. k'.used = k.used /\ k'.current = k.current
      BY <1>k, <1>id, <3>1, ReadyRemove DEF SameElsewhere
    <3>3. Placed(k', k.used, {}) /\ \A p \in Prios : id \notin k'.queues[p]
      BY <1>pl, <1>3, <1>id, <3>1, PlacedRemove
    <3>4. \A g \in Harts : k'.current[g] # id BY <1>1, <1>id, <3>2
    <3>5. Placed(k', k.used, {id}) BY <3>3, <3>4 DEF Placed
    <3> QED BY <1>3, <3>1, <3>2, <3>5
  <2>2. CASE DespawnReset(h, m)
    <3>1. pc[m] = "reset" /\ k' = [k EXCEPT !.state[id] = "READY"] BY <2>2 DEF DespawnReset, At, id
    <3>2. Placed(k', k.used, {id}) BY <1>pl, <1>3, <1>id, <3>1, PlacedStore DEF States
    <3>3. k'.used = k.used BY <3>2 DEF Placed
    <3> QED BY <1>3, <3>1, <3>2, <3>3
  <2>3. CASE DespawnFree(h, m)
    <3>1. pc[m] = "free" /\ k' = [k EXCEPT !.used = k.used \ {id}] BY <2>3 DEF DespawnFree, At, id
    <3>2. /\ k' \in KType /\ k'.used = k.used \ {id} /\ k'.current = k.current
          /\ k'.queues = k.queues /\ k'.eff = k.eff
      BY <1>k, <3>1 DEF KType
    <3>3. Placed(k, k.used, {id}) BY <1>pl, <1>3, <3>1
    <3>4. Placed(k', k.used \ {id}, {}) BY <3>2, <3>3 DEF Placed
    <3> QED BY <1>3, <3>1, <3>2, <3>4
  <2> QED BY <2>1, <2>2, <2>3
<1>5. Joiners(tcb', Managers)
  BY <1>pl DEF DespawnRemove, DespawnReset, DespawnFree, lvars, ManagersStay, Joiners
<1>6. ManagersStay(m)'
  BY <1>pl, <1>1, <1>4, <1>5, <1>id DEF ManagersStay, id
<1> QED BY <1>4, <1>6 DEF DispatchInv

LEMMA RegisterDispatch ==
  ASSUME NEW m, Managed(m), LifeInv(m), DispatchInv(m), NEW h \in Harts, NEW p \in ChildPrios,
         Register(h, m, p), FreeSlots(k) # {}
  PROVE  DispatchInv(m)'
<1> USE Constants
<1> DEFINE id == FirstFree(k)
<1>ty. /\ pc \in [Tasks -> PcLabels \cup LifeLabels] /\ k.used \in SUBSET Tasks
       /\ Registers(k, k.used)
  BY DEF LifeInv, Types
<1>1. /\ k' = register_full(k, h, p) /\ pc[m] = "spawn"
      /\ tcb' = [Recycled(id) EXCEPT !.stack[id] = loc[m].stack]
      /\ pc' = [pc EXCEPT ![m] = "run", ![id] = "run"] /\ armed' = armed
  BY DEF Register, At
<1>2. k.used # Tasks BY DEF FreeSlots
<1>3. id \in Tasks \ k.used BY <1>ty, <1>2, RegisterAdds
<1>4. Removed(m) = {} BY <1>1 DEF Removed
<1>5. Placed(k, k.used, {}) /\ ManagersStay(m) BY <1>4 DEF DispatchInv
<1>6. p \in Prios BY LifecycleAssumption
<1>7. Placed(k', k.used \cup {id}, {}) BY <1>1, <1>3, <1>5, <1>6, PlacedRegister
<1> HIDE DEF id
<1>8. k'.used = k.used \cup {id} BY <1>7 DEF Placed
<1>9. pc'[m] = "run" BY <1>ty, <1>1
<1>10. Removed(m)' = {} BY <1>9 DEF Removed
<1>11. Joiners(tcb', Managers) BY <1>1, <1>5 DEF Recycled, ManagersStay, Joiners
<1>12. ManagersStay(m)' BY <1>1, <1>5, <1>8, <1>9, <1>11 DEF ManagersStay, VictimLabels
<1> QED BY <1>7, <1>8, <1>10, <1>12 DEF DispatchInv

LEMMA ExitDispatch ==
  ASSUME NEW m, Managed(m), LifeInv(m), DispatchInv(m), NEW h \in Harts, NEW t \in Tasks,
         ExitStep(h, t)
  PROVE  DispatchInv(m)'
<1> USE Constants
<1>ty. pc \in [Tasks -> PcLabels \cup LifeLabels] BY DEF LifeInv, Types
<1>pl. Placed(k, k.used, Removed(m)) /\ ManagersStay(m) BY DEF DispatchInv
<1>1. /\ loc' = loc /\ armed' = armed
      /\ \E l \in {"exit", "exit_state", "exit_queue", "exit_resched"} : pc' = [pc EXCEPT ![t] = l]
      /\ pc[t] \in {"run", "exit", "exit_state", "exit_queue", "exit_resched"}
  BY DEF ExitStep, Exit, ExitPublish, ExitState, ExitQueue, ExitResched, At, Goto, Quiet, lvars
<1>2. pc'[m] = pc[m] \/ (pc[m] \notin VictimLabels /\ pc'[m] \notin VictimLabels)
  BY <1>1, <1>ty DEF VictimLabels
<1>3. Removed(m)' = Removed(m) BY <1>1, <1>2 DEF Removed, VictimLabels
<1>4. Placed(k', k.used, Removed(m)) /\ Joiners(tcb', Managers)
  <2>1. CASE Exit(h, t) BY <1>pl, <2>1 DEF Exit, Quiet, ManagersStay, Joiners
  <2>2. CASE ExitPublish(h, t)
    <3>1. tcb.joiner[t] \in Managers \cup {NO_TASK} BY <1>pl DEF ManagersStay, Joiners
    <3>2. Removed(m) \cap Managers = {} BY <1>pl DEF ManagersStay, Removed, VictimLabels
    <3>3. tcb.joiner[t] # NO_TASK => Placed(unblock(k, h, tcb.joiner[t]), k.used, Removed(m))
      BY <1>pl, <3>1, <3>2, PlacedUnblock
    <3>4. Joiners(tcb', Managers) BY <1>pl, <2>2 DEF ExitPublish, ManagersStay, Joiners
    <3> QED BY <1>pl, <2>2, <3>3, <3>4 DEF ExitPublish
  <2>3. CASE ExitState(h, t)
    <3>1. Placed([k EXCEPT !.state[t] = "BLOCKED"], k.used, Removed(m))
      BY <1>pl, PlacedStore DEF States
    <3> QED BY <1>pl, <2>3, <3>1 DEF ExitState, ManagersStay, lvars
  <2>4. CASE ExitQueue(h, t)
    <3>1. Placed(ready_remove(k, t), k.used, Removed(m)) BY <1>pl, PlacedRemove
    <3> QED BY <1>pl, <2>4, <3>1 DEF ExitQueue, ManagersStay, lvars
  <2>5. CASE ExitResched(h, t)
    <3>1. k' = [k EXCEPT !.msip = k.msip \ {h}] /\ tcb' = tcb
      BY <2>5 DEF ExitResched, RequestReschedule, lvars
    <3>2. k.msip \ {h} \in SUBSET Harts BY <1>pl DEF Placed, KType
    <3> QED BY <1>pl, <3>1, <3>2, PlacedWake DEF ManagersStay
  <2> QED BY <2>1, <2>2, <2>3, <2>4, <2>5 DEF ExitStep
<1>5. k'.used = k.used BY <1>4 DEF Placed
<1>6. ManagersStay(m)' BY <1>pl, <1>1, <1>2, <1>4, <1>5 DEF ManagersStay
<1> QED BY <1>3, <1>4, <1>5, <1>6 DEF DispatchInv

LEMMA NextPlaced ==
  ASSUME NEW m, Managed(m), LifeInv(m), Asking(m), DispatchInv(m), [LifeNext]_<<vars, lvars>>
  PROVE  DispatchInv(m)'
<1>1. CASE UNCHANGED <<vars, lvars>>
  <2>1. k' = k /\ armed' = armed /\ pc' = pc /\ tcb' = tcb /\ loc' = loc
    BY <1>1 DEF vars, lvars
  <2>2. Removed(m)' = Removed(m) BY <2>1 DEF Removed
  <2>3. ManagersStay(m)' BY <2>1 DEF DispatchInv, ManagersStay, Joiners
  <2> QED BY <2>1, <2>2, <2>3 DEF DispatchInv
<1>2. CASE Next /\ UNCHANGED lvars BY <1>2, TierDispatch
<1>3. ASSUME NEW h \in Harts, NEW u \in Managers, ManagerStep(h, u) PROVE DispatchInv(m)'
  <2>1. CASE AskStep(h, u) BY <2>1, AskDispatch
  <2>2. CASE u = m
    BY <1>3, <2>1, <2>2, StackDispatch, VictimDispatch, RegisterDispatch DEF ManagerStep, AskStep
  <2>3. Spawners = {m} BY DEF Managed
  <2> QED BY <1>3, <2>1, <2>2, <2>3, SpawnSteps DEF Asking
<1>4. ASSUME NEW h \in Harts, NEW t \in Tasks, ExitStep(h, t) PROVE DispatchInv(m)'
  BY <1>4, ExitDispatch
<1> QED BY <1>1, <1>2, <1>3, <1>4 DEF LifeNext

LEMMA InitPlaced ==
  ASSUME NEW m, Managed(m), LifeInit
  PROVE  DispatchInv(m)
<1> USE Constants
<1>1. /\ pc = [t \in Tasks |-> "run"] /\ armed = {}
      /\ "joiner" \in DOMAIN tcb /\ tcb.joiner = [t \in Tasks |-> NO_TASK]
  BY DEF LifeInit, Init
<1>2. k \in KType BY InitIInv DEF LifeInit, IInv, KInv
<1>3. /\ k.used = {t \in Tasks : BootUsed(t)} /\ k.current = [h \in Harts |-> NO_TASK]
      /\ k.eff = [t \in Tasks |-> BootPrio(t)]
      /\ k.queues = [p \in Prios |-> {t \in Tasks : BootUsed(t) /\ BootPrio(t) = p}]
  BY DEF LifeInit, Init, EmptySched
<1>4. Removed(m) = {} BY <1>1 DEF Removed
<1>5. Placed(k, k.used, {}) BY <1>2, <1>3 DEF Placed
<1>6. ManagersStay(m)
  BY <1>1, <1>3 DEF ManagersStay, Joiners, VictimLabels, Managed
<1> QED BY <1>4, <1>5, <1>6 DEF DispatchInv

\* No freed slot is queued or current: ready_remove takes a despawned task out
\* of its queue before its slot is freed, and nothing puts it back.
THEOREM FreedTasksStayOut ==
  ASSUME NEW m, Managed(m)
  PROVE  LifeSpec => []OnlyTasksDispatch
<1>1. LifeSpec => [](LifeInv(m) /\ Asking(m)) BY LifeInvariance DEF Managed
<1>2. LifeInit => DispatchInv(m) BY InitPlaced
<1>3. ASSUME LifeInv(m), Asking(m), DispatchInv(m), [LifeNext]_<<vars, lvars>>
      PROVE  DispatchInv(m)'
  BY <1>3, NextPlaced
<1>4. DispatchInv(m) => OnlyTasksDispatch
  BY DEF DispatchInv, Placed, OnlyTasksDispatch
<1> QED BY <1>1, <1>2, <1>3, <1>4, PTL DEF LifeSpec

-----------------------------------------------------------------------------
(* Joins, with any number of spawners, despawners, joiners and harts.  A   *)
(* registered task that no despawn has reset has room for its result, and  *)
(* once it has stored that result, before its exit is published, the       *)
(* result is its own.  A handle's generation is at most its slot's, so     *)
(* that a handle that is still valid was valid all along: the exit its     *)
(* join has seen is that of the same task.                                 *)

\* The fields of the TCB that exit and join use.
Filed(r) ==
  /\ {"gen", "exited", "sized", "result"} \subseteq DOMAIN r
  /\ r.gen \in [Tasks -> Nat] /\ r.result \in [Tasks -> Nat]

SameFile(r, s) ==
  Filed(s) /\ s.gen = r.gen /\ s.exited = r.exited /\ s.sized = r.sized /\ s.result = r.result

\* A manager's locals name a slot, and a generation the slot has had.
Called(l, r) ==
  /\ DOMAIN l = Managers
  /\ \A m \in Managers :
       /\ "h" \in DOMAIN l[m] /\ l[m].h \in [id : Tasks, gen : Nat]
       /\ l[m].h.gen <= r.gen[l[m].h.id]

RecordTypes ==
  /\ pc \in [Tasks -> PcLabels \cup LifeLabels]
  /\ k.used \in SUBSET Tasks /\ Registers(k, k.used)
  /\ Filed(tcb) /\ Called(loc, tcb)

\* No manager is being despawned.
ManagersKept ==
  /\ Managers \subseteq k.used
  /\ \A m \in Managers : pc[m] \in VictimLabels => loc[m].h.id \notin Managers

\* x is registered, and no despawn has reset its slot to free it.
Intact(x) == x \in k.used /\ \A m \in Managers : pc[m] = "free" => loc[m].h.id # x

\* A result is written in the task's own generation before the exit is seen.
ResultsOwn ==
  \A x \in Tasks :
    Intact(x) => /\ x \in tcb.sized
                 /\ x \in tcb.exited \/ pc[x] = "exit" => tcb.result[x] = tcb.gen[x]

ReadLabels == {"join_release", "join_read"}

\* A join goes on to the result only after the exit of the task it is called for.
ReadersSawExit ==
  \A m \in Managers :
    pc[m] \in ReadLabels /\ Undisturbed(loc[m].h) => loc[m].h.id \in tcb.exited

RecordInv == RecordTypes /\ ManagersKept /\ ResultsOwn /\ ReadersSawExit

LEMMA InitRecord ==
  ASSUME \A u \in Managers : BootUsed(u), LifeInit
  PROVE  RecordInv
<1>1. /\ pc = [t \in Tasks |-> "run"] /\ loc = [m \in Managers |-> NoLocals]
      /\ k.used = {t \in Tasks : BootUsed(t)} /\ Registers(k, k.used)
      /\ tcb.gen \in [Tasks -> Nat] /\ tcb.result \in [Tasks -> Nat]
      /\ Filed(tcb) /\ tcb.sized = k.used /\ tcb.exited = {}
  BY DEF LifeInit, Init, EmptySched, Registers, Filed, NoResult
<1>2. Managers \subseteq Tasks /\ IDLE \in Tasks BY LifecycleAssumption DEF IDLE, Tasks
<1>3. Called(loc, tcb) BY <1>1, <1>2 DEF Called, NoLocals, Filed
<1>4. RecordTypes BY <1>1, <1>3 DEF RecordTypes, PcLabels
<1>5. ManagersKept BY <1>1, <1>2 DEF ManagersKept, VictimLabels
<1>6. ResultsOwn BY <1>1 DEF ResultsOwn, Intact
<1>7. ReadersSawExit BY <1>1, <1>2 DEF ReadersSawExit, ReadLabels
<1> QED BY <1>4, <1>5, <1>6, <1>7 DEF RecordInv

\* A step that registers, resets, exits and frees nobody.
LEMMA RecordSame ==
  ASSUME RecordInv, RecordTypes', ManagersKept', k'.used = k.used, SameFile(tcb, tcb'),
         \A t \in Tasks : pc'[t] = "exit" => pc[t] = "exit",
         \A u \in Managers : pc[u] = "free" => pc'[u] = "free" /\ loc'[u].h = loc[u].h,
         \A u \in Managers : pc'[u] \in ReadLabels =>
           /\ loc'[u].h = loc[u].h
           /\ pc[u] \in ReadLabels \/ loc[u].h.id \in tcb.exited
  PROVE  RecordInv'
<1>1. \A x \in Tasks : Intact(x)' => Intact(x) BY DEF Intact
<1>2. ResultsOwn' BY <1>1 DEF RecordInv, ResultsOwn, SameFile
<1>3. ReadersSawExit'
  <2> SUFFICES ASSUME NEW m \in Managers, pc'[m] \in ReadLabels, Undisturbed(loc[m].h)'
      PROVE  loc'[m].h.id \in tcb'.exited
    BY DEF ReadersSawExit
  <2>1. loc'[m].h = loc[m].h OBVIOUS
  <2>2. Undisturbed(loc[m].h)
    BY <2>1 DEF Undisturbed, Valid, SameFile
  <2> QED BY <2>1, <2>2 DEF RecordInv, ReadersSawExit, SameFile
<1> QED BY <1>2, <1>3 DEF RecordInv

LEMMA TierRecord ==
  ASSUME SpawnPrios = {}, RecordInv, Next, UNCHANGED lvars
  PROVE  RecordInv'
<1>1. Managers \subseteq Tasks BY LifecycleAssumption
<1>ty. RecordTypes /\ ManagersKept BY DEF RecordInv
<1>pc. pc \in [Tasks -> PcLabels \cup LifeLabels] BY <1>ty DEF RecordTypes
<1>2. tcb' = tcb /\ loc' = loc BY DEF lvars
<1>3. /\ Registers(k', k.used)
      /\ \/ pc' = pc
         \/ \E t \in Tasks, l \in PcLabels : pc[t] \in PcLabels /\ pc' = [pc EXCEPT ![t] = l]
  BY <1>ty, TierKeeps DEF RecordTypes
<1>4. \A t \in Tasks : pc'[t] = pc[t] \/ (pc[t] \in PcLabels /\ pc'[t] \in PcLabels)
  BY <1>pc, <1>3
<1>5. pc' \in [Tasks -> PcLabels \cup LifeLabels] BY <1>pc, <1>3
<1>6. k'.used = k.used BY <1>3 DEF Registers
<1>7. RecordTypes' BY <1>ty, <1>2, <1>3, <1>5, <1>6 DEF RecordTypes
<1>8. PcLabels \cap (VictimLabels \cup ReadLabels \cup {"exit"}) = {}
  BY DEF PcLabels, VictimLabels, ReadLabels
<1>9. ManagersKept' BY <1>ty, <1>1, <1>2, <1>4, <1>6, <1>8 DEF ManagersKept
<1>10. SameFile(tcb, tcb') BY <1>ty, <1>2 DEF SameFile, RecordTypes
<1>11. \A u \in Managers : pc[u] = "free" => pc'[u] = "free"
  BY <1>1, <1>4, <1>8 DEF VictimLabels
<1>12. \A u \in Managers : pc'[u] \in ReadLabels => pc[u] \in ReadLabels BY <1>1, <1>4, <1>8
<1>13. \A t \in Tasks : pc'[t] = "exit" => pc[t] = "exit" BY <1>4, <1>8
<1> QED BY <1>2, <1>6, <1>7, <1>9, <1>10, <1>11, <1>12, <1>13, RecordSame

\* What a manager does but for registering, resetting and freeing.
CallStep(h, m) ==
  \/ \E z \in Sizes : AllocStack(h, m, z)
  \/ Pop(h, m) \/ PushStep(h, m) \/ Carve(h, m)
  \/ \E p \in ChildPrios : Register(h, m, p) /\ FreeSlots(k) = {}
  \/ \E hd \in Handles : RequestStop(h, m, hd) \/ Join(h, m, hd) \/ Despawn(h, m, hd)
  \/ SetStop(h, m) \/ JoinStep(h, m)
  \/ DespawnRemove(h, m) \/ DespawnRelease(h, m) \/ DespawnForget(h, m)

LEMMA CallFile ==
  ASSUME RecordInv, NEW h \in Harts, NEW m \in Managers, CallStep(h, m)
  PROVE  SameFile(tcb, tcb') /\ Registers(k', k.used)
<1>1. Filed(tcb) /\ Registers(k, k.used) BY DEF RecordInv, RecordTypes
<1>2. /\ \/ tcb' = tcb
         \/ \E id, v : \/ tcb' = [tcb EXCEPT !.joiner[id] = v]
                       \/ tcb' = [tcb EXCEPT !.stack[id] = v]
         \/ \E v : tcb' = [tcb EXCEPT !.stop = v]
  BY DEF CallStep, AllocStack, Pop, PushStep, PushLoad, PushStore, Carve, Register, RequestStop,
         Join, Despawn, Call, SetStop, JoinStep, JoinRegister, JoinWait, JoinResched, JoinRelease,
         JoinRead, DespawnRemove, DespawnRelease, DespawnForget, lvars
<1>3. SameFile(tcb, tcb') BY <1>1, <1>2 DEF SameFile, Filed
<1>4. Registers(k', k.used)
  <2>1. CASE JoinWait(h, m)
    <3>1. Registers(block_current(k, h), k.used) BY <1>1, StateKeeps DEF block_current
    <3> QED BY <1>1, <2>1, <3>1 DEF JoinWait
  <2>2. CASE JoinResched(h, m)
    BY <1>1, <2>2 DEF JoinResched, RequestReschedule, Registers
  <2>3. CASE DespawnRemove(h, m) BY <1>1, <2>3, ReadyKeeps DEF DespawnRemove
  <2> QED BY <1>1, <2>1, <2>2, <2>3
          DEF CallStep, AllocStack, Pop, PushStep, PushLoad, PushStore, Carve, Register,
              RequestStop, Join, Despawn, Call, SetStop, JoinStep, JoinRegister, JoinRelease,
              JoinRead, DespawnRelease, DespawnForget, Quiet
<1> QED BY <1>3, <1>4

\* Its program counter moves; its handle is that of the call, or a new one that
\* is valid.
LEMMA CallLocals ==
  ASSUME RecordInv, NEW h \in Harts, NEW m \in Managers, CallStep(h, m)
  PROVE  /\ \E l \in (PcLabels \cup LifeLabels) \ {"free", "exit"} :
              /\ pc' = [pc EXCEPT ![m] = l] /\ pc[m] # "free"
              /\ l \in ReadLabels =>
                   loc' = loc /\ (pc[m] \in ReadLabels \/ loc[m].h.id \in tcb.exited)
              /\ l \in VictimLabels =>
                   (pc[m] \in VictimLabels /\ loc' = loc) \/ loc'[m].h.id \notin Managers
         /\ Called(loc', tcb)
         /\ \A u \in Managers : u # m => loc'[u] = loc[u]
<1>1. Called(loc, tcb) BY DEF RecordInv, RecordTypes
<1>2. /\ \/ loc' = loc \/ loc' = [loc EXCEPT ![m] = NoLocals]
         \/ \E x, y : loc' = [loc EXCEPT ![m].n = x, ![m].size = y]
         \/ \E x : loc' = [loc EXCEPT ![m].n = x] \/ loc' = [loc EXCEPT ![m].stack = x]
         \/ \E hd \in Handles : loc' = [loc EXCEPT ![m].h = hd]
  BY DEF CallStep, AllocStack, Pop, PushStep, PushLoad, PushStore, Carve, Register, RequestStop,
         Join, Despawn, Call, SetStop, JoinStep, JoinRegister, JoinWait, JoinResched, JoinRelease,
         JoinRead, DespawnRemove, DespawnRelease, DespawnForget, lvars, Return
<1>3. \A u \in Managers : u # m => loc'[u] = loc[u] BY <1>1, <1>2 DEF Called
<1>4. DOMAIN loc' = Managers BY <1>1, <1>2 DEF Called
<1>5. /\ "h" \in DOMAIN loc'[m]
      /\ loc'[m].h = loc[m].h \/ loc'[m].h = NoLocals.h \/ loc'[m].h \in Handles
  <2>1. m \in DOMAIN loc /\ "h" \in DOMAIN loc[m] BY <1>1 DEF Called
  <2>2. CASE loc' = loc BY <2>1, <2>2
  <2>3. CASE loc' = [loc EXCEPT ![m] = NoLocals] BY <2>1, <2>3 DEF NoLocals
  <2>4. ASSUME NEW x, NEW y, loc' = [loc EXCEPT ![m].n = x, ![m].size = y]
        PROVE  "h" \in DOMAIN loc'[m] /\ loc'[m].h = loc[m].h
    BY <2>1, <2>4
  <2>5. ASSUME NEW x, loc' = [loc EXCEPT ![m].n = x] \/ loc' = [loc EXCEPT ![m].stack = x]
        PROVE  "h" \in DOMAIN loc'[m] /\ loc'[m].h = loc[m].h
    BY <2>1, <2>5
  <2>6. ASSUME NEW hd \in Handles, loc' = [loc EXCEPT ![m].h = hd]
        PROVE  "h" \in DOMAIN loc'[m] /\ loc'[m].h = hd
    BY <2>1, <2>6
  <2> QED BY <1>2, <2>2, <2>3, <2>4, <2>5, <2>6
<1>6. Called(loc', tcb)
  <2>1. NoLocals.h \in [id : Tasks, gen : Nat] /\ NoLocals.h.gen <= tcb.gen[NoLocals.h.id]
    BY DEF NoLocals, IDLE, Tasks, RecordInv, RecordTypes, Filed
  <2>2. \A hd \in Handles : hd \in [id : Tasks, gen : Nat] /\ hd.gen <= tcb.gen[hd.id]
    BY LifecycleAssumption DEF Handles
  <2> QED BY <1>1, <1>3, <1>4, <1>5, <2>1, <2>2 DEF Called
<1>7. \E l \in (PcLabels \cup LifeLabels) \ {"free", "exit"} :
        /\ pc' = [pc EXCEPT ![m] = l] /\ pc[m] # "free"
        /\ l \in ReadLabels =>
             loc' = loc /\ (pc[m] \in ReadLabels \/ loc[m].h.id \in tcb.exited)
        /\ l \in VictimLabels =>
             (pc[m] \in VictimLabels /\ loc' = loc) \/ loc'[m].h.id \notin Managers
  <2>1. CASE JoinStep(h, m)
    BY <2>1 DEF JoinStep, JoinRegister, JoinWait, JoinResched, JoinRelease, JoinRead, At, Goto,
                Return, lvars, PcLabels, LifeLabels, ReadLabels, VictimLabels
  <2>2. CASE \E hd \in Handles : RequestStop(h, m, hd) \/ Join(h, m, hd) \/ Despawn(h, m, hd)
    <3>1. PICK hd \in Handles : RequestStop(h, m, hd) \/ Join(h, m, hd) \/ Despawn(h, m, hd)
      BY <2>2
    <3>2. loc' = [loc EXCEPT ![m].h = hd] BY <3>1 DEF RequestStop, Join, Despawn, Call
    <3>3. loc'[m].h = hd BY <1>1, <3>2 DEF Called
    <3> QED BY <3>1, <3>3 DEF RequestStop, Join, Despawn, Call, At, Goto, PcLabels, LifeLabels,
                              ReadLabels, VictimLabels
  <2>3. CASE SetStop(h, m) \/ DespawnRemove(h, m) \/ DespawnRelease(h, m) \/ DespawnForget(h, m)
    BY <2>3 DEF SetStop, DespawnRemove, DespawnRelease, DespawnForget, At, Goto, Return, lvars,
                PcLabels, LifeLabels, ReadLabels, VictimLabels
  <2>4. CASE \/ \E z \in Sizes : AllocStack(h, m, z)
             \/ Pop(h, m) \/ PushStep(h, m) \/ Carve(h, m)
             \/ \E p \in ChildPrios : Register(h, m, p) /\ FreeSlots(k) = {}
    BY <2>4 DEF AllocStack, Pop, PushStep, PushLoad, PushStore, Carve, Register, At, Goto, Return,
                PcLabels, LifeLabels, ReadLabels, VictimLabels
  <2> QED BY <2>1, <2>2, <2>3, <2>4 DEF CallStep
<1> QED BY <1>3, <1>6, <1>7

LEMMA CallRecord ==
  ASSUME RecordInv, NEW h \in Harts, NEW m \in Managers, CallStep(h, m)
  PROVE  RecordInv'
<1>1. Managers \subseteq Tasks BY LifecycleAssumption
<1>ty. RecordTypes /\ ManagersKept BY DEF RecordInv
<1>pc. pc \in [Tasks -> PcLabels \cup LifeLabels] BY <1>ty DEF RecordTypes
<1>2. SameFile(tcb, tcb') /\ Registers(k', k.used) BY CallFile
<1>3. PICK l \in (PcLabels \cup LifeLabels) \ {"free", "exit"} :
        /\ pc' = [pc EXCEPT ![m] = l] /\ pc[m] # "free"
        /\ l \in ReadLabels =>
             loc' = loc /\ (pc[m] \in ReadLabels \/ loc[m].h.id \in tcb.exited)
        /\ l \in VictimLabels =>
             (pc[m] \in VictimLabels /\ loc' = loc) \/ loc'[m].h.id \notin Managers
  BY CallLocals
<1>4. Called(loc', tcb) /\ \A u \in Managers : u # m => loc'[u] = loc[u] BY CallLocals
<1>5. k'.used = k.used BY <1>2 DEF Registers
<1>6. RecordTypes'
  <2>1. pc' \in [Tasks -> PcLabels \cup LifeLabels] BY <1>pc, <1>3
  <2>2. Called(loc', tcb') BY <1>2, <1>4 DEF Called, SameFile
  <2> QED BY <1>ty, <1>2, <1>5, <2>1, <2>2 DEF RecordTypes, SameFile
<1>7. ManagersKept' BY <1>ty, <1>1, <1>pc, <1>3, <1>4, <1>5 DEF ManagersKept
<1>8. \A t \in Tasks : pc'[t] = "exit" => pc[t] = "exit" BY <1>1, <1>pc, <1>3
<1>9. \A u \in Managers : pc[u] = "free" => pc'[u] = "free" /\ loc'[u].h = loc[u].h
  BY <1>1, <1>pc, <1>3, <1>4
<1>10. \A u \in Managers : pc'[u] \in ReadLabels =>
         /\ loc'[u].h = loc[u].h
         /\ pc[u] \in ReadLabels \/ loc[u].h.id \in tcb.exited
  BY <1>1, <1>pc, <1>3, <1>4
<1> QED BY <1>2, <1>5, <1>6, <1>7, <1>8, <1>9, <1>10, RecordSame

\* A task is registered: its slot was free, so no valid handle named it.
LEMMA RegisterRecord ==
  ASSUME RecordInv, NEW h \in Harts, NEW m \in Managers, NEW p \in ChildPrios,
         Register(h, m, p), FreeSlots(k) # {}
  PROVE  RecordInv'
<1>1. Managers \subseteq Tasks BY LifecycleAssumption
<1>ty. RecordTypes /\ ManagersKept BY DEF RecordInv
<1> DEFINE id == FirstFree(k)
<1>2. /\ k' = register_full(k, h, p) /\ pc[m] = "spawn"
      /\ tcb' = [Recycled(id) EXCEPT !.stack[id] = loc[m].stack]
      /\ pc' = [pc EXCEPT ![m] = "run", ![id] = "run"]
      /\ loc' = [loc EXCEPT ![m] = NoLocals]
  BY DEF Register, At
<1>3. k.used # Tasks BY DEF FreeSlots
<1>4. id \in Tasks \ k.used /\ Registers(k', k.used \cup {id})
  BY <1>ty, <1>2, <1>3, RegisterAdds DEF RecordTypes
<1> HIDE DEF id
<1>5. k'.used = k.used \cup {id} BY <1>4 DEF Registers
<1>6. /\ Filed(tcb') /\ tcb'.gen = [tcb.gen EXCEPT ![id] = tcb.gen[id] + 1]
      /\ tcb'.exited = tcb.exited \ {id} /\ tcb'.sized = tcb.sized \cup {id}
      /\ tcb'.result = tcb.result
  BY <1>ty, <1>2, <1>4 DEF RecordTypes, Filed, Recycled
<1>7. id \notin Managers BY <1>ty, <1>4 DEF ManagersKept
<1>8. /\ \A t \in Tasks \ {m, id} : pc'[t] = pc[t]
      /\ pc'[m] = "run" /\ pc'[id] = "run"
      /\ \A u \in Managers \ {m} : loc'[u] = loc[u]
  BY <1>ty, <1>1, <1>2, <1>4 DEF RecordTypes, Called
<1>9. RecordTypes'
  <2>1. pc' \in [Tasks -> PcLabels \cup LifeLabels] BY <1>ty, <1>2 DEF RecordTypes, PcLabels
  <2>2. Called(loc', tcb')
    <3>1. \A t \in Tasks : tcb.gen[t] \in Nat /\ tcb.gen[t] <= tcb'.gen[t]
      BY <1>ty, <1>6 DEF RecordTypes, Filed
    <3>2. \A t \in Tasks : tcb'.gen[t] \in Nat BY <1>6 DEF Filed
    <3>3. DOMAIN loc' = Managers /\ loc'[m] = NoLocals BY <1>ty, <1>2 DEF RecordTypes, Called
    <3>4. /\ "h" \in DOMAIN NoLocals /\ NoLocals.h \in [id : Tasks, gen : Nat]
          /\ NoLocals.h.gen <= tcb'.gen[NoLocals.h.id]
      BY <3>2 DEF NoLocals, IDLE, Tasks
    <3>5. ASSUME NEW u \in Managers, u # m
          PROVE  /\ "h" \in DOMAIN loc'[u] /\ loc'[u].h \in [id : Tasks, gen : Nat]
                 /\ loc'[u].h.gen <= tcb'.gen[loc'[u].h.id]
      <4>1. loc'[u] = loc[u] BY <1>8, <3>5
      <4>2. /\ "h" \in DOMAIN loc[u] /\ loc[u].h \in [id : Tasks, gen : Nat]
            /\ loc[u].h.gen <= tcb.gen[loc[u].h.id]
        BY <1>ty DEF RecordTypes, Called
      <4>3. loc[u].h.id \in Tasks /\ loc[u].h.gen \in Nat BY <4>2
      <4> QED BY <3>1, <3>2, <4>1, <4>2, <4>3
    <3> QED BY <3>3, <3>4, <3>5 DEF Called
  <2> QED BY <1>ty, <1>4, <1>5, <1>6, <2>1, <2>2 DEF RecordTypes
<1>10. ManagersKept' BY <1>ty, <1>1, <1>5, <1>7, <1>8 DEF ManagersKept, VictimLabels
<1>11. ResultsOwn'
  <2> SUFFICES ASSUME NEW x \in Tasks, Intact(x)'
      PROVE  /\ x \in tcb'.sized
             /\ x \in tcb'.exited \/ pc'[x] = "exit" => tcb'.result[x] = tcb'.gen[x]
    BY DEF ResultsOwn
  <2>1. CASE x = id BY <1>6, <1>8, <2>1
  <2>2. CASE x # id
    <3>1. Intact(x) BY <1>1, <1>2, <1>5, <1>7, <1>8, <2>2 DEF Intact
    <3>2. pc'[x] = "exit" => pc[x] = "exit" BY <1>8, <2>2
    <3>3. tcb'.gen[x] = tcb.gen[x] BY <1>ty, <1>6, <2>2 DEF RecordTypes, Filed
    <3> QED BY <1>6, <3>1, <3>2, <3>3 DEF RecordInv, ResultsOwn
  <2> QED BY <2>1, <2>2
<1>12. ReadersSawExit'
  <2> SUFFICES ASSUME NEW u \in Managers, pc'[u] \in ReadLabels, Undisturbed(loc[u].h)'
      PROVE  loc'[u].h.id \in tcb'.exited
    BY DEF ReadersSawExit
  <2>1. u # m /\ u # id BY <1>7, <1>8 DEF ReadLabels
  <2>2. loc'[u].h = loc[u].h /\ pc[u] \in ReadLabels BY <1>1, <1>8, <2>1
  <2>3. /\ loc[u].h.id \in Tasks /\ loc[u].h.gen \in Nat /\ loc[u].h.gen <= tcb.gen[loc[u].h.id]
    BY <1>ty DEF RecordTypes, Called
  <2>4. tcb'.gen[loc[u].h.id] = loc[u].h.gen /\ loc[u].h.id \in k'.used
    BY <2>2 DEF Undisturbed, Valid
  <2>5. loc[u].h.id # id BY <1>ty, <1>4, <1>6, <2>3, <2>4 DEF RecordTypes, Filed
  <2>6. Valid(loc[u].h) /\ loc[u].h.id \in k.used
    BY <1>ty, <1>5, <1>6, <2>3, <2>4, <2>5 DEF RecordTypes, Filed, Valid
  <2>7. \A w \in Managers : pc[w] = "free" => loc[w].h.id # loc[u].h.id
    BY <1>1, <1>2, <1>7, <1>8, <2>2 DEF Undisturbed
  <2> QED BY <1>6, <2>2, <2>5, <2>6, <2>7 DEF RecordInv, ReadersSawExit, Undisturbed
<1> QED BY <1>9, <1>10, <1>11, <1>12 DEF RecordInv

\* despawn resets a slot, and frees it: its task is not intact from the one on.
LEMMA VictimRecord ==
  ASSUME RecordInv, NEW h \in Harts, NEW m \in Managers, DespawnReset(h, m) \/ DespawnFree(h, m)
  PROVE  RecordInv'
<1>1. Managers \subseteq Tasks BY LifecycleAssumption
<1>ty. RecordTypes /\ ManagersKept BY DEF RecordInv
<1>2. PICK id \in Tasks : id = loc[m].h.id BY <1>ty DEF RecordTypes, Called
<1>3. /\ loc' = loc /\ pc[m] \in {"reset", "free"}
      /\ pc' = [pc EXCEPT ![m] = IF pc[m] = "reset" THEN "free" ELSE "release"]
  BY DEF DespawnReset, DespawnFree, At, Goto, lvars
<1>4. id \notin Managers BY <1>ty, <1>2, <1>3 DEF ManagersKept, VictimLabels
<1>5. /\ Registers(k', IF pc[m] = "reset" THEN k.used ELSE k.used \ {id})
      /\ Filed(tcb') /\ tcb'.gen = tcb.gen /\ tcb'.result = tcb.result
      /\ tcb'.exited \cup {id} = tcb.exited \cup {id}
      /\ tcb'.sized \cup {id} = tcb.sized \cup {id}
  <2>1. CASE DespawnReset(h, m)
    BY <1>ty, <1>2, <2>1 DEF DespawnReset, At, RecordTypes, Registers, Filed
  <2>2. CASE DespawnFree(h, m)
    BY <1>ty, <1>2, <2>2 DEF DespawnFree, At, RecordTypes, Registers, Filed, lvars
  <2> QED BY <2>1, <2>2
<1>6. ~Intact(id)'
  <2>1. CASE pc[m] = "reset"
    <3>1. pc'[m] = "free" /\ loc'[m].h.id = id BY <1>ty, <1>1, <1>2, <1>3, <2>1 DEF RecordTypes
    <3> QED BY <3>1 DEF Intact
  <2>2. CASE pc[m] = "free" BY <1>5, <2>2 DEF Intact, Registers
  <2> QED BY <1>3, <2>1, <2>2
<1>7. \A t \in Tasks \ {m} : pc'[t] = pc[t] BY <1>ty, <1>3 DEF RecordTypes
<1>8. pc'[m] \in {"free", "release"} BY <1>ty, <1>1, <1>3 DEF RecordTypes
<1>9. k'.used \subseteq k.used /\ \A x \in k.used \ {id} : x \in k'.used BY <1>5 DEF Registers
<1>10. \A x \in Tasks : Intact(x)' => Intact(x) /\ x # id
  <2> SUFFICES ASSUME NEW x \in Tasks, Intact(x)' PROVE Intact(x) /\ x # id OBVIOUS
  <2>1. x # id BY <1>6
  <2>2. ASSUME NEW u \in Managers, pc[u] = "free" PROVE loc[u].h.id # x
    <3>1. CASE u = m BY <1>2, <2>1, <3>1
    <3>2. CASE u # m BY <1>1, <1>3, <1>7, <2>2, <3>2 DEF Intact
    <3> QED BY <3>1, <3>2
  <2> QED BY <1>9, <2>1, <2>2 DEF Intact
<1>11. RecordTypes'
  <2>1. pc' \in [Tasks -> PcLabels \cup LifeLabels] BY <1>ty, <1>3 DEF RecordTypes, LifeLabels
  <2>2. Called(loc', tcb') BY <1>ty, <1>3, <1>5 DEF RecordTypes, Called
  <2>3. Registers(k', k'.used) BY <1>5 DEF Registers
  <2> QED BY <1>ty, <1>5, <1>9, <2>1, <2>2, <2>3 DEF RecordTypes
<1>12. ManagersKept' BY <1>ty, <1>1, <1>3, <1>2, <1>4, <1>7, <1>8, <1>9 DEF ManagersKept
<1>13. ResultsOwn'
  <2> SUFFICES ASSUME NEW x \in Tasks, Intact(x)'
      PROVE  /\ x \in tcb'.sized
             /\ x \in tcb'.exited \/ pc'[x] = "exit" => tcb'.result[x] = tcb'.gen[x]
    BY DEF ResultsOwn
  <2>1. Intact(x) /\ x # id BY <1>10
  <2>2. pc'[x] = "exit" => pc[x] = "exit" BY <1>7, <1>8
  <2> QED BY <1>5, <2>1, <2>2 DEF RecordInv, ResultsOwn
<1>14. ReadersSawExit'
  <2> SUFFICES ASSUME NEW u \in Managers, pc'[u] \in ReadLabels, Undisturbed(loc[u].h)'
      PROVE  loc'[u].h.id \in tcb'.exited
    BY DEF ReadersSawExit
  <2>1. pc[u] \in ReadLabels /\ loc'[u].h = loc[u].h BY <1>1, <1>3, <1>7, <1>8 DEF ReadLabels
  <2>2. PICK x \in Tasks : x = loc[u].h.id BY <1>ty DEF RecordTypes, Called
  <2>3. Intact(x)' BY <2>1, <2>2 DEF Undisturbed, Intact
  <2>4. Intact(x) /\ x # id BY <1>10, <2>3
  <2>5. Valid(loc[u].h) BY <1>5, <2>1 DEF Undisturbed, Valid
  <2>6. x \in tcb.exited
    BY <2>1, <2>2, <2>4, <2>5 DEF RecordInv, ReadersSawExit, Undisturbed, Intact
  <2> QED BY <1>5, <2>1, <2>2, <2>4, <2>6
<1> QED BY <1>11, <1>12, <1>13, <1>14 DEF RecordInv

\* A task stores its result, then publishes its exit; then it only blocks.
LEMMA ExitRecord ==
  ASSUME RecordInv, NEW h \in Harts, NEW t \in Tasks, ExitStep(h, t)
  PROVE  RecordInv'
<1>1. Managers \subseteq Tasks BY LifecycleAssumption
<1>ty. RecordTypes /\ ManagersKept BY DEF RecordInv
<1>2. loc' = loc BY DEF ExitStep, Exit, ExitPublish, ExitState, ExitQueue, ExitResched, lvars
<1>3. PICK l \in {"exit", "exit_state", "exit_queue", "exit_resched"} :
        /\ pc' = [pc EXCEPT ![t] = l] /\ (l = "exit" <=> Exit(h, t))
        /\ pc[t] \in {"run", "exit", "exit_state", "exit_queue", "exit_resched"}
  BY DEF ExitStep, Exit, ExitPublish, ExitState, ExitQueue, ExitResched, At, Goto
<1>4. Registers(k', k.used)
  <2>1. Registers(k, k.used) BY <1>ty DEF RecordTypes
  <2>2. CASE Exit(h, t) BY <2>1, <2>2 DEF Exit, Quiet
  <2>3. CASE ExitPublish(h, t) BY <2>1, <2>3, UnblockKeeps DEF ExitPublish
  <2>4. CASE ExitState(h, t) BY <2>1, <2>4 DEF ExitState, Registers
  <2>5. CASE ExitQueue(h, t) BY <2>1, <2>5, ReadyKeeps DEF ExitQueue
  <2>6. CASE ExitResched(h, t)
    BY <2>1, <2>6 DEF ExitResched, RequestReschedule, Registers
  <2> QED BY <2>2, <2>3, <2>4, <2>5, <2>6 DEF ExitStep
<1>5. k'.used = k.used BY <1>4 DEF Registers
<1>6. /\ Filed(tcb') /\ tcb'.gen = tcb.gen /\ tcb'.sized = tcb.sized
      /\ tcb'.exited = (IF ExitPublish(h, t) THEN tcb.exited \cup {t} ELSE tcb.exited)
      /\ tcb'.result = (IF Exit(h, t) /\ t \in tcb.sized
                        THEN [tcb.result EXCEPT ![t] = tcb.gen[t]] ELSE tcb.result)
  <2>1. Filed(tcb) BY <1>ty DEF RecordTypes
  <2>2. CASE Exit(h, t)
    <3>1. ~ExitPublish(h, t) BY <2>2 DEF Exit, ExitPublish, At
    <3>2. tcb' = [tcb EXCEPT !.result[t] = IF t \in tcb.sized THEN tcb.gen[t] ELSE tcb.result[t]]
      BY <2>2 DEF Exit
    <3> QED BY <2>1, <2>2, <3>1, <3>2 DEF Filed
  <2>3. CASE ExitPublish(h, t)
    <3>1. ~Exit(h, t) BY <2>3 DEF Exit, ExitPublish, At
    <3> QED BY <2>1, <2>3, <3>1 DEF ExitPublish, Filed
  <2>4. CASE ~Exit(h, t) /\ ~ExitPublish(h, t)
    <3>1. tcb' = tcb BY <2>4 DEF ExitStep, ExitState, ExitQueue, ExitResched, lvars
    <3> QED BY <2>1, <2>4, <3>1
  <2> QED BY <2>2, <2>3, <2>4
<1>7. \A x \in Tasks : IF x = t THEN pc'[x] = l ELSE pc'[x] = pc[x]
  BY <1>ty, <1>3 DEF RecordTypes
<1>8. \A x \in Tasks : pc[x] = "free" <=> pc'[x] = "free" BY <1>3, <1>7
<1>9. \A x \in Tasks : Intact(x)' <=> Intact(x) BY <1>1, <1>2, <1>5, <1>8 DEF Intact
<1>10. RecordTypes'
  <2>1. pc' \in [Tasks -> PcLabels \cup LifeLabels] BY <1>ty, <1>3 DEF RecordTypes, LifeLabels
  <2>2. Called(loc', tcb') BY <1>ty, <1>2, <1>6 DEF RecordTypes, Called
  <2> QED BY <1>ty, <1>4, <1>5, <1>6, <2>1, <2>2 DEF RecordTypes
<1>11. ManagersKept'
  BY <1>ty, <1>1, <1>2, <1>3, <1>5, <1>7 DEF ManagersKept, VictimLabels
<1>12. ResultsOwn'
  <2> SUFFICES ASSUME NEW x \in Tasks, Intact(x)'
      PROVE  /\ x \in tcb'.sized
             /\ x \in tcb'.exited \/ pc'[x] = "exit" => tcb'.result[x] = tcb'.gen[x]
    BY DEF ResultsOwn
  <2>1. /\ x \in tcb.sized
        /\ x \in tcb.exited \/ pc[x] = "exit" => tcb.result[x] = tcb.gen[x]
    BY <1>9 DEF RecordInv, ResultsOwn
  <2>2. CASE x # t BY <1>6, <1>7, <2>1, <2>2
  <2>3. CASE x = t /\ Exit(h, t)
    <3>1. tcb'.result[x] = tcb.gen[x] BY <1>ty, <1>6, <2>1, <2>3 DEF RecordTypes, Filed
    <3> QED BY <1>6, <2>1, <3>1
  <2>4. CASE x = t /\ ~Exit(h, t)
    <3>1. pc'[x] # "exit" BY <1>3, <1>7, <2>4
    <3>2. ExitPublish(h, t) => pc[x] = "exit" BY <2>4 DEF ExitPublish, At
    <3> QED BY <1>6, <2>1, <2>4, <3>1, <3>2
  <2> QED BY <2>2, <2>3, <2>4
<1>13. ReadersSawExit'
  <2> SUFFICES ASSUME NEW u \in Managers, pc'[u] \in ReadLabels, Undisturbed(loc[u].h)'
      PROVE  loc'[u].h.id \in tcb'.exited
    BY DEF ReadersSawExit
  <2>1. pc[u] \in ReadLabels BY <1>1, <1>3, <1>7 DEF ReadLabels
  <2>2. Undisturbed(loc[u].h)
    BY <1>1, <1>2, <1>5, <1>6, <1>8 DEF Undisturbed, Valid
  <2> QED BY <1>2, <1>6, <2>1, <2>2 DEF RecordInv, ReadersSawExit
<1> QED BY <1>10, <1>11, <1>12, <1>13 DEF RecordInv

LEMMA NextRecord ==
  ASSUME SpawnPrios = {}, RecordInv, [LifeNext]_<<vars, lvars>>
  PROVE  RecordInv'
<1>1. CASE UNCHANGED <<vars, lvars>>
  <2>1. k' = k /\ pc' = pc /\ tcb' = tcb /\ loc' = loc BY <1>1 DEF vars, lvars
  <2> QED BY <2>1 DEF RecordInv, RecordTypes, ManagersKept, ResultsOwn, Intact, ReadersSawExit,
                      Undisturbed, Valid
<1>2. CASE Next /\ UNCHANGED lvars BY <1>2, TierRecord
<1>3. ASSUME NEW h \in Harts, NEW m \in Managers, ManagerStep(h, m) PROVE RecordInv'
  <2>1. CASE CallStep(h, m) BY <2>1, CallRecord
  <2>2. CASE ~CallStep(h, m)
    BY <1>3, <2>2, RegisterRecord, VictimRecord DEF ManagerStep, CallStep
  <2> QED BY <2>1, <2>2
<1>4. ASSUME NEW h \in Harts, NEW t \in Tasks, ExitStep(h, t) PROVE RecordInv'
  BY <1>4, ExitRecord
<1> QED BY <1>1, <1>2, <1>3, <1>4 DEF LifeNext

\* A join that returns a value returns the value of the task it was called for,
\* unless that task has been despawned meanwhile, whoever spawns, despawns and
\* joins, on however many harts.
THEOREM JoinsReadTheirOwnResult ==
  ASSUME SpawnPrios = {}, \A u \in Managers : BootUsed(u)
  PROVE  LifeSpec => []JoinGetsOwnResult
<1>1. LifeInit => RecordInv BY InitRecord
<1>2. RecordInv /\ [LifeNext]_<<vars, lvars>> => RecordInv' BY NextRecord
<1>3. RecordInv => JoinGetsOwnResult
  <2> SUFFICES ASSUME RecordInv, NEW m \in Managers, pc[m] = "join_read", Undisturbed(loc[m].h)
      PROVE  loc[m].h.id \in tcb.sized /\ tcb.result[loc[m].h.id] = loc[m].h.gen
    BY DEF JoinGetsOwnResult
  <2>1. loc[m].h.id \in Tasks BY DEF RecordInv, RecordTypes, Called
  <2>2. Intact(loc[m].h.id) BY DEF Undisturbed, Intact
  <2>3. loc[m].h.id \in tcb.exited BY DEF RecordInv, ReadersSawExit, ReadLabels
  <2>4. tcb.gen[loc[m].h.id] = loc[m].h.gen BY DEF Undisturbed, Valid
  <2> QED BY <2>1, <2>2, <2>3, <2>4 DEF RecordInv, ResultsOwn
<1> QED BY <1>1, <1>2, <1>3, PTL DEF LifeSpec

-----------------------------------------------------------------------------
(* Mutexes.  HoldersExclude is not inductive: between the CAS and          *)
(* push_held a task has the mutex and is in no held list, and the owner    *)
(* word is written by a store of its own.  The invariant therefore speaks  *)
(* of the tasks in the middle of an acquire too: what such a task is about *)
(* belongs to nobody else.  It needs nothing of the scheduler, not even    *)
(* that a task runs on one hart only: every step is one access.            *)

\* The labels after a successful CAS of try_acquire_guarded and before its end.
AcquireLabels == {"store_owner", "push_held", "undo_owner", "undo_lock"}

Acquiring(t) == pc[t] \in AcquireLabels

\* Before the first lock_timeout a task's `want' is an arbitrary value.
Wanted == Mutexes \cup {CHOOSE x \in Mutexes : TRUE}

MutexTypes ==
  /\ pc \in [Tasks -> PcLabels \cup MutexLabels]
  /\ locked \subseteq Mutexes
  /\ owner \in [Mutexes -> Tasks \cup {NO_TASK}]
  /\ held \in [Tasks -> SUBSET Mutexes]
  /\ want \in [Tasks -> Wanted]

\* Inside lock_timeout and try_lock, want[t] is the mutex of the call.
WantIsMutex ==
  \A t \in Tasks : pc[t] \in MutexLabels \ {"unlocked"} => want[t] \in Mutexes

\* A task in the middle of an acquire has the lock bit to itself.
AcquirersExclude ==
  \A t \in Tasks : Acquiring(t) =>
    /\ want[t] \in locked
    /\ \A u \in Tasks : want[t] \notin held[u]
    /\ \A u \in Tasks \ {t} : Acquiring(u) => want[u] # want[t]

\* From its store until it undoes it, the owner word names the acquirer.
OwnerStored ==
  \A t \in Tasks : pc[t] \in {"push_held", "undo_owner"} => owner[want[t]] = t

MutexInv == MutexTypes /\ WantIsMutex /\ AcquirersExclude /\ OwnerStored /\ HoldersExclude

-----------------------------------------------------------------------------
LEMMA InitMutexInv == MutexInit => MutexInv
<1>. SUFFICES ASSUME MutexInit PROVE MutexInv
  OBVIOUS
<1>1. /\ pc = [t \in Tasks |-> "run"] /\ locked = {}
      /\ owner = [x \in Mutexes |-> NO_TASK] /\ held = [t \in Tasks |-> {}]
      /\ want = [t \in Tasks |-> CHOOSE x \in Mutexes : TRUE]
  BY DEF MutexInit, Init
<1>2. MutexTypes
  BY <1>1 DEF MutexTypes, Wanted, PcLabels
<1>3. WantIsMutex /\ AcquirersExclude /\ OwnerStored
  BY <1>1 DEF WantIsMutex, AcquirersExclude, OwnerStored, Acquiring, AcquireLabels,
              MutexLabels
<1>4. HoldersExclude
  BY <1>1 DEF HoldersExclude
<1>. QED
  BY <1>2, <1>3, <1>4 DEF MutexInv

\* What the preemptive tier does to a task's pc: it moves between labels that
\* are not the mutex's.
LEMMA TaskStepPc ==
  ASSUME NEW h \in Harts, NEW t \in Tasks, TaskStep(h, t)
  PROVE  pc[t] \in PcLabels /\ \E l \in PcLabels : pc' = [pc EXCEPT ![t] = l] \/ pc' = pc
BY DEF TaskStep, SleepBegin, SleepResched, SleepEnd, YieldNow, ParkState, ParkQueue,
       ParkLoop, Pause, Resume, Spawn, At, PcLabels

\* A step that changes no mutex state, and no pc inside a lock call.
LEMMA OutsideKeeps ==
  ASSUME MutexInv, UNCHANGED mutexvars, NEW t \in Tasks, pc[t] \in PcLabels,
         NEW l \in PcLabels, pc' = [pc EXCEPT ![t] = l] \/ pc' = pc
  PROVE  MutexInv'
<1>1. /\ UNCHANGED <<locked, owner, held, want>>
      /\ pc' \in [Tasks -> PcLabels \cup MutexLabels]
      /\ \A u \in Tasks : pc'[u] \in MutexLabels => pc[u] = pc'[u]
  BY DEF MutexInv, MutexTypes, mutexvars, PcLabels, MutexLabels
<1>2. MutexTypes' /\ HoldersExclude'
  BY <1>1 DEF MutexInv, MutexTypes, HoldersExclude
<1>3. WantIsMutex'
  BY <1>1 DEF MutexInv, WantIsMutex
<1>4. AcquirersExclude' /\ OwnerStored'
  BY <1>1 DEF MutexInv, AcquirersExclude, OwnerStored, Acquiring, AcquireLabels, MutexLabels
<1>. QED
  BY <1>2, <1>3, <1>4 DEF MutexInv

\* A step that changes no pc and nothing of who has what.
LEMMA IdleKeeps ==
  ASSUME MutexInv, UNCHANGED <<pc, locked, owner, held, want>>
  PROVE  MutexInv'
BY DEF MutexInv, MutexTypes, WantIsMutex, AcquirersExclude, OwnerStored, HoldersExclude,
       Acquiring

\* A step of one task between labels that hold no half-made acquire.
LEMMA LabelKeeps ==
  ASSUME MutexInv, UNCHANGED <<locked, owner, held, want>>, NEW t \in Tasks,
         ~Acquiring(t), NEW l \in (PcLabels \cup MutexLabels) \ AcquireLabels,
         pc' = [pc EXCEPT ![t] = l],
         l \in MutexLabels \ {"unlocked"} => want[t] \in Mutexes
  PROVE  MutexInv'
<1>1. pc \in [Tasks -> PcLabels \cup MutexLabels]
  BY DEF MutexInv, MutexTypes
<1>2. /\ pc'[t] = l /\ \A u \in Tasks \ {t} : pc'[u] = pc[u]
      /\ pc' \in [Tasks -> PcLabels \cup MutexLabels]
  BY <1>1
<1>3. MutexTypes' /\ HoldersExclude'
  BY <1>2 DEF MutexInv, MutexTypes, HoldersExclude
<1>4. WantIsMutex'
  BY <1>2 DEF MutexInv, WantIsMutex
<1>5. AcquirersExclude' /\ OwnerStored'
  BY <1>2 DEF MutexInv, AcquirersExclude, OwnerStored, Acquiring, AcquireLabels
<1>. QED
  BY <1>3, <1>4, <1>5 DEF MutexInv

-----------------------------------------------------------------------------
\* Every step of a task in lock_timeout, try_lock or the drop of a guard.
LEMMA TaskStepMutexInv ==
  ASSUME MutexInv, NEW h \in Harts, NEW t \in Tasks, MutexTaskStep(h, t)
  PROVE  MutexInv'
<1>. /\ pc \in [Tasks -> PcLabels \cup MutexLabels]
     /\ owner \in [Mutexes -> Tasks \cup {NO_TASK}]
     /\ held \in [Tasks -> SUBSET Mutexes] /\ want \in [Tasks -> Wanted]
     /\ locked \subseteq Mutexes
  BY DEF MutexInv, MutexTypes
<1>. NO_TASK \notin Tasks
  BY SchedAssumption DEF NO_TASK, Tasks
<1>lock. ASSUME NEW x \in Mutexes, Lock(h, t, x) PROVE MutexInv'
  <2>1. /\ UNCHANGED <<locked, owner, held>> /\ pc[t] = "run"
        /\ want' = [want EXCEPT ![t] = x] /\ pc' = [pc EXCEPT ![t] = "fast"]
    BY <1>lock DEF Lock, At
  <2>2. MutexTypes' /\ HoldersExclude'
    BY <2>1 DEF MutexInv, MutexTypes, HoldersExclude, Wanted, MutexLabels
  <2>3. WantIsMutex'
    BY <2>1 DEF MutexInv, WantIsMutex
  <2>4. AcquirersExclude' /\ OwnerStored'
    BY <2>1 DEF MutexInv, AcquirersExclude, OwnerStored, Acquiring, AcquireLabels
  <2>. QED
    BY <2>2, <2>3, <2>4 DEF MutexInv
<1>unlock. ASSUME NEW x \in Mutexes, Unlock(h, t, x) PROVE MutexInv'
  <2>1. /\ pc[t] = "run" /\ x \in held[t] /\ UNCHANGED want
        /\ owner' = [owner EXCEPT ![x] = NO_TASK] /\ locked' = locked \ {x}
        /\ held' = [held EXCEPT ![t] = held[t] \ {x}]
        /\ pc' = [pc EXCEPT ![t] = "unlocked"]
    BY <1>unlock DEF Unlock, At
  <2>2. \A u \in Tasks : Acquiring(u) => want[u] # x
    BY <2>1 DEF MutexInv, AcquirersExclude
  <2>3. MutexTypes'
    BY <2>1 DEF MutexTypes, MutexLabels
  <2>4. HoldersExclude'
    BY <2>1 DEF MutexInv, HoldersExclude
  <2>5. WantIsMutex'
    BY <2>1 DEF MutexInv, WantIsMutex
  <2>6. AcquirersExclude' /\ OwnerStored'
    BY <2>1, <2>2 DEF MutexInv, AcquirersExclude, OwnerStored, Acquiring, AcquireLabels
  <2>. QED
    BY <2>3, <2>4, <2>5, <2>6 DEF MutexInv
<1>fast. CASE Fast(h, t)
  <2>1. pc[t] = "fast" /\ want[t] \in Mutexes /\ UNCHANGED <<owner, held, want>>
    BY <1>fast DEF Fast, At, MutexInv, WantIsMutex, MutexLabels
  <2>2. CASE UNCHANGED locked /\ pc' = [pc EXCEPT ![t] = "run"]
    BY <2>1, <2>2, LabelKeeps DEF Acquiring, AcquireLabels, PcLabels
  <2>3. CASE UNCHANGED locked /\ pc' = [pc EXCEPT ![t] = "slow"]
    BY <2>1, <2>3, LabelKeeps DEF Acquiring, AcquireLabels, MutexLabels
  <2>4. CASE /\ want[t] \notin locked /\ locked' = locked \cup {want[t]}
             /\ pc' = [pc EXCEPT ![t] = "store_owner"]
    <3>1. /\ \A u \in Tasks : want[t] \notin held[u]
          /\ \A u \in Tasks : Acquiring(u) => want[u] # want[t]
      BY <2>4 DEF MutexInv, HoldersExclude, AcquirersExclude
    <3>2. MutexTypes' /\ HoldersExclude'
      BY <2>1, <2>4 DEF MutexInv, MutexTypes, HoldersExclude, MutexLabels
    <3>3. WantIsMutex'
      BY <2>1, <2>4 DEF MutexInv, WantIsMutex
    <3>4. AcquirersExclude' /\ OwnerStored'
      BY <2>1, <2>4, <3>1
         DEF MutexInv, AcquirersExclude, OwnerStored, Acquiring, AcquireLabels
    <3>. QED
      BY <3>2, <3>3, <3>4 DEF MutexInv
  <2>. QED
    BY <1>fast, <2>2, <2>3, <2>4 DEF Fast, Failed
<1>store. CASE StoreOwner(h, t)
  <2>1. /\ pc[t] = "store_owner" /\ want[t] \in Mutexes
        /\ UNCHANGED <<locked, held, want>>
        /\ owner' = [owner EXCEPT ![want[t]] = t] /\ pc' = [pc EXCEPT ![t] = "push_held"]
    BY <1>store DEF StoreOwner, At, MutexInv, WantIsMutex, MutexLabels
  <2>2. /\ \A u \in Tasks : want[t] \notin held[u]
        /\ \A u \in Tasks \ {t} : Acquiring(u) => want[u] # want[t]
    BY <2>1 DEF MutexInv, AcquirersExclude, Acquiring, AcquireLabels
  <2>3. MutexTypes' /\ HoldersExclude'
    BY <2>1, <2>2 DEF MutexInv, MutexTypes, HoldersExclude, MutexLabels
  <2>4. WantIsMutex'
    BY <2>1 DEF MutexInv, WantIsMutex
  <2>5. AcquirersExclude'
    BY <2>1 DEF MutexInv, AcquirersExclude, Acquiring, AcquireLabels
  <2>6. OwnerStored'
    BY <2>1, <2>2 DEF MutexInv, OwnerStored, Acquiring, AcquireLabels, WantIsMutex, MutexLabels
  <2>. QED
    BY <2>3, <2>4, <2>5, <2>6 DEF MutexInv
<1>push. CASE PushHeld(h, t)
  <2>1. /\ pc[t] = "push_held" /\ want[t] \in Mutexes
        /\ UNCHANGED <<locked, owner, want>> /\ owner[want[t]] = t
        /\ want[t] \in locked
        /\ \A u \in Tasks : want[t] \notin held[u]
        /\ \A u \in Tasks \ {t} : Acquiring(u) => want[u] # want[t]
    BY <1>push DEF PushHeld, At, MutexInv, WantIsMutex, OwnerStored, AcquirersExclude,
                   Acquiring, AcquireLabels, MutexLabels
  <2>2. CASE /\ held' = [held EXCEPT ![t] = held[t] \cup {want[t]}]
             /\ pc' = [pc EXCEPT ![t] = "run"]
    <3>1. MutexTypes'
      BY <2>1, <2>2 DEF MutexTypes, PcLabels
    <3>2. HoldersExclude'
      BY <2>1, <2>2 DEF MutexInv, HoldersExclude
    <3>3. WantIsMutex'
      BY <2>1, <2>2 DEF MutexInv, WantIsMutex, MutexLabels
    <3>4. AcquirersExclude' /\ OwnerStored'
      BY <2>1, <2>2 DEF MutexInv, AcquirersExclude, OwnerStored, Acquiring, AcquireLabels
    <3>. QED
      BY <3>1, <3>2, <3>3, <3>4 DEF MutexInv
  <2>3. CASE UNCHANGED held /\ pc' = [pc EXCEPT ![t] = "undo_owner"]
    <3>1. MutexTypes' /\ HoldersExclude' /\ WantIsMutex'
      BY <2>1, <2>3 DEF MutexInv, MutexTypes, HoldersExclude, WantIsMutex, MutexLabels
    <3>2. AcquirersExclude' /\ OwnerStored'
      BY <2>1, <2>3 DEF MutexInv, AcquirersExclude, OwnerStored, Acquiring, AcquireLabels
    <3>. QED
      BY <3>1, <3>2 DEF MutexInv
  <2>. QED
    BY <1>push, <2>2, <2>3 DEF PushHeld
<1>undoowner. CASE UndoOwner(h, t)
  <2>1. /\ pc[t] = "undo_owner" /\ want[t] \in Mutexes
        /\ UNCHANGED <<locked, held, want>>
        /\ owner' = [owner EXCEPT ![want[t]] = NO_TASK]
        /\ pc' = [pc EXCEPT ![t] = "undo_lock"]
        /\ \A u \in Tasks : want[t] \notin held[u]
        /\ \A u \in Tasks \ {t} : Acquiring(u) => want[u] # want[t]
    BY <1>undoowner DEF UndoOwner, At, MutexInv, WantIsMutex, AcquirersExclude,
                        Acquiring, AcquireLabels, MutexLabels
  <2>2. MutexTypes' /\ HoldersExclude' /\ WantIsMutex'
    BY <2>1 DEF MutexInv, MutexTypes, HoldersExclude, WantIsMutex, MutexLabels
  <2>3. AcquirersExclude'
    BY <2>1 DEF MutexInv, AcquirersExclude, Acquiring, AcquireLabels
  <2>4. OwnerStored'
    BY <2>1 DEF MutexInv, OwnerStored, Acquiring, AcquireLabels, WantIsMutex, MutexLabels
  <2>. QED
    BY <2>2, <2>3, <2>4 DEF MutexInv
<1>undolock. CASE UndoLock(h, t)
  <2>1. PICK l \in {"run", "slow"} :
          /\ pc[t] = "undo_lock" /\ want[t] \in Mutexes
          /\ UNCHANGED <<owner, held, want>>
          /\ locked' = locked \ {want[t]} /\ pc' = [pc EXCEPT ![t] = l]
          /\ \A u \in Tasks : want[t] \notin held[u]
          /\ \A u \in Tasks \ {t} : Acquiring(u) => want[u] # want[t]
    BY <1>undolock DEF UndoLock, At, MutexInv, WantIsMutex, AcquirersExclude,
                       Acquiring, AcquireLabels, MutexLabels, Failed
  <2>2. MutexTypes' /\ HoldersExclude' /\ WantIsMutex'
    BY <2>1 DEF MutexInv, MutexTypes, HoldersExclude, WantIsMutex, MutexLabels, PcLabels
  <2>3. AcquirersExclude' /\ OwnerStored'
    BY <2>1 DEF MutexInv, AcquirersExclude, OwnerStored, Acquiring, AcquireLabels
  <2>. QED
    BY <2>2, <2>3 DEF MutexInv
<1>slow. CASE Slow(h, t)
  <2>1. /\ UNCHANGED <<locked, owner, held, want>> /\ ~Acquiring(t)
        /\ want[t] \in Mutexes
        /\ pc' = [pc EXCEPT ![t] = "run"] \/ pc' = [pc EXCEPT ![t] = "block"]
    BY <1>slow DEF Slow, At, Acquiring, AcquireLabels, MutexInv, WantIsMutex, MutexLabels
  <2>. QED
    BY <2>1, LabelKeeps DEF AcquireLabels, PcLabels, MutexLabels
<1>block. CASE Block(h, t)
  <2>1. pc[t] = "block" /\ want[t] \in Mutexes /\ UNCHANGED want
    BY <1>block DEF Block, At, MutexInv, WantIsMutex, MutexLabels
  <2>2. CASE UNCHANGED <<locked, owner, held>> /\ pc' = [pc EXCEPT ![t] = "yield"]
    BY <2>1, <2>2, LabelKeeps DEF Acquiring, AcquireLabels, MutexLabels
  <2>3. CASE /\ want[t] \notin locked /\ locked' = locked \cup {want[t]}
             /\ owner' = [owner EXCEPT ![want[t]] = t]
             /\ held' = [held EXCEPT ![t] = held[t] \cup {want[t]}]
             /\ pc' = [pc EXCEPT ![t] = "run"]
    <3>1. /\ \A u \in Tasks : want[t] \notin held[u]
          /\ \A u \in Tasks : Acquiring(u) => want[u] # want[t]
      BY <2>3 DEF MutexInv, HoldersExclude, AcquirersExclude
    <3>2. MutexTypes'
      BY <2>1, <2>3 DEF MutexTypes, PcLabels
    <3>3. HoldersExclude'
      BY <2>1, <2>3, <3>1 DEF MutexInv, HoldersExclude
    <3>4. WantIsMutex'
      BY <2>1, <2>3 DEF MutexInv, WantIsMutex, MutexLabels
    <3>5. AcquirersExclude'
      BY <2>1, <2>3, <3>1 DEF MutexInv, AcquirersExclude, Acquiring, AcquireLabels
    <3>6. OwnerStored'
      BY <2>1, <2>3, <3>1
         DEF MutexInv, OwnerStored, Acquiring, AcquireLabels, WantIsMutex, MutexLabels
    <3>. QED
      BY <3>2, <3>3, <3>4, <3>5, <3>6 DEF MutexInv
  <2>. QED
    BY <1>block, <2>2, <2>3 DEF Block
<1>yield. CASE Yield(h, t)
  <2>1. /\ UNCHANGED <<locked, owner, held, want>> /\ ~Acquiring(t)
        /\ \/ pc' = [pc EXCEPT ![t] = "fast"] /\ want[t] \in Mutexes
           \/ pc' = [pc EXCEPT ![t] = "run"]
    BY <1>yield DEF Yield, At, Acquiring, AcquireLabels, MutexInv, WantIsMutex, MutexLabels,
                    mutexvars
  <2>. QED
    BY <2>1, LabelKeeps DEF AcquireLabels, PcLabels, MutexLabels
<1>. QED
  BY <1>lock, <1>unlock, <1>fast, <1>store, <1>push, <1>undoowner, <1>undolock,
     <1>slow, <1>block, <1>yield DEF MutexTaskStep

LEMMA NextMutexInv == MutexInv /\ [MutexNext]_allvars => MutexInv'
<1>. SUFFICES ASSUME MutexInv, [MutexNext]_allvars PROVE MutexInv'
  OBVIOUS
<1>1. CASE UNCHANGED allvars
  BY <1>1, IdleKeeps DEF allvars, vars, mutexvars
<1>2. CASE Run /\ UNCHANGED mutexvars
  BY <1>2, IdleKeeps DEF Run, mutexvars
<1>3. ASSUME NEW h \in Harts,
             (Start(h) \/ SoftIrq(h) \/ OnTick(h)) /\ UNCHANGED mutexvars
      PROVE  MutexInv'
  BY <1>3, IdleKeeps DEF Start, SoftIrq, OnTick, mutexvars
<1>4. ASSUME NEW h \in Harts, MutexTick(h) \/ MutexFault(h) PROVE MutexInv'
  BY <1>4, IdleKeeps DEF MutexTick, MutexFault, Tick
<1>5. ASSUME NEW h \in Harts, NEW t \in Tasks, MutexTaskStep(h, t) PROVE MutexInv'
  BY <1>5, TaskStepMutexInv
<1>6. ASSUME NEW h \in Harts, NEW t \in Tasks, TaskStep(h, t), UNCHANGED mutexvars
      PROVE  MutexInv'
  BY <1>6, TaskStepPc, OutsideKeeps
<1>. QED
  BY <1>1, <1>2, <1>3, <1>4, <1>5, <1>6 DEF MutexNext

\* The inductive invariant holds throughout.
THEOREM MutexInvariance == MutexSpec => []MutexInv
BY InitMutexInv, NextMutexInv, PTL DEF MutexSpec

\* No two tasks ever hold one mutex (preempt/mutex.rs's guards), and a mutex
\* in a held list is locked with the holder in its owner word, for any number
\* of harts, tasks and mutexes, through timeouts, faults and rolled-back
\* acquires.
THEOREM MutexesExclude == MutexSpec => []HoldersExclude
<1>1. MutexInv => HoldersExclude
  BY DEF MutexInv
<1>. QED
  BY <1>1, MutexInvariance, PTL

=============================================================================
