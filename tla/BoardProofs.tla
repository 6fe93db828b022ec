----------------------------- MODULE BoardProofs -----------------------------
(***************************************************************************)
(* The clocks and the console of a board, for any width of the registers,  *)
(* any tick period and any size of the rings.                              *)
(*                                                                         *)
(* Clocks: what a reader has read so far are words of the time at moments  *)
(* of its call, in order (Sampled); the counters that software widens      *)
(* (Widened) and the compare registers while they are rewritten (Rearmed)  *)
(* are tied to the time.                                                   *)
(*                                                                         *)
(* Console: who pops a byte does so alone (ConTurns), the ring, the hand   *)
(* and the wire have the bytes between them in order (ConBytes), and an    *)
(* interrupt is to come for those that wait (ConWakes).                    *)
(***************************************************************************)
EXTENDS MCDevices, SequenceTheorems, TLAPS

\* What a step of the board is to each of its parts.
LEMMA PartsApart ==
  ASSUME [DevNext]_devices
  PROVE  /\ ConStep \/ UNCHANGED console
         /\ ClStep \/ UNCHANGED clocks
BY DEF DevNext, devices, board

-----------------------------------------------------------------------------
(* Division with remainder.                                                *)

\* A number is the quotient's multiple and the remainder.
LEMMA Divided ==
  ASSUME NEW U \in Nat \ {0}, NEW a \in Nat
  PROVE  a \div U \in Nat /\ a % U \in 0 .. U - 1 /\ a = U * (a \div U) + (a % U)
<1> DEFINE q == a \div U
           r == a % U
<1>1. q \in Nat /\ r \in 0 .. U - 1 /\ a = U * q + r
  OBVIOUS
<1> QED BY <1>1

\* ... and no other's.
LEMMA DividedOnce ==
  ASSUME NEW U \in Nat \ {0}, NEW p \in Int, NEW q \in Int,
         NEW d \in 0 .. U - 1, NEW e \in 0 .. U - 1, U * p + d = U * q + e
  PROVE  p = q /\ d = e
<1>1. U * (p - q) = U * p - U * q
  OBVIOUS
<1>2. U * (p - q) = e - d
  BY <1>1
<1>3. CASE p - q >= 1
  <2>1. U * (p - q) >= U BY <1>3
  <2> QED BY <1>2, <2>1
<1>4. CASE p - q <= -1
  <2>1. U * (p - q) <= -U BY <1>4
  <2> QED BY <1>2, <2>1
<1>5. CASE p = q
  <2>1. U * p = U * q BY <1>5
  <2> QED BY <1>5, <2>1
<1> QED BY <1>3, <1>4, <1>5

LEMMA Remainder ==
  ASSUME NEW U \in Nat \ {0}, NEW q \in Nat, NEW e \in 0 .. U - 1
  PROVE  (U * q + e) % U = e /\ (U * q + e) \div U = q
<1> DEFINE x == U * q + e
<1>1. x \in Nat /\ x = U * q + e OBVIOUS
<1> HIDE DEF x
<1>2. x \div U \in Nat /\ x % U \in 0 .. U - 1 /\ x = U * (x \div U) + (x % U)
  BY <1>1, Divided
<1>3. x \div U = q /\ x % U = e
  BY <1>1, <1>2, DividedOnce
<1> QED BY <1>3 DEF x

\* The quotient grows with the number, ...
LEMMA QuotientGrows ==
  ASSUME NEW U \in Nat \ {0}, NEW a \in Nat, NEW b \in Nat, a <= b
  PROVE  a \div U <= b \div U
<1> DEFINE p == a \div U
           q == b \div U
           d == a % U
           e == b % U
<1>1. /\ p \in Nat /\ d \in 0 .. U - 1 /\ a = U * p + d
      /\ q \in Nat /\ e \in 0 .. U - 1 /\ b = U * q + e
  BY Divided
<1> HIDE DEF p, q, d, e
<1>2. CASE p > q
  <2>1. U * (p - q) >= U /\ U * (p - q) = U * p - U * q BY <1>1, <1>2
  <2> QED BY <1>1, <2>1
<1> QED BY <1>1, <1>2 DEF p, q

\* ... so that a number between two of the same quotient has it too, ...
LEMMA Between ==
  ASSUME NEW U \in Nat \ {0}, NEW a \in Nat, NEW b \in Nat, NEW c \in Nat,
         a <= b, b <= c, a \div U = c \div U
  PROVE  (a \div U) * U + (b % U) = b
<1>1. a \div U <= b \div U /\ b \div U <= c \div U
  BY QuotientGrows
<1>2. a \div U \in Nat /\ b \div U \in Nat /\ c \div U \in Nat /\ b % U \in Nat
      /\ b = U * (b \div U) + (b % U)
  BY Divided
<1>3. a \div U = b \div U BY <1>1, <1>2
<1> QED BY <1>2, <1>3

\* ... and numbers of the same remainder are equal or U apart at least.
LEMMA SameRemainder ==
  ASSUME NEW U \in Nat \ {0}, NEW a \in Nat, NEW b \in Nat,
         a <= b, b < a + U, a % U = b % U
  PROVE  a = b
<1> DEFINE p == a \div U
           q == b \div U
           d == a % U
<1>1. /\ p \in Nat /\ d \in 0 .. U - 1 /\ a = U * p + d
      /\ q \in Nat /\ b = U * q + d
  BY Divided
<1> HIDE DEF p, q, d
<1>2. U * (q - p) = b - a BY <1>1
<1>3. q - p \in Int /\ 0 <= U * (q - p) /\ U * (q - p) < U BY <1>1, <1>2
<1>4. ~(q - p >= 1)
  <2> SUFFICES ASSUME q - p >= 1 PROVE U * (q - p) >= U BY <1>3
  <2> QED BY <1>1
<1>5. ~(q - p <= -1)
  <2> SUFFICES ASSUME q - p <= -1 PROVE U * (q - p) <= -U BY <1>3
  <2> QED BY <1>1
<1> QED BY <1>1, <1>3, <1>4, <1>5

\* Remainders of small numbers and of sums.
LEMMA SmallRemainder ==
  ASSUME NEW U \in Nat \ {0}, NEW a \in 0 .. U - 1 PROVE a % U = a
<1>1. U * 0 + a = a OBVIOUS
<1>2. (U * 0 + a) % U = a BY Remainder
<1> QED BY <1>1, <1>2

LEMMA AddedRemainder ==
  ASSUME NEW U \in Nat \ {0}, NEW a \in Nat, NEW b \in Nat, NEW c \in Nat, a % U = b % U
  PROVE  (a + c) % U = (b + c) % U
<1> DEFINE p == a \div U
           q == b \div U
           d == a % U
           m == (d + c) \div U
           e == (d + c) % U
<1>1. p \in Nat /\ d \in 0 .. U - 1 /\ a = U * p + d BY Divided
<1>2. q \in Nat /\ b = U * q + d BY Divided
<1>3. d + c \in Nat BY <1>1
<1>4. m \in Nat /\ e \in 0 .. U - 1 /\ d + c = U * m + e BY ONLY <1>3, U \in Nat \ {0}, Divided
<1> HIDE DEF p, q, d, m, e
<1>5. U * (p + m) = U * p + U * m /\ U * (q + m) = U * q + U * m BY <1>1, <1>2, <1>4
<1>6. a + c = U * (p + m) + e /\ b + c = U * (q + m) + e BY <1>1, <1>2, <1>3, <1>4, <1>5
<1>7. p + m \in Nat /\ q + m \in Nat BY <1>1, <1>2, <1>4
<1>8. (U * (p + m) + e) % U = e BY ONLY <1>4, <1>7, U \in Nat \ {0}, Remainder
<1>9. (U * (q + m) + e) % U = e BY ONLY <1>4, <1>7, U \in Nat \ {0}, Remainder
<1> QED BY ONLY <1>6, <1>8, <1>9

\* A count that went on from y to x by less than U has come round if it is less.
LEMMA Carried ==
  ASSUME NEW U \in Nat \ {0}, NEW x \in Nat, NEW y \in Nat, NEW n \in Nat,
         NEW d \in 0 .. U - 1, y = U * n + d, y <= x, x < y + U
  PROVE  /\ x % U < d => x = U * n + U + (x % U)
         /\ x % U >= d => x = U * n + (x % U)
<1> DEFINE q == x \div U
           c == x % U
<1>1. q \in Nat /\ c \in 0 .. U - 1 /\ x = U * q + c BY Divided
<1> HIDE DEF q, c
<1>2. U * (q - n) = U * q - U * n /\ U * (n + 1) = U * n + U BY <1>1
<1>3. U * (q - n) = (x - y) + (d - c) BY <1>1, <1>2
<1>4. q - n >= 2 => U * (q - n) >= 2 * U
  <2> SUFFICES ASSUME q - n >= 2 PROVE U * (q - n) >= 2 * U OBVIOUS
  <2>1. U * ((q - n) - 2) >= 0 BY <1>1
  <2>2. U * ((q - n) - 2) = U * (q - n) - U * 2 BY <1>1
  <2> QED BY <1>1, <2>1, <2>2
<1>5. q - n >= 1 => U * (q - n) >= U
  <2> SUFFICES ASSUME q - n >= 1 PROVE U * (q - n) >= U OBVIOUS
  <2> QED BY <1>1
<1>6. q - n <= -1 => U * (q - n) <= -U
  <2> SUFFICES ASSUME q - n <= -1 PROVE U * (q - n) <= -U OBVIOUS
  <2> QED BY <1>1
<1>7. q - n = 0 => U * (q - n) = 0
  <2> SUFFICES ASSUME q - n = 0 PROVE U * (q - n) = 0 OBVIOUS
  <2> QED BY <1>1
<1>z. U * (q - n) \in Int BY <1>1
<1>8. CASE c < d
  <2>1. q = n + 1 BY <1>1, <1>3, <1>4, <1>6, <1>7, <1>8, <1>z
  <2>2. U * q = U * n + U BY <1>1, <1>2, <2>1
  <2> QED BY <1>1, <1>8, <2>2 DEF c
<1>9. CASE c >= d
  <2>1. q = n BY <1>1, <1>3, <1>5, <1>6, <1>9, <1>z
  <2>2. U * q = U * n BY <1>1, <2>1
  <2> QED BY <1>1, <1>9, <2>2 DEF c
<1> QED BY <1>1, <1>8, <1>9

-----------------------------------------------------------------------------
(* The clocks.                                                             *)

\* The five clocks; a period, and the time a tick may wait after it, fit in a
\* register.
ClocksAsBuilt ==
  /\ Clocks \subseteq {"mtime", "mtimecmp", "systick", "systimer", "ccount"}
  /\ Readers # {} /\ Lag \in [Readers -> Nat]
  /\ LowWord \in Nat \ {0} /\ TickPeriod \in 1 .. LowWord - 1
  /\ MaxMasked \in Nat /\ MaxMasked + TickPeriod < LowWord

ReaderType ==
  [at : {"out", "low", "high", "counter", "check", "again"}, hi : Nat, lo : Nat, from : Nat]

ClType ==
  /\ clock \in {"mtime", "mtimecmp", "systick", "systimer", "ccount"}
  /\ instant \in Nat /\ latched \in Nat /\ ticks \in Nat /\ readAt \in Nat
  /\ last \in Nat /\ carries \in Nat
  /\ reader \in [Readers -> ReaderType]
  /\ cmp \in Nat /\ prev \in Nat
  /\ irq \in [pending : BOOLEAN, at : {"out", "ones", "high", "low"}, next : Nat]
  /\ overslept \in BOOLEAN

\* A reader has the high word of a time during its call, ...
HighRead(r, U) ==
  \E a \in reader[r].from .. instant : reader[r].hi = a \div U

\* ... and then the low word of a later one.
BothRead(r, U) ==
  \E a \in reader[r].from .. instant : \E b \in a .. instant :
    reader[r].hi = a \div U /\ reader[r].lo = b % U

\* read_mtime and now_micros_precise.
Sampled(r, U) ==
  /\ reader[r].at # "out" => reader[r].from <= instant
  /\ reader[r].at \in {"low", "counter"} => HighRead(r, U)
  /\ reader[r].at = "check" => BothRead(r, U)

\* systimer_ticks: the words are those of values latched since the call began,
\* and their low word cannot have come round.
Latched(r) ==
  reader[r].at # "out" =>
    /\ reader[r].from <= latched /\ instant < reader[r].from + LowWord
    /\ reader[r].at = "high" =>
         \E a \in reader[r].from .. latched : reader[r].lo = a % LowWord
    /\ reader[r].at = "check" =>
         \E a \in reader[r].from .. latched : \E b \in a .. latched :
           reader[r].lo = a % LowWord /\ reader[r].hi = b \div LowWord

ReadersInv ==
  /\ clock = "mtime" => \A r \in Readers : Sampled(r, LowWord)
  /\ clock = "systick" => \A r \in Readers : Sampled(r, TickPeriod)
  /\ clock = "systick" => ticks <= instant \div TickPeriod
  /\ clock = "systimer" => latched <= instant /\ \A r \in Readers : Latched(r)
  /\ TimeIsTrue

\* now_us: the carries and the last count are what was read last.
Widened ==
  clock = "ccount" /\ CoresAgree /\ ~overslept =>
    /\ \E n \in Nat : carries = LowWord * n
    /\ last \in 0 .. LowWord - 1
    /\ carries + last = readAt

\* The CLINT's compare register, and what of it write_mtimecmp has written.
Rearmed ==
  clock = "mtimecmp" =>
    /\ irq.at = "out" => cmp = prev /\ prev <= instant + TickPeriod
    /\ irq.at # "out" => irq.next <= instant + TickPeriod
    /\ irq.at = "low" => cmp \div LowWord = irq.next \div LowWord

\* CCOMPARE1 is ahead of the count by a period at most, or the count is past it by
\* no more than a tick may wait; and no more than a period lies between the last
\* reading and the match.
Compares ==
  clock = "ccount" /\ ~overslept =>
    /\ cmp = prev /\ cmp < LowWord /\ readAt <= instant
    /\ ~irq.pending => \E e \in 1 .. TickPeriod :
         cmp = (instant + e) % LowWord /\ instant + e <= readAt + TickPeriod
    /\ irq.pending => \E d \in 0 .. MaxMasked :
         instant % LowWord = (cmp + d) % LowWord /\ instant <= readAt + TickPeriod + d

ClInv == ClType /\ ReadersInv /\ Widened /\ Rearmed /\ Compares

LEMMA ClInitInv == ASSUME ClocksAsBuilt, ClInit PROVE ClInv
<1> USE DEF ClocksAsBuilt, ClInit
<1>1. ClType
  <2>1. TickPeriod \in Nat OBVIOUS
  <2>2. reader \in [Readers -> ReaderType] BY DEF ReaderType
  <2>3. overslept \in BOOLEAN OBVIOUS
  <2> QED BY <2>1, <2>2, <2>3 DEF ClType
<1>2. ReadersInv
  <2>1. \A r \in Readers : reader[r].at = "out" OBVIOUS
  <2>2. 0 \div TickPeriod \in Nat BY Divided
  <2> QED BY <2>1, <2>2 DEF ReadersInv, Sampled, Latched, TimeIsTrue
<1>3. Widened
  <2>1. LowWord * 0 = 0 OBVIOUS
  <2> QED BY <2>1 DEF Widened
<1>4. Rearmed
  BY DEF Rearmed
<1>5. Compares
  <2>1. TickPeriod = (0 + TickPeriod) % LowWord
    <3>1. LowWord * 0 + TickPeriod = TickPeriod OBVIOUS
    <3>2. (LowWord * 0 + TickPeriod) % LowWord = TickPeriod
      <4>1. LowWord \in Nat \ {0} /\ 0 \in Nat /\ TickPeriod \in 0 .. LowWord - 1 OBVIOUS
      <4> QED BY ONLY <4>1, Remainder
    <3> QED BY <3>1, <3>2
  <2> QED BY <2>1 DEF Compares
<1> QED BY <1>1, <1>2, <1>3, <1>4, <1>5 DEF ClInv

\* A reader that does not move while time passes.
LEMMA SampledLater ==
  ASSUME ClType, NEW r \in Readers, NEW U, Sampled(r, U), reader'[r] = reader[r],
         instant' \in Nat, instant <= instant'
  PROVE  Sampled(r, U)'
<1>1. reader[r].from \in Nat /\ instant \in Nat BY DEF ClType, ReaderType
<1>2. reader[r].from .. instant \subseteq reader[r].from .. instant' BY <1>1
<1>3. \A a \in reader[r].from .. instant : a .. instant \subseteq a .. instant' BY <1>1
<1>4. HighRead(r, U) => HighRead(r, U)' BY <1>2 DEF HighRead
<1>5. BothRead(r, U) => BothRead(r, U)' BY <1>2, <1>3 DEF BothRead
<1> QED BY <1>1, <1>4, <1>5 DEF Sampled

LEMMA LatchedLater ==
  ASSUME ClType, NEW r \in Readers, Latched(r), reader'[r] = reader[r],
         latched' \in Nat, latched <= latched', instant' \in Nat,
         reader[r].at # "out" => instant' < reader[r].from + LowWord
  PROVE  Latched(r)'
<1>1. reader[r].from \in Nat /\ latched \in Nat BY DEF ClType, ReaderType
<1>2. reader[r].from .. latched \subseteq reader[r].from .. latched' BY <1>1
<1>3. \A a \in reader[r].from .. latched : a .. latched \subseteq a .. latched' BY <1>1
<1> QED BY <1>1, <1>2, <1>3 DEF Latched

\* Every reading action changes one reader, and what it was about to return is
\* the time during its call.
LEMMA SampleStep ==
  ASSUME ClType, ClocksAsBuilt, NEW r \in Readers, NEW U \in Nat \ {0}, Sampled(r, U),
         NEW upper, NEW lower,
         upper = instant \div U, lower = instant % U,
         \/ /\ reader[r].at \in {"out", "again"}
            /\ \E place \in {"low", "counter"} : StartsReading(r, place, upper, 0)
            /\ UNCHANGED truthful
         \/ /\ reader[r].at \in {"low", "counter"}
            /\ reader' = [reader EXCEPT ![r].at = "check", ![r].lo = lower]
            /\ UNCHANGED truthful
         \/ /\ reader[r].at = "check"
            /\ IF upper = reader[r].hi
                 THEN Returns(r, reader[r].hi * U + reader[r].lo)
                 ELSE Goes(r, "again") /\ UNCHANGED truthful,
         UNCHANGED instant
  PROVE  /\ reader' \in [Readers -> ReaderType]
         /\ \A s \in Readers \ {r} : reader'[s] = reader[s]
         /\ Sampled(r, U)' /\ (truthful => truthful')
<1>0. /\ reader[r] \in ReaderType /\ instant \in Nat /\ upper \in Nat /\ lower \in Nat
      /\ reader[r].from \in Nat /\ reader[r].hi \in Nat /\ reader[r].lo \in Nat
  BY Divided DEF ClType, ReaderType
<1>1. CASE /\ reader[r].at \in {"out", "again"}
           /\ \E place \in {"low", "counter"} : StartsReading(r, place, upper, 0)
           /\ UNCHANGED truthful
  <2>1. PICK place \in {"low", "counter"} : StartsReading(r, place, upper, 0) BY <1>1
  <2> DEFINE from == IF reader[r].at = "out" THEN instant ELSE reader[r].from
             new == [at |-> place, hi |-> upper, lo |-> 0, from |-> from]
  <2>2. reader' = [reader EXCEPT ![r] = new] BY <2>1 DEF StartsReading
  <2>3. from \in Nat /\ from <= instant BY <1>0, <1>1 DEF Sampled
  <2>4. new \in ReaderType BY <1>0, <2>3 DEF ReaderType
  <2>5. reader'[r] = new BY <2>2 DEF ClType
  <2>6. instant \in from .. instant BY <1>0, <2>3
  <2>7. HighRead(r, U)' BY <2>5, <2>6 DEF HighRead
  <2> QED BY <1>1, <2>2, <2>3, <2>4, <2>5, <2>7 DEF ClType, Sampled
<1>2. CASE /\ reader[r].at \in {"low", "counter"}
           /\ reader' = [reader EXCEPT ![r].at = "check", ![r].lo = lower]
           /\ UNCHANGED truthful
  <2> DEFINE new == [at |-> "check", hi |-> reader[r].hi, lo |-> lower, from |-> reader[r].from]
  <2>a. reader'[r] = [[reader[r] EXCEPT !.at = "check"] EXCEPT !.lo = lower]
    BY <1>2 DEF ClType
  <2>b. reader'[r] = new BY <1>0, <2>a DEF ReaderType
  <2>1. reader' = [reader EXCEPT ![r] = new] BY <1>2, <2>b DEF ClType
  <2>2. new \in ReaderType BY <1>0 DEF ReaderType
  <2>3. reader'[r] = new BY <2>1 DEF ClType
  <2>4. PICK a \in reader[r].from .. instant : reader[r].hi = a \div U
    BY <1>2 DEF Sampled, HighRead
  <2>5. instant \in a .. instant BY <1>0, <2>4
  <2>6. BothRead(r, U)' BY <2>3, <2>4, <2>5 DEF BothRead
  <2> QED BY <1>2, <2>1, <2>2, <2>3, <2>6 DEF ClType, Sampled
<1>3. CASE reader[r].at = "check" /\ upper # reader[r].hi /\ Goes(r, "again") /\ UNCHANGED truthful
  <2> DEFINE new == [at |-> "again", hi |-> reader[r].hi, lo |-> reader[r].lo, from |-> reader[r].from]
  <2>1. reader' = [reader EXCEPT ![r] = new]
    <3>1. reader' = [reader EXCEPT ![r].at = "again"] BY <1>3 DEF Goes
    <3>2. reader'[r] = [reader[r] EXCEPT !.at = "again"] BY <3>1 DEF ClType
    <3>3. reader'[r] = new BY <1>0, <3>2 DEF ReaderType
    <3> QED BY <3>1, <3>3 DEF ClType
  <2>2. new \in ReaderType BY <1>0 DEF ReaderType
  <2>3. reader'[r] = new BY <2>1 DEF ClType
  <2> QED BY <1>3, <2>1, <2>2, <2>3 DEF ClType, Sampled
<1>4. CASE /\ reader[r].at = "check" /\ upper = reader[r].hi
           /\ Returns(r, reader[r].hi * U + reader[r].lo)
  <2> DEFINE new == [at |-> "out", hi |-> 0, lo |-> 0, from |-> 0]
  <2>1. reader' = [reader EXCEPT ![r] = new] BY <1>4 DEF Returns
  <2>2. new \in ReaderType BY DEF ReaderType
  <2>3. reader'[r] = new BY <2>1 DEF ClType
  <2>4. BothRead(r, U) BY <1>4 DEF Sampled
  <2>a. PICK a \in reader[r].from .. instant :
          \E b \in a .. instant : reader[r].hi = a \div U /\ reader[r].lo = b % U
    BY <2>4 DEF BothRead
  <2>5. PICK b \in a .. instant : reader[r].hi = a \div U /\ reader[r].lo = b % U
    BY <2>a
  <2>6. reader[r].hi * U + reader[r].lo = b BY <1>0, <1>4, <2>5, Between
  <2>c. reader[r].from <= b /\ b <= instant BY <1>0, <2>5
  <2>d. truthful' = (truthful /\ reader[r].from <= b /\ b <= instant)
    BY <1>4, <2>6 DEF Returns
  <2>7. truthful => truthful' BY ONLY <2>c, <2>d
  <2> QED BY <2>1, <2>2, <2>3, <2>7 DEF ClType, Sampled
<1> QED BY <1>1, <1>2, <1>3, <1>4

\* The same of the latch that its readers share.
LEMMA UnitStep ==
  ASSUME ClType, ClocksAsBuilt, latched <= instant, NEW r \in Readers, Latched(r),
         \/ reader[r].at = "out" /\ LatchUnit(r)
         \/ reader[r].at # "out" /\ ReadUnit(r)
  PROVE  /\ reader' \in [Readers -> ReaderType]
         /\ \A s \in Readers \ {r} : reader'[s] = reader[s]
         /\ Latched(r)' /\ (truthful => truthful')
         /\ latched' \in latched .. instant
<1>0. /\ reader[r] \in ReaderType /\ instant \in Nat /\ latched \in Nat /\ LowWord \in Nat \ {0}
      /\ reader[r].from \in Nat /\ reader[r].hi \in Nat /\ reader[r].lo \in Nat
  BY DEF ClType, ReaderType, ClocksAsBuilt
<1>w. latched \div LowWord \in Nat /\ latched % LowWord \in Nat
      /\ latched = LowWord * (latched \div LowWord) + (latched % LowWord)
  <2>1. latched % LowWord \in 0 .. LowWord - 1 BY ONLY <1>0, Divided
  <2>2. latched \div LowWord \in Nat BY ONLY <1>0, Divided
  <2>3. latched = LowWord * (latched \div LowWord) + (latched % LowWord) BY ONLY <1>0, Divided
  <2>4. latched % LowWord \in Nat BY ONLY <1>0, <2>1
  <2> QED BY ONLY <2>2, <2>3, <2>4
<1>1. CASE reader[r].at = "out" /\ LatchUnit(r)
  <2> DEFINE new == [at |-> "low", hi |-> 0, lo |-> 0, from |-> instant]
  <2>1. reader' = [reader EXCEPT ![r] = new] BY <1>1 DEF LatchUnit, StartsReading
  <2>2. new \in ReaderType BY <1>0, <1>w DEF ReaderType
  <2>3. reader'[r] = new BY <2>1 DEF ClType
  <2>4. latched' = instant /\ instant' = instant /\ truthful' = truthful
    BY <1>1 DEF LatchUnit, readings, timer
  <2>5. Latched(r)' BY <1>0, <2>3, <2>4 DEF Latched
  <2> QED BY <1>0, <2>1, <2>2, <2>3, <2>4, <2>5 DEF ClType
<1>u. CASE reader[r].at # "out" /\ ReadUnit(r)
  <2>u. UNCHANGED <<instant, latched>> BY <1>u DEF ReadUnit
  <2>f. reader[r].from <= latched /\ instant < reader[r].from + LowWord
    BY <1>u DEF Latched
  <2>l. latched \in reader[r].from .. latched /\ latched \in latched .. instant
    BY <1>0, <2>f
  <2>1. CASE /\ reader[r].at = "low"
             /\ reader' = [reader EXCEPT ![r].at = "high", ![r].lo = Low(latched)]
             /\ UNCHANGED truthful
    <3> DEFINE new == [at |-> "high", hi |-> reader[r].hi, lo |-> latched % LowWord,
                       from |-> reader[r].from]
    <3>a. reader'[r] = [[reader[r] EXCEPT !.at = "high"] EXCEPT !.lo = latched % LowWord]
      BY <2>1 DEF ClType, Low
    <3>b. reader'[r] = new BY <1>0, <1>w, <3>a DEF ReaderType
    <3>1. reader' = [reader EXCEPT ![r] = new] BY <2>1, <3>b DEF ClType
    <3>2. new \in ReaderType BY <1>0, <1>w DEF ReaderType
    <3>3. Latched(r)' BY <2>u, <2>f, <2>l, <3>b DEF Latched
    <3> QED BY <2>1, <2>u, <2>l, <3>1, <3>2, <3>3 DEF ClType
  <2>2. CASE /\ reader[r].at = "high"
             /\ reader' = [reader EXCEPT ![r].at = "check", ![r].hi = High(latched)]
             /\ UNCHANGED truthful
    <3> DEFINE new == [at |-> "check", hi |-> latched \div LowWord, lo |-> reader[r].lo,
                       from |-> reader[r].from]
    <3>a. reader'[r] = [[reader[r] EXCEPT !.at = "check"] EXCEPT !.hi = latched \div LowWord]
      BY <2>2 DEF ClType, High
    <3>b. reader'[r] = new BY <1>0, <1>w, <3>a DEF ReaderType
    <3>1. reader' = [reader EXCEPT ![r] = new] BY <2>2, <3>b DEF ClType
    <3>2. new \in ReaderType BY <1>0, <1>w DEF ReaderType
    <3>4. PICK a \in reader[r].from .. latched : reader[r].lo = a % LowWord
      BY <2>2 DEF Latched
    <3>5. latched \in a .. latched BY <1>0, <3>4
    <3>3. Latched(r)' BY <2>u, <2>f, <3>4, <3>5, <3>b DEF Latched
    <3> QED BY <2>2, <2>u, <2>l, <3>1, <3>2, <3>3 DEF ClType
  <2>3. CASE /\ reader[r].at = "check" /\ Low(latched) # reader[r].lo
             /\ reader' = [reader EXCEPT ![r].at = "high", ![r].lo = Low(latched)]
             /\ UNCHANGED truthful
    <3> DEFINE new == [at |-> "high", hi |-> reader[r].hi, lo |-> latched % LowWord,
                       from |-> reader[r].from]
    <3>a. reader'[r] = [[reader[r] EXCEPT !.at = "high"] EXCEPT !.lo = latched % LowWord]
      BY <2>3 DEF ClType, Low
    <3>b. reader'[r] = new BY <1>0, <1>w, <3>a DEF ReaderType
    <3>1. reader' = [reader EXCEPT ![r] = new] BY <2>3, <3>b DEF ClType
    <3>2. new \in ReaderType BY <1>0, <1>w DEF ReaderType
    <3>3. Latched(r)' BY <2>u, <2>f, <2>l, <3>b DEF Latched
    <3> QED BY <2>3, <2>u, <2>l, <3>1, <3>2, <3>3 DEF ClType
  <2>4. CASE /\ reader[r].at = "check" /\ Low(latched) = reader[r].lo
             /\ Returns(r, reader[r].hi * LowWord + reader[r].lo)
    <3> DEFINE new == [at |-> "out", hi |-> 0, lo |-> 0, from |-> 0]
    <3>1. reader' = [reader EXCEPT ![r] = new] BY <2>4 DEF Returns
    <3>2. new \in ReaderType BY DEF ReaderType
    <3>3. reader'[r] = new BY <3>1 DEF ClType
    <3>4. PICK a \in reader[r].from .. latched : \E b \in a .. latched :
            reader[r].lo = a % LowWord /\ reader[r].hi = b \div LowWord
      BY <2>4 DEF Latched
    <3>5. PICK b \in a .. latched : reader[r].lo = a % LowWord /\ reader[r].hi = b \div LowWord
      BY <3>4
    <3>6. a % LowWord = latched % LowWord BY <2>4, <3>5 DEF Low
    <3>7. a \in Nat /\ b \in Nat /\ a <= b /\ b <= latched /\ latched < a + LowWord
          /\ reader[r].from <= b /\ b <= instant
      BY <1>0, <2>f
    <3>8. a = latched
      <4>1. a \in Nat /\ a <= latched /\ latched < a + LowWord BY <1>0, <3>7
      <4> QED BY ONLY <1>0, <3>6, <4>1, SameRemainder, Zenon
    <3>9. b = latched BY <1>0, <3>7, <3>8
    <3>10. reader[r].hi * LowWord + reader[r].lo = b BY <1>0, <1>w, <3>5, <3>8, <3>9
    <3>11. truthful' = (truthful /\ reader[r].from <= b /\ b <= instant)
      BY <2>4, <3>10 DEF Returns
    <3>12. truthful => truthful' BY ONLY <3>7, <3>11
    <3> QED BY <2>u, <2>l, <3>1, <3>2, <3>3, <3>12 DEF ClType, Latched
  <2> QED BY <1>u, <2>1, <2>2, <2>3, <2>4 DEF ReadUnit
<1> QED BY <1>1, <1>u

\* The count cannot come round between two readings.
LEMMA ReadInTime ==
  ASSUME ClType, ClocksAsBuilt, Compares, clock = "ccount", ~overslept
  PROVE  readAt <= instant /\ instant < readAt + LowWord
<1>0. /\ LowWord \in Nat /\ TickPeriod \in Nat /\ MaxMasked \in Nat /\ instant \in Nat
      /\ readAt \in Nat /\ MaxMasked + TickPeriod < LowWord /\ readAt <= instant
  BY DEF ClType, ClocksAsBuilt, Compares
<1>1. CASE ~irq.pending
  <2>1. PICK e \in 1 .. TickPeriod : instant + e <= readAt + TickPeriod BY <1>1 DEF Compares
  <2> QED BY <1>0, <2>1
<1>2. CASE irq.pending
  <2>1. PICK d \in 0 .. MaxMasked : instant <= readAt + TickPeriod + d BY <1>2 DEF Compares
  <2> QED BY <1>0, <2>1
<1> QED BY <1>1, <1>2

\* now_us adds a carry for each time its count came round.
LEMMA CcountStep ==
  ASSUME ClType, ClocksAsBuilt, Widened, Compares, clock = "ccount", TimeIsTrue,
         NEW x \in Nat, x <= instant, CoresAgree => x = instant, now_us(x),
         UNCHANGED <<clock, instant>>, overslept' \in BOOLEAN, overslept => overslept'
  PROVE  /\ Widened' /\ TimeIsTrue'
         /\ last' \in Nat /\ carries' \in Nat /\ readAt' = instant
<1> DEFINE c == x % LowWord
           carried == IF c < last THEN carries + LowWord ELSE carries
<1>0. /\ LowWord \in Nat \ {0} /\ instant \in Nat
      /\ readAt \in Nat /\ last \in Nat /\ carries \in Nat
  BY DEF ClType, ClocksAsBuilt
<1>2. c \in 0 .. LowWord - 1 BY ONLY <1>0, x \in Nat, Divided
<1>3. /\ carries' = carried /\ last' = c /\ readAt' = instant
      /\ truthful' = (truthful /\ carried + c \in x .. instant)
  BY DEF now_us, Low
<1> HIDE DEF c
<1>7. carried \in Nat BY <1>0
<1>8. CoresAgree' <=> CoresAgree BY DEF CoresAgree
<1>9. CASE ~CoresAgree \/ overslept
  <2>1. ~CoresAgree' \/ overslept' BY <1>8, <1>9
  <2>2. Widened' /\ TimeIsTrue' BY <2>1 DEF Widened, TimeIsTrue
  <2> QED BY <1>2, <1>3, <1>7, <2>2
<1>10. CASE CoresAgree /\ ~overslept
  <2>1. PICK n \in Nat : carries = LowWord * n BY <1>10 DEF Widened
  <2>x. x = instant /\ carries + last = readAt /\ last \in 0 .. LowWord - 1
    BY <1>10 DEF Widened
  <2>r. readAt <= x /\ x < readAt + LowWord BY <1>10, <2>x, ReadInTime
  <2> DEFINE y == LowWord * n + last
  <2>2. y \in Nat /\ y <= x /\ x < y + LowWord /\ y = LowWord * n + last
    BY <1>0, <2>1, <2>x, <2>r
  <2> HIDE DEF y
  <2>3. /\ x % LowWord < last => x = LowWord * n + LowWord + (x % LowWord)
        /\ x % LowWord >= last => x = LowWord * n + (x % LowWord)
    BY ONLY <1>0, <2>1, <2>2, <2>x, x \in Nat, Carried
  <2>4. LowWord * (n + 1) = LowWord * n + LowWord BY <1>0
  <2>5. (\E m \in Nat : carried = LowWord * m) /\ carried + c = x
    <3>1. CASE c < last
      <4>1. carried = LowWord * (n + 1) BY <1>0, <2>1, <2>4, <3>1
      <4>2. carried + c = x BY <1>0, <1>2, <2>3, <2>4, <3>1, <4>1 DEF c
      <4> QED BY <4>1, <4>2
    <3>2. CASE ~(c < last)
      <4>1. carried = LowWord * n BY <2>1, <3>2
      <4>2. carried + c = x BY <1>0, <1>2, <2>1, <2>3, <2>x, <3>2, <4>1 DEF c
      <4> QED BY <4>1, <4>2
    <3> QED BY <3>1, <3>2
  <2>6. Widened' BY <1>2, <1>3, <2>5, <2>x DEF Widened
  <2>7. carried + c \in x .. instant BY <1>0, <2>5, <2>x
  <2>8. truthful \/ overslept BY <1>10 DEF TimeIsTrue
  <2>9. truthful' BY ONLY <1>3, <2>7, <2>8, <1>10
  <2>10. TimeIsTrue' BY <2>9 DEF TimeIsTrue
  <2> QED BY <1>2, <1>3, <1>7, <2>6, <2>10
<1> QED BY <1>9, <1>10

IrqType == [pending : BOOLEAN, at : {"out", "ones", "high", "low"}, next : Nat]

\* The CLINT's handler: whatever it has written of the compare register, the high
\* word is the next one's before the low word is.
LEMMA ClintStep ==
  ASSUME ClType, ClocksAsBuilt, Rearmed, ClintIrq \/ WriteMtimecmp
  PROVE  Rearmed' /\ cmp' \in Nat /\ prev' \in Nat /\ irq' \in IrqType
<1>0. /\ LowWord \in Nat \ {0} /\ TickPeriod \in Nat \ {0} /\ instant \in Nat
      /\ cmp \in Nat /\ prev \in Nat /\ irq \in IrqType /\ irq.next \in Nat
      /\ clock = "mtimecmp" /\ clock' = clock /\ instant' = instant
  BY DEF ClType, ClocksAsBuilt, ClintIrq, WriteMtimecmp, IrqType
<1>q. /\ cmp \div LowWord \in Nat /\ irq.next \div LowWord \in Nat
  <2>1. cmp \div LowWord \in Nat BY ONLY <1>0, Divided
  <2>2. irq.next \div LowWord \in Nat BY ONLY <1>0, Divided
  <2> QED BY <2>1, <2>2
<1>r. /\ cmp % LowWord \in 0 .. LowWord - 1 /\ irq.next % LowWord \in 0 .. LowWord - 1
  <2>1. cmp % LowWord \in 0 .. LowWord - 1 BY ONLY <1>0, Divided
  <2>2. irq.next % LowWord \in 0 .. LowWord - 1 BY ONLY <1>0, Divided
  <2> QED BY <2>1, <2>2
<1>1. CASE ClintIrq
  <2> DEFINE next == Larger(prev + TickPeriod, instant + TickPeriod)
  <2>1. cmp = prev /\ prev <= instant BY <1>0, <1>1 DEF ClintIrq, Rearmed
  <2>2. next = instant + TickPeriod BY <1>0, <2>1 DEF Larger
  <2>3. irq' = [pending |-> irq.pending, at |-> "ones", next |-> next]
    BY <1>0, <1>1 DEF ClintIrq, IrqType
  <2>4. cmp' = cmp /\ prev' = prev BY <1>1 DEF ClintIrq
  <2>5. irq.pending \in BOOLEAN BY <1>0 DEF IrqType
  <2> QED BY <1>0, <2>2, <2>3, <2>4, <2>5 DEF IrqType, Rearmed
<1>2. CASE WriteMtimecmp
  <2>1. CASE /\ irq.at = "ones" /\ cmp' = High(cmp) * LowWord + LowWord - 1
             /\ irq' = [irq EXCEPT !.at = "high"] /\ UNCHANGED prev
    <3>1. irq' \in IrqType /\ irq'.next = irq.next /\ irq'.at = "high" BY <1>0, <2>1 DEF IrqType
    <3>2. cmp' \in Nat
      <4>1. High(cmp) * LowWord \in Nat BY <1>0, <1>q DEF High
      <4> QED BY <1>0, <2>1, <4>1
    <3> QED BY <1>0, <2>1, <3>1, <3>2 DEF Rearmed
  <2>2. CASE /\ irq.at = "high" /\ cmp' = High(irq.next) * LowWord + Low(cmp)
             /\ irq' = [irq EXCEPT !.at = "low"] /\ UNCHANGED prev
    <3>1. irq' \in IrqType /\ irq'.next = irq.next /\ irq'.at = "low" BY <1>0, <2>2 DEF IrqType
    <3> DEFINE q == irq.next \div LowWord
               e == cmp % LowWord
    <3>2. q \in Nat /\ e \in 0 .. LowWord - 1 BY <1>q, <1>r
    <3>3. cmp' = q * LowWord + e BY <2>2 DEF High, Low
    <3> HIDE DEF q, e
    <3>4. cmp' = LowWord * q + e /\ cmp' \in Nat BY <1>0, <3>2, <3>3
    <3>5. (LowWord * q + e) \div LowWord = q BY ONLY <1>0, <3>2, Remainder
    <3>6. cmp' \div LowWord = irq'.next \div LowWord BY <3>1, <3>4, <3>5 DEF q
    <3> QED BY <1>0, <2>2, <3>1, <3>4, <3>6 DEF Rearmed
  <2>3. CASE /\ irq.at = "low" /\ cmp' = High(cmp) * LowWord + Low(irq.next)
             /\ prev' = irq.next /\ irq' = [irq EXCEPT !.at = "out", !.next = 0]
    <3>1. irq' = [pending |-> irq.pending, at |-> "out", next |-> 0] BY <1>0, <2>3 DEF IrqType
    <3>2. irq.pending \in BOOLEAN BY <1>0 DEF IrqType
    <3>3. High(cmp) = irq.next \div LowWord BY <1>0, <2>3 DEF Rearmed, High
    <3>4. irq.next = LowWord * (irq.next \div LowWord) + (irq.next % LowWord)
      BY ONLY <1>0, Divided
    <3>5. cmp' = irq.next BY <1>0, <1>q, <1>r, <2>3, <3>3, <3>4 DEF Low
    <3> QED BY <1>0, <2>3, <3>1, <3>2, <3>5 DEF Rearmed, IrqType
  <2> QED BY <1>2, <2>1, <2>2, <2>3 DEF WriteMtimecmp
<1> QED BY <1>1, <1>2

\* The esp32s3's handler, on a count that goes round.
LEMMA CcompareStep ==
  ASSUME ClType, ClocksAsBuilt, Compares, CcompareIrq
  PROVE  Compares' /\ cmp' \in Nat /\ prev' \in Nat /\ irq' \in IrqType /\ overslept' \in BOOLEAN
<1> DEFINE one == (prev + TickPeriod) % LowWord
           two == ((instant % LowWord) + TickPeriod) % LowWord
           late == (instant + LowWord - prev) % LowWord
<1>0. /\ LowWord \in Nat \ {0} /\ TickPeriod \in 1 .. LowWord - 1 /\ instant \in Nat
      /\ cmp \in Nat /\ prev \in Nat /\ irq \in IrqType /\ irq.pending /\ clock = "ccount"
      /\ clock' = clock /\ instant' = instant /\ readAt' = instant
      /\ MaxMasked \in Nat /\ MaxMasked + TickPeriod < LowWord
  BY DEF ClType, ClocksAsBuilt, CcompareIrq, IrqType, now_us
<1>1. /\ cmp' = Larger(one, two) /\ prev' = cmp' /\ irq' = [irq EXCEPT !.pending = FALSE]
      /\ overslept' = \/ overslept
                      \/ /\ late >= TickPeriod
                         /\ (prev + TickPeriod) \div LowWord # (prev + TickPeriod + late) \div LowWord
  BY DEF CcompareIrq, Low, High
<1>3. instant % LowWord \in 0 .. LowWord - 1 BY ONLY <1>0, Divided
<1>5. two = (instant + TickPeriod) % LowWord
  <2> DEFINE i == instant % LowWord
  <2>1. i % LowWord = instant % LowWord BY ONLY <1>0, <1>3, SmallRemainder
  <2>2. i \in Nat /\ TickPeriod \in Nat /\ instant \in Nat /\ LowWord \in Nat \ {0}
    BY <1>0, <1>3
  <2> HIDE DEF i
  <2>3. (i + TickPeriod) % LowWord = (instant + TickPeriod) % LowWord
    BY ONLY <2>1, <2>2, AddedRemainder
  <2> QED BY <2>3 DEF i
<1>6. one \in 0 .. LowWord - 1
  <2>1. prev + TickPeriod \in Nat BY <1>0
  <2> QED BY ONLY <1>0, <2>1, Divided
<1>7. two \in 0 .. LowWord - 1
  <2>1. instant + TickPeriod \in Nat BY <1>0
  <2> QED BY ONLY <1>0, <1>5, <2>1, Divided
<1>8. cmp' \in {one, two} /\ cmp' >= one /\ cmp' >= two
  BY <1>0, <1>1, <1>6, <1>7 DEF Larger
<1>10. irq' \in IrqType /\ ~irq'.pending BY <1>0, <1>1 DEF IrqType
<1>11. cmp' \in 0 .. LowWord - 1 BY <1>6, <1>7, <1>8
<1>12. overslept' \in BOOLEAN BY <1>1 DEF ClType
<1>13. ASSUME ~overslept' PROVE \E e \in 1 .. TickPeriod : cmp' = (instant + e) % LowWord
  <2>0. ~overslept /\ prev = cmp /\ prev \in 0 .. LowWord - 1
    BY <1>0, <1>1, <1>13 DEF Compares
  <2>1. PICK d \in 0 .. MaxMasked : instant % LowWord = (cmp + d) % LowWord
    BY <1>0, <2>0 DEF Compares
  <2>2. d \in Nat /\ d < LowWord /\ LowWord - prev \in Nat /\ d \in 0 .. LowWord - 1 BY <1>0, <2>0
  <2>3. late = d
    <3> DEFINE e == LowWord - prev
               f == prev + d
    <3>0. /\ e \in Nat /\ f \in Nat /\ instant % LowWord = f % LowWord
          /\ instant \in Nat /\ LowWord \in Nat \ {0}
      BY <1>0, <2>0, <2>1, <2>2
    <3>1. instant + LowWord - prev = instant + e BY <1>0
    <3>2. f + e = LowWord * 1 + d BY <1>0, <2>2
    <3> HIDE DEF e, f
    <3>3. (instant + e) % LowWord = (f + e) % LowWord BY ONLY <3>0, AddedRemainder
    <3>4. (LowWord * 1 + d) % LowWord = d BY ONLY <1>0, <2>2, Remainder, 1 \in Nat
    <3> QED BY <3>1, <3>2, <3>3, <3>4
  <2>4. ASSUME NEW m \in Nat
        PROVE  (instant + m) % LowWord = (prev + d + m) % LowWord
    <3> DEFINE f == prev + d
    <3>1. /\ f \in Nat /\ instant % LowWord = f % LowWord
          /\ instant \in Nat /\ LowWord \in Nat \ {0} /\ m \in Nat
      BY <1>0, <2>0, <2>1, <2>2, <2>4
    <3> HIDE DEF f
    <3>2. (instant + m) % LowWord = (f + m) % LowWord BY ONLY <3>1, AddedRemainder
    <3> QED BY <3>2 DEF f
  <2>5. TickPeriod \in 1 .. TickPeriod BY <1>0
  <2>6. CASE d < TickPeriod
    <3>1. TickPeriod - d \in Nat /\ TickPeriod - d \in 1 .. TickPeriod
          /\ prev + d + (TickPeriod - d) = prev + TickPeriod
      BY <1>0, <2>2, <2>6
    <3>2. one = (instant + (TickPeriod - d)) % LowWord BY <2>4, <3>1
    <3> QED BY <1>5, <1>8, <2>5, <3>1, <3>2
  <2>7. CASE d >= TickPeriod
    <3> DEFINE a == prev + TickPeriod
               b == prev + TickPeriod + d
               q == a \div LowWord
               s == b \div LowWord
    <3>1. q = s BY <1>1, <1>13, <2>3, <2>7
    <3>2. a \in Nat /\ b \in Nat /\ a <= b /\ prev + d + TickPeriod = b BY <1>0, <2>2
    <3> HIDE DEF q, s
    <3>3. q \in Nat /\ s \in Nat /\ a = LowWord * q + (a % LowWord) /\ b = LowWord * s + (b % LowWord)
      <4>1. q \in Nat /\ a = LowWord * q + (a % LowWord) BY ONLY <1>0, <3>2, Divided DEF q
      <4>2. s \in Nat /\ b = LowWord * s + (b % LowWord) BY ONLY <1>0, <3>2, Divided DEF s
      <4> QED BY <4>1, <4>2
    <3>4. two = b % LowWord
      <4>1. TickPeriod \in Nat BY <1>0
      <4>2. (instant + TickPeriod) % LowWord = (prev + d + TickPeriod) % LowWord BY <2>4, <4>1
      <4> QED BY <1>5, <3>2, <4>2
    <3>5. one = a % LowWord OBVIOUS
    <3> HIDE DEF one, two, a, b
    <3>6. LowWord * q = LowWord * s BY <3>1
    <3>7. one <= two BY <1>0, <1>6, <1>7, <3>2, <3>3, <3>4, <3>5, <3>6
    <3>8. cmp' = two BY <1>6, <1>7, <1>8, <3>7
    <3> QED BY <1>5, <2>5, <3>8
  <2> QED BY <1>0, <2>2, <2>6, <2>7
<1>14. ASSUME ~overslept' PROVE \E e \in 1 .. TickPeriod :
         cmp' = (instant' + e) % LowWord /\ instant' + e <= readAt' + TickPeriod
  <2>1. PICK e \in 1 .. TickPeriod : cmp' = (instant + e) % LowWord BY <1>13, <1>14
  <2> QED BY <1>0, <2>1
<1> QED BY <1>0, <1>1, <1>10, <1>11, <1>12, <1>14 DEF Compares

\* The count goes on: a compare register that is e ahead is e - 1 ahead, and one
\* that the count is past is one further behind.
LEMMA CountGoesOn ==
  ASSUME ClType, ClocksAsBuilt, Compares, clock = "ccount", Pass
  PROVE  Compares'
<1>0. /\ LowWord \in Nat \ {0} /\ TickPeriod \in 1 .. LowWord - 1 /\ instant \in Nat
      /\ instant' = instant + 1 /\ cmp \in Nat /\ cmp' = cmp /\ prev' = prev /\ clock' = clock
      /\ irq' = [irq EXCEPT !.pending = irq.pending \/ Low(instant + 1) = cmp]
      /\ irq \in IrqType /\ readAt' = readAt /\ readAt \in Nat /\ overslept' = overslept
      /\ MaxMasked \in Nat /\ MaxMasked + TickPeriod < LowWord
  BY DEF ClType, ClocksAsBuilt, Pass, Compares, IrqType, readings
<1>1. irq'.pending <=> (irq.pending \/ (instant + 1) % LowWord = cmp)
  BY <1>0 DEF IrqType, Low
<1> SUFFICES ASSUME ~overslept PROVE Compares'
  BY <1>0 DEF Compares
<1>2. cmp = prev /\ cmp < LowWord /\ readAt <= instant /\ readAt' <= instant'
  BY <1>0 DEF Compares
<1>4. CASE irq.pending
  <2>1. PICK d \in 0 .. MaxMasked :
          instant % LowWord = (cmp + d) % LowWord /\ instant <= readAt + TickPeriod + d
    BY <1>4 DEF Compares
  <2> DEFINE m == 1 + LowWord - cmp
             f == cmp + d
  <2>2. m \in Nat /\ f \in Nat /\ d + 1 \in 0 .. LowWord - 1 /\ instant % LowWord = f % LowWord
    BY <1>0, <1>2, <2>1
  <2>3. f + m = LowWord * 1 + (d + 1) /\ instant + 1 + LowWord - cmp = instant + m
    BY <1>0, <2>1
  <2> HIDE DEF m, f
  <2>4. (instant + m) % LowWord = (f + m) % LowWord BY ONLY <1>0, <2>2, AddedRemainder
  <2>5. (LowWord * 1 + (d + 1)) % LowWord = d + 1 BY ONLY <1>0, <2>2, Remainder, 1 \in Nat
  <2>6. d + 1 <= MaxMasked
    <3>1. Low(instant + 1 + LowWord - cmp) <= MaxMasked BY <1>0, <1>4 DEF Pass
    <3> QED BY <2>3, <2>4, <2>5, <3>1 DEF Low
  <2>7. (instant + 1) % LowWord = (f + 1) % LowWord BY ONLY <1>0, <2>2, 1 \in Nat, AddedRemainder
  <2>8. f + 1 = cmp' + (d + 1) BY <1>0, <2>1 DEF f
  <2>9. instant' % LowWord = (cmp' + (d + 1)) % LowWord BY <1>0, <2>7, <2>8
  <2>10. instant' <= readAt' + TickPeriod + (d + 1) /\ d + 1 \in 0 .. MaxMasked
    BY <1>0, <2>1, <2>6
  <2> QED BY <1>0, <1>1, <1>2, <1>4, <2>9, <2>10 DEF Compares
<1>5. CASE ~irq.pending
  <2>1. PICK e \in 1 .. TickPeriod :
          cmp = (instant + e) % LowWord /\ instant + e <= readAt + TickPeriod
    BY <1>5 DEF Compares
  <2>2. CASE e = 1
    <3>1. (instant + 1) % LowWord = cmp BY <2>1, <2>2
    <3>2. cmp % LowWord = cmp BY ONLY <1>0, <1>2, SmallRemainder, cmp \in 0 .. LowWord - 1
    <3>3. cmp' + 0 = cmp /\ 0 \in 0 .. MaxMasked BY <1>0
    <3>4. instant' % LowWord = (cmp' + 0) % LowWord BY <1>0, <3>1, <3>2, <3>3
    <3>5. instant' <= readAt' + TickPeriod + 0 BY <1>0, <2>1, <2>2
    <3> QED BY <1>0, <1>1, <1>2, <3>1, <3>3, <3>4, <3>5 DEF Compares
  <2>3. CASE e # 1
    <3>1. e - 1 \in 1 .. TickPeriod /\ instant' + (e - 1) = instant + e BY <1>0, <2>1, <2>3
    <3>2. (instant + 1) % LowWord # cmp
      <4> SUFFICES ASSUME (instant + 1) % LowWord = cmp PROVE FALSE OBVIOUS
      <4> DEFINE a == instant + 1
                 b == instant + e
      <4>1. a \in Nat /\ b \in Nat /\ a <= b /\ b < a + LowWord /\ a # b BY <1>0, <2>3
      <4>2. a % LowWord = b % LowWord BY <2>1
      <4> HIDE DEF a, b
      <4> QED BY ONLY <1>0, <4>1, <4>2, SameRemainder
    <3>3. ~irq'.pending BY <1>1, <1>5, <3>2
    <3>4. cmp' = (instant' + (e - 1)) % LowWord /\ instant' + (e - 1) <= readAt' + TickPeriod
      BY <1>0, <2>1, <3>1
    <3> QED BY <1>0, <1>2, <3>1, <3>3, <3>4 DEF Compares
  <2> QED BY <2>2, <2>3
<1> QED BY <1>4, <1>5

LEMMA PassStep ==
  ASSUME ClInv, ClocksAsBuilt, Pass
  PROVE  ClInv'
<1> USE DEF ClInv
<1>0. /\ instant \in Nat /\ instant' = instant + 1 /\ instant' \in Nat /\ instant <= instant'
      /\ UNCHANGED <<clock, readings, cmp, prev, overslept>>
      /\ irq' = [irq EXCEPT !.pending = irq.pending \/ (clock = "ccount" /\ Low(instant + 1) = cmp)]
  BY DEF Pass, ClType
<1>1. irq' \in IrqType /\ irq'.at = irq.at /\ irq'.next = irq.next
  BY <1>0 DEF ClType, IrqType
<1>2. ClType'
  BY <1>0, <1>1 DEF ClType, IrqType, readings
<1>3. ReadersInv'
  <2>0. TimeIsTrue'
    <3>1. CoresAgree' = CoresAgree BY DEF CoresAgree
    <3> QED BY <1>0, <3>1 DEF ReadersInv, TimeIsTrue, readings
  <2>1. CASE clock = "mtime"
    <3>1. \A r \in Readers : Sampled(r, LowWord)'
      BY <1>0, <2>1, SampledLater DEF ReadersInv, readings
    <3> QED BY <1>0, <2>0, <2>1, <3>1 DEF ReadersInv
  <2>2. CASE clock = "systick"
    <3>1. \A r \in Readers : Sampled(r, TickPeriod)'
      BY <1>0, <2>2, SampledLater DEF ReadersInv, readings
    <3>2. TickPeriod \in Nat \ {0} BY DEF ClocksAsBuilt
    <3>3. instant \div TickPeriod <= instant' \div TickPeriod BY ONLY <1>0, <3>2, QuotientGrows
    <3>4. instant \div TickPeriod \in Nat /\ instant' \div TickPeriod \in Nat
      <4>1. instant \div TickPeriod \in Nat BY ONLY <1>0, <3>2, Divided
      <4>2. instant' \div TickPeriod \in Nat BY ONLY <1>0, <3>2, Divided
      <4> QED BY <4>1, <4>2
    <3>5. ticks' <= instant' \div TickPeriod
      BY <1>0, <2>2, <3>3, <3>4 DEF ReadersInv, ClType, readings
    <3> QED BY <1>0, <2>0, <2>2, <3>1, <3>5 DEF ReadersInv
  <2>3. CASE clock = "systimer"
    <3>1. ASSUME NEW r \in Readers PROVE Latched(r)'
      <4>1. /\ reader'[r] = reader[r] /\ latched' = latched /\ latched \in Nat /\ Latched(r)
            /\ reader[r].at # "out" => instant' < reader[r].from + LowWord
        BY <1>0, <2>3 DEF ReadersInv, readings, Pass, ClType
      <4> QED BY <1>0, <4>1, LatchedLater
    <3>2. latched' <= instant' BY <1>0, <2>3 DEF ReadersInv, readings, ClType
    <3> QED BY <1>0, <2>0, <2>3, <3>1, <3>2 DEF ReadersInv
  <2> QED BY <1>0, <2>0, <2>1, <2>2, <2>3 DEF ReadersInv
<1>4. Widened'
  BY <1>0 DEF Widened, Pass, readings, ClType, CoresAgree
<1>5. Rearmed'
  BY <1>0, <1>1 DEF Rearmed, ClType, ClocksAsBuilt, IrqType
<1>6. Compares'
  <2>1. CASE clock = "ccount" BY <2>1, CountGoesOn
  <2>2. CASE clock # "ccount" BY <1>0, <2>2 DEF Compares
  <2> QED BY <2>1, <2>2
<1> QED BY <1>2, <1>3, <1>4, <1>5, <1>6

\* A step of one reader keeps what concerns the others.
LEMMA ReadStep ==
  ASSUME ClInv, ClocksAsBuilt, NEW r \in Readers,
         ReadHigh(r) \/ ReadLow(r) \/ CheckHigh(r) \/ LatchUnit(r) \/ ReadUnit(r) \/ Precise(r)
  PROVE  ClInv'
<1> USE DEF ClInv
<1>0. /\ UNCHANGED <<clock, instant, ticks, last, carries, readAt, timer>>
      /\ instant \in Nat /\ LowWord \in Nat \ {0} /\ TickPeriod \in Nat \ {0} /\ truthful
      /\ latched \in Nat /\ (truthful' => TimeIsTrue')
  <2>1. UNCHANGED <<clock, instant, ticks, last, carries, readAt, timer>>
    BY DEF ReadHigh, ReadLow, CheckHigh, LatchUnit, ReadUnit, Precise
  <2>2. instant \in Nat /\ latched \in Nat BY DEF ClType
  <2>3. LowWord \in Nat \ {0} /\ TickPeriod \in Nat \ {0} BY DEF ClocksAsBuilt
  <2>4. truthful
    BY DEF ReadersInv, TimeIsTrue, ReadHigh, ReadLow, CheckHigh, LatchUnit, ReadUnit, Precise
  <2>5. truthful' => TimeIsTrue' BY DEF TimeIsTrue
  <2> QED BY ONLY <2>1, <2>2, <2>3, <2>4, <2>5
<1>1. CASE ReadHigh(r) \/ ReadLow(r) \/ CheckHigh(r)
  <2>0. clock = "mtime" /\ Sampled(r, LowWord) /\ latched' = latched
    BY <1>1 DEF ReadHigh, ReadLow, CheckHigh, ReadersInv
  <2>1. /\ reader' \in [Readers -> ReaderType]
        /\ \A s \in Readers \ {r} : reader'[s] = reader[s]
        /\ Sampled(r, LowWord)' /\ (truthful => truthful')
    <3> DEFINE upper == instant \div LowWord
               lower == instant % LowWord
    <3>1. \/ /\ reader[r].at \in {"out", "again"}
             /\ StartsReading(r, "low", upper, 0)
             /\ UNCHANGED truthful
          \/ /\ reader[r].at \in {"low", "counter"}
             /\ reader' = [reader EXCEPT ![r].at = "check", ![r].lo = lower]
             /\ UNCHANGED truthful
          \/ /\ reader[r].at = "check"
             /\ IF upper = reader[r].hi
                  THEN Returns(r, reader[r].hi * LowWord + reader[r].lo)
                  ELSE Goes(r, "again") /\ UNCHANGED truthful
      BY <1>1 DEF ReadHigh, ReadLow, CheckHigh, High, Low
    <3>2. upper = instant \div LowWord /\ lower = instant % LowWord OBVIOUS
    <3> HIDE DEF upper, lower
    <3>3. ClType BY DEF ClInv
    <3> QED BY ONLY <3>1, <3>2, <3>3, <2>0, <1>0, ClocksAsBuilt, r \in Readers, SampleStep
  <2>2. \A s \in Readers : Sampled(s, LowWord)'
    <3>1. ASSUME NEW s \in Readers \ {r} PROVE Sampled(s, LowWord)'
      BY <1>0, <2>0, <2>1, SampledLater DEF ReadersInv
    <3> QED BY <2>1, <3>1
  <2>3. ReadersInv' BY <1>0, <2>0, <2>1, <2>2 DEF ReadersInv
  <2>4. ClType' BY <1>0, <2>0, <2>1 DEF ClType, timer
  <2> QED BY <1>0, <2>0, <2>3, <2>4 DEF Widened, Rearmed, Compares, timer
<1>2. CASE Precise(r)
  <2>0. clock = "systick" /\ Sampled(r, TickPeriod) /\ latched' = latched
    BY <1>2 DEF Precise, ReadersInv
  <2>t. ticks = instant \div TickPeriod
    <3>1. instant \div TickPeriod \in Nat BY ONLY <1>0, Divided
    <3>2. ticks \in Nat BY DEF ClType
    <3> QED BY <1>2, <2>0, <3>1, <3>2 DEF ReadersInv, Precise, TickDue
  <2>1. /\ reader' \in [Readers -> ReaderType]
        /\ \A s \in Readers \ {r} : reader'[s] = reader[s]
        /\ Sampled(r, TickPeriod)' /\ (truthful => truthful')
    <3> DEFINE upper == instant \div TickPeriod
               lower == instant % TickPeriod
    <3>1. \/ /\ reader[r].at \in {"out", "again"}
             /\ StartsReading(r, "counter", upper, 0)
             /\ UNCHANGED truthful
          \/ /\ reader[r].at \in {"low", "counter"}
             /\ reader' = [reader EXCEPT ![r].at = "check", ![r].lo = lower]
             /\ UNCHANGED truthful
          \/ /\ reader[r].at = "check"
             /\ IF upper = reader[r].hi
                  THEN Returns(r, reader[r].hi * TickPeriod + reader[r].lo)
                  ELSE Goes(r, "again") /\ UNCHANGED truthful
      BY <1>2, <2>t DEF Precise
    <3>2. upper = instant \div TickPeriod /\ lower = instant % TickPeriod OBVIOUS
    <3> HIDE DEF upper, lower
    <3>3. ClType BY DEF ClInv
    <3> QED BY ONLY <3>1, <3>2, <3>3, <2>0, <1>0, ClocksAsBuilt, r \in Readers, SampleStep
  <2>2. \A s \in Readers : Sampled(s, TickPeriod)'
    <3>1. ASSUME NEW s \in Readers \ {r} PROVE Sampled(s, TickPeriod)'
      BY <1>0, <2>0, <2>1, SampledLater DEF ReadersInv
    <3> QED BY <2>1, <3>1
  <2>3. ReadersInv' BY <1>0, <2>0, <2>1, <2>2 DEF ReadersInv
  <2>4. ClType' BY <1>0, <2>0, <2>1 DEF ClType, timer
  <2> QED BY <1>0, <2>0, <2>3, <2>4 DEF Widened, Rearmed, Compares, timer
<1>3. CASE LatchUnit(r) \/ ReadUnit(r)
  <2>0. clock = "systimer" /\ Latched(r) /\ latched <= instant
    BY <1>3 DEF LatchUnit, ReadUnit, ReadersInv
  <2>a. \/ reader[r].at = "out" /\ LatchUnit(r)
        \/ reader[r].at # "out" /\ ReadUnit(r)
    BY <1>3 DEF LatchUnit, ReadUnit
  <2>1. /\ reader' \in [Readers -> ReaderType]
        /\ \A s \in Readers \ {r} : reader'[s] = reader[s]
        /\ Latched(r)' /\ (truthful => truthful')
        /\ latched' \in latched .. instant
    <3>1. ClType BY DEF ClInv
    <3> QED BY ONLY <3>1, <2>0, <2>a, ClocksAsBuilt, r \in Readers, UnitStep
  <2>2. \A s \in Readers : Latched(s)'
    <3>1. ASSUME NEW s \in Readers \ {r} PROVE Latched(s)'
      <4>1. /\ Latched(s) /\ reader'[s] = reader[s] /\ latched' \in Nat /\ latched <= latched'
            /\ instant' \in Nat
            /\ reader[s].at # "out" => instant' < reader[s].from + LowWord
        <5>1. Latched(s) /\ instant' = instant BY <1>0, <2>0 DEF ReadersInv
        <5>2. latched' \in Nat /\ latched <= latched' BY <1>0, <2>1
        <5>3. reader[s].at # "out" => instant < reader[s].from + LowWord BY <5>1 DEF Latched
        <5> QED BY <1>0, <2>1, <5>1, <5>2, <5>3
      <4> QED BY <4>1, LatchedLater
    <3> QED BY <2>1, <3>1
  <2>3. ReadersInv' BY <1>0, <2>0, <2>1, <2>2 DEF ReadersInv
  <2>4. ClType' BY <1>0, <2>0, <2>1 DEF ClType, timer
  <2> QED BY <1>0, <2>0, <2>3, <2>4 DEF Widened, Rearmed, Compares, timer
<1> QED BY <1>1, <1>2, <1>3

LEMMA ClNextInv == ASSUME ClInv, ClocksAsBuilt, ClStep \/ UNCHANGED clocks PROVE ClInv'
<1> USE DEF ClInv
<1>r. Reading \subseteq Readers BY DEF Reading, ClocksAsBuilt
<1>1. ASSUME NEW r \in Reading, NowUs(r) PROVE ClInv'
  <2> DEFINE x == instant - Lag[r]
  <2>2. /\ UNCHANGED <<clock, instant, reader, latched, ticks, timer>>
        /\ clock = "ccount" /\ now_us(x) /\ instant >= Lag[r]
    BY <1>1 DEF NowUs
  <2>0. /\ instant \in Nat /\ Lag[r] \in Nat /\ readAt \in Nat /\ TickPeriod \in Nat
        /\ overslept \in BOOLEAN
    BY <1>r DEF ClType, ClocksAsBuilt
  <2>a. x \in Nat /\ x <= instant BY <2>0, <2>2
  <2>b. CoresAgree => x = instant BY <1>r, <2>0 DEF CoresAgree
  <2> HIDE DEF x
  <2>c. overslept' = overslept BY <2>2 DEF timer
  <2>1. /\ Widened' /\ TimeIsTrue'
        /\ last' \in Nat /\ carries' \in Nat /\ readAt' = instant
    BY <2>0, <2>2, <2>a, <2>b, <2>c, CcountStep DEF ReadersInv
  <2>3. ClType' BY <2>0, <2>1, <2>2 DEF ClType, timer
  <2>4. ReadersInv' BY <2>1, <2>2 DEF ReadersInv
  <2>5. Compares' BY <2>0, <2>1, <2>2 DEF Compares, timer
  <2> QED BY <2>1, <2>2, <2>3, <2>4, <2>5 DEF Rearmed, timer
<1>2. CASE SysTickHandler
  <2>1. /\ UNCHANGED <<clock, instant, reader, truthful, latched, last, carries, readAt, timer>>
        /\ clock = "systick" /\ ticks' = ticks + 1 /\ ticks < instant \div TickPeriod
        /\ ticks \in Nat /\ TickPeriod \in Nat \ {0} /\ instant \in Nat
    BY <1>2 DEF SysTickHandler, TickDue, ClType, ClocksAsBuilt
  <2>2. instant \div TickPeriod \in Nat BY ONLY <2>1, Divided
  <2>3. ClType' BY <2>1 DEF ClType, timer
  <2>4. \A r \in Readers : Sampled(r, TickPeriod)'
    BY <2>1 DEF ReadersInv, Sampled, HighRead, BothRead
  <2>5. ReadersInv' BY <2>1, <2>2, <2>4 DEF ReadersInv, TimeIsTrue
  <2> QED BY <2>1, <2>3, <2>5 DEF Widened, Rearmed, Compares, timer
<1>3. CASE ClintIrq \/ WriteMtimecmp
  <2>1. Rearmed' /\ cmp' \in Nat /\ prev' \in Nat /\ irq' \in IrqType
    BY <1>3, ClintStep
  <2>2. UNCHANGED <<clock, instant, readings>> /\ clock = "mtimecmp"
    BY <1>3 DEF ClintIrq, WriteMtimecmp
  <2>4. overslept' \in BOOLEAN BY <1>3 DEF ClintIrq, WriteMtimecmp, ClType
  <2>3. ClType' BY <2>1, <2>2, <2>4 DEF ClType, readings, IrqType
  <2> QED BY <2>1, <2>2, <2>3 DEF ReadersInv, Widened, Compares, readings, TimeIsTrue
<1>4. CASE CcompareIrq
  <2>1. /\ Compares' /\ cmp' \in Nat /\ prev' \in Nat /\ irq' \in IrqType
        /\ overslept' \in BOOLEAN
    BY <1>4, CcompareStep
  <2>2. /\ UNCHANGED <<clock, instant, reader, latched, ticks>> /\ clock = "ccount"
        /\ now_us(instant) /\ (overslept => overslept')
    BY <1>4 DEF CcompareIrq
  <2>0. instant \in Nat BY DEF ClType
  <2>4. /\ Widened' /\ TimeIsTrue'
        /\ last' \in Nat /\ carries' \in Nat /\ readAt' = instant
    BY <2>0, <2>1, <2>2, CcountStep DEF ReadersInv
  <2>3. ClType' BY <2>0, <2>1, <2>2, <2>4 DEF ClType, IrqType
  <2>5. ReadersInv' BY <2>2, <2>4 DEF ReadersInv
  <2> QED BY <2>1, <2>2, <2>3, <2>4, <2>5 DEF Rearmed
<1>5. CASE UNCHANGED clocks
  BY <1>5 DEF clocks, readings, timer, ClType, ReadersInv, Sampled, HighRead, BothRead, Latched,
              Widened, Rearmed, Compares, TimeIsTrue, CoresAgree
<1> QED BY <1>r, <1>1, <1>2, <1>3, <1>4, <1>5, ReadStep, PassStep DEF ClStep

THEOREM ClInvariance == ASSUME ClocksAsBuilt PROVE DevSpec => []ClInv
<1>1. DevInit => ClInv BY ClInitInv DEF DevInit
<1>2. ClInv /\ [DevNext]_devices => ClInv' BY PartsApart, ClNextInv
<1> QED BY <1>1, <1>2, PTL DEF DevSpec

\* Every reading of a clock is the time at a moment of the call, whatever words of
\* it change in between (read_mtime, systimer_ticks, now_micros_precise, now_us),
\* and the compare register that a tick's handler leaves is not more than a period
\* away (write_mtimecmp, on_timer_irq), however late a critical section made the
\* handler.  The one exception is the esp32s3's handler that is a period late as
\* the count comes round between the two times it compares; now_us also needs
\* the cores' counts to agree.
THEOREM ClocksStayTrue == ASSUME ClocksAsBuilt PROVE DevSpec => []ClocksAreTrue
<1>1. ClInv => ClocksAreTrue
  <2> SUFFICES ASSUME ClInv PROVE TickStaysArmed
    BY DEF ClInv, ReadersInv, ClocksAreTrue
  <2> USE DEF ClInv
  <2>0. /\ LowWord \in Nat \ {0} /\ TickPeriod \in 1 .. LowWord - 1 /\ instant \in Nat
        /\ cmp \in Nat /\ prev \in Nat
    BY DEF ClType, ClocksAsBuilt
  <2>1. CASE clock = "ccount" /\ ~irq.pending /\ ~overslept
    <3>1. PICK e \in 1 .. TickPeriod : cmp = (instant + e) % LowWord BY <2>1 DEF Compares
    <3> DEFINE i == instant % LowWord
               j == LowWord - i
    <3>2. i \in 0 .. LowWord - 1 BY ONLY <2>0, Divided
    <3>3. i % LowWord = instant % LowWord BY ONLY <2>0, <3>2, SmallRemainder
    <3>4. cmp < LowWord /\ i \in Nat /\ e \in Nat BY <2>0, <2>1, <3>2 DEF Compares
    <3>5. cmp % LowWord = cmp BY ONLY <2>0, <3>4, SmallRemainder, cmp \in 0 .. LowWord - 1
    <3> HIDE DEF i
    <3>6. (i + e) % LowWord = (instant + e) % LowWord
      <4>1. LowWord \in Nat \ {0} /\ i \in Nat /\ instant \in Nat /\ e \in Nat BY <2>0, <3>4
      <4> QED BY ONLY <4>1, <3>3, AddedRemainder
    <3>7. i + e \in Nat /\ j \in Nat /\ cmp % LowWord = (i + e) % LowWord
      BY <2>0, <3>1, <3>2, <3>4, <3>5, <3>6
    <3>8. (cmp + j) % LowWord = ((i + e) + j) % LowWord
      <4> DEFINE k == i + e
      <4>1. LowWord \in Nat \ {0} /\ cmp \in Nat /\ k \in Nat /\ j \in Nat BY <2>0, <3>7
      <4>2. cmp % LowWord = k % LowWord BY <3>7
      <4> HIDE DEF k, j
      <4>3. (cmp + j) % LowWord = (k + j) % LowWord BY ONLY <4>1, <4>2, AddedRemainder
      <4> QED BY ONLY <4>3 DEF k
    <3>9. (i + e) + j = LowWord * 1 + e BY <2>0, <3>2, <3>4
    <3>10. (LowWord * 1 + e) % LowWord = e
      BY ONLY <2>0, <3>1, Remainder, 1 \in Nat, e \in 0 .. LowWord - 1
    <3>11. cmp + LowWord - i = cmp + j BY <2>0, <3>2
    <3>12. Low(cmp + LowWord - Low(instant)) = e
      BY <3>8, <3>9, <3>10, <3>11 DEF Low, i
    <3> QED BY <2>1, <3>12 DEF TickStaysArmed
  <2>2. CASE clock = "mtimecmp" /\ irq.at = "out"
    <3>1. cmp - instant <= TickPeriod BY <2>0, <2>2 DEF Rearmed
    <3> QED BY <2>2, <3>1 DEF TickStaysArmed
  <2> QED BY <2>1, <2>2 DEF TickStaysArmed
<1> QED BY <1>1, ClInvariance, PTL

-----------------------------------------------------------------------------
(* The console.                                                            *)

\* The tasks that write run on hart 0, which takes the UART's interrupt.
ConsoleAsBuilt ==
  /\ Uarts \subseteq {"rp2040", "lm3s6965", "mps2", "usart", "ns16550", "polled"}
  /\ TX_CAPACITY \in Nat /\ TX_CAPACITY > 1 /\ MessageLengths \subseteq Nat
  /\ WriterHarts = {0} /\ Nobody \notin Pollers

Actors == {"writer", "isr"}

\* A byte popped and not yet written to the data register.
Holding(c) == at[c] = "got" /\ hand[c] # NoByte

ConType ==
  /\ uart \in {"rp2040", "lm3s6965", "mps2", "usart", "ns16550", "polled"}
  /\ head \in Nat /\ tail \in Nat /\ head <= tail /\ tail - head < TX_CAPACITY
  /\ slots \in [0 .. TX_CAPACITY - 1 -> Nat]
  /\ wire \in Seq(Nat) /\ thr \in Nat /\ (Immediate => thr = NoByte)
  /\ at \in [Actors -> {"out", "push", "load", "take", "got", "kick", "test"}]
  /\ at["writer"] # "test"
  /\ hand \in [Actors -> Nat] /\ mark \in [Actors -> Nat]
  /\ hart = 0 /\ toSend \in Nat /\ written = tail /\ then \in {"push", "kick", "flush"}

\* The writer and the handler take turns; whoever pops has the ring's oldest.
ConTurns ==
  /\ at["writer"] = "out" \/ at["isr"] = "out"
  /\ halted => at["writer"] = "out" /\ at["isr"] = "out" /\ head = tail
  /\ then = "push" =>
       /\ at["writer"] \in {"load", "take", "got"} => toSend > 0
       /\ at["writer"] = "load" => head # tail
       /\ at["writer"] = "got" => hand["writer"] # NoByte
  /\ \A c \in Actors :
       /\ at[c] = "take" => head < tail /\ mark[c] = head /\ hand[c] = head + 1
       /\ at[c] = "got" => IF hand[c] = NoByte THEN head = tail ELSE hand[c] = head

\* The ring has the bytes from head on, the wire and the holding register those
\* before.
Shipped == Len(wire) + (IF thr = NoByte THEN 0 ELSE 1)
ConBytes ==
  /\ \A b \in head .. tail - 1 : slots[b % TX_CAPACITY] = b + 1
  /\ \A i \in 1 .. Len(wire) : wire[i] = i
  /\ thr # NoByte => thr = Len(wire) + 1
  /\ Shipped = IF \E c \in Actors : Holding(c) THEN head - 1 ELSE head

\* A transmit interrupt is to come while the ring has bytes.
Comes == uart = "usart" \/ txis \/ thr # NoByte
ConWakes ==
  head # tail =>
    /\ at["writer"] = "out" => txim
    /\ at["writer"] = "out" /\ at["isr"] \in {"out", "test"} => Comes
    /\ at["writer"] = "kick" => Comes

ConInv == ConType /\ ConTurns /\ ConBytes /\ ConWakes

\* The same of the boards that poll: the messages so far are in pairs, but for
\* the one in the critical section.
PollInv ==
  /\ poller \in [Pollers -> {"out", "locked", "unlocked", "locked2", "unlocked2", "unlock", "done"}]
  /\ sent \in Seq(Pollers)
  /\ \A p \in Pollers : poller[p] \in {"locked2", "unlocked2"} <=> section = p
  /\ \E m \in Nat :
       /\ section = Nobody => Len(sent) = 2 * m
       /\ section # Nobody => section \in Pollers /\ Len(sent) = 2 * m + 1 /\ sent[2 * m + 1] = section
       /\ \A i \in 1 .. m : sent[2 * i - 1] = sent[2 * i]

LEMMA ConInitInv == ASSUME ConsoleAsBuilt, ConInit PROVE ConInv /\ PollInv
<1> USE DEF ConsoleAsBuilt, ConInit
<1>1. /\ at \in [Actors -> {"out"}] /\ hand \in [Actors -> {0}] /\ mark \in [Actors -> {0}]
  BY DEF Actors, NoByte
<1>2. ConType
  <2>1. slots \in [0 .. TX_CAPACITY - 1 -> Nat] BY DEF NoByte
  <2>2. wire \in Seq(Nat) BY EmptySeq
  <2>3. uart \in {"rp2040", "lm3s6965", "mps2", "usart", "ns16550", "polled"} OBVIOUS
  <2>4. at["writer"] = "out" BY <1>1 DEF Actors
  <2> QED BY <1>1, <2>1, <2>2, <2>3, <2>4 DEF ConType, NoByte
<1>3. ConTurns BY <1>1 DEF ConTurns, Actors
<1>4. ConBytes
  <2>1. Len(wire) = 0 BY EmptySeq
  <2> QED BY <1>1, <2>1 DEF ConBytes, Shipped, Holding, NoByte
<1>5. ConWakes BY DEF ConWakes
<1>6. PollInv
  <2>1. sent \in Seq(Pollers) /\ Len(sent) = 0 BY EmptySeq
  <2>2. 0 = 2 * 0 OBVIOUS
  <2> QED BY <2>1, <2>2 DEF PollInv
<1> QED BY <1>2, <1>3, <1>4, <1>5, <1>6 DEF ConInv

\* Where an actor goes.
LEMMA Moved ==
  ASSUME ConType, NEW c \in Actors, NEW place, Move(c, place)
  PROVE  at'[c] = place /\ \A d \in Actors \ {c} : at'[d] = at[d]
BY DEF ConType, Move

\* A byte is written to the data register, or leaves it.
WireInv ==
  /\ wire \in Seq(Nat) /\ thr \in Nat /\ (Immediate => thr = NoByte)
  /\ \A i \in 1 .. Len(wire) : wire[i] = i
  /\ thr # NoByte => thr = Len(wire) + 1

LEMMA WireGrows ==
  ASSUME wire \in Seq(Nat), \A i \in 1 .. Len(wire) : wire[i] = i,
         wire' = Append(wire, Len(wire) + 1)
  PROVE  /\ wire' \in Seq(Nat) /\ Len(wire') = Len(wire) + 1
         /\ \A i \in 1 .. Len(wire') : wire'[i] = i
<1>1. Len(wire) \in Nat /\ Len(wire) + 1 \in Nat BY LenProperties
<1>2. /\ wire' \in Seq(Nat) /\ Len(wire') = Len(wire) + 1
      /\ \A i \in 1 .. Len(wire) : wire'[i] = wire[i]
      /\ wire'[Len(wire) + 1] = Len(wire) + 1
  BY <1>1, AppendProperties
<1>3. ASSUME NEW i \in 1 .. Len(wire') PROVE wire'[i] = i
  <2>1. i \in 1 .. Len(wire) \/ i = Len(wire) + 1 BY <1>1, <1>2, <1>3
  <2> QED BY <1>2, <2>1
<1> QED BY <1>2, <1>3

LEMMA Emits ==
  ASSUME WireInv, Emit(Shipped + 1), uart' = uart
  PROVE  WireInv' /\ Shipped' = Shipped + 1 /\ Comes' /\ txim' = txim
<1>0. Len(wire) \in Nat BY LenProperties DEF WireInv
<1>i. Immediate' <=> Immediate BY DEF Immediate
<1>1. CASE Immediate
  <2>1. thr = NoByte /\ Shipped = Len(wire) BY <1>0, <1>1 DEF WireInv, Shipped
  <2>2. wire' = Append(wire, Len(wire) + 1) /\ txis' = TRUE /\ thr' = thr /\ txim' = txim
    BY <1>1, <2>1 DEF Emit, SendNow
  <2>3. /\ wire' \in Seq(Nat) /\ Len(wire') = Len(wire) + 1
        /\ \A i \in 1 .. Len(wire') : wire'[i] = i
    BY <2>2, WireGrows DEF WireInv
  <2> QED BY <1>0, <1>i, <2>1, <2>2, <2>3 DEF WireInv, Shipped, Comes
<1>2. CASE ~Immediate
  <2>1. /\ thr = NoByte /\ thr' = Shipped + 1 /\ wire' = wire /\ txim' = txim
    BY <1>2 DEF Emit, Hold
  <2>2. Shipped = Len(wire) BY <1>0, <2>1 DEF Shipped
  <2>3. thr' # NoByte BY <1>0, <2>1, <2>2 DEF NoByte
  <2> QED BY <1>0, <1>i, <1>2, <2>1, <2>2, <2>3 DEF WireInv, Shipped, Comes
<1> QED BY <1>1, <1>2

\* The ring, for whoever pops.
LEMMA RingKept ==
  ASSUME ConType, \A b \in head .. tail - 1 : slots[b % TX_CAPACITY] = b + 1,
         head' \in Nat, head <= head', UNCHANGED <<tail, slots>>
  PROVE  \A b \in head' .. tail' - 1 : slots'[b % TX_CAPACITY] = b + 1
BY DEF ConType

\* ... and for the writer, who does not write over a byte of it.
LEMMA RingGrows ==
  ASSUME ConType, ConsoleAsBuilt, \A b \in head .. tail - 1 : slots[b % TX_CAPACITY] = b + 1,
         tail - head < TX_CAPACITY - 1, head' = head, tail' = tail + 1,
         slots' = [slots EXCEPT ![tail % TX_CAPACITY] = tail + 1]
  PROVE  /\ slots' \in [0 .. TX_CAPACITY - 1 -> Nat]
         /\ \A b \in head' .. tail' - 1 : slots'[b % TX_CAPACITY] = b + 1
<1>0. head \in Nat /\ tail \in Nat /\ head <= tail /\ TX_CAPACITY \in Nat \ {0}
  BY DEF ConType, ConsoleAsBuilt
<1>1. tail % TX_CAPACITY \in 0 .. TX_CAPACITY - 1 BY ONLY <1>0, Divided
<1>2. slots' \in [0 .. TX_CAPACITY - 1 -> Nat] /\ slots'[tail % TX_CAPACITY] = tail + 1
  BY <1>0, <1>1 DEF ConType
<1>3. ASSUME NEW b \in head .. tail - 1 PROVE slots'[b % TX_CAPACITY] = b + 1
  <2>1. b \in Nat /\ b <= tail /\ tail < b + TX_CAPACITY /\ b # tail BY <1>0, <1>3
  <2>2. b % TX_CAPACITY # tail % TX_CAPACITY BY ONLY <1>0, <2>1, SameRemainder
  <2>3. b % TX_CAPACITY \in 0 .. TX_CAPACITY - 1 BY ONLY <1>0, <2>1, Divided
  <2> QED BY <1>3, <2>2, <2>3 DEF ConType
<1>4. ASSUME NEW b \in head' .. tail' - 1 PROVE b \in head .. tail - 1 \/ b = tail
  BY <1>0, <1>4
<1> QED BY <1>2, <1>3, <1>4

\* The holding register's byte goes out.
LEMMA ShiftKeeps == ASSUME ConInv, Shift PROVE ConInv'
<1> USE DEF ConInv
<1>1. /\ thr = Len(wire) + 1 /\ thr # NoByte /\ wire' = Append(wire, Len(wire) + 1)
      /\ thr' = NoByte /\ txis' = TRUE
      /\ UNCHANGED <<uart, head, tail, slots, txim, at, hand, mark, hart, toSend, then, written, halted>>
  BY DEF Shift, ConBytes, txChannel, pops, writer
<1>2. /\ wire' \in Seq(Nat) /\ Len(wire') = Len(wire) + 1
      /\ \A i \in 1 .. Len(wire') : wire'[i] = i
  BY <1>1, WireGrows DEF ConType, ConBytes
<1>3. ConType' BY <1>1, <1>2 DEF ConType, NoByte
<1>4. Shipped' = Shipped
  <2>1. Len(wire) \in Nat BY LenProperties DEF ConType
  <2> QED BY <1>1, <1>2, <2>1 DEF Shipped
<1>5. ConBytes'
  <2>1. \A c \in Actors : Holding(c)' <=> Holding(c) BY <1>1 DEF Holding
  <2>2. \A b \in head' .. tail' - 1 : slots'[b % TX_CAPACITY] = b + 1 BY <1>1 DEF ConBytes
  <2>3. Shipped' = IF \E c \in Actors : Holding(c)' THEN head' - 1 ELSE head'
    BY <1>1, <1>4, <2>1 DEF ConBytes
  <2> QED BY <1>1, <1>2, <2>2, <2>3 DEF ConBytes
<1>6. ConTurns' BY <1>1 DEF ConTurns
<1>7. ConWakes' BY <1>1 DEF ConWakes, Comes
<1> QED BY <1>3, <1>5, <1>6, <1>7

\* Popping, by either.
LEMMA LoadKeeps ==
  ASSUME ConInv, ConsoleAsBuilt, NEW c \in Actors, Load(c) PROVE ConInv'
<1> USE DEF ConInv
<1>0. /\ at[c] = "load" /\ \A d \in Actors \ {c} : at[d] = "out"
      /\ UNCHANGED <<uart, head, tail, slots, wire, thr, txim, txis, hart, toSend, then, written, halted>>
      /\ head \in Nat /\ tail \in Nat /\ head <= tail /\ TX_CAPACITY \in Nat \ {0} /\ ~halted
  BY DEF Load, ConTurns, Actors, txChannel, txUart, writer, ConType, ConsoleAsBuilt
<1>h. \A d \in Actors : ~Holding(d) BY <1>0 DEF Holding
<1>1. CASE head = tail
  <2>1. /\ hand' = [hand EXCEPT ![c] = NoByte] /\ Move(c, "got") /\ mark' = mark
    BY <1>1 DEF Load
  <2>2. /\ at' \in [Actors -> {"out", "push", "load", "take", "got", "kick", "test"}]
        /\ at'[c] = "got" /\ \A d \in Actors \ {c} : at'[d] = "out"
    BY <1>0, <2>1 DEF Move, ConType
  <2>3. hand' \in [Actors -> Nat] /\ hand'[c] = NoByte BY <2>1 DEF ConType, NoByte
  <2>4. \A d \in Actors : ~Holding(d)' BY <2>2, <2>3 DEF Holding
  <2>5. ~(c = "writer" /\ then = "push") BY <1>0, <1>1 DEF ConTurns
  <2>6. ConType' BY <1>0, <2>1, <2>2, <2>3 DEF ConType, Immediate, Actors
  <2>7. ConTurns' BY <1>0, <1>1, <2>2, <2>3, <2>5 DEF ConTurns, Actors
  <2>8. ConBytes' BY <1>0, <1>h, <2>4 DEF ConBytes, Shipped
  <2>9. ConWakes' BY <1>0, <1>1 DEF ConWakes
  <2> QED BY <2>6, <2>7, <2>8, <2>9
<1>2. CASE head # tail
  <2>0. slots[head % TX_CAPACITY] = head + 1
    <3>1. head \in head .. tail - 1 BY <1>0, <1>2
    <3> QED BY <3>1 DEF ConBytes
  <2>1. /\ hand' = [hand EXCEPT ![c] = head + 1] /\ Move(c, "take")
        /\ mark' = [mark EXCEPT ![c] = head]
    BY <1>2, <2>0 DEF Load
  <2>2. /\ at' \in [Actors -> {"out", "push", "load", "take", "got", "kick", "test"}]
        /\ at'[c] = "take" /\ \A d \in Actors \ {c} : at'[d] = "out"
    BY <1>0, <2>1 DEF Move, ConType
  <2>3. hand' \in [Actors -> Nat] /\ hand'[c] = head + 1 BY <1>0, <2>1 DEF ConType
  <2>m. mark' \in [Actors -> Nat] /\ mark'[c] = head BY <1>0, <2>1 DEF ConType
  <2>4. \A d \in Actors : ~Holding(d)' BY <2>2 DEF Holding
  <2>6. ConType' BY <1>0, <2>2, <2>3, <2>m DEF ConType, Immediate, Actors
  <2>7. ConTurns' BY <1>0, <1>2, <2>2, <2>3, <2>m DEF ConTurns, Actors
  <2>8. ConBytes' BY <1>0, <1>h, <2>4 DEF ConBytes, Shipped
  <2>9. ConWakes' BY <1>0, <2>2 DEF ConWakes, Actors
  <2> QED BY <2>6, <2>7, <2>8, <2>9
<1> QED BY <1>1, <1>2

LEMMA TakeKeeps ==
  ASSUME ConInv, ConsoleAsBuilt, NEW c \in Actors, Take(c) PROVE ConInv'
<1> USE DEF ConInv
<1>0. /\ at[c] = "take" /\ \A d \in Actors \ {c} : at[d] = "out"
      /\ UNCHANGED <<uart, tail, slots, wire, thr, txim, txis, hand, mark, hart, toSend, then, written, halted>>
      /\ head \in Nat /\ tail \in Nat /\ head < tail /\ ~halted
      /\ head' = head + 1 /\ hand[c] = head + 1
  BY DEF Take, ConTurns, Actors, txUart, writer, ConType
<1>1. /\ at' \in [Actors -> {"out", "push", "load", "take", "got", "kick", "test"}]
      /\ at'[c] = "got" /\ \A d \in Actors \ {c} : at'[d] = "out"
  BY <1>0 DEF Take, Move, ConType
<1>2. \A d \in Actors : ~Holding(d) BY <1>0 DEF Holding
<1>3. Holding(c)' BY <1>0, <1>1 DEF Holding, NoByte
<1>4. ConType'
  <2>1. head' \in Nat /\ head' <= tail' /\ tail' - head' < TX_CAPACITY
    BY <1>0 DEF ConType, ConsoleAsBuilt
  <2>2. at'["writer"] # "test" BY <1>0, <1>1 DEF Actors
  <2>3. Immediate' <=> Immediate BY <1>0 DEF Immediate
  <2> QED BY <1>0, <1>1, <2>1, <2>2, <2>3 DEF ConType
<1>5. ConTurns' BY <1>0, <1>1 DEF ConTurns, Actors, NoByte
<1>6. ConBytes'
  <2>1. \A b \in head' .. tail' - 1 : slots'[b % TX_CAPACITY] = b + 1
    BY <1>0, RingKept DEF ConBytes
  <2>2. Shipped' = head' - 1 BY <1>0, <1>2 DEF ConBytes, Shipped
  <2> QED BY <1>0, <1>3, <2>1, <2>2 DEF ConBytes
<1>7. ConWakes' BY <1>0, <1>1 DEF ConWakes, Actors
<1> QED BY <1>4, <1>5, <1>6, <1>7

\* What a step of the writer or the handler leaves alone.
LEMMA OutsideKeeps ==
  ASSUME ConType, UNCHANGED <<uart, head, tail, slots, wire, thr, txim, hand, mark, hart>>,
         at' \in [Actors -> {"out", "push", "load", "take", "got", "kick", "test"}],
         at'["writer"] # "test", toSend' \in Nat, then' \in {"push", "kick", "flush"},
         written' = written
  PROVE  ConType'
<1>1. Immediate' <=> Immediate BY DEF Immediate
<1> QED BY <1>1 DEF ConType

LEMMA BytesKept ==
  ASSUME ConBytes, UNCHANGED <<head, tail, slots, wire, thr>>,
         (\E c \in Actors : Holding(c)') <=> (\E c \in Actors : Holding(c))
  PROVE  ConBytes'
BY DEF ConBytes, Shipped

\* A step that neither pops a byte nor emits one.
LEMMA PlacesKeep ==
  ASSUME ConInv, NEW c \in Actors, NEW place,
         place \in {"out", "push", "load", "kick", "test"}, c = "writer" => place # "test",
         Move(c, place), at[c] # "got",
         UNCHANGED <<uart, head, tail, slots, wire, thr, txim, hand, mark, hart>>,
         toSend' \in Nat, then' \in {"push", "kick", "flush"}, written' = written
  PROVE  ConType' /\ ConBytes' /\ at'[c] = place /\ \A d \in Actors \ {c} : at'[d] = at[d]
<1> USE DEF ConInv
<1>1. at'[c] = place /\ \A d \in Actors \ {c} : at'[d] = at[d] BY Moved
<1>2. at' \in [Actors -> {"out", "push", "load", "take", "got", "kick", "test"}]
  BY DEF ConType, Move
<1>3. at'["writer"] # "test" BY <1>1 DEF ConType, Actors
<1>4. ConType' BY <1>2, <1>3, OutsideKeeps
<1>5. \A d \in Actors : Holding(d)' <=> Holding(d) BY <1>1 DEF Holding
<1>6. ConBytes' BY <1>5, BytesKept
<1> QED BY <1>1, <1>4, <1>6

LEMMA WriteKeeps ==
  ASSUME ConInv, ConsoleAsBuilt, NEW h \in WriterHarts,
         FlushSync(h) \/ \E n \in MessageLengths : WriteBytes(h, n)
  PROVE  ConInv'
<1> USE DEF ConInv
<1>0. /\ at["writer"] = "out" /\ at["isr"] = "out" /\ ~halted
      /\ UNCHANGED <<uart, head, tail, slots, wire, thr, txim, txis, hand, mark, hart, written, halted>>
  BY DEF WriteBytes, FlushSync, Excluded, ConsoleAsBuilt, txChannel, txUart, ConType
<1>1. toSend' \in Nat /\ then' \in {"push", "kick", "flush"}
  BY DEF WriteBytes, FlushSync, ConType, ConsoleAsBuilt
<1>w. "writer" \in Actors BY DEF Actors
<1>2. CASE \E n \in MessageLengths : WriteBytes(h, n)
  <2>1. Move("writer", "push") BY <1>2 DEF WriteBytes
  <2>2. /\ ConType' /\ ConBytes' /\ at'["writer"] = "push"
        /\ \A d \in Actors \ {"writer"} : at'[d] = at[d]
    BY <1>0, <1>1, <1>w, <2>1, PlacesKeep
  <2>3. at'["isr"] = "out" BY <1>0, <2>2 DEF Actors
  <2>4. ConTurns' BY <1>0, <2>2, <2>3 DEF ConTurns, Actors
  <2>5. ConWakes' BY <2>2, <2>3 DEF ConWakes
  <2> QED BY <2>2, <2>4, <2>5
<1>3. CASE FlushSync(h)
  <2>1. Move("writer", "load") /\ then' = "flush" BY <1>3 DEF FlushSync
  <2>2. /\ ConType' /\ ConBytes' /\ at'["writer"] = "load"
        /\ \A d \in Actors \ {"writer"} : at'[d] = at[d]
    BY <1>0, <1>1, <1>w, <2>1, PlacesKeep
  <2>3. at'["isr"] = "out" BY <1>0, <2>2 DEF Actors
  <2>4. ConTurns' BY <1>0, <2>1, <2>2, <2>3 DEF ConTurns, Actors
  <2>5. ConWakes' BY <2>2, <2>3 DEF ConWakes
  <2> QED BY <2>2, <2>4, <2>5
<1> QED BY <1>2, <1>3

LEMMA PushKeeps == ASSUME ConInv, ConsoleAsBuilt, PushByte PROVE ConInv'
<1> USE DEF ConInv
<1>0. /\ at["writer"] = "push" /\ at["isr"] = "out" /\ ~halted
      /\ UNCHANGED <<uart, head, wire, thr, txim, txis, hand, mark, hart, halted>>
      /\ head \in Nat /\ tail \in Nat /\ toSend \in Nat /\ written = tail
      /\ TX_CAPACITY \in Nat /\ TX_CAPACITY > 1
  BY DEF PushByte, ConTurns, txUart, ConType, ConsoleAsBuilt
<1>w. "writer" \in Actors BY DEF Actors
<1>1. CASE toSend > 0 /\ tail - head < TX_CAPACITY - 1
  <2>1. /\ slots' = [slots EXCEPT ![tail % TX_CAPACITY] = tail + 1] /\ tail' = tail + 1
        /\ toSend' = toSend - 1 /\ written' = tail + 1 /\ UNCHANGED <<then, at>>
    BY <1>0, <1>1 DEF PushByte
  <2>2. /\ slots' \in [0 .. TX_CAPACITY - 1 -> Nat]
        /\ \A b \in head' .. tail' - 1 : slots'[b % TX_CAPACITY] = b + 1
    BY <1>0, <1>1, <2>1, RingGrows DEF ConBytes
  <2>3. /\ tail' \in Nat /\ head' <= tail' /\ tail' - head' < TX_CAPACITY /\ toSend' \in Nat
        /\ written' = tail'
    BY <1>0, <1>1, <2>1 DEF ConType
  <2>4. Immediate' <=> Immediate BY <1>0 DEF Immediate
  <2>5. ConType' BY <1>0, <2>1, <2>2, <2>3, <2>4 DEF ConType
  <2>6. ConTurns' BY <1>0, <2>1 DEF ConTurns, Actors
  <2>7. \A c \in Actors : Holding(c)' <=> Holding(c) BY <1>0, <2>1 DEF Holding
  <2>8. Shipped' = Shipped BY <1>0 DEF Shipped
  <2>9. ConBytes' BY <1>0, <2>2, <2>7, <2>8 DEF ConBytes
  <2>10. ConWakes' BY <1>0, <2>1 DEF ConWakes
  <2> QED BY <2>5, <2>6, <2>9, <2>10
<1>2. CASE ~(toSend > 0 /\ tail - head < TX_CAPACITY - 1)
  <2>1. /\ then' = IF toSend > 0 THEN "push" ELSE "kick"
        /\ Move("writer", "load") /\ UNCHANGED <<slots, tail, toSend, written>>
    BY <1>2 DEF PushByte
  <2>2. toSend > 0 => head # tail BY <1>0, <1>2
  <2>3. /\ ConType' /\ ConBytes' /\ at'["writer"] = "load"
        /\ \A d \in Actors \ {"writer"} : at'[d] = at[d]
    BY <1>0, <1>w, <2>1, PlacesKeep
  <2>4. at'["isr"] = "out" BY <1>0, <2>3 DEF Actors
  <2>5. ConTurns' BY <1>0, <2>1, <2>2, <2>3, <2>4 DEF ConTurns, Actors
  <2>6. ConWakes' BY <2>3, <2>4 DEF ConWakes
  <2> QED BY <2>3, <2>5, <2>6
<1> QED BY <1>1, <1>2

\* A popped byte is written to the data register.
LEMMA HandEmits ==
  ASSUME ConInv, NEW c \in Actors, NEW place, place \in {"out", "push", "load", "kick", "test"},
         c = "writer" => place # "test", at[c] = "got", hand[c] # NoByte, Emit(hand[c]),
         \A d \in Actors \ {c} : at[d] = "out", Move(c, place),
         UNCHANGED <<uart, head, tail, slots, hand, mark, hart, toSend, then, written>>
  PROVE  /\ ConType' /\ ConBytes' /\ Comes' /\ txim' = txim
         /\ at'[c] = place /\ \A d \in Actors \ {c} : at'[d] = "out"
<1> USE DEF ConInv
<1>1. Holding(c) /\ hand[c] = head /\ head \in Nat BY DEF Holding, ConTurns, ConType
<1>2. Shipped = head - 1 BY <1>1 DEF ConBytes
<1>3. hand[c] = Shipped + 1 BY <1>1, <1>2
<1>4. WireInv BY DEF WireInv, ConType, ConBytes
<1>5. WireInv' /\ Shipped' = Shipped + 1 /\ Comes' /\ txim' = txim BY <1>3, <1>4, Emits
<1>6. at'[c] = place /\ \A d \in Actors \ {c} : at'[d] = "out" BY Moved
<1>7. at' \in [Actors -> {"out", "push", "load", "take", "got", "kick", "test"}]
  BY DEF ConType, Move
<1>8. at'["writer"] # "test" BY <1>6 DEF Actors
<1>9. ConType' BY <1>5, <1>7, <1>8 DEF ConType, WireInv
<1>10. \A d \in Actors : ~Holding(d)' BY <1>6 DEF Holding
<1>11. Shipped' = head' BY <1>1, <1>2, <1>5
<1>12. \A b \in head' .. tail' - 1 : slots'[b % TX_CAPACITY] = b + 1 BY DEF ConBytes
<1>13. ConBytes' BY <1>5, <1>10, <1>11, <1>12 DEF ConBytes, WireInv
<1> QED BY <1>5, <1>6, <1>9, <1>13

\* ... and the end of the ring was found instead.
LEMMA NothingKeeps ==
  ASSUME ConInv, NEW c \in Actors, NEW place, place \in {"out", "push", "load", "kick", "test"},
         c = "writer" => place # "test", at[c] = "got", hand[c] = NoByte,
         \A d \in Actors \ {c} : at[d] = "out", Move(c, place),
         UNCHANGED <<uart, head, tail, slots, wire, thr, hand, mark, hart, toSend, then, written>>
  PROVE  /\ ConType' /\ ConBytes' /\ head' = tail'
         /\ at'[c] = place /\ \A d \in Actors \ {c} : at'[d] = "out"
<1> USE DEF ConInv
<1>1. at'[c] = place /\ \A d \in Actors \ {c} : at'[d] = "out" BY Moved
<1>2. at' \in [Actors -> {"out", "push", "load", "take", "got", "kick", "test"}]
  BY DEF ConType, Move
<1>3. at'["writer"] # "test" BY <1>1 DEF Actors
<1>4. Immediate' <=> Immediate BY DEF Immediate
<1>5. ConType' BY <1>2, <1>3, <1>4 DEF ConType
<1>6. \A d \in Actors : ~Holding(d) /\ ~Holding(d)' BY <1>1 DEF Holding
<1>7. ConBytes' BY <1>6, BytesKept
<1>8. head' = tail'
  <2>1. head \in Nat /\ hand[c] = 0 BY DEF ConType, NoByte
  <2> QED BY <2>1 DEF ConTurns
<1> QED BY <1>1, <1>5, <1>7, <1>8

LEMMA PutKeeps == ASSUME ConInv, ConsoleAsBuilt, PutByte PROVE ConInv'
<1> USE DEF ConInv
<1>0. /\ at["writer"] = "got" /\ at["isr"] = "out" /\ ~halted
      /\ UNCHANGED <<uart, head, tail, slots, hand, mark, hart, then>>
      /\ toSend \in Nat /\ then \in {"push", "kick", "flush"}
  BY DEF PutByte, ConTurns, txChannel, ConType
<1>w. "writer" \in Actors /\ \A d \in Actors \ {"writer"} : at[d] = "out" BY <1>0 DEF Actors
<1>1. CASE hand["writer"] # NoByte
  <2> DEFINE place == IF then = "flush" THEN "load" ELSE then
  <2>0. place \in {"push", "kick", "load"} BY <1>0
  <2>1. Emit(hand["writer"]) /\ Move("writer", place) /\ UNCHANGED <<toSend, written, halted>>
    BY <1>1 DEF PutByte
  <2>e. then = "push" => place = "push" OBVIOUS
  <2> HIDE DEF place
  <2>2. /\ ConType' /\ ConBytes' /\ Comes' /\ txim' = txim
        /\ at'["writer"] = place /\ \A d \in Actors \ {"writer"} : at'[d] = "out"
    BY <1>0, <1>w, <1>1, <2>0, <2>1, HandEmits
  <2>3. at'["isr"] = "out" BY <2>2 DEF Actors
  <2>4. ConTurns' BY <1>0, <2>0, <2>1, <2>e, <2>2, <2>3 DEF ConTurns, Actors
  <2>5. ConWakes' BY <2>0, <2>2, <2>3 DEF ConWakes
  <2> QED BY <2>2, <2>4, <2>5
<1>2. CASE hand["writer"] = NoByte
  <2> DEFINE place == IF then = "flush" THEN "out" ELSE then
  <2>1. then # "push" BY <1>0, <1>2 DEF ConTurns
  <2>0. place \in {"out", "kick"} BY <1>0, <2>1
  <2>2. /\ Move("writer", place) /\ halted' = (then = "flush")
        /\ UNCHANGED <<toSend, written, wire, thr, txim, txis>>
    BY <1>2, <2>1 DEF PutByte, txUart
  <2>e. then = "flush" => place = "out" OBVIOUS
  <2> HIDE DEF place
  <2>3. /\ ConType' /\ ConBytes' /\ head' = tail'
        /\ at'["writer"] = place /\ \A d \in Actors \ {"writer"} : at'[d] = "out"
    BY <1>0, <1>w, <1>2, <2>0, <2>2, NothingKeeps
  <2>4. at'["isr"] = "out" BY <2>3 DEF Actors
  <2>5. ConTurns' BY <1>0, <2>0, <2>1, <2>2, <2>e, <2>3, <2>4 DEF ConTurns, Actors
  <2>6. ConWakes' BY <2>3 DEF ConWakes
  <2> QED BY <2>3, <2>5, <2>6
<1> QED BY <1>1, <1>2

LEMMA KickKeeps == ASSUME ConInv, ConsoleAsBuilt, KickTx PROVE ConInv'
<1> USE DEF ConInv
<1>0. /\ at["writer"] = "kick" /\ at["isr"] = "out" /\ ~halted
      /\ txim' = TRUE /\ txis' = (txis \/ Board.edge) /\ Move("writer", "out")
      /\ UNCHANGED <<uart, head, tail, slots, wire, thr, hand, mark, hart, then, toSend, written, halted>>
  BY DEF KickTx, ConTurns, txChannel, writer, ConType
<1>w. "writer" \in Actors BY DEF Actors
<1>1. at'["writer"] = "out" /\ \A d \in Actors \ {"writer"} : at'[d] = at[d]
  BY <1>0, <1>w, Moved
<1>2. at'["isr"] = "out" BY <1>0, <1>1 DEF Actors
<1>3. at' \in [Actors -> {"out", "push", "load", "take", "got", "kick", "test"}]
  BY <1>0 DEF ConType, Move
<1>4. Immediate' <=> Immediate BY <1>0 DEF Immediate
<1>5. ConType' BY <1>0, <1>1, <1>3, <1>4 DEF ConType
<1>6. \A d \in Actors : ~Holding(d) /\ ~Holding(d)' BY <1>0, <1>1, <1>2 DEF Holding, Actors
<1>7. ConBytes' BY <1>0, <1>6, BytesKept
<1>8. ConTurns' BY <1>0, <1>1, <1>2 DEF ConTurns, Actors
<1>9. Comes => Comes' BY <1>0 DEF Comes
<1>10. ConWakes' BY <1>0, <1>1, <1>9 DEF ConWakes
<1> QED BY <1>5, <1>7, <1>8, <1>10

\* The handler.
LEMMA EnterKeeps == ASSUME ConInv, ConsoleAsBuilt, IsrEnter PROVE ConInv'
<1> USE DEF ConInv
<1>0. /\ at["writer"] = "out" /\ at["isr"] = "out" /\ ~halted /\ Move("isr", "test")
      /\ UNCHANGED <<uart, head, tail, slots, wire, thr, txim, txis, hand, mark, hart, then, toSend, written, halted>>
      /\ toSend \in Nat /\ then \in {"push", "kick", "flush"}
  BY DEF IsrEnter, txChannel, txUart, writer, ConType
<1>w. "isr" \in Actors BY DEF Actors
<1>1. /\ ConType' /\ ConBytes' /\ at'["isr"] = "test"
      /\ \A d \in Actors \ {"isr"} : at'[d] = at[d]
  BY <1>0, <1>w, PlacesKeep
<1>2. at'["writer"] = "out" BY <1>0, <1>1 DEF Actors
<1>3. ConTurns' BY <1>0, <1>1, <1>2 DEF ConTurns, Actors
<1>4. ConWakes' BY <1>0, <1>1, <1>2 DEF ConWakes, Comes
<1> QED BY <1>1, <1>3, <1>4

LEMMA TestKeeps == ASSUME ConInv, ConsoleAsBuilt, IsrTx \/ IsrLeave PROVE ConInv'
<1> USE DEF ConInv
<1>0. /\ at["writer"] = "out" /\ at["isr"] = "test" /\ ~halted
      /\ UNCHANGED <<uart, head, tail, slots, wire, thr, txim, hand, mark, hart, then, toSend, written, halted>>
      /\ toSend \in Nat /\ then \in {"push", "kick", "flush"}
  BY DEF IsrTx, IsrLeave, txChannel, txUart, writer, ConType, ConTurns
<1>w. "isr" \in Actors BY DEF Actors
<1>5. CASE IsrTx
  <2>0. Move("isr", "load") BY <1>5 DEF IsrTx
  <2>1. /\ ConType' /\ ConBytes' /\ at'["isr"] = "load"
        /\ \A d \in Actors \ {"isr"} : at'[d] = at[d]
    BY <1>0, <1>w, <2>0, PlacesKeep
  <2>2. at'["writer"] = "out" BY <1>0, <2>1 DEF Actors
  <2>3. ConTurns' BY <1>0, <2>1, <2>2 DEF ConTurns, Actors
  <2>4. ConWakes' BY <1>0, <2>1, <2>2 DEF ConWakes
  <2> QED BY <2>1, <2>3, <2>4
<1>6. CASE IsrLeave
  <2>0. Move("isr", "out") /\ txis' = txis BY <1>6 DEF IsrLeave, txUart
  <2>1. /\ ConType' /\ ConBytes' /\ at'["isr"] = "out"
        /\ \A d \in Actors \ {"isr"} : at'[d] = at[d]
    BY <1>0, <1>w, <2>0, PlacesKeep
  <2>2. at'["writer"] = "out" BY <1>0, <2>1 DEF Actors
  <2>3. ConTurns' BY <1>0, <2>1, <2>2 DEF ConTurns, Actors
  <2>4. ConWakes' BY <1>0, <2>0, <2>1, <2>2 DEF ConWakes, Comes
  <2> QED BY <2>1, <2>3, <2>4
<1> QED BY <1>5, <1>6

LEMMA IsrPutKeeps == ASSUME ConInv, ConsoleAsBuilt, IsrPut PROVE ConInv'
<1> USE DEF ConInv
<1>0. /\ at["writer"] = "out" /\ at["isr"] = "got" /\ ~halted /\ Move("isr", "test")
      /\ UNCHANGED <<uart, head, tail, slots, hand, mark, hart, then, toSend, written, halted>>
  BY DEF IsrPut, txChannel, writer, ConType, ConTurns
<1>w. "isr" \in Actors /\ \A d \in Actors \ {"isr"} : at[d] = "out" BY <1>0 DEF Actors
<1>1. CASE hand["isr"] # NoByte
  <2>1. Emit(hand["isr"]) BY <1>1 DEF IsrPut
  <2>2. /\ ConType' /\ ConBytes' /\ Comes' /\ txim' = txim
        /\ at'["isr"] = "test" /\ \A d \in Actors \ {"isr"} : at'[d] = "out"
    BY <1>0, <1>w, <1>1, <2>1, HandEmits
  <2>3. at'["writer"] = "out" BY <2>2 DEF Actors
  <2>4. ConTurns' BY <1>0, <2>2, <2>3 DEF ConTurns, Actors
  <2>5. head # tail => txim BY <1>0 DEF ConWakes
  <2>6. ConWakes' BY <1>0, <2>2, <2>3, <2>5 DEF ConWakes
  <2> QED BY <2>2, <2>4, <2>6
<1>2. CASE hand["isr"] = NoByte
  <2>1. UNCHANGED <<wire, thr, txis>> BY <1>2 DEF IsrPut
  <2>2. /\ ConType' /\ ConBytes' /\ head' = tail'
        /\ at'["isr"] = "test" /\ \A d \in Actors \ {"isr"} : at'[d] = "out"
    BY <1>0, <1>w, <1>2, <2>1, NothingKeeps
  <2>3. at'["writer"] = "out" BY <2>2 DEF Actors
  <2>4. ConTurns' BY <1>0, <2>2, <2>3 DEF ConTurns, Actors
  <2>5. ConWakes' BY <2>2 DEF ConWakes
  <2> QED BY <2>2, <2>4, <2>5
<1> QED BY <1>1, <1>2

\* What a step changes that the invariant does not mention.
transmit == <<uart, head, tail, slots, wire, thr, txim, txis, at, hand, mark,
              hart, toSend, then, written, halted>>
LEMMA TransmitKept == ASSUME ConInv, UNCHANGED transmit PROVE ConInv'
<1> USE DEF transmit, ConInv
<1>1. ConType' BY DEF ConType, Immediate
<1>2. ConTurns' BY DEF ConTurns
<1>3. ConBytes' BY DEF ConBytes, Shipped, Holding
<1>4. ConWakes' BY DEF ConWakes, Comes
<1> QED BY <1>1, <1>2, <1>3, <1>4

LEMMA ConNextInv == ASSUME ConInv, ConsoleAsBuilt, IrqStep PROVE ConInv'
<1>1. CASE Shift BY <1>1, ShiftKeeps
<1>2. CASE \E c \in {"writer", "isr"} : Load(c) \/ Take(c)
  BY <1>2, LoadKeeps, TakeKeeps DEF Actors
<1>3. CASE \E h \in WriterHarts : FlushSync(h) \/ \E n \in MessageLengths : WriteBytes(h, n)
  BY <1>3, WriteKeeps
<1>4. CASE PushByte BY <1>4, PushKeeps
<1>5. CASE PutByte BY <1>5, PutKeeps
<1>6. CASE KickTx BY <1>6, KickKeeps
<1>7. CASE IsrEnter BY <1>7, EnterKeeps
<1>8. CASE IsrTx \/ IsrLeave BY <1>8, TestKeeps
<1>9. CASE IsrPut BY <1>9, IsrPutKeeps
<1>10. CASE IsrRx \/ RxArrive \/ TryReadByte
  <2>1. UNCHANGED transmit
    BY <1>10 DEF IsrRx, RxArrive, TryReadByte, transmit, txChannel, txUart, pops, writer
  <2> QED BY <2>1, TransmitKept
<1> QED
  BY <1>1, <1>2, <1>3, <1>4, <1>5, <1>6, <1>7, <1>8, <1>9, <1>10 DEF IrqStep

\* A board that polls: each step of a message is its task's, in the section.
LEMMA SentGrows ==
  ASSUME PollInv, ConsoleAsBuilt, NEW p \in Pollers, sent' = Append(sent, p)
  PROVE  /\ sent' \in Seq(Pollers) /\ Len(sent) \in Nat /\ Len(sent') = Len(sent) + 1
         /\ \A i \in 1 .. Len(sent) : sent'[i] = sent[i]
         /\ sent'[Len(sent) + 1] = p
BY AppendProperties, LenProperties DEF PollInv

PollerPlaces == {"out", "locked", "unlocked", "locked2", "unlocked2", "unlock", "done"}

LEMMA PollerMoves ==
  ASSUME PollInv, NEW p \in Pollers, NEW place \in PollerPlaces,
         poller' = [poller EXCEPT ![p] = place]
  PROVE  /\ poller' \in [Pollers -> PollerPlaces] /\ poller'[p] = place
         /\ \A o \in Pollers \ {p} : poller'[o] = poller[o]
BY DEF PollInv, PollerPlaces

LEMMA PollKeeps ==
  ASSUME PollInv, ConsoleAsBuilt, PollStep PROVE PollInv'
<1>1. PICK p \in Pollers : TryLock(p) \/ EnterWrite(p) \/ LeaveWrite(p) \/ Unlock(p)
  BY DEF PollStep
<1>n. Nobody \notin Pollers BY DEF ConsoleAsBuilt
<1>m. PICK m \in Nat :
        /\ section = Nobody => Len(sent) = 2 * m
        /\ section # Nobody => section \in Pollers /\ Len(sent) = 2 * m + 1 /\ sent[2 * m + 1] = section
        /\ \A i \in 1 .. m : sent[2 * i - 1] = sent[2 * i]
  BY DEF PollInv
<1>2. CASE TryLock(p) \/ Unlock(p)
  <2>1. PICK place \in {"locked", "unlocked", "done"} : poller' = [poller EXCEPT ![p] = place]
    BY <1>2 DEF TryLock, Unlock
  <2>2. poller[p] \notin {"locked2", "unlocked2"} /\ UNCHANGED <<section, sent>>
    BY <1>2 DEF TryLock, Unlock
  <2>3. /\ poller' \in [Pollers -> PollerPlaces] /\ poller'[p] = place
        /\ \A o \in Pollers \ {p} : poller'[o] = poller[o]
    BY <2>1, PollerMoves DEF PollerPlaces
  <2> QED BY <2>1, <2>2, <2>3 DEF PollInv, PollerPlaces
<1>3. CASE EnterWrite(p)
  <2>1. PICK place \in {"locked2", "unlocked2"} : poller' = [poller EXCEPT ![p] = place]
    BY <1>3 DEF EnterWrite
  <2>2. section = Nobody /\ section' = p /\ sent' = Append(sent, p) BY <1>3 DEF EnterWrite
  <2>3. /\ poller' \in [Pollers -> PollerPlaces] /\ poller'[p] = place
        /\ \A o \in Pollers \ {p} : poller'[o] = poller[o]
    BY <2>1, PollerMoves DEF PollerPlaces
  <2>4. \A o \in Pollers : poller'[o] \in {"locked2", "unlocked2"} <=> section' = o
    BY <1>n, <2>1, <2>2, <2>3 DEF PollInv
  <2>5. /\ sent' \in Seq(Pollers) /\ Len(sent) = 2 * m /\ Len(sent') = 2 * m + 1
        /\ \A i \in 1 .. Len(sent) : sent'[i] = sent[i]
        /\ sent'[2 * m + 1] = p
    BY <1>m, <2>2, SentGrows
  <2>6. \A i \in 1 .. m : sent'[2 * i - 1] = sent'[2 * i]
    <3> TAKE i \in 1 .. m
    <3>1. 2 * i - 1 \in 1 .. Len(sent) /\ 2 * i \in 1 .. Len(sent) BY <1>m, <2>5
    <3> QED BY <1>m, <2>5, <3>1
  <2>7. section' # Nobody /\ section' \in Pollers BY <1>n, <2>2
  <2> QED BY <1>m, <2>2, <2>3, <2>4, <2>5, <2>6, <2>7 DEF PollInv, PollerPlaces
<1>4. CASE LeaveWrite(p)
  <2>1. /\ poller[p] \in {"locked2", "unlocked2"} /\ section' = Nobody /\ sent' = Append(sent, p)
        /\ poller' = [poller EXCEPT ![p] = IF @ = "locked2" THEN "unlock" ELSE "done"]
    BY <1>4 DEF LeaveWrite
  <2>2. PICK place \in {"unlock", "done"} : poller' = [poller EXCEPT ![p] = place]
    BY <2>1
  <2>3. section = p BY <2>1 DEF PollInv
  <2>4. /\ poller' \in [Pollers -> PollerPlaces] /\ poller'[p] = place
        /\ \A o \in Pollers \ {p} : poller'[o] = poller[o]
    BY <2>2, PollerMoves DEF PollerPlaces
  <2>5. \A o \in Pollers : poller'[o] \in {"locked2", "unlocked2"} <=> section' = o
    BY <1>n, <2>1, <2>2, <2>3, <2>4 DEF PollInv
  <2>6. Len(sent) = 2 * m + 1 /\ sent[2 * m + 1] = p BY <1>m, <1>n, <2>3
  <2>7. /\ sent' \in Seq(Pollers) /\ Len(sent') = 2 * (m + 1)
        /\ \A i \in 1 .. Len(sent) : sent'[i] = sent[i]
        /\ sent'[2 * (m + 1)] = p
    BY <1>m, <2>1, <2>6, SentGrows
  <2>8. \A i \in 1 .. m + 1 : sent'[2 * i - 1] = sent'[2 * i]
    <3> TAKE i \in 1 .. m + 1
    <3>1. CASE i \in 1 .. m
      <4>1. 2 * i - 1 \in 1 .. Len(sent) /\ 2 * i \in 1 .. Len(sent) BY <1>m, <2>6, <3>1
      <4> QED BY <1>m, <2>7, <3>1, <4>1
    <3>2. CASE i = m + 1
      <4>1. 2 * i - 1 = 2 * m + 1 /\ 2 * m + 1 \in 1 .. Len(sent) BY <1>m, <2>6, <3>2
      <4> QED BY <2>6, <2>7, <3>2, <4>1
    <3> QED BY <1>m, <3>1, <3>2
  <2>9. m + 1 \in Nat BY <1>m
  <2> QED BY <2>1, <2>4, <2>5, <2>7, <2>8, <2>9 DEF PollInv, PollerPlaces
<1> QED BY <1>1, <1>2, <1>3, <1>4

LEMMA PollKept == ASSUME PollInv, UNCHANGED polling PROVE PollInv'
BY DEF PollInv, polling

LEMMA PollingApart == ASSUME IrqStep PROVE UNCHANGED polling /\ uart' = uart
BY DEF IrqStep, Shift, Load, Take, FlushSync, WriteBytes, PushByte, PutByte, KickTx, IsrEnter,
       IsrTx, IsrRx, IsrLeave, IsrPut, RxArrive, TryReadByte

\* The ring of a board that polls stays empty.
ConsoleInv == ConInv /\ PollInv /\ (uart = "polled" => head = tail)

THEOREM ConInvariance == ASSUME ConsoleAsBuilt PROVE DevSpec => []ConsoleInv
<1>1. DevInit => ConsoleInv BY ConInitInv DEF DevInit, ConsoleInv, ConInit
<1>2. ConsoleInv /\ [DevNext]_devices => ConsoleInv'
  <2> SUFFICES ASSUME ConsoleInv, [DevNext]_devices PROVE ConsoleInv'
    OBVIOUS
  <2> USE DEF ConsoleInv
  <2>1. CASE uart # "polled" /\ IrqStep
    BY <2>1, ConNextInv, PollingApart, PollKept
  <2>2. CASE uart = "polled" /\ PollStep
    <3>1. UNCHANGED transmit
      BY <2>2 DEF PollStep, transmit, txChannel, txUart, pops, writer
    <3> QED BY <2>2, <3>1, TransmitKept, PollKeeps DEF transmit
  <2>3. CASE UNCHANGED console
    <3>1. UNCHANGED transmit /\ UNCHANGED polling
      BY <2>3 DEF console, transmit, txChannel, txUart, pops, writer
    <3> QED BY <3>1, TransmitKept, PollKept DEF transmit
  <2> QED BY <2>1, <2>2, <2>3, PartsApart DEF ConStep
<1> QED BY <1>1, <1>2, PTL DEF DevSpec

\* The bytes between two numbers.
Stretch(a, b) == [i \in 1 .. b - a |-> a + i]

LEMMA StretchLength ==
  ASSUME NEW a \in Nat, NEW b \in Nat, a <= b
  PROVE  Stretch(a, b) \in Seq(Nat) /\ Len(Stretch(a, b)) = b - a
<1>1. \A i \in 1 .. b - a : a + i \in Nat OBVIOUS
<1>2. b - a \in Nat OBVIOUS
<1>3. Stretch(a, b) \in [1 .. b - a -> Nat] BY <1>1 DEF Stretch
<1> QED BY <1>2, <1>3, IsASeq, LenProperties DEF Stretch

LEMMA StretchesJoin ==
  ASSUME NEW a \in Nat, NEW m \in Nat, NEW b \in Nat, a <= m, m <= b
  PROVE  Stretch(a, m) \o Stretch(m, b) = Stretch(a, b)
<1> DEFINE s == Stretch(a, m)
           t == Stretch(m, b)
           u == s \o t
<1>0. a <= b OBVIOUS
<1>1. /\ s \in Seq(Nat) /\ Len(s) = m - a /\ t \in Seq(Nat) /\ Len(t) = b - m
      /\ Stretch(a, b) \in Seq(Nat) /\ Len(Stretch(a, b)) = b - a
  BY <1>0, StretchLength
<1>a. \A i \in 1 .. m - a : s[i] = a + i BY DEF Stretch
<1>b. \A i \in 1 .. b - m : t[i] = m + i BY DEF Stretch
<1>c. \A i \in 1 .. b - a : Stretch(a, b)[i] = a + i BY DEF Stretch
<1> HIDE DEF s, t
<1>2. /\ u \in Seq(Nat) /\ Len(u) = Len(s) + Len(t)
      /\ \A i \in 1 .. Len(s) + Len(t) : u[i] = IF i <= Len(s) THEN s[i] ELSE t[i - Len(s)]
  BY <1>1, ConcatProperties
<1> HIDE DEF u
<1>3. Len(u) = b - a BY <1>1, <1>2
<1>4. ASSUME NEW i \in 1 .. b - a PROVE u[i] = Stretch(a, b)[i]
  <2>1. i \in 1 .. Len(s) + Len(t) BY <1>1
  <2>2. CASE i <= Len(s)
    <3>1. u[i] = s[i] BY <1>2, <2>1, <2>2
    <3>2. i \in 1 .. m - a BY <1>1, <2>2
    <3> QED BY <1>a, <1>c, <3>1, <3>2
  <2>3. CASE ~(i <= Len(s))
    <3>1. u[i] = t[i - Len(s)] BY <1>2, <2>1, <2>3
    <3>2. i - Len(s) \in 1 .. b - m BY <1>1, <2>3
    <3>3. m + (i - Len(s)) = a + i BY <1>1
    <3> QED BY <1>b, <1>c, <3>1, <3>2, <3>3
  <2> QED BY <2>2, <2>3
<1>5. u = Stretch(a, b) BY <1>1, <1>2, <1>3, <1>4, SeqEqual
<1> QED BY <1>5 DEF u, s, t

\* Equal to such a stretch, element by element.
LEMMA IsStretch ==
  ASSUME NEW a \in Nat, NEW b \in Nat, a <= b, NEW s \in Seq(Nat), Len(s) = b - a,
         \A i \in 1 .. b - a : s[i] = a + i
  PROVE  s = Stretch(a, b)
<1>1. Stretch(a, b) \in Seq(Nat) /\ Len(Stretch(a, b)) = b - a BY StretchLength
<1>2. \A i \in 1 .. Len(s) : s[i] = Stretch(a, b)[i] BY DEF Stretch
<1> HIDE DEF Stretch
<1> QED BY <1>1, <1>2, SeqEqual

LEMMA ConcatRegroups ==
  ASSUME NEW S, NEW s \in Seq(S), NEW t \in Seq(S), NEW u \in Seq(S)
  PROVE  (s \o t) \o u = s \o (t \o u)
BY ConcatAssociative

\* What was sent and what is in the holding register.
LEMMA SentIsFirst == ASSUME ConInv PROVE Shipped \in Nat /\ Sent = Stretch(0, Shipped)
<1>0. /\ wire \in Seq(Nat) /\ Len(wire) \in Nat /\ \A i \in 1 .. Len(wire) : wire[i] = i
      /\ thr # NoByte => thr = Len(wire) + 1
  BY LenProperties DEF ConInv, ConType, ConBytes
<1>1. CASE thr = NoByte
  <2>1. wire = Stretch(0, Len(wire)) BY <1>0, IsStretch
  <2> QED BY <1>0, <1>1, <2>1 DEF Sent, Shipped
<1>2. CASE thr # NoByte
  <2> DEFINE s == Append(wire, Len(wire) + 1)
  <2>1. Sent = s BY <1>0, <1>2 DEF Sent
  <2>2. Len(wire) + 1 \in Nat BY <1>0
  <2>3. /\ s \in Seq(Nat) /\ Len(s) = Len(wire) + 1
        /\ \A i \in 1 .. Len(wire) : s[i] = wire[i]
        /\ s[Len(wire) + 1] = Len(wire) + 1
    BY <1>0, <2>2, AppendProperties
  <2> HIDE DEF s
  <2>4. \A i \in 1 .. (Len(wire) + 1) - 0 : s[i] = 0 + i
    <3> TAKE i \in 1 .. (Len(wire) + 1) - 0
    <3>1. i \in 1 .. Len(wire) \/ i = Len(wire) + 1 BY <1>0
    <3> QED BY <1>0, <2>3, <3>1
  <2>5. s = Stretch(0, Len(wire) + 1) BY <1>0, <2>2, <2>3, <2>4, IsStretch
  <2>6. Shipped = Len(wire) + 1 BY <1>2 DEF Shipped
  <2> QED BY <2>1, <2>2, <2>5, <2>6
<1> QED BY <1>1, <1>2

\* What a hand holds follows what was sent.
LEMMA HandIsNext ==
  ASSUME ConInv, NEW c \in Actors
  PROVE  /\ Holding(c) => head \in Nat \ {0} /\ Popped(c) = Stretch(head - 1, head)
         /\ ~Holding(c) => \A n \in Nat : Popped(c) = Stretch(n, n)
<1>0. head \in Nat BY DEF ConInv, ConType
<1>1. ASSUME Holding(c) PROVE head \in Nat \ {0} /\ Popped(c) = Stretch(head - 1, head)
  <2>1. hand[c] = head /\ head # 0 /\ Popped(c) = <<head>>
    BY <1>1 DEF Holding, Popped, ConInv, ConTurns, NoByte
  <2> DEFINE s == <<head>>
  <2>2. /\ head - 1 \in Nat /\ head - 1 <= head /\ s \in Seq(Nat) /\ Len(s) = head - (head - 1)
        /\ \A i \in 1 .. head - (head - 1) : s[i] = (head - 1) + i
    BY <1>0, <2>1
  <2> HIDE DEF s
  <2>3. s = Stretch(head - 1, head) BY ONLY <1>0, <2>2, IsStretch
  <2> QED BY <1>0, <2>1, <2>3 DEF s
<1>2. ASSUME ~Holding(c), NEW n \in Nat PROVE Popped(c) = Stretch(n, n)
  <2>1. Popped(c) = << >> BY <1>2 DEF Holding, Popped
  <2> DEFINE s == << >>
  <2>2. s \in Seq(Nat) /\ Len(s) = n - n /\ n <= n BY EmptySeq
  <2>3. \A i \in 1 .. n - n : s[i] = n + i OBVIOUS
  <2> HIDE DEF s
  <2>4. s = Stretch(n, n) BY ONLY <2>2, <2>3, IsStretch
  <2> QED BY <2>1, <2>4 DEF s
<1> QED BY <1>1, <1>2

\* The ring is what comes next.
LEMMA RingIsLast == ASSUME ConInv PROVE Ring = Stretch(head, tail)
<1>0. head \in Nat /\ tail \in Nat /\ head <= tail BY DEF ConInv, ConType
<1>1. ASSUME NEW i \in 1 .. tail - head PROVE slots[(head + i - 1) % TX_CAPACITY] = head + i
  <2>1. head + i - 1 \in head .. tail - 1 /\ (head + i - 1) + 1 = head + i BY <1>0
  <2> QED BY <2>1 DEF ConInv, ConBytes
<1> QED BY <1>1 DEF Ring, Stretch

\* What is written reaches the wire, in the order it was written, whatever the
\* ring's size, the UART and the messages' lengths (console.rs: write_bytes_irq,
\* tx_irq_next_byte, flush_sync; the boards' uart_irq_handler): the handler and the
\* writer pop in turn, and the transmit interrupt is enabled when bytes are left.
THEOREM ConsoleStaysTrue == ASSUME ConsoleAsBuilt PROVE DevSpec => []ConsoleDelivers
<1>1. ConsoleInv => ConsoleDelivers
  <2> SUFFICES ASSUME ConsoleInv PROVE ConsoleDelivers
    OBVIOUS
  <2> USE DEF ConsoleInv
  <2>0. head \in Nat /\ tail \in Nat /\ head <= tail /\ written = tail BY DEF ConInv, ConType
  <2>1. BytesInOrder
    <3>1. Shipped \in Nat /\ Sent = Stretch(0, Shipped) BY SentIsFirst
    <3>2. Ring = Stretch(head, tail) BY RingIsLast
    <3>3. "writer" \in Actors /\ "isr" \in Actors BY DEF Actors
    <3>4. ~(Holding("writer") /\ Holding("isr")) BY DEF Holding, ConInv, ConTurns
    <3>5. Shipped = IF Holding("writer") \/ Holding("isr") THEN head - 1 ELSE head
      BY DEF ConInv, ConBytes, Actors
    <3>6. Popped("writer") \o Popped("isr") = Stretch(Shipped, head) /\ Shipped <= head
      <4>1. CASE Holding("writer")
        <5>1. /\ head - 1 \in Nat /\ head - 1 <= head /\ head <= head /\ Shipped = head - 1
              /\ Popped("writer") = Stretch(head - 1, head)
              /\ Popped("isr") = Stretch(head, head)
          BY <2>0, <3>3, <3>4, <3>5, <4>1, HandIsNext
        <5>2. Stretch(head - 1, head) \o Stretch(head, head) = Stretch(head - 1, head)
          BY ONLY <2>0, <5>1, StretchesJoin
        <5> QED BY ONLY <5>1, <5>2
      <4>2. CASE Holding("isr")
        <5>1. /\ head - 1 \in Nat /\ head - 1 <= head /\ Shipped = head - 1
              /\ Popped("writer") = Stretch(head - 1, head - 1)
              /\ Popped("isr") = Stretch(head - 1, head)
          BY <2>0, <3>3, <3>4, <3>5, <4>2, HandIsNext
        <5>2. head - 1 <= head - 1 BY <5>1
        <5>3. Stretch(head - 1, head - 1) \o Stretch(head - 1, head) = Stretch(head - 1, head)
          BY ONLY <2>0, <5>1, <5>2, StretchesJoin
        <5> QED BY ONLY <5>1, <5>3
      <4>3. CASE ~Holding("writer") /\ ~Holding("isr")
        <5>1. /\ Shipped = head /\ head <= head
              /\ Popped("writer") = Stretch(head, head) /\ Popped("isr") = Stretch(head, head)
          BY <2>0, <3>3, <3>5, <4>3, HandIsNext
        <5>2. Stretch(head, head) \o Stretch(head, head) = Stretch(head, head)
          BY ONLY <2>0, <5>1, StretchesJoin
        <5> QED BY ONLY <5>1, <5>2
      <4> QED BY <4>1, <4>2, <4>3
    <3>7. Popped("writer") \in Seq(Nat) /\ Popped("isr") \in Seq(Nat)
      BY <2>0 DEF Popped, ConInv, ConType, Actors
    <3>8. Sent \in Seq(Nat) BY <3>1, StretchLength
    <3>9. (Sent \o Popped("writer")) \o Popped("isr") = Stretch(0, head)
      <4> DEFINE S == Nat
                 x == Popped("writer")
                 y == Popped("isr")
                 z == Sent
      <4>1. x \in Seq(S) /\ y \in Seq(S) /\ z \in Seq(S) BY <3>7, <3>8
      <4>2. x \o y = Stretch(Shipped, head) /\ z = Stretch(0, Shipped) BY <3>1, <3>6
      <4>3. 0 \in Nat /\ 0 <= Shipped /\ Shipped \in Nat /\ head \in Nat /\ Shipped <= head
        BY <2>0, <3>1, <3>6
      <4> HIDE DEF S, x, y, z
      <4>4. (z \o x) \o y = z \o (x \o y) BY ONLY <4>1, ConcatRegroups
      <4>5. Stretch(0, Shipped) \o Stretch(Shipped, head) = Stretch(0, head)
        BY ONLY <4>3, StretchesJoin
      <4>6. (z \o x) \o y = Stretch(0, head) BY ONLY <4>2, <4>4, <4>5
      <4> QED BY ONLY <4>6 DEF x, y, z
    <3>10. Stretch(0, head) \o Stretch(head, tail) = Stretch(0, tail)
      <4>1. 0 \in Nat /\ 0 <= head BY <2>0
      <4> QED BY ONLY <4>1, <2>0, StretchesJoin
    <3>11. Stretch(0, tail) = [i \in 1 .. tail |-> i] BY <2>0 DEF Stretch
    <3> QED BY <2>0, <3>2, <3>9, <3>10, <3>11 DEF BytesInOrder
  <2>2. MessagesAreWhole
    <3>1. PICK m \in Nat :
            /\ Len(sent) = 2 * m \/ Len(sent) = 2 * m + 1
            /\ \A i \in 1 .. m : sent[2 * i - 1] = sent[2 * i]
      BY DEF PollInv
    <3>2. Len(sent) \div 2 = m BY <3>1
    <3> QED BY <3>1, <3>2 DEF MessagesAreWhole
  <2>3. ConsoleDrains
    <3>1. ASSUME at["writer"] = "out", at["isr"] = "out", head # tail
          PROVE  txim /\ (Board.free \/ thr # NoByte)
      <4>1. txim /\ Comes BY <3>1 DEF ConInv, ConWakes
      <4>2. uart \in {"rp2040", "lm3s6965", "mps2", "usart", "ns16550"}
        BY <3>1 DEF ConInv, ConType
      <4>3. CASE uart = "usart" BY <4>1, <4>3 DEF Board, Usart
      <4>4. CASE uart = "mps2" BY <4>1, <4>4 DEF Board, Cmsdk, Comes
      <4>5. CASE uart = "rp2040" BY <4>1, <4>5 DEF Board, Pl011_rp2040, Comes
      <4>6. CASE uart = "lm3s6965" BY <4>1, <4>6 DEF Board, Pl011_lm3s6965, Comes
      <4>7. CASE uart = "ns16550" BY <4>1, <4>7 DEF Board, Ns16550, Comes
      <4> QED BY <4>2, <4>3, <4>4, <4>5, <4>6, <4>7
    <3>2. halted => head = tail BY DEF ConInv, ConTurns
    <3> QED BY <3>1, <3>2 DEF ConsoleDrains
  <2> QED BY <2>1, <2>2, <2>3 DEF ConsoleDelivers, ConsoleKeepsOrder
<1> QED BY <1>1, ConInvariance, PTL
=============================================================================
