-------------------------------- MODULE Gpio --------------------------------
(***************************************************************************)
(* The GPIO drivers (each board's gpio.rs).  A pin is owned by one task,   *)
(* which turns it into an output or an input and sets, clears or toggles   *)
(* its level; the registers are shared by the pins of a port, and a tick   *)
(* may let another pin's owner run between two accesses.                   *)
(***************************************************************************)
EXTENDS Integers, Sequences

CONSTANTS
  Chips,           \* the drivers that are checked
  Pins,            \* 0 .. n: two to a port
  TogetherAllowed  \* whether two pins may be reconfigured at the same time on
                   \* a chip whose direction register is read and written back

VARIABLES
  chip,            \* the driver
  clocked,         \* RCC_AHB1ENR: the ports whose clock runs (stm32f401)
  output,          \* the pins MODER, GPIODIR or the enable register drive
  latch,           \* the pins whose output bit is high
  digital,         \* the pins that can be read: GPIODEN, the pad's input enable
  typed, want,     \* each pin's type, the pins its owner has asked to be high
  todo, seen       \* each pin's accesses to come, and the word it has read

gpio == <<chip, clocked, output, latch, digital, typed, want, todo, seen>>

GpInit ==
  /\ chip \in Chips
  /\ clocked = {} /\ output = {} /\ latch = {} /\ digital = {}
  /\ typed = [p \in Pins |-> "new"] /\ want = {}
  /\ todo = [p \in Pins |-> <<>>] /\ seen = [p \in Pins |-> {}]

Port(p) == p \div 2
Resting(p) == todo[p] = <<>>

-----------------------------------------------------------------------------
\* The registers that into_output and into_input access, in their order; the
\* multiplexer of a single pin, which nothing here depends on, is left out.
Stm32_into_output == <<"AHB1ENR", "DIR">>
Stm32_into_input == <<"DIR">>
Lm3s_into_output == <<"DIR", "DEN">>
Lm3s_into_input == <<"DIR">>
Rp2040_into_output == <<"PAD_OUT", "OE">>
Rp2040_into_input == <<"PAD_IN", "OE">>
C6_into_output == <<"OE">>
C6_into_input == <<"PAD_IN", "OE">>
S3_into_output == <<"OE">>
S3_into_input == <<"PAD_IN", "OE">>

IntoOutput ==
  CASE chip = "stm32f401" -> Stm32_into_output
    [] chip = "lm3s6965" -> Lm3s_into_output
    [] chip = "rp2040" -> Rp2040_into_output
    [] chip = "esp32c6" -> C6_into_output
    [] chip = "esp32s3" -> S3_into_output

IntoInput ==
  CASE chip = "stm32f401" -> Stm32_into_input
    [] chip = "lm3s6965" -> Lm3s_into_input
    [] chip = "rp2040" -> Rp2040_into_input
    [] chip = "esp32c6" -> C6_into_input
    [] chip = "esp32s3" -> S3_into_input

SharesDirection == chip \in {"stm32f401", "lm3s6965"}

Reconfigure(p, mode) ==
  /\ Resting(p)
  /\ mode = "output" => typed[p] \in {"new", "input"}
  /\ mode = "input" => typed[p] = "output"
  /\ SharesDirection /\ ~TogetherAllowed => \A q \in Pins : Resting(q)
  /\ typed' = [typed EXCEPT ![p] = mode]
  /\ todo' = [todo EXCEPT ![p] = IF mode = "output" THEN IntoOutput ELSE IntoInput]
  /\ UNCHANGED <<chip, clocked, output, latch, digital, want, seen>>

Done(p) == todo' = [todo EXCEPT ![p] = Tail(@)]

WriteBack == [AHB1ENR |-> "write AHB1ENR", DIR |-> "write DIR", DEN |-> "write DEN"]

\* A register that all pins share is read, ...
ReadRegister(p) ==
  /\ ~Resting(p) /\ Head(todo[p]) \in {"AHB1ENR", "DIR", "DEN"}
  /\ LET r == Head(todo[p]) IN
       /\ seen' = [seen EXCEPT ![p] = IF r = "AHB1ENR" THEN clocked
                                      ELSE IF r = "DIR" THEN output ELSE digital]
       /\ todo' = [todo EXCEPT ![p][1] = WriteBack[r]]
  /\ UNCHANGED <<chip, clocked, output, latch, digital, typed, want>>

\* ... and written back; a port without a clock drops the write.
WriteRegister(p) ==
  /\ ~Resting(p)
  /\ \/ /\ Head(todo[p]) = "write AHB1ENR"
        /\ clocked' = seen[p] \union {Port(p)}
        /\ UNCHANGED <<output, digital>>
     \/ /\ Head(todo[p]) = "write DIR"
        /\ output' = IF chip = "stm32f401" /\ Port(p) \notin clocked THEN output
                     ELSE IF typed[p] = "output" THEN seen[p] \union {p} ELSE seen[p] \ {p}
        /\ UNCHANGED <<clocked, digital>>
     \/ /\ Head(todo[p]) = "write DEN"
        /\ digital' = seen[p] \union {p}
        /\ UNCHANGED <<clocked, output>>
  /\ seen' = [seen EXCEPT ![p] = {}]
  /\ Done(p)
  /\ UNCHANGED <<chip, latch, typed, want>>

\* A pin's own pad register, ...
WritePad(p) ==
  /\ ~Resting(p) /\ Head(todo[p]) \in {"PAD_OUT", "PAD_IN"}
  /\ digital' = IF Head(todo[p]) = "PAD_IN" THEN digital \union {p} ELSE digital \ {p}
  /\ Done(p)
  /\ UNCHANGED <<chip, clocked, output, latch, typed, want, seen>>

\* ... and an enable register with an address to set and one to clear bits.
WriteEnable(p) ==
  /\ ~Resting(p) /\ Head(todo[p]) = "OE"
  /\ output' = IF typed[p] = "output" THEN output \union {p} ELSE output \ {p}
  /\ Done(p)
  /\ UNCHANGED <<chip, clocked, latch, digital, typed, want, seen>>

-----------------------------------------------------------------------------
\* Whether set_high and set_low reach the output bit: BSRR of a port without a
\* clock takes nothing, the masked GPIODATA not the level of an input; OUT_SET
\* and OUT_CLR always do.
Stm32_takes(p) == Port(p) \in clocked
Lm3s_takes(p) == p \in output
Rp2040_takes(p) == TRUE
C6_takes(p) == TRUE
S3_takes(p) == TRUE

Takes(p) ==
  CASE chip = "stm32f401" -> Stm32_takes(p)
    [] chip = "lm3s6965" -> Lm3s_takes(p)
    [] chip = "rp2040" -> Rp2040_takes(p)
    [] chip = "esp32c6" -> C6_takes(p)
    [] chip = "esp32s3" -> S3_takes(p)

Drive(p, high) ==
  /\ latch' = IF ~Takes(p) THEN latch ELSE IF high THEN latch \union {p} ELSE latch \ {p}
  /\ want' = IF high THEN want \union {p} ELSE want \ {p}

SetLevel(p, high) ==
  /\ typed[p] = "output" /\ Resting(p)
  /\ Drive(p, high)
  /\ UNCHANGED <<chip, clocked, output, digital, typed, todo, seen>>

\* toggle: the level is read, ...
Toggle(p) ==
  /\ typed[p] = "output" /\ Resting(p)
  /\ seen' = [seen EXCEPT ![p] = latch]
  /\ todo' = [todo EXCEPT ![p] = <<"toggle">>]
  /\ UNCHANGED <<chip, clocked, output, latch, digital, typed, want>>

\* ... and the other one set.
ToggleLevel_Bad(p) ==
  /\ ~Resting(p) /\ Head(todo[p]) = "toggle"
  /\ latch' = IF p \in seen[p] THEN seen[p] \ {p} ELSE seen[p] \union {p}
  /\ want' = IF p \in seen[p] THEN want \ {p} ELSE want \union {p}
  /\ seen' = [seen EXCEPT ![p] = {}]
  /\ Done(p)
  /\ UNCHANGED <<chip, clocked, output, digital, typed>>

ToggleLevel(p) ==
  /\ ~Resting(p) /\ Head(todo[p]) = "toggle"
  /\ Drive(p, p \notin seen[p])
  /\ seen' = [seen EXCEPT ![p] = {}]
  /\ Done(p)
  /\ UNCHANGED <<chip, clocked, output, digital, typed>>

GpStep ==
  \E p \in Pins :
    \/ \E mode \in {"output", "input"} : Reconfigure(p, mode)
    \/ ReadRegister(p) \/ WriteRegister(p) \/ WritePad(p) \/ WriteEnable(p)
    \/ \E high \in BOOLEAN : SetLevel(p, high)
    \/ Toggle(p) \/ ToggleLevel(p)

-----------------------------------------------------------------------------
\* Pin direction is tracked in the type.
DirectionIsType ==
  \A p \in Pins : Resting(p) => (typed[p] = "output" <=> p \in output)

\* A pin that rests has the direction of its type and the level its owner has
\* asked for, whatever the owners of other pins do; an input that was an output
\* before can be read.
PinsObeyOwners ==
  /\ DirectionIsType
  /\ \A p \in Pins : Resting(p) =>
       /\ typed[p] = "output" => (p \in latch <=> p \in want) /\ Takes(p)
       /\ typed[p] = "input" /\ chip # "stm32f401" => p \in digital
=============================================================================
