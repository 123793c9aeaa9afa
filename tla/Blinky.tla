------------------------------- MODULE Blinky -------------------------------
(***************************************************************************)
(* blinky.c, the firmware that tells a genuine STM32F103C8 from remarked   *)
(* and cloned chips: main() tests one part of the chip after the other     *)
(* while the DMA interrupt counts completions and, once everything but the *)
(* SRAM is tested, the TIM4 interrupt blinks the LED.  The LED is the      *)
(* verdict: a chip that fails a test must stay dark for good.              *)
(*                                                                         *)
(* Main-level steps are as large as they can be without hiding an          *)
(* interrupt between two accesses to shared state.  The two interrupt      *)
(* handlers have one priority and run to completion between two such       *)
(* steps; an exception preempts everything and never returns.              *)
(***************************************************************************)
EXTENDS Integers, Sequences

CONSTANT FlashSizes  \* flash sizes in KB that a chip may report

VARIABLES
  chip,    \* the hardware: reported flash size, bad parts, spurious interrupts
  at,      \* the test main() is at
  phase,   \* where main() is in that test
  failed,  \* failed
  lit,     \* the LED pins that are driven LOW
  irqs,    \* interrupts are enabled globally
  tim4,    \* TIM4: counting, update flag, its interrupt enabled
  x,       \* the next level of the LED pins, of IRQ_tim4
  dma,     \* DMA channel 1: "off", "busy", or "done": everything copied
  pend,    \* the completion interrupt of the channel is pending
  dmac     \* dmac: completion interrupts since the transfer was set up

main == <<at, phase>>
led == <<lit, x, tim4>>
dmas == <<dma, pend, dmac>>
vars == <<chip, main, failed, led, irqs, dmas>>

-----------------------------------------------------------------------------
(* The tests.                                                              *)

\* the order in which main() works; "start" enables the TIM4 interrupt or
\* lights the LED, "stop" is the end of the SRAM loop after a failure
Order == <<"i2c1", "i2c2", "spi1", "spi2", "tim1", "tim2", "tim3", "tim4",
           "dma1", "dma2", "dma3", "dma4", "flash", "start", "sram", "stop">>
Test == IF at \in DOMAIN Order THEN Order[at] ELSE "hang"

Registers == {"i2c1", "i2c2", "spi1", "spi2", "tim1", "tim2", "tim3", "tim4"}
DmaTests == {"dma1", "dma2", "dma3", "dma4"}
Parts == Registers \cup DmaTests \cup {"flash", "sram"}

\* the parts that a low-density device does not have
Absent == IF chip.kb \in {16, 32} THEN {"i2c2", "spi2", "tim4"} ELSE {}
Good == Test \notin chip.bad

Init ==
  /\ chip \in [kb : FlashSizes, bad : SUBSET Parts, spurious : BOOLEAN]
  /\ at = 1 /\ phase = "run"
  /\ failed = FALSE /\ lit = {} /\ irqs = TRUE /\ x = FALSE
  /\ tim4 = [on |-> FALSE, uif |-> FALSE, enabled |-> FALSE]
  /\ dma = "off" /\ pend = FALSE /\ dmac = 0

-----------------------------------------------------------------------------
(* report(), and what each test makes of the chip.                         *)

\* report(ok): a good result goes on to the next test
report(ok) ==
  /\ phase' = IF ok THEN "run" ELSE "report"
  /\ at' = IF ok THEN at + 1 ELSE at

PutOut(pin) == lit' = lit \ {pin}

\* report(FALSE): first the flag, then one pin after the other
ReportFalse ==
  /\ \/ /\ phase = "report" /\ phase' = "b12"
        /\ failed' = TRUE /\ UNCHANGED <<lit, at>>
     \/ /\ phase = "b12" /\ phase' = "c13"
        /\ PutOut("b12") /\ UNCHANGED <<failed, at>>
     \/ /\ phase = "c13" /\ phase' = "run" /\ at' = at + 1
        /\ PutOut("c13") /\ UNCHANGED failed
  /\ UNCHANGED <<chip, irqs, tim4, x, dmas>>

\* main() passes over a part that the table says is not there
Skip ==
  /\ phase = "run" /\ Test \in Absent
  /\ at' = at + 1
  /\ UNCHANGED <<chip, phase, failed, led, irqs, dmas>>

\* i2c_test, spi_test, tim_test: the registers must keep what is written.
\* TIM4 counts from here on, its interrupt still off.
RegisterTest ==
  /\ phase = "run" /\ Test \in Registers \ Absent
  /\ tim4' = [tim4 EXCEPT !.on = @ \/ Test = "tim4"]
  /\ report(Good)
  /\ UNCHANGED <<chip, failed, lit, irqs, x, dmas>>

\* dma_test: the channel off, the destination scratched, the count reset
dma_test ==
  /\ phase = "run" /\ Test \in DmaTests
  /\ dma' = "off" /\ pend' = FALSE /\ dmac' = 0
  /\ phase' = "enable"
  /\ UNCHANGED <<chip, at, failed, led, irqs>>

\* dma_test: the transfer starts
DmaEnable ==
  /\ phase = "enable"
  /\ dma' = "busy" /\ phase' = "wait"
  /\ UNCHANGED <<chip, at, failed, led, irqs, pend, dmac>>

\* dma_test: a completion was counted; exactly one, and equal data, is good
DmaCheck ==
  /\ phase = "wait" /\ dmac > 0
  /\ report(dmac = 1 /\ dma = "done" /\ Good)
  /\ UNCHANGED <<chip, failed, led, irqs, dmas>>

\* flash_test: the last page erases, and then holds what was written
flash_test ==
  /\ phase = "run" /\ Test = "flash"
  /\ report(Good)
  /\ UNCHANGED <<chip, failed, led, irqs, dmas>>

\* main(), all but the SRAM tested: the TIM4 interrupt, or a steady light on
\* a low-density device that is good so far
Start ==
  /\ phase = "run" /\ Test = "start"
  /\ IF "tim4" \notin Absent
     THEN tim4' = [tim4 EXCEPT !.enabled = TRUE] /\ UNCHANGED lit
     ELSE lit' = (IF failed THEN lit ELSE {"b12", "c13"}) /\ UNCHANGED tim4
  /\ at' = at + 1
  /\ UNCHANGED <<chip, phase, failed, irqs, x, dmas>>

\* the endless SRAM test meets a word that does not read back
SramFails ==
  /\ phase = "run" /\ Test = "sram" /\ ~Good
  /\ phase' = "report"
  /\ UNCHANGED <<chip, at, failed, led, irqs, dmas>>

Stop ==
  /\ phase = "run" /\ Test = "stop"
  /\ irqs' = FALSE /\ at' = at + 1
  /\ UNCHANGED <<chip, phase, failed, led, dmas>>

\* An access to a bad part may fault: interrupts off, the pins HIGH, a hang.
EXC_blinky ==
  /\ phase \in {"run", "enable", "wait"} /\ Test \in chip.bad \ Absent
  /\ irqs' = FALSE /\ lit' = {} /\ phase' = "exception"
  /\ UNCHANGED <<chip, at, failed, tim4, x, dmas>>

-----------------------------------------------------------------------------
(* Interrupts.                                                             *)

\* TIM4 overflows every 500 ms
Overflow ==
  /\ tim4.on /\ tim4' = [tim4 EXCEPT !.uif = TRUE]
  /\ UNCHANGED <<chip, main, failed, lit, x, irqs, dmas>>

IRQ_tim4 ==
  /\ irqs /\ tim4.enabled /\ tim4.uif
  /\ IF failed
     THEN tim4' = [tim4 EXCEPT !.uif = FALSE, !.enabled = FALSE] /\ UNCHANGED <<lit, x>>
     ELSE /\ tim4' = [tim4 EXCEPT !.uif = FALSE]
          /\ lit' = (IF x THEN {} ELSE {"b12", "c13"})
          /\ x' = ~x
  /\ UNCHANGED <<chip, main, failed, irqs, dmas>>

\* the channel has copied everything; a bad one may never get there
Copied ==
  /\ dma = "busy"
  /\ dma' = "done" /\ pend' = TRUE
  /\ UNCHANGED <<chip, main, failed, led, irqs, dmac>>

\* "Fake chips ... give extra spurious interrupts"
Spurious ==
  /\ chip.spurious /\ (dma # "off" \/ phase = "enable")
  /\ pend' = TRUE
  /\ UNCHANGED <<chip, main, failed, led, irqs, dma, dmac>>

\* the channel is turned off, copied or not
IRQ_dma_tc ==
  /\ irqs /\ pend
  /\ pend' = FALSE /\ dmac' = dmac + 1
  /\ dma' = (IF dma = "done" THEN "done" ELSE "off")
  /\ UNCHANGED <<chip, main, failed, led, irqs>>

Main ==
  \/ ReportFalse \/ Skip \/ RegisterTest \/ dma_test \/ DmaEnable \/ DmaCheck
  \/ flash_test \/ Start \/ SramFails \/ Stop

Next ==
  \/ Main \/ EXC_blinky
  \/ Overflow \/ IRQ_tim4 \/ Copied \/ Spurious \/ IRQ_dma_tc

Spec == Init /\ [][Next]_vars

-----------------------------------------------------------------------------
(* Properties.                                                             *)

\* main() has put the LED out for good: report(FALSE) has returned, or an
\* exception was met.
Extinguished == phase = "exception" \/ (failed /\ phase \notin {"b12", "c13"})

\* "Extinguish the LED(s) permanently": once report(FALSE) has returned or an
\* exception was met, no interrupt, however late, and no later test lights
\* either pin again.
OutForGood == Extinguished => lit = {}

Tested == Parts \ Absent

\* A lit LED vouches for every part the chip's table names, bar the SRAM whose
\* test is still running: it is never lit before they are all tested.
LitMeansGood == lit # {} => chip.bad \cap Tested \subseteq {"sram"}

\* A genuine chip never fails, whenever the interrupts of a test come.
GenuinePasses ==
  chip.bad \cap Tested = {} /\ ~chip.spurious => ~failed /\ phase # "exception"
=============================================================================
