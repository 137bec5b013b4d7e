----------------------------- MODULE Interrupts -----------------------------
(***************************************************************************)
(* irq_handler of kernel/arch/i386/interrupt.c with the two interrupt          *)
(* controllers (pic.c), the tick counter (timer.c) and the programs that       *)
(* depend on them: readers of the keyboard (module Keyboard), callers of       *)
(* gettimeofday, and userland/beep.c, which waits for the clock.               *)
(*                                                                         *)
(* IRQs enter through interrupt gates, so a handler is one step; the system     *)
(* call gate is a trap gate, so handlers run between the steps of a call.       *)
(* A controller delivers a line only when no line of the same or a higher       *)
(* priority is in service.  All lines are unmasked (pic_initialize).           *)
(***************************************************************************)
EXTENDS Keyboard

CONSTANTS
    Lines,       \* IRQ lines of the devices
    TickWrap,    \* 2^32: the values of system_ticks
    PerSecond,   \* TIMER_FREQUENCY
    Duration,    \* ticks that beep waits
    MaxLag       \* bound on the ticks between two steps of a program

\* A program looks at the clock at least once in 2^32 - 30 ms.  A tick is a
\* whole number of microseconds (TIMER_FREQUENCY is 1000).
ASSUME ClockAssumption ==
    /\ Lines \subseteq 0 .. 15
    /\ PerSecond \in Nat \ {0} /\ 1000000 % PerSecond = 0
    /\ Duration \in Nat /\ MaxLag \in Nat \ {0}
    /\ TickWrap \in Nat /\ Duration + MaxLag <= TickWrap

VARIABLES
    master_isr, slave_isr,  \* lines in service, by their number at the controller
    system_ticks,
    prog,      \* none; tone, wait, off: in beep; time, told: in gettimeofday
    start,     \* of beep: the first answer of get_ticks
    ms,        \* of gettimeofday: the local variable
    tv,        \* its answer
    speaker,   \* gate of the speaker, port 0x61
    lag,       \* ticks since the last step of the program
    heard,     \* history: ticks since beep read the clock first, Duration at most
    during     \* history: values of system_ticks during gettimeofday

picVars == <<master_isr, slave_isr>>
progVars == <<prog, start, ms, tv, speaker>>
clockHist == <<lag, heard, during>>
allVars == <<vars, picVars, system_ticks, progVars, clockHist>>

NoTime == [tv_sec |-> 0, tv_usec |-> 0]

IInit ==
    /\ Init
    /\ master_isr = {} /\ slave_isr = {}
    /\ system_ticks = 0
    /\ prog = "none" /\ start = 0 /\ ms = 0 /\ tv = NoTime /\ speaker = FALSE
    /\ lag = 0 /\ heard = 0 /\ during = {}

-----------------------------------------------------------------------------
(* The controllers.  Line 0 has the highest priority; the slave is connected  *)
(* to line 2 of the master.                                                  *)
Cascade == 2

CanAccept(irq) ==
    IF irq < 8
    THEN \A l \in master_isr : irq < l
    ELSE (\A l \in master_isr : Cascade < l) /\ (\A l \in slave_isr : irq - 8 < l)

\* The command "end of interrupt" clears the bit of the highest priority.
Eoi(isr) == isr \ {l \in isr : \A k \in isr : l <= k}

\* pic_eoi_master, pic_eoi_slave
pic_eoi_master(isr) == Eoi(isr)
pic_eoi_slave(isr) == Eoi(isr)

-----------------------------------------------------------------------------
(* irq_handler, entered with the lines m and s in service.                   *)
timer_tick ==
    /\ prog # "none" => lag < MaxLag
    /\ system_ticks' = (system_ticks + 1) % TickWrap
    /\ lag' = IF prog = "none" THEN 0 ELSE lag + 1
    /\ heard' = IF prog = "wait" /\ heard < Duration THEN heard + 1 ELSE heard
    /\ during' = IF prog = "time" THEN during \cup {system_ticks'} ELSE during
    /\ UNCHANGED <<vars, progVars>>

Device(irq) ==
    CASE irq = 1 -> KeyIrq /\ UNCHANGED <<system_ticks, progVars, clockHist>>
      [] irq = 0 -> timer_tick
      [] OTHER -> UNCHANGED <<vars, system_ticks, progVars, clockHist>>

\* Mutant: the master is not told of a spurious interrupt of the slave.
MutantIrqHandler(irq, m, s) ==
    IF (irq = 7 /\ 7 \notin m) \/ (irq = 15 /\ 7 \notin s)
    THEN /\ master_isr' = m /\ slave_isr' = s
         /\ UNCHANGED <<vars, system_ticks, progVars, clockHist>>
    ELSE /\ Device(irq)
         /\ slave_isr' = IF irq >= 8 THEN pic_eoi_slave(s) ELSE s
         /\ master_isr' = pic_eoi_master(m)

irq_handler(irq, m, s) ==
    IF irq = 7 /\ 7 \notin m
    THEN /\ master_isr' = m /\ slave_isr' = s
         /\ UNCHANGED <<vars, system_ticks, progVars, clockHist>>
    ELSE IF irq = 15 /\ 7 \notin s
    THEN /\ master_isr' = pic_eoi_master(m) /\ slave_isr' = s
         /\ UNCHANGED <<vars, system_ticks, progVars, clockHist>>
    ELSE /\ Device(irq)
         /\ slave_isr' = IF irq >= 8 THEN pic_eoi_slave(s) ELSE s
         /\ master_isr' = pic_eoi_master(m)

\* A device's request is accepted: its bits are set in service.
Irq(irq) ==
    /\ CanAccept(irq)
    /\ IF irq < 8
       THEN irq_handler(irq, master_isr \cup {irq}, slave_isr)
       ELSE irq_handler(irq, master_isr \cup {Cascade}, slave_isr \cup {irq - 8})

\* The request was withdrawn before it was accepted: the controller answers
\* with its line 7 and sets no bit; for the slave the master has set line 2.
SpuriousMaster == CanAccept(7) /\ irq_handler(7, master_isr, slave_isr)

SpuriousSlave == CanAccept(15) /\ irq_handler(15, master_isr \cup {Cascade}, slave_isr)

-----------------------------------------------------------------------------
(* Programs.  One runs at a time; a step of it resets lag.                    *)
ProgStep(from, to) == prog = from /\ prog' = to /\ lag' = 0 /\ UNCHANGED <<vars, picVars, system_ticks>>

\* beep: speaker_on(880), then the clock is read.
BeepOn ==
    /\ pc = "idle" /\ ProgStep("none", "tone")
    /\ speaker' = TRUE
    /\ UNCHANGED <<start, ms, tv, heard, during>>

BeepStart ==
    /\ ProgStep("tone", "wait")
    /\ start' = system_ticks /\ heard' = 0
    /\ UNCHANGED <<ms, tv, speaker, during>>

\* Mutant: the end is computed first and compared, so it can have wrapped.
MutantElapsed == system_ticks >= (start + Duration) % TickWrap

\* !(_syscall_get_ticks() - start < 30), in unsigned arithmetic.
Elapsed == (system_ticks - start) % TickWrap >= Duration

\* Mutant: the loop waits for one value of the clock.
MutantBeepPoll ==
    /\ ProgStep("wait", IF (system_ticks - start) % TickWrap = Duration THEN "off" ELSE "wait")
    /\ UNCHANGED <<start, ms, tv, speaker, heard, during>>

BeepPoll ==
    /\ ProgStep("wait", IF Elapsed THEN "off" ELSE "wait")
    /\ UNCHANGED <<start, ms, tv, speaker, heard, during>>

BeepOff ==
    /\ ProgStep("off", "none")
    /\ speaker' = FALSE /\ start' = 0 /\ heard' = 0
    /\ UNCHANGED <<ms, tv, during>>

\* gettimeofday reads the counter once ...
TimeRead ==
    /\ pc = "idle" /\ ProgStep("none", "time")
    /\ ms' = system_ticks /\ during' = {system_ticks}
    /\ UNCHANGED <<start, tv, speaker, heard>>

\* Mutant: the counter is read again for the second field.
MutantTimeStore ==
    /\ ProgStep("time", "told")
    /\ tv' = [tv_sec |-> ms \div PerSecond,
              tv_usec |-> (system_ticks % PerSecond) * (1000000 \div PerSecond)]
    /\ UNCHANGED <<start, ms, speaker, heard, during>>

\* ... and stores seconds and microseconds.
TimeStore ==
    /\ ProgStep("time", "told")
    /\ tv' = [tv_sec |-> ms \div PerSecond,
              tv_usec |-> (ms % PerSecond) * (1000000 \div PerSecond)]
    /\ UNCHANGED <<start, ms, speaker, heard, during>>

TimeUsed ==
    /\ ProgStep("told", "none")
    /\ ms' = 0 /\ tv' = NoTime /\ during' = {}
    /\ UNCHANGED <<start, speaker, heard>>

Kept == UNCHANGED <<picVars, system_ticks, progVars, clockHist>>

\* getchar and read of the console.
ReadStart == prog = "none" /\ HasData /\ Kept
ReadStep == (PopTest \/ PopCount \/ PopChar \/ PopReturn) /\ Kept

INext ==
    \/ \E irq \in Lines : Irq(irq)
    \/ SpuriousMaster \/ SpuriousSlave
    \/ BeepOn \/ BeepStart \/ BeepPoll \/ BeepOff
    \/ TimeRead \/ TimeStore \/ TimeUsed
    \/ ReadStart \/ ReadStep

\* The PIT is periodic, and what is interrupted is resumed.
ISpec ==
    /\ IInit /\ [][INext]_allVars
    /\ WF_allVars(Irq(0))
    /\ WF_allVars(BeepStart \/ BeepPoll \/ BeepOff \/ TimeStore \/ TimeUsed)
    /\ WF_allVars(ReadStep)

-----------------------------------------------------------------------------
(* Properties.                                                              *)

\* Whatever real and spurious interrupts there have been, no line is left in
\* service: irq_handler acknowledges each at every controller involved, so the
\* next interrupt of any line is delivered.
NoIrqBlocked == \A irq \in Lines : CanAccept(irq)

\* beep.c: "880Hz for 30 ticks".  The speaker is not turned off before
\* Duration ticks, also when the counter wraps meanwhile.
BeepLongEnough == prog = "off" => heard >= Duration

\* The loop of beep ends, though interrupts of all kinds arrive and the
\* counter may be read late.
BeepEnds == prog = "tone" ~> ~speaker

\* The answer of gettimeofday is the time at a moment during the call: seconds
\* and microseconds belong together though the timer ticks in between.
TimeIsOneMoment ==
    prog = "told" =>
       \E t \in during :
          tv.tv_sec * 1000000 + tv.tv_usec = t * (1000000 \div PerSecond)
=============================================================================
