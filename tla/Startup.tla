------------------------------- MODULE Startup ------------------------------
(***************************************************************************)
(* From kernel_main to the first interrupts: the order of initialisation   *)
(* (main.c), the gates (idt.c, isr_stub.S), the two interrupt controllers  *)
(* (pic.c), exceptions and panic, and the log every step leaves on the     *)
(* serial port and the screen (kprintf.c, serial.c), character by         *)
(* character.                                                              *)
(*                                                                         *)
(* kernel_main ends in a loop of cli and hlt.  In a session the model goes *)
(* on as pic_enable and shell_run are written, which have no caller yet.   *)
(***************************************************************************)
EXTENDS Integers, SequencesExt

CONSTANTS Sessions,        \* whether the shell may be, or is, started behind the steps
          Lines,           \* interrupt lines with a device; 2 is the second controller's
          Exceptions,      \* exceptions that may occur
          Ends,            \* characters printed up to the end of each step
          PanicSize,       \* characters of panic's message
          MaxFaults, MaxSpurious   \* bounds on exceptions and spurious interrupts

\* The last one only prints: the two messages behind the steps' own.
Steps == <<"serial", "idt", "gdt", "terminal", "pic", "pit", "keyboard", "memory", "ramdisk",
           "alive">>

ASSUME StartupAssumption ==
  /\ Sessions \subseteq BOOLEAN /\ Lines \subseteq (0 .. 15) \ {2} /\ Exceptions \subseteq 0 .. 31
  /\ Ends \in [0 .. Len(Steps) -> Nat] /\ Ends[0] = 0
  /\ \A k \in 1 .. Len(Steps) : Ends[k - 1] < Ends[k]
  /\ PanicSize \in Nat \ {0} /\ MaxFaults \in Nat /\ MaxSpurious \in Nat

VARIABLES step,            \* steps of kernel_main begun
          cpu,             \* what the processor does
          intf,            \* its interrupt flag
          idt,             \* the table of gates is loaded
          base, mask,      \* the controllers: first vectors, masked lines
          irr, isr,        \* lines requested, lines in service
          text,            \* characters kprintf has still to print
          half,            \* the first of them is on the screen already
          ready,           \* the transmitter is empty
          serial, screen,  \* what the port was given, and the screen since it was cleared
          faults, spurious \* exceptions so far, number of spurious interrupts

log  == <<text, half, ready, serial, screen>>
pic  == <<base, mask, irr, isr>>
vars == <<step, cpu, intf, idt, pic, log, faults, spurious>>

\* Where the processor is: in kernel_main, in the shell, in panic, in a loop of cli
\* and hlt, or reset because there was no gate for an exception.
States == {"main", "shell", "panic", "stopped", "reset"}

----------------------------------------------------------------------------
(* Gates.                                                                  *)

\* The number the stub of a vector pushes: five have stubs of their own.
StubOf(v) == IF v \in {0, 8, 32, 33, 47} THEN v ELSE 255

\* The first vectors pic_init programs.  Mutant: as the firmware left them.
FirmwareBase == <<8, 112>>
Remapped     == <<32, 40>>

Vector(line) == IF line < 8 THEN base[1] + line ELSE base[2] + line - 8

\* pic_enable: the timer, the keyboard and the second controller's line, none of
\* the second controller's.  Mutant: all lines of the second are open.
OpensSecond == 3 .. 7
MaskEnabled == 3 .. 15

\* A device line the controllers pass on: the lowest one requested, while neither
\* it nor one before it is in service.
Presented(line) ==
  /\ line \in irr \ mask
  /\ line >= 8 => 2 \notin mask
  /\ \A other \in irr \ mask : line <= other
  /\ \A other \in isr : line < other

----------------------------------------------------------------------------
(* Printing.                                                               *)

\* Who prints, and the characters from one on up to another of all that are printed.
Kernel == "kernel_main"
Dying  == "panic"
Letters(who, from, to) == [k \in 1 .. to - from |-> <<who, from + k>>]

\* serial_write waits for the transmitter.  Mutant: it waits for the other value.
ReadyBitWrong == ~ready
MayWrite      == ready

\* out_char: terminal_putchar, and behind it serial_write.
Show ==
  /\ text # <<>> /\ ~half
  /\ screen' = Append(screen, Head(text)) /\ half' = TRUE
  /\ UNCHANGED <<text, ready, serial>>

\* Mutant: what the transmitter has no room for is dropped.
SendOrDrop ==
  /\ half /\ half' = FALSE /\ text' = Tail(text) /\ ready' = FALSE
  /\ serial' = IF MayWrite THEN Append(serial, Head(text)) ELSE serial
  /\ UNCHANGED screen

Send ==
  /\ half /\ MayWrite
  /\ serial' = Append(serial, Head(text)) /\ ready' = FALSE
  /\ text' = Tail(text) /\ half' = FALSE
  /\ UNCHANGED screen

\* The device: a character leaves the transmitter.
Transmit ==
  /\ ~ready /\ ready' = TRUE
  /\ UNCHANGED <<step, cpu, intf, idt, pic, text, half, serial, screen, faults, spurious>>

Printing ==
  /\ cpu \in {"main", "panic"}
  /\ Show \/ Send
  /\ UNCHANGED <<step, cpu, intf, idt, pic, faults, spurious>>

----------------------------------------------------------------------------
(* kernel_main.                                                            *)

\* The first character goes to the port before serial_init, and past kprintf.
Hello == <<"M">>

Prepare(name) ==
  /\ screen' = IF name = "terminal" THEN <<>> ELSE screen
  /\ serial' = IF name = "serial" THEN Append(serial, Hello) ELSE serial
  /\ ready' = (ready /\ name # "serial")
  /\ base' = IF name = "pic" THEN Remapped ELSE base
  /\ mask' = IF name = "pic" THEN 0 .. 15 ELSE mask

\* One step: the component is initialised, then its message is printed.  Mutant:
\* the message comes first.
InitialiseEarly(name) == Prepare(name) /\ idt' = (idt \/ (step > 1 /\ Steps[step] = "idt"))
Initialise(name)      == Prepare(name) /\ idt' = (idt \/ name = "idt")

Begin ==
  /\ cpu = "main" /\ text = <<>> /\ step < Len(Steps)
  /\ step' = step + 1
  /\ Initialise(Steps[step + 1])
  /\ text' = Letters(Kernel, Ends[step], Ends[step + 1])
  /\ UNCHANGED <<cpu, intf, irr, isr, half, faults, spurious>>

\* Behind the last step, the loop or the shell, whose printing is not part of this.
Finish ==
  /\ cpu = "main" /\ text = <<>> /\ step = Len(Steps)
  /\ \E session \in Sessions :
       IF session THEN cpu' = "shell" /\ intf' = TRUE /\ mask' = MaskEnabled
                  ELSE cpu' = "stopped" /\ UNCHANGED <<intf, mask>>
  /\ UNCHANGED <<step, idt, base, irr, isr, log, faults, spurious>>

----------------------------------------------------------------------------
(* Interrupts and exceptions.                                              *)

\* isr_common_noerr and isr_common_error: what was being printed is cut off, be it
\* between the screen and the port, and the gate has turned interrupts off.  Mutant: a
\* trap gate leaves them on.
PanicThroughTrap == cpu' = "panic" /\ UNCHANGED intf /\ text' = Letters(Dying, 0, PanicSize)
Panic == cpu' = "panic" /\ intf' = FALSE /\ text' = Letters(Dying, 0, PanicSize)

\* panic's loop, once its message is out.
PanicStops ==
  /\ cpu = "panic" /\ text = <<>>
  /\ cpu' = "stopped"
  /\ UNCHANGED <<step, intf, idt, pic, log, faults, spurious>>

\* A device asks for service.
Request(line) ==
  /\ line \notin irr /\ irr' = irr \cup {line}
  /\ cpu \notin {"stopped", "reset"}
  /\ UNCHANGED <<step, cpu, intf, idt, base, mask, isr, log, faults, spurious>>

\* An unspecific end of interrupt clears the first line in service of the first
\* controller.  Mutant: the keyboard's handler sends none.
EoiTimerOnly(n, serving) == IF n \in {32, 47} THEN serving \ {Min(serving \cup {16})} ELSE serving
Ended(n, serving) ==
  IF n \in {32, 33, 47} THEN serving \ {Min({l \in serving : l < 8} \cup {16})} ELSE serving

\* The stub prints the numbers below 32 past kprintf, without a wait, into the
\* transmitter's queue: X, a colon and two digits, one item here.
Number(n) == IF n < 32 THEN <<<<"X", n>>>> ELSE <<>>

\* isr_common_stub: a handler that returns, or panic.
Stub(n) ==
  /\ serial' = serial \o Number(n) /\ ready' = (ready /\ n >= 32)
  /\ IF n \in {32, 33, 47} THEN UNCHANGED <<cpu, intf, text, half>> ELSE Panic /\ half' = FALSE
  /\ UNCHANGED screen

\* A vector of the controllers with its gate.
Enter(v, serving) == isr' = Ended(StubOf(v), serving) /\ Stub(StubOf(v))

\* A handler runs to its iretq with interrupts off: one action.
Serve(line) ==
  /\ intf /\ Presented(line)
  /\ irr' = irr \ {line}
  /\ Enter(Vector(line), isr \cup {line} \cup (IF line >= 8 THEN {2} ELSE {}))
  /\ UNCHANGED <<step, idt, base, mask, faults, spurious>>

\* A request that is gone when the processor asks for its vector: the controller
\* answers with its last vector and puts nothing in service.  It takes an open
\* line of that controller.
Spurious(first) ==
  /\ intf /\ spurious < MaxSpurious /\ spurious' = spurious + 1
  /\ IF first THEN ~(0 .. 7 \subseteq mask) ELSE ~(8 .. 15 \subseteq mask) /\ 2 \notin mask
  /\ IF first THEN Enter(base[1] + 7, isr) ELSE Enter(base[2] + 7, isr \cup {2})
  /\ UNCHANGED <<step, idt, base, mask, irr, faults>>

\* An exception: without a table of gates the processor resets.
Exception(v) ==
  /\ cpu \in {"main", "shell"} /\ Len(faults) < MaxFaults
  /\ faults' = Append(faults, v)
  /\ IF ~idt THEN cpu' = "reset" /\ UNCHANGED <<intf, log>> ELSE Stub(StubOf(v))
  /\ UNCHANGED <<step, idt, pic, spurious>>

----------------------------------------------------------------------------
\* The loader leaves interrupts off and the controllers as the firmware set them.
Init ==
  /\ step = 0 /\ cpu = "main" /\ intf = FALSE /\ idt = FALSE
  /\ base = FirmwareBase /\ mask = {} /\ irr = {} /\ isr = {}
  /\ text = <<>> /\ half = FALSE /\ ready = TRUE /\ serial = <<>> /\ screen = <<>>
  /\ faults = <<>> /\ spurious = 0

Processor == Begin \/ Finish \/ PanicStops \/ Printing

Next ==
  \/ Processor \/ Transmit
  \/ \E line \in Lines : Request(line) \/ Serve(line)
  \/ \E first \in BOOLEAN : Spurious(first)
  \/ \E v \in Exceptions : Exception(v)

\* The processor runs on, the transmitter empties, and an open line that keeps
\* its request is served in the end: handlers are short against the timer's period.
Fairness ==
  /\ WF_vars(Processor) /\ WF_vars(Transmit)
  /\ \A line \in Lines : SF_vars(Serve(line))

Spec == Init /\ [][Next]_vars /\ Fairness

----------------------------------------------------------------------------
TypeOK ==
  /\ step \in 0 .. Len(Steps) /\ cpu \in States /\ intf \in BOOLEAN /\ idt \in BOOLEAN
  /\ mask \subseteq 0 .. 15 /\ irr \subseteq Lines /\ isr \subseteq 0 .. 15
  /\ half \in BOOLEAN /\ ready \in BOOLEAN /\ spurious \in 0 .. MaxSpurious /\ Len(faults) <= MaxFaults
  /\ intf = (cpu = "shell")

\* A device alone never brings the kernel down: interrupts are turned on only when
\* the gates are loaded, the controllers have left the exceptions' vectors, and
\* all lines without a handler are masked.  Panic takes an exception or noise, and
\* without them the only stop is kernel_main's own, with the whole log written.
DevicesNeverPanic ==
  cpu \in {"panic", "stopped", "reset"} /\ faults = <<>> /\ spurious = 0 =>
    cpu = "stopped" /\ serial = <<Hello>> \o Letters(Kernel, 0, Ends[Len(Steps)])

\* Between two instructions of the kernel no line is left in service, which would
\* shut out that line and all behind it for good.
NoneLeftInService == cpu # "panic" /\ cpu # "stopped" => isr = {}

\* What comes before and between the two texts of the log.
Greeting == IF step = 0 THEN <<>> ELSE <<Hello>>
Noted    == IF faults = <<>> \/ cpu = "reset" THEN <<>> ELSE Number(StubOf(faults[1]))

\* Characters that terminal_init has cleared away.
Missed == IF step < 4 THEN 0 ELSE Ends[3]
Ahead  == IF half THEN 1 ELSE 0

\* The log and the screen when n characters of the start and p of a panic have gone
\* to the port, and cut more of the start to the screen.
Printed(n, cut, p) ==
  /\ serial = Greeting \o Letters(Kernel, 0, n) \o Noted \o Letters(Dying, 0, p)
  /\ screen = Letters(Kernel, Missed, n + cut)
              \o Letters(Dying, 0, IF cpu = "panic" THEN p + Ahead ELSE p)

\* The log tells how far the kernel got, and the screen shows the end of it without
\* the exception's number: the last character of the start lies in the message of
\* the step the kernel is in.  The screen is ahead of the log by the character that
\* waits for the transmitter; what an exception finds waiting stays on the screen and
\* never gets to the log, where panic's message follows.
LogTellsHowFar ==
  /\ idt <=> step >= 2
  /\ \E n \in 0 .. Ends[step], cut \in {0, 1}, p \in 0 .. PanicSize :
       /\ Printed(n, cut, p)
       /\ step > 0 => n >= Ends[step - 1]
       /\ n + cut <= Ends[step]
       /\ cpu \in {"main", "shell", "reset"} => cut = Ahead /\ p = 0

\* What holds between any two instructions of the kernel.
StartSound == TypeOK /\ NoneLeftInService /\ LogTellsHowFar

\* A transmitter that empties is all it takes for the start to come to an end.
StartEnds == <>(cpu \in {"shell", "stopped", "reset"})

\* A key or a tick that is announced to the running shell is served.
RequestsServed ==
  \A line \in Lines \cap {0, 1} :
    (line \in irr /\ cpu = "shell") ~> (line \notin irr \/ cpu # "shell")

=============================================================================
