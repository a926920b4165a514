-------------------------------- MODULE Boot --------------------------------
(***************************************************************************)
(* From reset to the first process: kmain (kernel/kmain.c) with the        *)
(* descriptor tables, the interrupt controllers and the serial port it     *)
(* sets up, and vm_init of KernelMemory.                                   *)
(*                                                                         *)
(* Devices may ask for an interrupt at any moment.  The rest of the kernel *)
(* relies on never getting one: the dispatcher and the queues have no      *)
(* protection but that (SysCall).                                          *)
(***************************************************************************)
EXTENDS KernelMemory, SequencesExt

CONSTANT Lines   \* the interrupt lines of the devices, 0..15

ASSUME BootAssumption == Lines \subseteq 0..15

VARIABLES step,       \* how many steps of kmain are done
          port,       \* initialized[COM1]
          segments,   \* the GDT is loaded
          idtr,       \* the IDT is loaded
          gate,       \* the handler in each entry of the IDT
          enabled,    \* the interrupt flag
          masked,     \* the lines the controllers hold back
          vector,     \* the vector of line 0 and of line 8
          pending     \* the lines that ask for an interrupt

machine == <<step, port, segments, idtr, gate, enabled, masked, vector, pending>>
vars == <<memory, machine>>

\* Seeded fault: interrupts are enabled before the controllers are set up.
StepsEarlySti == <<"serial", "gdt", "idt", "cli", "irq", "sti", "pic", "vm">>

\* The calls of kmain, in order; then it creates the processes.
Steps == <<"serial", "gdt", "idt", "cli", "irq", "pic", "sti", "vm">>

At(name) == step < Len(Steps) /\ Steps[step + 1] = name
Done == step' = step + 1

\* serial_init also disables the interrupts of the port.
SerialInit ==
  /\ At("serial") /\ Done
  /\ port' = TRUE
  /\ UNCHANGED <<memory, segments, idtr, gate, enabled, masked, vector, pending>>

GdtInit ==
  /\ At("gdt") /\ Done
  /\ segments' = TRUE
  /\ UNCHANGED <<memory, port, idtr, gate, enabled, masked, vector, pending>>

IdtInit ==
  /\ At("idt") /\ Done
  /\ idtr' = TRUE
  /\ UNCHANGED <<memory, port, segments, gate, enabled, masked, vector, pending>>

\* cli and sti.
SetFlag ==
  /\ At("cli") \/ At("sti")
  /\ enabled' = At("sti")
  /\ Done
  /\ UNCHANGED <<memory, port, segments, idtr, gate, masked, vector, pending>>

----------------------------------------------------------------------------
REQUIRED_INTERRUPTS == 32
Isrs == 17          \* handlers named in irq_init
DoubleFault == 8
SystemCall == 96    \* 0x60

\* Seeded fault: the gates behind the handlers that have a name are left out.
HandlerNamed(v) ==
  CASE v = DoubleFault -> "rtc_isr"
    [] v = SystemCall  -> "sys_call_isr"
    [] v < Isrs        -> "panic"
    [] OTHER           -> "none"

(***************************************************************************)
(* irq_init: all exceptions panic, but the double fault is then given to   *)
(* the handler of the real-time clock.                                     *)
(***************************************************************************)
Handler(v) ==
  CASE v = DoubleFault         -> "rtc_isr"
    [] v = SystemCall          -> "sys_call_isr"
    [] v < REQUIRED_INTERRUPTS -> "panic"
    [] OTHER                   -> "none"

IrqInit ==
  /\ At("irq") /\ Done
  /\ gate' = [v \in 0..255 |-> Handler(v)]
  /\ UNCHANGED <<memory, port, segments, idtr, enabled, masked, vector, pending>>

\* The masks written last.
Mask == 0..15

\* pic_init: initialising clears the requests, then every line is held back.
PicInit ==
  /\ At("pic") /\ Done
  /\ vector' = <<32, 40>>
  /\ masked' = Mask
  /\ pending' = {}
  /\ UNCHANGED <<memory, port, segments, idtr, gate, enabled>>

\* vm_init, in its own steps.
VmStep ==
  /\ At("vm")
  /\ VmInit
  /\ step' = IF stage' = "running" THEN step + 1 ELSE step
  /\ UNCHANGED <<port, segments, idtr, gate, enabled, masked, vector, pending>>

\* What the processes take from the heap afterwards.
Run == step = Len(Steps) /\ Kmalloc /\ UNCHANGED machine

Kmain == \/ SerialInit \/ GdtInit \/ IdtInit \/ SetFlag \/ IrqInit \/ PicInit
         \/ VmStep

----------------------------------------------------------------------------
\* A device asks for an interrupt.
Raise(line) ==
  /\ pending' = pending \cup {line}
  /\ UNCHANGED <<memory, step, port, segments, idtr, gate, enabled, masked, vector>>

Stopped == Panicked /\ UNCHANGED vars

\* A boot loader hands over with interrupts off; the controllers are as the
\* BIOS has set them, with line 0 at vector 8.
Init ==
  /\ MemoryInit
  /\ step = 0
  /\ port = FALSE /\ segments = FALSE /\ idtr = FALSE
  /\ gate = [v \in 0..255 |-> "none"]
  /\ enabled = FALSE
  /\ masked = {} /\ vector = <<8, 112>> /\ pending = {}

Next == Kmain \/ Run \/ (\E line \in Lines : Raise(line)) \/ Stopped

\* kmain is straight-line code on the only processor.
Spec == Init /\ [][Next]_vars /\ WF_vars(Kmain)

----------------------------------------------------------------------------
\* The types.
TypeOK ==
  /\ MemoryTypeOK
  /\ step \in 0..Len(Steps)
  /\ {port, segments, idtr, enabled} \subseteq BOOLEAN
  /\ gate \in [0..255 -> {"none", "panic", "rtc_isr", "sys_call_isr"}]
  /\ masked \subseteq 0..15 /\ pending \subseteq Lines
  /\ vector \in {<<8, 112>>, <<32, 40>>}

(***************************************************************************)
(* No device ever interrupts the kernel, at whatever moment of the boot it *)
(* asks to, although interrupts are enabled from kmain's sti on (the order *)
(* of cli, pic_init and sti, and the masks of both controllers).           *)
(***************************************************************************)
NoDeviceInterrupts == enabled => pending \subseteq masked

(***************************************************************************)
(* From the creation of the first process on, the system call has its gate *)
(* and every exception of the processor panics, in an IDT and with a code  *)
(* segment that are loaded; all but the double fault, whose gate irq_init  *)
(* gives to the clock.  And a panic, at whatever moment, is heard: kpanic  *)
(* prints through serial_out, which drops what it gets before serial_init  *)
(* (irq_init, kmain).                                                      *)
(***************************************************************************)
FaultsAreReported ==
  /\ PagingIsOn =>
       /\ segments /\ idtr
       /\ gate[SystemCall] = "sys_call_isr"
       /\ \A v \in 0..(REQUIRED_INTERRUPTS - 1) \ {DoubleFault} : gate[v] = "panic"
       /\ gate[DoubleFault] # "none"
  /\ Panicked => port

\* The pages a kernel of that end, its tables and its heap need at most.
PagesNeeded(e) == e \div PageSize + SlackPages + HeapPages + 2 * Tables + 4

(***************************************************************************)
(* vm_init ends, although its loop makes the tables that put off its own   *)
(* bound; and with enough memory it does not end in a panic.               *)
(***************************************************************************)
BootEnds ==
  <>(step = Len(Steps) \/ (stage = "out of memory" /\ PagesNeeded(end) > Frames))

=============================================================================
