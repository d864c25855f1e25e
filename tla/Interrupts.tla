----------------------------- MODULE Interrupts -----------------------------
(***************************************************************************)
(* The interrupt handling of kernel/interrupt.c: the masks of the two      *)
(* interrupt controllers, the dispatch of device interrupts and of         *)
(* exceptions, and the end-of-interrupt signals.                           *)
(*                                                                         *)
(* External, from how the code programs and uses it: the controllers, the  *)
(* slave of which is wired to line 2 of the master.  A controller holds    *)
(* back a line while it serves one of the same or a higher priority, which *)
(* is a lower number, and an end-of-interrupt signal ends the one of the   *)
(* highest priority that it serves.  The processor takes an interrupt only *)
(* while its interrupt flag is set, and clears the flag on entry.          *)
(*                                                                         *)
(* A mask register is the set of its bits that are 1.  The variable        *)
(* irq_mask, in which the code keeps a copy of the masks, is read only in  *)
(* a branch that is never taken (see WriteMask) and is left out.           *)
(***************************************************************************)
EXTENDS Integers, Sequences, FiniteSets, FiniteSetsExt

CONSTANTS Lines,       \* the device lines looked at, of 0 .. 15
          Behaviour,   \* what the handler written for a line does
          Vectors,     \* numbers of exceptions and software interrupts
          MaxFrames    \* bound: interrupts that are nested

IRQ_TIMER == 0

IRQ_CASCADE == 2

Pics == {1, 2}

Pic(irq) == IF irq < 8 THEN 1 ELSE 2

Bit(irq) == irq % 8

Bits(pic) == {Bit(irq) : irq \in {l \in Lines : Pic(l) = pic}}

\* A handler returns ("plain"), masks its own line ("masks"), or sets the
\* interrupt flag before it returns ("opens", as timer_tick_handler does when
\* it calls schedule).
Behaviours == {"plain", "masks", "opens"}

ASSUME InterruptAssumption ==
  /\ Lines \subseteq 0 .. 15
  /\ {IRQ_TIMER, IRQ_CASCADE} \subseteq Lines
  /\ \A irq \in Lines : Bit(irq) \in Lines
  /\ Behaviour \in [Lines \ {IRQ_CASCADE} -> Behaviours]
  /\ Vectors \subseteq 0 .. 255
  /\ MaxFrames \in Nat \ {0}

VARIABLES imr,                 \* the mask register of each controller
          requested,           \* device lines raised and not yet served
          serving,             \* the lines a controller serves
          flag,                \* the interrupt flag of the processor
          frames,              \* interrupts entered and not left, newest first
          irq_handlers,        \* lines that have a handler
          exception_handlers,  \* exceptions with a handler that returns
          op,                  \* the call of enable_irq or disable_irq under way
          enabled,             \* lines that calls enabled last (history)
          overtaken,           \* lines a handler masked under a call (history)
          halted               \* kernel_panic was called, or a walk over a
                               \* queue of the scheduler does not end

vars == <<imr, requested, serving, flag, frames, irq_handlers,
          exception_handlers, op, enabled, overtaken, halted>>

NoOp == [name |-> "none"]

Steps == {"handler", "eoi_slave", "eoi_master", "iret"}

Ops == {NoOp} \union [name : {"enable_irq", "disable_irq"}, irq : Lines,
                      pc : {"read", "write"}, value : SUBSET (0 .. 7)]

\* init_interrupts: every line is masked and then the flag is set.
Init ==
  /\ imr = [p \in Pics |-> Bits(p)]
  /\ requested = {}
  /\ serving = {}
  /\ flag = TRUE
  /\ frames = <<>>
  /\ irq_handlers = {}
  /\ exception_handlers = {}
  /\ op = NoOp
  /\ enabled = {}
  /\ overtaken = {}
  /\ halted = FALSE

Masked(irq) == Bit(irq) \in imr[Pic(irq)]

(***************************************************************************)
(* The devices, the controllers and the processor                          *)
(***************************************************************************)

Raise(irq) ==
  /\ ~ halted /\ irq \notin requested
  /\ requested' = requested \union {irq}
  /\ UNCHANGED <<imr, serving, flag, frames, irq_handlers,
                 exception_handlers, op, enabled, overtaken, halted>>

\* The line at which the master sees a request, and the lines of a controller.
MasterLine(irq) == IF Pic(irq) = 1 THEN irq ELSE IRQ_CASCADE

Served(pic) == {l \in serving : Pic(l) = pic}

\* The controllers pass the request on.
Passes(irq) ==
  /\ irq \in requested
  /\ ~ Masked(irq) /\ ~ Masked(MasterLine(irq))
  /\ \A l \in Served(1) : l > MasterLine(irq)
  /\ Pic(irq) = 2 => \A l \in Served(2) : l > irq

Priority(irq) == 16 * MasterLine(irq) + irq

\* The processor enters the stub of the line, which calls handle_irq.
Accept(irq) ==
  /\ ~ halted /\ flag
  /\ Len(frames) < MaxFrames
  /\ Passes(irq)
  /\ \A l \in Lines : Passes(l) => Priority(irq) <= Priority(l)
  /\ requested' = requested \ {irq}
  /\ serving' = serving \union {irq, MasterLine(irq)}
  /\ flag' = FALSE
  /\ frames' = <<[irq |-> irq, pc |-> "handler"]>> \o frames
  /\ UNCHANGED <<imr, irq_handlers, exception_handlers, op, enabled,
                 overtaken, halted>>

(***************************************************************************)
(* handle_irq and send_eoi.  The newest frame is the one that runs.        *)
(***************************************************************************)

Top == Head(frames)

Running(pc) == ~ halted /\ frames # <<>> /\ Top.pc = pc

GoOn(pc) == frames' = [frames EXCEPT ![1].pc = pc]

\* Mutant: send_eoi does not look at the line.
EoiAlwaysMaster(irq) == "eoi_master"

\* send_eoi signals the slave first for a line of the slave.
FirstEoi(irq) == IF irq >= 8 THEN "eoi_slave" ELSE "eoi_master"

\* A line without a handler is only reported.  A handler runs with the flag
\* clear, so what it does to a mask is one step.
handle_irq ==
  LET irq == Top.irq
      does == IF irq \in irq_handlers THEN Behaviour[irq] ELSE "plain"
  IN  /\ Running("handler")
      /\ GoOn(FirstEoi(irq))
      /\ flag' = (does = "opens")
      /\ IF does = "masks"
         THEN /\ imr' = [imr EXCEPT ![Pic(irq)] = @ \union {Bit(irq)}]
              /\ enabled' = enabled \ {irq}
              /\ overtaken' = IF op # NoOp /\ op.pc = "write" /\ Pic(op.irq) = Pic(irq)
                              THEN overtaken \union {irq} ELSE overtaken \ {irq}
         ELSE UNCHANGED <<imr, enabled, overtaken>>
      /\ UNCHANGED <<requested, serving, irq_handlers, exception_handlers, op, halted>>

\* The signal ends the service of the highest priority, if there is one.
EndsService(pic) == IF Served(pic) = {} THEN {} ELSE {Min(Served(pic))}

send_eoi ==
  /\ \/ Running("eoi_slave") /\ serving' = serving \ EndsService(2) /\ GoOn("eoi_master")
     \/ Running("eoi_master") /\ serving' = serving \ EndsService(1) /\ GoOn("iret")
  /\ UNCHANGED <<imr, requested, flag, irq_handlers, exception_handlers,
                 op, enabled, overtaken, halted>>

\* The stub restores the registers and the flag, which was set.
Return ==
  /\ Running("iret")
  /\ frames' = Tail(frames)
  /\ flag' = TRUE
  /\ UNCHANGED <<imr, requested, serving, irq_handlers, exception_handlers,
                 op, enabled, overtaken, halted>>

(***************************************************************************)
(* Calls from a task                                                       *)
(***************************************************************************)

InTask == ~ halted /\ frames = <<>>

\* enable_irq and disable_irq read a mask register and write it back with one
\* bit changed; an interrupt may come in between.  No critical section calls
\* them.
Call(name, irq) ==
  /\ InTask /\ op = NoOp /\ flag
  /\ op' = [name |-> name, irq |-> irq, pc |-> "read", value |-> {}]
  /\ UNCHANGED <<imr, requested, serving, flag, frames, irq_handlers,
                 exception_handlers, enabled, overtaken, halted>>

\* Mutant: the other bits of the register are not kept.
ChangedAlone(name, bits, bit) ==
  IF name = "enable_irq" THEN {b \in bits : FALSE} ELSE bits \union {bit}

Changed(name, bits, bit) ==
  IF name = "enable_irq" THEN bits \ {bit} ELSE bits \union {bit}

\* Mutant: 8 is not subtracted for the slave.
ReadMaskUnreduced ==
  /\ InTask /\ op # NoOp /\ op.pc = "read"
  /\ op' = [op EXCEPT !.pc = "write",
                      !.value = Changed(op.name, imr[Pic(op.irq)], op.irq)]
  /\ UNCHANGED <<imr, requested, serving, flag, frames, irq_handlers,
                 exception_handlers, enabled, overtaken, halted>>

ReadMask ==
  /\ InTask /\ op # NoOp /\ op.pc = "read"
  /\ op' = [op EXCEPT !.pc = "write",
                      !.value = Changed(op.name, imr[Pic(op.irq)], Bit(op.irq))]
  /\ UNCHANGED <<imr, requested, serving, flag, frames, irq_handlers,
                 exception_handlers, enabled, overtaken, halted>>

\* The branch of enable_irq that unmasks line 2 tests irq >= 8 after 8 was
\* subtracted from irq, so it is never taken.
WriteMask ==
  /\ InTask /\ op # NoOp /\ op.pc = "write"
  /\ imr' = [imr EXCEPT ![Pic(op.irq)] = op.value]
  /\ enabled' = IF op.name = "enable_irq" THEN enabled \union {op.irq}
                ELSE enabled \ {op.irq}
  /\ overtaken' = overtaken \ {op.irq}
  /\ op' = NoOp
  /\ UNCHANGED <<requested, serving, flag, frames, irq_handlers,
                 exception_handlers, halted>>

\* The two registers are written without being read, so an interrupt between
\* the writes makes no difference.
SetAll(mask) ==
  /\ InTask /\ op = NoOp
  /\ imr' = [p \in Pics |-> IF mask THEN Bits(p) ELSE {}]
  /\ enabled' = IF mask THEN {} ELSE Lines
  /\ overtaken' = {}
  /\ UNCHANGED <<requested, serving, flag, frames, irq_handlers, exception_handlers,
                 op, halted>>

mask_all_irqs == SetAll(TRUE)

unmask_all_irqs == SetAll(FALSE)

register_irq_handler(irq) ==
  /\ InTask /\ op = NoOp
  /\ irq_handlers' = irq_handlers \union {irq}
  /\ UNCHANGED <<imr, requested, serving, flag, frames, exception_handlers,
                 op, enabled, overtaken, halted>>

\* A vector that is not an exception is refused.
register_exception_handler(vector) ==
  /\ InTask /\ op = NoOp
  /\ vector < 32
  /\ exception_handlers' = exception_handlers \union {vector}
  /\ UNCHANGED <<imr, requested, serving, flag, frames, irq_handlers,
                 op, enabled, overtaken, halted>>

\* isr_common_stub calls handle_exception for the software interrupts too,
\* and handle_exception panics for every number that is not an exception.
\* default_exception_handler and page_fault_handler, the one handler that
\* init_interrupts registers, panic as well.
handle_exception(vector) ==
  /\ InTask
  /\ vector \notin exception_handlers
  /\ halted' = TRUE
  /\ UNCHANGED <<imr, requested, serving, flag, frames, irq_handlers,
                 exception_handlers, op, enabled, overtaken>>

enter_critical ==
  /\ InTask /\ op = NoOp /\ flag
  /\ flag' = FALSE
  /\ UNCHANGED <<imr, requested, serving, frames, irq_handlers,
                 exception_handlers, op, enabled, overtaken, halted>>

\* Mutant: the flag is not set again.
ExitKeepsFlag ==
  /\ InTask /\ op = NoOp /\ ~ flag
  /\ UNCHANGED vars

exit_critical ==
  /\ InTask /\ op = NoOp /\ ~ flag
  /\ flag' = TRUE
  /\ UNCHANGED <<imr, requested, serving, frames, irq_handlers,
                 exception_handlers, op, enabled, overtaken, halted>>

\* A walk over a queue, in a critical section or in a handler, does not end: a
\* queue may become a ring (Scheduler, NeverHangs).
WalkNeverEnds ==
  /\ ~ halted /\ ~ flag
  /\ frames # <<>> => Top.pc = "handler" /\ Top.irq \in irq_handlers
  /\ halted' = TRUE
  /\ UNCHANGED <<imr, requested, serving, flag, frames, irq_handlers,
                 exception_handlers, op, enabled, overtaken>>

Next ==
  \/ \E irq \in Lines \ {IRQ_CASCADE} : Raise(irq) \/ Accept(irq) \/ register_irq_handler(irq)
  \/ handle_irq \/ send_eoi \/ Return
  \/ \E irq \in Lines : Call("enable_irq", irq) \/ Call("disable_irq", irq)
  \/ ReadMask \/ WriteMask
  \/ mask_all_irqs \/ unmask_all_irqs
  \/ \E vector \in Vectors : register_exception_handler(vector) \/ handle_exception(vector)
  \/ enter_critical \/ exit_critical \/ WalkNeverEnds

Spec == Init /\ [][Next]_vars

\* The processor runs: a handler, or a critical section, that no walk holds up
\* comes to its end, for nothing else can run.  It takes an interrupt that is
\* passed on at the first instruction at which its flag is set, so a request of
\* the timer that is passed on again and again while the flag is set is taken.
FairSpec ==
  /\ Spec
  /\ WF_vars(handle_irq \/ send_eoi \/ Return)
  /\ WF_vars(exit_critical)
  /\ SF_vars(Accept(IRQ_TIMER))

(***************************************************************************)
(* Properties                                                              *)
(***************************************************************************)

\* Type invariant: a mask register has eight bits, also when the register of
\* the slave is changed for one of the lines 8 to 15.
TypeOK ==
  /\ imr \in [Pics -> SUBSET (0 .. 7)]
  /\ requested \subseteq Lines \ {IRQ_CASCADE}
  /\ serving \subseteq Lines
  /\ flag \in BOOLEAN /\ halted \in BOOLEAN
  /\ frames \in Seq([irq : Lines \ {IRQ_CASCADE}, pc : Steps])
  /\ Len(frames) <= MaxFrames
  /\ irq_handlers \subseteq Lines
  /\ exception_handlers \subseteq Vectors
  /\ op \in Ops
  /\ enabled \subseteq Lines /\ overtaken \subseteq Lines

Before(pcs) == {frames[i].irq : i \in {j \in DOMAIN frames : frames[j].pc \in pcs}}

\* The controllers serve exactly the lines whose handlers have been entered
\* and have not signalled their end: however handlers are nested, a signal of
\* send_eoi ends the interrupt it is sent for, on both controllers.
EachSignalEndsItsOwn ==
  /\ Served(1) = {MasterLine(irq) : irq \in Before({"handler", "eoi_slave", "eoi_master"})}
  /\ Served(2) = {irq \in Before({"handler", "eoi_slave"}) : irq >= 8}

\* A line for which enable_irq was the last call made, by a task or a handler,
\* is not masked, however calls and handlers interleave.  One for which
\* disable_irq was the last is masked, unless it was a handler that made the
\* call, between the read and the write of a task's call for the same
\* controller: only such a call can be undone.  Line 2 may be unmasked without
\* a call for it, as enable_irq means to do for the lines of the slave.
MasksMatchCalls ==
  \A irq \in Lines : IF irq \in enabled
                     THEN ~ Masked(irq)
                     ELSE Masked(irq) \/ irq \in overtaken \/ irq = IRQ_CASCADE

\* A timer interrupt that is raised while its line is not masked is taken,
\* unless the line is masked first, the kernel panics or a walk over a queue
\* does not end: neither other handlers and their order of priority, nor
\* critical sections, nor calls hold it back for ever.
TimerIsTaken ==
  (IRQ_TIMER \in requested /\ ~ Masked(IRQ_TIMER))
    ~> (IRQ_TIMER \notin requested \/ Masked(IRQ_TIMER) \/ halted)

=============================================================================
