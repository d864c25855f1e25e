-------------------------- MODULE InterruptsProofs --------------------------
(***************************************************************************)
(* Proofs about the masks and the end-of-interrupt signals, for every set  *)
(* of lines, every behaviour of the handlers and every depth of nesting.   *)
(***************************************************************************)
EXTENDS Interrupts, SequenceTheorems, TLAPS

\* The bit of l in the value that the call o is about to write, which has been
\* read before: masked only if the register, which is now bits, says so, and
\* exactly if l has not been masked by a handler since.
BitIsCurrent(o, bits, over, l) ==
  /\ Bit(l) \in o.value => Bit(l) \in Changed(o.name, bits, Bit(o.irq))
  /\ Bit(l) \in Changed(o.name, bits, Bit(o.irq)) => Bit(l) \in o.value \/ l \in over

\* What a call is about to write: for its own line what it was asked for, for
\* the other lines what they need, but for those that a handler masked after
\* the call read the register.
WriteIsCurrent ==
  op # NoOp /\ op.pc = "write" =>
    /\ op.name = "disable_irq" => Bit(op.irq) \in op.value
    /\ \A l \in Lines : Pic(l) = Pic(op.irq) =>
         BitIsCurrent(op, imr[Pic(op.irq)], overtaken, l)

\* Of two handlers that have not signalled their end on the master, the newer
\* one is of higher priority; the slave is signalled only for its own lines.
Nested ==
  /\ \A i, j \in 1 .. Len(frames) :
       i < j /\ frames[i].pc # "iret" /\ frames[j].pc # "iret"
         => MasterLine(frames[i].irq) < MasterLine(frames[j].irq)
  /\ \A i \in 1 .. Len(frames) : frames[i].pc = "eoi_slave" => frames[i].irq >= 8

IInv ==
  /\ TypeOK
  /\ MasksMatchCalls /\ WriteIsCurrent
  /\ EachSignalEndsItsOwn /\ Nested

Frame == [irq : Lines \ {IRQ_CASCADE}, pc : Steps]

-----------------------------------------------------------------------------

\* A line is found at one of the eight bits of one controller, and no two
\* lines at the same (enable_irq: 8 is subtracted for the slave).
LEMMA LinesAreDistinct ==
  /\ \A irq \in Lines : Pic(irq) \in Pics /\ Bit(irq) \in 0 .. 7 /\ Bit(irq) \in Bits(Pic(irq))
  /\ \A irq, l \in Lines : Pic(irq) = Pic(l) /\ Bit(irq) = Bit(l) => irq = l
  /\ \A pic \in Pics : Bits(pic) \subseteq 0 .. 7
<1>1. \A irq \in Lines : irq \in 0 .. 15
  BY InterruptAssumption
<1>2. \A irq \in Lines : Pic(irq) \in Pics /\ Bit(irq) \in 0 .. 7
  BY <1>1 DEF Pic, Pics, Bit
<1>3. \A irq, l \in Lines : Pic(irq) = Pic(l) /\ Bit(irq) = Bit(l) => irq = l
  BY <1>1 DEF Pic, Bit
<1>4. \A irq \in Lines : Bit(irq) \in Bits(Pic(irq))
  BY DEF Bits
<1>5. \A pic \in Pics : Bits(pic) \subseteq 0 .. 7
  BY <1>2 DEF Bits
<1> QED  BY <1>2, <1>3, <1>4, <1>5

\* After init_interrupts every line is masked and no handler runs.
LEMMA InitHolds == Init => IInv
<1> SUFFICES ASSUME Init PROVE IInv
  OBVIOUS
<1>1. TypeOK
  <2>1. imr \in [Pics -> SUBSET (0 .. 7)]
    BY LinesAreDistinct DEF Init
  <2>2. frames \in Seq([irq : Lines \ {IRQ_CASCADE}, pc : Steps]) /\ Len(frames) <= MaxFrames
    BY InterruptAssumption DEF Init
  <2>3. op \in Ops
    BY DEF Init, Ops
  <2> QED  BY <2>1, <2>2, <2>3, Zenon DEF Init, TypeOK
<1>2. MasksMatchCalls
  BY LinesAreDistinct DEF Init, MasksMatchCalls, Masked
<1>3. WriteIsCurrent
  BY DEF Init, WriteIsCurrent
<1>4. EachSignalEndsItsOwn /\ Nested
  BY DEF Init, EachSignalEndsItsOwn, Nested, Served, Before
<1> QED  BY <1>1, <1>2, <1>3, <1>4 DEF IInv

-----------------------------------------------------------------------------
(* The stack of handlers. *)

\* The newest frame, and what GoOn does to it.
LEMMA TopFrame ==
  ASSUME TypeOK, frames # <<>>, NEW pc \in Steps, GoOn(pc)
  PROVE  /\ Len(frames) \in Nat /\ 1 \in 1 .. Len(frames)
         /\ Top = frames[1] /\ Top \in Frame
         /\ frames' \in Seq(Frame) /\ Len(frames') = Len(frames)
         /\ frames'[1].irq = Top.irq /\ frames'[1].pc = pc
         /\ \A i \in 2 .. Len(frames) : frames'[i] = frames[i]
<1> DEFINE f == [Top EXCEPT !.pc = pc]
<1>1. frames \in Seq(Frame) /\ Len(frames) \in Nat \ {0}
  BY EmptySeq DEF TypeOK, Frame
<1>2. Top = frames[1] /\ Top \in Frame
  BY <1>1, ElementOfSeq DEF Top
<1>3. f \in Frame /\ f.irq = Top.irq /\ f.pc = pc
  BY <1>2 DEF Frame
<1>4. frames' = [frames EXCEPT ![1] = f]
  BY <1>2 DEF GoOn
<1> HIDE DEF f
<1>5. 1 \in 1 .. Len(frames)
  BY <1>1
<1>6. /\ frames' \in Seq(Frame) /\ Len(frames') = Len(frames)
      /\ \A i \in 1 .. Len(frames) : frames'[i] = IF i = 1 THEN f ELSE frames[i]
  BY <1>1, <1>3, <1>4, <1>5, ExceptSeq
<1> QED  BY <1>1, <1>2, <1>3, <1>5, <1>6

\* A step that leaves the masks and the call under way alone.
LEMMA MasksUntouched ==
  ASSUME IInv, UNCHANGED <<imr, op, enabled, overtaken>>
  PROVE  MasksMatchCalls' /\ WriteIsCurrent'
  BY DEF IInv, MasksMatchCalls, Masked, WriteIsCurrent, BitIsCurrent, Changed, Pic, Bit

\* Which lines Before names, in this state and in the next.
LEMMA BeforeNames ==
  ASSUME frames \in Seq(Frame), frames' \in Seq(Frame), NEW pcs, NEW irq
  PROVE  /\ irq \in Before(pcs) <=>
              \E i \in 1 .. Len(frames) : frames[i].pc \in pcs /\ frames[i].irq = irq
         /\ irq \in Before(pcs)' <=>
              \E i \in 1 .. Len(frames') : frames'[i].pc \in pcs /\ frames'[i].irq = irq
<1>1. DOMAIN frames = 1 .. Len(frames) /\ DOMAIN frames' = 1 .. Len(frames')
  BY LenProperties
<1> QED  BY <1>1 DEF Before

-----------------------------------------------------------------------------
(* Interrupts are entered, end and are left. *)

\* The line of the master for a line, and the controllers of both.
LEMMA MasterLines ==
  \A irq \in Lines :
    /\ MasterLine(irq) \in Lines /\ MasterLine(irq) \in 0 .. 7 /\ Pic(MasterLine(irq)) = 1
    /\ irq < 8 => Pic(irq) = 1 /\ MasterLine(irq) = irq
    /\ irq >= 8 => Pic(irq) = 2 /\ MasterLine(irq) = 2
  BY InterruptAssumption DEF MasterLine, Pic, IRQ_CASCADE

\* The processor enters the handler of a line that no served line outranks.
LEMMA AcceptStep ==
  ASSUME IInv, NEW irq \in Lines \ {IRQ_CASCADE}, Accept(irq)
  PROVE  IInv'
<1> DEFINE f == [irq |-> irq, pc |-> "handler"]
<1>1. frames \in Seq(Frame) /\ Len(frames) \in Nat /\ <<f>> \in Seq(Frame) /\ Len(<<f>>) = 1
  BY LenProperties DEF IInv, TypeOK, Frame, Steps
<1>2. frames' = <<f>> \o frames
  BY DEF Accept
<1> HIDE DEF f
<1>3. /\ frames' \in Seq(Frame) /\ Len(frames') = Len(frames) + 1
      /\ frames'[1] = f
      /\ \A i \in 2 .. Len(frames) + 1 : frames'[i] = frames[i - 1]
  BY <1>1, <1>2, ConcatProperties
<1>4. f.irq = irq /\ f.pc = "handler"
  BY DEF f
<1>5. TypeOK'
  <2>1. serving' \subseteq Lines /\ requested' \subseteq Lines \ {IRQ_CASCADE}
    BY MasterLines DEF Accept, IInv, TypeOK
  <2>2. Len(frames') <= MaxFrames
    BY <1>1, <1>3, InterruptAssumption DEF Accept
  <2>3. flag' \in BOOLEAN
    BY Zenon DEF Accept
  <2> QED  BY <1>3, <2>1, <2>2, <2>3 DEF Accept, IInv, TypeOK, Frame
<1>6. MasksMatchCalls' /\ WriteIsCurrent'
  BY MasksUntouched DEF Accept
<1>7. \A pcs : "handler" \in pcs => Before(pcs)' = Before(pcs) \union {irq}
  <2> SUFFICES ASSUME NEW pcs, "handler" \in pcs, NEW l
               PROVE  l \in Before(pcs)' <=> l \in Before(pcs) \/ l = irq
    OBVIOUS
  <2>1. ASSUME l \in Before(pcs)' PROVE l \in Before(pcs) \/ l = irq
    <3>1. PICK i \in 1 .. Len(frames') : frames'[i].pc \in pcs /\ frames'[i].irq = l
      BY <1>1, <1>3, <2>1, BeforeNames
    <3>2. CASE i = 1
      BY <1>3, <1>4, <3>1, <3>2
    <3>3. CASE i # 1
      <4>1. i - 1 \in 1 .. Len(frames) /\ frames'[i] = frames[i - 1]
        BY <1>1, <1>3, <3>3
      <4> QED  BY <1>1, <1>3, <3>1, <4>1, BeforeNames
    <3> QED  BY <3>2, <3>3
  <2>2. ASSUME l \in Before(pcs) PROVE l \in Before(pcs)'
    <3>1. PICK i \in 1 .. Len(frames) : frames[i].pc \in pcs /\ frames[i].irq = l
      BY <1>1, <1>3, <2>2, BeforeNames, SMTT(30)
    <3>2. i + 1 \in 1 .. Len(frames') /\ frames'[i + 1] = frames[i]
      BY <1>1, <1>3
    <3> QED  BY <1>1, <1>3, <3>1, <3>2, BeforeNames
  <2>3. irq \in Before(pcs)'
    <3>1. 1 \in 1 .. Len(frames')
      BY <1>1, <1>3
    <3> QED  BY <1>1, <1>3, <1>4, <3>1, BeforeNames
  <2> QED  BY <2>1, <2>2, <2>3
<1>8. /\ Served(1)' = Served(1) \union {MasterLine(irq)}
      /\ Served(2)' = Served(2) \union {l \in {irq} : l >= 8}
  BY MasterLines, InterruptAssumption DEF Accept, Served
<1>9. EachSignalEndsItsOwn'
  BY <1>7, <1>8 DEF IInv, EachSignalEndsItsOwn, MasterLine
<1>10. Nested'
  <2>1. \A i \in 1 .. Len(frames) : frames[i] \in Frame
    BY <1>1, ElementOfSeq
  <2>2. ASSUME NEW i \in 1 .. Len(frames), frames[i].pc # "iret"
        PROVE  MasterLine(irq) < MasterLine(frames[i].irq)
    <3>1. frames[i].pc \in {"handler", "eoi_slave", "eoi_master"}
      BY <2>1, <2>2 DEF Frame, Steps
    <3>2. frames[i].irq \in Before({"handler", "eoi_slave", "eoi_master"})
      BY <1>1, <1>3, <3>1, BeforeNames, Zenon
    <3>3. MasterLine(frames[i].irq) \in Served(1)
      BY <3>2 DEF IInv, EachSignalEndsItsOwn
    <3>4. MasterLine(irq) \in Int /\ MasterLine(frames[i].irq) \in Int
      BY <2>1, MasterLines DEF Frame
    <3> QED  BY <3>3, <3>4 DEF Accept, Passes
  <2>3. ASSUME NEW i \in 1 .. Len(frames'), NEW j \in 1 .. Len(frames'), i < j,
               frames'[i].pc # "iret", frames'[j].pc # "iret"
        PROVE  MasterLine(frames'[i].irq) < MasterLine(frames'[j].irq)
    <3>1. j - 1 \in 1 .. Len(frames) /\ frames'[j] = frames[j - 1]
      BY <1>1, <1>3, <2>3
    <3>2. CASE i = 1
      BY <1>3, <1>4, <2>2, <2>3, <3>1, <3>2
    <3>3. CASE i # 1
      <4>1. i - 1 \in 1 .. Len(frames) /\ frames'[i] = frames[i - 1] /\ i - 1 < j - 1
        BY <1>1, <1>3, <2>3, <3>3
      <4> QED  BY <2>3, <3>1, <4>1 DEF IInv, Nested
    <3> QED  BY <3>2, <3>3
  <2>4. ASSUME NEW i \in 1 .. Len(frames'), frames'[i].pc = "eoi_slave"
        PROVE  frames'[i].irq >= 8
    <3>1. i - 1 \in 1 .. Len(frames) /\ frames'[i] = frames[i - 1]
      BY <1>1, <1>3, <1>4, <2>4
    <3> QED  BY <2>4, <3>1 DEF IInv, Nested
  <2> QED  BY <2>3, <2>4 DEF Nested, MasterLine
<1> QED  BY <1>5, <1>6, <1>9, <1>10 DEF IInv

\* What a step of the newest handler changes of the lines Before names.
LEMMA GoOnBefore ==
  ASSUME TypeOK, frames # <<>>, NEW pc \in Steps, GoOn(pc), NEW pcs, NEW l
  PROVE  LET Older == \E i \in 2 .. Len(frames) : frames[i].pc \in pcs /\ frames[i].irq = l
         IN  /\ l \in Before(pcs) <=> Older \/ (Top.pc \in pcs /\ l = Top.irq)
             /\ l \in Before(pcs)' <=> Older \/ (pc \in pcs /\ l = Top.irq)
<1>1. /\ Len(frames) \in Nat /\ 1 \in 1 .. Len(frames) /\ Top = frames[1]
      /\ frames' \in Seq(Frame) /\ Len(frames') = Len(frames)
      /\ frames'[1].irq = Top.irq /\ frames'[1].pc = pc
      /\ \A i \in 2 .. Len(frames) : frames'[i] = frames[i]
  BY TopFrame
<1>2. frames \in Seq(Frame)
  BY DEF TypeOK, Frame
<1>3. 1 .. Len(frames) = {1} \union (2 .. Len(frames))
  BY <1>1
<1>4. /\ l \in Before(pcs) <=>
           \E i \in 1 .. Len(frames) : frames[i].pc \in pcs /\ frames[i].irq = l
      /\ l \in Before(pcs)' <=>
           \E i \in 1 .. Len(frames') : frames'[i].pc \in pcs /\ frames'[i].irq = l
  BY <1>1, <1>2, BeforeNames
<1> QED  BY <1>1, <1>3, <1>4

\* The order of the handlers survives a step of the newest one.
LEMMA GoOnNested ==
  ASSUME TypeOK, Nested, frames # <<>>, NEW pc \in Steps, GoOn(pc),
         Top.pc # "iret", pc = "eoi_slave" => Top.irq >= 8
  PROVE  Nested'
<1>1. /\ Len(frames) \in Nat /\ 1 \in 1 .. Len(frames) /\ Top = frames[1]
      /\ Len(frames') = Len(frames)
      /\ frames'[1].irq = Top.irq /\ frames'[1].pc = pc
      /\ \A i \in 2 .. Len(frames) : frames'[i] = frames[i]
  BY TopFrame
<1>2. \A i \in 1 .. Len(frames) :
        /\ frames'[i].irq = frames[i].irq
        /\ frames'[i].pc # "iret" => frames[i].pc # "iret"
        /\ frames'[i].pc = "eoi_slave" => frames[i].irq >= 8
  BY <1>1 DEF Nested
<1> QED  BY <1>1, <1>2, SMTT(30) DEF Nested, MasterLine

\* The newest handler, while it has not signalled its end on the master, is of
\* higher priority than all others that have not.
LEMMA TopIsFirst ==
  ASSUME TypeOK, Nested, frames # <<>>, Top.pc # "iret",
         NEW i \in 2 .. Len(frames), frames[i].pc # "iret"
  PROVE  MasterLine(Top.irq) < MasterLine(frames[i].irq) /\ ~ (Top.irq >= 8 /\ frames[i].irq >= 8)
<1>1. frames \in Seq(Frame) /\ Len(frames) \in Nat
  BY LenProperties DEF TypeOK, Frame
<1>2. Top = frames[1] /\ 1 \in 1 .. Len(frames) /\ i \in 1 .. Len(frames) /\ 1 < i
  BY <1>1 DEF Top
<1>3. MasterLine(Top.irq) < MasterLine(frames[i].irq)
  BY <1>2 DEF Nested
<1>4. frames[1] \in Frame /\ frames[i] \in Frame
  BY <1>1, <1>2, ElementOfSeq
<1>5. Top.irq \in Lines /\ frames[i].irq \in Lines
  BY <1>2, <1>4 DEF Frame
<1> QED  BY <1>3, <1>5, MasterLines

\* Min of FiniteSetsExt is the least element.
LEMMA MinIs ==
  ASSUME NEW S \in SUBSET Int, NEW x \in S, \A y \in S : x <= y
  PROVE  Min(S) = x
<1>1. \A z \in S : (\A y \in S : z <= y) => z = x
  OBVIOUS
<1> QED  BY <1>1, Zenon DEF Min

\* Each of the two signals of send_eoi ends the newest handler's own interrupt, and
\* keeps the order of the handlers.
LEMMA EndSignals ==
  ASSUME IInv, send_eoi
  PROVE  EachSignalEndsItsOwn' /\ Nested'
<1> DEFINE P1 == {"handler", "eoi_slave", "eoi_master"}
           P2 == {"handler", "eoi_slave"}
<1> USE DEF IInv
<1>1. frames # <<>> /\ Top \in Frame /\ Top.irq \in Lines
  <2>1. frames # <<>>
    BY DEF send_eoi, Running
  <2>2. frames \in Seq(Frame)
    BY DEF TypeOK, Frame
  <2>3. Top \in Frame
    BY <2>1, <2>2, HeadTailProperties DEF Top
  <2> QED  BY <2>1, <2>3 DEF Frame
<1>2. \A i \in 2 .. Len(frames) : frames[i].irq \in Lines
  <2>1. frames \in Seq(Frame) /\ Len(frames) \in Nat
    BY LenProperties DEF TypeOK, Frame
  <2>2. \A i \in 2 .. Len(frames) : frames[i] \in Frame
    BY <2>1, ElementOfSeq
  <2> QED  BY <2>2 DEF Frame
<1>3. Served(1) \subseteq Int /\ Served(2) \subseteq Int
  <2>1. serving \subseteq Lines /\ Lines \subseteq Int
    BY InterruptAssumption DEF TypeOK
  <2> QED  BY <2>1, Zenon DEF Served
<1>4. CASE Running("eoi_slave") /\ serving' = serving \ EndsService(2) /\ GoOn("eoi_master")
  <2>1. Top.pc = "eoi_slave" /\ "eoi_master" \in Steps
    BY <1>4 DEF Running, Steps
  <2>2. Top.irq >= 8
    <3>1. 1 \in 1 .. Len(frames) /\ Top = frames[1]
      BY <1>1, <1>4, <2>1, TopFrame
    <3> QED  BY <2>1, <3>1 DEF Nested
  <2>3. \A l : l \in Before(P1)' <=> l \in Before(P1)
    BY <1>1, <1>4, <2>1, GoOnBefore
  <2>4. ASSUME NEW i \in 2 .. Len(frames), frames[i].pc \in P2 PROVE ~ (frames[i].irq >= 8)
    BY <1>1, <2>1, <2>2, <2>4, TopIsFirst
  <2>5. \A l : l \in Before(P2) /\ l >= 8 <=> l = Top.irq
    BY <1>1, <1>4, <2>1, <2>2, <2>4, GoOnBefore
  <2>6. \A l : l \in Before(P2)' => ~ (l >= 8)  \/ l = Top.irq
    BY <1>1, <1>4, <2>1, <2>4, GoOnBefore
  <2>7. Served(2) = {Top.irq}
    BY <2>5 DEF EachSignalEndsItsOwn
  <2>8. EndsService(2) = {Top.irq}
    <3>1. Min(Served(2)) = Top.irq
      BY <1>3, <2>7, MinIs
    <3> QED  BY <2>7, <3>1 DEF EndsService
  <2>9. Served(2)' = {} /\ Served(1)' = Served(1)
    BY <1>1, <1>4, <2>2, <2>7, <2>8, MasterLines DEF Served
  <2>10. {irq \in Before(P2)' : irq >= 8} = {}
    <3>1. ~ (Top.irq \in Before(P2)')
      <4>1. ASSUME Top.irq \in Before(P2)' PROVE FALSE
        <5>1. PICK i \in 2 .. Len(frames) : frames[i].pc \in P2 /\ frames[i].irq = Top.irq
          BY <1>1, <1>4, <2>1, <4>1, GoOnBefore
        <5> QED  BY <2>2, <2>4, <5>1
      <4> QED  BY <4>1
    <3> QED  BY <2>6, <3>1
  <2>11. EachSignalEndsItsOwn'
    BY <2>3, <2>9, <2>10 DEF EachSignalEndsItsOwn, MasterLine
  <2>12. Nested'
    BY <1>1, <1>4, <2>1, GoOnNested
  <2> QED  BY <2>11, <2>12
<1>5. CASE Running("eoi_master") /\ serving' = serving \ EndsService(1) /\ GoOn("iret")
  <2>1. Top.pc = "eoi_master" /\ "iret" \in Steps
    BY <1>5 DEF Running, Steps
  <2>2. \A l : l \in Before(P2)' <=> l \in Before(P2)
    BY <1>1, <1>5, <2>1, GoOnBefore
  <2>3. \A l : l \in Before(P1) <=> l \in Before(P1)' \/ l = Top.irq
    BY <1>1, <1>5, <2>1, GoOnBefore
  <2>4. ASSUME NEW l \in Before(P1)'
        PROVE  MasterLine(Top.irq) < MasterLine(l) /\ l \in Lines
    <3>1. PICK i \in 2 .. Len(frames) : frames[i].pc \in P1 /\ frames[i].irq = l
      BY <1>1, <1>5, <2>1, <2>4, GoOnBefore
    <3>2. frames[i].pc # "iret" /\ Top.pc # "iret"
      BY <2>1, <3>1
    <3>3. MasterLine(Top.irq) < MasterLine(frames[i].irq)
      BY <1>1, <3>2, TopIsFirst
    <3> QED  BY <1>2, <3>1, <3>3
  <2>5. Served(1) = {MasterLine(l) : l \in Before(P1)'} \union {MasterLine(Top.irq)}
    BY <2>3 DEF EachSignalEndsItsOwn
  <2>6. EndsService(1) = {MasterLine(Top.irq)}
    <3>1. \A y \in Served(1) : MasterLine(Top.irq) <= y
      BY <1>1, <2>4, <2>5, MasterLines
    <3>2. Min(Served(1)) = MasterLine(Top.irq)
      BY <1>3, <2>5, <3>1, MinIs
    <3> QED  BY <2>5, <3>2 DEF EndsService
  <2>7. Served(1)' = Served(1) \ {MasterLine(Top.irq)} /\ Served(2)' = Served(2)
    BY <1>1, <1>5, <2>6, MasterLines DEF Served
  <2>8. ~ (MasterLine(Top.irq) \in {MasterLine(l) : l \in Before(P1)'})
    BY <1>1, <2>4, MasterLines
  <2>9. Served(1)' = {MasterLine(l) : l \in Before(P1)'}
    BY <2>5, <2>7, <2>8
  <2>10. EachSignalEndsItsOwn'
    BY <2>2, <2>7, <2>9 DEF EachSignalEndsItsOwn, MasterLine
  <2>11. Nested'
    BY <1>1, <1>5, <2>1, GoOnNested
  <2> QED  BY <2>10, <2>11
<1> QED  BY <1>4, <1>5 DEF send_eoi

\* A signal of send_eoi keeps the whole invariant.
LEMMA EoiStep ==
  ASSUME IInv, send_eoi
  PROVE  IInv'
<1>1. MasksMatchCalls' /\ WriteIsCurrent'
  BY MasksUntouched DEF send_eoi
<1>2. EachSignalEndsItsOwn' /\ Nested'
  BY EndSignals
<1>3. TypeOK /\ frames # <<>>
  BY DEF IInv, send_eoi, Running
<1>4. frames' \in Seq(Frame) /\ Len(frames') = Len(frames)
  <2>1. PICK pc \in Steps : GoOn(pc)
    BY DEF send_eoi, Steps
  <2> QED  BY <1>3, <2>1, TopFrame
<1>5. serving' \subseteq Lines
  BY <1>3 DEF send_eoi, TypeOK
<1>6. TypeOK'
  BY <1>3, <1>4, <1>5 DEF send_eoi, TypeOK, Frame
<1> QED  BY <1>1, <1>2, <1>6 DEF IInv

\* The body of a handler, the mask calls it may make included.
LEMMA HandlerStep ==
  ASSUME IInv, handle_irq
  PROVE  IInv'
<1> DEFINE irq == Top.irq
           does == IF irq \in irq_handlers THEN Behaviour[irq] ELSE "plain"
<1>1. /\ frames # <<>> /\ Top.pc = "handler" /\ GoOn(FirstEoi(irq)) /\ flag' = (does = "opens")
      /\ UNCHANGED <<requested, serving, irq_handlers, exception_handlers, op, halted>>
  BY DEF handle_irq, Running
<1>2. \/ /\ imr' = [imr EXCEPT ![Pic(irq)] = @ \union {Bit(irq)}]
         /\ enabled' = enabled \ {irq}
         /\ overtaken' = IF op # NoOp /\ op.pc = "write" /\ Pic(op.irq) = Pic(irq)
                         THEN overtaken \union {irq} ELSE overtaken \ {irq}
      \/ UNCHANGED <<imr, enabled, overtaken>>
  BY DEF handle_irq
<1>3. FirstEoi(irq) \in Steps /\ (FirstEoi(irq) = "eoi_slave" => irq >= 8)
  BY DEF FirstEoi, Steps
<1>4. TypeOK
  BY DEF IInv
<1>5. irq \in Lines /\ frames' \in Seq(Frame) /\ Len(frames') = Len(frames)
  <2>1. Top \in Frame /\ frames' \in Seq(Frame) /\ Len(frames') = Len(frames)
    BY <1>1, <1>3, <1>4, TopFrame
  <2> QED  BY <2>1 DEF Frame
<1> HIDE DEF irq, does
<1>6. Pic(irq) \in Pics /\ Bit(irq) \in 0 .. 7
  BY <1>5, LinesAreDistinct
<1>7. TypeOK'
  <2>1. imr' \in [Pics -> SUBSET (0 .. 7)] /\ enabled' \subseteq Lines
    BY <1>2, <1>4, <1>6, SMTT(30) DEF TypeOK
  <2>2. flag' \in BOOLEAN
    BY <1>1
  <2>3. overtaken' \subseteq Lines
    BY <1>2, <1>4, <1>5, Zenon DEF TypeOK
  <2> QED  BY <1>1, <1>4, <1>5, <2>1, <2>2, <2>3 DEF TypeOK, Frame
<1>8. MasksMatchCalls' /\ WriteIsCurrent'
  <2>1. CASE UNCHANGED <<imr, enabled, overtaken>>
    BY <1>1, <2>1, MasksUntouched
  <2>2. CASE /\ imr' = [imr EXCEPT ![Pic(irq)] = @ \union {Bit(irq)}]
             /\ enabled' = enabled \ {irq}
             /\ overtaken' = IF op # NoOp /\ op.pc = "write" /\ Pic(op.irq) = Pic(irq)
                             THEN overtaken \union {irq} ELSE overtaken \ {irq}
    <3>1. /\ \A p \in Pics : p # Pic(irq) => imr'[p] = imr[p]
          /\ imr'[Pic(irq)] = imr[Pic(irq)] \union {Bit(irq)}
      BY <1>4, <1>6, <2>2 DEF TypeOK
    <3>2. \A l \in Lines \ {irq} : l \in overtaken' <=> l \in overtaken
      BY <2>2, Zenon
    <3>3. \A l \in Lines \ {irq} : Bit(l) \in imr'[Pic(l)] <=> Bit(l) \in imr[Pic(l)]
      BY <1>5, <3>1, LinesAreDistinct, SMTT(30)
    <3>4. Bit(irq) \in imr'[Pic(irq)]
      BY <3>1
    <3>5. MasksMatchCalls'
      <4>1. \A l : Masked(l)' <=> Bit(l) \in imr'[Pic(l)]
        BY DEF Masked, Pic, Bit
      <4> QED  BY <2>2, <3>2, <3>3, <3>4, <4>1, SMTT(30) DEF IInv, MasksMatchCalls, Masked
    <3>6. WriteIsCurrent'
      <4> SUFFICES ASSUME op # NoOp, op.pc = "write"
                   PROVE  /\ op.name = "disable_irq" => Bit(op.irq) \in op.value
                          /\ \A l \in Lines : Pic(l) = Pic(op.irq) =>
                               BitIsCurrent(op, imr'[Pic(op.irq)], overtaken', l)
        BY <1>1, SMTT(30) DEF WriteIsCurrent, BitIsCurrent, Changed, Pic, Bit
      <4>1. op.irq \in Lines /\ Pic(op.irq) \in Pics
        <5>1. op.irq \in Lines
          BY <1>4 DEF TypeOK, Ops
        <5> QED  BY <5>1, LinesAreDistinct
      <4>2. /\ op.name = "disable_irq" => Bit(op.irq) \in op.value
            /\ \A l \in Lines : Pic(l) = Pic(op.irq) =>
                 BitIsCurrent(op, imr[Pic(op.irq)], overtaken, l)
        BY DEF IInv, WriteIsCurrent
      <4>3. ASSUME NEW l \in Lines, Pic(l) = Pic(op.irq)
            PROVE  BitIsCurrent(op, imr'[Pic(op.irq)], overtaken', l)
        <5>1. CASE l = irq
          <6>1. irq \in overtaken' /\ imr[Pic(op.irq)] \subseteq imr'[Pic(op.irq)]
            BY <2>2, <3>1, <4>3, <5>1
          <6>2. BitIsCurrent(op, imr[Pic(op.irq)], overtaken, l)
            BY <4>2, <4>3, Zenon
          <6> QED  BY <5>1, <6>1, <6>2, Zenon DEF BitIsCurrent, Changed
        <5>2. CASE l # irq
          <6>1. /\ l \in overtaken' <=> l \in overtaken
                /\ Bit(l) \in imr'[Pic(op.irq)] <=> Bit(l) \in imr[Pic(op.irq)]
            BY <3>2, <3>3, <4>3, <5>2
          <6>2. BitIsCurrent(op, imr[Pic(op.irq)], overtaken, l)
            BY <4>2, <4>3, Zenon
          <6> QED  BY <6>1, <6>2, SMTT(30) DEF BitIsCurrent, Changed
        <5> QED  BY <5>1, <5>2
      <4> QED  BY <4>2, <4>3
    <3> QED  BY <3>5, <3>6
  <2> QED  BY <1>2, <2>1, <2>2
<1>9. EachSignalEndsItsOwn'
  <2> DEFINE P1 == {"handler", "eoi_slave", "eoi_master"}
             P2 == {"handler", "eoi_slave"}
  <2>1. FirstEoi(irq) \in P1 /\ (FirstEoi(irq) \in P2 \/ ~ (irq >= 8)) /\ irq = Top.irq
    BY DEF FirstEoi, irq
  <2>2. \A l : l \in Before(P1)' <=> l \in Before(P1)
    BY <1>1, <1>3, <1>4, <2>1, GoOnBefore
  <2>3. \A l : l >= 8 => (l \in Before(P2)' <=> l \in Before(P2))
    BY <1>1, <1>3, <1>4, <2>1, GoOnBefore
  <2>4. Served(1)' = Served(1) /\ Served(2)' = Served(2)
    BY <1>1 DEF Served
  <2> QED  BY <2>2, <2>3, <2>4 DEF IInv, EachSignalEndsItsOwn, MasterLine
<1>10. Nested'
  <2>1. Top.pc # "iret" /\ irq = Top.irq
    BY <1>1 DEF irq
  <2> QED  BY <1>1, <1>3, <1>4, <2>1, GoOnNested DEF IInv
<1> QED  BY <1>7, <1>8, <1>9, <1>10 DEF IInv

\* iret drops the newest frame, which has signalled its end.
LEMMA ReturnStep ==
  ASSUME IInv, Return
  PROVE  IInv'
<1>1. frames # <<>> /\ frames' = Tail(frames) /\ Top.pc = "iret"
  BY DEF Return, Running
<1>2. frames \in Seq(Frame) /\ Len(frames) \in Nat /\ Top = frames[1]
  BY LenProperties DEF IInv, TypeOK, Frame, Top
<1>3. /\ frames' \in Seq(Frame) /\ Len(frames') = Len(frames) - 1
      /\ \A i \in 1 .. Len(frames') : frames'[i] = frames[i + 1]
  BY <1>1, <1>2, HeadTailProperties
<1>4. TypeOK'
  <2>1. Len(frames') <= MaxFrames
    BY <1>2, <1>3, InterruptAssumption DEF IInv, TypeOK
  <2>2. flag' \in BOOLEAN
    BY DEF Return
  <2> QED  BY <1>3, <2>1, <2>2 DEF Return, IInv, TypeOK, Frame
<1>5. MasksMatchCalls' /\ WriteIsCurrent'
  BY MasksUntouched DEF Return
<1>6. \A pcs : ~ ("iret" \in pcs) => Before(pcs)' = Before(pcs)
  <2> SUFFICES ASSUME NEW pcs, ~ ("iret" \in pcs), NEW l
               PROVE  l \in Before(pcs)' <=> l \in Before(pcs)
    OBVIOUS
  <2>1. ASSUME l \in Before(pcs)' PROVE l \in Before(pcs)
    <3>1. PICK i \in 1 .. Len(frames') : frames'[i].pc \in pcs /\ frames'[i].irq = l
      BY <1>2, <1>3, <2>1, BeforeNames
    <3>2. i + 1 \in 1 .. Len(frames) /\ frames'[i] = frames[i + 1]
      BY <1>2, <1>3
    <3> QED  BY <1>2, <1>3, <3>1, <3>2, BeforeNames, Zenon
  <2>2. ASSUME l \in Before(pcs) PROVE l \in Before(pcs)'
    <3>1. PICK i \in 1 .. Len(frames) : frames[i].pc \in pcs /\ frames[i].irq = l
      BY <1>2, <1>3, <2>2, BeforeNames
    <3>2. i # 1
      BY <1>1, <1>2, <3>1
    <3>3. i - 1 \in 1 .. Len(frames') /\ frames'[i - 1] = frames[i]
      BY <1>2, <1>3, <3>2
    <3> QED  BY <1>2, <1>3, <3>1, <3>3, BeforeNames
  <2> QED  BY <2>1, <2>2
<1>7. EachSignalEndsItsOwn'
  <2>1. Served(1)' = Served(1) /\ Served(2)' = Served(2)
    BY DEF Return, Served
  <2> QED  BY <1>6, <2>1 DEF IInv, EachSignalEndsItsOwn, MasterLine
<1>8. Nested'
  <2>1. \A i \in 1 .. Len(frames') : i + 1 \in 1 .. Len(frames) /\ frames'[i] = frames[i + 1]
    BY <1>2, <1>3
  <2>2. \A i, j \in 1 .. Len(frames') : i < j => i + 1 < j + 1
    BY <1>2, <1>3
  <2> QED  BY <2>1, <2>2, SMTT(30) DEF IInv, Nested, MasterLine
<1> QED  BY <1>4, <1>5, <1>7, <1>8 DEF IInv

-----------------------------------------------------------------------------
(* Calls from a task. *)

\* A step that leaves the stack of handlers and the controllers alone.
LEMMA ServiceUntouched ==
  ASSUME IInv, UNCHANGED <<serving, frames>>
  PROVE  EachSignalEndsItsOwn' /\ Nested'
  BY SMTT(30) DEF IInv, EachSignalEndsItsOwn, Nested, Served, Before, MasterLine

\* A task enters enable_irq or disable_irq.
LEMMA CallSteps ==
  ASSUME IInv, NEW name \in {"enable_irq", "disable_irq"}, NEW irq \in Lines, Call(name, irq)
  PROVE  IInv'
<1>1. EachSignalEndsItsOwn' /\ Nested'
  BY ServiceUntouched DEF Call
<1>2. op' \in Ops /\ op'.pc = "read"
  BY DEF Call, Ops
<1>3. TypeOK'
  BY <1>2 DEF Call, IInv, TypeOK
<1>4. MasksMatchCalls' /\ WriteIsCurrent'
  BY <1>2, SMTT(30) DEF Call, IInv, MasksMatchCalls, Masked, WriteIsCurrent
<1> QED  BY <1>1, <1>3, <1>4 DEF IInv

\* A task reads a mask register into its local value.
LEMMA ReadStep ==
  ASSUME IInv, ReadMask
  PROVE  IInv'
<1>1. EachSignalEndsItsOwn' /\ Nested'
  BY ServiceUntouched DEF ReadMask
<1> DEFINE value == Changed(op.name, imr[Pic(op.irq)], Bit(op.irq))
<1>2. op \in Ops \ {NoOp} /\ op.irq \in Lines
  BY DEF ReadMask, IInv, TypeOK, Ops
<1>3. value \in SUBSET (0 .. 7)
  BY <1>2, LinesAreDistinct DEF IInv, TypeOK, Changed
<1>4. op' = [op EXCEPT !.pc = "write", !.value = value]
  BY DEF ReadMask
<1> HIDE DEF value
<1>5. /\ op' \in Ops /\ op'.irq = op.irq /\ op'.name = op.name /\ op'.value = value
  BY <1>2, <1>3, <1>4, Zenon DEF Ops
<1>6. TypeOK'
  BY <1>5 DEF ReadMask, IInv, TypeOK
<1>7. MasksMatchCalls'
  BY DEF ReadMask, IInv, MasksMatchCalls, Masked
<1>8. WriteIsCurrent'
  <2> SUFFICES /\ op'.name = "disable_irq" => Bit(op'.irq) \in op'.value
               /\ \A l \in Lines : BitIsCurrent(op', imr'[Pic(op'.irq)], overtaken', l)
    BY SMTT(30) DEF WriteIsCurrent, BitIsCurrent, Changed, Pic, Bit
  <2>1. imr' = imr
    BY DEF ReadMask
  <2>2. op.name = "disable_irq" => Bit(op.irq) \in value
    BY DEF value, Changed
  <2> QED  BY <1>5, <2>1, <2>2, Zenon DEF BitIsCurrent, value
<1> QED  BY <1>1, <1>6, <1>7, <1>8 DEF IInv

\* A task writes the changed mask back.
LEMMA WriteStep ==
  ASSUME IInv, WriteMask
  PROVE  IInv'
<1>1. EachSignalEndsItsOwn' /\ Nested'
  BY ServiceUntouched DEF WriteMask
<1>2. /\ op \in Ops \ {NoOp} /\ op.irq \in Lines /\ op.value \in SUBSET (0 .. 7)
      /\ op.name \in {"enable_irq", "disable_irq"}
  BY DEF WriteMask, IInv, TypeOK, Ops
<1>3. Pic(op.irq) \in Pics
  BY <1>2, LinesAreDistinct
<1>4. TypeOK'
  <2>1. imr' \in [Pics -> SUBSET (0 .. 7)]
    BY <1>2, Zenon DEF WriteMask, IInv, TypeOK
  <2>2. enabled' \subseteq Lines /\ overtaken' \subseteq Lines /\ op' \in Ops
    BY <1>2 DEF WriteMask, IInv, TypeOK, Ops
  <2> QED  BY <2>1, <2>2, SMTT(30) DEF WriteMask, IInv, TypeOK
<1>5. WriteIsCurrent'
  BY DEF WriteMask, WriteIsCurrent
<1>6. ASSUME NEW l \in Lines
      PROVE  IF l \in enabled' THEN ~ (Bit(l) \in imr'[Pic(l)])
             ELSE Bit(l) \in imr'[Pic(l)] \/ l \in overtaken' \/ l = IRQ_CASCADE
  <2>1. IF l \in enabled THEN ~ (Bit(l) \in imr[Pic(l)])
        ELSE Bit(l) \in imr[Pic(l)] \/ l \in overtaken \/ l = IRQ_CASCADE
    BY DEF IInv, MasksMatchCalls, Masked
  <2>2. /\ op.name = "disable_irq" => Bit(op.irq) \in op.value
        /\ Pic(l) = Pic(op.irq) => BitIsCurrent(op, imr[Pic(op.irq)], overtaken, l)
    BY Zenon DEF WriteMask, IInv, WriteIsCurrent
  <2>3. Pic(l) \in Pics /\ (Pic(l) = Pic(op.irq) /\ Bit(l) = Bit(op.irq) => l = op.irq)
    BY <1>2, LinesAreDistinct
  <2>4. imr'[Pic(l)] = IF Pic(l) = Pic(op.irq) THEN op.value ELSE imr[Pic(l)]
    BY <1>3, <2>3, SMTT(30) DEF WriteMask, IInv, TypeOK
  <2>5. /\ enabled' = IF op.name = "enable_irq" THEN enabled \union {op.irq}
                      ELSE enabled \ {op.irq}
        /\ overtaken' = overtaken \ {op.irq}
    BY DEF WriteMask
  <2>6. CASE l = op.irq
    BY <1>2, <2>2, <2>4, <2>5, <2>6, SMTT(30) DEF BitIsCurrent, Changed
  <2>7. CASE l # op.irq
    BY <2>1, <2>2, <2>3, <2>4, <2>5, <2>7, SMTT(30) DEF BitIsCurrent, Changed
  <2> QED  BY <2>6, <2>7
<1>7. MasksMatchCalls'
  <2>1. \A l : Masked(l)' <=> Bit(l) \in imr'[Pic(l)]
    BY DEF Masked, Pic, Bit
  <2> QED  BY <1>6, <2>1 DEF MasksMatchCalls
<1> QED  BY <1>1, <1>4, <1>5, <1>7 DEF IInv

\* mask_all_irqs and unmask_all_irqs write both masks.
LEMMA SetAllStep ==
  ASSUME IInv, NEW mask \in BOOLEAN, SetAll(mask)
  PROVE  IInv'
<1>1. EachSignalEndsItsOwn' /\ Nested'
  BY ServiceUntouched DEF SetAll
<1>2. imr' \in [Pics -> SUBSET (0 .. 7)]
  BY LinesAreDistinct DEF SetAll
<1>3. TypeOK'
  BY <1>2 DEF SetAll, IInv, TypeOK
<1>4. \A l \in Lines : Masked(l)' <=> ~ (l \in enabled')
  <2>1. \A l \in Lines : Masked(l)' <=> Bit(l) \in imr'[Pic(l)]
    BY DEF Masked, Pic, Bit
  <2> QED  BY <2>1, LinesAreDistinct DEF SetAll
<1>5. MasksMatchCalls' /\ WriteIsCurrent'
  BY <1>4 DEF SetAll, MasksMatchCalls, WriteIsCurrent
<1> QED  BY <1>1, <1>3, <1>5 DEF IInv

\* The steps that touch neither the masks nor the stack of handlers.
LEMMA OtherSteps ==
  ASSUME IInv,
         \/ \E irq \in Lines \ {IRQ_CASCADE} : Raise(irq) \/ register_irq_handler(irq)
         \/ \E vector \in Vectors : register_exception_handler(vector) \/ handle_exception(vector)
         \/ enter_critical \/ exit_critical \/ WalkNeverEnds
         \/ UNCHANGED vars
  PROVE  IInv'
<1>1. UNCHANGED <<imr, op, enabled, overtaken>> /\ UNCHANGED <<serving, frames>>
  BY DEF Raise, register_irq_handler, register_exception_handler, handle_exception,
         enter_critical, exit_critical, WalkNeverEnds, vars
<1>2. /\ requested' \subseteq Lines \ {IRQ_CASCADE}
      /\ irq_handlers' \subseteq Lines /\ exception_handlers' \subseteq Vectors
  BY SMTT(30) DEF IInv, TypeOK, Raise, register_irq_handler, register_exception_handler,
         handle_exception, enter_critical, exit_critical, WalkNeverEnds, vars
<1>3. flag' \in BOOLEAN /\ halted' \in BOOLEAN
  BY Zenon DEF IInv, TypeOK, Raise, register_irq_handler, register_exception_handler,
         handle_exception, enter_critical, exit_critical, WalkNeverEnds, vars
<1>4. TypeOK'
  BY <1>1, <1>2, <1>3 DEF IInv, TypeOK
<1> QED  BY <1>1, <1>4, MasksUntouched, ServiceUntouched DEF IInv

\* Every step of the specification keeps the invariant.
LEMMA StepHolds == IInv /\ [Next]_vars => IInv'
<1> SUFFICES ASSUME IInv, [Next]_vars PROVE IInv'
  OBVIOUS
<1>1. CASE \E irq \in Lines \ {IRQ_CASCADE} : Accept(irq)
  BY <1>1, AcceptStep
<1>2. CASE handle_irq
  BY <1>2, HandlerStep
<1>3. CASE send_eoi
  BY <1>3, EoiStep
<1>4. CASE Return
  BY <1>4, ReturnStep
<1>5. CASE \E irq \in Lines : Call("enable_irq", irq) \/ Call("disable_irq", irq)
  BY <1>5, CallSteps
<1>6. CASE ReadMask
  BY <1>6, ReadStep
<1>7. CASE WriteMask
  BY <1>7, WriteStep
<1>8. CASE mask_all_irqs \/ unmask_all_irqs
  BY <1>8, SetAllStep, Zenon DEF mask_all_irqs, unmask_all_irqs
<1>9. CASE \/ \E irq \in Lines \ {IRQ_CASCADE} : Raise(irq) \/ register_irq_handler(irq)
           \/ \E vector \in Vectors : register_exception_handler(vector) \/ handle_exception(vector)
           \/ enter_critical \/ exit_critical \/ WalkNeverEnds
           \/ UNCHANGED vars
  BY <1>9, OtherSteps
<1> QED  BY <1>1, <1>2, <1>3, <1>4, <1>5, <1>6, <1>7, <1>8, <1>9 DEF Next

\* The state is well typed, and handlers nest no deeper than the bound.
THEOREM InterruptsTypes == Spec => []TypeOK
<1>1. IInv => TypeOK
  BY DEF IInv
<1> QED  BY InitHolds, StepHolds, <1>1, PTL DEF Spec

\* However device interrupts, handlers, mask changes and critical sections
\* interleave, every signal of send_eoi ends the interrupt it is sent for.
THEOREM InterruptsInvariant == Spec => []EachSignalEndsItsOwn
<1>1. IInv => EachSignalEndsItsOwn
  BY DEF IInv
<1> QED  BY InitHolds, StepHolds, <1>1, PTL DEF Spec

\* The masks are what enable_irq, disable_irq and their like were last asked
\* for; only a handler's call, made under a task's call for the same
\* controller, can be undone.
THEOREM InterruptsMasksMatch == Spec => []MasksMatchCalls
<1>1. IInv => MasksMatchCalls
  BY DEF IInv
<1> QED  BY InitHolds, StepHolds, <1>1, PTL DEF Spec

=============================================================================
