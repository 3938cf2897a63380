------------------------------- MODULE Mc6821 -------------------------------
(***************************************************************************)
(* The PIA (core/mc6821.cpp).  A register byte is the set of its bits that   *)
(* are 1.  A PIA is two equal sides; in a control register bit 7 is the IRQ1 *)
(* flag and bit 0 enables it, bit 6 is the IRQ2 flag and bit 3 enables it    *)
(* unless bit 5 makes C2 an output, bit 2 selects the data register over the *)
(* direction register and bit 1 the active edge of C1.                       *)
(***************************************************************************)
EXTENDS BitSets

\* PIA_REG_*: register number to side and kind
SideOf(reg) == IF reg < 2 THEN "a" ELSE "b"
IsControl(reg) == reg \in {1, 3}

mc6821_reset ==
  LET side == [data |-> {}, ddr |-> {}, ctrl |-> {}, input |-> Bits]
  IN [a |-> side, b |-> side]

\* The output of one side
pia_irq(ctrl) == {7, 0} \subseteq ctrl \/ ({6, 3} \subseteq ctrl /\ 5 \notin ctrl)
AnyIrq(pia) == pia_irq(pia.a.ctrl) \/ pia_irq(pia.b.ctrl)

\* A read of the data register drops both flags.
DataRead(pia, reg) == ~IsControl(reg) /\ 2 \in pia[SideOf(reg)].ctrl
mc6821_read(pia, reg) ==
  IF DataRead(pia, reg) THEN [pia EXCEPT ![SideOf(reg)].ctrl = @ \ {6, 7}] ELSE pia

mc6821_write(pia, reg, val) ==
  LET s == SideOf(reg)
  IN IF IsControl(reg) THEN [pia EXCEPT ![s].ctrl = (@ \cap {6, 7}) \cup (val \ {6, 7})]
     ELSE IF 2 \in pia[s].ctrl THEN [pia EXCEPT ![s].data = val]
     ELSE [pia EXCEPT ![s].ddr = val]

\* Which accesses call the side's IRQ callback
Notifies(pia, reg, write) == IF write THEN IsControl(reg) ELSE DataRead(pia, reg)

EdgeMatches(pia, s, rising) == rising = (1 \in pia[s].ctrl)
c1_transition(pia, s, rising) ==
  IF EdgeMatches(pia, s, rising) THEN [pia EXCEPT ![s].ctrl = @ \cup {7}] ELSE pia
=============================================================================
