-------------------------------- MODULE Ports --------------------------------
(***************************************************************************)
(* What hangs on the PIAs of either machine (core/machine.cpp): keyboard and *)
(* joystick on PIA0, and the sound mixer on both.  c is a machine record     *)
(* with pia0, pia1, stick and sound.                                         *)
(***************************************************************************)
EXTENDS Mc6821, Sound

\* The keyboard rows of the columns driven low; keys is the set of columns
\* with a key down, and any of them pulls row 0.  PA7 is the joystick
\* comparator: the axis that CB2 and CA2 select against the DAC.
Rows(c, keys) ==
  LET down == keys \ (c.pia0.b.data \cap c.pia0.b.ddr) # {}
      dac == Field(c.pia1.a.data \cap c.pia1.a.ddr, 2, 6)
      axis == c.stick[IF 3 \in c.pia0.b.ctrl THEN 1 ELSE 0][IF 3 \in c.pia0.a.ctrl THEN 1 ELSE 0]
  IN (1 .. 6) \cup (IF down THEN {} ELSE {0}) \cup (IF axis >= dac THEN {7} ELSE {})

MuxSource(c) == (IF 3 \in c.pia0.b.ctrl THEN 2 ELSE 0) + (IF 3 \in c.pia0.a.ctrl THEN 1 ELSE 0)
DacPins(c) == Field(c.pia1.a.data \cap c.pia1.a.ddr, 2, 6)

sound_pia0_written(c, reg) ==
  IF IsControl(reg) THEN [c EXCEPT !.sound = sound_set_mux_source(@, MuxSource(c))] ELSE c

\* Port A is the DAC; port B the single bit, and its control register SNDEN.
\* Mutant: SNDEN is only looked at when the data register is written.
EnabledByData(c, reg) ==
  LET sbs == sound_set_sbs(c.sound, 1 \in c.pia1.b.ddr, 1 \in c.pia1.b.data)
  IN CASE reg < 2 -> [c EXCEPT !.sound = sound_set_dac_level(@, DacPins(c))]
       [] reg = 2 -> [c EXCEPT !.sound = sound_set_mux_enabled(sbs, 3 \in c.pia1.b.ctrl)]
       [] OTHER -> [c EXCEPT !.sound = sbs]
sound_pia1_written(c, reg) ==
  LET sbs == sound_set_sbs(c.sound, 1 \in c.pia1.b.ddr, 1 \in c.pia1.b.data)
  IN CASE reg < 2 -> [c EXCEPT !.sound = sound_set_dac_level(@, DacPins(c))]
       [] reg = 2 -> [c EXCEPT !.sound = sbs]
       [] OTHER -> [c EXCEPT !.sound = sound_set_mux_enabled(sbs, 3 \in c.pia1.b.ctrl)]

\* The Orchestra-90's two latches, summed into one level
orch90_write(c, addr, val) ==
  LET d == [c EXCEPT !.orch90[addr % 2] = Number(val)]
  IN [d EXCEPT !.sound = sound_set_external(@, (d.orch90[0] + d.orch90[1]) \div 2)]

-----------------------------------------------------------------------------
(* What the PIAs' pins say the mixer should be doing, whatever was written   *)
(* in which order.                                                           *)

SoundAgrees(c) ==
  LET s == c.sound
  IN /\ s.mux_source = MuxSource(c) /\ s.dac_level = DacPins(c)
     /\ s.mux_enabled = (3 \in c.pia1.b.ctrl)
     /\ s.sbs_enabled = (1 \in c.pia1.b.ddr) /\ s.sbs_level = (1 \in c.pia1.b.data)
     /\ s.out = Level(s)
=============================================================================
