---------------------------- MODULE BoardProofs ----------------------------
(***************************************************************************)
(* Either machine, for any scenes, amount of RAM and cartridges: whatever is *)
(* accessed between whatever lines and resets, the page pointers are those   *)
(* of the registers, the mixer follows the PIA pins and the timer keeps its  *)
(* rate (MachineIInv), and a frame in which the video registers are left     *)
(* alone is drawn once, row by row, by the GIME (FrameIInv) and by the       *)
(* CoCo 2's SAM and VDG (FieldIInv).                                         *)
(***************************************************************************)
EXTENDS GimeProofs, Machine

-----------------------------------------------------------------------------
(* The mixer.                                                               *)

\* A mixer, and one whose output level is that of its inputs.
MixerFields == {"dac_level", "sbs_enabled", "sbs_level", "mux_enabled", "mux_source", "ext_level", "ssc_out",
                "mixer", "mame_mux", "out"}
Mixed(s) == DOMAIN s = MixerFields /\ s.out = Level(s)
SameMixer(s, t) ==
  /\ t.dac_level = s.dac_level /\ t.mux_source = s.mux_source
  /\ (t.sbs_enabled = s.sbs_enabled) /\ (t.sbs_level = s.sbs_level) /\ (t.mux_enabled = s.mux_enabled)

\* A mixer's fields.
LEMMA MixerFieldsAre == \A mixer : DOMAIN sound_init(mixer) = MixerFields
  BY DEF sound_init, MixerFields

\* The level is a function of the inputs, and of the held level while SNDEN is low.
LEMMA SameLevel ==
  ASSUME NEW s, NEW t, SameMixer(s, t), t.ext_level = s.ext_level, t.ssc_out = s.ssc_out, t.mixer = s.mixer,
         s.mixer = "mame" => Selected(t) = Selected(s)
  PROVE  Level(t) = Level(s)
<1>1. xroar_level(t) = xroar_level(s)
  BY DEF xroar_level, SameMixer
<1>2. s.mixer = "mame" => mame_level(t) = mame_level(s)
  BY DEF mame_level, SameMixer
<1> QED
  BY <1>1, <1>2 DEF Level

\* An update gives the audio HAL the level of the inputs.
LEMMA Updated ==
  ASSUME NEW s, DOMAIN s = MixerFields
  PROVE  Mixed(sound_update(s)) /\ SameMixer(s, sound_update(s))
<1> DEFINE level == Level(s)
           selected == Selected(s)
           u == [s EXCEPT !.out = level, !.mame_mux = IF s.mixer = "mame" THEN selected ELSE @]
<1>1. sound_update(s) = u
  BY Zenon DEF sound_update
<1> HIDE DEF level, selected
<1>2. /\ DOMAIN u = MixerFields /\ SameMixer(s, u) /\ u.ext_level = s.ext_level /\ u.ssc_out = s.ssc_out
      /\ u.mixer = s.mixer /\ u.out = level
      /\ s.mixer = "mame" => u.mame_mux = selected
  BY DEF MixerFields, SameMixer
<1> HIDE DEF u
<1>3. s.mixer = "mame" => Selected(u) = Selected(s)
  BY <1>2 DEF Selected, SameMixer, selected
<1>4. Level(u) = level
  BY <1>2, <1>3, SameLevel DEF level
<1> QED
  BY <1>1, <1>2, <1>4 DEF Mixed

\* The selector, whose change is heard only while SNDEN is high.
LEMMA SourceSet ==
  ASSUME NEW s, Mixed(s), NEW source
  PROVE  LET t == sound_set_mux_source(s, source)
         IN /\ Mixed(t) /\ t.mux_source = source /\ t.dac_level = s.dac_level
            /\ (t.sbs_enabled = s.sbs_enabled) /\ (t.sbs_level = s.sbs_level) /\ (t.mux_enabled = s.mux_enabled)
<1> DEFINE t == [s EXCEPT !.mux_source = source]
           r == sound_set_mux_source(s, source)
<1>1. r = IF s.mux_source # source /\ s.mux_enabled THEN sound_update(t) ELSE t
  BY DEF sound_set_mux_source
<1>2. /\ DOMAIN t = MixerFields /\ t.mux_source = source /\ t.dac_level = s.dac_level
      /\ (t.sbs_enabled = s.sbs_enabled) /\ (t.sbs_level = s.sbs_level) /\ (t.mux_enabled = s.mux_enabled)
      /\ t.ext_level = s.ext_level /\ t.ssc_out = s.ssc_out /\ t.mixer = s.mixer /\ t.mame_mux = s.mame_mux
      /\ t.out = s.out
  BY DEF Mixed, MixerFields
<1> HIDE DEF t, r
<1>3. CASE s.mux_source # source /\ s.mux_enabled
  <2>1. r = sound_update(t)
    BY <1>1, <1>3
  <2> QED
    BY <1>2, <2>1, Updated DEF SameMixer, r
<1>4. CASE s.mux_source = source
  <2>1. Selected(t) = Selected(s)
    BY <1>2, <1>4 DEF Selected
  <2>2. Level(t) = Level(s)
    BY <1>2, <1>4, <2>1, SameLevel DEF SameMixer
  <2> QED
    BY <1>1, <1>2, <1>4, <2>2 DEF Mixed, r
<1>5. CASE ~s.mux_enabled
  <2>1. Selected(t) = Selected(s)
    BY <1>2, <1>5 DEF Selected
  <2>2. xroar_level(t) = xroar_level(s)
    BY <1>2, <1>5 DEF xroar_level
  <2>3. mame_level(t) = mame_level(s)
    BY <1>2, <2>1 DEF mame_level
  <2>4. Level(t) = Level(s)
    BY <1>2, <2>2, <2>3 DEF Level
  <2> QED
    BY <1>1, <1>2, <1>5, <2>4 DEF Mixed, r
<1> QED
  BY <1>3, <1>4, <1>5

\* The DAC, which is heard only while it is selected.
LEMMA DacSet ==
  ASSUME NEW s, Mixed(s), NEW dac6
  PROVE  LET t == sound_set_dac_level(s, dac6)
         IN /\ Mixed(t) /\ t.mux_source = s.mux_source /\ t.dac_level = dac6
            /\ (t.sbs_enabled = s.sbs_enabled) /\ (t.sbs_level = s.sbs_level) /\ (t.mux_enabled = s.mux_enabled)
<1> DEFINE t == [s EXCEPT !.dac_level = dac6]
           r == sound_set_dac_level(s, dac6)
<1>1. r = IF s.mux_enabled /\ s.mux_source = SOURCE_DAC THEN sound_update(t) ELSE t
  BY DEF sound_set_dac_level
<1>2. /\ DOMAIN t = MixerFields /\ t.mux_source = s.mux_source /\ t.dac_level = dac6
      /\ (t.sbs_enabled = s.sbs_enabled) /\ (t.sbs_level = s.sbs_level) /\ (t.mux_enabled = s.mux_enabled)
      /\ t.ext_level = s.ext_level /\ t.ssc_out = s.ssc_out /\ t.mixer = s.mixer /\ t.mame_mux = s.mame_mux
      /\ t.out = s.out
  BY DEF Mixed, MixerFields
<1> HIDE DEF t, r
<1>3. CASE s.mux_enabled /\ s.mux_source = SOURCE_DAC
  BY <1>1, <1>2, <1>3, Updated DEF SameMixer, r
<1>4. CASE ~(s.mux_enabled /\ s.mux_source = SOURCE_DAC)
  <2>1. Selected(t) = Selected(s)
    BY <1>2, <1>4 DEF Selected
  <2>2. xroar_level(t) = xroar_level(s)
    BY <1>2, <1>4 DEF xroar_level, SOURCE_DAC, SOURCE_SINGLE_BIT
  <2>3. mame_level(t) = mame_level(s)
    BY <1>2, <2>1 DEF mame_level
  <2>4. Level(t) = Level(s)
    BY <1>2, <2>2, <2>3 DEF Level
  <2> QED
    BY <1>1, <1>2, <1>4, <2>4 DEF Mixed, r
<1> QED
  BY <1>3, <1>4

\* The single bit and SNDEN.
LEMMA SbsSet ==
  ASSUME NEW s, Mixed(s), NEW enabled, NEW level
  PROVE  LET t == sound_set_sbs(s, enabled, level)
         IN /\ Mixed(t) /\ t.mux_source = s.mux_source /\ t.dac_level = s.dac_level
            /\ (t.sbs_enabled = enabled) /\ (t.sbs_level = level) /\ (t.mux_enabled = s.mux_enabled)
<1> DEFINE t == [s EXCEPT !.sbs_enabled = enabled, !.sbs_level = level]
           r == sound_set_sbs(s, enabled, level)
<1>1. r = IF s.sbs_enabled = enabled /\ s.sbs_level = level THEN s ELSE sound_update(t)
  BY Zenon DEF sound_set_sbs
<1>2. /\ DOMAIN t = MixerFields /\ t.mux_source = s.mux_source /\ t.dac_level = s.dac_level
      /\ (t.sbs_enabled = enabled) /\ (t.sbs_level = level) /\ (t.mux_enabled = s.mux_enabled)
  BY DEF Mixed, MixerFields
<1> HIDE DEF t, r
<1> QED
  BY <1>1, <1>2, Updated DEF SameMixer, r

\* sound_set_mux_enabled sets the enable and keeps the rest.
LEMMA EnableSet ==
  ASSUME NEW s, Mixed(s), NEW enabled
  PROVE  LET t == sound_set_mux_enabled(s, enabled)
         IN /\ Mixed(t) /\ t.mux_source = s.mux_source /\ t.dac_level = s.dac_level
            /\ (t.sbs_enabled = s.sbs_enabled) /\ (t.sbs_level = s.sbs_level) /\ (t.mux_enabled = enabled)
<1> DEFINE t == [s EXCEPT !.mux_enabled = enabled]
           r == sound_set_mux_enabled(s, enabled)
<1>1. r = IF s.mux_enabled = enabled THEN s ELSE sound_update(t)
  BY Zenon DEF sound_set_mux_enabled
<1>2. /\ DOMAIN t = MixerFields /\ t.mux_source = s.mux_source /\ t.dac_level = s.dac_level
      /\ (t.sbs_enabled = s.sbs_enabled) /\ (t.sbs_level = s.sbs_level) /\ (t.mux_enabled = enabled)
  BY DEF Mixed, MixerFields
<1> HIDE DEF t, r
<1> QED
  BY <1>1, <1>2, Updated DEF SameMixer, r

\* The cartridges' levels and the choice of mixer, which no pin sets.
LEMMA LevelsSet ==
  ASSUME NEW s, Mixed(s), NEW v
  PROVE  /\ Mixed(sound_set_external(s, v)) /\ SameMixer(s, sound_set_external(s, v))
         /\ Mixed(sound_set_ssc(s, v)) /\ SameMixer(s, sound_set_ssc(s, v))
         /\ Mixed(sound_set_mixer(s, v)) /\ SameMixer(s, sound_set_mixer(s, v))
<1>0. SameMixer(s, s)
  BY DEF SameMixer
<1>1. \A w : LET t == [s EXCEPT !.ext_level = w] IN DOMAIN t = MixerFields /\ SameMixer(s, t)
  BY DEF Mixed, MixerFields, SameMixer
<1>2. \A w : LET t == [s EXCEPT !.ssc_out = w] IN DOMAIN t = MixerFields /\ SameMixer(s, t)
  BY DEF Mixed, MixerFields, SameMixer
<1>3. \A w : LET t == [s EXCEPT !.mixer = w] IN DOMAIN t = MixerFields /\ SameMixer(s, t)
  BY DEF Mixed, MixerFields, SameMixer
<1>4. \A t, u : SameMixer(s, t) /\ SameMixer(t, u) => SameMixer(s, u)
  BY DEF SameMixer
<1>5. \A t : DOMAIN t = MixerFields /\ SameMixer(s, t) => Mixed(sound_update(t)) /\ SameMixer(s, sound_update(t))
  BY <1>4, Updated
<1>6. Mixed(sound_set_external(s, v)) /\ SameMixer(s, sound_set_external(s, v))
  <2>1. sound_set_external(s, v) = IF s.ext_level = v THEN s ELSE sound_update([s EXCEPT !.ext_level = v])
    BY Zenon DEF sound_set_external
  <2> QED
    BY <1>0, <1>1, <1>5, <2>1
<1>7. Mixed(sound_set_mixer(s, v)) /\ SameMixer(s, sound_set_mixer(s, v))
  <2>1. sound_set_mixer(s, v) = IF v = s.mixer THEN s ELSE sound_update([s EXCEPT !.mixer = v])
    BY Zenon DEF sound_set_mixer
  <2> QED
    BY <1>0, <1>3, <1>5, <2>1
<1>8. Mixed(sound_set_ssc(s, v)) /\ SameMixer(s, sound_set_ssc(s, v))
  <2> DEFINE w == SSC_BIAS + (v \div 2)
  <2>1. sound_set_ssc(s, v) = IF s.ssc_out = w THEN s ELSE sound_update([s EXCEPT !.ssc_out = w])
    BY Zenon DEF sound_set_ssc
  <2> HIDE DEF w
  <2> QED
    BY <1>0, <1>2, <1>5, <2>1
<1> QED
  BY <1>6, <1>7, <1>8

\* A reset.
LEMMA SoundReset ==
  ASSUME NEW s
  PROVE  LET t == sound_reset(s)
         IN /\ Mixed(t) /\ t.mux_source = 0 /\ t.dac_level = 0
            /\ (t.sbs_enabled = FALSE) /\ (t.sbs_level = FALSE) /\ (t.mux_enabled = FALSE)
<1> DEFINE i == sound_init(s.mixer)
           t == [i EXCEPT !.ext_level = s.ext_level, !.ssc_out = s.ssc_out]
<1>1. sound_reset(s) = sound_update(t)
  BY Zenon DEF sound_reset
<1>2. /\ DOMAIN i = MixerFields /\ i.mux_source = 0 /\ i.dac_level = 0
      /\ (i.sbs_enabled = FALSE) /\ (i.sbs_level = FALSE) /\ (i.mux_enabled = FALSE)
  BY DEF sound_init, SOURCE_DAC, MixerFields
<1> HIDE DEF i
<1>3. /\ DOMAIN t = MixerFields /\ t.mux_source = 0 /\ t.dac_level = 0
      /\ (t.sbs_enabled = FALSE) /\ (t.sbs_level = FALSE) /\ (t.mux_enabled = FALSE)
  BY <1>2 DEF MixerFields
<1> HIDE DEF t
<1> QED
  BY <1>1, <1>3, Updated DEF SameMixer

-----------------------------------------------------------------------------
(* The pins, and what the mixer makes of them.                              *)

MachineFields ==
  {"pia0", "pia1", "sound", "orch90", "stick", "fitted", "irq", "firq", "masked", "acia_irq", "scanline", "ram_pages",
   "loaded", "g", "cart_bank", "sam", "vdg", "rd_page", "wr_page"}

\* A machine's fields.
LEMMA MachineFieldsAre == \A s : DOMAIN Allocated(s) = MachineFields
  BY DEF Allocated, MachineFields

\* Two states of a PIA whose pins, and CA2 and CB2, are the same.
SamePins(p, q) ==
  /\ PiaShape(q)
  /\ q.a.data = p.a.data /\ q.a.ddr = p.a.ddr /\ q.b.data = p.b.data /\ q.b.ddr = p.b.ddr
  /\ (3 \in q.a.ctrl) = (3 \in p.a.ctrl) /\ (3 \in q.b.ctrl) = (3 \in p.b.ctrl)

\* Pins that two steps leave alone.
LEMMA SamePinsTwice ==
  ASSUME NEW p, NEW q, NEW r, SamePins(p, q), SamePins(q, r)
  PROVE  SamePins(p, r)
  BY DEF SamePins

\* A PIA has its own pins.
LEMMA ItsOwnPins ==
  ASSUME NEW p, PiaShape(p)
  PROVE  SamePins(p, p)
  BY DEF SamePins

\* Flags and inputs are not pins.
LEMMA FlagsOnly ==
  ASSUME NEW p, PiaShape(p), NEW s \in {"a", "b"}
  PROVE  /\ \A flags : (3 \in flags) = (3 \in p[s].ctrl) => SamePins(p, [p EXCEPT ![s].ctrl = flags])
         /\ \A v : SamePins(p, [p EXCEPT ![s].input = v])
<1>1. CASE s = "a"
  BY <1>1 DEF PiaShape, SamePins
<1>2. CASE s = "b"
  BY <1>2 DEF PiaShape, SamePins
<1> QED
  BY <1>1, <1>2

\* Reads and edges change flags.
LEMMA ReadPins ==
  ASSUME NEW p, PiaShape(p), NEW reg \in 0 .. 3
  PROVE  SamePins(p, mc6821_read(p, reg))
<1> DEFINE s == SideOf(reg)
           flags == p[s].ctrl \ {6, 7}
<1>1. mc6821_read(p, reg) = IF DataRead(p, reg) THEN [p EXCEPT ![s].ctrl = flags] ELSE p
  BY DEF mc6821_read
<1>2. s \in {"a", "b"} /\ (3 \in flags) = (3 \in p[s].ctrl)
  BY DEF SideOf
<1> HIDE DEF s, flags
<1> QED
  BY <1>1, <1>2, FlagsOnly, ItsOwnPins

\* An edge on CA1 or CB1 moves no pin that the mixer hears.
LEMMA EdgePins ==
  ASSUME NEW p, PiaShape(p), NEW s \in {"a", "b"}, NEW rising
  PROVE  SamePins(p, c1_transition(p, s, rising))
<1> DEFINE flags == p[s].ctrl \cup {7}
<1>1. c1_transition(p, s, rising) = IF EdgeMatches(p, s, rising) THEN [p EXCEPT ![s].ctrl = flags] ELSE p
  BY DEF c1_transition
<1>2. (3 \in flags) = (3 \in p[s].ctrl)
  OBVIOUS
<1> HIDE DEF flags
<1> QED
  BY <1>1, <1>2, FlagsOnly, ItsOwnPins

\* A write changes one of the three registers of one side.
LEMMA PiaWritten ==
  ASSUME NEW p, PiaShape(p), NEW reg \in 0 .. 3, NEW val
  PROVE  LET q == mc6821_write(p, reg, val)
         IN /\ PiaShape(q)
            /\ reg < 2 => q.b = p.b
            /\ reg >= 2 => q.a = p.a
            /\ reg = 0 => q.a.ctrl = p.a.ctrl
            /\ reg = 1 => q.a.data = p.a.data /\ q.a.ddr = p.a.ddr
            /\ reg = 2 => q.b.ctrl = p.b.ctrl
            /\ reg = 3 => q.b.data = p.b.data /\ q.b.ddr = p.b.ddr
<1> DEFINE q == mc6821_write(p, reg, val)
           s == SideOf(reg)
           flags == (p[s].ctrl \cap {6, 7}) \cup (val \ {6, 7})
<1>1. q = IF IsControl(reg) THEN [p EXCEPT ![s].ctrl = flags]
          ELSE IF 2 \in p[s].ctrl THEN [p EXCEPT ![s].data = val] ELSE [p EXCEPT ![s].ddr = val]
  BY DEF mc6821_write
<1>2. s = IF reg < 2 THEN "a" ELSE "b"
  BY DEF SideOf
<1> HIDE DEF s, q
<1>12. s = "a" => q = IF IsControl(reg) THEN [p EXCEPT !.a.ctrl = (p.a.ctrl \cap {6, 7}) \cup (val \ {6, 7})]
                     ELSE IF 2 \in p.a.ctrl THEN [p EXCEPT !.a.data = val] ELSE [p EXCEPT !.a.ddr = val]
  BY <1>1, Zenon
<1>13. s = "b" => q = IF IsControl(reg) THEN [p EXCEPT !.b.ctrl = (p.b.ctrl \cap {6, 7}) \cup (val \ {6, 7})]
                     ELSE IF 2 \in p.b.ctrl THEN [p EXCEPT !.b.data = val] ELSE [p EXCEPT !.b.ddr = val]
  BY <1>1, Zenon
<1>3. IsControl(reg) <=> reg \in {1, 3}
  BY DEF IsControl
<1>4. \A v : LET r == [p EXCEPT !.a.ctrl = v]
             IN PiaShape(r) /\ r.b = p.b /\ r.a.data = p.a.data /\ r.a.ddr = p.a.ddr
  BY DEF PiaShape
<1>5. \A v : LET r == [p EXCEPT !.b.ctrl = v]
             IN PiaShape(r) /\ r.a = p.a /\ r.b.data = p.b.data /\ r.b.ddr = p.b.ddr
  BY DEF PiaShape
<1>6. /\ LET r == [p EXCEPT !.a.data = val] IN PiaShape(r) /\ r.b = p.b /\ r.a.ctrl = p.a.ctrl
      /\ LET r == [p EXCEPT !.a.ddr = val] IN PiaShape(r) /\ r.b = p.b /\ r.a.ctrl = p.a.ctrl
  BY DEF PiaShape
<1>7. /\ LET r == [p EXCEPT !.b.data = val] IN PiaShape(r) /\ r.a = p.a /\ r.b.ctrl = p.b.ctrl
      /\ LET r == [p EXCEPT !.b.ddr = val] IN PiaShape(r) /\ r.a = p.a /\ r.b.ctrl = p.b.ctrl
  BY DEF PiaShape
<1>8. CASE reg = 0
  <2>1. q = [p EXCEPT !.a.data = val] \/ q = [p EXCEPT !.a.ddr = val]
    BY <1>2, <1>3, <1>12, <1>13, <1>8
  <2>2. PiaShape(q) /\ q.b = p.b /\ q.a.ctrl = p.a.ctrl
    BY <1>6, <2>1
  <2> QED
    BY <1>8, <2>2 DEF q
<1>9. CASE reg = 1
  <2>1. q = [p EXCEPT !.a.ctrl = (p.a.ctrl \cap {6, 7}) \cup (val \ {6, 7})]
    BY <1>2, <1>3, <1>12, <1>13, <1>9
  <2>2. PiaShape(q) /\ q.b = p.b /\ q.a.data = p.a.data /\ q.a.ddr = p.a.ddr
    BY <1>4, <2>1
  <2> QED
    BY <1>9, <2>2 DEF q
<1>10. CASE reg = 2
  <2>1. q = [p EXCEPT !.b.data = val] \/ q = [p EXCEPT !.b.ddr = val]
    BY <1>2, <1>3, <1>12, <1>13, <1>10
  <2>2. PiaShape(q) /\ q.a = p.a /\ q.b.ctrl = p.b.ctrl
    BY <1>7, <2>1
  <2> QED
    BY <1>10, <2>2 DEF q
<1>11. CASE reg = 3
  <2>1. q = [p EXCEPT !.b.ctrl = (p.b.ctrl \cap {6, 7}) \cup (val \ {6, 7})]
    BY <1>2, <1>3, <1>12, <1>13, <1>11
  <2>2. PiaShape(q) /\ q.a = p.a /\ q.b.data = p.b.data /\ q.b.ddr = p.b.ddr
    BY <1>5, <2>1
  <2> QED
    BY <1>11, <2>2 DEF q
<1> QED
  BY <1>8, <1>9, <1>10, <1>11

\* The mixer follows the pins, field by field.
Heard(s, p, q) ==
  /\ PiaShape(p) /\ PiaShape(q) /\ Mixed(s)
  /\ s.mux_source = (IF 3 \in p.b.ctrl THEN 2 ELSE 0) + (IF 3 \in p.a.ctrl THEN 1 ELSE 0)
  /\ s.dac_level = Field(q.a.data \cap q.a.ddr, 2, 6)
  /\ (s.mux_enabled = (3 \in q.b.ctrl)) /\ (s.sbs_enabled = (1 \in q.b.ddr)) /\ (s.sbs_level = (1 \in q.b.data))

\* The mixer's state, said of it and the two PIAs.
LEMMA HeardAgrees ==
  ASSUME NEW c, PiaShape(c.pia0), PiaShape(c.pia1), DOMAIN c.sound = MixerFields
  PROVE  SoundAgrees(c) <=> Heard(c.sound, c.pia0, c.pia1)
  BY DEF SoundAgrees, Heard, Mixed, MuxSource, DacPins

\* The mixer follows other PIAs with the same pins.
LEMMA StillHeard ==
  ASSUME NEW s, NEW p, NEW q, NEW p2, NEW q2, Heard(s, p, q), SamePins(p, p2), SamePins(q, q2)
  PROVE  Heard(s, p2, q2)
  BY DEF Heard, SamePins

\* Another mixer with the same inputs follows the same pins.
LEMMA LevelsHeard ==
  ASSUME NEW s, NEW t, NEW p, NEW q, Heard(s, p, q), Mixed(t), SameMixer(s, t)
  PROVE  Heard(t, p, q)
  BY DEF Heard, SameMixer

\* What a write to PIA 0 does to a mixer that followed the pins before it.
LEMMA Pia0Heard ==
  ASSUME NEW c, NEW p, NEW reg \in 0 .. 3, NEW val, DOMAIN c = MachineFields, Heard(c.sound, p, c.pia1),
         c.pia0 = mc6821_write(p, reg, val)
  PROVE  LET d == sound_pia0_written(c, reg)
         IN Heard(d.sound, c.pia0, c.pia1) /\ DOMAIN d = MachineFields
            /\ \A f \in MachineFields \ {"sound"} : d[f] = c[f]
<1> DEFINE v == sound_set_mux_source(c.sound, MuxSource(c))
           e == [c EXCEPT !.sound = v]
           d == sound_pia0_written(c, reg)
<1>1. d = IF IsControl(reg) THEN e ELSE c
  BY Zenon DEF sound_pia0_written
<1> HIDE DEF v, d
<1>2. e.sound = v /\ DOMAIN e = MachineFields /\ \A f \in MachineFields \ {"sound"} : e[f] = c[f]
  BY DEF MachineFields
<1> HIDE DEF e
<1>3. PiaShape(c.pia0) /\ PiaShape(p) /\ Mixed(c.sound) /\ PiaShape(c.pia1)
  BY PiaWritten DEF Heard
<1>4. CASE IsControl(reg)
  <2>1. Mixed(v) /\ v.mux_source = MuxSource(c) /\ v.dac_level = c.sound.dac_level
        /\ (v.sbs_enabled = c.sound.sbs_enabled) /\ (v.sbs_level = c.sound.sbs_level)
        /\ (v.mux_enabled = c.sound.mux_enabled)
    BY <1>3, SourceSet DEF v
  <2>2. Heard(v, c.pia0, c.pia1)
    BY <1>3, <2>1 DEF Heard, MuxSource
  <2> QED
    BY <1>1, <1>2, <1>4, <2>2 DEF d
<1>5. CASE ~IsControl(reg)
  <2>1. reg \in {0, 2}
    BY <1>5 DEF IsControl
  <2>2. c.pia0.a.ctrl = p.a.ctrl /\ c.pia0.b.ctrl = p.b.ctrl
    BY <1>3, <2>1, PiaWritten
  <2>3. Heard(c.sound, c.pia0, c.pia1)
    BY <1>3, <2>2 DEF Heard
  <2> QED
    BY <1>1, <1>5, <2>3 DEF d
<1> QED
  BY <1>4, <1>5

\* A write to PIA 1: the DAC from side A, the single bit and SNDEN from side B.
LEMMA Pia1Heard ==
  ASSUME NEW c, NEW q, NEW reg \in 0 .. 3, NEW val, DOMAIN c = MachineFields, Heard(c.sound, c.pia0, q),
         c.pia1 = mc6821_write(q, reg, val)
  PROVE  LET d == sound_pia1_written(c, reg)
         IN Heard(d.sound, c.pia0, c.pia1) /\ DOMAIN d = MachineFields
            /\ \A f \in MachineFields \ {"sound"} : d[f] = c[f]
<1> DEFINE s == c.sound
           dac == sound_set_dac_level(s, DacPins(c))
           sbs == sound_set_sbs(s, 1 \in c.pia1.b.ddr, 1 \in c.pia1.b.data)
           enabled == sound_set_mux_enabled(sbs, 3 \in c.pia1.b.ctrl)
           v == IF reg < 2 THEN dac ELSE IF reg = 2 THEN sbs ELSE enabled
           d == sound_pia1_written(c, reg)
<1> HIDE DEF dac, sbs, enabled
<1>1. d = [c EXCEPT !.sound = v]
  <2>1. d = CASE reg < 2 -> [c EXCEPT !.sound = dac]
              [] reg = 2 -> [c EXCEPT !.sound = sbs]
              [] OTHER -> [c EXCEPT !.sound = enabled]
    BY Zenon DEF sound_pia1_written, dac, sbs, enabled
  <2> HIDE DEF d
  <2>2. CASE reg < 2
    BY <2>1, <2>2
  <2>3. CASE reg = 2
    BY <2>1, <2>3
  <2>4. CASE reg = 3
    BY <2>1, <2>4
  <2> QED
    BY <2>2, <2>3, <2>4
<1> HIDE DEF d
<1>2. DOMAIN d = MachineFields /\ d.sound = v /\ \A f \in MachineFields \ {"sound"} : d[f] = c[f]
  <2> HIDE DEF v
  <2> QED
    BY <1>1 DEF MachineFields
<1>3. PiaShape(c.pia1) /\ PiaShape(q) /\ Mixed(s) /\ PiaShape(c.pia0)
  BY PiaWritten DEF Heard
<1>4. Mixed(sbs) /\ sbs.mux_source = s.mux_source /\ sbs.dac_level = s.dac_level
      /\ (sbs.sbs_enabled = (1 \in c.pia1.b.ddr)) /\ (sbs.sbs_level = (1 \in c.pia1.b.data))
      /\ (sbs.mux_enabled = s.mux_enabled)
  BY <1>3, SbsSet DEF sbs
<1>5. CASE reg < 2
  <2>1. Mixed(dac) /\ dac.mux_source = s.mux_source /\ dac.dac_level = DacPins(c)
        /\ (dac.sbs_enabled = s.sbs_enabled) /\ (dac.sbs_level = s.sbs_level)
        /\ (dac.mux_enabled = s.mux_enabled)
    BY <1>3, DacSet DEF dac
  <2>2. c.pia1.b = q.b
    BY <1>3, <1>5, PiaWritten
  <2>3. Heard(dac, c.pia0, c.pia1)
    BY <1>3, <2>1, <2>2 DEF Heard, DacPins
  <2> QED
    BY <1>2, <1>5, <2>3 DEF d
<1>6. CASE reg = 2
  <2>1. c.pia1.a = q.a /\ c.pia1.b.ctrl = q.b.ctrl
    BY <1>3, <1>6, PiaWritten
  <2>2. Heard(sbs, c.pia0, c.pia1)
    BY <1>3, <1>4, <2>1 DEF Heard
  <2> QED
    BY <1>2, <1>6, <2>2 DEF d
<1>7. CASE reg = 3
  <2>1. c.pia1.a = q.a
    BY <1>3, <1>7, PiaWritten
  <2>2. Mixed(enabled) /\ enabled.mux_source = sbs.mux_source /\ enabled.dac_level = sbs.dac_level
        /\ (enabled.sbs_enabled = sbs.sbs_enabled) /\ (enabled.sbs_level = sbs.sbs_level)
        /\ (enabled.mux_enabled = (3 \in c.pia1.b.ctrl))
    BY <1>4, EnableSet DEF enabled
  <2>3. Heard(enabled, c.pia0, c.pia1)
    BY <1>3, <1>4, <2>1, <2>2 DEF Heard
  <2> QED
    BY <1>2, <1>7, <2>3 DEF d
<1> QED
  BY <1>5, <1>6, <1>7

-----------------------------------------------------------------------------
(* The timer, a line at a time.                                             *)

TickFields == InterruptFields \cup TimerFields \cup {"timer_fires", "blink"}

\* What the reload is worth.
LEMMA ReloadType ==
  ASSUME NEW g
  PROVE  Reload(g) \in Nat
<1> DEFINE high == Field(g.registers[4], 0, 4)
           low == Number(g.registers[5])
<1>1. high \in Nat /\ low \in Nat
  BY FieldType DEF Number
<1>2. Reload(g) = high * 256 + low
  BY DEF Reload
<1> HIDE DEF high, low
<1> QED
  BY <1>1, <1>2

\* One expiry of the slow timer.
LEMMA SlowExpiry ==
  ASSUME NEW g, DOMAIN g = GimeFields, TimerType(g)
  PROVE  LET w == arm_timer(timer_expired(g))
         IN /\ Touches(g, w, TickFields) /\ w.timer_fires = g.timer_fires + 1
            /\ w.timer_counter = (IF Reload(g) = 0 THEN 0 ELSE Reload(g) + TIMER_OFFSET)
            /\ w.timer_left_x2 = 2 * w.timer_counter
<1> DEFINE fires == g.timer_fires + 1
           h == [g EXCEPT !.blink = ~@, !.timer_fires = fires]
           e == set_interrupt(h, {TMR})
           w == arm_timer(e)
<1>1. timer_expired(g) = e
  BY Zenon DEF timer_expired
<1> HIDE DEF fires
<1>2. Touches(g, h, {"timer_fires", "blink"}) /\ h.timer_fires = fires
  BY FieldsAre DEF Touches
<1> HIDE DEF h
<1>3. DOMAIN h = GimeFields
  BY <1>2 DEF Touches
<1>4. Touches(h, e, InterruptFields)
  BY <1>3, InterruptTouches
<1> HIDE DEF e
<1>5. DOMAIN e = GimeFields /\ e.timer_fires = fires /\ e.registers = g.registers
  BY <1>2, <1>3, <1>4, FieldsAre DEF Touches, InterruptFields
<1>6. Reload(e) = Reload(g)
  BY <1>5 DEF Reload
<1>7. /\ Touches(e, w, TimerFields)
      /\ w.timer_counter = (IF Reload(g) = 0 THEN 0 ELSE Reload(g) + TIMER_OFFSET)
      /\ w.timer_left_x2 = 2 * w.timer_counter
  BY <1>5, <1>6, ArmTouches
<1> HIDE DEF w
<1>8. w.timer_fires = fires
  BY <1>5, <1>7, FieldsAre DEF Touches, TimerFields
<1>9. Touches(g, w, ({"timer_fires", "blink"} \cup InterruptFields) \cup TimerFields)
  BY <1>2, <1>4, <1>7, TouchesBoth
<1>10. Touches(g, w, TickFields)
  BY <1>9, TouchesMore DEF TickFields
<1> QED
  BY <1>1, <1>7, <1>8, <1>10 DEF w, fires

\* The expiries of the fast timer in a line.
LEMMA FastExpiries ==
  ASSUME NEW g, DOMAIN g = GimeFields
  PROVE  LET w == ExpireFast(g)
             n == Expiries(g)
         IN /\ Touches(g, w, TickFields)
            /\ g.timer_left_x2 > 0 => w = g
            /\ ~(g.timer_left_x2 > 0) =>
                 /\ w.timer_fires = g.timer_fires + n
                 /\ w.timer_counter = (IF Reload(g) = 0 THEN 0 ELSE Reload(g) + TIMER_OFFSET)
                 /\ w.timer_left_x2 = (IF Reload(g) = 0 THEN 0 ELSE n * (2 * w.timer_counter) + g.timer_left_x2)
<1> DEFINE n == Expiries(g)
           fires == g.timer_fires + n
           flip == IF n % 2 = 1 THEN ~g.blink ELSE g.blink
           h == [g EXCEPT !.timer_fires = fires, !.blink = flip]
           a == arm_timer(h)
           e == set_interrupt(a, {TMR})
           left == IF Reload(g) = 0 THEN 0 ELSE n * e.timer_left_x2 + g.timer_left_x2
           x == [e EXCEPT !.timer_left_x2 = left]
           w == ExpireFast(g)
<1> HIDE DEF n
<1>1. w = IF g.timer_left_x2 > 0 THEN g ELSE x
  BY DEF ExpireFast, n
<1> HIDE DEF w, fires, flip
<1>2. Touches(g, h, {"timer_fires", "blink"}) /\ h.timer_fires = fires
  BY FieldsAre DEF Touches
<1> HIDE DEF h
<1>3. DOMAIN h = GimeFields /\ h.registers = g.registers
  BY <1>2, FieldsAre DEF Touches
<1>4. Reload(h) = Reload(g)
  BY <1>3 DEF Reload
<1>5. /\ Touches(h, a, TimerFields)
      /\ a.timer_counter = (IF Reload(g) = 0 THEN 0 ELSE Reload(g) + TIMER_OFFSET)
      /\ a.timer_left_x2 = 2 * a.timer_counter
  BY <1>3, <1>4, ArmTouches
<1> HIDE DEF a
<1>6. DOMAIN a = GimeFields /\ a.timer_fires = fires
  BY <1>2, <1>3, <1>5, FieldsAre DEF Touches, TimerFields
<1>7. Touches(a, e, InterruptFields)
  BY <1>6, InterruptTouches
<1> HIDE DEF e
<1>8. DOMAIN e = GimeFields /\ e.timer_fires = fires /\ e.timer_counter = a.timer_counter
      /\ e.timer_left_x2 = a.timer_left_x2
  BY <1>6, <1>7, FieldsAre DEF Touches, InterruptFields
<1> HIDE DEF left
<1>9. Touches(e, x, TimerFields) /\ x.timer_left_x2 = left /\ x.timer_counter = e.timer_counter
      /\ x.timer_fires = e.timer_fires
  BY <1>8, FieldsAre DEF Touches, TimerFields
<1> HIDE DEF x
<1>10. Touches(g, x, (({"timer_fires", "blink"} \cup TimerFields) \cup InterruptFields) \cup TimerFields)
  <2>1. Touches(g, a, {"timer_fires", "blink"} \cup TimerFields)
    BY <1>2, <1>5, TouchesBoth
  <2>2. Touches(g, e, ({"timer_fires", "blink"} \cup TimerFields) \cup InterruptFields)
    BY <1>7, <2>1, TouchesBoth
  <2> QED
    BY <1>9, <2>2, TouchesBoth
<1>11. Touches(g, x, TickFields)
  BY <1>10, TouchesMore DEF TickFields
<1>12. Touches(g, g, TickFields)
  BY DEF Touches
<1> QED
  BY <1>1, <1>5, <1>8, <1>9, <1>11, <1>12 DEF w, n, fires, left

\* The half-ticks left after a whole number of periods.
LEMMA Periods ==
  ASSUME NEW P \in Nat \ {0}, NEW left \in Int, left <= 0
  PROVE  LET n == 1 + (-left) \div P
         IN n \in Int /\ n > 0 /\ n * P + left \in 1 .. P
<1> DEFINE a == -left
           q == a \div P
           m == a % P
<1>0. a \in Nat /\ a \in Int /\ a = -left
  OBVIOUS
<1> HIDE DEF a
<1>1. a = P * q + m /\ q \in Int /\ m \in 0 .. P - 1
  BY <1>0, ModDiv, ModRange
<1> HIDE DEF q, m
<1>2. (1 + q) * P = P + P * q
  BY <1>1
<1>3. (1 + q) * P + left = P - m
  <2> DEFINE pq == P * q
  <2>1. pq \in Int /\ (1 + q) * P = P + pq /\ a = pq + m
    BY <1>1, <1>2
  <2> HIDE DEF pq
  <2> QED
    BY <1>0, <1>1, <2>1
<1>4. q >= 0
  <2> SUFFICES ASSUME q < 0 PROVE FALSE
    BY <1>1
  <2>1. P * q <= -P
    BY <1>1
  <2> DEFINE pq == P * q
  <2>2. pq \in Int /\ pq <= -P /\ a = pq + m
    BY <1>1, <2>1
  <2> HIDE DEF pq
  <2> QED
    BY <1>0, <1>1, <2>2
<1> QED
  BY <1>1, <1>3, <1>4 DEF q, a

\* A line's tick keeps what the timer has left of its periods.
LEMMA Ticked ==
  ASSUME NEW g, DOMAIN g = GimeFields, TimerType(g), NEW since \in Int, NEW fires \in Int
  PROVE  LET w == tcc1014_tick_scanline(g)
         IN /\ Touches(g, w, TickFields) /\ TimerType(w)
            /\ TimerLeft(g, since, g.timer_fires - fires) => TimerLeft(w, since + 1, w.timer_fires - fires)
<1> DEFINE left == g.timer_left_x2 - TIMER_FAST_X2_PER_LINE
           down == g.timer_counter - 1
           h == [g EXCEPT !.timer_left_x2 = left]
           i == [g EXCEPT !.timer_counter = down]
           w == tcc1014_tick_scanline(g)
           P == Period(g)
           k == g.timer_fires - fires
<1>0. TIMER_OFFSET = 1 /\ TIMER_FAST_X2_PER_LINE = 456
  BY DEF TIMER_OFFSET, TIMER_FAST_X2_PER_LINE
<1>1. w = IF g.timer_counter <= 0 THEN g
          ELSE IF TINS(g) THEN ExpireFast(h)
          ELSE IF i.timer_counter <= 0 THEN arm_timer(timer_expired(i)) ELSE i
  BY DEF tcc1014_tick_scanline
<1>2. left \in Int /\ down \in Int /\ left = g.timer_left_x2 - 456 /\ down = g.timer_counter - 1
  BY <1>0 DEF TimerType
<1> HIDE DEF left, down, w
<1>3. /\ Touches(g, h, TimerFields) /\ h.timer_left_x2 = left /\ h.timer_counter = g.timer_counter
      /\ Touches(g, i, TimerFields) /\ i.timer_left_x2 = g.timer_left_x2 /\ i.timer_counter = down
  BY FieldsAre DEF Touches, TimerFields
<1> HIDE DEF h, i
<1>4. /\ DOMAIN h = GimeFields /\ h.registers = g.registers /\ h.timer_fires = g.timer_fires
      /\ DOMAIN i = GimeFields /\ i.registers = g.registers /\ i.timer_fires = g.timer_fires
  BY <1>3, FieldsAre DEF Touches, TimerFields
<1>5. \A x : x.registers = g.registers => Reload(x) = Reload(g) /\ (TINS(x) <=> TINS(g)) /\ Period(x) = P
  BY DEF Reload, TINS, Period
<1>6. \A x : DOMAIN x = GimeFields /\ Touches(g, x, TickFields) => x.registers = g.registers
  BY FieldsAre DEF Touches, TickFields, InterruptFields, TimerFields
<1>7. P \in Nat \ {0} /\ P = Reload(g) + 1 /\ k \in Int /\ g.timer_fires = fires + k
  BY <1>0, ReloadType DEF Period, TimerType
<1> HIDE DEF P
<1>8. CASE g.timer_counter <= 0
  <2>1. w = g
    BY <1>1, <1>8
  <2>2. TimerLeft(g, since, k) => Reload(g) = 0
    BY <1>7, <1>8, <1>2 DEF TimerLeft, TimerType, P
  <2>3. TimerLeft(g, since, k) => TimerLeft(g, since + 1, k)
    BY <2>2 DEF TimerLeft
  <2> QED
    BY <2>1, <2>3 DEF w, Touches
<1>9. CASE g.timer_counter > 0 /\ TINS(g)
  <2>1. w = ExpireFast(h)
    BY <1>1, <1>9 DEF TimerType
  <2> DEFINE n == Expiries(h)
  <2>2. /\ Touches(h, w, TickFields)
        /\ left > 0 => w = h
        /\ ~(left > 0) =>
             /\ w.timer_fires = g.timer_fires + n
             /\ w.timer_counter = (IF Reload(g) = 0 THEN 0 ELSE P)
             /\ w.timer_left_x2 = (IF Reload(g) = 0 THEN 0 ELSE n * (2 * w.timer_counter) + left)
    BY <1>3, <1>4, <1>5, <2>1, FastExpiries DEF P, Period
  <2>3. Touches(g, w, TickFields)
    <3>1. Touches(g, w, TimerFields \cup TickFields)
      BY <1>3, <2>2, TouchesBoth
    <3> QED
      BY <3>1, TouchesMore DEF TickFields
  <2>4. /\ Reload(w) = Reload(g)
        /\ TINS(w) <=> TINS(g)
        /\ Period(w) = P
    BY <1>5, <1>6, <2>3 DEF Touches
  <2>5. CASE left > 0
    <3>1. w = h
      BY <2>2, <2>5
    <3>2. TimerType(w)
      BY <1>2, <1>3, <1>4, <3>1 DEF TimerType
    <3>3. TimerLeft(g, since, k) => TimerLeft(w, since + 1, k)
      <4> SUFFICES ASSUME TimerLeft(g, since, k) PROVE TimerLeft(w, since + 1, k)
        OBVIOUS
      <4>1. Reload(g) # 0
        BY <1>9 DEF TimerLeft, TimerType
      <4> DEFINE D == (2 * P) * (k + 1)
      <4>2. g.timer_counter = P /\ g.timer_left_x2 \in 1 .. 2 * P /\ g.timer_left_x2 = D - 456 * since
        BY <1>0, <1>9, <4>1 DEF TimerLeft, P
      <4>3. D \in Int
        BY <1>7
      <4> HIDE DEF D
      <4>4. w.timer_left_x2 = D - 456 * (since + 1) /\ w.timer_left_x2 \in 1 .. 2 * P /\ w.timer_counter = P
        BY <1>2, <1>3, <1>7, <2>5, <3>1, <4>2, <4>3
      <4> QED
        BY <1>0, <1>9, <2>4, <4>1, <4>4 DEF TimerLeft, D
    <3> QED
      BY <1>4, <2>3, <3>1, <3>2, <3>3 DEF w
  <2>6. CASE ~(left > 0) /\ Reload(g) = 0
    <3>1. n = 1
      BY <1>4, <1>5, <2>6 DEF Expiries
    <3>2. w.timer_fires = g.timer_fires + 1 /\ w.timer_counter = 0 /\ w.timer_left_x2 = 0
      BY <2>2, <2>6, <3>1
    <3>3. ~TimerLeft(g, since, k)
      BY <1>9, <2>6 DEF TimerLeft
    <3> QED
      BY <2>3, <3>2, <3>3 DEF TimerType, w
  <2>7. CASE ~(left > 0) /\ Reload(g) # 0
    <3> DEFINE Q == 2 * P
    <3>1. n = 1 + (-left) \div Q
      BY <1>0, <1>3, <1>4, <1>5, <1>7, <2>7 DEF Expiries
    <3>2. Q \in Nat \ {0} /\ left <= 0
      BY <1>2, <1>7, <2>7
    <3> HIDE DEF Q, n
    <3>3. n \in Int /\ n * Q + left \in 1 .. Q
      <4> DEFINE e == 1 + (-left) \div Q
      <4>1. n = e
        BY <3>1
      <4>2. left \in Int
        BY <1>2
      <4>3. e \in Int /\ e * Q + left \in 1 .. Q
        BY <3>2, <4>2, Periods, Zenon
      <4> HIDE DEF e
      <4> QED
        BY <4>1, <4>3
    <3> DEFINE nQ == n * Q
    <3>4. nQ \in Int
      BY <3>2, <3>3
    <3>5. w.timer_fires = g.timer_fires + n /\ w.timer_counter = P /\ w.timer_left_x2 = nQ + left
      BY <2>2, <2>7 DEF Q
    <3>6. nQ + left \in 1 .. Q
      BY <3>3
    <3>7. TimerLeft(g, since, k) => TimerLeft(w, since + 1, k + n)
      <4> SUFFICES ASSUME TimerLeft(g, since, k) PROVE TimerLeft(w, since + 1, k + n)
        OBVIOUS
      <4> DEFINE D == Q * (k + 1)
                 E == Q * ((k + n) + 1)
      <4>1. g.timer_left_x2 = D - 456 * since
        BY <1>0, <1>9, <2>7 DEF TimerLeft, P, Q
      <4>2. E = D + nQ /\ D \in Int /\ E \in Int
        BY <1>7, <3>2, <3>3
      <4> HIDE DEF D, E, nQ
      <4>3. nQ + left = E - 456 * (since + 1)
        BY <1>2, <3>4, <4>1, <4>2
      <4>4. w.timer_left_x2 = E - 456 * (since + 1) /\ w.timer_left_x2 \in 1 .. Q
        BY <3>5, <3>6, <4>3
      <4> QED
        BY <1>0, <1>9, <2>4, <2>7, <3>5, <4>4 DEF TimerLeft, E, Q
    <3> HIDE DEF nQ
    <3>8. w.timer_fires - fires = k + n /\ TimerType(w)
      BY <1>7, <3>3, <3>4, <3>5, <1>2 DEF TimerType
    <3> QED
      BY <2>3, <3>7, <3>8 DEF w
  <2> QED
    BY <2>5, <2>6, <2>7
<1>10. CASE g.timer_counter > 0 /\ ~TINS(g)
  <2>1. w = IF i.timer_counter <= 0 THEN arm_timer(timer_expired(i)) ELSE i
    BY <1>1, <1>10 DEF TimerType
  <2>2. TimerType(i)
    BY <1>2, <1>3, <1>4 DEF TimerType
  <2>3. CASE down <= 0
    <3>1. /\ Touches(i, w, TickFields) /\ w.timer_fires = g.timer_fires + 1
          /\ w.timer_counter = (IF Reload(g) = 0 THEN 0 ELSE P)
          /\ w.timer_left_x2 = 2 * w.timer_counter
      BY <1>3, <1>4, <1>5, <2>1, <2>2, <2>3, SlowExpiry DEF P, Period
    <3>2. Touches(g, w, TickFields)
      <4>1. Touches(g, w, TimerFields \cup TickFields)
        BY <1>3, <3>1, TouchesBoth
      <4> QED
        BY <4>1, TouchesMore DEF TickFields
    <3>3. /\ Reload(w) = Reload(g)
          /\ TINS(w) <=> TINS(g)
          /\ Period(w) = P
      BY <1>5, <1>6, <3>2 DEF Touches
    <3>4. TimerLeft(g, since, k) => TimerLeft(w, since + 1, k + 1)
      <4> SUFFICES ASSUME TimerLeft(g, since, k) PROVE TimerLeft(w, since + 1, k + 1)
        OBVIOUS
      <4>1. Reload(g) # 0
        BY <1>10 DEF TimerLeft
      <4> DEFINE D == P * (k + 1)
                 E == P * ((k + 1) + 1)
      <4>2. g.timer_counter \in 1 .. P /\ g.timer_counter = D - since
        BY <1>10, <4>1 DEF TimerLeft, P
      <4>3. E = D + P /\ D \in Int
        BY <1>7
      <4> HIDE DEF D, E
      <4>4. P = E - (since + 1) /\ P \in 1 .. P
        BY <1>2, <1>7, <2>3, <4>2, <4>3
      <4> QED
        BY <1>10, <3>1, <3>3, <4>1, <4>4 DEF TimerLeft, E
    <3>5. w.timer_fires - fires = k + 1 /\ TimerType(w)
      BY <1>7, <3>1 DEF TimerType
    <3> QED
      BY <3>2, <3>4, <3>5 DEF w
  <2>4. CASE ~(down <= 0)
    <3>1. w = i
      BY <1>3, <2>1, <2>4
    <3>2. TimerLeft(g, since, k) => TimerLeft(i, since + 1, k)
      <4> SUFFICES ASSUME TimerLeft(g, since, k) PROVE TimerLeft(i, since + 1, k)
        OBVIOUS
      <4>1. Reload(g) # 0
        BY <1>10 DEF TimerLeft
      <4> DEFINE D == P * (k + 1)
      <4>2. g.timer_counter \in 1 .. P /\ g.timer_counter = D - since
        BY <1>10, <4>1 DEF TimerLeft, P
      <4>3. D \in Int
        BY <1>7
      <4> HIDE DEF D
      <4>4. down = D - (since + 1) /\ down \in 1 .. P
        BY <1>2, <1>7, <2>4, <4>2, <4>3
      <4>5. /\ Reload(i) = Reload(g)
            /\ TINS(i) <=> TINS(g)
            /\ Period(i) = P
        BY <1>4, <1>5
      <4> QED
        BY <1>3, <1>10, <4>1, <4>4, <4>5 DEF TimerLeft, D
    <3>3. Touches(g, i, TickFields)
      BY <1>3, TouchesMore DEF TickFields
    <3> QED
      BY <1>4, <2>2, <3>1, <3>2, <3>3 DEF w
  <2> QED
    BY <2>3, <2>4 DEF TimerType
<1> QED
  BY <1>8, <1>9, <1>10 DEF TimerType

\* The rate that follows from what is left.
LEMMA RateFollows ==
  ASSUME NEW g, TimerType(g), NEW since \in Nat, NEW expired \in Int, TimerLeft(g, since, expired)
  PROVE  expired = IF Reload(g) = 0 THEN 0
                   ELSE IF TINS(g) THEN (TIMER_FAST_X2_PER_LINE * since) \div (2 * (Reload(g) + TIMER_OFFSET))
                   ELSE since \div (Reload(g) + TIMER_OFFSET)
<1> DEFINE P == Period(g)
<1>0. TIMER_OFFSET = 1 /\ TIMER_FAST_X2_PER_LINE = 456
  BY DEF TIMER_OFFSET, TIMER_FAST_X2_PER_LINE
<1>1. P = Reload(g) + TIMER_OFFSET /\ P \in Nat \ {0}
  BY <1>0, ReloadType DEF Period
<1> HIDE DEF P
<1>2. CASE Reload(g) = 0
  BY <1>2 DEF TimerLeft
<1>3. CASE Reload(g) # 0 /\ TINS(g)
  <2> DEFINE Q == 2 * P
             a == 456 * since
             D == Q * (expired + 1)
             E == Q * expired
             m == Q - g.timer_left_x2
  <2>1. Q \in Nat \ {0} /\ a \in Int
    BY <1>1
  <2>2. g.timer_left_x2 \in 1 .. Q /\ g.timer_left_x2 = D - a
    BY <1>0, <1>3 DEF TimerLeft, P
  <2> HIDE DEF Q
  <2>3. D = E + Q /\ E \in Int /\ D \in Int
    BY <2>1
  <2> HIDE DEF D, E, a
  <2>4. a = E + m /\ m \in 0 .. Q - 1
    BY <2>1, <2>2, <2>3
  <2> HIDE DEF m
  <2>5. a \div Q = expired
    BY <2>1, <2>4, DivUnique DEF E
  <2> QED
    BY <1>0, <1>1, <1>3, <2>5 DEF a, Q
<1>4. CASE Reload(g) # 0 /\ ~TINS(g)
  <2> DEFINE D == P * (expired + 1)
             E == P * expired
             m == P - g.timer_counter
  <2>2. g.timer_counter \in 1 .. P /\ g.timer_counter = D - since
    BY <1>4 DEF TimerLeft, P
  <2>3. D = E + P /\ E \in Int /\ D \in Int
    BY <1>1
  <2> HIDE DEF D, E
  <2>4. since = E + m /\ m \in 0 .. P - 1
    BY <1>1, <2>2, <2>3
  <2> HIDE DEF m
  <2>5. since \div P = expired
    BY <1>1, <2>4, DivUnique DEF E
  <2> QED
    BY <1>0, <1>1, <1>4, <2>5
<1> QED
  BY <1>2, <1>3, <1>4

\* What arms it starts it.
LEMMA ArmedLeft ==
  ASSUME NEW g, NEW h, TimerType(g), Armed(g, h)
  PROVE  TimerType(h) /\ TimerLeft(h, 0, 0)
<1> DEFINE R == Reload(h)
<1>0. TIMER_OFFSET = 1 /\ TIMER_FAST_X2_PER_LINE = 456
  BY DEF TIMER_OFFSET, TIMER_FAST_X2_PER_LINE
<1>1. R \in Nat
  BY ReloadType
<1>2. /\ h.timer_fires = g.timer_fires /\ h.timer_left_x2 = 2 * h.timer_counter
      /\ h.timer_counter = IF R = 0 THEN 0 ELSE R + 1
  BY <1>0 DEF Armed
<1>3. Period(h) = R + 1
  BY <1>0 DEF Period
<1> HIDE DEF R
<1>4. TimerType(h)
  BY <1>1, <1>2 DEF TimerType
<1>5. R = 0 => TimerLeft(h, 0, 0)
  BY <1>2 DEF TimerLeft, R
<1>6. R # 0 => TimerLeft(h, 0, 0)
  <2> SUFFICES ASSUME R # 0 PROVE TimerLeft(h, 0, 0)
    OBVIOUS
  <2>1. h.timer_counter = R + 1 /\ h.timer_left_x2 = 2 * (R + 1) /\ R + 1 \in Nat
    BY <1>1, <1>2
  <2>2. (2 * (R + 1)) * (0 + 1) - 456 * 0 = 2 * (R + 1) /\ (R + 1) * (0 + 1) - 0 = R + 1
    BY <2>1
  <2>3. h.timer_left_x2 \in 1 .. 2 * (R + 1) /\ h.timer_counter \in 1 .. R + 1
    BY <1>1, <2>1
  <2> QED
    BY <1>0, <1>3, <2>1, <2>2, <2>3 DEF TimerLeft, R
<1> QED
  BY <1>4, <1>5, <1>6

\* The time left is the same in a timer that is.
LEMMA StillLeft ==
  ASSUME NEW g, NEW h, SameTimer(g, h), TimerType(g)
  PROVE  /\ TimerType(h)
         /\ \A since, expired : TimerLeft(g, since, expired) => TimerLeft(h, since, expired)
<1>1. Period(h) = Period(g) /\ Reload(h) = Reload(g)
  BY DEF SameTimer, Period
<1> QED
  BY <1>1 DEF SameTimer, TimerType, TimerLeft

-----------------------------------------------------------------------------
(* A line of the CoCo 3.                                                    *)

BeamFields == {"active_area", "row", "B", "lcount"} \cup InterruptFields

\* What the line recomputes of the video is what it already was.
LEMMA VideoAlready ==
  ASSUME NEW g, Consistent(g)
  PROVE  /\ [g.video EXCEPT !.row_stride = row_stride(g)] = g.video
         /\ [g.video EXCEPT !.border_colour = border_colour(g)] = g.video
         /\ [g.video EXCEPT !.lAA = lAA(g)] = g.video
         /\ [g.video EXCEPT !.lTB = lTB(g)] = g.video
<1> DEFINE a == BPR(g)
           b == IF COCO(g) THEN IF HalfWidth(g) THEN 0 ELSE 1
                  ELSE IF BP(g) THEN HRES(g) \div 2 ELSE IF HRES(g) >= 4 THEN 2 ELSE 1
           c == lTB(g)
           d == lAA(g)
           e == row_stride(g)
           f == border_colour(g)
           m == IF ~COCO(g) THEN LPR_rowmask[LPR(g) + 1]
               ELSE IF GnA(g) THEN SAM_V_rowmask[SAM_V(g) + 1] ELSE VSC_rowmask[VSC(g) + 1]
<1>1. g.video = [BPR |-> a, resolution |-> b, lTB |-> c, lAA |-> d, row_stride |-> e, border_colour |-> f,
                 rowmask |-> m]
  BY Zenon DEF Consistent, UpToDate, Geometry
<1> HIDE DEF a, b, c, d, e, f, m
<1>2. /\ [g.video EXCEPT !.row_stride = e] = g.video /\ [g.video EXCEPT !.border_colour = f] = g.video
      /\ [g.video EXCEPT !.lAA = d] = g.video /\ [g.video EXCEPT !.lTB = c] = g.video
  BY <1>1
<1> QED
  BY <1>2 DEF c, d, e, f

\* The steps of a line, each keeping the GIME consistent and the timer alone.
LEMMA BeamConsistent ==
  ASSUME NEW g, NEW h, Consistent(g), Touches(g, h, BeamFields)
  PROVE  Consistent(h) /\ SameTimer(g, h)
<1>1. Consistent(h)
  BY UntouchedConsistent DEF BeamFields, InterruptFields, MapFields
<1>2. SameTimer(g, h)
  BY ConsistentFields, TimerUntouched DEF BeamFields, InterruptFields
<1> QED
  BY <1>1, <1>2

\* Two steps of the beam.
LEMMA BeamTwice ==
  ASSUME NEW g, NEW h, NEW i, Touches(g, h, BeamFields), Touches(h, i, BeamFields)
  PROVE  Touches(g, i, BeamFields)
  BY DEF Touches

\* Entering the active area moves the beam only,
LEMMA EnteredBeam ==
  ASSUME NEW g, DOMAIN g = GimeFields
  PROVE  Touches(g, Entered(g), BeamFields)
<1> DEFINE r == IF COCO(g) \/ RowFull(VSC(g), g.video.rowmask) THEN 0 ELSE VSC(g)
           h == [g EXCEPT !.active_area = TRUE, !.row = r]
<1>1. Entered(g) = IF ~g.active_area /\ g.lcount = g.video.lTB THEN h ELSE g
  BY Zenon DEF Entered, EnterActive
<1> HIDE DEF r
<1>2. Touches(g, h, BeamFields) /\ Touches(g, g, BeamFields)
  BY FieldsAre DEF Touches, BeamFields
<1> QED
  BY <1>1, <1>2

\* and leaving it,
LEMMA LeftBeam ==
  ASSUME NEW g, DOMAIN g = GimeFields
  PROVE  Touches(g, LeftActive(g), BeamFields)
<1> DEFINE h == [g EXCEPT !.active_area = FALSE]
           i == set_interrupt(h, {VBORD})
<1>1. LeftActive(g) = IF g.active_area /\ PastActive(g) THEN i ELSE g
  BY Zenon DEF LeftActive, LeaveActive
<1>2. Touches(g, h, BeamFields) /\ Touches(g, g, BeamFields)
  BY FieldsAre DEF Touches, BeamFields
<1> HIDE DEF h
<1>3. DOMAIN h = GimeFields
  BY <1>2 DEF Touches
<1>4. Touches(h, i, BeamFields)
  BY <1>3, InterruptTouches, TouchesMore DEF BeamFields
<1> QED
  BY <1>1, <1>2, <1>4, BeamTwice

\* and drawing a line.
LEMMA DrawnBeam ==
  ASSUME NEW g, Consistent(g)
  PROVE  Touches(g, DrawnLine(g), BeamFields)
<1> DEFINE row == (g.row + 1) % 16
           full == RowFull(row, g.video.rowmask)
           next == IF full THEN 0 ELSE row
           start == IF full /\ (COCO(g) \/ LPR(g) # 7) THEN g.B + row_stride(g) ELSE g.B
           stride == row_stride(g)
           colour == border_colour(g)
           a == [g EXCEPT !.row = next, !.video.row_stride = stride, !.B = start]
           e == IF g.active_area THEN a ELSE g
           count == e.lcount + 1
           w == [e EXCEPT !.video.border_colour = colour, !.lcount = count]
<1>0. DOMAIN g = GimeFields
  BY ConsistentFields
<1>1. DrawnLine(g) = w
  BY DEF DrawnLine, AdvanceRow
<1>2. [g.video EXCEPT !.row_stride = stride] = g.video /\ [g.video EXCEPT !.border_colour = colour] = g.video
  BY VideoAlready
<1> HIDE DEF next, start, stride, colour
<1>3. Touches(g, a, BeamFields)
  BY <1>0, <1>2, FieldsAre DEF Touches, BeamFields
<1> HIDE DEF a
<1>4. Touches(g, e, BeamFields)
  BY <1>3 DEF Touches
<1> HIDE DEF e, count
<1>5. DOMAIN e = GimeFields /\ e.video = g.video
  BY <1>0, <1>4, FieldsAre DEF Touches, BeamFields, InterruptFields
<1>6. Touches(e, w, BeamFields)
  BY <1>2, <1>5, FieldsAre DEF Touches, BeamFields
<1> QED
  BY <1>1, <1>4, <1>6, BeamTwice

\* So a line keeps the GIME consistent and its timer alone,
LEMMA LineBeam ==
  ASSUME NEW g, Consistent(g)
  PROVE  Consistent(VerticalLine(g)) /\ SameTimer(g, VerticalLine(g))
<1> DEFINE a == Entered(g)
           b == LeftActive(a)
           d == DrawnLine(b)
<1>1. VerticalLine(g) = d
  BY Zenon DEF VerticalLine
<1>2. Touches(g, a, BeamFields)
  BY ConsistentFields, EnteredBeam
<1> HIDE DEF a
<1>3. Consistent(a)
  BY <1>2, BeamConsistent
<1>4. Touches(a, b, BeamFields)
  BY <1>3, ConsistentFields, LeftBeam
<1> HIDE DEF b
<1>5. Consistent(b)
  BY <1>3, <1>4, BeamConsistent
<1>6. Touches(b, d, BeamFields)
  BY <1>5, DrawnBeam
<1> HIDE DEF d
<1>7. Touches(g, d, BeamFields)
  BY <1>2, <1>4, <1>6, BeamTwice
<1> QED
  BY <1>1, <1>7, BeamConsistent

\* and so does the end of the vertical blanking.
LEMMA BlankBeam ==
  ASSUME NEW g, Consistent(g)
  PROVE  Consistent(EndOfBlanking(g)) /\ SameTimer(g, EndOfBlanking(g))
<1> DEFINE start == StartAddress(g)
           h == [g EXCEPT !.B = start, !.lcount = 0, !.active_area = FALSE]
<1>1. EndOfBlanking(g) = h
  BY Zenon DEF EndOfBlanking
<1> HIDE DEF start
<1>2. Touches(g, h, BeamFields)
  BY ConsistentFields, FieldsAre DEF Touches, BeamFields
<1> QED
  BY <1>1, <1>2, BeamConsistent

-----------------------------------------------------------------------------
(* The machine around them.                                                 *)

\* What the board is made of, whichever machine it is; and that it stays so.
Board(c) ==
  /\ DOMAIN c = MachineFields /\ c.ram_pages \in Nat \ {0} /\ Heard(c.sound, c.pia0, c.pia1)
  /\ DOMAIN c.sam = DOMAIN sam6883_reset
\* The fields of c that d may differ in; its PIAs' pins and its sound are as they were.
Quiet(c, d, F) ==
  /\ DOMAIN d = MachineFields /\ \A f \in MachineFields \ (F \cup {"pia0", "pia1"}) : d[f] = c[f]
  /\ SamePins(c.pia0, d.pia0) /\ SamePins(c.pia1, d.pia1)

\* A quiet step keeps the board's invariant.
LEMMA QuietBoard ==
  ASSUME NEW c, NEW d, NEW F, Board(c), Quiet(c, d, F), F \cap {"sound", "ram_pages", "sam"} = {}
  PROVE  Board(d)
<1>1. d.sound = c.sound /\ d.ram_pages = c.ram_pages /\ d.sam = c.sam /\ DOMAIN d = MachineFields
  BY DEF Quiet, MachineFields
<1> QED
  BY <1>1, StillHeard DEF Board, Quiet

\* Two quiet steps.
LEMMA QuietBoth ==
  ASSUME NEW c, NEW d, NEW e, NEW F, NEW G, Quiet(c, d, F), Quiet(d, e, G)
  PROVE  Quiet(c, e, F \cup G)
<1>1. SamePins(c.pia0, e.pia0) /\ SamePins(c.pia1, e.pia1)
  BY SamePinsTwice DEF Quiet
<1> QED
  BY <1>1 DEF Quiet

\* Nothing happening is quiet.
LEMMA QuietItself ==
  ASSUME NEW c, Board(c), NEW F
  PROVE  Quiet(c, c, F)
  BY ItsOwnPins DEF Quiet, Board, Heard

\* A PIA replaced by one with the same pins, and fields of F by anything.
LEMMA QuietPia ==
  ASSUME NEW c, Board(c), NEW p
  PROVE  /\ SamePins(c.pia0, p) => Quiet(c, [c EXCEPT !.pia0 = p], {})
         /\ SamePins(c.pia1, p) => Quiet(c, [c EXCEPT !.pia1 = p], {})
<1>1. SamePins(c.pia0, c.pia0) /\ SamePins(c.pia1, c.pia1)
  BY ItsOwnPins DEF Board, Heard
<1>2. DOMAIN c = MachineFields
  BY DEF Board
<1> QED
  BY <1>1, <1>2 DEF Quiet, MachineFields

\* The horizontal sync of a line: the timer ticks, CA1 of PIA 0 falls and rises.
LEMMA SyncLine ==
  ASSUME NEW c, Board(c)
  PROVE  Quiet(c, Sync(c), {"g", "irq", "firq"}) /\ Sync(c).g = tcc1014_tick_scanline(c.g)
<1> DEFINE p == c1_transition(c.pia0, "a", FALSE)
           pia == c1_transition(p, "a", TRUE)
           tick == tcc1014_tick_scanline(c.g)
           d == [c EXCEPT !.g = tick, !.pia0 = pia]
           irq == AnyIrq(d.pia0) \/ d.g.IRQ # {}
           firq == AnyIrq(d.pia1) \/ d.g.FIRQ # {} \/ ("acia" \in d.fitted /\ d.acia_irq)
           s == [d EXCEPT !.irq = irq, !.firq = firq]
<1>1. Sync(c) = s
  BY DEF Sync, RouteInterrupts
<1>2. SamePins(c.pia0, pia)
  <2>1. SamePins(c.pia0, p)
    BY EdgePins DEF Board, Heard
  <2> HIDE DEF p
  <2>2. SamePins(p, pia)
    BY <2>1, EdgePins DEF SamePins
  <2> QED
    BY <2>1, <2>2, SamePinsTwice
<1>3. SamePins(c.pia1, c.pia1) /\ DOMAIN c = MachineFields
  BY ItsOwnPins DEF Board, Heard
<1> HIDE DEF pia, tick
<1>4. DOMAIN d = MachineFields /\ d.g = tick /\ d.pia0 = pia /\ \A f \in MachineFields \ {"g", "pia0"} : d[f] = c[f]
  BY <1>3 DEF MachineFields
<1> HIDE DEF d, irq, firq
<1>5. DOMAIN s = MachineFields /\ \A f \in MachineFields \ {"irq", "firq"} : s[f] = d[f]
  BY <1>4 DEF MachineFields
<1> HIDE DEF s
<1>6. s.g = tick /\ s.pia0 = pia /\ s.pia1 = c.pia1
  BY <1>4, <1>5 DEF MachineFields
<1>7. \A f \in MachineFields \ {"g", "irq", "firq", "pia0", "pia1"} : s[f] = c[f]
  BY <1>4, <1>5
<1>8. Quiet(c, s, {"g", "irq", "firq"})
  BY <1>2, <1>3, <1>5, <1>6, <1>7 DEF Quiet
<1> QED
  BY <1>1, <1>6, <1>8 DEF tick

\* The vertical part of a line.
LEMMA VerticalPart ==
  ASSUME NEW c, Board(c), Consistent(c.g)
  PROVE  Quiet(c, Vertical(c), {"g"}) /\ Consistent(Vertical(c).g) /\ SameTimer(c.g, Vertical(c).g)
<1> DEFINE down == c1_transition(c.pia0, "b", FALSE)
           up == c1_transition(c.pia0, "b", TRUE)
           a == lAA(c.g)
           b == IF COCO(c.g) THEN lTB(c.g) ELSE c.g.video.lTB
           first == VerticalLine(EndOfBlanking(c.g))
           next == VerticalLine(c.g)
           v0 == [c EXCEPT !.pia0 = down, !.g.video.lAA = a, !.g.video.lTB = b]
           v4 == [c EXCEPT !.pia0 = up]
           v7 == [c EXCEPT !.g = first]
           v8 == [c EXCEPT !.g = next]
           v == Vertical(c)
<1>1. v = CASE c.scanline = 0 -> v0 [] c.scanline = 4 -> v4 [] c.scanline = 7 -> v7 [] c.scanline > 7 -> v8
            [] OTHER -> c
  BY DEF Vertical
<1>2. SamePins(c.pia0, down) /\ SamePins(c.pia0, up) /\ SamePins(c.pia0, c.pia0) /\ SamePins(c.pia1, c.pia1)
  BY EdgePins, ItsOwnPins DEF Board, Heard
<1>3. DOMAIN c = MachineFields /\ DOMAIN c.g = GimeFields
  BY ConsistentFields DEF Board
<1>4. SameTimer(c.g, c.g)
  BY DEF SameTimer
<1>5. Consistent(first) /\ SameTimer(c.g, first)
  <2>1. Consistent(EndOfBlanking(c.g)) /\ SameTimer(c.g, EndOfBlanking(c.g))
    BY BlankBeam
  <2>2. Consistent(first) /\ SameTimer(EndOfBlanking(c.g), first)
    BY <2>1, LineBeam
  <2> QED
    BY <2>1, <2>2 DEF SameTimer
<1>6. Consistent(next) /\ SameTimer(c.g, next)
  BY LineBeam
<1>7. [[c.g.video EXCEPT !.lAA = a] EXCEPT !.lTB = b] = c.g.video
  <2>1. [c.g.video EXCEPT !.lAA = a] = c.g.video
    BY VideoAlready
  <2>2. [c.g.video EXCEPT !.lTB = b] = c.g.video
    <3>1. CASE COCO(c.g)
      BY <3>1, VideoAlready
    <3>2. CASE ~COCO(c.g)
      <4>1. b = c.g.video.lTB
        BY <3>2
      <4>2. DOMAIN c.g.video = DOMAIN Geometry(c.g) /\ c.g.video = Geometry(c.g)
        BY DEF Consistent, UpToDate
      <4> HIDE DEF b
      <4> QED
        BY <4>1, <4>2 DEF Geometry
    <3> QED
      BY <3>1, <3>2
  <2> HIDE DEF a, b
  <2> QED
    BY <2>1, <2>2
<1> HIDE DEF down, up, a, b, first, next
<1>8. Quiet(c, v0, {"g"}) /\ Consistent(v0.g) /\ SameTimer(c.g, v0.g)
  <2> DEFINE e == [[c.g.video EXCEPT !.lAA = a] EXCEPT !.lTB = b]
  <2>1. v0.g = [c.g EXCEPT !.video = e]
    BY <1>3, FieldsAre DEF MachineFields
  <2>2. Consistent(v0.g) /\ SameTimer(c.g, v0.g)
    <3>1. e = c.g.video
      BY <1>7
    <3> HIDE DEF e, v0
    <3>2. Touches(c.g, v0.g, BeamFields)
      BY <1>3, <2>1, <3>1, FieldsAre DEF Touches
    <3> QED
      BY <3>2, BeamConsistent
  <2>3. DOMAIN v0 = MachineFields /\ v0.pia0 = down /\ \A f \in MachineFields \ {"g", "pia0"} : v0[f] = c[f]
    BY <1>3 DEF MachineFields
  <2> HIDE DEF v0
  <2>4. v0.pia1 = c.pia1
    BY <2>3 DEF MachineFields
  <2> QED
    BY <1>2, <2>2, <2>3, <2>4 DEF Quiet
<1>9. Quiet(c, v4, {"g"}) /\ v4.g = c.g
  BY <1>2, <1>3 DEF Quiet, MachineFields
<1>10. Quiet(c, v7, {"g"}) /\ v7.g = first
  BY <1>2, <1>3 DEF Quiet, MachineFields
<1>11. Quiet(c, v8, {"g"}) /\ v8.g = next
  BY <1>2, <1>3 DEF Quiet, MachineFields
<1>12. Quiet(c, c, {"g"})
  BY QuietItself
<1> HIDE DEF v0, v4, v7, v8
<1>13. v = v0 \/ v = v4 \/ v = v7 \/ v = v8 \/ v = c
  <2> HIDE DEF v
  <2>1. CASE c.scanline = 0
    BY <1>1, <2>1
  <2>2. CASE c.scanline = 4
    BY <1>1, <2>2
  <2>3. CASE c.scanline = 7
    BY <1>1, <2>3
  <2>4. CASE c.scanline \notin {0, 4, 7} /\ c.scanline > 7
    BY <1>1, <2>4
  <2>5. CASE c.scanline \notin {0, 4, 7} /\ ~(c.scanline > 7)
    BY <1>1, <2>5
  <2> QED
    BY <2>1, <2>2, <2>3, <2>4, <2>5
<1> QED
  BY <1>4, <1>5, <1>6, <1>8, <1>9, <1>10, <1>11, <1>12, <1>13

\* A whole line.
LEMMA Scanline3 ==
  ASSUME NEW c, Board(c), Consistent(c.g), TimerType(c.g)
  PROVE  LET r == machine_run_scanline_coco3(c)
         IN /\ Quiet(c, r, {"g", "irq", "firq", "scanline"})
            /\ Consistent(r.g) /\ SameTimer(tcc1014_tick_scanline(c.g), r.g)
<1> DEFINE s == Sync(c)
           v == Vertical(s)
           h == set_interrupt(v.g, {HBORD})
           n == v.scanline + 1
           r == [v EXCEPT !.g = h, !.scanline = n]
<1>1. machine_run_scanline_coco3(c) = r
  BY Zenon DEF machine_run_scanline_coco3
<1>2. Quiet(c, s, {"g", "irq", "firq"}) /\ s.g = tcc1014_tick_scanline(c.g)
  BY SyncLine
<1> HIDE DEF s
<1>3. Touches(c.g, s.g, TickFields)
  BY <1>2, ConsistentFields, Ticked
<1>4. Consistent(s.g)
  BY <1>3, UntouchedConsistent DEF TickFields, InterruptFields, TimerFields, MapFields
<1>5. Board(s)
  BY <1>2, QuietBoard
<1>6. Quiet(s, v, {"g"}) /\ Consistent(v.g) /\ SameTimer(s.g, v.g)
  BY <1>4, <1>5, VerticalPart
<1> HIDE DEF v
<1>7. Touches(v.g, h, InterruptFields)
  BY <1>6, ConsistentFields, InterruptTouches
<1>8. Consistent(h) /\ SameTimer(v.g, h)
  BY <1>6, <1>7, InterruptConsistent
<1> HIDE DEF h, n
<1>9. Board(v) /\ DOMAIN v = MachineFields
  <2>1. Board(v)
    BY <1>5, <1>6, QuietBoard
  <2> QED
    BY <2>1 DEF Board
<1>10. SamePins(v.pia0, v.pia0) /\ SamePins(v.pia1, v.pia1)
  BY <1>9, ItsOwnPins DEF Board, Heard
<1>11. Quiet(v, r, {"g", "scanline"}) /\ r.g = h
  BY <1>9, <1>10 DEF Quiet, MachineFields
<1> HIDE DEF r
<1>12. Quiet(c, v, {"g", "irq", "firq"} \cup {"g"})
  BY <1>2, <1>6, QuietBoth
<1>13. Quiet(c, r, ({"g", "irq", "firq"} \cup {"g"}) \cup {"g", "scanline"})
  BY <1>11, <1>12, QuietBoth
<1>14. ({"g", "irq", "firq"} \cup {"g"}) \cup {"g", "scanline"} = {"g", "irq", "firq", "scanline"}
  OBVIOUS
<1>15. SameTimer(s.g, r.g)
  BY <1>6, <1>8, <1>11 DEF SameTimer
<1> QED
  BY <1>1, <1>2, <1>8, <1>11, <1>13, <1>14, <1>15

-----------------------------------------------------------------------------
(* The CPU's accesses on the CoCo 3.                                        *)

IsPia(w) == w[1] \in {"pia0", "pia1"}

\* An address is 16 bits wide.
LEMMA AddressIs ==
  ASSUME NEW addr \in Address
  PROVE  addr \in Nat /\ addr < 65536
<1>1. LAST_ADDRESS \in Int /\ LAST_ADDRESS < 65536
  BY DEF LAST_ADDRESS
<1> QED
  BY <1>1 DEF Address

\* The chains name a PIA with a register of it.
LEMMA ChainsNamePia ==
  ASSUME NEW c, NEW addr \in Address
  PROVE  /\ IsPia(ReadChain(c, addr)) => ReadChain(c, addr)[2] \in 0 .. 3
         /\ IsPia(WriteChain(c, addr)) => WriteChain(c, addr)[2] \in 0 .. 3
<1> DEFINE d == tcc1014_decode(c.g, addr)
           low == addr % 4
           which == IF (addr \div 32) % 2 = 0 THEN "pia0" ELSE "pia1"
           page == Ram(d.page, addr)
           cart == Cartridge(c, addr)
           rom == Rom(addr)
<1>1. low \in 0 .. 3
  <2>1. addr \in Int /\ 4 \in Nat \ {0}
    BY AddressIs
  <2>2. addr % 4 \in 0 .. 4-1
    BY <2>1, ModRange
  <2> QED
    BY <2>2
<1>2. which \in {"pia0", "pia1"} /\ page[1] = "ram" /\ rom[1] = "rom"
  BY DEF Ram, Rom
<1>3. cart[1] \in {"cart", "rom"}
  BY DEF Cartridge, Rom
<1>4. \/ ReadChain(c, addr) = <<"acia", low>> \/ ReadChain(c, addr) = <<"ssc", addr>>
      \/ ReadChain(c, addr) = <<"vhd", addr>> \/ ReadChain(c, addr) = <<"gime", addr>>
      \/ ReadChain(c, addr) = page \/ ReadChain(c, addr) = rom \/ ReadChain(c, addr) = cart
      \/ ReadChain(c, addr) = <<which, low>> \/ ReadChain(c, addr) = <<"becker", addr>>
      \/ ReadChain(c, addr) = <<"fdc", addr>> \/ ReadChain(c, addr) = <<"none">>
  <2> DEFINE device ==
               CASE d.S = 0 -> rom [] d.S = 1 -> cart [] d.S = 2 -> <<which, low>>
                 [] d.S = 6 -> IF IsBecker(c, addr) THEN <<"becker", addr>> ELSE <<"fdc", addr>>
                 [] OTHER -> Nothing
             other == IF d.reg THEN <<"gime", addr>> ELSE IF d.RAS THEN page ELSE device
  <2>1. ReadChain(c, addr) = CASE IsAcia(c, addr) -> <<"acia", low>> [] IsSsc(c, addr) -> <<"ssc", addr>>
                               [] IsVhd(c, addr) -> <<"vhd", addr>> [] OTHER -> other
    BY DEF ReadChain
  <2>2. \/ device = rom \/ device = cart \/ device = <<which, low>> \/ device = <<"becker", addr>>
        \/ device = <<"fdc", addr>> \/ device = <<"none">>
    <3> HIDE DEF rom, cart, which, low, d
    <3>1. CASE d.S = 0
      BY <3>1
    <3>2. CASE d.S = 1
      BY <3>2
    <3>3. CASE d.S = 2
      BY <3>3
    <3>4. CASE d.S = 6
      BY <3>4
    <3>5. CASE d.S \notin {0, 1, 2, 6}
      BY <3>5 DEF Nothing
    <3> QED
      BY <3>1, <3>2, <3>3, <3>4, <3>5
  <2> HIDE DEF device
  <2>3. other = <<"gime", addr>> \/ other = page \/ other = device
    OBVIOUS
  <2> HIDE DEF other, page, low
  <2>4. ReadChain(c, addr) = <<"acia", low>> \/ ReadChain(c, addr) = <<"ssc", addr>>
        \/ ReadChain(c, addr) = <<"vhd", addr>> \/ ReadChain(c, addr) = other
    <3>1. ~(IsAcia(c, addr) /\ IsSsc(c, addr)) /\ ~(IsAcia(c, addr) /\ IsVhd(c, addr))
          /\ ~(IsSsc(c, addr) /\ IsVhd(c, addr))
      BY DEF IsAcia, IsSsc, IsVhd
    <3>2. CASE IsAcia(c, addr)
      BY <2>1, <3>1, <3>2
    <3>3. CASE IsSsc(c, addr)
      BY <2>1, <3>1, <3>3
    <3>4. CASE IsVhd(c, addr)
      BY <2>1, <3>1, <3>4
    <3>5. CASE ~IsAcia(c, addr) /\ ~IsSsc(c, addr) /\ ~IsVhd(c, addr)
      BY <2>1, <3>5
    <3> QED
      BY <3>2, <3>3, <3>4, <3>5
  <2> HIDE DEF which, rom, cart
  <2> QED
    BY <2>2, <2>3, <2>4
<1>5. \/ WriteChain(c, addr) = <<"acia", low>> \/ WriteChain(c, addr) = <<"ssc", addr>>
      \/ WriteChain(c, addr) = <<"orch90", addr>> \/ WriteChain(c, addr) = <<"bank", addr>>
      \/ WriteChain(c, addr) = <<"vhd", addr>> \/ WriteChain(c, addr) = <<"gime", addr>>
      \/ WriteChain(c, addr) = page
      \/ WriteChain(c, addr) = <<which, low>> \/ WriteChain(c, addr) = <<"becker", addr>>
      \/ WriteChain(c, addr) = <<"fdc", addr>> \/ WriteChain(c, addr) = <<"none">>
  <2> DEFINE port == IF IsBecker(c, addr) THEN <<"becker", addr>>
                     ELSE IF "banked" \in c.fitted THEN <<"bank", addr>> ELSE <<"fdc", addr>>
             device == CASE d.S = 2 -> <<which, low>> [] d.S = 6 -> port [] OTHER -> Nothing
             other == IF d.reg THEN <<"gime", addr>> ELSE IF d.RAS THEN page ELSE device
  <2>1. WriteChain(c, addr) = CASE IsAcia(c, addr) -> <<"acia", low>> [] IsOrch90(c, addr) -> <<"orch90", addr>>
                                [] IsSsc(c, addr) -> <<"ssc", addr>>
                                [] IsVhd(c, addr) -> <<"vhd", addr>> [] OTHER -> other
    BY DEF WriteChain
  <2>2. \/ device = <<which, low>> \/ device = <<"becker", addr>> \/ device = <<"bank", addr>>
        \/ device = <<"fdc", addr>> \/ device = <<"none">>
    <3>0. port = <<"becker", addr>> \/ port = <<"bank", addr>> \/ port = <<"fdc", addr>>
      OBVIOUS
    <3> HIDE DEF which, low, d, port
    <3>1. CASE d.S = 2
      BY <3>1
    <3>2. CASE d.S = 6
      BY <3>0, <3>2
    <3>3. CASE d.S \notin {2, 6}
      BY <3>3 DEF Nothing
    <3> QED
      BY <3>1, <3>2, <3>3
  <2> HIDE DEF device
  <2>3. other = <<"gime", addr>> \/ other = page \/ other = device
    OBVIOUS
  <2> HIDE DEF other, page, low
  <2>4. WriteChain(c, addr) = <<"acia", low>> \/ WriteChain(c, addr) = <<"ssc", addr>>
        \/ WriteChain(c, addr) = <<"orch90", addr>>
        \/ WriteChain(c, addr) = <<"vhd", addr>> \/ WriteChain(c, addr) = other
    <3>1. ~(IsAcia(c, addr) /\ IsSsc(c, addr)) /\ ~(IsAcia(c, addr) /\ IsVhd(c, addr))
          /\ ~(IsSsc(c, addr) /\ IsVhd(c, addr)) /\ ~(IsOrch90(c, addr) /\ IsAcia(c, addr))
          /\ ~(IsOrch90(c, addr) /\ IsSsc(c, addr)) /\ ~(IsOrch90(c, addr) /\ IsVhd(c, addr))
      BY DEF IsAcia, IsSsc, IsVhd, IsOrch90
    <3>2. CASE IsAcia(c, addr)
      BY <2>1, <3>1, <3>2
    <3>3. CASE IsSsc(c, addr)
      BY <2>1, <3>1, <3>3
    <3>4. CASE IsVhd(c, addr)
      BY <2>1, <3>1, <3>4
    <3>5. CASE IsOrch90(c, addr)
      BY <2>1, <3>1, <3>5
    <3>6. CASE ~IsAcia(c, addr) /\ ~IsSsc(c, addr) /\ ~IsVhd(c, addr) /\ ~IsOrch90(c, addr)
      BY <2>1, <3>6
    <3> QED
      BY <3>2, <3>3, <3>4, <3>5, <3>6
  <2> HIDE DEF which
  <2> QED
    BY <2>2, <2>3, <2>4
<1> HIDE DEF d, low, which, page, cart, rom
<1> QED
  BY <1>1, <1>2, <1>3, <1>4, <1>5 DEF IsPia

\* Where an access lands.
LEMMA Lands ==
  ASSUME NEW c, NEW addr \in Address
  PROVE  LET r == machine_read_coco3(c, addr)
             w == machine_write_coco3(c, addr)
         IN /\ IsPia(r) => r[2] \in 0 .. 3
            /\ IsPia(w) => w[2] \in 0 .. 3
            /\ addr = 65425 => w = <<"gime", addr>>
            /\ addr = 65312 => w = <<"pia1", 0>>
            /\ addr = 65428 => w = WriteChain(c, addr)
<1> DEFINE bank == c.g.active_banks[addr \div 8192]
           low == Ram(bank % c.g.ram_pages, addr)
           top == Ram(63 % c.g.ram_pages, addr)
           r == machine_read_coco3(c, addr)
           w == machine_write_coco3(c, addr)
           rom == Rom(addr)
<1>1. low[1] = "ram" /\ top[1] = "ram" /\ rom[1] = "rom"
  BY DEF Ram, Rom
<1>2. r = IF addr < 65024 /\ (TY(c.g) \/ bank % 64 < 60) THEN low
          ELSE IF addr \in {65426, 65427} THEN <<"gime", addr>>
          ELSE IF addr >= 65504 THEN rom
          ELSE IF addr \in 65024 .. 65279 /\ MC3(c.g) THEN top
          ELSE ReadChain(c, addr)
  BY DEF machine_read_coco3
<1>3. w = IF addr < 65024 THEN low
          ELSE IF addr = 65312 THEN <<"pia1", 0>>
          ELSE IF addr = 65425 THEN <<"gime", addr>>
          ELSE IF addr < 65280 /\ MC3(c.g) THEN top
          ELSE WriteChain(c, addr)
  BY DEF machine_write_coco3
<1> HIDE DEF low, top, rom, bank, r, w
<1>4. r = low \/ r = <<"gime", addr>> \/ r = rom \/ r = top \/ r = ReadChain(c, addr)
  BY <1>2
<1>5. w = low \/ w = <<"pia1", 0>> \/ w = <<"gime", addr>> \/ w = top \/ w = WriteChain(c, addr)
  BY <1>3
<1>6. IsPia(r) => r[2] \in 0 .. 3
  BY <1>1, <1>4, ChainsNamePia DEF IsPia
<1>7. IsPia(w) => w[2] \in 0 .. 3
  BY <1>1, <1>5, ChainsNamePia DEF IsPia
<1>8. /\ addr = 65425 => w = <<"gime", addr>>
      /\ addr = 65312 => w = <<"pia1", 0>>
      /\ addr = 65428 => w = WriteChain(c, addr)
  BY <1>3
<1> QED
  BY <1>6, <1>7, <1>8 DEF r, w

\* Writes to the timer's high byte reach the GIME.
LEMMA TimerLands ==
  ASSUME NEW c
  PROVE  WriteChain(c, 65428) = <<"gime", 65428>>
<1>1. ~IsAcia(c, 65428) /\ ~IsOrch90(c, 65428) /\ ~IsSsc(c, 65428) /\ ~IsVhd(c, 65428)
  BY DEF IsAcia, IsOrch90, IsSsc, IsVhd
<1>2. tcc1014_decode(c.g, 65428) = Decoded(7, FALSE, 0, TRUE)
  BY DEF tcc1014_decode
<1>3. tcc1014_decode(c.g, 65428).reg = TRUE
  BY <1>2 DEF Decoded
<1> QED
  BY <1>1, <1>3 DEF WriteChain

\* Another GIME, and PIAs with the same pins.
LEMMA QuietGime ==
  ASSUME NEW c, Board(c), NEW h
  PROVE  /\ Quiet(c, [c EXCEPT !.g = h], {"g"}) /\ [c EXCEPT !.g = h].g = h
         /\ \A p : SamePins(c.pia0, p) =>
              Quiet(c, [c EXCEPT !.g = h, !.pia0 = p], {"g"}) /\ [c EXCEPT !.g = h, !.pia0 = p].g = h
<1>1. SamePins(c.pia0, c.pia0) /\ SamePins(c.pia1, c.pia1)
  BY ItsOwnPins DEF Board, Heard
<1>2. DOMAIN c = MachineFields
  BY DEF Board
<1> QED
  BY <1>1, <1>2 DEF Quiet, MachineFields

\* The keyboard scan: PIA 0's inputs, and IL1.
LEMMA KeysScanned ==
  ASSUME NEW c, Board(c), DOMAIN c.g = GimeFields, NEW held
  PROVE  LET s == ScanKeys(c, held)
         IN Quiet(c, s, {"g"}) /\ Touches(c.g, s.g, InterruptFields)
<1> DEFINE rows == Rows(c, held)
           il == IF 0 \in rows THEN {} ELSE {EI1}
           h == [c.g EXCEPT !.IL = il]
           p == [c.pia0 EXCEPT !.a.input = rows]
           s == [c EXCEPT !.g = h, !.pia0 = p]
<1>1. ScanKeys(c, held) = IF ~DataRead(c.pia0, 0) THEN c ELSE s
  BY DEF ScanKeys
<1> HIDE DEF rows, il
<1>2. SamePins(c.pia0, p)
  <2>1. p = [c.pia0 EXCEPT !["a"].input = rows]
    OBVIOUS
  <2> HIDE DEF p
  <2> QED
    BY <2>1, FlagsOnly DEF Board, Heard
<1> HIDE DEF p
<1>3. Touches(c.g, h, InterruptFields) /\ Touches(c.g, c.g, InterruptFields)
  BY FieldsAre DEF Touches, InterruptFields
<1> HIDE DEF h
<1>4. Quiet(c, s, {"g"}) /\ s.g = h
  BY <1>2, QuietGime
<1> HIDE DEF s
<1>5. Quiet(c, c, {"g"})
  BY QuietItself
<1> QED
  BY <1>1, <1>3, <1>4, <1>5

\* Two touches of the same fields
LEMMA TouchesTwice ==
  ASSUME NEW g, NEW h, NEW i, NEW F, Touches(g, h, F), Touches(h, i, F)
  PROVE  Touches(g, i, F)
  BY DEF Touches

\* What a read changes: flags of the interrupts, and inputs.
LEMMA ReadQuiet3 ==
  ASSUME NEW c, Board(c), Consistent(c.g), NEW addr \in Address, NEW held
  PROVE  LET r == AfterRead(c, addr, held)
         IN Quiet(c, r, {"g"}) /\ Touches(c.g, r.g, InterruptFields)
<1> DEFINE where == machine_read_coco3(c, addr)
           h == tcc1014_mem_read(c.g, addr)
           seen == [c EXCEPT !.g = h]
           s == IF where[2] = 0 THEN ScanKeys(seen, held) ELSE seen
           p0 == mc6821_read(s.pia0, where[2])
           p1 == mc6821_read(seen.pia1, where[2])
           r0 == [s EXCEPT !.pia0 = p0]
           r1 == [seen EXCEPT !.pia1 = p1]
           r == AfterRead(c, addr, held)
<1>1. r = CASE where[1] = "ram" \/ addr >= 65504 -> c
            [] where[1] = "pia0" -> r0
            [] where[1] = "pia1" -> r1
            [] where[1] \in {"acia", "ssc", "vhd"} -> c
            [] OTHER -> seen
  BY DEF AfterRead
<1>2. where[1] \in {"pia0", "pia1"} => where[2] \in 0 .. 3
  BY Lands DEF IsPia
<1>3. Touches(c.g, h, InterruptFields) /\ DOMAIN c.g = GimeFields
  BY ConsistentFields, GimeReadTouches
<1> HIDE DEF where, h
<1>4. Quiet(c, seen, {"g"}) /\ seen.g = h
  BY QuietGime
<1> HIDE DEF seen
<1>5. Board(seen)
  BY <1>4, QuietBoard
<1>6. DOMAIN seen.g = GimeFields
  BY <1>3, <1>4 DEF Touches
<1>7. Quiet(seen, s, {"g"}) /\ Touches(seen.g, s.g, InterruptFields)
  <2>1. Quiet(seen, seen, {"g"}) /\ Touches(seen.g, seen.g, InterruptFields)
    BY <1>5, QuietItself DEF Touches
  <2>2. Quiet(seen, ScanKeys(seen, held), {"g"}) /\ Touches(seen.g, ScanKeys(seen, held).g, InterruptFields)
    BY <1>5, <1>6, KeysScanned
  <2> QED
    BY <2>1, <2>2
<1> HIDE DEF s
<1>8. Board(s)
  BY <1>5, <1>7, QuietBoard
<1>9. where[2] \in 0 .. 3 => Quiet(s, r0, {}) /\ r0.g = s.g
  <2>1. where[2] \in 0 .. 3 => SamePins(s.pia0, p0)
    BY <1>8, ReadPins DEF Board, Heard
  <2> HIDE DEF p0
  <2>2. where[2] \in 0 .. 3 => Quiet(s, r0, {})
    BY <2>1, <1>8, QuietPia
  <2> QED
    BY <2>2 DEF Quiet, MachineFields
<1>10. where[2] \in 0 .. 3 => Quiet(seen, r1, {}) /\ r1.g = seen.g
  <2>1. where[2] \in 0 .. 3 => SamePins(seen.pia1, p1)
    BY <1>5, ReadPins DEF Board, Heard
  <2> HIDE DEF p1
  <2>2. where[2] \in 0 .. 3 => Quiet(seen, r1, {})
    BY <2>1, <1>5, QuietPia
  <2> QED
    BY <2>2 DEF Quiet, MachineFields
<1> HIDE DEF r0, r1
<1>11. Quiet(c, s, {"g"}) /\ Touches(c.g, s.g, InterruptFields)
  <2>1. Quiet(c, s, {"g"} \cup {"g"})
    BY <1>4, <1>7, QuietBoth
  <2> QED
    BY <2>1, <1>3, <1>4, <1>7, TouchesTwice DEF Quiet
<1>12. where[2] \in 0 .. 3 => Quiet(c, r0, {"g"}) /\ Touches(c.g, r0.g, InterruptFields)
  <2>1. where[2] \in 0 .. 3 => Quiet(c, r0, {"g"} \cup {})
    BY <1>9, <1>11, QuietBoth
  <2> QED
    BY <2>1, <1>9, <1>11 DEF Quiet
<1>13. where[2] \in 0 .. 3 => Quiet(c, r1, {"g"}) /\ Touches(c.g, r1.g, InterruptFields)
  <2>1. where[2] \in 0 .. 3 => Quiet(c, r1, {"g"} \cup {})
    BY <1>4, <1>10, QuietBoth
  <2> QED
    BY <2>1, <1>3, <1>4, <1>10 DEF Quiet
<1>14. Quiet(c, c, {"g"}) /\ Touches(c.g, c.g, InterruptFields)
  BY QuietItself DEF Touches
<1> HIDE DEF r
<1>15. r = c \/ (where[2] \in 0 .. 3 /\ r = r0) \/ (where[2] \in 0 .. 3 /\ r = r1) \/ r = seen
  <2>1. CASE where[1] = "ram" \/ addr >= 65504
    <3>1. where[1] = "pia0" => r = c \/ r = r0
      BY <1>1, <2>1
    <3> QED
      BY <1>1, <1>2, <2>1
  <2>2. CASE ~(where[1] = "ram" \/ addr >= 65504)
    BY <1>1, <1>2, <2>2
  <2> QED
    BY <2>1, <2>2
<1> QED
  BY <1>3, <1>4, <1>12, <1>13, <1>14, <1>15 DEF r

BusFields == {"pia0", "pia1", "sound", "orch90", "cart_bank", "g", "acia_irq"}

\* The board with other PIAs and another mixer that follows them.
LEMMA BoardKept ==
  ASSUME NEW c, NEW d, NEW F, Board(c), Touches(c, d, F), Heard(d.sound, d.pia0, d.pia1),
         F \cap {"ram_pages", "sam"} = {}
  PROVE  Board(d)
<1>1. "ram_pages" \in MachineFields /\ "sam" \in MachineFields
  BY DEF MachineFields
<1>2. d.ram_pages = c.ram_pages /\ d.sam = c.sam
  BY <1>1 DEF Touches, Board
<1> QED
  BY <1>2 DEF Touches, Board

\* A register of a PIA written, and the mixer told.
LEMMA PiaStep ==
  ASSUME NEW c, Board(c), NEW which, NEW reg \in 0 .. 3, NEW val
  PROVE  LET w == WritePia(c, which, reg, val)
         IN Board(w) /\ Touches(c, w, {"pia0", "pia1", "sound"})
<1> DEFINE p == mc6821_write(c.pia0, reg, val)
           q == mc6821_write(c.pia1, reg, val)
           c0 == [c EXCEPT !.pia0 = p]
           c1 == [c EXCEPT !.pia1 = q]
           w0 == sound_pia0_written(c0, reg)
           w1 == sound_pia1_written(c1, reg)
           w == WritePia(c, which, reg, val)
<1>1. w = IF which = "pia0" THEN w0 ELSE w1
  BY DEF WritePia
<1>2. DOMAIN c = MachineFields
  BY DEF Board
<1>3. PiaShape(c.pia0) /\ PiaShape(c.pia1) /\ Heard(c.sound, c.pia0, c.pia1)
  BY DEF Board, Heard
<1>4. Board(w0) /\ Touches(c, w0, {"pia0", "pia1", "sound"})
  <2>1. c0.pia0 = mc6821_write(c.pia0, reg, val)
    BY <1>2 DEF MachineFields
  <2> HIDE DEF p
  <2>2. Touches(c, c0, {"pia0"}) /\ DOMAIN c0 = MachineFields /\ c0.pia1 = c.pia1 /\ c0.sound = c.sound
    BY <1>2 DEF MachineFields, Touches
  <2> HIDE DEF c0
  <2>3. /\ Heard(w0.sound, c0.pia0, c0.pia1) /\ DOMAIN w0 = MachineFields
        /\ \A f \in MachineFields \ {"sound"} : w0[f] = c0[f]
    BY <1>3, <2>1, <2>2, Pia0Heard
  <2> HIDE DEF w0
  <2>4. w0.pia0 = c0.pia0 /\ w0.pia1 = c0.pia1
    BY <2>3 DEF MachineFields
  <2>5. Touches(c, w0, {"pia0", "pia1", "sound"})
    BY <2>2, <2>3, <1>2 DEF Touches
  <2> QED
    BY <2>3, <2>4, <2>5, BoardKept
<1>5. Board(w1) /\ Touches(c, w1, {"pia0", "pia1", "sound"})
  <2>1. c1.pia1 = mc6821_write(c.pia1, reg, val)
    BY <1>2 DEF MachineFields
  <2> HIDE DEF q
  <2>2. Touches(c, c1, {"pia1"}) /\ DOMAIN c1 = MachineFields /\ c1.pia0 = c.pia0 /\ c1.sound = c.sound
    BY <1>2 DEF MachineFields, Touches
  <2> HIDE DEF c1
  <2>3. /\ Heard(w1.sound, c1.pia0, c1.pia1) /\ DOMAIN w1 = MachineFields
        /\ \A f \in MachineFields \ {"sound"} : w1[f] = c1[f]
    BY <1>3, <2>1, <2>2, Pia1Heard
  <2> HIDE DEF w1
  <2>4. w1.pia0 = c1.pia0 /\ w1.pia1 = c1.pia1
    BY <2>3 DEF MachineFields
  <2>5. Touches(c, w1, {"pia0", "pia1", "sound"})
    BY <2>2, <2>3, <1>2 DEF Touches
  <2> QED
    BY <2>3, <2>4, <2>5, BoardKept
<1> HIDE DEF w, w0, w1
<1> QED
  BY <1>1, <1>4, <1>5 DEF w

\* The Orchestra-90's latches.
LEMMA Orch90Step ==
  ASSUME NEW c, Board(c), NEW addr, NEW val
  PROVE  LET w == orch90_write(c, addr, val)
         IN Board(w) /\ Touches(c, w, {"sound", "orch90"})
<1> DEFINE n == Number(val)
           i == addr % 2
           d == [c EXCEPT !.orch90[i] = n]
           level == (d.orch90[0] + d.orch90[1]) \div 2
           t == sound_set_external(c.sound, level)
           w == [d EXCEPT !.sound = t]
<1>0. DOMAIN c = MachineFields /\ Heard(c.sound, c.pia0, c.pia1)
  BY DEF Board
<1> HIDE DEF n, i
<1>1. Touches(c, d, {"orch90"}) /\ d.sound = c.sound /\ d.pia0 = c.pia0 /\ d.pia1 = c.pia1
  BY <1>0 DEF Touches, MachineFields
<1>2. orch90_write(c, addr, val) = w
  BY <1>1 DEF orch90_write, n, i
<1> HIDE DEF d, level
<1>3. Mixed(t) /\ SameMixer(c.sound, t)
  BY <1>0, LevelsSet DEF Heard
<1> HIDE DEF t
<1>4. Touches(c, w, {"sound", "orch90"}) /\ w.sound = t /\ w.pia0 = c.pia0 /\ w.pia1 = c.pia1
  BY <1>0, <1>1 DEF Touches, MachineFields
<1>5. Heard(w.sound, w.pia0, w.pia1)
  BY <1>0, <1>3, <1>4, LevelsHeard
<1> QED
  BY <1>2, <1>4, <1>5, BoardKept

\* A quiet change is a change of the PIAs and of the fields named.
LEMMA QuietTouches ==
  ASSUME NEW c, NEW d, NEW F, Board(c), Quiet(c, d, F)
  PROVE  Touches(c, d, F \cup {"pia0", "pia1"})
  BY DEF Quiet, Touches, Board

\* Where a write lands decides what it changes.
LEMMA Write3 ==
  ASSUME NEW c, Board(c), Consistent(c.g), NEW addr \in Address, NEW val
  PROVE  LET r == AfterWrite(c, addr, val)
         IN /\ Board(r) /\ Touches(c, r, BusFields) /\ Consistent(r.g) /\ r.g.timer_fires = c.g.timer_fires
            /\ addr = 65428 => Armed(c.g, r.g)
            /\ addr = 65425 => IF (5 \in val) # TINS(c.g) THEN Armed(c.g, r.g) ELSE SameTimer(c.g, r.g)
            /\ addr = 65429 => SameCount(c.g, r.g)
            /\ addr \notin {65425, 65428, 65429} => SameTimer(c.g, r.g)
            /\ \/ r.g = c.g
               \/ r.g = tcc1014_mem_write(c.g, addr, val)
               \/ addr = 65425 /\ r.g = tcc1014_write_register(c.g, 1, val)
<1> DEFINE where == machine_write_coco3(c, addr)
           h == tcc1014_mem_write(c.g, addr, val)
           i == tcc1014_write_register(c.g, 1, val)
           seen == [c EXCEPT !.g = h]
           init == [c EXCEPT !.g = i]
           orch == orch90_write(c, addr, val)
           snd == WritePia(c, "pia1", 0, val)
           pia == WritePia(seen, where[1], where[2], val)
           v == IF addr = 65344 THEN Number(val) % 2 ELSE seen.cart_bank
           bank == [seen EXCEPT !.cart_bank = v]
           r == AfterWrite(c, addr, val)
<1>1. r = CASE where[1] \in {"ram", "acia", "ssc", "vhd"} -> c
            [] where[1] = "orch90" -> orch
            [] addr = 65312 -> snd
            [] addr = 65425 -> init
            [] where[1] \in {"pia0", "pia1"} /\ addr # 65312 -> pia
            [] where[1] = "bank" -> bank
            [] OTHER -> seen
  BY DEF AfterWrite
<1>2. /\ where[1] \in {"pia0", "pia1"} => where[2] \in 0 .. 3
      /\ addr = 65425 => where = <<"gime", addr>>
      /\ addr = 65312 => where = <<"pia1", 0>>
      /\ addr = 65428 => where = <<"gime", addr>>
  BY Lands, TimerLands DEF IsPia
<1>3. DOMAIN c = MachineFields /\ Heard(c.sound, c.pia0, c.pia1)
  BY DEF Board
<1>4. /\ Consistent(h) /\ h.timer_fires = c.g.timer_fires
      /\ addr = 65428 => Armed(c.g, h)
      /\ addr = 65429 => SameCount(c.g, h)
      /\ addr \notin {65425, 65428, 65429} => SameTimer(c.g, h)
  BY GimeWritten
<1>5. /\ Consistent(i) /\ i.timer_fires = c.g.timer_fires
      /\ IF (5 \in val) # TINS(c.g) THEN Armed(c.g, i) ELSE SameTimer(c.g, i)
  BY Init1Written
<1> HIDE DEF where, h, i
<1>6. Board(seen) /\ Touches(c, seen, BusFields) /\ seen.g = h
  <2>1. Quiet(c, seen, {"g"}) /\ seen.g = h
    BY QuietGime
  <2> HIDE DEF seen
  <2> QED
    BY <2>1, QuietBoard, QuietTouches DEF BusFields, Touches
<1>7. Board(init) /\ Touches(c, init, BusFields) /\ init.g = i
  <2>1. Quiet(c, init, {"g"}) /\ init.g = i
    BY QuietGime
  <2> HIDE DEF init
  <2> QED
    BY <2>1, QuietBoard, QuietTouches DEF BusFields, Touches
<1>8. Board(bank) /\ Touches(c, bank, BusFields) /\ bank.g = h
  <2> HIDE DEF seen, v
  <2>1. DOMAIN seen = MachineFields /\ Heard(seen.sound, seen.pia0, seen.pia1)
    BY <1>6 DEF Board
  <2>2. Touches(seen, bank, {"cart_bank"}) /\ bank.g = seen.g /\ bank.sound = seen.sound
        /\ bank.pia0 = seen.pia0 /\ bank.pia1 = seen.pia1
    BY <2>1 DEF Touches, MachineFields
  <2> HIDE DEF bank
  <2>3. Heard(bank.sound, bank.pia0, bank.pia1)
    BY <2>1, <2>2
  <2>4. Board(bank)
    BY <1>6, <2>2, <2>3, BoardKept
  <2> QED
    BY <1>6, <2>2, <2>4 DEF Touches, BusFields
<1> HIDE DEF seen, init, bank
<1>9. "g" \in MachineFields
  BY DEF MachineFields
<1>10. Board(orch) /\ Touches(c, orch, BusFields) /\ orch.g = c.g
  <2>1. Board(orch) /\ Touches(c, orch, {"sound", "orch90"})
    BY Orch90Step
  <2> HIDE DEF orch
  <2> QED
    BY <1>3, <1>9, <2>1 DEF Touches, BusFields
<1>11. Board(snd) /\ Touches(c, snd, BusFields) /\ snd.g = c.g
  <2>1. Board(snd) /\ Touches(c, snd, {"pia0", "pia1", "sound"})
    BY PiaStep
  <2> HIDE DEF snd
  <2> QED
    BY <1>3, <1>9, <2>1 DEF Touches, BusFields
<1>12. where[2] \in 0 .. 3 => Board(pia) /\ Touches(c, pia, BusFields) /\ pia.g = h
  <2>1. where[2] \in 0 .. 3 => Board(pia) /\ Touches(seen, pia, {"pia0", "pia1", "sound"})
    BY <1>6, PiaStep
  <2> HIDE DEF pia
  <2> QED
    BY <1>3, <1>6, <1>9, <2>1 DEF Touches, BusFields
<1> HIDE DEF orch, snd, pia, r
<1>13. Board(c) /\ Touches(c, c, BusFields) /\ SameTimer(c.g, c.g)
  BY DEF Touches, SameTimer
<1>14. CASE addr = 65425
  <2>1. where[1] = "gime"
    BY <1>2, <1>14
  <2>2. r = init
    BY <1>1, <1>14, <2>1
  <2> QED
    BY <1>5, <1>7, <1>14, <2>2 DEF r, i
<1>15. CASE addr = 65428
  <2>1. where[1] = "gime"
    BY <1>2, <1>15
  <2>2. r = seen
    BY <1>1, <1>15, <2>1
  <2> QED
    BY <1>4, <1>6, <1>15, <2>2 DEF r, h
<1>16. CASE addr = 65312
  <2>1. where[1] = "pia1"
    BY <1>2, <1>16
  <2>2. r = snd
    BY <1>1, <1>16, <2>1
  <2> QED
    BY <1>11, <1>13, <1>16, <2>2 DEF r
<1>17. CASE addr \notin {65312, 65425, 65428}
  <2>1. r = c \/ r = orch \/ (where[2] \in 0 .. 3 /\ r = pia) \/ r = bank \/ r = seen
    BY <1>1, <1>2, <1>17
  <2>2. Board(r) /\ Touches(c, r, BusFields) /\ (r.g = c.g \/ r.g = h)
    BY <2>1, <1>6, <1>8, <1>10, <1>12, <1>13
  <2>3. /\ Consistent(r.g) /\ r.g.timer_fires = c.g.timer_fires
        /\ addr # 65429 => SameTimer(c.g, r.g)
        /\ addr = 65429 => SameCount(c.g, r.g)
    BY <2>2, <1>4, <1>13, <1>17 DEF SameCount
  <2>4. addr # 65425 /\ addr # 65428 /\ (addr \notin {65425, 65428, 65429} => addr # 65429)
    BY <1>17
  <2>5. addr \notin {65425, 65428, 65429} => SameTimer(c.g, r.g)
    BY <2>3, <2>4
  <2>6. /\ addr = 65428 => Armed(c.g, r.g)
        /\ addr = 65425 => IF (5 \in val) # TINS(c.g) THEN Armed(c.g, r.g) ELSE SameTimer(c.g, r.g)
    BY <2>4
  <2>7. addr = 65429 => SameCount(c.g, r.g)
    BY <2>3
  <2> QED
    BY <2>2, <2>3, <2>5, <2>6, <2>7 DEF r, h
<1> QED
  BY <1>14, <1>15, <1>16, <1>17

\* After a reset no pin is driven, and the mixer is silent.
LEMMA PiaReset == PiaShape(mc6821_reset)
  BY DEF PiaShape, mc6821_reset

\* After a reset the mixer is silent, as the PIAs' pins are.
LEMMA ResetHeard ==
  ASSUME NEW s
  PROVE  Heard(sound_reset(s), mc6821_reset, mc6821_reset)
<1> DEFINE p == mc6821_reset
           t == sound_reset(s)
<1>1. PiaShape(p)
  BY PiaReset
<1>2. p.a.ctrl = {} /\ p.b.ctrl = {} /\ p.a.data = {} /\ p.a.ddr = {} /\ p.b.data = {} /\ p.b.ddr = {}
  BY DEF mc6821_reset
<1>3. /\ Mixed(t) /\ t.mux_source = 0 /\ t.dac_level = 0
      /\ (t.sbs_enabled = FALSE) /\ (t.sbs_level = FALSE) /\ (t.mux_enabled = FALSE)
  BY SoundReset
<1> HIDE DEF p, t
<1>4. Field(p.a.data \cap p.a.ddr, 2, 6) = 0
  <2>1. p.a.data \cap p.a.ddr = {}
    BY <1>2
  <2>2. Field({}, 2, 6) = 0
    BY DEF Field
  <2> QED
    BY <2>1, <2>2
<1>5. t.mux_source = (IF 3 \in p.b.ctrl THEN 2 ELSE 0) + (IF 3 \in p.a.ctrl THEN 1 ELSE 0)
  BY <1>2, <1>3
<1>6. (t.mux_enabled = (3 \in p.b.ctrl)) /\ (t.sbs_enabled = (1 \in p.b.ddr)) /\ (t.sbs_level = (1 \in p.b.data))
  <2>1. (3 \in p.b.ctrl) = FALSE /\ (1 \in p.b.ddr) = FALSE /\ (1 \in p.b.data) = FALSE
    BY <1>2
  <2> QED
    BY <1>3, <2>1
<1> QED
  BY <1>1, <1>3, <1>4, <1>5, <1>6 DEF Heard, p, t

\* A machine before its first reset
Bare(c) == DOMAIN c = MachineFields /\ c.ram_pages \in Nat \ {0} /\ DOMAIN c.sam = DOMAIN sam6883_reset

\* The board's invariant without its mixer.
LEMMA BoardIsBare == ASSUME NEW c, Board(c) PROVE Bare(c)
  BY DEF Board, Bare

\* The reset of the CoCo 3.
LEMMA Reset3 ==
  ASSUME NEW c, Bare(c)
  PROVE  LET r == machine_reset_coco3(c)
         IN /\ Board(r) /\ Consistent(r.g) /\ r.g.timer_fires = c.g.timer_fires
            /\ r.g.timer_counter = 0 /\ r.g.timer_left_x2 = 0
<1> DEFINE g == tcc1014_set_ram(tcc1014_reset(c.g), c.ram_pages)
           p == mc6821_reset
           s == sound_reset(c.sound)
           r == [c EXCEPT !.g = g, !.pia0 = p, !.pia1 = p, !.sound = s, !.cart_bank = 0,
                          !.scanline = 0, !.irq = FALSE, !.firq = FALSE, !.masked = TRUE]
<1>1. machine_reset_coco3(c) = r
  BY Zenon DEF machine_reset_coco3
<1>2. Consistent(g) /\ g.timer_fires = c.g.timer_fires /\ g.timer_counter = 0 /\ g.timer_left_x2 = 0
  BY GimeReset DEF Bare
<1>3. Heard(s, p, p)
  BY ResetHeard
<1> HIDE DEF g, p, s
<1>4. /\ DOMAIN r = MachineFields /\ r.g = g /\ r.pia0 = p /\ r.pia1 = p /\ r.sound = s
      /\ r.ram_pages = c.ram_pages /\ r.sam = c.sam
  BY DEF Bare, MachineFields
<1> HIDE DEF r
<1>5. Board(r)
  BY <1>3, <1>4 DEF Board, Bare
<1> QED
  BY <1>1, <1>2, <1>4, <1>5

\* The pulse of a program cartridge, before the lines of a frame.
LEMMA Frame3 ==
  ASSUME NEW c, Board(c)
  PROVE  LET r == FrameStart(c) IN Quiet(c, r, {"scanline"}) /\ r.g = c.g
<1> DEFINE up == c1_transition(c.pia1, "b", TRUE)
           down == c1_transition(up, "b", FALSE)
           p == IF "autostart" \in c.fitted THEN down ELSE c.pia1
           r == [c EXCEPT !.scanline = 0, !.pia1 = p]
<1>1. FrameStart(c) = r
  BY Zenon DEF FrameStart
<1>2. SamePins(c.pia1, c.pia1) /\ SamePins(c.pia0, c.pia0) /\ DOMAIN c = MachineFields
  BY ItsOwnPins DEF Board, Heard
<1>3. SamePins(c.pia1, p)
  <2>1. SamePins(c.pia1, up)
    BY EdgePins DEF Board, Heard
  <2> HIDE DEF up
  <2>2. SamePins(up, down)
    BY <2>1, EdgePins DEF SamePins
  <2>3. SamePins(c.pia1, down)
    BY <2>1, <2>2, SamePinsTwice
  <2> HIDE DEF down
  <2> QED
    BY <1>2, <2>3
<1> HIDE DEF p
<1>4. /\ DOMAIN r = MachineFields /\ r.pia1 = p /\ r.g = c.g /\ r.pia0 = c.pia0
      /\ \A f \in MachineFields \ {"scanline", "pia1"} : r[f] = c[f]
  BY <1>2 DEF MachineFields
<1> HIDE DEF r
<1>5. Quiet(c, r, {"scanline"})
  BY <1>2, <1>3, <1>4 DEF Quiet
<1> QED
  BY <1>1, <1>4, <1>5

-----------------------------------------------------------------------------
(* The CoCo 2.                                                              *)

SamFields == {"reg", "vdg_address", "xcount", "ycount"}
SamStep(s, t) == DOMAIN s = SamFields => DOMAIN t = SamFields /\ t.reg = s.reg

\* The SAM's fields.
LEMMA SamFieldsAre == DOMAIN sam6883_reset = SamFields
  BY DEF sam6883_reset, SamFields

\* The address counter's steps leave the register alone.
LEMMA FsyncStep == \A s : SamStep(s, sam6883_vdg_fsync(s))
<1> SUFFICES ASSUME NEW s PROVE SamStep(s, sam6883_vdg_fsync(s))
  OBVIOUS
<1> DEFINE base == vdg_base(s)
           t == [s EXCEPT !.vdg_address = base, !.xcount = 0, !.ycount = 0]
<1>1. sam6883_vdg_fsync(s) = t
  BY Zenon DEF sam6883_vdg_fsync
<1> HIDE DEF base
<1> QED
  BY <1>1 DEF SamStep, SamFields

\* The video counter's carries leave the SAM's registers alone,
LEMMA AddStep == \A s, n : SamStep(s, vdg_address_add(s, n))
<1> SUFFICES ASSUME NEW s, NEW n PROVE SamStep(s, vdg_address_add(s, n))
  OBVIOUS
<1> DEFINE new == (s.vdg_address + n) % 65536
           x == (s.xcount + 1) % vdg_mod_xdivs[vdg_mode(s) + 1]
           y == (s.ycount + 1) % vdg_mod_ydivs[vdg_mode(s) + 1]
           back == (new - 16) % 65536
           a == IF y # 0 THEN (new - 32) % 65536 ELSE new
           four == Differ(s.vdg_address, new, 4)
           five == Differ(s.vdg_address, new, 5)
           t == vdg_address_add(s, n)
<1>1. t = IF ~four THEN [s EXCEPT !.vdg_address = new]
          ELSE IF x # 0 THEN [s EXCEPT !.vdg_address = back, !.xcount = x]
          ELSE IF ~five THEN [s EXCEPT !.vdg_address = new, !.xcount = x]
          ELSE [s EXCEPT !.vdg_address = a, !.xcount = x, !.ycount = y]
  BY DEF vdg_address_add
<1> HIDE DEF new, x, y, back, a, four, five, t
<1>2. SamStep(s, t)
  BY <1>1 DEF SamStep, SamFields
<1> QED
  BY <1>2 DEF t

\* and so do the fetches of a line,
LEMMA FetchStep == \A s, n : SamStep(s, sam6883_vdg_fetch_bytes(s, n))
<1>1. ASSUME NEW p
      PROVE  SamStep(p.sam, NextChunk(p).sam)
  <2> DEFINE n == Chunk(p.sam, p.left)
             f == FetchChunk(p.sam, n)
             q == [sam |-> f, left |-> p.left - n]
  <2>1. NextChunk(p) = IF p.left = 0 THEN p ELSE q
    BY DEF NextChunk
  <2>2. SamStep(p.sam, f)
    <3> DEFINE sum == p.sam.vdg_address + n
               e == [p.sam EXCEPT !.vdg_address = sum]
    <3>1. f = IF n < 16 - (p.sam.vdg_address % 16) THEN e ELSE vdg_address_add(p.sam, n)
      BY Zenon DEF FetchChunk
    <3> HIDE DEF sum, f
    <3>2. SamStep(p.sam, e)
      BY DEF SamStep, SamFields
    <3> HIDE DEF e
    <3>3. f = e \/ f = vdg_address_add(p.sam, n)
      BY <3>1
    <3> QED
      BY <3>2, <3>3, AddStep
  <2> HIDE DEF n, f
  <2>3. SamStep(p.sam, p.sam)
    BY DEF SamStep
  <2> QED
    BY <2>1, <2>2, <2>3
<1> SUFFICES ASSUME NEW s, NEW n PROVE SamStep(s, sam6883_vdg_fetch_bytes(s, n))
  OBVIOUS
<1> DEFINE p == [sam |-> s, left |-> n]
           a == NextChunk(p)
           b == NextChunk(a)
           d == NextChunk(b)
<1>2. sam6883_vdg_fetch_bytes(s, n) = d.sam
  BY DEF sam6883_vdg_fetch_bytes
<1>3. SamStep(p.sam, a.sam) /\ SamStep(a.sam, b.sam) /\ SamStep(b.sam, d.sam) /\ p.sam = s
  BY <1>1
<1> HIDE DEF a, b, d
<1> QED
  BY <1>2, <1>3 DEF SamStep

\* and the horizontal sync.
LEMMA HsyncStep == \A s : SamStep(s, sam6883_vdg_hsync(s))
<1> SUFFICES ASSUME NEW s PROVE SamStep(s, sam6883_vdg_hsync(s))
  OBVIOUS
<1> DEFINE t == vdg_address_add(s, vdg_mod_adds[vdg_mode(s) + 1])
           m == 2^(vdg_mod_cleared[vdg_mode(s) + 1] + 1)
           a == IF m = 2 THEN t.vdg_address
                ELSE t.vdg_address - (t.vdg_address % m) + (t.vdg_address % 2)
           u == [t EXCEPT !.vdg_address = a]
<1>1. sam6883_vdg_hsync(s) = u
  BY DEF sam6883_vdg_hsync
<1>2. SamStep(s, t)
  BY AddStep
<1> HIDE DEF a, t
<1> QED
  BY <1>1, <1>2 DEF SamStep, SamFields

\* What a line of the CoCo 2, or a read, may change.
Line2(c, d) == Quiet(c, d, {"sam", "vdg", "irq", "firq", "scanline"}) /\ SamStep(c.sam, d.sam)
\* What all but a line's own steps leave alone
SamePicture(c, d) == d.sam = c.sam /\ d.vdg = c.vdg
SameField(c, d) == SamePicture(c, d) /\ d.scanline = c.scanline
\* The VDG's settings
VdgFields == {"AG", "CSS", "GM", "vram_offset", "row_address", "fs"}
SameMode(c, d) ==
  DOMAIN c.vdg = VdgFields =>
    DOMAIN d.vdg = VdgFields /\ d.vdg.AG = c.vdg.AG /\ d.vdg.GM = c.vdg.GM /\ d.vdg.vram_offset = c.vdg.vram_offset

\* The page pointers depend on the SAM's TY and on the ROMs.
LEMMA PagedKept ==
  ASSUME NEW c, NEW d, Paged2(c), d.sam.reg = c.sam.reg, d.loaded = c.loaded, d.rd_page = c.rd_page,
         d.wr_page = c.wr_page
  PROVE  Paged2(d)
<1>1. ty(d.sam) = ty(c.sam)
  BY DEF ty
<1>2. \A i \in 0 .. 7 : ReadSlot(d, i) = ReadSlot(c, i)
  BY <1>1 DEF ReadSlot
<1> QED
  BY <1>1, <1>2 DEF Paged2

\* A step of a CoCo 2 line keeps the board, the GIME and the pages.
LEMMA Line2Keeps ==
  ASSUME NEW c, NEW d, Board(c), Line2(c, d)
  PROVE  Board(d) /\ d.g = c.g /\ (Paged2(c) => Paged2(d))
<1>1. /\ d.sound = c.sound /\ d.ram_pages = c.ram_pages /\ DOMAIN d = MachineFields /\ d.g = c.g
      /\ d.loaded = c.loaded /\ d.rd_page = c.rd_page /\ d.wr_page = c.wr_page
  BY DEF Line2, Quiet, MachineFields
<1>2. DOMAIN d.sam = DOMAIN sam6883_reset /\ d.sam.reg = c.sam.reg
  BY SamFieldsAre DEF Line2, SamStep, Board
<1>3. Board(d)
  BY <1>1, <1>2, StillHeard DEF Board, Line2, Quiet
<1>4. Paged2(c) => Paged2(d)
  BY <1>1, <1>2, PagedKept
<1> QED
  BY <1>1, <1>3, <1>4

\* Two steps of a line.
LEMMA Line2Twice ==
  ASSUME NEW c, NEW d, NEW e, Line2(c, d), Line2(d, e)
  PROVE  Line2(c, e)
<1> DEFINE F == {"sam", "vdg", "irq", "firq", "scanline"}
<1>1. Quiet(c, e, F \cup F)
  BY QuietBoth DEF Line2
<1>2. F \cup F = F
  OBVIOUS
<1>3. SamStep(c.sam, e.sam)
  BY DEF Line2, SamStep
<1> QED
  BY <1>1, <1>2, <1>3 DEF Line2

\* A step that does nothing.
LEMMA Line2Itself ==
  ASSUME NEW c, Board(c)
  PROVE  Line2(c, c)
  BY QuietItself DEF Line2, SamStep

\* One field replaced
LEMMA Line2Fields ==
  ASSUME NEW c, Board(c)
  PROVE  /\ \A t, v : SamStep(c.sam, t) => Line2(c, [c EXCEPT !.sam = t, !.vdg = v])
         /\ \A v : Line2(c, [c EXCEPT !.vdg = v])
         /\ \A t : SamStep(c.sam, t) => Line2(c, [c EXCEPT !.sam = t])
         /\ \A n : Line2(c, [c EXCEPT !.scanline = n])
         /\ \A n : Line2(c, [c EXCEPT !.firq = n]) /\ SameField(c, [c EXCEPT !.firq = n])
         /\ \A p, n : LET d == [c EXCEPT !.pia0 = p, !.irq = n]
                      IN SamePins(c.pia0, p) => Line2(c, d) /\ SameField(c, d)
         /\ \A p, n : LET d == [c EXCEPT !.pia1 = p, !.firq = n]
                      IN SamePins(c.pia1, p) => Line2(c, d) /\ SameField(c, d)
         /\ \A p : LET d == [c EXCEPT !.pia0 = p] IN SamePins(c.pia0, p) => Line2(c, d) /\ SameField(c, d)
         /\ \A p : LET d == [c EXCEPT !.pia1 = p] IN SamePins(c.pia1, p) => Line2(c, d) /\ SameField(c, d)
<1>1. SamePins(c.pia0, c.pia0) /\ SamePins(c.pia1, c.pia1) /\ DOMAIN c = MachineFields
  BY ItsOwnPins DEF Board, Heard
<1>2. SamStep(c.sam, c.sam)
  BY DEF SamStep
<1> HIDE DEF SamePins, SamStep
<1>3. /\ \A t, v : SamStep(c.sam, t) => Line2(c, [c EXCEPT !.sam = t, !.vdg = v])
      /\ \A v : Line2(c, [c EXCEPT !.vdg = v])
      /\ \A t : SamStep(c.sam, t) => Line2(c, [c EXCEPT !.sam = t])
  BY <1>1, <1>2 DEF Line2, Quiet, MachineFields
<1>4. /\ \A n : Line2(c, [c EXCEPT !.scanline = n])
      /\ \A n : Line2(c, [c EXCEPT !.firq = n]) /\ SameField(c, [c EXCEPT !.firq = n])
  BY <1>1, <1>2 DEF Line2, Quiet, MachineFields, SameField, SamePicture
<1>5. /\ \A p, n : LET d == [c EXCEPT !.pia0 = p, !.irq = n]
                      IN SamePins(c.pia0, p) => Line2(c, d) /\ SameField(c, d)
      /\ \A p, n : LET d == [c EXCEPT !.pia1 = p, !.firq = n]
                      IN SamePins(c.pia1, p) => Line2(c, d) /\ SameField(c, d)
  BY <1>1, <1>2 DEF Line2, Quiet, MachineFields, SameField, SamePicture
<1>6. /\ \A p : LET d == [c EXCEPT !.pia0 = p] IN SamePins(c.pia0, p) => Line2(c, d) /\ SameField(c, d)
      /\ \A p : LET d == [c EXCEPT !.pia1 = p] IN SamePins(c.pia1, p) => Line2(c, d) /\ SameField(c, d)
  BY <1>1, <1>2 DEF Line2, Quiet, MachineFields, SameField, SamePicture
<1> QED
  BY <1>3, <1>4, <1>5, <1>6

\* An edge at a PIA, with its callback.
LEMMA TransitionLine ==
  ASSUME NEW c, Board(c), NEW s \in {"a", "b"}, NEW rising
  PROVE  /\ Line2(c, Transition(c, "pia0", s, rising)) /\ SameField(c, Transition(c, "pia0", s, rising))
         /\ Line2(c, Transition(c, "pia1", s, rising)) /\ SameField(c, Transition(c, "pia1", s, rising))
<1> DEFINE p == c1_transition(c.pia0, s, rising)
           q == c1_transition(c.pia1, s, rising)
           n == pia_irq(p[s].ctrl)
           m == pia_irq(q[s].ctrl)
           d == [c EXCEPT !.pia0 = p, !.irq = n]
           e == [c EXCEPT !.pia1 = q, !.firq = m]
<1>1. Transition(c, "pia0", s, rising) = IF EdgeMatches(c.pia0, s, rising) THEN d ELSE c
  BY DEF Transition, Assign
<1>2. Transition(c, "pia1", s, rising) = IF EdgeMatches(c.pia1, s, rising) THEN e ELSE c
  BY DEF Transition, Assign
<1>3. SamePins(c.pia0, p) /\ SamePins(c.pia1, q)
  BY EdgePins DEF Board, Heard
<1> HIDE DEF p, q, n, m
<1>4. Line2(c, d) /\ SameField(c, d) /\ Line2(c, e) /\ SameField(c, e)
  BY <1>3, Line2Fields
<1>5. Line2(c, c) /\ SameField(c, c)
  BY Line2Itself DEF SameField, SamePicture
<1> HIDE DEF d, e
<1> QED
  BY <1>1, <1>2, <1>4, <1>5

\* A read of a PIA.
LEMMA PiaReadLine ==
  ASSUME NEW c, Board(c), NEW reg \in 0 .. 3
  PROVE  /\ Line2(c, PiaRead(c, "pia0", reg)) /\ SameField(c, PiaRead(c, "pia0", reg))
         /\ Line2(c, PiaRead(c, "pia1", reg)) /\ SameField(c, PiaRead(c, "pia1", reg))
<1> DEFINE p == mc6821_read(c.pia0, reg)
           q == mc6821_read(c.pia1, reg)
           n == pia_irq(p[SideOf(reg)].ctrl)
           m == pia_irq(q[SideOf(reg)].ctrl)
           d == [c EXCEPT !.pia0 = p, !.irq = n]
           e == [c EXCEPT !.pia1 = q, !.firq = m]
<1>1. PiaRead(c, "pia0", reg) = IF Notifies(c.pia0, reg, FALSE) THEN d ELSE c
  BY DEF PiaRead, Assign
<1>2. PiaRead(c, "pia1", reg) = IF Notifies(c.pia1, reg, FALSE) THEN e ELSE c
  BY DEF PiaRead, Assign
<1>3. SamePins(c.pia0, p) /\ SamePins(c.pia1, q)
  BY ReadPins DEF Board, Heard
<1> HIDE DEF p, q, n, m
<1>4. Line2(c, d) /\ SameField(c, d) /\ Line2(c, e) /\ SameField(c, e)
  BY <1>3, Line2Fields
<1>5. Line2(c, c) /\ SameField(c, c)
  BY Line2Itself DEF SameField, SamePicture
<1> HIDE DEF d, e
<1> QED
  BY <1>1, <1>2, <1>4, <1>5

\* What the bus answers is one of a few places.
LEMMA IoNames ==
  ASSUME NEW c, NEW addr \in Address
  PROVE  /\ Io(c, addr)[1] \in {"pia0", "pia1"} => Io(c, addr)[2] \in 0 .. 3
         /\ Io(c, addr)[1] = "pia1" => addr \in 65312 .. 65343 /\ Io(c, addr)[2] = addr % 4
         /\ Io(c, addr)[1] # "sam"
<1> DEFINE low == addr % 4
           becker == "becker" \in c.fitted /\ addr \in {65345, 65346}
           io == Io(c, addr)
<1>1. low \in 0 .. 3
  <2>1. addr \in Int /\ 4 \in Nat \ {0}
    BY AddressIs
  <2>2. addr % 4 \in 0 .. 4-1
    BY <2>1, ModRange
  <2> QED
    BY <2>2
<1>2. io = CASE addr < 65312 -> <<"pia0", low>>
             [] addr \in 65312 .. 65343 -> <<"pia1", low>>
             [] addr \in 65344 .. 65375 -> IF becker THEN <<"becker", addr>> ELSE <<"fdc", addr>>
             [] addr \in 65384 .. 65387 /\ "acia" \in c.fitted -> <<"acia", low>>
             [] addr \in 65405 .. 65406 /\ "ssc" \in c.fitted -> <<"ssc", addr>>
             [] addr \in 65408 .. 65414 /\ "vhd" \in c.fitted -> <<"vhd", addr>>
             [] OTHER -> <<"none">>
  BY DEF Io
<1> HIDE DEF low, becker, io
<1>3. /\ io[1] \in {"pia0", "pia1"} => io[2] = low
      /\ io[1] = "pia1" => addr \in 65312 .. 65343
      /\ io[1] # "sam"
  <2>1. CASE addr < 65312
    BY <1>2, <2>1, AddressIs
  <2>2. CASE addr \in 65312 .. 65343
    BY <1>2, <2>2, AddressIs
  <2>3. CASE addr \in 65344 .. 65375
    BY <1>2, <2>3, AddressIs
  <2>4. CASE addr \in 65384 .. 65387 /\ "acia" \in c.fitted
    BY <1>2, <2>4, AddressIs
  <2>5. CASE addr \in 65405 .. 65406 /\ "ssc" \in c.fitted
    BY <1>2, <2>5, AddressIs
  <2>6. CASE addr \in 65408 .. 65414 /\ "vhd" \in c.fitted
    BY <1>2, <2>6, AddressIs
  <2>7. CASE ~(\/ addr < 65312 \/ addr \in 65312 .. 65343 \/ addr \in 65344 .. 65375
               \/ (addr \in 65384 .. 65387 /\ "acia" \in c.fitted)
               \/ (addr \in 65405 .. 65406 /\ "ssc" \in c.fitted)
               \/ (addr \in 65408 .. 65414 /\ "vhd" \in c.fitted))
    BY <1>2, <2>7, AddressIs
  <2> QED
    BY <2>1, <2>2, <2>3, <2>4, <2>5, <2>6, <2>7
<1> QED
  BY <1>1, <1>3 DEF io, low

\* The callbacks name a PIA with a register of it.
LEMMA Lands2 ==
  ASSUME NEW c, NEW addr \in Address
  PROVE  LET r == machine_read_coco2(c, addr)
             w == machine_write_coco2(c, addr)
         IN /\ r[1] \in {"pia0", "pia1"} => r[2] \in 0 .. 3
            /\ w[1] \in {"pia0", "pia1"} => w[2] \in 0 .. 3
            /\ w[1] = "pia1" => addr \in 65312 .. 65343 /\ w[2] = addr % 4
            /\ w[1] = "sam" => addr \in 65472 .. 65503
<1> DEFINE vec == Vector(c, addr)
           io == Io(c, addr)
           ram == Ram2(addr)
           cart == RomImage(c, "cart", addr - 49152)
           basic == RomImage(c, "basic", addr - 40960)
           ext == RomImage(c, "extbas", addr - 32768)
           r == machine_read_coco2(c, addr)
           w == machine_write_coco2(c, addr)
<1>1. /\ vec[1] \in {"basic", "none"} /\ ram[1] = "ram" /\ cart[1] \in {"cart", "none"}
      /\ basic[1] \in {"basic", "none"} /\ ext[1] \in {"extbas", "none"}
  BY DEF Vector, Ram2, RomImage
<1>2. /\ io[1] \in {"pia0", "pia1"} => io[2] \in 0 .. 3
      /\ io[1] = "pia1" => addr \in 65312 .. 65343 /\ io[2] = addr % 4
      /\ io[1] # "sam"
  BY IoNames
<1>3. r = IF addr >= 65504 THEN vec ELSE IF addr >= 65280 THEN io
          ELSE IF addr < 32768 \/ ty(c.sam) THEN ram ELSE IF addr >= 49152 THEN cart
          ELSE IF addr >= 40960 THEN basic ELSE ext
  BY DEF machine_read_coco2
<1>4. w = IF addr >= 65472 THEN IF addr < 65504 THEN <<"sam", addr - 65472>> ELSE <<"none">>
          ELSE IF addr >= 65280
               THEN IF "orch90" \in c.fitted /\ addr \in {65402, 65403} THEN <<"orch90", addr>> ELSE io
          ELSE IF addr < 32768 \/ ty(c.sam) THEN ram ELSE <<"none">>
  BY DEF machine_write_coco2
<1> HIDE DEF vec, io, ram, cart, basic, ext, r, w
<1>5. r = vec \/ r = io \/ r = ram \/ r = cart \/ r = basic \/ r = ext
  BY <1>3
<1>6. w = io \/ w = ram \/ w[1] \in {"sam", "none", "orch90"}
  BY <1>4
<1>7. r[1] \in {"pia0", "pia1"} => r[2] \in 0 .. 3
  BY <1>1, <1>2, <1>5
<1>8. /\ w[1] \in {"pia0", "pia1"} => w[2] \in 0 .. 3
      /\ w[1] = "pia1" => addr \in 65312 .. 65343 /\ w[2] = addr % 4
  BY <1>1, <1>2, <1>6
<1>9. w[1] = "sam" => addr \in 65472 .. 65503
  BY <1>1, <1>2, <1>4, AddressIs
<1> QED
  BY <1>7, <1>8, <1>9 DEF r, w

\* What a read changes.
LEMMA Read2 ==
  ASSUME NEW c, Board(c), NEW addr \in Address, NEW held
  PROVE  Line2(c, AfterRead2(c, addr, held)) /\ SameField(c, AfterRead2(c, addr, held))
<1> DEFINE where == machine_read_coco2(c, addr)
           rows == Rows(c, held)
           p == [c.pia0 EXCEPT !.a.input = rows]
           scanned == [c EXCEPT !.pia0 = p]
           s == IF where[2] = 0 /\ DataRead(c.pia0, 0) THEN scanned ELSE c
           r0 == PiaRead(s, "pia0", where[2])
           r1 == PiaRead(c, "pia1", where[2])
           r == AfterRead2(c, addr, held)
<1>1. r = CASE where[1] = "pia0" -> r0 [] where[1] = "pia1" -> r1 [] OTHER -> c
  BY DEF AfterRead2
<1>2. where[1] \in {"pia0", "pia1"} => where[2] \in 0 .. 3
  BY Lands2
<1> HIDE DEF where, rows
<1>3. SamePins(c.pia0, p)
  <2>1. p = [c.pia0 EXCEPT !["a"].input = rows]
    OBVIOUS
  <2> HIDE DEF p
  <2> QED
    BY <2>1, FlagsOnly DEF Board, Heard
<1> HIDE DEF p
<1>4. Line2(c, scanned) /\ Line2(c, c) /\ SameField(c, scanned) /\ SameField(c, c)
  BY <1>3, Line2Fields, Line2Itself DEF SameField, SamePicture
<1> HIDE DEF scanned
<1>5. Line2(c, s) /\ SameField(c, s)
  BY <1>4
<1> HIDE DEF s
<1>6. Board(s)
  BY <1>5, Line2Keeps
<1>7. where[2] \in 0 .. 3 => Line2(c, r0) /\ Line2(c, r1) /\ SameField(c, r0) /\ SameField(c, r1)
  <2>1. where[2] \in 0 .. 3 => Line2(s, r0) /\ Line2(c, r1) /\ SameField(s, r0) /\ SameField(c, r1)
    BY <1>6, PiaReadLine
  <2> HIDE DEF r0, r1
  <2>2. where[2] \in 0 .. 3 => SameField(c, r0)
    BY <2>1, <1>5 DEF SameField, SamePicture
  <2> QED
    BY <2>1, <2>2, <1>5, Line2Twice
<1> HIDE DEF r0, r1, r
<1>8. Line2(c, r) /\ SameField(c, r)
  BY <1>1, <1>2, <1>4, <1>7
<1> QED
  BY <1>8 DEF r

\* The two ends of a field.
LEMMA FieldLines ==
  ASSUME NEW c, Board(c)
  PROVE  LET a == FieldStart(c)
             b == FieldEnd(c)
         IN /\ Line2(c, a) /\ a.sam = sam6883_vdg_fsync(c.sam) /\ SameMode(c, a)
            /\ Line2(c, b) /\ b.sam = c.sam /\ SameMode(c, b)
<1> DEFINE up == Transition(c, "pia0", "b", TRUE)
           down == Transition(c, "pia0", "b", FALSE)
           t == sam6883_vdg_fsync(up.sam)
           v == [up.vdg EXCEPT !.fs = FALSE]
           w == [down.vdg EXCEPT !.fs = TRUE]
           a == [up EXCEPT !.sam = t, !.vdg = v]
           b == [down EXCEPT !.vdg = w]
<1>1. FieldStart(c) = a /\ FieldEnd(c) = b
  BY DEF FieldStart, FieldEnd
<1>2. Line2(c, up) /\ Line2(c, down) /\ SameField(c, up) /\ SameField(c, down)
  BY TransitionLine
<1> HIDE DEF up, down
<1>3. Board(up) /\ Board(down)
  BY <1>2, Line2Keeps
<1>4. SamStep(up.sam, t)
  BY FsyncStep
<1>5. t = sam6883_vdg_fsync(c.sam)
  BY <1>2 DEF SameField, SamePicture
<1>6. SameMode(up, [up EXCEPT !.vdg = v]) /\ SameMode(down, b)
  BY <1>3 DEF Board, MachineFields, SameMode, VdgFields
<1> HIDE DEF t, v, w
<1>7. Line2(up, a) /\ Line2(down, b)
  BY <1>3, <1>4, Line2Fields
<1>8. a.sam = t /\ a.vdg = [up EXCEPT !.vdg = v].vdg /\ b.sam = down.sam
  BY <1>3 DEF Board, MachineFields
<1> HIDE DEF a, b
<1>9. SameMode(c, a) /\ SameMode(c, b) /\ a.sam = sam6883_vdg_fsync(c.sam) /\ b.sam = c.sam
  BY <1>2, <1>5, <1>6, <1>8 DEF SameMode, SameField, SamePicture
<1> QED
  BY <1>1, <1>2, <1>7, <1>9, Line2Twice

\* An active line: the VDG takes its row of bytes, the SAM counts on.
LEMMA ActiveLine2 ==
  ASSUME NEW c, Board(c)
  PROVE  Line2(c, ActiveLine(c))
<1> DEFINE bpr == IF c.vdg.AG THEN bytes_per_row[vdg_mode(c.sam) + 1] ELSE 32
           t == sam6883_vdg_fetch_bytes(c.sam, bpr)
           v == [c.vdg EXCEPT !.row_address = c.sam.vdg_address]
           a == [c EXCEPT !.vdg = v, !.sam = t]
           b == [c EXCEPT !.sam = t, !.vdg = v]
<1>1. ActiveLine(c) = a
  BY DEF ActiveLine
<1>2. SamStep(c.sam, t)
  BY FetchStep
<1> HIDE DEF t, v
<1>3. a = b
  OBVIOUS
<1> HIDE DEF a
<1>4. Line2(c, b)
  BY <1>2, Line2Fields
<1> QED
  BY <1>1, <1>3, <1>4

\* A whole line.
LEMMA Scanline2 ==
  ASSUME NEW c, Board(c)
  PROVE  Line2(c, machine_run_scanline_coco2(c))
<1> DEFINE a == AciaLine(c)
           b == IF c.scanline = 0 THEN FieldStart(a) ELSE a
           d == IF c.scanline < ACTIVE_SCANLINES THEN ActiveLine(b) ELSE b
           t == sam6883_vdg_hsync(d.sam)
           e == [d EXCEPT !.sam = t]
           f == IF c.scanline = ACTIVE_SCANLINES THEN FieldEnd(e) ELSE e
           next == f.scanline + 1
           r == [f EXCEPT !.scanline = next]
<1>1. machine_run_scanline_coco2(c) = r
  BY DEF machine_run_scanline_coco2
<1>2. Line2(c, a)
  <2> DEFINE line == AnyIrq(c.pia1) \/ c.acia_irq
             h == [c EXCEPT !.firq = line]
  <2>1. a = IF "acia" \in c.fitted THEN h ELSE c
    BY DEF AciaLine
  <2> HIDE DEF a, line
  <2>2. Line2(c, h) /\ Line2(c, c)
    BY Line2Fields, Line2Itself
  <2> QED
    BY <2>1, <2>2
<1> HIDE DEF a
<1>3. Line2(c, b)
  <2>1. Line2(a, FieldStart(a))
    BY <1>2, Line2Keeps, FieldLines
  <2> QED
    BY <1>2, <2>1, Line2Twice
<1> HIDE DEF b
<1>4. Line2(c, d)
  <2>1. Line2(b, ActiveLine(b))
    BY <1>3, Line2Keeps, ActiveLine2
  <2> QED
    BY <1>3, <2>1, Line2Twice
<1> HIDE DEF d
<1>5. Line2(c, e)
  <2>1. SamStep(d.sam, t) /\ Board(d)
    BY <1>4, HsyncStep, Line2Keeps
  <2> HIDE DEF t
  <2>2. Line2(d, e)
    BY <2>1, Line2Fields
  <2> HIDE DEF e
  <2> QED
    BY <1>4, <2>2, Line2Twice
<1> HIDE DEF e
<1>6. Line2(c, f)
  <2>1. Line2(e, FieldEnd(e))
    BY <1>5, Line2Keeps, FieldLines
  <2> QED
    BY <1>5, <2>1, Line2Twice
<1> HIDE DEF f, next
<1>7. Line2(f, r)
  BY <1>6, Line2Keeps, Line2Fields
<1> HIDE DEF r
<1> QED
  BY <1>1, <1>6, <1>7, Line2Twice

\* The pulse of a program cartridge.
LEMMA Frame2 ==
  ASSUME NEW c, Board(c)
  PROVE  Line2(c, FrameStart2(c)) /\ SamePicture(c, FrameStart2(c)) /\ FrameStart2(c).scanline = 0
<1> DEFINE up == Transition(c, "pia1", "b", TRUE)
           down == Transition(up, "pia1", "b", FALSE)
           d == IF "autostart" \in c.fitted THEN down ELSE c
           r == [d EXCEPT !.scanline = 0]
<1>1. FrameStart2(c) = r
  BY DEF FrameStart2
<1>2. Line2(c, up) /\ SameField(c, up)
  BY TransitionLine
<1> HIDE DEF up
<1>3. Line2(up, down) /\ SameField(up, down)
  BY <1>2, Line2Keeps, TransitionLine
<1> HIDE DEF down
<1>4. Line2(c, d) /\ SamePicture(c, d)
  BY <1>2, <1>3, Line2Twice, Line2Itself DEF SameField, SamePicture
<1> HIDE DEF d
<1>5. Line2(d, r) /\ SamePicture(d, r) /\ r.scanline = 0
  <2>1. Board(d)
    BY <1>4, Line2Keeps
  <2> QED
    BY <2>1, Line2Fields DEF SamePicture, Board, MachineFields
<1> HIDE DEF r
<1> QED
  BY <1>1, <1>4, <1>5, Line2Twice DEF SamePicture

\* The page pointers recomputed.
LEMMA PagesSet2 ==
  ASSUME NEW c, DOMAIN c = MachineFields
  PROVE  LET u == update_fast_pages_coco2(c) IN Paged2(u) /\ Touches(c, u, {"rd_page", "wr_page"})
<1> DEFINE rd == [i \in 0 .. 7 |-> ReadSlot(c, i)]
           wr == [i \in 0 .. 7 |-> IF i < 4 \/ ty(c.sam) THEN <<"ram", i>> ELSE NullPage]
           u == [c EXCEPT !.rd_page = rd, !.wr_page = wr]
<1>1. update_fast_pages_coco2(c) = u
  BY DEF update_fast_pages_coco2
<1>2. \A i \in 0 .. 7 : /\ rd[i] = ReadSlot(c, i)
                        /\ wr[i] = IF i < 4 \/ ty(c.sam) THEN <<"ram", i>> ELSE NullPage
  OBVIOUS
<1> HIDE DEF rd, wr
<1>3. Touches(c, u, {"rd_page", "wr_page"}) /\ u.rd_page = rd /\ u.wr_page = wr
  BY DEF Touches, MachineFields
<1> HIDE DEF u
<1>4. u.sam = c.sam /\ u.loaded = c.loaded
  BY <1>3 DEF Touches, MachineFields
<1>5. ty(u.sam) = ty(c.sam) /\ \A i \in 0 .. 7 : ReadSlot(u, i) = ReadSlot(c, i)
  BY <1>4 DEF ReadSlot
<1>6. Paged2(u)
  BY <1>2, <1>3, <1>5 DEF Paged2
<1> QED
  BY <1>1, <1>3, <1>6

\* The reset of the CoCo 2.
LEMMA Reset2 ==
  ASSUME NEW c, Bare(c)
  PROVE  LET r == machine_reset_coco2(c) IN Board(r) /\ Paged2(r) /\ r.g = c.g
<1> DEFINE p == mc6821_reset
           s == sound_reset(c.sound)
           t == sam6883_reset
           v == mc6847_reset
           d == [c EXCEPT !.pia0 = p, !.pia1 = p, !.sam = t, !.vdg = v, !.sound = s,
                          !.scanline = 0, !.irq = FALSE, !.firq = FALSE, !.masked = TRUE]
           r == update_fast_pages_coco2(d)
<1>1. machine_reset_coco2(c) = r
  BY DEF machine_reset_coco2
<1>2. Heard(s, p, p) /\ DOMAIN t = DOMAIN sam6883_reset
  BY ResetHeard
<1> HIDE DEF p, s, t, v
<1>3. /\ DOMAIN d = MachineFields /\ d.g = c.g /\ d.pia0 = p /\ d.pia1 = p /\ d.sound = s /\ d.sam = t
      /\ d.ram_pages = c.ram_pages
  BY DEF Bare, MachineFields
<1> HIDE DEF d
<1>4. Board(d)
  BY <1>2, <1>3 DEF Board, Bare
<1>5. Paged2(r) /\ Touches(d, r, {"rd_page", "wr_page"})
  BY <1>3, PagesSet2
<1> HIDE DEF r
<1>6. r.g = d.g /\ r.sound = d.sound /\ r.pia0 = d.pia0 /\ r.pia1 = d.pia1
  BY <1>3, <1>5 DEF Touches, MachineFields
<1>7. Board(r)
  BY <1>4, <1>5, <1>6, BoardKept DEF Board
<1> QED
  BY <1>1, <1>3, <1>5, <1>6, <1>7

\* A change that spares the SAM, the ROMs and the page pointers keeps them right.
LEMMA PagedUntouched ==
  ASSUME NEW c, NEW d, NEW F, DOMAIN c = MachineFields, Touches(c, d, F),
         F \cap {"sam", "loaded", "rd_page", "wr_page", "g"} = {}
  PROVE  d.g = c.g /\ (Paged2(c) => Paged2(d))
<1>1. {"sam", "loaded", "rd_page", "wr_page", "g"} \subseteq MachineFields
  BY DEF MachineFields
<1>2. d.sam = c.sam /\ d.loaded = c.loaded /\ d.rd_page = c.rd_page /\ d.wr_page = c.wr_page /\ d.g = c.g
  BY <1>1 DEF Touches
<1> QED
  BY <1>2, PagedKept

\* The VDG's pins: its mode and nothing else.
LEMMA VdgTouches ==
  ASSUME NEW c, DOMAIN c = MachineFields
  PROVE  LET u == update_vdg_mode_coco2(c)
         IN Touches(c, u, {"vdg"}) /\ (VdgFollows(c) => VdgFollows(u))
<1> DEFINE pb == c.pia1.b.data \cap c.pia1.b.ddr
           v == [c.vdg EXCEPT !.AG = 7 \in pb, !.CSS = 3 \in pb, !.GM = Field(pb, 4, 3)]
           u == [c EXCEPT !.vdg = v]
<1>1. update_vdg_mode_coco2(c) = u
  <2> DEFINE ag == 7 \in pb
             css == 3 \in pb
             gm == Field(pb, 4, 3)
  <2>1. update_vdg_mode_coco2(c) = [c EXCEPT !.vdg.AG = ag, !.vdg.CSS = css, !.vdg.GM = gm]
    BY DEF update_vdg_mode_coco2
  <2>2. v = [c.vdg EXCEPT !.AG = ag, !.CSS = css, !.GM = gm]
    OBVIOUS
  <2> HIDE DEF ag, css, gm, v
  <2>3. [c EXCEPT !.vdg.AG = ag, !.vdg.CSS = css, !.vdg.GM = gm] = [c EXCEPT !.vdg = v]
    BY <2>2 DEF MachineFields
  <2> QED
    BY <2>1, <2>3
<1>2. DOMAIN mc6847_reset = VdgFields
  BY DEF mc6847_reset, VdgFields
<1>3. VdgFollows(c) => DOMAIN v = VdgFields /\ v.GM \in 0 .. 7 /\ v.vram_offset = c.vdg.vram_offset
  <2> DEFINE ag == 7 \in pb
             css == 3 \in pb
             gm == Field(pb, 4, 3)
  <2>1. gm \in 0 .. 7
    BY Field3
  <2>2. v = [c.vdg EXCEPT !.AG = ag, !.CSS = css, !.GM = gm]
    OBVIOUS
  <2> HIDE DEF v, ag, css, gm
  <2> QED
    BY <1>2, <2>1, <2>2 DEF VdgFollows, VdgFields
<1> HIDE DEF v
<1>4. Touches(c, u, {"vdg"}) /\ u.vdg = v /\ u.sam = c.sam
  BY DEF Touches, MachineFields
<1>5. VdgFollows(c) => VdgFollows(u)
  BY <1>2, <1>3, <1>4 DEF VdgFollows
<1> HIDE DEF u
<1> QED
  BY <1>1, <1>4, <1>5

\* A register of either PIA written, the callback, and the mixer told.
LEMMA Pia0Step2 ==
  ASSUME NEW c, Board(c), NEW reg \in 0 .. 3, NEW val
  PROVE  LET r == sound_pia0_written(PiaWrite(c, "pia0", reg, val), reg)
         IN Board(r) /\ r.g = c.g /\ (Paged2(c) => Paged2(r)) /\ Touches(c, r, {"pia0", "irq", "sound"})
<1> DEFINE p == mc6821_write(c.pia0, reg, val)
           n == pia_irq(p[SideOf(reg)].ctrl)
           a == [c EXCEPT !.pia0 = p, !.irq = n]
           k == [c EXCEPT !.pia0 = p]
           d == PiaWrite(c, "pia0", reg, val)
           r == sound_pia0_written(d, reg)
<1>1. d = IF Notifies(c.pia0, reg, TRUE) THEN a ELSE k
  BY DEF PiaWrite, Assign, Keep
<1>2. DOMAIN c = MachineFields /\ Heard(c.sound, c.pia0, c.pia1)
  BY DEF Board
<1>3. PiaShape(c.pia0)
  BY <1>2 DEF Heard
<1>4. p = mc6821_write(c.pia0, reg, val)
  OBVIOUS
<1> HIDE DEF p, n
<1>5. /\ Touches(c, a, {"pia0", "irq"}) /\ a.pia0 = p /\ a.pia1 = c.pia1 /\ a.sound = c.sound
      /\ Touches(c, k, {"pia0", "irq"}) /\ k.pia0 = p /\ k.pia1 = c.pia1 /\ k.sound = c.sound
  BY <1>2 DEF Touches, MachineFields
<1> HIDE DEF a, k, d
<1>6. Touches(c, d, {"pia0", "irq"}) /\ d.pia0 = p /\ d.pia1 = c.pia1 /\ d.sound = c.sound
  BY <1>1, <1>5
<1>7. DOMAIN d = MachineFields /\ Heard(d.sound, c.pia0, d.pia1) /\ d.pia0 = mc6821_write(c.pia0, reg, val)
  BY <1>2, <1>4, <1>6 DEF Touches
<1>8. /\ Heard(r.sound, d.pia0, d.pia1) /\ DOMAIN r = MachineFields
      /\ \A f \in MachineFields \ {"sound"} : r[f] = d[f]
  BY <1>3, <1>7, Pia0Heard
<1> HIDE DEF r
<1>9. Touches(c, r, {"pia0", "irq", "sound"})
  BY <1>2, <1>6, <1>8 DEF Touches
<1>10. r.pia0 = d.pia0 /\ r.pia1 = d.pia1
  BY <1>8 DEF MachineFields
<1>11. Board(r)
  BY <1>8, <1>9, <1>10, BoardKept
<1>12. r.g = c.g /\ (Paged2(c) => Paged2(r))
  BY <1>2, <1>9, PagedUntouched
<1> QED
  BY <1>9, <1>11, <1>12 DEF r, d

\* A write to PIA1, with the VDG's pins and the mixer's: the pages stay.
LEMMA Pia1Step2 ==
  ASSUME NEW c, Board(c), NEW reg \in 0 .. 3, NEW val
  PROVE  LET w == PiaWrite(c, "pia1", reg, val)
             r == sound_pia1_written(IF reg >= 2 THEN update_vdg_mode_coco2(w) ELSE w, reg)
         IN /\ Board(r) /\ r.g = c.g /\ (Paged2(c) => Paged2(r)) /\ Touches(c, r, {"pia1", "firq", "vdg", "sound"})
            /\ reg < 2 => r.vdg = c.vdg
            /\ VdgFollows(c) => VdgFollows(r)
<1> DEFINE p == mc6821_write(c.pia1, reg, val)
           n == pia_irq(p[SideOf(reg)].ctrl)
           a == [c EXCEPT !.pia1 = p, !.firq = n]
           k == [c EXCEPT !.pia1 = p]
           w == PiaWrite(c, "pia1", reg, val)
           d == IF reg >= 2 THEN update_vdg_mode_coco2(w) ELSE w
           r == sound_pia1_written(d, reg)
<1>1. w = IF Notifies(c.pia1, reg, TRUE) THEN a ELSE k
  BY DEF PiaWrite, Assign, Keep
<1>2. DOMAIN c = MachineFields /\ Heard(c.sound, c.pia0, c.pia1)
  BY DEF Board
<1>3. PiaShape(c.pia1)
  BY <1>2 DEF Heard
<1>4. p = mc6821_write(c.pia1, reg, val)
  OBVIOUS
<1> HIDE DEF p, n
<1>5. /\ Touches(c, a, {"pia1", "firq"}) /\ a.pia1 = p /\ a.pia0 = c.pia0 /\ a.sound = c.sound
      /\ Touches(c, k, {"pia1", "firq"}) /\ k.pia1 = p /\ k.pia0 = c.pia0 /\ k.sound = c.sound
  BY <1>2 DEF Touches, MachineFields
<1> HIDE DEF a, k, w
<1>6. Touches(c, w, {"pia1", "firq"}) /\ w.pia1 = p /\ w.pia0 = c.pia0 /\ w.sound = c.sound
  BY <1>1, <1>5
<1>60. /\ Touches(c, d, {"pia1", "firq", "vdg"}) /\ d.pia1 = p /\ d.pia0 = c.pia0 /\ d.sound = c.sound
       /\ reg < 2 => d.vdg = c.vdg
       /\ VdgFollows(c) => VdgFollows(d)
  <2> DEFINE u == update_vdg_mode_coco2(w)
  <2>1. DOMAIN w = MachineFields
    BY <1>2, <1>6 DEF Touches
  <2>2. Touches(w, u, {"vdg"}) /\ (VdgFollows(w) => VdgFollows(u))
    BY <2>1, VdgTouches
  <2>6. w.vdg = c.vdg /\ w.sam = c.sam
    BY <1>2, <1>6 DEF Touches, MachineFields
  <2>7. VdgFollows(c) => VdgFollows(w)
    BY <2>6 DEF VdgFollows
  <2> HIDE DEF u
  <2>3. u.pia1 = w.pia1 /\ u.pia0 = w.pia0 /\ u.sound = w.sound
    BY <2>1, <2>2 DEF Touches, MachineFields
  <2>4. Touches(c, u, {"pia1", "firq", "vdg"}) /\ Touches(c, w, {"pia1", "firq", "vdg"})
    BY <1>6, <2>2 DEF Touches
  <2>5. (d = u \/ d = w) /\ (reg < 2 => d = w)
    BY DEF u
  <2> HIDE DEF d
  <2> QED
    BY <1>6, <2>2, <2>3, <2>4, <2>5, <2>6, <2>7
<1> HIDE DEF d
<1>7. DOMAIN d = MachineFields /\ Heard(d.sound, d.pia0, c.pia1) /\ d.pia1 = mc6821_write(c.pia1, reg, val)
  BY <1>2, <1>4, <1>60 DEF Touches
<1>8. /\ Heard(r.sound, d.pia0, d.pia1) /\ DOMAIN r = MachineFields
      /\ \A f \in MachineFields \ {"sound"} : r[f] = d[f]
  BY <1>3, <1>7, Pia1Heard
<1> HIDE DEF r
<1>9. Touches(c, r, {"pia1", "firq", "vdg", "sound"})
  BY <1>2, <1>60, <1>8 DEF Touches
<1>10. r.pia0 = d.pia0 /\ r.pia1 = d.pia1
  BY <1>8 DEF MachineFields
<1>11. Board(r)
  BY <1>8, <1>9, <1>10, BoardKept
<1>12. r.g = c.g /\ (Paged2(c) => Paged2(r))
  BY <1>2, <1>9, PagedUntouched
<1>13. (reg < 2 => r.vdg = c.vdg) /\ (VdgFollows(c) => VdgFollows(r))
  <2>1. r.vdg = d.vdg /\ r.sam = d.sam
    BY <1>8 DEF MachineFields
  <2> QED
    BY <1>60, <2>1 DEF VdgFollows
<1> QED
  BY <1>9, <1>11, <1>12, <1>13 DEF r, d, w

\* A SAM register: the page pointers follow, then the VDG.
LEMMA SamStep2 ==
  ASSUME NEW c, Board(c), NEW offset
  PROVE  LET s == [c EXCEPT !.sam = sam6883_write(@, offset)]
             r == update_vdg_mode_coco2(
                    [update_fast_pages_coco2(s) EXCEPT !.vdg.vram_offset = vdg_base(s.sam)])
         IN Board(r) /\ r.g = c.g /\ Paged2(r) /\ r.scanline = c.scanline /\ (VdgFollows(c) => VdgFollows(r))
<1> DEFINE t == sam6883_write(c.sam, offset)
           s == [c EXCEPT !.sam = t]
           f == update_fast_pages_coco2(s)
           v == [f.vdg EXCEPT !.vram_offset = vdg_base(s.sam)]
           e == [f EXCEPT !.vdg = v]
           r == update_vdg_mode_coco2(e)
<1>1. DOMAIN c = MachineFields /\ Heard(c.sound, c.pia0, c.pia1) /\ DOMAIN c.sam = DOMAIN sam6883_reset
  BY DEF Board
<1>2. DOMAIN t = DOMAIN sam6883_reset
  BY <1>1 DEF sam6883_write
<1> HIDE DEF t
<1>3. Touches(c, s, {"sam"}) /\ s.sam = t
  BY <1>1 DEF Touches, MachineFields
<1> HIDE DEF s
<1>4. DOMAIN s = MachineFields
  BY <1>1, <1>3 DEF Touches
<1>5. Paged2(f) /\ Touches(s, f, {"rd_page", "wr_page"})
  BY <1>4, PagesSet2
<1> HIDE DEF f, v
<1>6. DOMAIN f = MachineFields
  BY <1>4, <1>5 DEF Touches
<1>14. e.vdg = v /\ e.sam = f.sam /\ f.sam = s.sam /\ f.vdg = c.vdg
  <2>1. e.vdg = v /\ e.sam = f.sam
    BY <1>6 DEF MachineFields
  <2>2. f.sam = s.sam /\ f.vdg = s.vdg /\ s.vdg = c.vdg
    BY <1>1, <1>3, <1>4, <1>5 DEF Touches, MachineFields
  <2> QED
    BY <2>1, <2>2
<1>15. VdgFollows(c) => VdgFollows(e)
  <2> DEFINE n == vdg_base(s.sam)
             u == [f.vdg EXCEPT !.vram_offset = n]
  <2>1. v = u
    BY DEF v
  <2> HIDE DEF n
  <2>2. DOMAIN f.vdg = VdgFields => DOMAIN u = VdgFields /\ u.GM = f.vdg.GM /\ u.vram_offset = n
    BY DEF VdgFields
  <2>3. DOMAIN mc6847_reset = VdgFields
    BY DEF mc6847_reset, VdgFields
  <2> HIDE DEF u, e
  <2> QED
    BY <1>14, <2>1, <2>2, <2>3 DEF VdgFollows, n
<1>7. Touches(f, e, {"vdg"})
  BY <1>6 DEF Touches, MachineFields
<1> HIDE DEF e
<1>8. DOMAIN e = MachineFields
  BY <1>6, <1>7 DEF Touches
<1>9. Touches(e, r, {"vdg"}) /\ (VdgFollows(e) => VdgFollows(r))
  BY <1>8, VdgTouches
<1> HIDE DEF r
<1>10. Touches(f, r, {"vdg"})
  BY <1>7, <1>9, TouchesTwice
<1>11. r.g = f.g /\ Paged2(r)
  BY <1>5, <1>6, <1>10, PagedUntouched
<1>12. /\ r.g = c.g /\ r.sam = t /\ r.sound = c.sound /\ r.pia0 = c.pia0 /\ r.pia1 = c.pia1
       /\ r.ram_pages = c.ram_pages /\ DOMAIN r = MachineFields /\ r.scanline = c.scanline
  <2>1. Touches(c, r, {"sam", "rd_page", "wr_page", "vdg"})
    BY <1>3, <1>5, <1>10 DEF Touches
  <2>2. Touches(s, r, {"rd_page", "wr_page", "vdg"})
    BY <1>5, <1>10 DEF Touches
  <2>3. r.sam = s.sam
    BY <1>4, <2>2 DEF Touches, MachineFields
  <2> QED
    BY <1>1, <1>3, <2>1, <2>3 DEF Touches, MachineFields
<1>13. Board(r)
  BY <1>1, <1>2, <1>12 DEF Board
<1> QED
  BY <1>9, <1>11, <1>12, <1>13, <1>15 DEF r, e, v, f, s, t

\* What a write changes.
LEMMA Write2 ==
  ASSUME NEW c, Board(c), Paged2(c), NEW addr \in Address, NEW val
  PROVE  LET r == AfterWrite2(c, addr, val) IN Board(r) /\ Paged2(r) /\ r.g = c.g
<1> DEFINE where == machine_write_coco2(c, addr)
           w0 == sound_pia0_written(PiaWrite(c, "pia0", where[2], val), where[2])
           w == PiaWrite(c, "pia1", where[2], val)
           w1 == sound_pia1_written(IF where[2] >= 2 THEN update_vdg_mode_coco2(w) ELSE w, where[2])
           o == orch90_write(c, addr, val)
           s == [c EXCEPT !.sam = sam6883_write(@, where[2])]
           m == update_vdg_mode_coco2(
                  [update_fast_pages_coco2(s) EXCEPT !.vdg.vram_offset = vdg_base(s.sam)])
           r == AfterWrite2(c, addr, val)
           Good(d) == Board(d) /\ Paged2(d) /\ d.g = c.g
<1>1. r = CASE where[1] = "pia0" -> w0 [] where[1] = "pia1" -> w1 [] where[1] = "orch90" -> o
            [] where[1] = "sam" -> m [] OTHER -> c
  BY DEF AfterWrite2
<1>2. where[1] \in {"pia0", "pia1"} => where[2] \in 0 .. 3
  BY Lands2
<1> HIDE DEF where
<1>3. where[2] \in 0 .. 3 => Good(w0)
  BY Pia0Step2
<1>4. where[2] \in 0 .. 3 => Good(w1)
  BY Pia1Step2
<1>5. Good(m)
  BY SamStep2
<1>6. Good(o)
  <2>1. Board(o) /\ Touches(c, o, {"sound", "orch90"})
    BY Orch90Step
  <2> HIDE DEF o
  <2> QED
    BY <2>1, PagedUntouched DEF Board
<1>7. Good(c)
  OBVIOUS
<1> HIDE DEF w0, w1, w, m, o, s, r, Good
<1>8. Good(r)
  BY <1>1, <1>2, <1>3, <1>4, <1>5, <1>6, <1>7
<1> QED
  BY <1>8 DEF Good, r

-----------------------------------------------------------------------------
(* The invariant, over a machine m, a scene s and a history h.              *)

HistFields == {"setup", "accesses", "lines", "drawn", "borders", "steady", "listening", "since", "fires", "armed"}
Fit(m, s) == Board(m) /\ IF s.kind = "coco3" THEN Consistent(m.g) ELSE Paged2(m) /\ GimeShape(m.g)
OnTime(m, s, h) == s.kind = "coco3" /\ h.armed => TimerLeft(m.g, h.since, m.g.timer_fires - h.fires)
BoardInv(m, s, h) ==
  /\ s \in Scenes /\ Fit(m, s) /\ TimerType(m.g)
  /\ DOMAIN h = HistFields /\ h.setup \in 0 .. Len(s.setup) /\ h.since \in Nat /\ h.fires \in Int
  /\ OnTime(m, s, h)

\* Fit is the machine's part of MachineIInv.
LEMMA FitIs ==
  ASSUME NEW m, NEW s
  PROVE  /\ DOMAIN m = DOMAIN Allocated(s) /\ m.ram_pages \in Nat \ {0}
         /\ PiaShape(m.pia0) /\ PiaShape(m.pia1) /\ DOMAIN m.sound = DOMAIN sound_init("mame")
         /\ DOMAIN m.sam = DOMAIN sam6883_reset /\ GimeShape(m.g) /\ SoundAgrees(m)
         /\ IF s.kind = "coco3" THEN Mapped(m.g) /\ m.g.video = Geometry(m.g) ELSE Paged2(m)
         <=> Fit(m, s)
<1>1. DOMAIN Allocated(s) = MachineFields /\ DOMAIN sound_init("mame") = MixerFields
  BY MachineFieldsAre, MixerFieldsAre
<1>2. ASSUME PiaShape(m.pia0), PiaShape(m.pia1), DOMAIN m.sound = MixerFields
      PROVE  SoundAgrees(m) <=> Heard(m.sound, m.pia0, m.pia1)
  BY <1>2, HeardAgrees
<1>3. Heard(m.sound, m.pia0, m.pia1) => PiaShape(m.pia0) /\ PiaShape(m.pia1) /\ DOMAIN m.sound = MixerFields
  BY DEF Heard, Mixed
<1> QED
  BY <1>1, <1>2, <1>3 DEF Fit, Board, Consistent, UpToDate

\* The history's fields.
LEMMA HistFieldsAre == DOMAIN NoHist = HistFields
  BY DEF NoHist, HistFields

\* MachineIInv, over its three parts,
LEMMA InvIs == MachineIInv <=> BoardInv(mach, scene, hist)
<1>1. MachineShape(mach) /\ SoundAgrees(mach) /\ InForce(mach) <=> Fit(mach, scene)
  BY FitIs DEF MachineShape, InForce, IsCoco3
<1> QED
  BY <1>1, HistFieldsAre DEF MachineIInv, BoardInv, OnTime, IsCoco3

\* and in the next state.
LEMMA InvIsNext == MachineIInv' <=> BoardInv(mach', scene', hist')
<1>1. MachineShape(mach)' /\ SoundAgrees(mach)' /\ InForce(mach)' <=> Fit(mach', scene')
  BY FitIs DEF MachineShape, InForce, IsCoco3
<1> QED
  BY <1>1, HistFieldsAre DEF MachineIInv, BoardInv, OnTime, IsCoco3

\* A step that leaves the timer alone, or is the CoCo 2's
LEMMA StepSame ==
  ASSUME NEW m, NEW n, NEW s, NEW h, NEW k, BoardInv(m, s, h), Fit(n, s), SameTimer(m.g, n.g),
         DOMAIN k = HistFields, k.setup \in 0 .. Len(s.setup),
         k.since = h.since, k.fires = h.fires, k.armed => h.armed
  PROVE  BoardInv(n, s, k)
<1>1. TimerType(n.g) /\ \A since, expired : TimerLeft(m.g, since, expired) => TimerLeft(n.g, since, expired)
  BY StillLeft DEF BoardInv
<1>2. n.g.timer_fires - k.fires = m.g.timer_fires - h.fires
  BY DEF SameTimer
<1>3. OnTime(n, s, k)
  BY <1>1, <1>2 DEF BoardInv, OnTime
<1> QED
  BY <1>1, <1>3 DEF BoardInv

\* A step after which nothing is claimed of the rate
LEMMA StepUnarmed ==
  ASSUME NEW m, NEW n, NEW s, NEW h, NEW k, BoardInv(m, s, h), Fit(n, s), TimerType(n.g),
         DOMAIN k = HistFields, k.setup \in 0 .. Len(s.setup), k.since \in Nat, k.fires \in Int,
         ~k.armed
  PROVE  BoardInv(n, s, k)
  BY DEF BoardInv, OnTime

\* A line of the CoCo 3
LEMMA StepLine ==
  ASSUME NEW m, NEW n, NEW s, NEW h, NEW k, BoardInv(m, s, h), s.kind = "coco3", Fit(n, s),
         SameTimer(tcc1014_tick_scanline(m.g), n.g), DOMAIN k = HistFields, k.setup = h.setup,
         k.since = h.since + 1, k.fires = h.fires, k.armed <=> h.armed
  PROVE  BoardInv(n, s, k)
<1> DEFINE w == tcc1014_tick_scanline(m.g)
<1>1. DOMAIN m.g = GimeFields /\ TimerType(m.g) /\ h.since \in Nat /\ h.fires \in Int
  BY ConsistentFields DEF BoardInv, Fit
<1>2. /\ TimerType(w)
      /\ TimerLeft(m.g, h.since, m.g.timer_fires - h.fires) => TimerLeft(w, h.since + 1, w.timer_fires - h.fires)
  BY <1>1, Ticked
<1> HIDE DEF w
<1>3. TimerType(n.g) /\ \A since, expired : TimerLeft(w, since, expired) => TimerLeft(n.g, since, expired)
  BY <1>2, StillLeft DEF w
<1>4. n.g.timer_fires - k.fires = w.timer_fires - h.fires
  BY DEF SameTimer, w
<1>5. OnTime(n, s, k)
  BY <1>2, <1>3, <1>4 DEF BoardInv, OnTime
<1> QED
  BY <1>1, <1>3, <1>5 DEF BoardInv

\* A write that arms the timer
LEMMA StepArmed ==
  ASSUME NEW m, NEW n, NEW s, NEW h, NEW k, BoardInv(m, s, h), Fit(n, s), Armed(m.g, n.g),
         DOMAIN k = HistFields, k.setup = h.setup, k.since = 0, k.fires = m.g.timer_fires
  PROVE  BoardInv(n, s, k)
<1>1. TimerType(n.g) /\ TimerLeft(n.g, 0, 0)
  BY ArmedLeft DEF BoardInv
<1>2. k.fires \in Int /\ n.g.timer_fires - k.fires = 0
  BY DEF BoardInv, TimerType, Armed
<1>3. OnTime(n, s, k)
  BY <1>1, <1>2 DEF OnTime
<1> QED
  BY <1>1, <1>2, <1>3 DEF BoardInv

\* One field of the board that nothing depends on
LEMMA FitFields ==
  ASSUME NEW m, NEW s, Fit(m, s)
  PROVE  /\ \A v : LET n == [m EXCEPT !.masked = v] IN Fit(n, s) /\ n.g = m.g
         /\ \A v : LET n == [m EXCEPT !.acia_irq = v] IN Fit(n, s) /\ n.g = m.g
         /\ \A v : LET n == [m EXCEPT !.scanline = v] IN Fit(n, s) /\ n.g = m.g
         /\ \A t : Mixed(t) /\ SameMixer(m.sound, t) =>
              LET n == [m EXCEPT !.sound = t] IN Fit(n, s) /\ n.g = m.g
<1>1. DOMAIN m = MachineFields /\ Heard(m.sound, m.pia0, m.pia1) /\ Board(m)
  BY DEF Fit, Board
<1>2. ASSUME NEW n, NEW F, Touches(m, n, F), F \cap {"sam", "loaded", "rd_page", "wr_page", "g", "ram_pages"} = {},
             Heard(n.sound, n.pia0, n.pia1)
      PROVE  Fit(n, s) /\ n.g = m.g
  <2>1. Board(n)
    BY <1>1, <1>2, BoardKept
  <2>2. n.g = m.g /\ (Paged2(m) => Paged2(n))
    BY <1>1, <1>2, PagedUntouched
  <2> QED
    BY <2>1, <2>2 DEF Fit
<1>3. ASSUME NEW v PROVE LET n == [m EXCEPT !.masked = v] IN Fit(n, s) /\ n.g = m.g
  <2> DEFINE n == [m EXCEPT !.masked = v]
  <2>1. Touches(m, n, {"masked"}) /\ n.sound = m.sound /\ n.pia0 = m.pia0 /\ n.pia1 = m.pia1
    BY <1>1 DEF Touches, MachineFields
  <2> HIDE DEF n
  <2>2. Fit(n, s) /\ n.g = m.g
    BY <1>1, <1>2, <2>1
  <2> QED
    BY <2>2 DEF n
<1>4. ASSUME NEW v PROVE LET n == [m EXCEPT !.acia_irq = v] IN Fit(n, s) /\ n.g = m.g
  <2> DEFINE n == [m EXCEPT !.acia_irq = v]
  <2>1. Touches(m, n, {"acia_irq"}) /\ n.sound = m.sound /\ n.pia0 = m.pia0 /\ n.pia1 = m.pia1
    BY <1>1 DEF Touches, MachineFields
  <2> HIDE DEF n
  <2>2. Fit(n, s) /\ n.g = m.g
    BY <1>1, <1>2, <2>1
  <2> QED
    BY <2>2 DEF n
<1>5. ASSUME NEW v PROVE LET n == [m EXCEPT !.scanline = v] IN Fit(n, s) /\ n.g = m.g
  <2> DEFINE n == [m EXCEPT !.scanline = v]
  <2>1. Touches(m, n, {"scanline"}) /\ n.sound = m.sound /\ n.pia0 = m.pia0 /\ n.pia1 = m.pia1
    BY <1>1 DEF Touches, MachineFields
  <2> HIDE DEF n
  <2>2. Fit(n, s) /\ n.g = m.g
    BY <1>1, <1>2, <2>1
  <2> QED
    BY <2>2 DEF n
<1>6. ASSUME NEW t, Mixed(t), SameMixer(m.sound, t)
      PROVE  LET n == [m EXCEPT !.sound = t] IN Fit(n, s) /\ n.g = m.g
  <2> DEFINE n == [m EXCEPT !.sound = t]
  <2>1. Touches(m, n, {"sound"}) /\ n.sound = t /\ n.pia0 = m.pia0 /\ n.pia1 = m.pia1
    BY <1>1 DEF Touches, MachineFields
  <2>2. Heard(t, m.pia0, m.pia1)
    BY <1>1, <1>6, LevelsHeard
  <2> HIDE DEF n
  <2>3. Fit(n, s) /\ n.g = m.g
    BY <1>2, <2>1, <2>2
  <2> QED
    BY <2>3 DEF n
<1> QED
  BY <1>3, <1>4, <1>5, <1>6

\* A timer is the same as itself.
LEMMA SameTimerItself == \A g : SameTimer(g, g)
  BY DEF SameTimer

\* A read of either machine.
LEMMA ReadFit ==
  ASSUME NEW m, NEW s, Fit(m, s), NEW addr \in Address, NEW k
  PROVE  LET n == IF s.kind = "coco3" THEN AfterRead(m, addr, k) ELSE AfterRead2(m, addr, k)
         IN Fit(n, s) /\ SameTimer(m.g, n.g)
<1> DEFINE n3 == AfterRead(m, addr, k)
           n2 == AfterRead2(m, addr, k)
<1>1. ASSUME s.kind = "coco3" PROVE Fit(n3, s) /\ SameTimer(m.g, n3.g)
  <2>1. Board(m) /\ Consistent(m.g)
    BY <1>1 DEF Fit
  <2>2. Quiet(m, n3, {"g"}) /\ Touches(m.g, n3.g, InterruptFields)
    BY <2>1, ReadQuiet3
  <2> HIDE DEF n3
  <2>3. Board(n3)
    BY <2>1, <2>2, QuietBoard
  <2>4. Consistent(n3.g) /\ SameTimer(m.g, n3.g)
    BY <2>1, <2>2, InterruptConsistent
  <2> QED
    BY <1>1, <2>3, <2>4 DEF Fit
<1>2. ASSUME s.kind # "coco3" PROVE Fit(n2, s) /\ SameTimer(m.g, n2.g)
  <2>1. Board(m) /\ Paged2(m) /\ GimeShape(m.g)
    BY <1>2 DEF Fit
  <2>2. Line2(m, n2)
    BY <2>1, Read2
  <2> HIDE DEF n2
  <2>3. Board(n2) /\ n2.g = m.g /\ Paged2(n2)
    BY <2>1, <2>2, Line2Keeps
  <2> QED
    BY <1>2, <2>1, <2>3, SameTimerItself DEF Fit
<1> HIDE DEF n2, n3
<1> QED
  BY <1>1, <1>2 DEF n2, n3

\* A write of either machine; what it does to the timer.
LEMMA WriteFit ==
  ASSUME NEW m, NEW s, Fit(m, s), NEW addr \in Address, NEW val
  PROVE  LET n == IF s.kind = "coco3" THEN AfterWrite(m, addr, val) ELSE AfterWrite2(m, addr, val)
         IN /\ Fit(n, s) /\ n.g.timer_fires = m.g.timer_fires
            /\ s.kind = "coco3" /\ addr = 65428 => Armed(m.g, n.g)
            /\ s.kind = "coco3" /\ addr = 65425 =>
                 IF (5 \in val) # TINS(m.g) THEN Armed(m.g, n.g) ELSE SameTimer(m.g, n.g)
            /\ addr = 65429 => SameCount(m.g, n.g)
            /\ s.kind # "coco3" \/ addr \notin {65425, 65428, 65429} => SameTimer(m.g, n.g)
<1> DEFINE n3 == AfterWrite(m, addr, val)
           n2 == AfterWrite2(m, addr, val)
           n == IF s.kind = "coco3" THEN n3 ELSE n2
<1>1. CASE s.kind = "coco3"
  <2>1. Board(m) /\ Consistent(m.g)
    BY <1>1 DEF Fit
  <2>2. /\ Board(n3) /\ Consistent(n3.g) /\ n3.g.timer_fires = m.g.timer_fires
        /\ addr = 65428 => Armed(m.g, n3.g)
        /\ addr = 65425 => IF (5 \in val) # TINS(m.g) THEN Armed(m.g, n3.g) ELSE SameTimer(m.g, n3.g)
        /\ addr = 65429 => SameCount(m.g, n3.g)
        /\ addr \notin {65425, 65428, 65429} => SameTimer(m.g, n3.g)
    BY <2>1, Write3
  <2> HIDE DEF n3
  <2>3. Fit(n3, s) /\ n = n3
    BY <1>1, <2>2 DEF Fit
  <2> HIDE DEF n
  <2> QED
    BY <1>1, <2>2, <2>3 DEF n, n3
<1>2. CASE s.kind # "coco3"
  <2>1. Board(m) /\ Paged2(m) /\ GimeShape(m.g)
    BY <1>2 DEF Fit
  <2>2. Board(n2) /\ Paged2(n2) /\ n2.g = m.g
    BY <2>1, Write2
  <2> HIDE DEF n2
  <2>3. Fit(n2, s) /\ n = n2
    BY <1>2, <2>1, <2>2 DEF Fit
  <2> HIDE DEF n
  <2>4. SameTimer(m.g, n.g) /\ SameCount(m.g, n.g) /\ n.g.timer_fires = m.g.timer_fires
    BY <2>2, <2>3 DEF SameTimer, SameCount
  <2> QED
    BY <1>2, <2>3, <2>4 DEF n, n2
<1> QED
  BY <1>1, <1>2

\* A reset of either machine.
LEMMA ResetFit ==
  ASSUME NEW m, NEW s, Bare(m), GimeShape(m.g)
  PROVE  LET n == IF s.kind = "coco3" THEN machine_reset_coco3(m) ELSE machine_reset_coco2(m)
         IN Fit(n, s) /\ (TimerType(m.g) => TimerType(n.g))
<1> DEFINE n3 == machine_reset_coco3(m)
           n2 == machine_reset_coco2(m)
<1>1. /\ Board(n3) /\ Consistent(n3.g) /\ n3.g.timer_fires = m.g.timer_fires
      /\ n3.g.timer_counter = 0 /\ n3.g.timer_left_x2 = 0
  BY Reset3
<1>2. Board(n2) /\ Paged2(n2) /\ n2.g = m.g
  BY Reset2
<1> HIDE DEF n2, n3
<1>3. CASE s.kind = "coco3"
  <2>1. Fit(n3, s) /\ (TimerType(m.g) => TimerType(n3.g))
    BY <1>1, <1>3 DEF Fit, TimerType
  <2> QED
    BY <1>3, <2>1 DEF n3
<1>4. CASE s.kind # "coco3"
  <2>1. Fit(n2, s) /\ (TimerType(m.g) => TimerType(n2.g))
    BY <1>2, <1>4 DEF Fit, TimerType
  <2> QED
    BY <1>4, <2>1 DEF n2
<1> QED
  BY <1>3, <1>4

\* The start of a frame.
LEMMA FrameFit ==
  ASSUME NEW m, NEW s, Fit(m, s)
  PROVE  LET n == IF s.kind = "coco3" THEN FrameStart(m) ELSE FrameStart2(m)
         IN Fit(n, s) /\ SameTimer(m.g, n.g)
<1> DEFINE n3 == FrameStart(m)
           n2 == FrameStart2(m)
<1>1. ASSUME s.kind = "coco3" PROVE Fit(n3, s) /\ SameTimer(m.g, n3.g)
  <2>1. Board(m) /\ Consistent(m.g)
    BY <1>1 DEF Fit
  <2>2. Quiet(m, n3, {"scanline"}) /\ n3.g = m.g
    BY <2>1, Frame3
  <2> HIDE DEF n3
  <2>3. Board(n3)
    BY <2>1, <2>2, QuietBoard
  <2> QED
    BY <1>1, <2>1, <2>2, <2>3, SameTimerItself DEF Fit
<1>2. ASSUME s.kind # "coco3" PROVE Fit(n2, s) /\ SameTimer(m.g, n2.g)
  <2>1. Board(m) /\ Paged2(m) /\ GimeShape(m.g)
    BY <1>2 DEF Fit
  <2>2. Line2(m, n2)
    BY <2>1, Frame2
  <2> HIDE DEF n2
  <2>3. Board(n2) /\ n2.g = m.g /\ Paged2(n2)
    BY <2>1, <2>2, Line2Keeps
  <2> QED
    BY <1>2, <2>1, <2>3, SameTimerItself DEF Fit
<1> HIDE DEF n2, n3
<1> QED
  BY <1>1, <1>2 DEF n2, n3

\* A line.
LEMMA LineFit ==
  ASSUME NEW m, NEW s, Fit(m, s), TimerType(m.g)
  PROVE  LET n == IF s.kind = "coco3" THEN machine_run_scanline_coco3(m) ELSE machine_run_scanline_coco2(m)
         IN /\ Fit(n, s)
            /\ IF s.kind = "coco3" THEN SameTimer(tcc1014_tick_scanline(m.g), n.g) ELSE SameTimer(m.g, n.g)
<1> DEFINE n3 == machine_run_scanline_coco3(m)
           n2 == machine_run_scanline_coco2(m)
<1>1. ASSUME s.kind = "coco3" PROVE Fit(n3, s) /\ SameTimer(tcc1014_tick_scanline(m.g), n3.g)
  <2>1. Board(m) /\ Consistent(m.g)
    BY <1>1 DEF Fit
  <2>2. /\ Quiet(m, n3, {"g", "irq", "firq", "scanline"})
        /\ Consistent(n3.g) /\ SameTimer(tcc1014_tick_scanline(m.g), n3.g)
    BY <2>1, Scanline3
  <2> HIDE DEF n3
  <2>3. Board(n3)
    BY <2>1, <2>2, QuietBoard
  <2> QED
    BY <1>1, <2>2, <2>3 DEF Fit
<1>2. ASSUME s.kind # "coco3" PROVE Fit(n2, s) /\ SameTimer(m.g, n2.g)
  <2>1. Board(m) /\ Paged2(m) /\ GimeShape(m.g)
    BY <1>2 DEF Fit
  <2>2. Line2(m, n2)
    BY <2>1, Scanline2
  <2> HIDE DEF n2
  <2>3. Board(n2) /\ n2.g = m.g /\ Paged2(n2)
    BY <2>1, <2>2, Line2Keeps
  <2> QED
    BY <1>2, <2>1, <2>3, SameTimerItself DEF Fit
<1> HIDE DEF n2, n3
<1> QED
  BY <1>1, <1>2 DEF n2, n3

-----------------------------------------------------------------------------
(* The actions.                                                             *)

\* The machine as machine_init leaves it.
LEMMA InitInv == ASSUME MachineInit PROVE MachineIInv
<1> DEFINE a == Allocated(scene)
           b == machine_init(scene)
           n == [b EXCEPT !.scanline = BETWEEN]
<1>1. scene \in Scenes /\ mach = n /\ hist = NoHist
  BY DEF MachineInit
<1>2. scene.ram_pages \in Nat \ {0} /\ Len(scene.setup) \in Nat
  BY <1>1, ScenesAssumption
<1>3. Bare(a) /\ a.g = tcc1014_init
  BY <1>2, MachineFieldsAre DEF Bare, Allocated
<1>4. GimeShape(a.g) /\ TimerType(a.g)
  BY <1>3 DEF GimeShape, TimerType, tcc1014_init
<1>5. b = IF scene.kind = "coco3" THEN machine_reset_coco3(a) ELSE machine_reset_coco2(a)
  BY DEF machine_init
<1> HIDE DEF a, b
<1>6. Fit(b, scene) /\ TimerType(b.g)
  BY <1>3, <1>4, <1>5, ResetFit
<1>7. Fit(n, scene) /\ n.g = b.g
  BY <1>6, FitFields
<1> HIDE DEF n
<1>8. /\ DOMAIN hist = HistFields /\ hist.setup \in 0 .. Len(scene.setup) /\ hist.since \in Nat /\ hist.fires \in Int
      /\ ~hist.armed
  BY <1>1, <1>2, HistFieldsAre DEF NoHist
<1>9. BoardInv(mach, scene, hist)
  BY <1>1, <1>6, <1>7, <1>8 DEF BoardInv, OnTime
<1> QED
  BY <1>9, InvIs

\* What the CPU may write and read
LEMMA SceneTypes ==
  ASSUME NEW s \in Scenes
  PROVE  /\ \A w \in s.writes : w[1] \in Address
         /\ \A k \in 1 .. Len(s.setup) : s.setup[k][1] \in Address
         /\ \A a \in s.reads : a \in Address
         /\ Len(s.setup) \in Nat
<1>1. s.writes \subseteq Address \X SUBSET Bits /\ s.setup \in Seq(Address \X SUBSET Bits) /\ s.reads \subseteq Address
  BY ScenesAssumption
<1>2. \A k \in 1 .. Len(s.setup) : s.setup[k] \in Address \X SUBSET Bits
  BY <1>1
<1> HIDE DEF Address
<1> QED
  BY <1>1, <1>2

\* The writes of the setup arm nothing.
LEMMA SetUpInv == ASSUME MachineIInv, SetUp PROVE MachineIInv'
<1> DEFINE i == hist.setup + 1
           addr == scene.setup[i][1]
           val == scene.setup[i][2]
           n == IF scene.kind = "coco3" THEN AfterWrite(mach, addr, val) ELSE AfterWrite2(mach, addr, val)
<1>1. BoardInv(mach, scene, hist)
  BY InvIs
<1>2. i \in 1 .. Len(scene.setup)
  BY <1>1, SceneTypes DEF SetUp, Ready, BoardInv
<1>3. addr \in Address
  BY <1>1, <1>2, SceneTypes DEF BoardInv
<1>4. mach' = n /\ scene' = scene /\ hist' = [hist EXCEPT !.setup = @ + 1, !.armed = FALSE]
  BY DEF SetUp, machine_write, IsCoco3
<1>5. Fit(mach, scene) /\ TimerType(mach.g) /\ scene \in Scenes
  BY <1>1 DEF BoardInv
<1> HIDE DEF addr, val
<1>6. /\ Fit(n, scene) /\ n.g.timer_fires = mach.g.timer_fires
      /\ scene.kind = "coco3" /\ addr = 65428 => Armed(mach.g, n.g)
      /\ scene.kind = "coco3" /\ addr = 65425 =>
           IF (5 \in val) # TINS(mach.g) THEN Armed(mach.g, n.g) ELSE SameTimer(mach.g, n.g)
      /\ addr = 65429 => SameCount(mach.g, n.g)
      /\ scene.kind # "coco3" \/ addr \notin {65425, 65428, 65429} => SameTimer(mach.g, n.g)
  BY <1>3, <1>5, WriteFit
<1> HIDE DEF n
<1>7. TimerType(n.g)
  <2>1. Armed(mach.g, n.g) \/ SameTimer(mach.g, n.g) \/ SameCount(mach.g, n.g)
    BY <1>6
  <2>2. Armed(mach.g, n.g) => TimerType(n.g)
    BY <1>5, ArmedLeft
  <2>3. SameTimer(mach.g, n.g) \/ SameCount(mach.g, n.g) => TimerType(n.g)
    BY <1>5, <1>6 DEF SameTimer, SameCount, TimerType
  <2> QED
    BY <2>1, <2>2, <2>3
<1>8. /\ DOMAIN hist' = HistFields /\ hist'.setup = i /\ hist'.since = hist.since /\ hist'.fires = hist.fires
      /\ hist'.armed = FALSE
  BY <1>1, <1>4 DEF BoardInv, HistFields
<1> HIDE DEF i
<1>9. BoardInv(mach', scene', hist')
  BY <1>1, <1>2, <1>4, <1>6, <1>7, <1>8 DEF BoardInv, OnTime
<1> QED
  BY <1>9, InvIsNext

\* A step whose history neither the setup nor the timer sees
LEMMA QuietStep ==
  ASSUME MachineIInv, Fit(mach', scene), SameTimer(mach.g, mach'.g), scene' = scene,
         DOMAIN hist' = DOMAIN hist, hist'.setup = hist.setup,
         hist'.since = hist.since, hist'.fires = hist.fires, hist'.armed => hist.armed
  PROVE  MachineIInv'
<1>1. BoardInv(mach, scene, hist)
  BY InvIs
<1>2. DOMAIN hist' = HistFields /\ hist'.setup \in 0 .. Len(scene.setup)
  BY <1>1 DEF BoardInv
<1> QED
  BY <1>1, <1>2, StepSame, InvIsNext

\* A write by the CPU, to memory or to any register (machine_write).
LEMMA CpuWriteInv ==
  ASSUME MachineIInv, NEW w \in scene.writes, CpuWrite(w[1], w[2])
  PROVE  MachineIInv'
<1> DEFINE addr == w[1]
           val == w[2]
           n == IF scene.kind = "coco3" THEN AfterWrite(mach, addr, val) ELSE AfterWrite2(mach, addr, val)
<1>1. BoardInv(mach, scene, hist)
  BY InvIs
<1>2. addr \in Address
  BY <1>1, SceneTypes DEF BoardInv
<1>3. mach' = n /\ scene' = scene /\ hist' = Noted(addr, val)
  BY DEF CpuWrite, machine_write, IsCoco3
<1>4. Fit(mach, scene) /\ TimerType(mach.g)
  BY <1>1 DEF BoardInv
<1> HIDE DEF addr, val
<1>5. /\ Fit(n, scene) /\ n.g.timer_fires = mach.g.timer_fires
      /\ scene.kind = "coco3" /\ addr = 65428 => Armed(mach.g, n.g)
      /\ scene.kind = "coco3" /\ addr = 65425 =>
           IF (5 \in val) # TINS(mach.g) THEN Armed(mach.g, n.g) ELSE SameTimer(mach.g, n.g)
      /\ addr = 65429 => SameCount(mach.g, n.g)
      /\ scene.kind # "coco3" \/ addr \notin {65425, 65428, 65429} => SameTimer(mach.g, n.g)
  BY <1>2, <1>4, WriteFit
<1> HIDE DEF n
<1> DEFINE arms == scene.kind = "coco3" /\ (addr = 65428 \/ (addr = 65425 /\ (5 \in val) # TINS(mach.g)))
<1>6. /\ DOMAIN hist' = HistFields /\ hist'.setup = hist.setup
      /\ arms => hist'.since = 0 /\ hist'.fires = mach.g.timer_fires
      /\ ~arms => hist'.since = hist.since /\ hist'.fires = hist.fires
      /\ ~arms /\ hist'.armed => hist.armed /\ addr # 65429
  <2> DEFINE steady == hist.steady /\ addr \notin VideoRegs
             listening == hist.listening /\ addr \notin IntRegs
             armed == IF arms THEN TRUE ELSE hist.armed /\ addr # 65429
             since == IF arms THEN 0 ELSE hist.since
             fires == IF arms THEN mach.g.timer_fires ELSE hist.fires
             k == [hist EXCEPT !.accesses = @ + 1, !.steady = steady, !.listening = listening,
                               !.armed = armed, !.since = since, !.fires = fires]
  <2>1. hist' = k
    BY <1>3 DEF Noted, Arms, IsCoco3
  <2> HIDE DEF steady, listening, since, fires, arms
  <2>3. ASSUME ~arms, armed PROVE hist.armed /\ addr # 65429
    <3>1. CASE arms
      BY <2>3, <3>1
    <3>2. CASE ~arms
      BY <2>3, <3>2
    <3> QED
      BY <3>1, <3>2
  <2> HIDE DEF armed
  <2>2. DOMAIN k = HistFields /\ k.setup = hist.setup /\ k.armed = armed /\ k.since = since /\ k.fires = fires
    BY <1>1 DEF BoardInv, HistFields
  <2> HIDE DEF k
  <2>4. hist'.armed = armed
    BY <2>1, <2>2
  <2>40. hist'.armed => armed
    BY <2>4
  <2>5. ~arms /\ hist'.armed => hist.armed /\ addr # 65429
    BY <2>3, <2>40
  <2>6. hist'.since = since /\ hist'.fires = fires
    BY <2>1, <2>2
  <2>7. /\ arms => hist'.since = 0 /\ hist'.fires = mach.g.timer_fires
        /\ ~arms => hist'.since = hist.since /\ hist'.fires = hist.fires
    BY <2>6 DEF since, fires
  <2> QED
    BY <2>1, <2>2, <2>5, <2>7
<1>7. CASE arms
  <2>1. Armed(mach.g, n.g)
    BY <1>5, <1>7
  <2>2. hist'.since = 0 /\ hist'.fires = mach.g.timer_fires
    BY <1>6, <1>7
  <2> HIDE DEF arms
  <2>3. BoardInv(n, scene, hist')
    BY <1>1, <1>5, <1>6, <2>1, <2>2, StepArmed
  <2> QED
    BY <1>3, <2>3, InvIsNext
<1>8. CASE ~arms /\ ~(scene.kind = "coco3" /\ addr = 65429)
  <2>1. SameTimer(mach.g, n.g)
    BY <1>5, <1>8
  <2>2. hist'.since = hist.since /\ hist'.fires = hist.fires
    BY <1>6, <1>8
  <2>20. hist'.armed => hist.armed
    BY <1>6, <1>8
  <2> HIDE DEF arms
  <2>3. hist'.setup \in 0 .. Len(scene.setup)
    BY <1>1, <1>6 DEF BoardInv
  <2>4. BoardInv(n, scene, hist')
    BY <1>1, <1>5, <1>6, <2>1, <2>2, <2>20, <2>3, StepSame
  <2> QED
    BY <1>3, <2>4, InvIsNext
<1>9. CASE ~arms /\ scene.kind = "coco3" /\ addr = 65429
  <2>1. SameCount(mach.g, n.g) /\ hist'.since = hist.since /\ hist'.fires = hist.fires
    BY <1>5, <1>6, <1>9
  <2>10. ~hist'.armed
    BY <1>6, <1>9
  <2> HIDE DEF arms
  <2>2. TimerType(n.g)
    BY <1>4, <1>5, <2>1 DEF SameCount, TimerType
  <2>3. hist'.setup \in 0 .. Len(scene.setup) /\ hist'.since \in Nat /\ hist'.fires \in Int
    BY <1>1, <1>6, <2>1 DEF BoardInv
  <2>4. BoardInv(n, scene, hist')
    BY <1>1, <1>5, <1>6, <2>1, <2>10, <2>2, <2>3, StepUnarmed
  <2> QED
    BY <1>3, <2>4, InvIsNext
<1> HIDE DEF arms
<1> QED
  BY <1>7, <1>8, <1>9

\* The history's counters
LEMMA CountedSame ==
  ASSUME NEW h, DOMAIN h = HistFields, NEW k, k = [h EXCEPT !.accesses = @ + 1]
  PROVE  /\ DOMAIN k = DOMAIN h /\ k.setup = h.setup /\ k.since = h.since /\ k.fires = h.fires
         /\ k.armed = h.armed
  BY DEF HistFields

\* A read by the CPU (machine_read).
LEMMA CpuReadInv ==
  ASSUME MachineIInv, NEW addr \in scene.reads, CpuRead(addr)
  PROVE  MachineIInv'
<1> DEFINE n == IF scene.kind = "coco3" THEN AfterRead(mach, addr, keys) ELSE AfterRead2(mach, addr, keys)
<1>1. BoardInv(mach, scene, hist)
  BY InvIs
<1>2. addr \in Address
  BY <1>1, SceneTypes DEF BoardInv
<1>3. mach' = n /\ scene' = scene /\ hist' = [hist EXCEPT !.accesses = @ + 1]
  BY DEF CpuRead, machine_read, IsCoco3
<1>4. Fit(n, scene) /\ SameTimer(mach.g, n.g)
  BY <1>1, <1>2, ReadFit DEF BoardInv
<1> HIDE DEF n
<1> QED
  BY <1>1, <1>3, <1>4, CountedSame, QuietStep DEF BoardInv

\* What happens beside the bus: interrupt entry and return, keys, the RS-232
\* Pak's line, the sound of the cartridge and the choice of mixer.
LEMMA BesideTheBus ==
  ASSUME MachineIInv,
         TakeInterrupt \/ Rti \/ AciaIrq \/ SscSample \/ ChangeMixer \/ (\E k \in scene.keys : Press(k))
  PROVE  MachineIInv'
<1>1. BoardInv(mach, scene, hist) /\ Fit(mach, scene) /\ DOMAIN hist = HistFields
  BY InvIs DEF BoardInv
<1>2. Mixed(mach.sound)
  BY <1>1 DEF Fit, Board, Heard
<1>3. scene' = scene
  BY DEF TakeInterrupt, Rti, AciaIrq, SscSample, ChangeMixer, Press
<1>4. hist' = hist \/ hist' = [hist EXCEPT !.accesses = @ + 1]
  BY DEF TakeInterrupt, Rti, AciaIrq, SscSample, ChangeMixer, Press
<1>5. \/ mach' = mach
      \/ \E v : mach' = [mach EXCEPT !.masked = v]
      \/ \E v : mach' = [mach EXCEPT !.acia_irq = v]
      \/ \E v : mach' = [mach EXCEPT !.sound = sound_set_ssc(mach.sound, v)]
      \/ \E v : mach' = [mach EXCEPT !.sound = sound_set_mixer(mach.sound, v)]
  <2>1. CASE TakeInterrupt
    BY <2>1 DEF TakeInterrupt
  <2>2. CASE Rti
    BY <2>2 DEF Rti
  <2>3. CASE AciaIrq
    <3> DEFINE v == ~mach.acia_irq
    <3>1. mach' = [mach EXCEPT !.acia_irq = v]
      BY <2>3 DEF AciaIrq
    <3> HIDE DEF v
    <3> QED
      BY <3>1
  <2>4. CASE SscSample
    BY <2>4 DEF SscSample
  <2>5. CASE ChangeMixer
    BY <2>5 DEF ChangeMixer
  <2>6. CASE \E k \in scene.keys : Press(k)
    BY <2>6 DEF Press
  <2> QED
    BY <2>1, <2>2, <2>3, <2>4, <2>5, <2>6
<1>6. Fit(mach', scene) /\ mach'.g = mach.g
  <2>1. CASE mach' = mach
    BY <1>1, <2>1
  <2>2. ASSUME NEW v, mach' = [mach EXCEPT !.masked = v] PROVE Fit(mach', scene) /\ mach'.g = mach.g
    BY <1>1, <2>2, FitFields
  <2>3. ASSUME NEW v, mach' = [mach EXCEPT !.acia_irq = v] PROVE Fit(mach', scene) /\ mach'.g = mach.g
    BY <1>1, <2>3, FitFields
  <2>4. ASSUME NEW v, mach' = [mach EXCEPT !.sound = sound_set_ssc(mach.sound, v)]
        PROVE  Fit(mach', scene) /\ mach'.g = mach.g
    <3> DEFINE t == sound_set_ssc(mach.sound, v)
    <3>1. Mixed(t) /\ SameMixer(mach.sound, t) /\ mach' = [mach EXCEPT !.sound = t]
      BY <1>2, <2>4, LevelsSet
    <3> HIDE DEF t
    <3> QED
      BY <1>1, <3>1, FitFields
  <2>5. ASSUME NEW v, mach' = [mach EXCEPT !.sound = sound_set_mixer(mach.sound, v)]
        PROVE  Fit(mach', scene) /\ mach'.g = mach.g
    <3> DEFINE t == sound_set_mixer(mach.sound, v)
    <3>1. Mixed(t) /\ SameMixer(mach.sound, t) /\ mach' = [mach EXCEPT !.sound = t]
      BY <1>2, <2>5, LevelsSet
    <3> HIDE DEF t
    <3> QED
      BY <1>1, <3>1, FitFields
  <2> QED
    BY <1>5, <2>1, <2>2, <2>3, <2>4, <2>5
<1>7. SameTimer(mach.g, mach'.g)
  BY <1>6, SameTimerItself
<1>8. /\ DOMAIN hist' = DOMAIN hist /\ hist'.setup = hist.setup /\ hist'.since = hist.since
      /\ hist'.fires = hist.fires /\ (hist'.armed => hist.armed)
  BY <1>1, <1>4, CountedSame
<1> QED
  BY <1>3, <1>6, <1>7, <1>8, QuietStep

\* The start of a frame, the lines, a reset.
LEMMA StartFrameInv == ASSUME MachineIInv, StartFrame PROVE MachineIInv'
<1> DEFINE n == IF scene.kind = "coco3" THEN FrameStart(mach) ELSE FrameStart2(mach)
           on == IsCoco3 /\ VBORD \in mach.g.registers[2] \ mach.g.irq_state
           k == [hist EXCEPT !.drawn = 0, !.borders = 0, !.steady = TRUE, !.listening = on]
<1>1. BoardInv(mach, scene, hist)
  BY InvIs
<1>2. mach' = n /\ scene' = scene /\ hist' = k
  BY DEF StartFrame, machine_run_frame, IsCoco3
<1>3. Fit(n, scene) /\ SameTimer(mach.g, n.g)
  BY <1>1, FrameFit DEF BoardInv
<1> HIDE DEF n, on
<1>4. /\ DOMAIN k = DOMAIN hist /\ k.setup = hist.setup /\ k.since = hist.since /\ k.fires = hist.fires
      /\ k.armed = hist.armed
  BY <1>1 DEF BoardInv, HistFields
<1> HIDE DEF k
<1> QED
  BY <1>2, <1>3, <1>4, QuietStep

\* A line of either machine (machine_run_scanline).
LEMMA ScanlineInv == ASSUME MachineIInv, Scanline PROVE MachineIInv'
<1> DEFINE n == IF scene.kind = "coco3" THEN machine_run_scanline_coco3(mach) ELSE machine_run_scanline_coco2(mach)
           d == hist.drawn + (IF mach.scanline >= 7 /\ mach'.g.active_area THEN 1 ELSE 0)
           b == hist.borders + (IF VBORD \in mach'.g.irq_state \ mach.g.irq_state THEN 1 ELSE 0)
           k3 == [hist EXCEPT !.lines = @ + 1, !.since = @ + 1, !.drawn = d, !.borders = b]
           k2 == [hist EXCEPT !.lines = @ + 1]
<1>1. BoardInv(mach, scene, hist)
  BY InvIs
<1>2. mach' = n /\ scene' = scene
  BY DEF Scanline, machine_run_scanline, IsCoco3
<1>3. hist' = IF scene.kind = "coco3" THEN k3 ELSE k2
  BY DEF Scanline, IsCoco3
<1>4. /\ Fit(n, scene)
      /\ IF scene.kind = "coco3" THEN SameTimer(tcc1014_tick_scanline(mach.g), n.g) ELSE SameTimer(mach.g, n.g)
  BY <1>1, LineFit DEF BoardInv
<1> HIDE DEF n, d, b
<1>5. /\ DOMAIN k3 = HistFields /\ k3.setup = hist.setup /\ k3.since = hist.since + 1 /\ k3.fires = hist.fires
      /\ k3.armed = hist.armed
      /\ DOMAIN k2 = DOMAIN hist /\ k2.setup = hist.setup /\ k2.since = hist.since /\ k2.fires = hist.fires
      /\ k2.armed = hist.armed
  BY <1>1 DEF BoardInv, HistFields
<1> HIDE DEF k3, k2
<1>6. CASE scene.kind = "coco3"
  <2>1. BoardInv(n, scene, k3)
    BY <1>1, <1>4, <1>5, <1>6, StepLine
  <2> QED
    BY <1>2, <1>3, <1>6, <2>1, InvIsNext
<1>7. CASE scene.kind # "coco3"
  BY <1>2, <1>3, <1>4, <1>5, <1>7, QuietStep
<1> QED
  BY <1>6, <1>7

\* A reset of the machine (machine_reset).
LEMMA ResetInv == ASSUME MachineIInv, Reset PROVE MachineIInv'
<1> DEFINE r == IF scene.kind = "coco3" THEN machine_reset_coco3(mach) ELSE machine_reset_coco2(mach)
           a == [r EXCEPT !.acia_irq = FALSE]
           n == [a EXCEPT !.scanline = BETWEEN]
           k == [hist EXCEPT !.accesses = @ + 1, !.armed = FALSE, !.steady = FALSE, !.listening = FALSE]
<1>1. BoardInv(mach, scene, hist)
  BY InvIs
<1>2. mach' = n /\ scene' = scene /\ hist' = k
  BY DEF Reset, machine_reset, IsCoco3
<1>3. Bare(mach) /\ GimeShape(mach.g) /\ TimerType(mach.g)
  BY <1>1, BoardIsBare, ConsistentFields DEF BoardInv, Fit
<1>4. Fit(r, scene) /\ TimerType(r.g)
  BY <1>3, ResetFit
<1> HIDE DEF r
<1>5. Fit(a, scene) /\ a.g = r.g
  BY <1>4, FitFields
<1> HIDE DEF a
<1>6. Fit(n, scene) /\ n.g = a.g
  BY <1>5, FitFields
<1> HIDE DEF n
<1>7. /\ DOMAIN k = HistFields /\ k.setup = hist.setup /\ k.since = hist.since /\ k.fires = hist.fires
      /\ k.armed = FALSE
  BY <1>1 DEF BoardInv, HistFields
<1> HIDE DEF k
<1>8. k.setup \in 0 .. Len(scene.setup) /\ k.since \in Nat /\ k.fires \in Int
  BY <1>1, <1>7 DEF BoardInv
<1>9. BoardInv(n, scene, k)
  BY <1>1, <1>4, <1>5, <1>6, <1>7, <1>8, StepUnarmed
<1> QED
  BY <1>2, <1>9, InvIsNext

-----------------------------------------------------------------------------
(* The theorems.                                                            *)

\* MachineIInv is inductive: what every access, line and reset of either machine
\* keeps (core/machine.cpp, core/tcc1014.cpp, core/sam6883.cpp, core/mc6821.cpp).
LEMMA MachineInvariant == MachineSpec => []MachineIInv
<1>1. MachineInit => MachineIInv
  BY InitInv
<1>2. MachineIInv /\ [MachineNext]_mvars => MachineIInv'
  <2> SUFFICES ASSUME MachineIInv, [MachineNext]_mvars PROVE MachineIInv'
    OBVIOUS
  <2>1. CASE \E w \in scene.writes : CpuWrite(w[1], w[2])
    BY <2>1, CpuWriteInv
  <2>2. CASE \E addr \in scene.reads : CpuRead(addr)
    BY <2>2, CpuReadInv
  <2>3. CASE SetUp
    BY <2>3, SetUpInv
  <2>4. CASE TakeInterrupt \/ Rti \/ AciaIrq \/ SscSample \/ ChangeMixer \/ (\E k \in scene.keys : Press(k))
    BY <2>4, BesideTheBus
  <2>5. CASE Scanline
    BY <2>5, ScanlineInv
  <2>6. CASE StartFrame
    BY <2>6, StartFrameInv
  <2>7. CASE Reset
    BY <2>7, ResetInv
  <2>8. CASE UNCHANGED mvars \/ Over
    <3>1. mach' = mach /\ keys' = keys /\ scene' = scene /\ hist' = hist
      BY <2>8 DEF mvars, Over
    <3>2. BoardInv(mach', scene', hist')
      BY <3>1, InvIs
    <3> QED
      BY <3>2, InvIsNext
  <2> QED
    BY <2>1, <2>2, <2>3, <2>4, <2>5, <2>6, <2>7, <2>8 DEF MachineNext
<1> QED
  BY <1>1, <1>2, PTL DEF MachineSpec

\* The mixer's inputs and its level are those of the PIA pins, in whatever order a
\* program writes data, direction and control (sound_pia0_written, sound_pia1_written).
THEOREM MixerAlwaysFollows == MachineSpec => []MixerFollowsPins
<1>1. MachineIInv => MixerFollowsPins
  BY DEF MachineIInv, MixerFollowsPins
<1> QED
  BY <1>1, MachineInvariant, PTL

\* Since it was last armed, the GIME's timer has expired as often as its period
\* fits in the lines since, at either rate (tcc1014_tick_scanline).
THEOREM TimerAlwaysKeepsRate == MachineSpec => []TimerKeepsRate
<1>1. MachineIInv => TimerKeepsRate
  <2> SUFFICES ASSUME MachineIInv, IsCoco3 /\ hist.armed
               PROVE  mach.g.timer_fires - hist.fires =
                        IF Reload(mach.g) = 0 THEN 0
                        ELSE IF TINS(mach.g)
                        THEN (TIMER_FAST_X2_PER_LINE * hist.since) \div (2 * (Reload(mach.g) + TIMER_OFFSET))
                        ELSE hist.since \div (Reload(mach.g) + TIMER_OFFSET)
    BY DEF TimerKeepsRate
  <2> DEFINE n == mach.g.timer_fires - hist.fires
  <2>1. TimerType(mach.g) /\ hist.since \in Nat /\ TimerLeft(mach.g, hist.since, n)
    BY DEF MachineIInv
  <2>2. n \in Int
    BY DEF MachineIInv, TimerType
  <2> HIDE DEF n
  <2>3. n = IF Reload(mach.g) = 0 THEN 0
            ELSE IF TINS(mach.g)
            THEN (TIMER_FAST_X2_PER_LINE * hist.since) \div (2 * (Reload(mach.g) + TIMER_OFFSET))
            ELSE hist.since \div (Reload(mach.g) + TIMER_OFFSET)
    BY <2>1, <2>2, RateFollows
  <2> QED
    BY <2>3 DEF n
<1> QED
  BY <1>1, MachineInvariant, PTL

\* The 8 KB slot of an address: slot 7 from $E000 up.
LEMMA SlotOf ==
  ASSUME NEW addr \in Address
  PROVE  /\ addr \div 8192 \in 0 .. 7 /\ addr = 8192 * (addr \div 8192) + (addr % 8192)
         /\ addr % 8192 \in Nat /\ addr % 8192 < 8192
         /\ (addr >= 57344) => (addr \div 8192 = 7)
<1> DEFINE n == 8192
           q == addr \div n
           r == addr % n
<1>1. addr \in Int /\ addr >= 0 /\ addr < 65536 /\ n \in Nat \ {0} /\ n = 8192
  BY AddressIs
<1> HIDE DEF n
<1>2. addr = n * q + r /\ q \in Int
  BY <1>1, ModDiv
<1>3. r \in 0 .. n-1
  BY <1>1, ModRange
<1> HIDE DEF q, r
<1>4. q \in 0 .. 7 /\ ((addr >= 57344) => (q = 7)) /\ r \in Nat /\ r < n
  BY <1>1, <1>2, <1>3
<1>5. addr = 8192 * q + r /\ q \in 0 .. 7 /\ ((addr >= 57344) => (q = 7)) /\ r \in Nat /\ r < 8192
  BY <1>1, <1>2, <1>4
<1> QED
  BY <1>5 DEF q, r, n

\* The bank of a slot is a number.
LEMMA BankType ==
  ASSUME NEW g, Mapped(g), NEW i \in 0 .. 7
  PROVE  BankOf(g, i) \in Nat /\ BankOf(g, i) % g.ram_pages \in Nat
<1>1. TR(g) + i \in 0 .. 15
  BY DEF TR
<1>2. BankOf(g, i) \in Nat
  BY <1>1 DEF BankOf, Mapped
<1> DEFINE b == BankOf(g, i)
           n == g.ram_pages
<1>3. b \in Int /\ n \in Nat \ {0}
  BY <1>2 DEF Mapped
<1> HIDE DEF b, n
<1>4. b % n \in 0 .. n-1
  BY <1>3, ModRange
<1>5. b % n \in Nat
  BY <1>3, <1>4
<1> QED
  BY <1>2, <1>5 DEF b, n

\* The ranges of addresses that the short cuts know.
BelowTop(addr) == addr < 65024
InTop(addr) == addr >= 65024 /\ addr < 65280
BelowIo(addr) == addr < 65280
GimeIrqs(addr) == addr \in {65426, 65427}
GimeInit1(addr) == addr = 65425
DacPort(addr) == addr = 65312
AtVectors(addr) == addr >= 65504

\* Below $FF00 the decode is the main one, from $FF90 to $FFDF the GIME's own.
LEMMA DecodesMain ==
  ASSUME NEW g, NEW addr \in Address
  PROVE  /\ BelowIo(addr) => (tcc1014_decode(g, addr) = DecodeMain(g, addr))
         /\ (GimeIrqs(addr) \/ GimeInit1(addr)) => (tcc1014_decode(g, addr).reg = TRUE)
         /\ AtVectors(addr) => /\ tcc1014_decode(g, addr).reg = FALSE /\ tcc1014_decode(g, addr).RAS = FALSE
                               /\ tcc1014_decode(g, addr).S = 0
         /\ DacPort(addr) => /\ tcc1014_decode(g, addr).reg = FALSE /\ tcc1014_decode(g, addr).RAS = FALSE
                             /\ tcc1014_decode(g, addr).S = 2
<1>0. addr \in Nat
  BY AddressIs
<1> DEFINE d == tcc1014_decode(g, addr)
           main == DecodeMain(g, addr)
           chip == IF (addr \div 16) % 2 = 0 THEN 2 ELSE 7
           pia == [S |-> chip, RAS |-> FALSE, page |-> 0, reg |-> FALSE]
           disk == [S |-> IF MC2(g) \/ addr >= 65360 THEN 6 ELSE 7, RAS |-> FALSE, page |-> 0, reg |-> FALSE]
           none == [S |-> 7, RAS |-> FALSE, page |-> 0, reg |-> FALSE]
           own == [S |-> 7, RAS |-> FALSE, page |-> 0, reg |-> TRUE]
           rom == [S |-> 0, RAS |-> FALSE, page |-> 0, reg |-> FALSE]
<1>1. d = CASE addr < 65280 -> main
            [] 65280 <= addr /\ addr < 65344 -> pia
            [] 65344 <= addr /\ addr < 65376 -> disk
            [] 65376 <= addr /\ addr < 65424 -> none
            [] 65424 <= addr /\ addr < 65504 -> own
            [] OTHER -> rom
  BY DEF tcc1014_decode, Decoded
<1>2. (addr = 65312) => (chip = 2)
  <2>1. (65312 \div 16) % 2 = 0
    OBVIOUS
  <2> QED
    BY <2>1
<1> HIDE DEF chip
<1>3. pia.S = chip /\ pia.RAS = FALSE /\ pia.reg = FALSE
  OBVIOUS
<1>4. own.reg = TRUE /\ rom.reg = FALSE /\ rom.RAS = FALSE /\ rom.S = 0
  OBVIOUS
<1> HIDE DEF d, main, pia, disk, none, own, rom
<1>5. /\ (addr < 65280) => (d = main)
      /\ (addr \in {65425, 65426, 65427}) => (d = own)
      /\ (addr >= 65504) => (d = rom)
      /\ (addr = 65312) => (d = pia)
  BY <1>0, <1>1
<1> QED
  BY <1>2, <1>3, <1>4, <1>5 DEF d, main, BelowIo, GimeIrqs, GimeInit1, AtVectors, DacPort

\* Where nothing on the cartridge port takes the address, the chains follow
\* the decode.
LEMMA ChainReads ==
  ASSUME NEW c, NEW addr,
         ~IsAcia(c, addr), ~IsSsc(c, addr), ~IsVhd(c, addr)
  PROVE  /\ (tcc1014_decode(c.g, addr).reg = TRUE) => (ReadChain(c, addr) = <<"gime", addr>>)
         /\ (tcc1014_decode(c.g, addr).reg = FALSE /\ tcc1014_decode(c.g, addr).RAS = TRUE) =>
              (ReadChain(c, addr) = Ram(tcc1014_decode(c.g, addr).page, addr))
         /\ (tcc1014_decode(c.g, addr).reg = FALSE /\ tcc1014_decode(c.g, addr).RAS = FALSE
          /\ tcc1014_decode(c.g, addr).S = 0) => (ReadChain(c, addr) = Rom(addr))
<1> DEFINE d == tcc1014_decode(c.g, addr)
           device ==
             CASE d.S = 0 -> Rom(addr)
               [] d.S = 1 -> Cartridge(c, addr)
               [] d.S = 2 -> <<IF (addr \div 32) % 2 = 0 THEN "pia0" ELSE "pia1", addr % 4>>
               [] d.S = 6 -> IF IsBecker(c, addr) THEN <<"becker", addr>> ELSE <<"fdc", addr>>
               [] OTHER -> Nothing
           acia == <<"acia", addr % 4>>
           page == Ram(d.page, addr)
<1>1. ReadChain(c, addr)
        = CASE IsAcia(c, addr) -> acia
            [] IsSsc(c, addr) -> <<"ssc", addr>>
            [] IsVhd(c, addr) -> <<"vhd", addr>>
            [] OTHER -> IF d.reg THEN <<"gime", addr>> ELSE IF d.RAS THEN page ELSE device
  BY DEF ReadChain
<1>2. (d.S = 0) => (device = Rom(addr))
  OBVIOUS
<1> HIDE DEF d, acia, page, device
<1>3. ReadChain(c, addr) = IF d.reg THEN <<"gime", addr>> ELSE IF d.RAS THEN page ELSE device
  BY <1>1
<1> QED
  BY <1>2, <1>3 DEF d, page

\* The same for a write.
LEMMA ChainWrites ==
  ASSUME NEW c, NEW addr,
         ~IsAcia(c, addr), ~IsOrch90(c, addr), ~IsSsc(c, addr), ~IsVhd(c, addr)
  PROVE  /\ (tcc1014_decode(c.g, addr).reg = TRUE) => (WriteChain(c, addr) = <<"gime", addr>>)
         /\ (tcc1014_decode(c.g, addr).reg = FALSE /\ tcc1014_decode(c.g, addr).RAS = TRUE) =>
              (WriteChain(c, addr) = Ram(tcc1014_decode(c.g, addr).page, addr))
         /\ (tcc1014_decode(c.g, addr).reg = FALSE /\ tcc1014_decode(c.g, addr).RAS = FALSE
          /\ tcc1014_decode(c.g, addr).S = 2 /\ (addr \div 32) % 2 # 0) =>
              (WriteChain(c, addr) = <<"pia1", addr % 4>>)
<1> DEFINE d == tcc1014_decode(c.g, addr)
           which == IF (addr \div 32) % 2 = 0 THEN "pia0" ELSE "pia1"
           low == addr % 4
           port == IF IsBecker(c, addr) THEN <<"becker", addr>>
                   ELSE IF "banked" \in c.fitted THEN <<"bank", addr>> ELSE <<"fdc", addr>>
           device == CASE d.S = 2 -> <<which, low>> [] d.S = 6 -> port [] OTHER -> Nothing
           acia == <<"acia", low>>
           page == Ram(d.page, addr)
<1>1. WriteChain(c, addr)
        = CASE IsAcia(c, addr) -> acia
            [] IsOrch90(c, addr) -> <<"orch90", addr>>
            [] IsSsc(c, addr) -> <<"ssc", addr>>
            [] IsVhd(c, addr) -> <<"vhd", addr>>
            [] OTHER -> IF d.reg THEN <<"gime", addr>> ELSE IF d.RAS THEN page ELSE device
  BY DEF WriteChain
<1>2. ((addr \div 32) % 2 # 0) => (which = "pia1")
  OBVIOUS
<1> HIDE DEF which, low, port
<1>3. (d.S = 2) => (device = <<which, low>>)
  OBVIOUS
<1> HIDE DEF d, acia, page, device
<1>4. WriteChain(c, addr) = IF d.reg THEN <<"gime", addr>> ELSE IF d.RAS THEN page ELSE device
  BY <1>1
<1> QED
  BY <1>2, <1>3, <1>4 DEF d, page, low

\* The slot of an address, the page of a bank, the banks that hold ROM.
Slot(addr) == addr \div 8192
PageIn(g, bank) == bank % g.ram_pages
RomBank(bank) == bank % 64 >= 60

\* RAM at the bank of the slot below $FE00, unless that bank is ROM.
LEMMA LowDecode ==
  ASSUME NEW g, NEW addr \in Address, BelowTop(addr), TY(g) \/ ~RomBank(BankOf(g, Slot(addr)))
  PROVE  /\ DecodeMain(g, addr).RAS = TRUE /\ DecodeMain(g, addr).reg = FALSE
         /\ DecodeMain(g, addr).page = PageIn(g, BankOf(g, Slot(addr)))
<1> DEFINE top == addr >= 65024 /\ MC3(g)
           bank == IF top THEN 56 + addr \div 8192 ELSE BankOf(g, addr \div 8192)
           page == bank % g.ram_pages
           rom == ~TY(g) /\ bank % 64 >= 60
           cart == IF MC1(g) THEN MC0(g) ELSE bank % 64 >= 62
           S == IF rom THEN IF cart THEN 1 ELSE 0 ELSE 7
           RAS == top \/ ~rom
<1>1. DecodeMain(g, addr) = Decoded(S, RAS, page, FALSE)
  BY DEF DecodeMain
<1>2. ~top
  BY AddressIs DEF BelowTop
<1> HIDE DEF top, S, RAS, page, rom
<1>3. bank = BankOf(g, Slot(addr))
  BY <1>2 DEF Slot
<1> HIDE DEF bank
<1>4. page = PageIn(g, BankOf(g, Slot(addr))) /\ ~rom
  BY <1>3 DEF page, rom, PageIn, RomBank
<1>5. RAS = TRUE
  BY <1>4 DEF RAS
<1>6. DecodeMain(g, addr) = Decoded(S, TRUE, page, FALSE)
  BY <1>1, <1>5
<1> QED
  BY <1>4, <1>6 DEF Decoded

\* The top page from $FE00 to $FEFF with the vector page fixed.
LEMMA TopDecode ==
  ASSUME NEW g, NEW addr \in Address, InTop(addr), MC3(g)
  PROVE  /\ DecodeMain(g, addr).RAS = TRUE /\ DecodeMain(g, addr).reg = FALSE
         /\ DecodeMain(g, addr).page = PageIn(g, 56 + Slot(addr))
<1> DEFINE top == addr >= 65024 /\ MC3(g)
           bank == IF top THEN 56 + addr \div 8192 ELSE BankOf(g, addr \div 8192)
           page == bank % g.ram_pages
           rom == ~TY(g) /\ bank % 64 >= 60
           cart == IF MC1(g) THEN MC0(g) ELSE bank % 64 >= 62
           S == IF rom THEN IF cart THEN 1 ELSE 0 ELSE 7
           RAS == top \/ ~rom
<1>1. DecodeMain(g, addr) = Decoded(S, RAS, page, FALSE)
  BY DEF DecodeMain
<1>2. top
  BY AddressIs DEF InTop
<1> HIDE DEF top, S, RAS, page, rom
<1>3. bank = 56 + Slot(addr)
  BY <1>2 DEF Slot
<1> HIDE DEF bank
<1>4. page = PageIn(g, 56 + Slot(addr))
  BY <1>3 DEF page, PageIn
<1>5. RAS = TRUE
  BY <1>2 DEF RAS
<1>6. DecodeMain(g, addr) = Decoded(S, TRUE, page, FALSE)
  BY <1>1, <1>5
<1> QED
  BY <1>4, <1>6 DEF Decoded

\* Where no cartridge answers: everywhere but in the hardware's pages.
LEMMA NoCartridge ==
  ASSUME NEW c, NEW addr \in Address,
         BelowTop(addr) \/ BelowIo(addr) \/ DacPort(addr) \/ GimeIrqs(addr) \/ GimeInit1(addr) \/ AtVectors(addr)
  PROVE  ~IsAcia(c, addr) /\ ~IsOrch90(c, addr) /\ ~IsSsc(c, addr) /\ ~IsVhd(c, addr)
<1>1. addr \in Nat
  BY AddressIs
<1>2. addr < 65345 \/ addr \in {65425, 65426, 65427} \/ addr >= 65504
  BY <1>1 DEF BelowTop, BelowIo, DacPort, GimeIrqs, GimeInit1, AtVectors
<1> QED
  BY <1>1, <1>2 DEF IsAcia, IsOrch90, IsSsc, IsVhd

\* Both of the ranges below $FF00.
LEMMA Ranges ==
  ASSUME NEW addr \in Address
  PROVE  /\ BelowTop(addr) => BelowIo(addr) /\ ~InTop(addr)
         /\ InTop(addr) => BelowIo(addr) /\ ~BelowTop(addr) /\ Slot(addr) = 7
<1>1. addr \in Nat
  BY AddressIs
<1>2. InTop(addr) => Slot(addr) = 7
  BY <1>1, SlotOf DEF InTop, Slot
<1> QED
  BY <1>1, <1>2 DEF BelowTop, BelowIo, InTop

\* Below $FE00 RAM answers a read where the bank is no ROM.
LEMMA RamAnswers ==
  ASSUME NEW c, NEW addr \in Address, BelowTop(addr), TY(c.g) \/ ~RomBank(BankOf(c.g, Slot(addr)))
  PROVE  ReadChain(c, addr) = Ram(PageIn(c.g, BankOf(c.g, Slot(addr))), addr)
<1>1. BelowIo(addr)
  BY Ranges
<1>2. tcc1014_decode(c.g, addr) = DecodeMain(c.g, addr)
  BY <1>1, DecodesMain
<1>3. ~IsAcia(c, addr) /\ ~IsSsc(c, addr) /\ ~IsVhd(c, addr)
  BY NoCartridge
<1>4. /\ tcc1014_decode(c.g, addr).RAS = TRUE /\ tcc1014_decode(c.g, addr).reg = FALSE
      /\ tcc1014_decode(c.g, addr).page = PageIn(c.g, BankOf(c.g, Slot(addr)))
  BY <1>2, LowDecode
<1>5. ReadChain(c, addr) = Ram(tcc1014_decode(c.g, addr).page, addr)
  BY <1>3, <1>4, ChainReads
<1> QED
  BY <1>4, <1>5

\* In $FE00 to $FEFF the top page, with the vector page fixed.
LEMMA TopAnswers ==
  ASSUME NEW c, NEW addr \in Address, InTop(addr), MC3(c.g)
  PROVE  /\ ReadChain(c, addr) = Ram(63 % c.g.ram_pages, addr)
         /\ WriteChain(c, addr) = Ram(63 % c.g.ram_pages, addr)
<1>1. BelowIo(addr) /\ Slot(addr) = 7
  BY Ranges
<1>2. PageIn(c.g, 56 + Slot(addr)) = 63 % c.g.ram_pages
  <2>1. 56 + Slot(addr) = 63
    BY <1>1
  <2> QED
    BY <2>1 DEF PageIn
<1>3. /\ DecodeMain(c.g, addr).RAS = TRUE /\ DecodeMain(c.g, addr).reg = FALSE
      /\ DecodeMain(c.g, addr).page = PageIn(c.g, 56 + Slot(addr))
  BY TopDecode
<1>4. tcc1014_decode(c.g, addr) = DecodeMain(c.g, addr)
  BY <1>1, DecodesMain
<1>5. ~IsAcia(c, addr) /\ ~IsOrch90(c, addr) /\ ~IsSsc(c, addr) /\ ~IsVhd(c, addr)
  BY <1>1, NoCartridge
<1> DEFINE page == PageIn(c.g, 56 + Slot(addr))
<1> HIDE DEF page
<1>6. ReadChain(c, addr) = Ram(page, addr) /\ WriteChain(c, addr) = Ram(page, addr)
  <2>1. /\ tcc1014_decode(c.g, addr).RAS = TRUE /\ tcc1014_decode(c.g, addr).reg = FALSE
        /\ tcc1014_decode(c.g, addr).page = page
    BY <1>3, <1>4 DEF page
  <2>2. ReadChain(c, addr) = Ram(tcc1014_decode(c.g, addr).page, addr)
    BY <1>5, <2>1, ChainReads
  <2>3. WriteChain(c, addr) = Ram(tcc1014_decode(c.g, addr).page, addr)
    BY <1>5, <2>1, ChainWrites
  <2> QED
    BY <2>1, <2>2, <2>3
<1> QED
  BY <1>2, <1>6 DEF page

\* The hot addresses: the GIME's registers, the vectors, the DAC's port.
LEMMA HotAddresses ==
  ASSUME NEW c, NEW addr \in Address
  PROVE  /\ GimeIrqs(addr) => (ReadChain(c, addr) = <<"gime", addr>>)
         /\ AtVectors(addr) => (ReadChain(c, addr) = Rom(addr))
         /\ GimeInit1(addr) => (WriteChain(c, addr) = <<"gime", addr>>)
         /\ DacPort(addr) => (WriteChain(c, addr) = <<"pia1", 0>>)
<1>1. ASSUME GimeIrqs(addr) PROVE ReadChain(c, addr) = <<"gime", addr>>
  BY <1>1, DecodesMain, NoCartridge, ChainReads
<1>2. ASSUME AtVectors(addr) PROVE ReadChain(c, addr) = Rom(addr)
  BY <1>2, DecodesMain, NoCartridge, ChainReads
<1>3. ASSUME GimeInit1(addr) PROVE WriteChain(c, addr) = <<"gime", addr>>
  BY <1>3, DecodesMain, NoCartridge, ChainWrites
<1>4. ASSUME DacPort(addr) PROVE WriteChain(c, addr) = <<"pia1", 0>>
  <2>1. /\ tcc1014_decode(c.g, addr).reg = FALSE /\ tcc1014_decode(c.g, addr).RAS = FALSE
        /\ tcc1014_decode(c.g, addr).S = 2
    BY <1>4, DecodesMain
  <2>2. ~IsAcia(c, addr) /\ ~IsOrch90(c, addr) /\ ~IsSsc(c, addr) /\ ~IsVhd(c, addr)
    BY <1>4, NoCartridge
  <2>3. (65312 \div 32) % 2 # 0 /\ 65312 % 4 = 0
    OBVIOUS
  <2>4. (addr \div 32) % 2 # 0 /\ addr % 4 = 0
    BY <1>4, <2>3 DEF DacPort
  <2>5. WriteChain(c, addr) = <<"pia1", addr % 4>>
    BY <2>1, <2>2, <2>4, ChainWrites
  <2> QED
    BY <2>4, <2>5
<1> QED
  BY <1>1, <1>2, <1>3, <1>4

\* What Mapped says of the slot of an address.
LEMMA SlotMapped ==
  ASSUME NEW g, Mapped(g), NEW addr \in Address
  PROVE  LET bank == BankOf(g, Slot(addr))
         IN  /\ g.active_banks[Slot(addr)] = bank /\ bank \in Nat
             /\ g.wr_page[Slot(addr)] = PageIn(g, bank)
             /\ (TY(g) \/ ~RomBank(bank)) => (g.rd_page[Slot(addr)] = PageIn(g, bank))
             /\ ~(TY(g) \/ ~RomBank(bank)) => (g.rd_page[Slot(addr)] = NoPage)
             /\ ((bank % 64 < 60) <=> ~RomBank(bank))
<1> DEFINE slot == Slot(addr)
           bank == BankOf(g, slot)
           m == bank % 64
           page == bank % g.ram_pages
<1>1. slot \in 0 .. 7
  BY SlotOf DEF Slot
<1> HIDE DEF slot
<1>2. bank \in Nat
  BY <1>1, BankType
<1>3. /\ g.active_banks[slot] = bank /\ g.wr_page[slot] = page
      /\ g.rd_page[slot] = IF TY(g) \/ m < 60 THEN page ELSE NoPage
  BY <1>1 DEF Mapped
<1> HIDE DEF bank, page
<1>4. m \in Int
  BY <1>2
<1> HIDE DEF m
<1>5. (m < 60) <=> ~(m >= 60)
  BY <1>4
<1>6. RomBank(bank) <=> (m >= 60)
  BY DEF RomBank, m
<1>7. page = PageIn(g, bank)
  BY DEF PageIn, page
<1>8. (bank % 64 < 60) <=> ~RomBank(bank)
  BY <1>5, <1>6 DEF m
<1>9. /\ g.active_banks[slot] = bank /\ bank \in Nat
      /\ g.wr_page[slot] = PageIn(g, bank)
      /\ (TY(g) \/ ~RomBank(bank)) => (g.rd_page[slot] = PageIn(g, bank))
      /\ ~(TY(g) \/ ~RomBank(bank)) => (g.rd_page[slot] = NoPage)
  BY <1>2, <1>3, <1>5, <1>6, <1>7
<1> QED
  BY <1>8, <1>9 DEF bank, slot

\* The CPU core and machine_read_coco3, by the ranges of addresses.
LEMMA ReadsByRange ==
  ASSUME NEW c, NEW addr \in Address
  PROVE  /\ machine_read_coco3(c, addr) =
              LET bank == c.g.active_banks[Slot(addr)]
              IN IF BelowTop(addr) /\ (TY(c.g) \/ bank % 64 < 60) THEN Ram(PageIn(c.g, bank), addr)
                 ELSE IF GimeIrqs(addr) THEN <<"gime", addr>>
                 ELSE IF AtVectors(addr) THEN Rom(addr)
                 ELSE IF InTop(addr) /\ MC3(c.g) THEN Ram(63 % c.g.ram_pages, addr)
                 ELSE ReadChain(c, addr)
         /\ CpuReads(c, addr) =
              IF BelowTop(addr) /\ c.g.rd_page[Slot(addr)] # NoPage THEN Ram(c.g.rd_page[Slot(addr)], addr)
              ELSE machine_read_coco3(c, addr)
<1>1. (addr \in 65024 .. 65279) <=> InTop(addr)
  BY AddressIs DEF InTop
<1> DEFINE top == addr \in 65024 .. 65279
           bank == c.g.active_banks[Slot(addr)]
           chain == ReadChain(c, addr)
           ram == Ram(PageIn(c.g, bank), addr)
           fixed == Ram(63 % c.g.ram_pages, addr)
           rest == IF GimeIrqs(addr) THEN <<"gime", addr>>
                   ELSE IF AtVectors(addr) THEN Rom(addr)
                   ELSE IF top /\ MC3(c.g) THEN fixed ELSE chain
<1>2. machine_read_coco3(c, addr) = IF BelowTop(addr) /\ (TY(c.g) \/ bank % 64 < 60) THEN ram ELSE rest
  BY DEF machine_read_coco3, BelowTop, GimeIrqs, AtVectors, PageIn, Slot
<1>3. CpuReads(c, addr) =
        IF BelowTop(addr) /\ c.g.rd_page[Slot(addr)] # NoPage THEN Ram(c.g.rd_page[Slot(addr)], addr)
        ELSE machine_read_coco3(c, addr)
  BY DEF CpuReads, BelowTop, Slot
<1> HIDE DEF top, fixed, chain
<1>4. rest = IF GimeIrqs(addr) THEN <<"gime", addr>>
             ELSE IF AtVectors(addr) THEN Rom(addr)
             ELSE IF InTop(addr) /\ MC3(c.g) THEN fixed ELSE chain
  <2>1. top <=> InTop(addr)
    BY <1>1 DEF top
  <2> QED
    BY <2>1
<1> HIDE DEF rest, ram, bank
<1> QED
  BY <1>2, <1>3, <1>4 DEF fixed, chain, ram, bank

\* The short cuts of the CPU core and of machine_read_coco3 read what the
\* chain reads.
LEMMA Reads3Agree ==
  ASSUME NEW c, Mapped(c.g), NEW addr \in Address
  PROVE  CpuReads(c, addr) = ReadChain(c, addr)
<1> DEFINE bank == BankOf(c.g, Slot(addr))
           page == PageIn(c.g, bank)
           fixed == Ram(63 % c.g.ram_pages, addr)
           low == bank % 64 < 60
           old == c.g.active_banks[Slot(addr)]
           rd == c.g.rd_page[Slot(addr)]
<1>1. /\ old = bank /\ (low <=> ~RomBank(bank))
      /\ (TY(c.g) \/ ~RomBank(bank)) => (rd = page)
      /\ ~(TY(c.g) \/ ~RomBank(bank)) => (rd = NoPage)
  BY SlotMapped
<1>2. machine_read_coco3(c, addr)
        = IF BelowTop(addr) /\ (TY(c.g) \/ low) THEN Ram(page, addr)
          ELSE IF GimeIrqs(addr) THEN <<"gime", addr>>
          ELSE IF AtVectors(addr) THEN Rom(addr)
          ELSE IF InTop(addr) /\ MC3(c.g) THEN fixed ELSE ReadChain(c, addr)
  <2>1. machine_read_coco3(c, addr)
          = IF BelowTop(addr) /\ (TY(c.g) \/ old % 64 < 60) THEN Ram(PageIn(c.g, old), addr)
            ELSE IF GimeIrqs(addr) THEN <<"gime", addr>>
            ELSE IF AtVectors(addr) THEN Rom(addr)
            ELSE IF InTop(addr) /\ MC3(c.g) THEN fixed ELSE ReadChain(c, addr)
    BY ReadsByRange
  <2> HIDE DEF old, bank
  <2> QED
    BY <1>1, <2>1
<1>3. CpuReads(c, addr) = IF BelowTop(addr) /\ rd # NoPage THEN Ram(rd, addr) ELSE machine_read_coco3(c, addr)
  BY ReadsByRange
<1>4. ASSUME BelowTop(addr), TY(c.g) \/ ~RomBank(bank) PROVE ReadChain(c, addr) = Ram(page, addr)
  BY <1>4, RamAnswers
<1>5. /\ GimeIrqs(addr) => (ReadChain(c, addr) = <<"gime", addr>>)
      /\ AtVectors(addr) => (ReadChain(c, addr) = Rom(addr))
  BY HotAddresses
<1>6. (InTop(addr) /\ MC3(c.g)) => (ReadChain(c, addr) = fixed)
  BY TopAnswers
<1> HIDE DEF bank, page, fixed, low, rd, old
<1>7. machine_read_coco3(c, addr) = ReadChain(c, addr)
  BY <1>1, <1>2, <1>4, <1>5, <1>6
<1>8. CASE BelowTop(addr) /\ rd # NoPage
  BY <1>1, <1>3, <1>4, <1>8
<1>9. CASE ~(BelowTop(addr) /\ rd # NoPage)
  BY <1>3, <1>7, <1>9
<1> QED
  BY <1>8, <1>9

\* The CPU core's writes go to the RAM that the MMU selects below $FE00, ROM or
\* not, and where the chain writes above.
LEMMA Writes3Agree ==
  ASSUME NEW c, Mapped(c.g), NEW addr \in Address
  PROVE  CpuWrites(c, addr) = IF addr < 65024 THEN UnderRom(c, addr) ELSE WriteChain(c, addr)
<1> DEFINE bank == BankOf(c.g, Slot(addr))
           page == PageIn(c.g, bank)
           fixed == Ram(63 % c.g.ram_pages, addr)
           old == c.g.active_banks[Slot(addr)]
           wr == c.g.wr_page[Slot(addr)]
           chain == WriteChain(c, addr)
           under == UnderRom(c, addr)
<1>1. wr = page /\ old = bank
  BY SlotMapped
<1>2. under = Ram(page, addr)
  BY DEF UnderRom, PageIn, Slot
<1>3. CpuWrites(c, addr) = IF BelowTop(addr) /\ wr # NoPage THEN Ram(wr, addr) ELSE machine_write_coco3(c, addr)
  BY DEF CpuWrites, BelowTop, Slot
<1>4. machine_write_coco3(c, addr)
        = IF BelowTop(addr) THEN Ram(PageIn(c.g, old), addr)
          ELSE IF DacPort(addr) THEN <<"pia1", 0>>
          ELSE IF GimeInit1(addr) THEN <<"gime", addr>>
          ELSE IF BelowIo(addr) /\ MC3(c.g) THEN fixed ELSE chain
  BY DEF machine_write_coco3, BelowTop, DacPort, GimeInit1, BelowIo, PageIn, Slot
<1>5. DacPort(addr) => (chain = <<"pia1", 0>>)
  BY HotAddresses
<1>6. GimeInit1(addr) => (chain = <<"gime", addr>>)
  BY HotAddresses
<1>7. (BelowIo(addr) /\ ~BelowTop(addr)) => InTop(addr)
  BY AddressIs DEF BelowIo, BelowTop, InTop
<1>8. (InTop(addr) /\ MC3(c.g)) => (chain = fixed)
  BY TopAnswers
<1> HIDE DEF fixed, wr, chain, under
<1>9. BelowTop(addr) => (machine_write_coco3(c, addr) = Ram(page, addr))
  <2> HIDE DEF bank, old
  <2> QED
    BY <1>1, <1>4
<1> HIDE DEF bank, old, page
<1>10. ~BelowTop(addr) => (machine_write_coco3(c, addr) = chain)
  BY <1>4, <1>5, <1>6, <1>7, <1>8
<1>11. CpuWrites(c, addr) = IF BelowTop(addr) THEN under ELSE chain
  BY <1>1, <1>2, <1>3, <1>9, <1>10
<1> QED
  BY <1>11 DEF BelowTop, under, chain

-----------------------------------------------------------------------------
(* The CoCo 2's decoders.                                                   *)

\* The slots that hold RAM.
LowSlot(c, i) == i < 4 \/ ty(c.sam)

\* The slots of the CoCo 2, and the offsets in them.
LEMMA Slots2 ==
  ASSUME NEW addr \in Address
  PROVE  /\ Slot(addr) \in 0 .. 7 /\ (addr < 32768 <=> Slot(addr) < 4)
         /\ (Slot(addr) = 4) => (0 + (addr % 8192) = addr - 32768)
         /\ (Slot(addr) = 5) => (0 + (addr % 8192) = addr - 40960)
         /\ (Slot(addr) >= 6) => ((Slot(addr) - 6) * 8192 + (addr % 8192) = addr - 49152)
         /\ (addr >= 49152 <=> Slot(addr) >= 6) /\ (addr >= 40960 <=> Slot(addr) >= 5)
<1> DEFINE q == addr \div 8192
           r == addr % 8192
<1>1. addr \in Nat /\ addr < 65536
  BY AddressIs
<1>2. q \in 0 .. 7 /\ addr = 8192 * q + r /\ r \in Nat /\ r < 8192
  BY SlotOf
<1> HIDE DEF q, r
<1>3. /\ q \in 0 .. 7 /\ (addr < 32768 <=> q < 4)
      /\ (q = 4) => (0 + r = addr - 32768)
      /\ (q = 5) => (0 + r = addr - 40960)
      /\ (q >= 6) => ((q - 6) * 8192 + r = addr - 49152)
      /\ (addr >= 49152 <=> q >= 6) /\ (addr >= 40960 <=> q >= 5)
  BY <1>1, <1>2
<1> QED
  BY <1>3 DEF q, r, Slot

\* What the callback reads below $FF00.
LEMMA Callback2 ==
  ASSUME NEW c, NEW addr \in Address, BelowIo(addr)
  PROVE  /\ LowSlot(c, Slot(addr)) => (machine_read_coco2(c, addr) = Ram2(addr))
         /\ (~LowSlot(c, Slot(addr)) /\ Slot(addr) = 4) =>
              (machine_read_coco2(c, addr) = RomImage(c, "extbas", 0 + (addr % 8192)))
         /\ (~LowSlot(c, Slot(addr)) /\ Slot(addr) = 5) =>
              (machine_read_coco2(c, addr) = RomImage(c, "basic", 0 + (addr % 8192)))
         /\ (~LowSlot(c, Slot(addr)) /\ Slot(addr) >= 6) =>
              (machine_read_coco2(c, addr) = RomImage(c, "cart", (Slot(addr) - 6) * 8192 + (addr % 8192)))
<1> DEFINE q == Slot(addr)
           r == addr % 8192
           k == (q - 6) * 8192
           cart == RomImage(c, "cart", addr - 49152)
           basic == RomImage(c, "basic", addr - 40960)
           extbas == RomImage(c, "extbas", addr - 32768)
           ram == Ram2(addr)
           low == addr < 32768 \/ ty(c.sam)
           rest == IF low THEN ram ELSE IF addr >= 49152 THEN cart ELSE IF addr >= 40960 THEN basic ELSE extbas
<1>0. addr \in Nat /\ addr < 65280
  BY AddressIs DEF BelowIo
<1>1. machine_read_coco2(c, addr)
        = IF addr >= 65504 THEN Vector(c, addr) ELSE IF addr >= 65280 THEN Io(c, addr) ELSE rest
  BY DEF machine_read_coco2
<1>2. /\ q \in 0 .. 7 /\ (addr < 32768 <=> q < 4)
      /\ (addr >= 49152 <=> q >= 6) /\ (addr >= 40960 <=> q >= 5)
      /\ (q = 4) => (0 + r = addr - 32768)
      /\ (q = 5) => (0 + r = addr - 40960)
      /\ (q >= 6) => (k + r = addr - 49152)
  BY Slots2
<1>3. LowSlot(c, q) <=> low
  BY <1>2 DEF LowSlot
<1>4. /\ (q = 4) => (extbas = RomImage(c, "extbas", 0 + r))
      /\ (q = 5) => (basic = RomImage(c, "basic", 0 + r))
      /\ (q >= 6) => (cart = RomImage(c, "cart", k + r))
  <2> HIDE DEF q, r, k
  <2> QED
    BY <1>2
<1> HIDE DEF rest
<1>5. machine_read_coco2(c, addr) = rest
  BY <1>0, <1>1
<1> HIDE DEF q, r, k, cart, basic, extbas, ram, low
<1>6. /\ LowSlot(c, q) => (rest = ram)
      /\ (~LowSlot(c, q) /\ q = 4) => (rest = extbas)
      /\ (~LowSlot(c, q) /\ q = 5) => (rest = basic)
      /\ (~LowSlot(c, q) /\ q >= 6) => (rest = cart)
  BY <1>2, <1>3 DEF rest
<1> QED
  BY <1>4, <1>5, <1>6 DEF q, r, k, ram

\* The CPU core's pages read what the callback reads.
LEMMA Reads2Agree ==
  ASSUME NEW c, Paged2(c), NEW addr \in Address
  PROVE  CpuReads2(c, addr) = machine_read_coco2(c, addr)
<1> DEFINE q == Slot(addr)
           r == addr % 8192
           k == (q - 6) * 8192
           rd == c.rd_page[q]
           callback == machine_read_coco2(c, addr)
<1>1. CpuReads2(c, addr) = IF BelowIo(addr) /\ rd # NullPage THEN Paged(rd, addr) ELSE callback
  BY DEF CpuReads2, BelowIo, Slot
<1> SUFFICES ASSUME BelowIo(addr), rd # NullPage PROVE Paged(rd, addr) = callback
  BY <1>1
<1>2. q \in 0 .. 7
  BY Slots2
<1>3. rd = ReadSlot(c, q)
  BY <1>2 DEF Paged2
<1>4. CASE LowSlot(c, q)
  <2>1. rd = <<"ram", q>>
    BY <1>3, <1>4 DEF ReadSlot, LowSlot
  <2>2. callback = Ram2(addr)
    BY <1>4, Callback2
  <2>3. Ram2(addr) = <<"ram", q, r>>
    BY DEF Ram2, Slot
  <2> HIDE DEF rd, callback, q, r
  <2>4. rd[1] = "ram" /\ rd[2] = q
    BY <2>1
  <2>5. Paged(rd, addr) = <<"ram", rd[2], r>>
    BY <2>4 DEF Paged, r
  <2> QED
    BY <2>2, <2>3, <2>4, <2>5
<1>5. ASSUME ~LowSlot(c, q), NEW name \in {"extbas", "basic", "cart"}, NEW offset,
             rd = (IF name \in c.loaded THEN <<name, offset>> ELSE NullPage),
             callback = RomImage(c, name, offset + r)
      PROVE  Paged(rd, addr) = callback
  <2> HIDE DEF rd, callback
  <2>1. name \in c.loaded /\ rd = <<name, offset>>
    BY <1>5
  <2>2. rd[1] = name /\ rd[2] = offset /\ name # "ram"
    BY <2>1, <1>5
  <2> HIDE DEF r
  <2>3. callback = <<name, offset + r>>
    BY <2>1, <1>5 DEF RomImage
  <2>4. Paged(rd, addr) = <<rd[1], rd[2] + r>>
    BY <2>2 DEF Paged, r
  <2> QED
    BY <2>2, <2>3, <2>4
<1>6. CASE ~LowSlot(c, q) /\ q = 4
  <2>1. rd = IF "extbas" \in c.loaded THEN <<"extbas", 0>> ELSE NullPage
    BY <1>3, <1>6 DEF ReadSlot, LowSlot
  <2>2. callback = RomImage(c, "extbas", 0 + r)
    BY <1>6, Callback2
  <2> QED
    BY <1>5, <1>6, <2>1, <2>2
<1>7. CASE ~LowSlot(c, q) /\ q = 5
  <2>1. rd = IF "basic" \in c.loaded THEN <<"basic", 0>> ELSE NullPage
    BY <1>3, <1>7 DEF ReadSlot, LowSlot
  <2>2. callback = RomImage(c, "basic", 0 + r)
    BY <1>7, Callback2
  <2> QED
    BY <1>5, <1>7, <2>1, <2>2
<1>8. CASE ~LowSlot(c, q) /\ q >= 6
  <2>1. rd = IF "cart" \in c.loaded THEN <<"cart", k>> ELSE NullPage
    BY <1>2, <1>3, <1>8 DEF ReadSlot, LowSlot
  <2>2. callback = RomImage(c, "cart", k + r)
    BY <1>8, Callback2
  <2> QED
    BY <1>5, <1>8, <2>1, <2>2
<1>9. q < 4 => LowSlot(c, q)
  BY DEF LowSlot
<1> HIDE DEF q
<1> QED
  BY <1>2, <1>4, <1>6, <1>7, <1>8, <1>9

\* The CPU core's pages write what the callback writes.
LEMMA Writes2Agree ==
  ASSUME NEW c, Paged2(c), NEW addr \in Address
  PROVE  CpuWrites2(c, addr) = machine_write_coco2(c, addr)
<1> DEFINE q == Slot(addr)
           r == addr % 8192
           wr == c.wr_page[q]
           callback == machine_write_coco2(c, addr)
           port == IF "orch90" \in c.fitted /\ addr \in {65402, 65403} THEN <<"orch90", addr>> ELSE Io(c, addr)
           sam == IF addr < 65504 THEN <<"sam", addr - 65472>> ELSE <<"none">>
           low == addr < 32768 \/ ty(c.sam)
           rest == IF low THEN Ram2(addr) ELSE <<"none">>
<1>1. CpuWrites2(c, addr) = IF BelowIo(addr) /\ wr # NullPage THEN Paged(wr, addr) ELSE callback
  BY DEF CpuWrites2, BelowIo, Slot
<1> SUFFICES ASSUME BelowIo(addr), wr # NullPage PROVE Paged(wr, addr) = callback
  BY <1>1
<1>2. q \in 0 .. 7 /\ (addr < 32768 <=> q < 4)
  BY Slots2
<1>3. wr = IF LowSlot(c, q) THEN <<"ram", q>> ELSE NullPage
  BY <1>2 DEF Paged2, LowSlot
<1>4. LowSlot(c, q) /\ wr = <<"ram", q>>
  BY <1>3
<1>5. low
  BY <1>2, <1>4 DEF LowSlot
<1>6. addr \in Nat /\ addr < 65280
  BY AddressIs DEF BelowIo
<1>7. callback = IF addr >= 65472 THEN sam ELSE IF addr >= 65280 THEN port ELSE rest
  BY DEF machine_write_coco2
<1> HIDE DEF sam, port, rest
<1>8. callback = rest
  BY <1>6, <1>7
<1> HIDE DEF low, callback
<1>9. callback = Ram2(addr)
  BY <1>5, <1>8 DEF rest
<1>10. Ram2(addr) = <<"ram", q, r>>
  BY DEF Ram2, Slot
<1> HIDE DEF q, r, wr
<1>11. wr[1] = "ram" /\ wr[2] = q
  BY <1>4
<1>12. Paged(wr, addr) = <<"ram", wr[2], r>>
  BY <1>11 DEF Paged, r
<1> QED
  BY <1>9, <1>10, <1>11, <1>12

\* What the page pointers, the short cuts and the register decode answer is the
\* same, on either machine, wherever a scene probes them; and the GIME's video
\* geometry is what its registers say (machine_read, machine_write,
\* tcc1014_update_active_banks, update_fast_pages and update_fast_pages_coco2).
THEOREM DecodersAlwaysAgree == MachineSpec => []DecodersAgree
<1>1. MachineIInv => DecodersAgree
  <2> SUFFICES ASSUME MachineIInv PROVE DecodersAgree
    OBVIOUS
  <2>1. scene \in Scenes /\ InForce(mach)
    BY DEF MachineIInv
  <2>2. \A addr \in scene.probes : addr \in Address
    BY <2>1, ScenesAssumption
  <2>3. CASE IsCoco3
    <3>1. Mapped(mach.g) /\ mach.g.video = Geometry(mach.g)
      BY <2>1, <2>3 DEF InForce
    <3>2. ASSUME NEW addr \in scene.probes
          PROVE  /\ CpuReads(mach, addr) = ReadChain(mach, addr)
                 /\ CpuWrites(mach, addr) = IF addr < 65024 THEN UnderRom(mach, addr) ELSE WriteChain(mach, addr)
      BY <2>2, <3>1, Reads3Agree, Writes3Agree
    <3> QED
      BY <2>3, <3>1, <3>2 DEF DecodersAgree
  <2>4. CASE ~IsCoco3
    <3>1. Paged2(mach)
      BY <2>1, <2>4 DEF InForce
    <3>2. ASSUME NEW addr \in scene.probes
          PROVE  /\ CpuReads2(mach, addr) = machine_read_coco2(mach, addr)
                 /\ CpuWrites2(mach, addr) = machine_write_coco2(mach, addr)
      BY <2>2, <3>1, Reads2Agree, Writes2Agree
    <3> QED
      BY <2>4, <3>2 DEF DecodersAgree
  <2> QED
    BY <2>3, <2>4
<1> QED
  BY <1>1, MachineInvariant, PTL

-----------------------------------------------------------------------------
(* Counting rows.                                                           *)

\* Counting rows: one more line is the next of its row, or the first of the next.
LEMMA NextOfRow ==
  ASSUME NEW n \in Nat, NEW m \in Nat \ {0}
  PROVE  /\ n % m \in 0 .. m - 1 /\ n \div m \in Nat
         /\ (n % m) + 1 < m => (n + 1) % m = (n % m) + 1 /\ (n + 1) \div m = n \div m
         /\ (n % m) + 1 = m => (n + 1) % m = 0 /\ (n + 1) \div m = n \div m + 1
<1> DEFINE q == n \div m
           r == n % m
<1>1. n = m * q + r /\ q \in Int /\ r \in 0 .. m - 1
  BY ModDiv, ModRange
<1> HIDE DEF q, r
<1>2. q >= 0
  <2>1. SUFFICES ASSUME q <= -1 PROVE FALSE
    BY <1>1
  <2>2. m * (-1 - q) >= 0
    BY <1>1, <2>1
  <2>3. m * q <= -m
    BY <1>1, <2>2
  <2> QED
    BY <1>1, <2>3
<1>3. ASSUME NEW p \in Int, NEW s \in 0 .. m - 1, n + 1 = m * p + s
      PROVE  (n + 1) % m = s /\ (n + 1) \div m = p
  <2> DEFINE e == (n + 1) \div m
             k == n + 1
  <2>1. k \in Int /\ k = m * p + s
    BY <1>3
  <2> HIDE DEF k
  <2>2. k % m = s
    BY <1>3, <2>1, ModUnique
  <2>3. k = m * (k \div m) + (k % m) /\ k \div m \in Int
    BY <2>1, ModDiv
  <2>4. m * (k \div m) = m * p
    BY <2>1, <2>2, <2>3, <1>3
  <2> DEFINE d == k \div m
  <2>5. d \in Int /\ m * d = m * p
    BY <2>3, <2>4
  <2> HIDE DEF d
  <2>6. d = p
    <3>1. CASE d > p
      <4>1. m * (d - p - 1) >= 0
        BY <1>3, <2>5, <3>1
      <4> QED
        BY <1>3, <2>5, <4>1
    <3>2. CASE d < p
      <4>1. m * (p - d - 1) >= 0
        BY <1>3, <2>5, <3>2
      <4> QED
        BY <1>3, <2>5, <4>1
    <3> QED
      BY <1>3, <2>5, <3>1, <3>2
  <2> QED
    BY <2>2, <2>6 DEF d, k
<1>4. ASSUME r + 1 < m PROVE (n + 1) % m = r + 1 /\ (n + 1) \div m = q
  <2>1. n + 1 = m * q + (r + 1) /\ r + 1 \in 0 .. m - 1
    BY <1>1, <1>4
  <2> QED
    BY <1>1, <1>3, <2>1
<1>5. ASSUME r + 1 = m PROVE (n + 1) % m = 0 /\ (n + 1) \div m = q + 1
  <2>1. n + 1 = m * (q + 1) + 0 /\ 0 \in 0 .. m - 1 /\ q + 1 \in Int
    BY <1>1, <1>5
  <2> QED
    BY <1>3, <2>1
<1>6. (r + 1 < m => (n + 1) % m = r + 1 /\ (n + 1) \div m = q)
      /\ (r + 1 = m => (n + 1) % m = 0 /\ (n + 1) \div m = q + 1)
  BY <1>4, <1>5
<1> QED
  BY <1>1, <1>2, <1>6 DEF q, r

\* A row of m lines ends with its m-th, if m is the row mask: no smaller number has all bits of m.
LEMMA RowEnds ==
  ASSUME NEW m \in 0 .. 12, NEW row \in 0 .. 12
  PROVE  /\ row < m => ~RowFull(row, m)
         /\ RowFull(m, m)
         /\ m = 0 => RowFull(row, m)
<1>1. /\ 2^0 = 1 /\ 2^1 = 2 /\ 2^2 = 4 /\ 2^3 = 8 /\ 2^4 = 16
  OBVIOUS
<1>2. RowFull(row, m) <=> /\ (m \div 1) % 2 = 1 => (row \div 1) % 2 = 1
                          /\ (m \div 2) % 2 = 1 => (row \div 2) % 2 = 1
                          /\ (m \div 4) % 2 = 1 => (row \div 4) % 2 = 1
                          /\ (m \div 8) % 2 = 1 => (row \div 8) % 2 = 1
                          /\ (m \div 16) % 2 = 1 => (row \div 16) % 2 = 1
  <2>1. \A b \in 0 .. 4 : b = 0 \/ b = 1 \/ b = 2 \/ b = 3 \/ b = 4
    OBVIOUS
  <2> QED
    BY <1>1, <2>1 DEF RowFull
<1>3. RowFull(m, m)
  BY DEF RowFull
<1>4. m = 0 => RowFull(row, m)
  BY <1>2
<1>5. row < m => ~RowFull(row, m)
  BY <1>2
<1> QED
  BY <1>3, <1>4, <1>5

-----------------------------------------------------------------------------
(* What FrameShape depends on, and the steps that leave it alone.           *)

RaiseFields == {"irq_state", "firq_state", "IRQ", "FIRQ", "IL_state"}
SameBeam(g, h) == h.row = g.row /\ h.B = g.B /\ h.lcount = g.lcount /\ h.active_area = g.active_area
SameScreen(g, h) ==
  SameInputs(g, h) /\ h.registers[13] = g.registers[13] /\ h.registers[14] = g.registers[14]
SameView(g, h) == SameScreen(g, h) /\ SameBeam(g, h)
SameWatch(g, h) == h.registers[2] = g.registers[2] /\ (VBORD \in h.irq_state => VBORD \in g.irq_state)

\* Steps that touch none of it
LEMMA ViewUntouched ==
  ASSUME NEW g, NEW h, DOMAIN g = GimeFields, NEW F, Touches(g, h, F)
  PROVE  /\ F \cap {"registers", "SAM_register", "pdr", "row", "B", "lcount", "active_area"} = {} => SameView(g, h)
         /\ F \cap {"registers", "irq_state"} = {} => SameWatch(g, h)
         /\ F \cap {"IL"} = {} => h.IL = g.IL
<1>1. ASSUME F \cap {"registers", "SAM_register", "pdr", "row", "B", "lcount", "active_area"} = {} PROVE SameView(g, h)
  <2>1. h.registers = g.registers /\ h.SAM_register = g.SAM_register /\ h.pdr = g.pdr /\ SameBeam(g, h)
    BY <1>1, FieldsAre DEF Touches, SameBeam
  <2> QED
    BY <2>1 DEF SameView, SameScreen, SameInputs
<1>2. ASSUME F \cap {"registers", "irq_state"} = {} PROVE SameWatch(g, h)
  <2>1. h.registers = g.registers /\ h.irq_state = g.irq_state
    BY <1>2, FieldsAre DEF Touches
  <2> QED
    BY <2>1 DEF SameWatch
<1>3. ASSUME F \cap {"IL"} = {} PROVE h.IL = g.IL
  BY <1>3, FieldsAre DEF Touches
<1> QED
  BY <1>1, <1>2, <1>3

\* Both relations compose.
LEMMA ViewTwice ==
  ASSUME NEW g, NEW h, NEW i
  PROVE  /\ SameView(g, h) /\ SameView(h, i) => SameView(g, i)
         /\ SameWatch(g, h) /\ SameWatch(h, i) => SameWatch(g, i)
  BY DEF SameView, SameScreen, SameInputs, SameBeam, SameWatch

\* Gating changes the two outputs only.
LEMMA GateOutputs ==
  ASSUME NEW g, DOMAIN g = GimeFields
  PROVE  Touches(g, Gate(g), {"IRQ", "FIRQ"})
  BY FieldsAre DEF Gate, Touches

\* What set_interrupt latches.
LEMMA Raised ==
  ASSUME NEW g, DOMAIN g = GimeFields, NEW flags
  PROVE  LET h == set_interrupt(g, flags)
         IN Touches(g, h, RaiseFields) /\ h.irq_state = g.irq_state \cup (flags \cap g.registers[2])
<1> DEFINE a == g.irq_state \cup (flags \cap g.registers[2])
           b == g.firq_state \cup (flags \cap g.registers[3])
           m == [g EXCEPT !.irq_state = a, !.firq_state = b]
           h == set_interrupt(g, flags)
<1>1. h = Gate(m)
  BY Zenon DEF set_interrupt
<1> HIDE DEF a, b, h
<1>2. Touches(g, m, {"irq_state", "firq_state"}) /\ m.irq_state = a
  BY FieldsAre DEF Touches
<1> HIDE DEF m
<1>3. DOMAIN m = GimeFields
  BY <1>2 DEF Touches
<1>4. Touches(m, h, {"IRQ", "FIRQ"})
  BY <1>1, <1>3, GateOutputs
<1>5. h.irq_state = a
  BY <1>2, <1>3, <1>4, FieldsAre DEF Touches
<1>6. Touches(g, h, {"irq_state", "firq_state"} \cup {"IRQ", "FIRQ"})
  BY <1>2, <1>4, TouchesBoth
<1>7. Touches(g, h, RaiseFields)
  BY <1>6, TouchesMore DEF RaiseFields
<1> QED
  BY <1>5, <1>7 DEF a, h

\* The IL lines latch no VBORD while none of them is VBORD's.
LEMMA EdgeRaises ==
  ASSUME NEW g, DOMAIN g = GimeFields
  PROVE  LET h == edge_detect_il(g)
         IN Touches(g, h, RaiseFields) /\ SameView(g, h) /\ h.IL = g.IL /\ (VBORD \notin g.IL => SameWatch(g, h))
<1> DEFINE flags == g.IL \ g.IL_state
           m == set_interrupt(g, flags)
           lines == g.IL
           h == [m EXCEPT !.IL_state = lines]
<1>1. edge_detect_il(g) = h
  BY Zenon DEF edge_detect_il
<1>2. Touches(g, m, RaiseFields) /\ m.irq_state = g.irq_state \cup (flags \cap g.registers[2])
  BY Raised
<1>3. VBORD \notin g.IL => VBORD \notin flags
  OBVIOUS
<1> HIDE DEF m, lines, flags
<1>4. DOMAIN m = GimeFields
  BY <1>2 DEF Touches
<1>5. Touches(m, h, {"IL_state"})
  BY <1>4, FieldsAre DEF Touches
<1> HIDE DEF h
<1>6. h.irq_state = m.irq_state
  BY <1>4, <1>5, FieldsAre DEF Touches
<1>7. Touches(g, h, RaiseFields)
  BY <1>2, <1>5 DEF Touches, RaiseFields
<1>8. SameView(g, h) /\ h.IL = g.IL
  BY <1>7, ViewUntouched DEF RaiseFields
<1>9. h.registers = g.registers
  BY <1>7, FieldsAre DEF Touches, RaiseFields
<1>10. VBORD \notin g.IL => SameWatch(g, h)
  BY <1>2, <1>3, <1>6, <1>9 DEF SameWatch
<1> QED
  BY <1>1, <1>7, <1>8, <1>10

\* The fields of the page pointers, whatever the banks are.
LEMMA BanksTouch ==
  ASSUME NEW g, DOMAIN g = GimeFields
  PROVE  /\ Touches(g, update_fast_pages(g), {"active_banks", "rd_page", "wr_page"})
         /\ Touches(g, tcc1014_update_active_banks(g), {"active_banks", "rd_page", "wr_page"})
<1>1. ASSUME NEW i, DOMAIN i = GimeFields PROVE Touches(i, update_fast_pages(i), {"active_banks", "rd_page", "wr_page"})
  <2> DEFINE page(k) == IF i.ram_pages = 0 THEN NoPage ELSE i.active_banks[k] % i.ram_pages
             wr == [k \in 0 .. 7 |-> page(k)]
             rd == [k \in 0 .. 7 |-> IF TY(i) \/ i.active_banks[k] % 64 < 60 THEN page(k) ELSE NoPage]
  <2>1. update_fast_pages(i) = [i EXCEPT !.wr_page = wr, !.rd_page = rd]
    BY Zenon DEF update_fast_pages
  <2> HIDE DEF wr, rd
  <2>2. Touches(i, [i EXCEPT !.wr_page = wr, !.rd_page = rd], {"active_banks", "rd_page", "wr_page"})
    BY <1>1, FieldsAre DEF Touches
  <2> QED
    BY <2>1, <2>2
<1> DEFINE banks == [i \in 0 .. 7 |-> BankOf(g, i)]
           h == [g EXCEPT !.active_banks = banks]
<1>2. tcc1014_update_active_banks(g) = update_fast_pages(h)
  BY Zenon DEF tcc1014_update_active_banks
<1> HIDE DEF banks
<1>3. Touches(g, h, {"active_banks", "rd_page", "wr_page"})
  BY FieldsAre DEF Touches
<1> HIDE DEF h
<1>4. DOMAIN h = GimeFields
  BY <1>3 DEF Touches
<1> QED
  BY <1>1, <1>2, <1>3, <1>4, TouchesTwice

\* What a write to one of the sixteen registers leaves alone.
LEMMA RegisterView ==
  ASSUME NEW g, GimeShape(g), NEW reg \in 0 .. 15, NEW val
  PROVE  LET w == tcc1014_write_register(g, reg, val)
         IN /\ w.IL = g.IL
            /\ reg \in 1 .. 7 => SameView(g, w)
            /\ reg \in {1, 4, 5, 6, 7} => SameWatch(g, w)
<1> DEFINE w == tcc1014_write_register(g, reg, val)
           h == [g EXCEPT !.registers[reg] = val]
           changed == Differs(g.registers[reg], val)
           base == (64 * Field(val, 0, 2)) % g.ram_pages
           Rest == {"irq_state", "firq_state", "IRQ", "FIRQ", "timer_counter", "timer_left_x2",
                    "active_banks", "rd_page", "wr_page", "video", "vram_base"}
<1>1. DOMAIN g = GimeFields /\ DOMAIN g.registers = 0 .. 15
  BY DEF GimeShape, GimeFields
<1>2. /\ DOMAIN h = GimeFields /\ \A f \in GimeFields \ {"registers"} : h[f] = g[f]
      /\ h.registers[reg] = val /\ \A r \in 0 .. 15 : r # reg => h.registers[r] = g.registers[r]
      /\ DOMAIN h.registers = 0 .. 15
  BY <1>1, FieldsAre
<1>3. w = CASE reg = 0 -> update_from_gime_registers(tcc1014_update_active_banks(Gate(h)))
            [] reg = 1 -> WriteInit1(g, val)
            [] reg = 2 -> Gate([h EXCEPT !.irq_state = enable_latch(h, @, val, changed)])
            [] reg = 3 -> Gate([h EXCEPT !.firq_state = enable_latch(h, @, val, changed)])
            [] reg = 4 -> arm_timer(h)
            [] reg \in {8, 9, 10, 12, 15} -> update_from_gime_registers(h)
            [] reg = 11 -> IF BankMask(g) = 63 THEN h ELSE [h EXCEPT !.vram_base = base]
            [] OTHER -> h
  BY Zenon DEF tcc1014_write_register
<1> HIDE DEF h, w, changed, base
<1>4. h.IL = g.IL /\ SameBeam(g, h) /\ h.SAM_register = g.SAM_register /\ h.pdr = g.pdr /\ h.irq_state = g.irq_state
  BY <1>2, FieldsAre DEF SameBeam
<1>5. reg \in 1 .. 7 => SameView(g, h)
  <2> SUFFICES ASSUME reg \in 1 .. 7 PROVE SameView(g, h)
    OBVIOUS
  <2>1. \A r \in {0, 8, 9, 10, 12, 13, 14, 15} : h.registers[r] = g.registers[r]
    BY <1>2
  <2> QED
    BY <1>1, <1>2, <1>4, <2>1 DEF SameView, SameScreen, SameInputs
<1>6. reg # 2 => SameWatch(g, h)
  BY <1>2, <1>4 DEF SameWatch
<1>7. Touches(h, h, Rest) /\ Touches(h, h, Rest \ {"irq_state"})
  BY DEF Touches
<1>8. Touches(h, w, Rest) /\ (reg \in {1, 4, 5, 6, 7} => Touches(h, w, Rest \ {"irq_state"}))
  <2>0. CASE reg = 0
    <3> DEFINE a == Gate(h)
               b == tcc1014_update_active_banks(a)
    <3>1. w = update_from_gime_registers(b)
      BY <1>3, <2>0
    <3>2. Touches(h, a, {"IRQ", "FIRQ"})
      BY <1>2, GateOutputs
    <3> HIDE DEF a
    <3>3. DOMAIN a = GimeFields
      BY <1>2, <3>2 DEF Touches
    <3>4. Touches(a, b, {"active_banks", "rd_page", "wr_page"})
      BY <3>3, BanksTouch
    <3> HIDE DEF b
    <3>5. DOMAIN b = GimeFields
      BY <3>3, <3>4 DEF Touches
    <3>6. Touches(b, w, {"video"})
      BY <3>1, <3>5, VideoTouches
    <3>7. Touches(h, a, Rest) /\ Touches(a, b, Rest) /\ Touches(b, w, Rest)
      BY <3>2, <3>4, <3>6, TouchesMore
    <3> HIDE DEF Rest
    <3>8. Touches(h, w, Rest)
      BY <3>7, TouchesTwice
    <3> QED
      BY <2>0, <3>8
  <2>1. CASE reg = 1
    <3> DEFINE one == [g EXCEPT !.registers[1] = val]
               timed == IF TINS(one) # TINS(g) THEN arm_timer(one) ELSE one
               Few == Rest \ {"irq_state"}
    <3>1. w = IF TR(one) # TR(g) THEN tcc1014_update_active_banks(timed) ELSE timed
      <4>1. w = WriteInit1(g, val)
        BY <1>3, <2>1
      <4>2. WriteInit1(g, val) = IF TR(one) # TR(g) THEN tcc1014_update_active_banks(timed) ELSE timed
        BY Zenon DEF WriteInit1
      <4> QED
        BY <4>1, <4>2
    <3>2. one = h
      BY <2>1 DEF h
    <3> HIDE DEF one
    <3>3. Touches(h, arm_timer(h), Few)
      BY <1>2, ArmTouches, TouchesMore DEF TimerFields
    <3>4. Touches(h, timed, Few)
      BY <1>7, <3>2, <3>3
    <3> HIDE DEF timed
    <3>5. DOMAIN timed = GimeFields
      BY <1>2, <3>4 DEF Touches
    <3>6. Touches(timed, tcc1014_update_active_banks(timed), Few)
      BY <3>5, BanksTouch, TouchesMore
    <3>7. Few \subseteq Rest
      OBVIOUS
    <3> HIDE DEF Few
    <3>8. Touches(h, w, Few)
      BY <3>1, <3>4, <3>6, TouchesTwice
    <3> QED
      BY <3>7, <3>8, TouchesMore DEF Few
  <2>2. CASE reg \in {2, 3}
    <3> DEFINE u == enable_latch(h, h.irq_state, val, changed)
               v == enable_latch(h, h.firq_state, val, changed)
               i == [h EXCEPT !.irq_state = u]
               j == [h EXCEPT !.firq_state = v]
    <3>1. w = Gate(i) \/ w = Gate(j)
      BY <1>3, <2>2
    <3> HIDE DEF u, v
    <3>2. Touches(h, i, Rest) /\ Touches(h, j, Rest)
      BY <1>2, FieldsAre DEF Touches
    <3> HIDE DEF i, j
    <3>3. DOMAIN i = GimeFields /\ DOMAIN j = GimeFields
      BY <1>2, <3>2 DEF Touches
    <3>4. Touches(i, Gate(i), Rest) /\ Touches(j, Gate(j), Rest)
      BY <3>3, GateOutputs, TouchesMore
    <3> HIDE DEF Rest
    <3>5. Touches(h, w, Rest)
      BY <3>1, <3>2, <3>4, TouchesTwice
    <3> QED
      BY <2>2, <3>5
  <2>4. CASE reg = 4
    <3>1. w = arm_timer(h)
      BY <1>3, <2>4
    <3> QED
      BY <1>2, <3>1, ArmTouches, TouchesMore DEF TimerFields
  <2>5. CASE reg \in {8, 9, 10, 12, 15}
    <3>1. w = update_from_gime_registers(h)
      BY <1>3, <2>5
    <3> QED
      BY <1>2, <3>1, VideoTouches, TouchesMore
  <2>6. CASE reg \notin {0, 1, 2, 3, 4, 8, 9, 10, 12, 15}
    <3>1. w = h \/ w = [h EXCEPT !.vram_base = base]
      <4>1. CASE reg = 11
        BY <1>3, <4>1
      <4>2. CASE reg # 11
        BY <1>3, <2>6, <4>2
      <4> QED
        BY <4>1, <4>2
    <3>2. Touches(h, w, {"vram_base"})
      BY <1>2, <3>1, FieldsAre DEF Touches
    <3> QED
      BY <3>2, TouchesMore
  <2> QED
    BY <2>0, <2>1, <2>2, <2>4, <2>5, <2>6
<1>9. SameView(h, w) /\ w.IL = h.IL /\ (reg \in {1, 4, 5, 6, 7} => SameWatch(h, w))
  BY <1>2, <1>8, ViewUntouched
<1> QED
  BY <1>4, <1>5, <1>6, <1>9, ViewTwice DEF w

\* The MMU, the SAM and what the GIME overhears.
LEMMA MmuView ==
  ASSUME NEW g, DOMAIN g = GimeFields, NEW offset, NEW bank
  PROVE  LET w == tcc1014_write_mmu(g, offset, bank) IN w.IL = g.IL /\ SameView(g, w) /\ SameWatch(g, w)
<1> DEFINE b == bank % (BankMask(g) + 1)
           h == [g EXCEPT !.mmu_bank[offset] = b]
           w == tcc1014_write_mmu(g, offset, bank)
<1>1. w = tcc1014_update_active_banks(h)
  BY Zenon DEF tcc1014_write_mmu
<1> HIDE DEF b, w
<1>2. Touches(g, h, {"mmu_bank"})
  BY FieldsAre DEF Touches
<1> HIDE DEF h
<1>3. DOMAIN h = GimeFields
  BY <1>2 DEF Touches
<1>4. Touches(h, w, {"active_banks", "rd_page", "wr_page"})
  BY <1>1, <1>3, BanksTouch
<1>5. Touches(g, w, {"mmu_bank"} \cup {"active_banks", "rd_page", "wr_page"})
  BY <1>2, <1>4, TouchesBoth
<1>6. w.IL = g.IL /\ SameView(g, w) /\ SameWatch(g, w)
  BY <1>5, ViewUntouched
<1> QED
  BY <1>6 DEF w

\* The SAM: the display address, so not the view.
LEMMA SamWatch ==
  ASSUME NEW g, DOMAIN g = GimeFields, NEW offset
  PROVE  LET w == tcc1014_write_sam(g, offset) IN w.IL = g.IL
<1> DEFINE sam == IF offset % 2 = 1 THEN g.SAM_register \cup {offset \div 2} ELSE g.SAM_register \ {offset \div 2}
           h == [g EXCEPT !.SAM_register = sam]
           p == update_fast_pages(h)
           w == tcc1014_write_sam(g, offset)
<1>1. w = update_from_gime_registers(p)
  BY Zenon DEF tcc1014_write_sam, update_from_sam_register
<1> HIDE DEF sam, w
<1>2. Touches(g, h, {"SAM_register"})
  BY FieldsAre DEF Touches
<1> HIDE DEF h
<1>3. DOMAIN h = GimeFields /\ h.IL = g.IL
  BY <1>2, FieldsAre DEF Touches
<1>4. Touches(h, p, {"active_banks", "rd_page", "wr_page"})
  BY <1>3, BanksTouch
<1> HIDE DEF p
<1>5. DOMAIN p = GimeFields /\ p.IL = h.IL
  BY <1>3, <1>4, FieldsAre DEF Touches
<1>6. Touches(p, w, {"video"})
  BY <1>1, <1>5, VideoTouches
<1>7. w.IL = g.IL
  BY <1>3, <1>5, <1>6, FieldsAre DEF Touches
<1> QED
  BY <1>7 DEF w

\* PIA 1's side B overheard.
LEMMA SnoopView ==
  ASSUME NEW g, DOMAIN g = GimeFields, NEW addr, NEW val
  PROVE  LET w == tcc1014_snoop_pia1b(g, addr, val)
         IN w.IL = g.IL /\ (addr # 65314 /\ addr # 65315 => w = g)
<1> DEFINE bits == val \ {0, 1, 2}
           h == [g EXCEPT !.pdr = bits]
           down == 2 \in val
           d == [g EXCEPT !.ddr = down]
           w == tcc1014_snoop_pia1b(g, addr, val)
<1>1. w = CASE addr = 65314 /\ g.ddr -> update_from_gime_registers(h)
            [] addr = 65315 -> d
            [] OTHER -> g
  BY DEF tcc1014_snoop_pia1b
<1> HIDE DEF bits, w, down
<1>2. Touches(g, h, {"pdr"}) /\ Touches(g, d, {"ddr"})
  BY FieldsAre DEF Touches
<1> HIDE DEF h, d
<1>3. DOMAIN h = GimeFields /\ h.IL = g.IL /\ d.IL = g.IL
  BY <1>2, FieldsAre DEF Touches
<1>4. Touches(h, update_from_gime_registers(h), {"video"})
  BY <1>3, VideoTouches
<1>5. update_from_gime_registers(h).IL = g.IL
  BY <1>3, <1>4, FieldsAre DEF Touches
<1>6. CASE addr = 65314
  BY <1>1, <1>3, <1>5, <1>6 DEF w
<1>7. CASE addr = 65315
  BY <1>1, <1>3, <1>7 DEF w
<1>8. CASE addr # 65314 /\ addr # 65315
  BY <1>1, <1>8 DEF w
<1> QED
  BY <1>6, <1>7, <1>8

\* What a write leaves alone, by the address written.
Beside(g, h, addr) ==
  /\ h.IL = g.IL
  /\ addr \notin VideoRegs => SameView(g, h)
  /\ addr \notin VideoRegs \cup IntRegs /\ VBORD \notin g.IL => SameWatch(g, h)

\* A GIME has its own view.
LEMMA ViewItself == \A g : SameView(g, g) /\ SameWatch(g, g)
  BY DEF SameView, SameScreen, SameInputs, SameBeam, SameWatch

\* A write that passes through tcc1014_mem_cycle
LEMMA CycleView ==
  ASSUME NEW g, GimeShape(g), NEW addr, NEW val
  PROVE  Beside(g, tcc1014_mem_write(g, addr, val), addr)
<1> DEFINE h == edge_detect_il(g)
           w == tcc1014_mem_write(g, addr, val)
<1>0. DOMAIN g = GimeFields
  BY DEF GimeShape, GimeFields
<1>1. w = CASE addr \in 65424 .. 65439 -> tcc1014_write_register(h, addr - 65424, val)
            [] addr \in 65440 .. 65455 -> tcc1014_write_mmu(h, addr - 65440, Number(val))
            [] addr \in 65472 .. 65503 -> tcc1014_write_sam(h, addr - 65472)
            [] OTHER -> tcc1014_snoop_pia1b(h, addr, val)
  BY DEF tcc1014_mem_write
<1>2. /\ Touches(g, h, RaiseFields)
      /\ SameView(g, h) /\ h.IL = g.IL /\ (VBORD \notin g.IL => SameWatch(g, h))
  BY <1>0, EdgeRaises
<1> HIDE DEF h, w
<1>3. DOMAIN h = GimeFields /\ h.registers = g.registers
  BY <1>0, <1>2, FieldsAre DEF Touches, RaiseFields
<1>4. GimeShape(h)
  BY <1>3 DEF GimeShape, GimeFields
<1>5. ASSUME w.IL = h.IL, addr \notin VideoRegs => SameView(h, w), addr \notin VideoRegs \cup IntRegs => SameWatch(h, w)
      PROVE  Beside(g, w, addr)
  BY <1>2, <1>5, ViewTwice DEF Beside
<1>6. CASE addr \in 65424 .. 65439
  <2> DEFINE reg == addr - 65424
  <2>1. w = tcc1014_write_register(h, reg, val)
    BY <1>1, <1>6
  <2>2. reg \in 0 .. 15 /\ (addr \notin VideoRegs => reg \in 1 .. 7)
        /\ (addr \notin VideoRegs \cup IntRegs => reg \in {1, 4, 5, 6, 7})
    BY <1>6 DEF VideoRegs, IntRegs
  <2> HIDE DEF reg
  <2>3. w.IL = h.IL /\ (reg \in 1 .. 7 => SameView(h, w)) /\ (reg \in {1, 4, 5, 6, 7} => SameWatch(h, w))
    BY <1>4, <2>1, <2>2, RegisterView
  <2> QED
    BY <1>5, <2>2, <2>3 DEF w
<1>7. CASE addr \in 65440 .. 65455
  <2>1. w = tcc1014_write_mmu(h, addr - 65440, Number(val))
    BY <1>1, <1>7
  <2>2. w.IL = h.IL /\ SameView(h, w) /\ SameWatch(h, w)
    BY <1>3, <2>1, MmuView
  <2> QED
    BY <1>5, <2>2 DEF w
<1>8. CASE addr \in 65472 .. 65503
  <2>1. w = tcc1014_write_sam(h, addr - 65472)
    BY <1>1, <1>8
  <2>2. w.IL = h.IL /\ addr \in VideoRegs
    BY <1>3, <1>8, <2>1, SamWatch DEF VideoRegs
  <2> QED
    BY <1>5, <2>2 DEF w
<1>9. CASE addr \notin 65424 .. 65439 /\ addr \notin 65440 .. 65455 /\ addr \notin 65472 .. 65503
  <2>1. w = tcc1014_snoop_pia1b(h, addr, val)
    BY <1>1, <1>9
  <2>2. w.IL = h.IL /\ (addr # 65314 /\ addr # 65315 => w = h)
    BY <1>3, <2>1, SnoopView
  <2>3. addr \notin VideoRegs => addr # 65314 /\ addr # 65315
    BY DEF VideoRegs
  <2> QED
    BY <1>5, <2>2, <2>3, ViewItself DEF w
<1> QED
  BY <1>6, <1>7, <1>8, <1>9

\* A write of the CPU on the CoCo 3.
LEMMA Write3View ==
  ASSUME NEW c, Board(c), Consistent(c.g), NEW addr \in Address, NEW val
  PROVE  LET r == AfterWrite(c, addr, val) IN Beside(c.g, r.g, addr) /\ r.scanline = c.scanline
<1> DEFINE r == AfterWrite(c, addr, val)
           h == tcc1014_mem_write(c.g, addr, val)
           i == tcc1014_write_register(c.g, 1, val)
<1>1. Touches(c, r, BusFields) /\ (r.g = c.g \/ r.g = h \/ (addr = 65425 /\ r.g = i))
  BY Write3
<1>2. GimeShape(c.g)
  BY ConsistentFields
<1>3. Beside(c.g, h, addr)
  BY <1>2, CycleView
<1>4. 1 \in 0 .. 15 /\ 1 \in 1 .. 7 /\ 1 \in {1, 4, 5, 6, 7}
  OBVIOUS
<1>5. Beside(c.g, i, addr)
  BY <1>2, <1>4, RegisterView DEF Beside
<1>6. Beside(c.g, c.g, addr)
  BY ViewItself DEF Beside
<1> HIDE DEF r, h, i
<1>7. r.scanline = c.scanline
  BY <1>1 DEF Touches, Board, MachineFields, BusFields
<1> QED
  BY <1>1, <1>3, <1>5, <1>6, <1>7 DEF r

\* What a read leaves alone: it acknowledges, and scans the keyboard.
LEMMA GimeReadView ==
  ASSUME NEW g, DOMAIN g = GimeFields, NEW addr
  PROVE  LET h == tcc1014_mem_read(g, addr)
         IN h.IL = g.IL /\ (VBORD \notin g.IL => SameWatch(g, h))
<1> DEFINE h == edge_detect_il(g)
           i == edge_detect_il(h)
           reg == addr - 65424
           a == [i EXCEPT !.irq_state = {}, !.IRQ = {}]
           b == [i EXCEPT !.firq_state = {}, !.FIRQ = {}]
           w == tcc1014_mem_read(g, addr)
<1>1. Touches(g, h, RaiseFields) /\ h.IL = g.IL /\ (VBORD \notin g.IL => SameWatch(g, h))
  BY EdgeRaises
<1>2. DOMAIN h = GimeFields
  BY <1>1 DEF Touches
<1>3. w = IF addr \in {65426, 65427} THEN tcc1014_read_register(h, reg).g ELSE h
  BY DEF tcc1014_mem_read
<1>4. tcc1014_read_register(h, reg) =
        CASE reg = 2 -> [value |-> i.irq_state, g |-> a]
          [] reg = 3 -> [value |-> i.firq_state, g |-> b]
          [] OTHER -> [value |-> Bits, g |-> h]
  BY DEF tcc1014_read_register
<1>5. Touches(h, i, RaiseFields) /\ i.IL = h.IL /\ (VBORD \notin h.IL => SameWatch(h, i))
  BY <1>2, EdgeRaises
<1> HIDE DEF h, i
<1>6. DOMAIN i = GimeFields
  BY <1>2, <1>5 DEF Touches
<1>7. Touches(i, a, {"irq_state", "IRQ"}) /\ a.irq_state = {} /\ Touches(i, b, {"firq_state", "FIRQ"})
  BY <1>6, FieldsAre DEF Touches
<1> HIDE DEF a, b
<1>8. a.IL = i.IL /\ b.IL = i.IL /\ a.registers = i.registers /\ b.registers = i.registers /\ b.irq_state = i.irq_state
  BY <1>6, <1>7, FieldsAre DEF Touches
<1>9. SameWatch(i, a) /\ SameWatch(i, b)
  BY <1>7, <1>8 DEF SameWatch
<1>10. w = h \/ w = a \/ w = b
  <2>1. CASE addr = 65426
    <3>1. reg = 2
      BY <2>1
    <3> HIDE DEF reg, w
    <3> QED
      BY <1>3, <1>4, <2>1, <3>1
  <2>2. CASE addr = 65427
    <3>1. reg = 3
      BY <2>2
    <3> HIDE DEF reg, w
    <3> QED
      BY <1>3, <1>4, <2>2, <3>1
  <2>3. CASE addr \notin {65426, 65427}
    BY <1>3, <2>3
  <2> QED
    BY <2>1, <2>2, <2>3
<1> HIDE DEF w
<1>11. w.IL = g.IL /\ (VBORD \notin g.IL => SameWatch(g, w))
  BY <1>1, <1>5, <1>8, <1>9, <1>10, ViewTwice
<1> QED
  BY <1>11 DEF w

\* What a read leaves alone.
Unheard(g, h) == SameView(g, h) /\ (VBORD \notin g.IL => SameWatch(g, h) /\ VBORD \notin h.IL)

\* The keyboard's IL line is not VBORD's.
LEMMA KeysView ==
  ASSUME NEW c, Board(c), DOMAIN c.g = GimeFields, NEW held
  PROVE  LET s == ScanKeys(c, held)
         IN (VBORD \notin c.g.IL => VBORD \notin s.g.IL /\ SameWatch(c.g, s.g)) /\ s.scanline = c.scanline
<1> DEFINE rows == Rows(c, held)
           il == IF 0 \in rows THEN {} ELSE {EI1}
           h == [c.g EXCEPT !.IL = il]
           p == [c.pia0 EXCEPT !.a.input = rows]
           s == [c EXCEPT !.g = h, !.pia0 = p]
<1>1. ScanKeys(c, held) = IF ~DataRead(c.pia0, 0) THEN c ELSE s
  BY DEF ScanKeys
<1>2. VBORD \notin il
  BY DEF VBORD, EI1
<1>3. DOMAIN c = MachineFields
  BY DEF Board
<1> HIDE DEF rows, il, p
<1>4. Touches(c.g, h, {"IL"}) /\ h.IL = il
  BY FieldsAre DEF Touches
<1> HIDE DEF h
<1>5. s.g = h /\ s.scanline = c.scanline
  BY <1>3 DEF MachineFields
<1>6. SameWatch(c.g, h)
  BY <1>4, ViewUntouched
<1> HIDE DEF s
<1> QED
  BY <1>1, <1>2, <1>4, <1>5, <1>6, ViewItself

\* A read of the CPU on the CoCo 3.
LEMMA Read3View ==
  ASSUME NEW c, Board(c), Consistent(c.g), NEW addr \in Address, NEW held
  PROVE  LET r == AfterRead(c, addr, held) IN Unheard(c.g, r.g) /\ r.scanline = c.scanline
<1> DEFINE where == machine_read_coco3(c, addr)
           h == tcc1014_mem_read(c.g, addr)
           seen == [c EXCEPT !.g = h]
           s == IF where[2] = 0 THEN ScanKeys(seen, held) ELSE seen
           p0 == mc6821_read(s.pia0, where[2])
           p1 == mc6821_read(seen.pia1, where[2])
           r0 == [s EXCEPT !.pia0 = p0]
           r1 == [seen EXCEPT !.pia1 = p1]
           r == AfterRead(c, addr, held)
<1>1. r = CASE where[1] = "ram" \/ addr >= 65504 -> c
            [] where[1] = "pia0" -> r0
            [] where[1] = "pia1" -> r1
            [] where[1] \in {"acia", "ssc", "vhd"} -> c
            [] OTHER -> seen
  BY DEF AfterRead
<1>2. Quiet(c, r, {"g"}) /\ Touches(c.g, r.g, InterruptFields)
  BY ReadQuiet3
<1>3. DOMAIN c.g = GimeFields /\ DOMAIN c = MachineFields
  BY ConsistentFields DEF Board
<1>4. /\ Touches(c.g, h, InterruptFields) /\ h.IL = c.g.IL
      /\ (VBORD \notin c.g.IL => SameWatch(c.g, h))
  BY <1>3, GimeReadView, GimeReadTouches
<1> HIDE DEF where, h
<1>5. Quiet(c, seen, {"g"}) /\ seen.g = h
  BY QuietGime
<1> HIDE DEF seen
<1>6. Board(seen) /\ DOMAIN seen.g = GimeFields /\ DOMAIN seen = MachineFields
  <2>1. Board(seen)
    BY <1>5, QuietBoard
  <2>2. DOMAIN seen.g = GimeFields
    BY <1>3, <1>4, <1>5 DEF Touches
  <2> QED
    BY <2>1, <2>2 DEF Board
<1>7. /\ (VBORD \notin seen.g.IL => VBORD \notin s.g.IL /\ SameWatch(seen.g, s.g))
      /\ DOMAIN s = MachineFields
  <2>1. /\ (VBORD \notin seen.g.IL => VBORD \notin ScanKeys(seen, held).g.IL /\ SameWatch(seen.g, ScanKeys(seen, held).g))
        /\ DOMAIN ScanKeys(seen, held) = MachineFields
    BY <1>6, KeysView, KeysScanned DEF Quiet
  <2> QED
    BY <1>6, <2>1, ViewItself
<1> HIDE DEF s, p0, p1
<1>8. r0.g = s.g /\ r1.g = seen.g
  BY <1>6, <1>7 DEF MachineFields
<1> HIDE DEF r0, r1, r
<1>9. r = c \/ r = r0 \/ r = r1 \/ r = seen
  <2>1. CASE where[1] = "ram" \/ addr >= 65504
    BY <1>1, <2>1
  <2>2. CASE ~(where[1] = "ram" \/ addr >= 65504)
    BY <1>1, <2>2
  <2> QED
    BY <2>1, <2>2
<1>10. VBORD \notin c.g.IL => SameWatch(c.g, r.g) /\ VBORD \notin r.g.IL
  BY <1>4, <1>5, <1>7, <1>8, <1>9, ViewTwice, ViewItself
<1>11. SameView(c.g, r.g)
  BY <1>2, <1>3, ViewUntouched DEF InterruptFields
<1>12. r.scanline = c.scanline
  BY <1>2 DEF Quiet, MachineFields
<1> QED
  BY <1>10, <1>11, <1>12 DEF Unheard, r

\* A reset lets go of the IL lines.
LEMMA GimeResetLines ==
  ASSUME NEW g, NEW pages
  PROVE  tcc1014_set_ram(tcc1014_reset(g), pages).IL = {}
<1> DEFINE mmu == [i \in 0 .. 15 |-> 56 + (i % 8)]
           z == [tcc1014_init EXCEPT !.mmu_bank = mmu, !.ram_pages = g.ram_pages,
                                     !.B = g.B, !.timer_fires = g.timer_fires]
           b == tcc1014_update_active_banks(z)
           r == tcc1014_reset(g)
           s == [r EXCEPT !.ram_pages = pages, !.vram_base = 0]
           w == tcc1014_set_ram(r, pages)
<1>1. r = update_from_gime_registers(b)
  BY Zenon DEF tcc1014_reset
<1>2. w = tcc1014_update_active_banks(s)
  BY Zenon DEF tcc1014_set_ram
<1> HIDE DEF mmu
<1>3. DOMAIN z = GimeFields /\ z.IL = {}
  BY FieldsAre DEF GimeFields, tcc1014_init
<1> HIDE DEF z, r, w
<1>4. Touches(z, b, {"active_banks", "rd_page", "wr_page"})
  BY <1>3, BanksTouch
<1> HIDE DEF b
<1>5. DOMAIN b = GimeFields /\ b.IL = {}
  BY <1>3, <1>4, FieldsAre DEF Touches
<1>6. Touches(b, r, {"video"})
  BY <1>1, <1>5, VideoTouches
<1>7. DOMAIN r = GimeFields /\ r.IL = {}
  BY <1>5, <1>6, FieldsAre DEF Touches
<1>8. Touches(r, s, {"ram_pages", "vram_base"})
  BY <1>7, FieldsAre DEF Touches
<1> HIDE DEF s
<1>9. DOMAIN s = GimeFields /\ s.IL = {}
  BY <1>7, <1>8, FieldsAre DEF Touches
<1>10. Touches(s, w, {"active_banks", "rd_page", "wr_page"})
  BY <1>2, <1>9, BanksTouch
<1>11. w.IL = {}
  BY <1>9, <1>10, FieldsAre DEF Touches
<1> QED
  BY <1>11 DEF w, r

\* The timer's expiries raise TMR, so no VBORD.
TimerOnly == RaiseFields \cup TimerFields \cup {"timer_fires", "blink"}
Expired(g, h) == Touches(g, h, TimerOnly) /\ (VBORD \in h.irq_state => VBORD \in g.irq_state)

\* An expiry of the slow timer, and those of the fast one in a line
LEMMA ExpiryView ==
  ASSUME NEW g, DOMAIN g = GimeFields
  PROVE  Expired(g, arm_timer(timer_expired(g))) /\ Expired(g, ExpireFast(g))
<1>1. VBORD \notin {TMR}
  BY DEF VBORD, TMR
<1>2. ASSUME NEW h, NEW i, DOMAIN h = GimeFields, Touches(h, i, {"timer_fires", "blink"})
      PROVE  DOMAIN i = GimeFields /\ Expired(h, i)
  BY <1>2, FieldsAre DEF Expired, Touches, TimerOnly, RaiseFields, TimerFields
<1>3. ASSUME NEW h, DOMAIN h = GimeFields
      PROVE  DOMAIN set_interrupt(h, {TMR}) = GimeFields /\ Expired(h, set_interrupt(h, {TMR}))
  <2> DEFINE i == set_interrupt(h, {TMR})
  <2>1. Touches(h, i, RaiseFields) /\ i.irq_state = h.irq_state \cup ({TMR} \cap h.registers[2])
    BY <1>3, Raised
  <2> HIDE DEF i
  <2>2. Expired(h, i)
    BY <1>1, <2>1, TouchesMore DEF Expired, TimerOnly
  <2>3. DOMAIN i = GimeFields
    BY <1>3, <2>1 DEF Touches
  <2> QED
    BY <2>2, <2>3 DEF i
<1>4. ASSUME NEW h, NEW i, DOMAIN h = GimeFields, Touches(h, i, TimerFields)
      PROVE  DOMAIN i = GimeFields /\ Expired(h, i)
  <2>1. DOMAIN i = GimeFields /\ i.irq_state = h.irq_state
    BY <1>4, FieldsAre DEF Touches, TimerFields
  <2> QED
    BY <1>4, <2>1, TouchesMore DEF Expired, TimerOnly
<1>5. \A h, i, k : Expired(h, i) /\ Expired(i, k) => Expired(h, k)
  BY DEF Expired, Touches
<1>6. Expired(g, arm_timer(timer_expired(g)))
  <2> DEFINE fires == g.timer_fires + 1
             blink == ~g.blink
             h == [g EXCEPT !.blink = blink, !.timer_fires = fires]
             i == set_interrupt(h, {TMR})
             k == arm_timer(i)
  <2>1. timer_expired(g) = i
    BY Zenon DEF timer_expired
  <2> HIDE DEF fires, blink
  <2>2. Touches(g, h, {"timer_fires", "blink"})
    BY FieldsAre DEF Touches
  <2> HIDE DEF h
  <2>3. DOMAIN h = GimeFields /\ Expired(g, h)
    BY <1>2, <2>2
  <2>4. DOMAIN i = GimeFields /\ Expired(h, i)
    BY <1>3, <2>3
  <2> HIDE DEF i
  <2>5. Expired(i, k)
    BY <1>4, <2>4, ArmTouches
  <2> HIDE DEF k
  <2>6. Expired(g, k)
    BY <1>5, <2>3, <2>4, <2>5
  <2> QED
    BY <2>1, <2>6 DEF k
<1>7. Expired(g, ExpireFast(g))
  <2> DEFINE n == Expiries(g)
             fires == g.timer_fires + n
             blink == IF n % 2 = 1 THEN ~g.blink ELSE g.blink
             h == [g EXCEPT !.timer_fires = fires, !.blink = blink]
             a == arm_timer(h)
             e == set_interrupt(a, {TMR})
             left == IF Reload(g) = 0 THEN 0 ELSE n * e.timer_left_x2 + g.timer_left_x2
             k == [e EXCEPT !.timer_left_x2 = left]
  <2>1. ExpireFast(g) = IF g.timer_left_x2 > 0 THEN g ELSE k
    BY DEF ExpireFast
  <2> HIDE DEF n, fires, blink
  <2>2. Touches(g, h, {"timer_fires", "blink"})
    BY FieldsAre DEF Touches
  <2> HIDE DEF h
  <2>3. DOMAIN h = GimeFields /\ Expired(g, h)
    BY <1>2, <2>2
  <2>4. DOMAIN a = GimeFields /\ Expired(h, a)
    BY <1>4, <2>3, ArmTouches
  <2> HIDE DEF a
  <2>5. DOMAIN e = GimeFields /\ Expired(a, e)
    BY <1>3, <2>4
  <2> HIDE DEF e, left
  <2>6. Touches(e, k, TimerFields)
    BY <2>5, FieldsAre DEF Touches, TimerFields
  <2> HIDE DEF k
  <2>7. Expired(e, k)
    BY <1>4, <2>5, <2>6
  <2>8. Expired(g, k)
    BY <1>5, <2>3, <2>4, <2>5, <2>7
  <2>9. Expired(g, g)
    BY DEF Expired, Touches
  <2> QED
    BY <2>1, <2>8, <2>9
<1> QED
  BY <1>6, <1>7

\* So a line's tick leaves the view and the VBORD alone.
LEMMA TickView ==
  ASSUME NEW g, DOMAIN g = GimeFields
  PROVE  LET w == tcc1014_tick_scanline(g)
         IN SameView(g, w) /\ SameWatch(g, w) /\ w.IL = g.IL
<1> DEFINE left == g.timer_left_x2 - TIMER_FAST_X2_PER_LINE
           down == g.timer_counter - 1
           h == [g EXCEPT !.timer_left_x2 = left]
           i == [g EXCEPT !.timer_counter = down]
           w == tcc1014_tick_scanline(g)
<1>1. w = IF g.timer_counter <= 0 THEN g
          ELSE IF TINS(g) THEN ExpireFast(h)
          ELSE IF i.timer_counter <= 0 THEN arm_timer(timer_expired(i)) ELSE i
  BY DEF tcc1014_tick_scanline
<1> HIDE DEF left, down, w
<1>2. Touches(g, h, TimerFields) /\ Touches(g, i, TimerFields)
  BY FieldsAre DEF Touches, TimerFields
<1> HIDE DEF h, i
<1>3. DOMAIN h = GimeFields /\ DOMAIN i = GimeFields /\ h.irq_state = g.irq_state /\ i.irq_state = g.irq_state
  BY <1>2, FieldsAre DEF Touches, TimerFields
<1>4. Expired(g, h) /\ Expired(g, i) /\ Expired(g, g)
  <2>1. Touches(g, h, TimerOnly) /\ Touches(g, i, TimerOnly) /\ Touches(g, g, TimerOnly)
    BY <1>2, TouchesMore DEF TimerOnly, Touches
  <2> QED
    BY <1>3, <2>1 DEF Expired
<1>5. Expired(h, ExpireFast(h)) /\ Expired(i, arm_timer(timer_expired(i)))
  BY <1>3, ExpiryView
<1>6. \A x, y, z : Expired(x, y) /\ Expired(y, z) => Expired(x, z)
  BY DEF Expired, Touches
<1>7. Expired(g, w)
  BY <1>1, <1>4, <1>5, <1>6
<1>8. SameView(g, w) /\ w.IL = g.IL
  BY <1>7, ViewUntouched DEF Expired, TimerOnly, RaiseFields, TimerFields
<1>9. w.registers = g.registers
  BY <1>7, FieldsAre DEF Expired, Touches, TimerOnly, RaiseFields, TimerFields
<1>10. SameWatch(g, w)
  BY <1>7, <1>9 DEF Expired, SameWatch
<1> QED
  BY <1>8, <1>10 DEF w

-----------------------------------------------------------------------------
(* The screen that the registers say.                                       *)

\* Four bits.
LEMMA Field4 ==
  ASSUME NEW bits, NEW lo
  PROVE  Field(bits, lo, 4) \in 0 .. 15
<1> DEFINE weight(i) == IF i < 4 /\ lo + i \in bits THEN 2^i ELSE 0
<1>0. 2^0 = 1 /\ 2^1 = 2 /\ 2^2 = 4 /\ 2^3 = 8
  OBVIOUS
<1>1. weight(0) \in 0 .. 1 /\ weight(1) \in 0 .. 2 /\ weight(2) \in 0 .. 4 /\ weight(3) \in 0 .. 8
  BY <1>0
<1>2. weight(4) = 0 /\ weight(5) = 0 /\ weight(6) = 0 /\ weight(7) = 0
  OBVIOUS
<1>3. Field(bits, lo, 4)
        = weight(0) + weight(1) + weight(2) + weight(3) + weight(4) + weight(5) + weight(6) + weight(7)
  BY DEF Field
<1> HIDE DEF weight
<1> QED
  BY <1>1, <1>2, <1>3

\* The screen: where its active lines begin and how many there are, in which
\* rows, how far apart the rows' bytes are and where the first is.
ScreenType(g) ==
  /\ lTB(g) \in Nat /\ lAA(g) \in Nat \ {0} /\ row_stride(g) \in Nat /\ StartAddress(g) \in Nat
  /\ Skipped(g) \in Nat /\ LinesPerRow(g) \in Nat \ {0}

\* A consistent GIME has one; where the rows end, what they skip is less than a row.
LEMMA ScreenTypes ==
  ASSUME NEW g, Consistent(g)
  PROVE  /\ ScreenType(g) /\ g.video.lTB = lTB(g) /\ g.video.lAA = lAA(g)
         /\ RowsEnd(g) => /\ g.video.rowmask \in 0 .. 12 /\ Skipped(g) < LinesPerRow(g)
                          /\ COCO(g) => g.video.rowmask # 0
<1>1. LPF(g) \in 0 .. 3 /\ CRES(g) \in 0 .. 3 /\ HRES(g) \in 0 .. 7 /\ LPR(g) \in 0 .. 7 /\ SAM_V(g) \in 0 .. 7
      /\ VSC(g) \in 0 .. 15
  BY Field2, Field3, Field4 DEF LPF, CRES, HRES, LPR, SAM_V, VSC
<1>2. lTB(g) \in Nat
  BY <1>1 DEF lTB, VRES_LPF_lTB
<1>3. lAA(g) \in Nat \ {0}
  BY <1>1 DEF lAA, VRES_LPF_lAA
<1>4. row_stride(g) \in Nat
  <2>1. BPR(g) \in Nat
    <3>1. CASE COCO(g)
      BY <3>1 DEF BPR
    <3>2. CASE ~COCO(g)
      BY <1>1, <3>2 DEF BPR, VRES_HRES_BPR, VRES_HRES_BPR_TEXT
    <3> QED
      BY <3>1, <3>2
  <2> QED
    BY <2>1 DEF row_stride
<1>5. StartAddress(g) \in Nat
  <2> DEFINE hi == Number(g.registers[13])
             lo == Number(g.registers[14])
             y == Y(g)
             f == SAM_F(g)
             a == y % 512
             b == (y \div 65536) % 8
  <2>1. hi \in Nat /\ lo \in Nat /\ f \in Nat
    BY FieldType DEF Number, SAM_F
  <2>2. y = hi * 2048 + lo * 8
    BY DEF Y
  <2> HIDE DEF hi, lo, f
  <2>3. y \in Nat
    BY <2>1, <2>2
  <2>4. StartAddress(g) = IF COCO(g) THEN a + 65536 * b + 512 * f ELSE y
    BY DEF StartAddress, f
  <2> HIDE DEF y
  <2>5. a \in 0 .. 511 /\ b \in 0 .. 7
    <3>1. y \in Int /\ y \div 65536 \in Int
      BY <2>3, ModDiv
    <3> QED
      BY <3>1, ModRange
  <2> HIDE DEF a, b
  <2> QED
    BY <2>1, <2>3, <2>4, <2>5
<1>6. Skipped(g) \in Nat
  BY <1>1 DEF Skipped
<1>7. /\ g.video.lTB = lTB(g) /\ g.video.lAA = lAA(g)
      /\ g.video.rowmask = IF ~COCO(g) THEN LPR_rowmask[LPR(g) + 1]
                           ELSE IF GnA(g) THEN SAM_V_rowmask[SAM_V(g) + 1] ELSE VSC_rowmask[VSC(g) + 1]
  <2>1. g.video = Geometry(g)
    BY DEF Consistent, UpToDate
  <2> QED
    BY <2>1 DEF Geometry
<1>8. CASE COCO(g)
  <2>1. g.video.rowmask \in 1 .. 12
    <3>1. CASE GnA(g)
      <4>1. g.video.rowmask = SAM_V_rowmask[SAM_V(g) + 1]
        BY <1>7, <1>8, <3>1
      <4> QED
        BY <1>1, <4>1 DEF SAM_V_rowmask
    <3>2. CASE ~GnA(g)
      <4>1. g.video.rowmask = VSC_rowmask[VSC(g) + 1]
        BY <1>7, <1>8, <3>2
      <4> QED
        BY <1>1, <4>1 DEF VSC_rowmask
    <3> QED
      BY <3>1, <3>2
  <2>2. Skipped(g) = 0 /\ LinesPerRow(g) = g.video.rowmask
    BY <1>8, <2>1 DEF Skipped, LinesPerRow
  <2> QED
    BY <1>2, <1>3, <1>4, <1>5, <1>6, <1>7, <2>1, <2>2 DEF ScreenType
<1>9. CASE ~COCO(g)
  <2>1. g.video.rowmask = LPR_rowmask[LPR(g) + 1]
    BY <1>7, <1>9
  <2>2. g.video.rowmask \in Nat /\ (LPR(g) # 7 => g.video.rowmask \in 0 .. 12)
    BY <1>1, <2>1 DEF LPR_rowmask
  <2>3. LinesPerRow(g) \in Nat \ {0}
    BY <2>2 DEF LinesPerRow
  <2> QED
    BY <1>2, <1>3, <1>4, <1>5, <1>6, <1>7, <1>9, <2>2, <2>3 DEF ScreenType, RowsEnd, Skipped
<1> QED
  BY <1>8, <1>9

\* It is what the registers say.
LEMMA ScreenSame ==
  ASSUME NEW g, NEW h, Consistent(g), Consistent(h), SameScreen(g, h)
  PROVE  /\ lTB(h) = lTB(g) /\ lAA(h) = lAA(g) /\ row_stride(h) = row_stride(g) /\ StartAddress(h) = StartAddress(g)
         /\ Skipped(h) = Skipped(g) /\ LinesPerRow(h) = LinesPerRow(g)
         /\ RowsEnd(h) <=> RowsEnd(g)
<1>1. SameInputs(g, h) /\ h.registers[0] = g.registers[0] /\ h.registers[8] = g.registers[8]
      /\ h.registers[12] = g.registers[12] /\ h.SAM_register = g.SAM_register
      /\ h.registers[13] = g.registers[13] /\ h.registers[14] = g.registers[14]
  BY DEF SameScreen, SameInputs
<1>2. h.video = g.video /\ g.video = Geometry(g) /\ h.video = Geometry(h)
  BY <1>1, SameGeometry DEF Consistent, UpToDate
<1>3. lTB(h) = lTB(g) /\ lAA(h) = lAA(g) /\ row_stride(h) = row_stride(g)
  BY <1>2 DEF Geometry
<1>4. /\ COCO(h) <=> COCO(g)
      /\ LPR(h) = LPR(g) /\ VSC(h) = VSC(g) /\ Y(h) = Y(g) /\ SAM_F(h) = SAM_F(g)
  BY <1>1 DEF COCO, LPR, VSC, Y, SAM_F
<1>5. StartAddress(h) = StartAddress(g)
  BY <1>4 DEF StartAddress
<1>6. Skipped(h) = Skipped(g) /\ LinesPerRow(h) = LinesPerRow(g)
  BY <1>2, <1>4 DEF Skipped, LinesPerRow
<1>7. RowsEnd(h) <=> RowsEnd(g)
  BY <1>4, <1>6 DEF RowsEnd
<1> QED
  BY <1>3, <1>5, <1>6, <1>7

-----------------------------------------------------------------------------
(* A line of the beam.                                                      *)

\* What the three steps of a line do to the beam.
LEMMA EnteredIs ==
  ASSUME NEW g, DOMAIN g = GimeFields
  PROVE  LET e == Entered(g)
         IN /\ Touches(g, e, {"active_area", "row"})
            /\ IF ~g.active_area /\ g.lcount = g.video.lTB
               THEN e.active_area /\ e.row = IF COCO(g) \/ RowFull(VSC(g), g.video.rowmask) THEN 0 ELSE VSC(g)
               ELSE e = g
<1> DEFINE r == IF COCO(g) \/ RowFull(VSC(g), g.video.rowmask) THEN 0 ELSE VSC(g)
           h == [g EXCEPT !.active_area = TRUE, !.row = r]
           e == Entered(g)
<1>1. e = IF ~g.active_area /\ g.lcount = g.video.lTB THEN h ELSE g
  BY Zenon DEF Entered, EnterActive
<1> HIDE DEF r, e
<1>2. Touches(g, h, {"active_area", "row"}) /\ Touches(g, g, {"active_area", "row"})
      /\ h.active_area = TRUE /\ h.row = r
  BY FieldsAre DEF Touches
<1> HIDE DEF h
<1> QED
  BY <1>1, <1>2 DEF e, r

\* Leaving the active area raises VBORD,
LEMMA LeftIs ==
  ASSUME NEW g, DOMAIN g = GimeFields
  PROVE  LET e == LeftActive(g)
         IN /\ Touches(g, e, RaiseFields \cup {"active_area"})
            /\ IF g.active_area /\ PastActive(g)
               THEN ~e.active_area /\ e.irq_state = g.irq_state \cup ({VBORD} \cap g.registers[2])
               ELSE e = g
<1> DEFINE h == [g EXCEPT !.active_area = FALSE]
           i == set_interrupt(h, {VBORD})
           e == LeftActive(g)
<1>1. e = IF g.active_area /\ PastActive(g) THEN i ELSE g
  BY Zenon DEF LeftActive, LeaveActive
<1> HIDE DEF e
<1>2. Touches(g, h, {"active_area"}) /\ h.active_area = FALSE
  BY FieldsAre DEF Touches
<1> HIDE DEF h
<1>3. DOMAIN h = GimeFields /\ h.irq_state = g.irq_state /\ h.registers = g.registers
  BY <1>2, FieldsAre DEF Touches
<1>4. Touches(h, i, RaiseFields) /\ i.irq_state = h.irq_state \cup ({VBORD} \cap h.registers[2])
  BY <1>3, Raised
<1> HIDE DEF i
<1>5. i.active_area = h.active_area
  BY <1>3, <1>4, FieldsAre DEF Touches, RaiseFields
<1>6. Touches(g, i, {"active_area"} \cup RaiseFields)
  BY <1>2, <1>4, TouchesBoth
<1>7. Touches(g, i, RaiseFields \cup {"active_area"}) /\ Touches(g, g, RaiseFields \cup {"active_area"})
  BY <1>6 DEF Touches
<1> QED
  BY <1>1, <1>2, <1>3, <1>4, <1>5, <1>7 DEF e

\* and an active line advances the row.
LEMMA DrawnIs ==
  ASSUME NEW g, Consistent(g)
  PROVE  LET d == DrawnLine(g)
             row == (g.row + 1) % 16
             full == RowFull(row, g.video.rowmask)
         IN /\ Touches(g, d, {"row", "B", "lcount"}) /\ d.lcount = g.lcount + 1
            /\ IF g.active_area
               THEN /\ d.row = (IF full THEN 0 ELSE row)
                    /\ d.B = (IF full /\ (COCO(g) \/ LPR(g) # 7) THEN g.B + row_stride(g) ELSE g.B)
               ELSE d.row = g.row /\ d.B = g.B
<1> DEFINE row == (g.row + 1) % 16
           full == RowFull(row, g.video.rowmask)
           next == IF full THEN 0 ELSE row
           start == IF full /\ (COCO(g) \/ LPR(g) # 7) THEN g.B + row_stride(g) ELSE g.B
           stride == row_stride(g)
           colour == border_colour(g)
           a == [g EXCEPT !.row = next, !.video.row_stride = stride, !.B = start]
           e == IF g.active_area THEN a ELSE g
           count == e.lcount + 1
           w == [e EXCEPT !.video.border_colour = colour, !.lcount = count]
<1>0. DOMAIN g = GimeFields
  BY ConsistentFields
<1>1. DrawnLine(g) = w
  BY DEF DrawnLine, AdvanceRow
<1>2. [g.video EXCEPT !.row_stride = stride] = g.video /\ [g.video EXCEPT !.border_colour = colour] = g.video
  BY VideoAlready
<1> HIDE DEF next, start, stride, colour
<1>3. Touches(g, a, {"row", "B"}) /\ a.row = next /\ a.B = start
  BY <1>0, <1>2, FieldsAre DEF Touches
<1> HIDE DEF a
<1>4. Touches(g, e, {"row", "B"}) /\ (IF g.active_area THEN e.row = next /\ e.B = start ELSE e = g)
  BY <1>3 DEF Touches
<1> HIDE DEF e, count
<1>5. DOMAIN e = GimeFields /\ e.video = g.video /\ e.lcount = g.lcount
  BY <1>0, <1>4, FieldsAre DEF Touches
<1>6. Touches(e, w, {"lcount"}) /\ w.lcount = count
  BY <1>2, <1>5, FieldsAre DEF Touches
<1>7. w.row = e.row /\ w.B = e.B /\ w.lcount = g.lcount + 1
  <2> HIDE DEF w
  <2>1. w.row = e.row /\ w.B = e.B
    BY <1>5, <1>6, FieldsAre DEF Touches
  <2> QED
    BY <1>5, <1>6, <2>1 DEF count
<1> HIDE DEF w
<1>8. Touches(g, w, {"row", "B", "lcount"})
  BY <1>4, <1>6 DEF Touches
<1>9. IF g.active_area THEN w.row = next /\ w.B = start ELSE w.row = g.row /\ w.B = g.B
  BY <1>4, <1>7
<1> HIDE DEF full
<1> QED
  BY <1>1, <1>7, <1>8, <1>9 DEF next, start, full

\* The row counter and the address after one more active line.
LEMMA NextRow ==
  ASSUME NEW g, Consistent(g), RowsEnd(g), NEW n \in Nat, g.row = n % LinesPerRow(g),
         g.B = StartAddress(g) + row_stride(g) * (n \div LinesPerRow(g))
  PROVE  LET row == (g.row + 1) % 16
             full == RowFull(row, g.video.rowmask)
         IN /\ (IF full THEN 0 ELSE row) = (n + 1) % LinesPerRow(g)
            /\ (IF full /\ (COCO(g) \/ LPR(g) # 7) THEN g.B + row_stride(g) ELSE g.B)
                 = StartAddress(g) + row_stride(g) * ((n + 1) \div LinesPerRow(g))
<1> DEFINE m == LinesPerRow(g)
           k == g.video.rowmask
           r == n % m
           q == n \div m
           row == (g.row + 1) % 16
           full == RowFull(row, k)
           S == StartAddress(g)
           d == row_stride(g)
<1>1. m \in Nat \ {0} /\ S \in Nat /\ d \in Nat /\ k \in 0 .. 12 /\ m = IF k = 0 THEN 1 ELSE k
  BY ScreenTypes DEF ScreenType, LinesPerRow
<1>2. COCO(g) \/ LPR(g) # 7
  BY DEF RowsEnd
<1> HIDE DEF m, k, S, d
<1>3. /\ r \in 0 .. m - 1 /\ q \in Nat
      /\ r + 1 < m => (n + 1) % m = r + 1 /\ (n + 1) \div m = q
      /\ r + 1 = m => (n + 1) % m = 0 /\ (n + 1) \div m = q + 1
  BY <1>1, NextOfRow
<1> DEFINE nr == (n + 1) % m
           nq == (n + 1) \div m
<1>4. g.row = r /\ g.B = S + d * q
  BY DEF m, S, d
<1> HIDE DEF r, q, nr, nq
<1>5. r + 1 \in 0 .. 12 /\ m \in 1 .. 12
  BY <1>1, <1>3
<1>6. row = r + 1
  <2>1. (r + 1) % 16 = r + 1
    BY <1>5
  <2> QED
    BY <1>4, <2>1
<1>7. full <=> r + 1 = m
  <2>1. CASE k = 0
    <3>1. r + 1 = m
      BY <1>1, <1>3, <2>1
    <3>2. RowFull(r + 1, k)
      BY <1>1, <1>5, <2>1, RowEnds
    <3> QED
      BY <1>6, <3>1, <3>2
  <2>2. CASE k # 0
    <3>1. m = k
      BY <1>1, <2>2
    <3>2. r + 1 < k => ~RowFull(r + 1, k)
      BY <1>1, <1>5, RowEnds
    <3>3. RowFull(k, k)
      BY <1>1, RowEnds
    <3>4. r + 1 < k \/ r + 1 = k
      BY <1>1, <1>3, <3>1
    <3>5. k \in Int /\ r + 1 \in Int
      BY <1>1, <1>5
    <3> QED
      BY <1>6, <3>1, <3>2, <3>3, <3>4, <3>5
  <2> QED
    BY <2>1, <2>2
<1> HIDE DEF row, full
<1>8. CASE r + 1 = m
  <2>1. nr = 0 /\ nq = q + 1 /\ full
    BY <1>3, <1>7, <1>8 DEF nr, nq
  <2>2. d * (q + 1) = d * q + d /\ d * q \in Int
    BY <1>1, <1>3
  <2>3. g.B + d = S + d * nq
    BY <1>1, <1>4, <2>1, <2>2
  <2> QED
    BY <1>2, <2>1, <2>3 DEF full, row, nr, nq, m, k, S, d
<1>9. CASE r + 1 < m
  <2>1. nr = r + 1 /\ nq = q /\ ~full
    BY <1>1, <1>3, <1>5, <1>7, <1>9 DEF nr, nq
  <2> QED
    BY <1>4, <1>6, <2>1 DEF full, row, nr, nq, m, k, S, d
<1> QED
  BY <1>1, <1>3, <1>8, <1>9

\* The row that the active area begins with is the first, or the one the scroll register says.
LEMMA FirstRow ==
  ASSUME NEW g, Consistent(g), RowsEnd(g)
  PROVE  (IF COCO(g) \/ RowFull(VSC(g), g.video.rowmask) THEN 0 ELSE VSC(g)) = Skipped(g) % LinesPerRow(g)
<1> DEFINE m == LinesPerRow(g)
           k == g.video.rowmask
           s == Skipped(g)
           v == VSC(g)
<1>1. m \in Nat \ {0} /\ s \in Nat /\ s < m /\ k \in 0 .. 12 /\ m = IF k = 0 THEN 1 ELSE k
  BY ScreenTypes DEF ScreenType, LinesPerRow
<1>2. s = IF COCO(g) THEN 0 ELSE v
  BY DEF Skipped
<1> HIDE DEF m, k, s, v
<1>3. s % m = s
  <2>1. s = m * 0 + s /\ s \in 0 .. m - 1 /\ s \in Int /\ 0 \in Int
    BY <1>1
  <2> QED
    BY <1>1, <2>1, ModUnique
<1>4. CASE COCO(g)
  BY <1>2, <1>3, <1>4 DEF m, k, s, v
<1>5. CASE ~COCO(g) /\ k = 0
  <2>1. s = 0 /\ v = 0
    BY <1>1, <1>2, <1>5
  <2>2. (IF COCO(g) \/ RowFull(v, k) THEN 0 ELSE v) = 0
    BY <2>1
  <2> QED
    BY <1>3, <2>1, <2>2 DEF m, k, s, v
<1>6. CASE ~COCO(g) /\ k # 0
  <2>1. v = s /\ v < k /\ v \in 0 .. 12
    BY <1>1, <1>2, <1>6
  <2>2. ~RowFull(v, k)
    BY <1>1, <2>1, RowEnds
  <2> QED
    BY <1>3, <1>6, <2>1, <2>2 DEF m, k, s, v
<1> QED
  BY <1>4, <1>5, <1>6

\* The lines drawn, spelt out
LEMMA DrawnCount ==
  ASSUME NEW g, NEW l \in Nat, lTB(g) \in Nat, lAA(g) \in Nat
  PROVE  DrawnAfter(g, l) = IF l <= lTB(g) THEN 0 ELSE IF l - lTB(g) < lAA(g) THEN l - lTB(g) ELSE lAA(g)
<1> DEFINE T == lTB(g)
           A == lAA(g)
           d == DrawnAfter(g, l)
<1>1. d = IF l <= T THEN 0 ELSE IF l - T < A THEN l - T ELSE A
  BY DEF DrawnAfter, Least
<1> QED
  BY <1>1

\* A line of the lower part of the frame: the beam is a line further, and if the
\* line is active a line more is drawn; VBORD is raised once, as the area ends.
LEMMA LineShape ==
  ASSUME NEW g, Consistent(g), NEW l \in Nat, Beam(g, l), RowReached(g, DrawnAfter(g, l))
  PROVE  LET w == VerticalLine(g)
         IN /\ Consistent(w) /\ SameScreen(g, w) /\ w.IL = g.IL /\ w.registers = g.registers
            /\ Beam(w, l + 1) /\ RowReached(w, DrawnAfter(g, l + 1))
            /\ DrawnAfter(g, l + 1) = DrawnAfter(g, l) + (IF w.active_area THEN 1 ELSE 0)
            /\ IF l = lTB(g) + lAA(g) THEN w.irq_state = g.irq_state \cup ({VBORD} \cap g.registers[2])
               ELSE w.irq_state = g.irq_state
<1> DEFINE e == Entered(g)
           b == LeftActive(e)
           w == DrawnLine(b)
           T == lTB(g)
           A == lAA(g)
           n == DrawnAfter(g, l)
           n1 == DrawnAfter(g, l + 1)
<1>1. VerticalLine(g) = w
  BY Zenon DEF VerticalLine
<1>2. DOMAIN g = GimeFields /\ g.lcount = l /\ (g.active_area <=> T < l /\ l <= T + A)
  BY ConsistentFields DEF Beam
<1>3. T \in Nat /\ A \in Nat \ {0} /\ Skipped(g) \in Nat /\ LinesPerRow(g) \in Nat \ {0}
      /\ g.video.lTB = T /\ g.video.lAA = A
  BY ScreenTypes DEF ScreenType
<1>4. n = (IF l <= T THEN 0 ELSE IF l - T < A THEN l - T ELSE A)
      /\ n1 = (IF l + 1 <= T THEN 0 ELSE IF l + 1 - T < A THEN l + 1 - T ELSE A)
  BY <1>3, DrawnCount
<1> HIDE DEF n, n1
\* What the three steps touch
<1>5. /\ Touches(g, e, {"active_area", "row"})
      /\ IF ~g.active_area /\ g.lcount = g.video.lTB
         THEN e.active_area /\ e.row = IF COCO(g) \/ RowFull(VSC(g), g.video.rowmask) THEN 0 ELSE VSC(g)
         ELSE e = g
  BY <1>2, EnteredIs
<1> HIDE DEF e
<1>6. DOMAIN e = GimeFields /\ e.lcount = l /\ e.B = g.B /\ e.video = g.video /\ e.registers = g.registers
      /\ e.irq_state = g.irq_state /\ e.IL = g.IL
  BY <1>2, <1>5, FieldsAre DEF Touches
<1>7. /\ Touches(e, b, RaiseFields \cup {"active_area"})
      /\ IF e.active_area /\ PastActive(e)
         THEN ~b.active_area /\ b.irq_state = e.irq_state \cup ({VBORD} \cap e.registers[2])
         ELSE b = e
  BY <1>6, LeftIs
<1> HIDE DEF b
<1>8. DOMAIN b = GimeFields /\ b.lcount = l /\ b.B = g.B /\ b.row = e.row /\ b.video = g.video
      /\ b.registers = g.registers /\ b.IL = g.IL
  BY <1>6, <1>7, FieldsAre DEF Touches, RaiseFields
<1>9. Touches(g, e, BeamFields) /\ Touches(e, b, BeamFields)
  BY <1>5, <1>7, TouchesMore DEF BeamFields, RaiseFields, InterruptFields
<1>10. Consistent(e) /\ Consistent(b)
  BY <1>9, BeamConsistent
<1> DEFINE row == (b.row + 1) % 16
           full == RowFull(row, b.video.rowmask)
           nrow == IF full THEN 0 ELSE row
           nB == IF full /\ (COCO(b) \/ LPR(b) # 7) THEN b.B + row_stride(b) ELSE b.B
<1>11. /\ Touches(b, w, {"row", "B", "lcount"}) /\ w.lcount = b.lcount + 1
       /\ IF b.active_area THEN w.row = nrow /\ w.B = nB ELSE w.row = b.row /\ w.B = b.B
  BY <1>10, DrawnIs
<1> HIDE DEF w, row, full, nrow, nB
<1>12. DOMAIN w = GimeFields /\ w.active_area = b.active_area /\ w.irq_state = b.irq_state /\ w.IL = g.IL
       /\ w.registers = g.registers /\ w.lcount = l + 1
  BY <1>8, <1>11, FieldsAre DEF Touches
<1>13. Touches(b, w, BeamFields)
  BY <1>11, TouchesMore DEF BeamFields
<1>14. Consistent(w) /\ Touches(g, w, BeamFields)
  BY <1>9, <1>10, <1>13, BeamConsistent, BeamTwice
<1>15. w.SAM_register = g.SAM_register /\ w.pdr = g.pdr
  BY <1>2, <1>14, FieldsAre DEF Touches, BeamFields, InterruptFields
<1>16. SameScreen(g, w)
  BY <1>12, <1>15 DEF SameScreen, SameInputs
<1>17. b.SAM_register = g.SAM_register /\ b.pdr = g.pdr
  <2>1. Touches(g, b, BeamFields)
    BY <1>9, BeamTwice
  <2> QED
    BY <1>2, <2>1, FieldsAre DEF Touches, BeamFields, InterruptFields
<1>18. SameScreen(g, b)
  BY <1>8, <1>17 DEF SameScreen, SameInputs
\* The beam
<1>19. PastActive(e) <=> l < T \/ l - T >= A
  BY <1>3, <1>6 DEF PastActive
<1>20. e.active_area <=> T <= l /\ l <= T + A
  BY <1>2, <1>3, <1>5
<1>21. b.active_area <=> T <= l /\ l < T + A
  <2>1. CASE e.active_area /\ PastActive(e)
    BY <1>3, <1>7, <1>19, <2>1
  <2>2. CASE ~(e.active_area /\ PastActive(e))
    <3>1. b = e
      BY <1>7, <2>2
    <3> QED
      BY <1>3, <1>19, <1>20, <2>2, <3>1
  <2> QED
    BY <2>1, <2>2
<1>22. IF l = T + A THEN b.irq_state = g.irq_state \cup ({VBORD} \cap g.registers[2])
       ELSE b.irq_state = g.irq_state
  <2>1. CASE e.active_area /\ PastActive(e)
    <3>1. l = T + A
      BY <1>3, <1>19, <1>20, <2>1
    <3> QED
      BY <1>6, <1>7, <2>1, <3>1
  <2>2. CASE ~(e.active_area /\ PastActive(e))
    <3>1. b = e /\ l # T + A
      BY <1>3, <1>7, <1>19, <1>20, <2>2
    <3> QED
      BY <1>6, <3>1
  <2> QED
    BY <2>1, <2>2
<1>23. w.active_area <=> T < l + 1 /\ l + 1 <= T + A
  BY <1>3, <1>12, <1>21
<1>24. n1 = n + (IF w.active_area THEN 1 ELSE 0)
  BY <1>3, <1>4, <1>23
<1>25. lTB(w) = T /\ lAA(w) = A /\ row_stride(w) = row_stride(g) /\ StartAddress(w) = StartAddress(g)
       /\ Skipped(w) = Skipped(g) /\ LinesPerRow(w) = LinesPerRow(g)
       /\ (RowsEnd(w) <=> RowsEnd(g))
  BY <1>14, <1>16, ScreenSame
<1>26. Beam(w, l + 1)
  BY <1>12, <1>23, <1>25 DEF Beam
\* The row
<1>27. RowReached(w, n1)
  <2> SUFFICES ASSUME RowsEnd(g)
               PROVE  w.B = RowAddress(g, n1) /\ (n1 > 0 => w.row = (n1 + Skipped(g)) % LinesPerRow(g))
    BY <1>25 DEF RowReached, RowAddress
  <2>1. g.B = RowAddress(g, n) /\ (n > 0 => g.row = (n + Skipped(g)) % LinesPerRow(g))
    BY DEF RowReached, n
  <2>2. CASE b.active_area
    <3>1. n \in Nat /\ n1 = n + 1 /\ (n = 0 <=> l = T)
      BY <1>3, <1>4, <1>12, <1>21, <1>24, <2>2
    <3>2. b.row = (n + Skipped(g)) % LinesPerRow(g)
      <4>1. CASE l = T
        <5>1. e.row = (IF COCO(g) \/ RowFull(VSC(g), g.video.rowmask) THEN 0 ELSE VSC(g))
          BY <1>2, <1>3, <1>5, <4>1
        <5>2. n + Skipped(g) = Skipped(g)
          BY <1>3, <3>1, <4>1
        <5> QED
          BY <1>8, <5>1, <5>2, FirstRow
      <4>2. CASE l # T
        <5>1. e = g /\ n > 0
          BY <1>2, <1>3, <1>5, <3>1, <4>2
        <5> QED
          BY <1>8, <2>1, <5>1
      <4> QED
        BY <4>1, <4>2
    <3>3. row_stride(b) = row_stride(g) /\ StartAddress(b) = StartAddress(g) /\ LinesPerRow(b) = LinesPerRow(g)
          /\ RowsEnd(b)
      BY <1>10, <1>18, ScreenSame
    <3> DEFINE k == n + Skipped(g)
    <3>4. k \in Nat /\ k + 1 = n1 + Skipped(g)
      BY <1>3, <3>1
    <3>5. b.B = StartAddress(b) + row_stride(b) * (k \div LinesPerRow(b)) /\ b.row = k % LinesPerRow(b)
      BY <1>8, <2>1, <3>2, <3>3 DEF RowAddress
    <3> HIDE DEF k
    <3>6. nrow = (k + 1) % LinesPerRow(b) /\ nB = StartAddress(b) + row_stride(b) * ((k + 1) \div LinesPerRow(b))
      BY <1>10, <3>3, <3>4, <3>5, NextRow DEF nrow, nB, full, row
    <3> QED
      BY <1>11, <2>2, <3>3, <3>4, <3>6 DEF RowAddress
  <2>3. CASE ~b.active_area
    <3>1. n1 = n /\ w.row = e.row /\ w.B = g.B
      BY <1>3, <1>4, <1>8, <1>11, <1>12, <1>24, <2>3
    <3>2. n > 0 => e = g
      BY <1>2, <1>3, <1>4, <1>5
    <3> QED
      BY <2>1, <3>1, <3>2
  <2> QED
    BY <2>2, <2>3
<1> HIDE DEF T, A
<1> QED
  BY <1>1, <1>12, <1>14, <1>16, <1>22, <1>24, <1>26, <1>27 DEF n, n1, w, T, A

\* The end of the vertical blanking: the beam is before the first line.
LEMMA BlankingShape ==
  ASSUME NEW g, Consistent(g)
  PROVE  LET h == EndOfBlanking(g)
         IN /\ Consistent(h) /\ SameScreen(g, h) /\ h.IL = g.IL /\ h.registers = g.registers
            /\ h.irq_state = g.irq_state /\ Beam(h, 0) /\ DrawnAfter(h, 0) = 0 /\ RowReached(h, 0)
<1> DEFINE start == StartAddress(g)
           h == EndOfBlanking(g)
<1>1. h = [g EXCEPT !.B = start, !.lcount = 0, !.active_area = FALSE]
  BY Zenon DEF EndOfBlanking
<1>2. Consistent(h)
  BY BlankBeam
<1> HIDE DEF start, h
<1>3. DOMAIN g = GimeFields
  BY ConsistentFields
<1>4. Touches(g, h, {"B", "lcount", "active_area"}) /\ h.B = start /\ h.lcount = 0 /\ h.active_area = FALSE
  BY <1>1, <1>3, FieldsAre DEF Touches
<1>5. h.registers = g.registers /\ h.irq_state = g.irq_state /\ h.IL = g.IL /\ h.SAM_register = g.SAM_register
      /\ h.pdr = g.pdr
  BY <1>3, <1>4, FieldsAre DEF Touches
<1>6. SameScreen(g, h)
  BY <1>5 DEF SameScreen, SameInputs
<1>7. StartAddress(h) = start
  BY <1>2, <1>6, ScreenSame DEF start
<1>8. ScreenType(h) /\ (RowsEnd(h) => Skipped(h) < LinesPerRow(h))
  BY <1>2, ScreenTypes
<1>9. Beam(h, 0)
  BY <1>4, <1>8 DEF Beam, ScreenType
<1>10. DrawnAfter(h, 0) = 0
  BY <1>8 DEF DrawnAfter, ScreenType
<1>11. RowsEnd(h) => h.B = RowAddress(h, 0)
  <2> SUFFICES ASSUME RowsEnd(h) PROVE h.B = RowAddress(h, 0)
    OBVIOUS
  <2> DEFINE s == Skipped(h)
             m == LinesPerRow(h)
             q == s \div m
             d == row_stride(h)
  <2>1. s \in Nat /\ m \in Nat \ {0} /\ s < m /\ d \in Nat /\ StartAddress(h) \in Nat
    BY <1>8 DEF ScreenType
  <2> HIDE DEF s, m, d
  <2>2. s = m * q + (s % m) /\ q \in Int /\ s % m \in 0 .. m - 1
    BY <2>1, ModDiv, ModRange
  <2> HIDE DEF q
  <2>3. s % m = s
    <3>1. s = m * 0 + s /\ s \in 0 .. m - 1 /\ s \in Int /\ 0 \in Int
      BY <2>1
    <3> QED
      BY <2>1, <3>1, ModUnique
  <2>4. m * q = 0
    BY <2>1, <2>2, <2>3
  <2>5. q = 0
    BY <2>1, <2>2, <2>4
  <2>6. (0 + s) \div m = 0
    <3>1. 0 + s = s
      BY <2>1
    <3> QED
      BY <2>5, <3>1 DEF q
  <2>7. RowAddress(h, 0) = StartAddress(h) + d * 0
    BY <2>6 DEF RowAddress, s, m, d
  <2> QED
    BY <1>4, <1>7, <2>1, <2>7
<1>12. RowReached(h, 0)
  BY <1>11 DEF RowReached
<1> QED
  BY <1>2, <1>5, <1>6, <1>9, <1>10, <1>12 DEF h

\* What is said of a frame so far is said of its view.
LEMMA ViewKept ==
  ASSUME NEW g, NEW h, Consistent(g), Consistent(h), SameScreen(g, h), NEW l \in Int, NEW n
  PROVE  /\ DrawnAfter(h, l) = DrawnAfter(g, l)
         /\ SameBeam(g, h) => (Beam(g, l) => Beam(h, l)) /\ (RowReached(g, n) => RowReached(h, n))
         /\ SameWatch(g, h) => (Bordered(g, l, n) => Bordered(h, l, n))
<1>1. lTB(h) = lTB(g) /\ lAA(h) = lAA(g) /\ row_stride(h) = row_stride(g) /\ StartAddress(h) = StartAddress(g)
      /\ Skipped(h) = Skipped(g) /\ LinesPerRow(h) = LinesPerRow(g) /\ (RowsEnd(h) <=> RowsEnd(g))
  BY ScreenSame
<1>2. DrawnAfter(h, l) = DrawnAfter(g, l)
  BY <1>1 DEF DrawnAfter
<1>3. RowAddress(h, n) = RowAddress(g, n)
  BY <1>1 DEF RowAddress
<1>4. ASSUME SameBeam(g, h), Beam(g, l) PROVE Beam(h, l)
  BY <1>1, <1>4 DEF SameBeam, Beam
<1>5. ASSUME SameBeam(g, h), RowReached(g, n) PROVE RowReached(h, n)
  <2>1. h.B = g.B /\ h.row = g.row
    BY <1>5 DEF SameBeam
  <2> QED
    BY <1>1, <1>3, <1>5, <2>1 DEF RowReached
<1>6. ASSUME SameWatch(g, h), Bordered(g, l, n) PROVE Bordered(h, l, n)
  BY <1>1, <1>6 DEF SameWatch, Bordered
<1> QED
  BY <1>2, <1>4, <1>5, <1>6

\* A step that leaves the view alone keeps the frame as far as it is.
LEMMA StillSoFar ==
  ASSUME NEW g, NEW h, Consistent(g), Consistent(h), SameView(g, h), NEW l \in Int, NEW k, NEW n,
         FrameSoFar(g, l, k), n.drawn = k.drawn, n.borders = k.borders,
         n.listening => k.listening /\ SameWatch(g, h)
  PROVE  FrameSoFar(h, l, n)
<1>1. SameScreen(g, h) /\ SameBeam(g, h)
  BY DEF SameView
<1>2. n.drawn = DrawnAfter(h, l)
  BY <1>1, ViewKept DEF FrameSoFar
<1>3. l > 0 => Beam(h, l) /\ RowReached(h, n.drawn)
  BY <1>1, ViewKept DEF FrameSoFar
<1>4. n.listening => Bordered(h, l, n.borders)
  BY <1>1, ViewKept DEF FrameSoFar
<1> QED
  BY <1>2, <1>3, <1>4 DEF FrameSoFar

\* The vertical part of a line, by the part of the frame it is in.
LEMMA VerticalView ==
  ASSUME NEW c, Board(c), Consistent(c.g), c.scanline \in Nat
  PROVE  LET v == Vertical(c)
         IN /\ c.scanline < 7 => /\ SameView(c.g, v.g) /\ v.g.IL = c.g.IL
                                   /\ v.g.registers = c.g.registers /\ v.g.irq_state = c.g.irq_state
            /\ c.scanline = 7 => v.g = VerticalLine(EndOfBlanking(c.g))
            /\ c.scanline > 7 => v.g = VerticalLine(c.g)
            /\ v.scanline = c.scanline
<1> DEFINE down == c1_transition(c.pia0, "b", FALSE)
           up == c1_transition(c.pia0, "b", TRUE)
           a == lAA(c.g)
           b == IF COCO(c.g) THEN lTB(c.g) ELSE c.g.video.lTB
           first == VerticalLine(EndOfBlanking(c.g))
           next == VerticalLine(c.g)
           v0 == [c EXCEPT !.pia0 = down, !.g.video.lAA = a, !.g.video.lTB = b]
           v4 == [c EXCEPT !.pia0 = up]
           v7 == [c EXCEPT !.g = first]
           v8 == [c EXCEPT !.g = next]
           v == Vertical(c)
<1>1. v = CASE c.scanline = 0 -> v0 [] c.scanline = 4 -> v4 [] c.scanline = 7 -> v7 [] c.scanline > 7 -> v8
            [] OTHER -> c
  BY DEF Vertical
<1>2. DOMAIN c = MachineFields /\ DOMAIN c.g = GimeFields
  BY ConsistentFields DEF Board
<1> HIDE DEF down, up, a, b, first, next
<1>3. Touches(c.g, v0.g, {"video"})
  <2> DEFINE e == [[c.g.video EXCEPT !.lAA = a] EXCEPT !.lTB = b]
  <2>1. v0.g = [c.g EXCEPT !.video = e]
    BY <1>2, FieldsAre DEF MachineFields
  <2> HIDE DEF e, v0
  <2> QED
    BY <1>2, <2>1, FieldsAre DEF Touches
<1>4. v4.g = c.g /\ v7.g = first /\ v8.g = next
  BY <1>2 DEF MachineFields
<1> HIDE DEF v0, v4, v7, v8
<1>5. SameView(c.g, v0.g) /\ v0.g.IL = c.g.IL /\ v0.g.registers = c.g.registers /\ v0.g.irq_state = c.g.irq_state
  <2>1. SameView(c.g, v0.g)
    BY <1>2, <1>3, ViewUntouched
  <2> QED
    BY <1>2, <1>3, <2>1, FieldsAre DEF Touches
<1>6. SameView(c.g, c.g)
  BY ViewItself
<1>7. v.scanline = c.scanline
  BY VerticalPart DEF Quiet, MachineFields
<1> HIDE DEF v
<1>8. CASE c.scanline < 7
  <2>1. CASE c.scanline = 0
    <3>1. v = v0
      BY <1>1, <2>1
    <3> QED
      BY <1>5, <1>7, <1>8, <3>1 DEF v
  <2>2. CASE c.scanline = 4
    <3>1. v = v4
      BY <1>1, <2>2
    <3> QED
      BY <1>4, <1>6, <1>7, <1>8, <3>1 DEF v
  <2>3. CASE c.scanline # 0 /\ c.scanline # 4
    <3>1. v = c
      BY <1>1, <1>8, <2>3
    <3> QED
      BY <1>6, <1>7, <1>8, <3>1 DEF v
  <2> QED
    BY <2>1, <2>2, <2>3
<1>9. CASE c.scanline = 7
  <2>1. v = v7
    BY <1>1, <1>9
  <2> QED
    BY <1>4, <1>7, <1>9, <2>1 DEF v, first
<1>10. CASE c.scanline > 7
  <2>1. v = v8
    BY <1>1, <1>10
  <2> QED
    BY <1>4, <1>7, <1>10, <2>1 DEF v, next
<1> QED
  BY <1>8, <1>9, <1>10

\* What a line does to the GIME: the tick, the beam's part, the horizontal border.
Ruled(c) ==
  LET t == tcc1014_tick_scanline(c.g)
  IN IF c.scanline < 7 THEN t ELSE IF c.scanline = 7 THEN VerticalLine(EndOfBlanking(t)) ELSE VerticalLine(t)

\* Between them nothing of the view or the VBORD changes.
LEMMA LineParts ==
  ASSUME NEW c, Board(c), Consistent(c.g), TimerType(c.g), c.scanline \in Nat
  PROVE  LET r == machine_run_scanline_coco3(c)
             t == tcc1014_tick_scanline(c.g)
         IN /\ Consistent(t) /\ SameView(c.g, t) /\ SameWatch(c.g, t) /\ t.IL = c.g.IL
            /\ SameView(Ruled(c), r.g) /\ r.g.IL = Ruled(c).IL /\ r.scanline = c.scanline + 1
            /\ r.g.registers[2] = Ruled(c).registers[2] /\ (VBORD \in r.g.irq_state <=> VBORD \in Ruled(c).irq_state)
<1> DEFINE s == Sync(c)
           v == Vertical(s)
           h == set_interrupt(v.g, {HBORD})
           n == v.scanline + 1
           r == [v EXCEPT !.g = h, !.scanline = n]
           t == tcc1014_tick_scanline(c.g)
           m == Ruled(c)
<1>1. machine_run_scanline_coco3(c) = r
  BY Zenon DEF machine_run_scanline_coco3
<1>2. Quiet(c, s, {"g", "irq", "firq"}) /\ s.g = t
  BY SyncLine
<1>20. m = IF c.scanline < 7 THEN t ELSE IF c.scanline = 7 THEN VerticalLine(EndOfBlanking(t)) ELSE VerticalLine(t)
  BY DEF Ruled
<1>21. SameView(c.g, t) /\ SameWatch(c.g, t) /\ t.IL = c.g.IL
  BY ConsistentFields, TickView
<1>22. Touches(c.g, t, TickFields)
  BY ConsistentFields, Ticked
<1> HIDE DEF s, t, m
<1>3. Consistent(t)
  BY <1>22, UntouchedConsistent DEF TickFields, InterruptFields, TimerFields, MapFields
<1>4. Board(s) /\ s.scanline = c.scanline
  <2>1. Board(s)
    BY <1>2, QuietBoard
  <2> QED
    BY <1>2, <2>1 DEF Quiet, MachineFields
<1>5. Quiet(s, v, {"g"}) /\ Consistent(v.g)
  BY <1>2, <1>3, <1>4, VerticalPart
<1>6. /\ s.scanline < 7 => /\ SameView(s.g, v.g) /\ v.g.IL = s.g.IL
                           /\ v.g.registers = s.g.registers /\ v.g.irq_state = s.g.irq_state
      /\ s.scanline = 7 => v.g = VerticalLine(EndOfBlanking(s.g))
      /\ s.scanline > 7 => v.g = VerticalLine(s.g)
      /\ v.scanline = s.scanline
  BY <1>2, <1>3, <1>4, VerticalView
<1>7. Board(v) /\ DOMAIN v = MachineFields /\ DOMAIN v.g = GimeFields
  <2>1. Board(v)
    BY <1>4, <1>5, QuietBoard
  <2> QED
    BY <1>5, <2>1, ConsistentFields DEF Board
<1> HIDE DEF v
<1>8. SameView(m, v.g) /\ v.g.IL = m.IL /\ v.g.registers = m.registers /\ v.g.irq_state = m.irq_state
  <2>1. CASE c.scanline < 7
    BY <1>2, <1>20, <1>4, <1>6, <2>1
  <2>2. CASE ~(c.scanline < 7)
    <3>1. v.g = m
      BY <1>2, <1>20, <1>4, <1>6, <2>2
    <3> QED
      BY <3>1, ViewItself
  <2> QED
    BY <2>1, <2>2
<1>9. Touches(v.g, h, RaiseFields) /\ h.irq_state = v.g.irq_state \cup ({HBORD} \cap v.g.registers[2])
  BY <1>7, Raised
<1> HIDE DEF h, n
<1>10. SameView(v.g, h) /\ h.IL = v.g.IL /\ h.registers = v.g.registers
  <2>1. SameView(v.g, h) /\ h.IL = v.g.IL
    <3>1. /\ RaiseFields \cap {"registers", "SAM_register", "pdr", "row", "B", "lcount", "active_area"} = {}
          /\ RaiseFields \cap {"IL"} = {}
      BY DEF RaiseFields
    <3> QED
      BY <1>7, <1>9, <3>1, ViewUntouched
  <2> QED
    BY <1>7, <1>9, <2>1, FieldsAre DEF Touches, RaiseFields
<1>11. VBORD \in h.irq_state <=> VBORD \in v.g.irq_state
  BY <1>9 DEF VBORD, HBORD
<1>12. r.g = h /\ r.scanline = n
  BY <1>7 DEF MachineFields
<1>13. n = c.scanline + 1
  BY <1>4, <1>6 DEF n
<1> HIDE DEF r
<1>14. SameView(m, r.g) /\ r.g.IL = m.IL /\ r.g.registers = m.registers
       /\ (VBORD \in r.g.irq_state <=> VBORD \in m.irq_state)
  BY <1>8, <1>10, <1>11, <1>12, ViewTwice
<1> QED
  BY <1>1, <1>3, <1>21, <1>12, <1>13, <1>14 DEF t, m

\* The beam's part of a line leaves the IL inputs alone.
LEMMA LinesKept ==
  ASSUME NEW g, Consistent(g)
  PROVE  VerticalLine(g).IL = g.IL /\ VerticalLine(EndOfBlanking(g)).IL = g.IL
<1>1. ASSUME NEW i, Consistent(i) PROVE VerticalLine(i).IL = i.IL
  <2> DEFINE e == Entered(i)
             b == LeftActive(e)
             w == DrawnLine(b)
  <2>1. VerticalLine(i) = w
    BY Zenon DEF VerticalLine
  <2>2. DOMAIN i = GimeFields
    BY <1>1, ConsistentFields
  <2>3. Touches(i, e, {"active_area", "row"}) /\ Touches(i, e, BeamFields)
    BY <2>2, EnteredIs, EnteredBeam
  <2> HIDE DEF e
  <2>4. DOMAIN e = GimeFields /\ e.IL = i.IL
    BY <2>2, <2>3, FieldsAre DEF Touches
  <2>5. Touches(e, b, RaiseFields \cup {"active_area"}) /\ Touches(e, b, BeamFields)
    BY <2>4, LeftIs, LeftBeam
  <2> HIDE DEF b
  <2>6. DOMAIN b = GimeFields /\ b.IL = e.IL
    BY <2>4, <2>5, FieldsAre DEF Touches, RaiseFields
  <2>7. Consistent(b)
    BY <1>1, <2>3, <2>5, BeamConsistent
  <2>8. Touches(b, w, {"row", "B", "lcount"})
    BY <2>7, DrawnIs
  <2> HIDE DEF w
  <2>9. w.IL = b.IL
    BY <2>6, <2>8, FieldsAre DEF Touches
  <2> QED
    BY <2>1, <2>4, <2>6, <2>9
<1>2. Consistent(EndOfBlanking(g)) /\ EndOfBlanking(g).IL = g.IL
  BY BlankingShape
<1> QED
  BY <1>1, <1>2

\* A line of the lower part of the frame, and what follows it in the line.
LEMMA LowerLine ==
  ASSUME NEW g, Consistent(g), NEW l \in Nat, Beam(g, l), RowReached(g, DrawnAfter(g, l)),
         NEW h, Consistent(h), SameView(VerticalLine(g), h), h.registers[2] = VerticalLine(g).registers[2],
         VBORD \in h.irq_state <=> VBORD \in VerticalLine(g).irq_state
  PROVE  /\ SameScreen(g, h) /\ h.registers[2] = g.registers[2]
         /\ DrawnAfter(g, l + 1) = DrawnAfter(g, l) + (IF h.active_area THEN 1 ELSE 0)
         /\ Beam(h, l + 1) /\ RowReached(h, DrawnAfter(g, l + 1))
         /\ IF l = lTB(g) + lAA(g) THEN VBORD \in g.registers[2] => VBORD \in h.irq_state
            ELSE VBORD \in h.irq_state <=> VBORD \in g.irq_state
<1> DEFINE w == VerticalLine(g)
           d == DrawnAfter(g, l + 1)
<1>1. /\ Consistent(w) /\ SameScreen(g, w) /\ w.registers = g.registers
      /\ Beam(w, l + 1) /\ RowReached(w, d)
      /\ d = DrawnAfter(g, l) + (IF w.active_area THEN 1 ELSE 0)
      /\ IF l = lTB(g) + lAA(g) THEN w.irq_state = g.irq_state \cup ({VBORD} \cap g.registers[2])
         ELSE w.irq_state = g.irq_state
  BY LineShape
<1>2. SameView(w, h) /\ h.registers[2] = w.registers[2] /\ (VBORD \in h.irq_state <=> VBORD \in w.irq_state)
  OBVIOUS
<1> HIDE DEF w, d
<1>3. SameScreen(w, h) /\ SameBeam(w, h) /\ h.active_area = w.active_area
  BY <1>2 DEF SameView, SameBeam
<1>4. SameScreen(g, h)
  BY <1>1, <1>3 DEF SameScreen, SameInputs
<1>5. l + 1 \in Int
  OBVIOUS
<1>6. Beam(h, l + 1) /\ RowReached(h, d)
  BY <1>1, <1>3, <1>5, ViewKept
<1>7. CASE l = lTB(g) + lAA(g)
  <2>1. VBORD \in g.registers[2] => VBORD \in h.irq_state
    BY <1>1, <1>2, <1>7
  <2> QED
    BY <1>1, <1>2, <1>3, <1>4, <1>6, <1>7, <2>1 DEF d
<1>8. CASE l # lTB(g) + lAA(g)
  <2>1. VBORD \in h.irq_state <=> VBORD \in g.irq_state
    BY <1>1, <1>2, <1>8
  <2> QED
    BY <1>1, <1>2, <1>3, <1>4, <1>6, <1>8, <2>1 DEF d
<1> QED
  BY <1>7, <1>8

\* The border of a frame, a line further.
LEMMA BorderedNext ==
  ASSUME NEW g, Consistent(g), NEW h, Consistent(h), SameScreen(g, h), h.registers[2] = g.registers[2],
         NEW t, VBORD \in t => VBORD \in g.irq_state,
         NEW l \in Int, NEW n, Bordered(g, l, n),
         IF l = lTB(g) + lAA(g) THEN VBORD \in g.registers[2] => VBORD \in h.irq_state
         ELSE VBORD \in h.irq_state <=> VBORD \in t
  PROVE  Bordered(h, l + 1, n + (IF VBORD \in h.irq_state \ g.irq_state THEN 1 ELSE 0))
<1> DEFINE T == lTB(g)
           A == lAA(g)
           was == VBORD \in g.irq_state
           is == VBORD \in h.irq_state
           n1 == n + (IF VBORD \in h.irq_state \ g.irq_state THEN 1 ELSE 0)
<1>1. T \in Nat /\ A \in Nat \ {0} /\ lTB(h) = T /\ lAA(h) = A
  BY ScreenTypes, ScreenSame DEF ScreenType
<1>2. VBORD \in g.registers[2] /\ VBORD \in h.registers[2]
  BY DEF Bordered
<1>3. IF l <= T + A THEN n = 0 /\ ~was ELSE n = 1
  BY DEF Bordered
<1>4. IF l = T + A THEN is ELSE is => was
  BY <1>2
<1>5. n1 = n + (IF is /\ ~was THEN 1 ELSE 0)
  OBVIOUS
<1> HIDE DEF n1, T, A, is, was
<1>6. IF l + 1 <= T + A THEN n1 = 0 /\ ~is ELSE n1 = 1
  <2>1. CASE l < T + A
    <3>1. n = 0 /\ ~was /\ ~is
      BY <1>1, <1>3, <1>4, <2>1
    <3> QED
      BY <1>1, <1>5, <2>1, <3>1
  <2>2. CASE l = T + A
    <3>1. n = 0 /\ ~was /\ is
      BY <1>1, <1>3, <1>4, <2>2
    <3> QED
      BY <1>1, <1>5, <2>2, <3>1
  <2>3. CASE l > T + A
    <3>1. n = 1 /\ (is => was)
      BY <1>1, <1>3, <1>4, <2>3
    <3> QED
      BY <1>1, <1>5, <2>3, <3>1
  <2> QED
    BY <1>1, <2>1, <2>2, <2>3
<1>7. Bordered(h, l + 1, n1)
  BY <1>1, <1>2, <1>6 DEF Bordered, is
<1> QED
  BY <1>7 DEF n1

\* A line of the frame, and what the history makes of it.
LEMMA LineSoFar ==
  ASSUME NEW c, Board(c), Consistent(c.g), TimerType(c.g), c.scanline \in Nat,
         NEW h, Consistent(h), h = machine_run_scanline_coco3(c).g,
         NEW k, FrameSoFar(c.g, c.scanline - 7, k), NEW n,
         n.drawn = k.drawn + (IF c.scanline >= 7 /\ h.active_area THEN 1 ELSE 0),
         n.borders = k.borders + (IF VBORD \in h.irq_state \ c.g.irq_state THEN 1 ELSE 0),
         n.listening => k.listening
  PROVE  FrameSoFar(h, c.scanline + 1 - 7, n)
<1> DEFINE g == c.g
           t == tcc1014_tick_scanline(c.g)
           m == Ruled(c)
           l == c.scanline - 7
<1>1. /\ Consistent(t) /\ SameView(g, t) /\ SameWatch(g, t)
      /\ SameView(m, h) /\ h.registers[2] = m.registers[2] /\ (VBORD \in h.irq_state <=> VBORD \in m.irq_state)
  BY LineParts
<1>2. m = IF c.scanline < 7 THEN t ELSE IF c.scanline = 7 THEN VerticalLine(EndOfBlanking(t)) ELSE VerticalLine(t)
  BY DEF Ruled
<1> HIDE DEF t, m
<1>3. Consistent(g) /\ FrameSoFar(g, l, k)
  OBVIOUS
<1> DEFINE T == lTB(g)
           A == lAA(g)
<1>4. T \in Nat /\ A \in Nat \ {0}
  BY <1>3, ScreenTypes DEF ScreenType
<1>5. SameScreen(g, t) /\ t.registers[2] = g.registers[2] /\ (VBORD \in t.irq_state => VBORD \in g.irq_state)
      /\ lTB(t) = T /\ lAA(t) = A
  BY <1>1, <1>3, ScreenSame DEF SameView, SameWatch
<1>6. l \in Int /\ l + 1 = c.scanline + 1 - 7 /\ l + 1 \in Int
  OBVIOUS
\* Enough: where the beam is, and what is latched
<1>7. SUFFICES /\ SameScreen(g, h) /\ h.registers[2] = g.registers[2]
               /\ n.drawn = DrawnAfter(g, l + 1)
               /\ l + 1 > 0 => Beam(h, l + 1) /\ RowReached(h, n.drawn)
               /\ IF l = T + A THEN VBORD \in g.registers[2] => VBORD \in h.irq_state
                  ELSE VBORD \in h.irq_state <=> VBORD \in t.irq_state
  <2>1. n.listening => Bordered(h, l + 1, n.borders)
    <3> SUFFICES ASSUME n.listening PROVE Bordered(h, l + 1, n.borders)
      OBVIOUS
    <3>1. Bordered(g, l, k.borders)
      BY <1>3 DEF FrameSoFar
    <3> QED
      BY <1>3, <1>5, <1>6, <1>7, <3>1, BorderedNext
  <2>2. DrawnAfter(h, l + 1) = DrawnAfter(g, l + 1)
    BY <1>3, <1>6, <1>7, ViewKept
  <2>3. FrameSoFar(h, l + 1, n)
    BY <1>7, <2>1, <2>2 DEF FrameSoFar
  <2> QED
    BY <1>6, <2>3
<1>8. k.drawn = DrawnAfter(g, l)
  BY <1>3 DEF FrameSoFar
<1>9. CASE c.scanline < 7
  <2>1. m = t /\ l < 0 /\ l # T + A /\ ~(l + 1 > 0) /\ ~(c.scanline >= 7)
    BY <1>2, <1>4, <1>9
  <2>2. SameScreen(g, h) /\ h.registers[2] = g.registers[2]
    BY <1>1, <1>5, <2>1 DEF SameView, SameScreen, SameInputs
  <2>3. DrawnAfter(g, l) = 0 /\ DrawnAfter(g, l + 1) = 0
    BY <1>4, <1>6, <2>1 DEF DrawnAfter
  <2>4. n.drawn = DrawnAfter(g, l + 1)
    BY <1>8, <2>1, <2>3
  <2> QED
    BY <1>1, <2>1, <2>2, <2>4
<1>10. CASE c.scanline = 7
  <2> DEFINE b == EndOfBlanking(t)
  <2>1. /\ Consistent(b) /\ SameScreen(t, b) /\ b.registers = t.registers /\ b.irq_state = t.irq_state
        /\ Beam(b, 0) /\ DrawnAfter(b, 0) = 0 /\ RowReached(b, 0)
    BY <1>1, BlankingShape
  <2>2. m = VerticalLine(b) /\ l = 0 /\ c.scanline >= 7
    BY <1>2, <1>10
  <2> HIDE DEF b
  <2>3. /\ SameScreen(b, h) /\ h.registers[2] = b.registers[2]
        /\ DrawnAfter(b, 0 + 1) = DrawnAfter(b, 0) + (IF h.active_area THEN 1 ELSE 0)
        /\ Beam(h, 0 + 1) /\ RowReached(h, DrawnAfter(b, 0 + 1))
        /\ IF 0 = lTB(b) + lAA(b) THEN VBORD \in b.registers[2] => VBORD \in h.irq_state
           ELSE VBORD \in h.irq_state <=> VBORD \in b.irq_state
    BY <1>1, <2>1, <2>2, LowerLine
  <2>4. SameScreen(g, b)
    BY <1>5, <2>1 DEF SameScreen, SameInputs
  <2>5. SameScreen(g, h) /\ h.registers[2] = g.registers[2]
    BY <1>5, <2>1, <2>3, <2>4 DEF SameScreen, SameInputs
  <2>6. lTB(b) = T /\ lAA(b) = A /\ 0 # T + A
    BY <1>3, <1>4, <2>1, <2>4, ScreenSame
  <2>7. DrawnAfter(g, 0) = 0 /\ DrawnAfter(b, 0 + 1) = DrawnAfter(g, 0 + 1)
    BY <1>3, <2>1, <2>4, ViewKept
  <2>8. n.drawn = DrawnAfter(g, 0 + 1)
    BY <1>8, <2>1, <2>2, <2>3, <2>7
  <2> HIDE DEF l, T, A
  <2> QED
    BY <2>1, <2>2, <2>3, <2>5, <2>6, <2>7, <2>8
<1>11. CASE c.scanline > 7
  <2>1. m = VerticalLine(t) /\ l \in Nat /\ l > 0 /\ c.scanline >= 7
    BY <1>2, <1>11
  <2>2. Beam(g, l) /\ RowReached(g, DrawnAfter(g, l))
    BY <1>3, <1>8, <2>1 DEF FrameSoFar
  <2>3. DrawnAfter(t, l) = DrawnAfter(g, l) /\ DrawnAfter(t, l + 1) = DrawnAfter(g, l + 1)
        /\ Beam(t, l) /\ RowReached(t, DrawnAfter(t, l))
    BY <1>1, <1>3, <1>5, <1>6, <2>2, ViewKept DEF SameView
  <2> HIDE DEF l
  <2>4. /\ SameScreen(t, h) /\ h.registers[2] = t.registers[2]
        /\ DrawnAfter(t, l + 1) = DrawnAfter(t, l) + (IF h.active_area THEN 1 ELSE 0)
        /\ Beam(h, l + 1) /\ RowReached(h, DrawnAfter(t, l + 1))
        /\ IF l = lTB(t) + lAA(t) THEN VBORD \in t.registers[2] => VBORD \in h.irq_state
           ELSE VBORD \in h.irq_state <=> VBORD \in t.irq_state
    BY <1>1, <2>1, <2>3, LowerLine
  <2>5. SameScreen(g, h) /\ h.registers[2] = g.registers[2]
    BY <1>5, <2>4 DEF SameScreen, SameInputs
  <2>6. n.drawn = DrawnAfter(g, l + 1)
    BY <1>8, <2>1, <2>3, <2>4
  <2> HIDE DEF T, A
  <2> QED
    BY <1>5, <2>3, <2>4, <2>5, <2>6
<1> QED
  BY <1>9, <1>10, <1>11

-----------------------------------------------------------------------------
(* FrameIInv, action by action.                                             *)

\* FrameIInv over a machine m, a scene s and a history h.
FrameInv(m, s, h) ==
  /\ h.steady => h.setup = Len(s.setup)
  /\ s.kind = "coco3" => /\ m.scanline \in 0 .. BETWEEN /\ VBORD \notin m.g.IL
                         /\ h.steady => FrameSoFar(m.g, m.scanline - 7, h)

\* It is that, in this state and the next.
LEMMA FrameIs ==
  /\ FrameIInv <=> FrameInv(mach, scene, hist)
  /\ FrameIInv' <=> FrameInv(mach', scene', hist')
  BY DEF FrameIInv, FrameInv, IsCoco3, Ready

\* What MachineIInv says of a CoCo 3
LEMMA BoardIs ==
  ASSUME NEW m, NEW s, NEW h, BoardInv(m, s, h)
  PROVE  /\ s.kind = "coco3" => Board(m) /\ Consistent(m.g) /\ TimerType(m.g) /\ DOMAIN m.g = GimeFields
         /\ DOMAIN m = MachineFields /\ DOMAIN h = HistFields /\ s \in Scenes
  BY ConsistentFields DEF BoardInv, Fit, Board

\* A step within a line
LEMMA FrameStep ==
  ASSUME NEW m, NEW n, NEW s, NEW h, NEW k, BoardInv(m, s, h), BoardInv(n, s, k), FrameInv(m, s, h),
         k.setup = h.setup, k.drawn = h.drawn, k.borders = h.borders, k.steady => h.steady,
         s.kind = "coco3" =>
           /\ n.scanline = m.scanline /\ (VBORD \notin m.g.IL => VBORD \notin n.g.IL)
           /\ k.steady => SameView(m.g, n.g) /\ (k.listening => h.listening /\ SameWatch(m.g, n.g))
  PROVE  FrameInv(n, s, k)
<1>1. ASSUME s.kind = "coco3", k.steady PROVE FrameSoFar(n.g, n.scanline - 7, k)
  <2> DEFINE l == m.scanline - 7
  <2>1. Consistent(m.g) /\ Consistent(n.g)
    BY <1>1, BoardIs
  <2>2. l \in Int /\ FrameSoFar(m.g, l, h) /\ n.scanline - 7 = l
    BY <1>1 DEF FrameInv
  <2> HIDE DEF l
  <2>3. FrameSoFar(n.g, l, k)
    BY <1>1, <2>1, <2>2, StillSoFar
  <2> QED
    BY <2>2, <2>3
<1> QED
  BY <1>1 DEF FrameInv

\* The writes of the setup come before the first frame.
LEMMA SetUpFrame == ASSUME MachineIInv, MachineIInv', FrameIInv, SetUp PROVE FrameIInv'
<1> DEFINE i == hist.setup + 1
           addr == scene.setup[i][1]
           val == scene.setup[i][2]
           r == AfterWrite(mach, addr, val)
<1>1. BoardInv(mach, scene, hist) /\ FrameInv(mach, scene, hist)
  BY InvIs, FrameIs
<1>2. ~hist.steady
  BY <1>1 DEF FrameInv, SetUp, Ready
<1>3. i \in 1 .. Len(scene.setup)
  BY <1>1, SceneTypes DEF SetUp, Ready, BoardInv
<1>4. addr \in Address
  BY <1>1, <1>3, SceneTypes DEF BoardInv
<1>5. scene' = scene /\ hist' = [hist EXCEPT !.setup = @ + 1, !.armed = FALSE] /\ (scene.kind = "coco3" => mach' = r)
  BY DEF SetUp, machine_write, IsCoco3
<1> HIDE DEF addr, val, r
<1>6. ~hist'.steady
  BY <1>1, <1>2, <1>5, BoardIs DEF HistFields
<1>7. ASSUME scene.kind = "coco3" PROVE r.scanline = mach.scanline /\ r.g.IL = mach.g.IL
  BY <1>1, <1>4, <1>7, BoardIs, Write3View DEF r, Beside
<1> QED
  BY <1>1, <1>5, <1>6, <1>7, FrameIs DEF FrameInv

\* What a write leaves of a steady or listening frame, and of its counts.
LEMMA NotedSteady ==
  ASSUME NEW addr, NEW val, DOMAIN hist = HistFields, hist' = Noted(addr, val)
  PROVE  /\ hist'.setup = hist.setup /\ hist'.drawn = hist.drawn /\ hist'.borders = hist.borders
         /\ hist'.steady => hist.steady /\ addr \notin VideoRegs
         /\ hist'.listening => hist.listening /\ addr \notin IntRegs
<1> DEFINE steady == hist.steady /\ addr \notin VideoRegs
           listening == hist.listening /\ addr \notin IntRegs
           arms == IsCoco3 /\ Arms(addr, val)
           armed == IF arms THEN TRUE ELSE hist.armed /\ addr # 65429
           since == IF arms THEN 0 ELSE hist.since
           fires == IF arms THEN mach.g.timer_fires ELSE hist.fires
           k == [hist EXCEPT !.accesses = @ + 1, !.steady = steady, !.listening = listening,
                             !.armed = armed, !.since = since, !.fires = fires]
<1>1. hist' = k
  BY DEF Noted
<1> HIDE DEF steady, listening, armed, since, fires
<1>2. k.setup = hist.setup /\ k.drawn = hist.drawn /\ k.borders = hist.borders /\ k.steady = steady
      /\ k.listening = listening
  BY DEF HistFields
<1> HIDE DEF k
<1>3. (hist'.steady => steady) /\ (hist'.listening => listening)
  BY <1>1, <1>2
<1> QED
  BY <1>1, <1>2, <1>3 DEF steady, listening

\* A write by the CPU
LEMMA CpuWriteFrame ==
  ASSUME MachineIInv, MachineIInv', FrameIInv, NEW w \in scene.writes, CpuWrite(w[1], w[2])
  PROVE  FrameIInv'
<1> DEFINE addr == w[1]
           val == w[2]
           r == AfterWrite(mach, addr, val)
<1>1. BoardInv(mach, scene, hist) /\ FrameInv(mach, scene, hist)
  BY InvIs, FrameIs
<1>2. addr \in Address
  BY <1>1, SceneTypes DEF BoardInv
<1>3. scene' = scene /\ hist' = Noted(addr, val) /\ (scene.kind = "coco3" => mach' = r)
  BY DEF CpuWrite, machine_write, IsCoco3
<1> HIDE DEF addr, val, r
<1>4. /\ hist'.setup = hist.setup /\ hist'.drawn = hist.drawn /\ hist'.borders = hist.borders
      /\ hist'.steady => hist.steady /\ addr \notin VideoRegs
      /\ hist'.listening => hist.listening /\ addr \notin IntRegs
  BY <1>1, <1>3, BoardIs, NotedSteady
<1>5. ASSUME scene.kind = "coco3" PROVE Beside(mach.g, mach'.g, addr) /\ mach'.scanline = mach.scanline
  BY <1>1, <1>2, <1>3, <1>5, BoardIs, Write3View DEF r
<1>6. ASSUME scene.kind = "coco3"
      PROVE  /\ mach'.scanline = mach.scanline /\ (VBORD \notin mach.g.IL => VBORD \notin mach'.g.IL)
             /\ hist'.steady => /\ SameView(mach.g, mach'.g)
                                /\ hist'.listening => hist.listening /\ SameWatch(mach.g, mach'.g)
  <2>1. VBORD \notin mach.g.IL
    BY <1>1, <1>6 DEF FrameInv
  <2>2. ASSUME hist'.steady, hist'.listening PROVE addr \notin VideoRegs \cup IntRegs
    BY <1>4, <2>2
  <2> QED
    BY <1>4, <1>5, <1>6, <2>1, <2>2 DEF Beside
<1>7. BoardInv(mach', scene, hist')
  BY <1>3, InvIsNext
<1>8. hist'.steady => hist.steady
  BY <1>4
<1>9. FrameInv(mach', scene, hist')
  BY <1>1, <1>4, <1>6, <1>7, <1>8, FrameStep
<1> QED
  BY <1>3, <1>9, FrameIs

\* The history after what counts as an access only.
LEMMA CountedFrame ==
  ASSUME NEW h, DOMAIN h = HistFields, NEW k, k = h \/ k = [h EXCEPT !.accesses = @ + 1]
  PROVE  /\ k.setup = h.setup /\ k.drawn = h.drawn /\ k.borders = h.borders /\ k.steady = h.steady
         /\ k.listening = h.listening
  BY DEF HistFields

\* A read by the CPU
LEMMA CpuReadFrame ==
  ASSUME MachineIInv, MachineIInv', FrameIInv, NEW addr \in scene.reads, CpuRead(addr)
  PROVE  FrameIInv'
<1> DEFINE r == AfterRead(mach, addr, keys)
<1>1. BoardInv(mach, scene, hist) /\ FrameInv(mach, scene, hist)
  BY InvIs, FrameIs
<1>2. addr \in Address
  BY <1>1, SceneTypes DEF BoardInv
<1>3. scene' = scene /\ hist' = [hist EXCEPT !.accesses = @ + 1] /\ (scene.kind = "coco3" => mach' = r)
  BY DEF CpuRead, machine_read, IsCoco3
<1> HIDE DEF r
<1>4. hist'.setup = hist.setup /\ hist'.drawn = hist.drawn /\ hist'.borders = hist.borders
      /\ hist'.steady = hist.steady /\ hist'.listening = hist.listening
  BY <1>1, <1>3, BoardIs, CountedFrame
<1>5. ASSUME scene.kind = "coco3" PROVE Unheard(mach.g, mach'.g) /\ mach'.scanline = mach.scanline
  BY <1>1, <1>2, <1>3, <1>5, BoardIs, Read3View DEF r
<1>6. ASSUME scene.kind = "coco3"
      PROVE  /\ mach'.scanline = mach.scanline /\ (VBORD \notin mach.g.IL => VBORD \notin mach'.g.IL)
             /\ SameView(mach.g, mach'.g) /\ SameWatch(mach.g, mach'.g)
  <2>1. VBORD \notin mach.g.IL
    BY <1>1, <1>6 DEF FrameInv
  <2> QED
    BY <1>5, <1>6, <2>1 DEF Unheard
<1>7. BoardInv(mach', scene, hist')
  BY <1>3, InvIsNext
<1>8. (hist'.steady => hist.steady) /\ (hist'.listening => hist.listening)
  BY <1>4
<1>9. FrameInv(mach', scene, hist')
  BY <1>1, <1>4, <1>6, <1>7, <1>8, FrameStep
<1> QED
  BY <1>3, <1>9, FrameIs

\* What happens beside the bus spares the video chips, and counts as an access
\* at most.
LEMMA BesideBus ==
  ASSUME DOMAIN mach = MachineFields,
         \/ TakeInterrupt \/ Rti \/ AciaIrq \/ SscSample \/ ChangeMixer \/ (\E k \in scene.keys : Press(k))
         \/ Over \/ UNCHANGED mvars
  PROVE  /\ scene' = scene /\ (hist' = hist \/ hist' = [hist EXCEPT !.accesses = @ + 1])
         /\ mach'.g = mach.g /\ mach'.scanline = mach.scanline /\ SamePicture(mach, mach')
<1>1. scene' = scene
  BY DEF TakeInterrupt, Rti, AciaIrq, SscSample, ChangeMixer, Press, Over, mvars
<1>2. hist' = hist \/ hist' = [hist EXCEPT !.accesses = @ + 1]
  BY DEF TakeInterrupt, Rti, AciaIrq, SscSample, ChangeMixer, Press, Over, mvars
<1>3. \/ mach' = mach
      \/ \E v : mach' = [mach EXCEPT !.masked = v]
      \/ \E v : mach' = [mach EXCEPT !.acia_irq = v]
      \/ \E v : mach' = [mach EXCEPT !.sound = v]
  <2>1. CASE TakeInterrupt
    BY <2>1 DEF TakeInterrupt
  <2>2. CASE Rti
    BY <2>2 DEF Rti
  <2>3. CASE AciaIrq
    <3> DEFINE v == ~mach.acia_irq
    <3>1. mach' = [mach EXCEPT !.acia_irq = v]
      BY <2>3 DEF AciaIrq
    <3> HIDE DEF v
    <3> QED
      BY <3>1
  <2>4. CASE SscSample
    <3>1. PICK level \in {-128, 0, 127} : mach' = [mach EXCEPT !.sound = sound_set_ssc(@, level)]
      BY <2>4 DEF SscSample
    <3> DEFINE v == sound_set_ssc(mach.sound, level)
    <3>2. mach' = [mach EXCEPT !.sound = v]
      BY <3>1
    <3> HIDE DEF v
    <3> QED
      BY <3>2
  <2>5. CASE ChangeMixer
    <3>1. PICK mixer \in {"mame", "xroar"} : mach' = [mach EXCEPT !.sound = sound_set_mixer(@, mixer)]
      BY <2>5 DEF ChangeMixer
    <3> DEFINE v == sound_set_mixer(mach.sound, mixer)
    <3>2. mach' = [mach EXCEPT !.sound = v]
      BY <3>1
    <3> HIDE DEF v
    <3> QED
      BY <3>2
  <2>6. CASE \E k \in scene.keys : Press(k)
    BY <2>6 DEF Press
  <2>7. CASE Over \/ UNCHANGED mvars
    BY <2>7 DEF Over, mvars
  <2> QED
    BY <2>1, <2>2, <2>3, <2>4, <2>5, <2>6, <2>7
<1>4. mach'.g = mach.g /\ mach'.scanline = mach.scanline /\ SamePicture(mach, mach')
  <2>1. CASE mach' = mach
    BY <2>1 DEF SamePicture
  <2>2. CASE \E v : mach' = [mach EXCEPT !.masked = v]
    BY <2>2 DEF MachineFields, SamePicture
  <2>3. CASE \E v : mach' = [mach EXCEPT !.acia_irq = v]
    BY <2>3 DEF MachineFields, SamePicture
  <2>4. CASE \E v : mach' = [mach EXCEPT !.sound = v]
    BY <2>4 DEF MachineFields, SamePicture
  <2> QED
    BY <1>3, <2>1, <2>2, <2>3, <2>4
<1> QED
  BY <1>1, <1>2, <1>4

\* What happens beside the bus, or nothing at all
LEMMA BesideFrame ==
  ASSUME MachineIInv, MachineIInv', FrameIInv,
         \/ TakeInterrupt \/ Rti \/ AciaIrq \/ SscSample \/ ChangeMixer \/ (\E k \in scene.keys : Press(k))
         \/ Over \/ UNCHANGED mvars
  PROVE  FrameIInv'
<1>1. BoardInv(mach, scene, hist) /\ FrameInv(mach, scene, hist)
  BY InvIs, FrameIs
<1>2. /\ scene' = scene /\ mach'.g = mach.g /\ mach'.scanline = mach.scanline
      /\ hist' = hist \/ hist' = [hist EXCEPT !.accesses = @ + 1]
  BY <1>1, BoardIs, BesideBus
<1>3. hist'.setup = hist.setup /\ hist'.drawn = hist.drawn /\ hist'.borders = hist.borders
      /\ hist'.steady = hist.steady /\ hist'.listening = hist.listening
  BY <1>1, <1>2, BoardIs, CountedFrame
<1>4. SameView(mach.g, mach'.g) /\ SameWatch(mach.g, mach'.g)
  BY <1>2, ViewItself
<1>5. BoardInv(mach', scene, hist')
  BY <1>2, InvIsNext
<1>6. (hist'.steady => hist.steady) /\ (hist'.listening => hist.listening)
  BY <1>3
<1>7. FrameInv(mach', scene, hist')
  BY <1>1, <1>2, <1>3, <1>4, <1>5, <1>6, FrameStep
<1> QED
  BY <1>2, <1>7, FrameIs

\* A line (machine_run_scanline)
LEMMA ScanlineFrame == ASSUME MachineIInv, MachineIInv', FrameIInv, Scanline PROVE FrameIInv'
<1> DEFINE c == mach
           r == machine_run_scanline_coco3(c)
           d == hist.drawn + (IF mach.scanline >= 7 /\ mach'.g.active_area THEN 1 ELSE 0)
           b == hist.borders + (IF VBORD \in mach'.g.irq_state \ mach.g.irq_state THEN 1 ELSE 0)
           k3 == [hist EXCEPT !.lines = @ + 1, !.since = @ + 1, !.drawn = d, !.borders = b]
           k2 == [hist EXCEPT !.lines = @ + 1]
<1>1. BoardInv(mach, scene, hist) /\ FrameInv(mach, scene, hist)
  BY InvIs, FrameIs
<1>2. scene' = scene /\ (scene.kind = "coco3" => mach' = r)
  BY DEF Scanline, machine_run_scanline, IsCoco3
<1>3. hist' = IF scene.kind = "coco3" THEN k3 ELSE k2
  BY DEF Scanline, IsCoco3
<1>4. BoardInv(mach', scene, hist')
  BY <1>2, InvIsNext
<1>5. mach.scanline < BETWEEN
  BY DEF Scanline
<1>6. DOMAIN hist = HistFields
  BY <1>1, BoardIs
<1> HIDE DEF r, d, b
<1>7. /\ k3.setup = hist.setup /\ k3.drawn = d /\ k3.borders = b /\ k3.steady = hist.steady
      /\ k3.listening = hist.listening
      /\ k2.setup = hist.setup /\ k2.steady = hist.steady
  BY <1>6 DEF HistFields
<1> HIDE DEF k2, k3
<1>8. CASE scene.kind # "coco3"
  <2>1. hist'.setup = hist.setup /\ hist'.steady = hist.steady
    BY <1>3, <1>7, <1>8
  <2>2. FrameInv(mach', scene, hist')
    BY <1>1, <1>8, <2>1 DEF FrameInv
  <2> QED
    BY <1>2, <2>2, FrameIs
<1>9. CASE scene.kind = "coco3"
  <2>1. /\ Board(c) /\ Consistent(c.g) /\ TimerType(c.g) /\ c.scanline \in 0 .. BETWEEN /\ VBORD \notin c.g.IL
        /\ Consistent(mach'.g) /\ mach' = r /\ hist' = k3
    BY <1>1, <1>2, <1>3, <1>4, <1>9, BoardIs DEF FrameInv
  <2>2. c.scanline \in Nat /\ c.scanline + 1 \in 0 .. BETWEEN
    BY <1>5, <2>1 DEF BETWEEN, SCANLINES_PER_FRAME
  <2> DEFINE t == tcc1014_tick_scanline(c.g)
             m == Ruled(c)
  <2>3. Consistent(t) /\ t.IL = c.g.IL /\ mach'.g.IL = m.IL /\ mach'.scanline = c.scanline + 1
    BY <2>1, <2>2, LineParts DEF r
  <2>4. m.IL = t.IL
    <3>1. m = t \/ m = VerticalLine(EndOfBlanking(t)) \/ m = VerticalLine(t)
      BY DEF Ruled
    <3>2. VerticalLine(t).IL = t.IL /\ VerticalLine(EndOfBlanking(t)).IL = t.IL
      BY <2>3, LinesKept
    <3> QED
      BY <3>1, <3>2
  <2>5. ASSUME hist'.steady PROVE FrameSoFar(mach'.g, mach'.scanline - 7, hist')
    <3>1. FrameSoFar(c.g, c.scanline - 7, hist)
      BY <1>1, <1>7, <1>9, <2>1, <2>5 DEF FrameInv
    <3>2. hist'.drawn = d /\ hist'.borders = b /\ (hist'.listening => hist.listening)
      BY <1>7, <2>1
    <3> DEFINE h == mach'.g
    <3>3. Consistent(h) /\ h = machine_run_scanline_coco3(c).g
      BY <2>1 DEF r
    <3>4. /\ d = hist.drawn + (IF c.scanline >= 7 /\ h.active_area THEN 1 ELSE 0)
          /\ b = hist.borders + (IF VBORD \in h.irq_state \ c.g.irq_state THEN 1 ELSE 0)
      BY DEF d, b
    <3>6. mach'.scanline - 7 = c.scanline + 1 - 7
      BY <2>2, <2>3
    <3> HIDE DEF h
    <3>5. FrameSoFar(h, c.scanline + 1 - 7, hist')
      BY <2>1, <2>2, <3>1, <3>2, <3>3, <3>4, LineSoFar
    <3>7. FrameSoFar(h, mach'.scanline - 7, hist')
      BY <3>5, <3>6
    <3> QED
      BY <3>7 DEF h
  <2>6. hist'.setup = hist.setup /\ (hist'.steady => hist.steady)
    BY <1>7, <2>1
  <2>7. FrameInv(mach', scene, hist')
    BY <1>1, <2>1, <2>2, <2>3, <2>4, <2>5, <2>6 DEF FrameInv
  <2> QED
    BY <1>2, <2>7, FrameIs
<1> QED
  BY <1>8, <1>9

\* The start of a frame (machine_run_frame)
LEMMA StartFrameFrame == ASSUME MachineIInv, MachineIInv', FrameIInv, StartFrame PROVE FrameIInv'
<1> DEFINE r == FrameStart(mach)
           on == IsCoco3 /\ VBORD \in mach.g.registers[2] \ mach.g.irq_state
           k == [hist EXCEPT !.drawn = 0, !.borders = 0, !.steady = TRUE, !.listening = on]
<1>1. BoardInv(mach, scene, hist) /\ FrameInv(mach, scene, hist)
  BY InvIs, FrameIs
<1>2. /\ scene' = scene /\ hist' = k /\ (scene.kind = "coco3" => mach' = r)
      /\ Ready
  BY DEF StartFrame, machine_run_frame, IsCoco3
<1>3. DOMAIN hist = HistFields
  BY <1>1, BoardIs
<1> HIDE DEF on
<1>4. k.setup = hist.setup /\ k.drawn = 0 /\ k.borders = 0 /\ k.listening = on
  BY <1>3 DEF HistFields
<1> HIDE DEF k
<1>5. hist'.setup = Len(scene.setup) /\ hist'.drawn = 0 /\ hist'.borders = 0 /\ (hist'.listening => on)
  BY <1>2, <1>4 DEF Ready
<1>6. ASSUME scene.kind = "coco3"
      PROVE  mach'.scanline \in 0 .. BETWEEN /\ VBORD \notin mach'.g.IL /\ FrameSoFar(mach'.g, mach'.scanline - 7, hist')
  <2>1. Board(mach) /\ Consistent(mach.g) /\ VBORD \notin mach.g.IL /\ mach' = r
    BY <1>1, <1>2, <1>6, BoardIs DEF FrameInv
  <2>2. r.g = mach.g /\ r.scanline = 0
    <3>1. r.g = mach.g /\ DOMAIN mach = MachineFields
      BY <2>1, Frame3 DEF Board
    <3> DEFINE p == IF "autostart" \in mach.fitted
                    THEN c1_transition(c1_transition(mach.pia1, "b", TRUE), "b", FALSE) ELSE mach.pia1
               e == [mach EXCEPT !.scanline = 0, !.pia1 = p]
    <3>2. r = e
      BY Zenon DEF FrameStart
    <3> HIDE DEF p
    <3>3. e.scanline = 0
      BY <3>1 DEF MachineFields
    <3> HIDE DEF e, r
    <3> QED
      BY <3>1, <3>2, <3>3
  <2> HIDE DEF r
  <2> DEFINE g == mach.g
             l == 0 - 7
  <2>3. lTB(g) \in Nat /\ lAA(g) \in Nat
    BY <2>1, ScreenTypes DEF ScreenType
  <2>4. DrawnAfter(g, l) = 0 /\ ~(l > 0) /\ l <= lTB(g) + lAA(g)
    BY <2>3 DEF DrawnAfter
  <2>5. on => VBORD \in g.registers[2] /\ VBORD \notin g.irq_state
    BY DEF on
  <2>6. hist'.listening => Bordered(g, l, hist'.borders)
    BY <1>5, <2>4, <2>5 DEF Bordered
  <2> HIDE DEF g, l
  <2>7. FrameSoFar(g, l, hist')
    BY <1>5, <2>4, <2>6 DEF FrameSoFar
  <2>8. mach'.g = g /\ mach'.scanline = 0 /\ mach'.scanline - 7 = l
    BY <2>1, <2>2 DEF g, l
  <2> QED
    BY <2>1, <2>7, <2>8 DEF BETWEEN, SCANLINES_PER_FRAME, g
<1>7. FrameInv(mach', scene, hist')
  BY <1>5, <1>6 DEF FrameInv
<1> QED
  BY <1>2, <1>7, FrameIs

\* The line that a reset leaves the IL inputs and the scanline in
LEMMA ResetLines ==
  ASSUME NEW c, DOMAIN c = MachineFields
  PROVE  machine_reset_coco3(c).g.IL = {} /\ DOMAIN machine_reset_coco3(c) = MachineFields
<1> DEFINE g == tcc1014_set_ram(tcc1014_reset(c.g), c.ram_pages)
           p == mc6821_reset
           s == sound_reset(c.sound)
           r == [c EXCEPT !.g = g, !.pia0 = p, !.pia1 = p, !.sound = s, !.cart_bank = 0,
                          !.scanline = 0, !.irq = FALSE, !.firq = FALSE, !.masked = TRUE]
<1>1. machine_reset_coco3(c) = r
  BY Zenon DEF machine_reset_coco3
<1>2. g.IL = {}
  BY GimeResetLines
<1> HIDE DEF g, p, s
<1>3. r.g = g /\ DOMAIN r = MachineFields
  BY DEF MachineFields
<1> QED
  BY <1>1, <1>2, <1>3

\* After machine_init
LEMMA InitFrame == ASSUME MachineInit PROVE FrameIInv
<1> DEFINE a == Allocated(scene)
           b == machine_init(scene)
           n == [b EXCEPT !.scanline = BETWEEN]
<1>1. mach = n /\ hist = NoHist
  BY DEF MachineInit
<1>2. ~hist.steady
  BY <1>1 DEF NoHist
<1>3. ASSUME scene.kind = "coco3" PROVE mach.scanline = BETWEEN /\ mach.g.IL = {}
  <2>1. DOMAIN a = MachineFields /\ b = machine_reset_coco3(a)
    BY <1>3, MachineFieldsAre DEF machine_init
  <2> HIDE DEF a, b
  <2>2. b.g.IL = {} /\ DOMAIN b = MachineFields
    BY <2>1, ResetLines
  <2>3. n.scanline = BETWEEN /\ n.g = b.g
    BY <2>2 DEF MachineFields
  <2> QED
    BY <1>1, <2>2, <2>3
<1>4. FrameInv(mach, scene, hist)
  BY <1>2, <1>3 DEF FrameInv, BETWEEN, SCANLINES_PER_FRAME
<1> QED
  BY <1>4, FrameIs

\* After a reset (machine_reset)
LEMMA ResetFrame == ASSUME MachineIInv, FrameIInv, Reset PROVE FrameIInv'
<1> DEFINE b == machine_reset_coco3(mach)
           a == [b EXCEPT !.acia_irq = FALSE]
           n == [a EXCEPT !.scanline = BETWEEN]
           k == [hist EXCEPT !.accesses = @ + 1, !.armed = FALSE, !.steady = FALSE, !.listening = FALSE]
<1>1. DOMAIN mach = MachineFields /\ DOMAIN hist = HistFields
  BY InvIs, BoardIs
<1>2. scene' = scene /\ hist' = k /\ (scene.kind = "coco3" => mach' = n)
  BY DEF Reset, machine_reset, IsCoco3
<1>3. k.steady = FALSE
  BY <1>1 DEF HistFields
<1> HIDE DEF k
<1>4. ~hist'.steady
  BY <1>2, <1>3
<1> HIDE DEF b
<1>5. b.g.IL = {} /\ DOMAIN b = MachineFields
  BY <1>1, ResetLines DEF b
<1>6. a.g = b.g /\ DOMAIN a = MachineFields
  BY <1>5 DEF MachineFields
<1> HIDE DEF a
<1>7. n.g = a.g /\ n.scanline = BETWEEN
  BY <1>6 DEF MachineFields
<1> HIDE DEF n
<1>8. FrameInv(mach', scene', hist')
  BY <1>2, <1>4, <1>5, <1>6, <1>7 DEF FrameInv, BETWEEN, SCANLINES_PER_FRAME
<1> QED
  BY <1>8, FrameIs

\* FrameIInv is kept by every step, given MachineIInv.
LEMMA FrameInvariant == MachineSpec => []FrameIInv
<1>1. MachineInit => FrameIInv
  BY InitFrame
<1>2. MachineIInv /\ MachineIInv' /\ FrameIInv /\ [MachineNext]_mvars => FrameIInv'
  <2> SUFFICES ASSUME MachineIInv, MachineIInv', FrameIInv, [MachineNext]_mvars PROVE FrameIInv'
    OBVIOUS
  <2>1. CASE \E w \in scene.writes : CpuWrite(w[1], w[2])
    BY <2>1, CpuWriteFrame
  <2>2. CASE \E addr \in scene.reads : CpuRead(addr)
    BY <2>2, CpuReadFrame
  <2>3. CASE SetUp
    BY <2>3, SetUpFrame
  <2>4. CASE \/ TakeInterrupt \/ Rti \/ AciaIrq \/ SscSample \/ ChangeMixer \/ (\E k \in scene.keys : Press(k))
             \/ Over \/ UNCHANGED mvars
    BY <2>4, BesideFrame
  <2>5. CASE Scanline
    BY <2>5, ScanlineFrame
  <2>6. CASE StartFrame
    BY <2>6, StartFrameFrame
  <2>7. CASE Reset
    BY <2>7, ResetFrame
  <2> QED
    BY <2>1, <2>2, <2>3, <2>4, <2>5, <2>6, <2>7 DEF MachineNext
<1> QED
  BY <1>1, <1>2, MachineInvariant, PTL DEF MachineSpec

\* A frame whose video registers are left alone draws the active area once, a row
\* after the other, and latches VBORD once, as the area ends (tcc1014_scanline).
THEOREM FramesKeepShape == MachineSpec => []FrameShape
<1>1. MachineIInv /\ FrameIInv => FrameShape
  <2> SUFFICES ASSUME MachineIInv, FrameIInv, IsCoco3, hist.steady
               PROVE  /\ mach.scanline = BETWEEN =>
                           /\ hist.drawn = Area(mach.g)
                           /\ hist.listening => hist.borders = IF lTB(mach.g) + lAA(mach.g) < 255 THEN 1 ELSE 0
                      /\ mach.scanline >= 8 /\ RowsEnd(mach.g) => mach.g.B = RowAddress(mach.g, hist.drawn)
    BY DEF FrameShape
  <2> DEFINE g == mach.g
             l == mach.scanline - 7
             T == lTB(g)
             A == lAA(g)
  <2>1. FrameSoFar(g, l, hist) /\ mach.scanline \in Nat
    BY DEF FrameIInv, BETWEEN, SCANLINES_PER_FRAME
  <2>2. T \in Nat /\ A \in Nat \ {0}
    <3>1. Consistent(g)
      BY InvIs, BoardIs DEF IsCoco3
    <3> QED
      BY <3>1, ScreenTypes DEF ScreenType
  <2>3. ASSUME mach.scanline = BETWEEN
        PROVE  /\ hist.drawn = Area(g)
               /\ hist.listening => hist.borders = IF T + A < 255 THEN 1 ELSE 0
    <3>1. l = 255
      BY <2>3 DEF BETWEEN, SCANLINES_PER_FRAME
    <3> HIDE DEF l
    <3>2. hist.drawn = DrawnAfter(g, 255)
      BY <2>1, <3>1 DEF FrameSoFar
    <3>3. DrawnAfter(g, 255) = IF 255 <= T THEN 0 ELSE IF 255 - T < A THEN 255 - T ELSE A
      BY <2>2, DrawnCount
    <3>4. Area(g) = IF 255 <= T THEN 0 ELSE IF 255 - T < A THEN 255 - T ELSE A
      <4> DEFINE u == Least(T, 255)
      <4>1. u = IF T < 255 THEN T ELSE 255
        BY DEF Least
      <4> HIDE DEF u
      <4> DEFINE v == Least(A, 255 - u)
      <4>2. v = IF A < 255 - u THEN A ELSE 255 - u
        BY DEF Least
      <4> HIDE DEF v
      <4>3. Area(g) = v
        BY DEF Area, v, u
      <4> HIDE DEF T, A
      <4> QED
        BY <2>2, <4>1, <4>2, <4>3
    <3>5. ASSUME hist.listening PROVE hist.borders = IF T + A < 255 THEN 1 ELSE 0
      <4>1. IF 255 <= T + A THEN hist.borders = 0 ELSE hist.borders = 1
        BY <2>1, <3>1, <3>5 DEF FrameSoFar, Bordered
      <4> HIDE DEF T, A
      <4> QED
        BY <2>2, <4>1
    <3> QED
      BY <3>2, <3>3, <3>4, <3>5
  <2>4. ASSUME mach.scanline >= 8, RowsEnd(g) PROVE g.B = RowAddress(g, hist.drawn)
    <3>1. l > 0
      BY <2>1, <2>4
    <3> HIDE DEF l
    <3> QED
      BY <2>1, <2>4, <3>1 DEF FrameSoFar, RowReached
  <2> QED
    BY <2>3, <2>4
<1> QED
  BY <1>1, MachineInvariant, FrameInvariant, PTL

-----------------------------------------------------------------------------
(* The CoCo 2's fields.  A SAM mode that matches the VDG's repeats its rows by *)
(* one divide stage, X where a row has 16 bytes and Y where it has 32.       *)

\* The display base is a multiple of 512.
LEMMA BaseType == \A sam : \E j \in 0 .. 127 : vdg_base(sam) = 512 * j
<1> SUFFICES ASSUME NEW sam PROVE \E j \in 0 .. 127 : vdg_base(sam) = 512 * j
  OBVIOUS
<1> DEFINE weight(i) == IF i < 7 /\ 3 + i \in sam.reg THEN 2^i ELSE 0
           j == Field(sam.reg, 3, 7)
<1>1. 2^0 = 1 /\ 2^1 = 2 /\ 2^2 = 4 /\ 2^3 = 8 /\ 2^4 = 16 /\ 2^5 = 32 /\ 2^6 = 64
  OBVIOUS
<1>2. /\ weight(0) \in 0 .. 1 /\ weight(1) \in 0 .. 2 /\ weight(2) \in 0 .. 4 /\ weight(3) \in 0 .. 8
      /\ weight(4) \in 0 .. 16 /\ weight(5) \in 0 .. 32 /\ weight(6) \in 0 .. 64 /\ weight(7) = 0
  BY <1>1
<1>3. j = weight(0) + weight(1) + weight(2) + weight(3) + weight(4) + weight(5) + weight(6) + weight(7)
  BY DEF Field
<1> HIDE DEF weight, j
<1>4. j \in 0 .. 127
  BY <1>2, <1>3
<1>5. vdg_base(sam) = 512 * j
  BY DEF vdg_base, j
<1> QED
  BY <1>4, <1>5

\* How the divide stages and the horizontal sync of mode m treat a row: by X,
ByX(m, R) ==
  /\ R \in {1, 2, 3} /\ vdg_mod_xdivs[m + 1] = R /\ vdg_mod_ydivs[m + 1] = 1
  /\ vdg_mod_adds[m + 1] = 8 /\ vdg_mod_cleared[m + 1] = 3
\* or by Y.
ByY(m, R) ==
  /\ R \in {1, 2, 3, 12} /\ vdg_mod_xdivs[m + 1] = 1 /\ vdg_mod_ydivs[m + 1] = R
  /\ vdg_mod_adds[m + 1] = 16 /\ vdg_mod_cleared[m + 1] = 4
BytesTaken(c) == IF c.vdg.AG THEN bytes_per_row[vdg_mode(c.sam) + 1] ELSE 32

\* The divide stages of a mode that matches
LEMMA RowTables ==
  ASSUME NEW c, Matched(c), c.vdg.GM \in 0 .. 7
  PROVE  /\ BytesTaken(c) = RowBytes(c)
         /\ \/ RowBytes(c) = 16 /\ ByX(vdg_mode(c.sam), RowLines(c))
            \/ RowBytes(c) = 32 /\ ByY(vdg_mode(c.sam), RowLines(c))
<1> DEFINE m == vdg_mode(c.sam)
           v == c.vdg.GM
           bytes == RowBytes(c)
           R == RowLines(c)
<1>1. CASE ~c.vdg.AG
  <2>1. m = 0 /\ bytes = 32 /\ R = 12 /\ BytesTaken(c) = 32
    BY <1>1 DEF Matched, RowBytes, RowLines, BytesTaken
  <2> HIDE DEF m, bytes, R
  <2>2. ByY(m, R)
    BY <2>1 DEF ByY, vdg_mod_xdivs, vdg_mod_ydivs, vdg_mod_adds, vdg_mod_cleared
  <2> QED
    BY <2>1, <2>2 DEF m, bytes, R
<1>2. CASE c.vdg.AG
  <2>1. /\ m = <<1, 1, 2, 3, 4, 5, 6, 6>>[v + 1] /\ bytes = gfx_modes[v + 1].bytes
        /\ R = <<3, 3, 3, 2, 2, 1, 1, 1>>[v + 1] /\ BytesTaken(c) = bytes_per_row[m + 1]
    BY <1>2 DEF Matched, RowBytes, RowLines, BytesTaken
  <2>2. v \in 0 .. 7
    OBVIOUS
  <2> HIDE DEF m, bytes, R, v
  <2>3. \/ v = 0 /\ m = 1 /\ bytes = 16 /\ R = 3
        \/ v = 1 /\ m = 1 /\ bytes = 16 /\ R = 3
        \/ v = 2 /\ m = 2 /\ bytes = 32 /\ R = 3
        \/ v = 3 /\ m = 3 /\ bytes = 16 /\ R = 2
        \/ v = 4 /\ m = 4 /\ bytes = 32 /\ R = 2
        \/ v = 5 /\ m = 5 /\ bytes = 16 /\ R = 1
        \/ v = 6 /\ m = 6 /\ bytes = 32 /\ R = 1
        \/ v = 7 /\ m = 6 /\ bytes = 32 /\ R = 1
    BY <2>1, <2>2 DEF gfx_modes
  <2>4. BytesTaken(c) = bytes
    BY <2>1, <2>3 DEF bytes_per_row
  <2>5. \/ bytes = 16 /\ ByX(m, R)
        \/ bytes = 32 /\ ByY(m, R)
    BY <2>3 DEF ByX, ByY, vdg_mod_xdivs, vdg_mod_ydivs, vdg_mod_adds, vdg_mod_cleared
  <2> QED
    BY <2>4, <2>5 DEF m, bytes, R
<1> QED
  BY <1>1, <1>2

\* The counter's arithmetic: 16 bits of address, a divide stage, a row's start
Plus(a, n) == (a + n) % 65536
Less(a, n) == (a - n) % 65536
Counted(count, R) == (count + 1) % R
RowStart(b, m) == b - (b % m) + (b % 2)
XDiv(s) == vdg_mod_xdivs[vdg_mode(s) + 1]
YDiv(s) == vdg_mod_ydivs[vdg_mode(s) + 1]

\* A SAM and its counter
Counts(s, reg, address, x, y) ==
  DOMAIN s = SamFields /\ s.reg = reg /\ s.vdg_address = address /\ s.xcount = x /\ s.ycount = y

\* What an addition to the counter does: it stays within its 16 bytes,
LEMMA AddWithin ==
  ASSUME NEW s, NEW reg, NEW a, NEW xc, NEW yc, NEW n, Counts(s, reg, a, xc, yc), ~Differ(a, Plus(a, n), 4)
  PROVE  Counts(vdg_address_add(s, n), reg, Plus(a, n), xc, yc)
<1> DEFINE next == (s.vdg_address + n) % 65536
           t == [s EXCEPT !.vdg_address = next]
<1>1. s.vdg_address = a /\ s.xcount = xc /\ s.ycount = yc /\ DOMAIN s = SamFields /\ s.reg = reg
  BY DEF Counts
<1>2. next = Plus(a, n)
  BY <1>1 DEF Plus
<1>3. ~Differ(s.vdg_address, next, 4)
  BY <1>1, <1>2
<1>4. vdg_address_add(s, n) = t
  BY <1>3 DEF vdg_address_add
<1> HIDE DEF next
<1>5. Counts(t, reg, Plus(a, n), xc, yc)
  BY <1>1, <1>2 DEF Counts, SamFields
<1> QED
  BY <1>4, <1>5

\* or X takes it back by 16,
LEMMA AddRepeats ==
  ASSUME NEW s, NEW reg, NEW a, NEW xc, NEW yc, NEW n, Counts(s, reg, a, xc, yc), Differ(a, Plus(a, n), 4),
         Counted(xc, XDiv(s)) # 0
  PROVE  Counts(vdg_address_add(s, n), reg, Less(Plus(a, n), 16), Counted(xc, XDiv(s)), yc)
<1> DEFINE next == (s.vdg_address + n) % 65536
           count == (s.xcount + 1) % vdg_mod_xdivs[vdg_mode(s) + 1]
           before == (next - 16) % 65536
           t == [s EXCEPT !.vdg_address = before, !.xcount = count]
           x == Counted(xc, XDiv(s))
           back == Less(Plus(a, n), 16)
<1>1. s.vdg_address = a /\ s.xcount = xc /\ s.ycount = yc /\ DOMAIN s = SamFields /\ s.reg = reg
  BY DEF Counts
<1>2. next = Plus(a, n) /\ count = x /\ before = back
  BY <1>1 DEF Plus, Counted, XDiv, Less
<1>3. Differ(s.vdg_address, next, 4) /\ count # 0
  BY <1>1, <1>2
<1>4. vdg_address_add(s, n) = t
  BY <1>3 DEF vdg_address_add
<1> HIDE DEF next, count, before, x, back
<1>5. Counts(t, reg, back, x, yc)
  BY <1>1, <1>2 DEF Counts, SamFields
<1> QED
  BY <1>4, <1>5 DEF x, back

\* or it goes on to the next 16 bytes, the second half of 32
LEMMA AddHalfway ==
  ASSUME NEW s, NEW reg, NEW a, NEW xc, NEW yc, NEW n, Counts(s, reg, a, xc, yc), Differ(a, Plus(a, n), 4),
         Counted(xc, XDiv(s)) = 0, ~Differ(a, Plus(a, n), 5)
  PROVE  Counts(vdg_address_add(s, n), reg, Plus(a, n), 0, yc)
<1> DEFINE next == (s.vdg_address + n) % 65536
           count == (s.xcount + 1) % vdg_mod_xdivs[vdg_mode(s) + 1]
           t == [s EXCEPT !.vdg_address = next, !.xcount = count]
<1>1. s.vdg_address = a /\ s.xcount = xc /\ s.ycount = yc /\ DOMAIN s = SamFields /\ s.reg = reg
  BY DEF Counts
<1>2. next = Plus(a, n) /\ count = 0
  BY <1>1 DEF Plus, Counted, XDiv
<1>3. Differ(s.vdg_address, next, 4) /\ ~Differ(s.vdg_address, next, 5)
  BY <1>1, <1>2
<1>4. vdg_address_add(s, n) = t
  BY <1>2, <1>3 DEF vdg_address_add
<1> HIDE DEF next, count
<1>5. Counts(t, reg, Plus(a, n), 0, yc)
  BY <1>1, <1>2 DEF Counts, SamFields
<1> QED
  BY <1>4, <1>5

\* or their end, where Y takes it back by 32 or lets it go on.
LEMMA AddRowEnd ==
  ASSUME NEW s, NEW reg, NEW a, NEW xc, NEW yc, NEW n, NEW y, Counts(s, reg, a, xc, yc), Differ(a, Plus(a, n), 4),
         Counted(xc, XDiv(s)) = 0, Differ(a, Plus(a, n), 5), y = Counted(yc, YDiv(s))
  PROVE  Counts(vdg_address_add(s, n), reg, IF y # 0 THEN Less(Plus(a, n), 32) ELSE Plus(a, n), 0, y)
<1> DEFINE next == (s.vdg_address + n) % 65536
           count == (s.xcount + 1) % vdg_mod_xdivs[vdg_mode(s) + 1]
           rows == (s.ycount + 1) % vdg_mod_ydivs[vdg_mode(s) + 1]
           to == IF rows # 0 THEN (next - 32) % 65536 ELSE next
           t == [s EXCEPT !.vdg_address = to, !.xcount = count, !.ycount = rows]
           up == IF y # 0 THEN Less(Plus(a, n), 32) ELSE Plus(a, n)
<1>1. s.vdg_address = a /\ s.xcount = xc /\ s.ycount = yc /\ DOMAIN s = SamFields /\ s.reg = reg
  BY DEF Counts
<1>2. next = Plus(a, n) /\ count = 0 /\ rows = y
  BY <1>1 DEF Plus, Counted, XDiv, YDiv
<1>3. Differ(s.vdg_address, next, 4) /\ Differ(s.vdg_address, next, 5)
  BY <1>1, <1>2
<1>6. to = up
  BY <1>2 DEF Less
<1>4. vdg_address_add(s, n) = t
  BY <1>2, <1>3 DEF vdg_address_add
<1> HIDE DEF next, count, rows, to, up
<1>5. Counts(t, reg, up, 0, y)
  BY <1>1, <1>2, <1>6 DEF Counts, SamFields
<1> QED
  BY <1>4, <1>5 DEF up

\* Where a row of 32 bytes starts, and one of 16; the next one after the last
\* is the first of the memory.
LongRow(a) == \E k \in 0 .. 2047 : a = 32 * k
ShortRow(a) == \E k \in 0 .. 4095 : a = 16 * k

\* The bits that a step along a row changes: bit 4 twice in a row of 32 bytes,
\* bit 5 at its end only,
LEMMA LongBits ==
  ASSUME NEW a, LongRow(a)
  PROVE  \E b, n :
           /\ b = Plus(a, 16) /\ n = Plus(b, 16) /\ LongRow(n) /\ a = Less(n, 32)
           /\ Differ(a, b, 4) /\ ~Differ(a, b, 5) /\ Differ(b, n, 4) /\ Differ(b, n, 5)
           /\ a % 16 = 0 /\ b % 16 = 0 /\ RowStart(b, 32) = a
<1> PICK k \in 0 .. 2047 : a = 32 * k
  BY DEF LongRow
<1> DEFINE j == (k + 1) % 2048
           p == 32 * k
           b == p + 16
           n == 32 * j
<1>0. 2^4 = 16 /\ 2^5 = 32
  OBVIOUS
<1>1. j = IF k = 2047 THEN 0 ELSE k + 1
  OBVIOUS
<1>2. p \in Nat /\ n \in Nat /\ j \in 0 .. 2047
  BY <1>1
<1>3. p \div 16 = 2 * k /\ (p + 16) \div 16 = 2 * k + 1 /\ n \div 16 = 2 * j
  BY <1>1
<1>4. p \div 32 = k /\ (p + 16) \div 32 = k /\ n \div 32 = j
  BY <1>1
<1>5. (2 * k) % 2 = 0 /\ (2 * k + 1) % 2 = 1 /\ (2 * j) % 2 = 0 /\ k % 2 # j % 2
  BY <1>1
<1>6. Differ(p, p + 16, 4) /\ ~Differ(p, p + 16, 5) /\ Differ(p + 16, n, 4) /\ Differ(p + 16, n, 5)
  <2> HIDE DEF p, n, j
  <2> QED
    BY <1>0, <1>3, <1>4, <1>5 DEF Differ
<1>7. (p + 16) % 65536 = p + 16 /\ (p + 16 + 16) % 65536 = n /\ (n - 32) % 65536 = p
  BY <1>1
<1>8. p % 16 = 0 /\ (p + 16) % 16 = 0 /\ (p + 16) % 32 = 16 /\ (p + 16) % 2 = 0
  OBVIOUS
<1>9. LongRow(n)
  <2>1. n = 32 * j
    OBVIOUS
  <2>2. j \in 0 .. 2047
    BY <1>2 DEF j
  <2> HIDE DEF n, j
  <2> SUFFICES \E q \in 0 .. 2047 : n = 32 * q
    BY DEF LongRow
  <2> WITNESS j \in 0 .. 2047
  <2> QED
    BY <2>1
<1>10. p = a
  OBVIOUS
<1> HIDE DEF p, n, j
<1>11. b = Plus(p, 16) /\ n = Plus(b, 16) /\ p = Less(n, 32)
  BY <1>7 DEF Plus, Less
<1>12. RowStart(b, 32) = p
  <2>1. b \in Int /\ b % 32 = 16 /\ b % 2 = 0 /\ b - 16 + 0 = p
    BY <1>2, <1>8
  <2> DEFINE high == b % 32
             low == b % 2
  <2>2. RowStart(b, 32) = b - high + low
    BY DEF RowStart
  <2>3. high = 16 /\ low = 0
    BY <2>1
  <2> HIDE DEF b, high, low
  <2> QED
    BY <2>1, <2>2, <2>3
<1>13. Differ(p, b, 4) /\ ~Differ(p, b, 5) /\ Differ(b, n, 4) /\ Differ(b, n, 5) /\ p % 16 = 0 /\ b % 16 = 0
  BY <1>6, <1>8
<1> HIDE DEF b
<1> WITNESS b, n
<1> QED
  BY <1>9, <1>10, <1>11, <1>12, <1>13

\* and bit 4 at the end of a row of 16.
LEMMA ShortBits ==
  ASSUME NEW a, ShortRow(a)
  PROVE  \E b, n :
           /\ b = Plus(a, 8) /\ n = Plus(a, 16) /\ ShortRow(n) /\ a = Less(n, 16)
           /\ ~Differ(a, b, 4) /\ Differ(a, n, 4) /\ a % 16 = 0 /\ RowStart(b, 16) = a
<1> PICK k \in 0 .. 4095 : a = 16 * k
  BY DEF ShortRow
<1> DEFINE j == (k + 1) % 4096
           p == 16 * k
           b == p + 8
           n == 16 * j
<1>0. 2^4 = 16
  OBVIOUS
<1>1. j = IF k = 4095 THEN 0 ELSE k + 1
  OBVIOUS
<1>2. /\ p \div 16 = k /\ (p + 8) \div 16 = k /\ n \div 16 = j /\ k % 2 # j % 2
      /\ j \in 0 .. 4095 /\ p \in Nat
  BY <1>1
<1>3. Differ(p, n, 4) /\ ~Differ(p, p + 8, 4)
  <2> HIDE DEF p, n, j
  <2> QED
    BY <1>0, <1>2 DEF Differ
<1>4. (p + 16) % 65536 = n /\ (n - 16) % 65536 = p /\ (p + 8) % 65536 = p + 8
  BY <1>1
<1>5. p % 16 = 0 /\ (p + 8) % 16 = 8 /\ (p + 8) % 2 = 0
  OBVIOUS
<1>6. ShortRow(n)
  <2>1. n = 16 * j
    OBVIOUS
  <2>2. j \in 0 .. 4095
    BY <1>2 DEF j
  <2> HIDE DEF n, j
  <2> SUFFICES \E q \in 0 .. 4095 : n = 16 * q
    BY DEF ShortRow
  <2> WITNESS j \in 0 .. 4095
  <2> QED
    BY <2>1
<1>7. p = a
  OBVIOUS
<1> HIDE DEF p, n, j
<1>8. b = Plus(p, 8) /\ n = Plus(p, 16) /\ p = Less(n, 16)
  BY <1>4 DEF Plus, Less
<1>9. RowStart(b, 16) = p
  <2>1. b \in Int /\ b % 16 = 8 /\ b % 2 = 0 /\ b - 8 + 0 = p
    BY <1>2, <1>5
  <2> DEFINE high == b % 16
             low == b % 2
  <2>2. RowStart(b, 16) = b - high + low
    BY DEF RowStart
  <2>3. high = 8 /\ low = 0
    BY <2>1
  <2> HIDE DEF b, high, low
  <2> QED
    BY <2>1, <2>2, <2>3
<1>10. ~Differ(p, b, 4)
  BY <1>3
<1> HIDE DEF b
<1> WITNESS b, n
<1> QED
  BY <1>3, <1>5, <1>6, <1>7, <1>8, <1>9, <1>10


\* The fetch goes through whole chunks where it starts at a boundary.
LEMMA WholeChunk ==
  ASSUME NEW s, NEW left, NEW rest, s.vdg_address % 16 = 0, left \in {16, 32}, rest = left - 16
  PROVE  NextChunk([sam |-> s, left |-> left]) = [sam |-> vdg_address_add(s, 16), left |-> rest]
<1> DEFINE p == [sam |-> s, left |-> left]
           t == vdg_address_add(s, 16)
           n == Chunk(s, left)
<1>1. n = 16
  BY DEF Chunk
<1>2. FetchChunk(s, 16) = t
  BY DEF FetchChunk
<1> HIDE DEF n, t
<1>3. p.sam = s /\ p.left = left /\ left # 0
  OBVIOUS
<1> HIDE DEF p
<1>4. NextChunk(p) = [sam |-> FetchChunk(s, n), left |-> left - n]
  BY <1>3, Zenon DEF NextChunk, n
<1> QED
  BY <1>1, <1>2, <1>4 DEF p, t

\* Two whole chunks, or one
LEMMA Fetched ==
  ASSUME NEW s, s.vdg_address % 16 = 0
  PROVE  LET t == vdg_address_add(s, 16)
         IN /\ sam6883_vdg_fetch_bytes(s, 16) = t
            /\ t.vdg_address % 16 = 0 => sam6883_vdg_fetch_bytes(s, 32) = vdg_address_add(t, 16)
<1> DEFINE t == vdg_address_add(s, 16)
           u == vdg_address_add(t, 16)
           Of(r, left) == [sam |-> r, left |-> left]
<1>1. \A left : sam6883_vdg_fetch_bytes(s, left) = NextChunk(NextChunk(NextChunk(Of(s, left)))).sam
  BY DEF sam6883_vdg_fetch_bytes
<1>2. \A r : NextChunk(Of(r, 0)) = Of(r, 0)
  BY DEF NextChunk
<1>3. \A r, left : Of(r, left).sam = r
  OBVIOUS
<1>4. 16 - 16 = 0 /\ 32 - 16 = 16 /\ 16 \in {16, 32} /\ 32 \in {16, 32}
  OBVIOUS
<1> HIDE DEF u
<1>5. NextChunk(Of(s, 16)) = Of(t, 0)
  BY <1>4, WholeChunk
<1>6. NextChunk(Of(s, 32)) = Of(t, 16)
  BY <1>4, WholeChunk
<1>7. t.vdg_address % 16 = 0 => NextChunk(Of(t, 16)) = Of(u, 0)
  <2> HIDE DEF t
  <2> QED
    BY <1>4, WholeChunk DEF u
<1> HIDE DEF t, Of
<1>8. sam6883_vdg_fetch_bytes(s, 16) = t
  BY <1>1, <1>2, <1>3, <1>5
<1>9. t.vdg_address % 16 = 0 => sam6883_vdg_fetch_bytes(s, 32) = u
  BY <1>1, <1>2, <1>3, <1>6, <1>7
<1> QED
  BY <1>8, <1>9 DEF t, u

\* The mode is the register's.
LEMMA ModeOfRegister == \A s, t : t.reg = s.reg => vdg_mode(t) = vdg_mode(s)
  BY DEF vdg_mode

\* The sync clears the low bits, after what the mode adds.
LEMMA Synced ==
  ASSUME NEW s, NEW n, NEW m, NEW reg, NEW b, NEW x, NEW y, n = vdg_mod_adds[vdg_mode(s) + 1],
         m = 2^(vdg_mod_cleared[vdg_mode(s) + 1] + 1), m # 2, Counts(vdg_address_add(s, n), reg, b, x, y)
  PROVE  Counts(sam6883_vdg_hsync(s), reg, RowStart(b, m), x, y)
<1> DEFINE w == vdg_address_add(s, vdg_mod_adds[vdg_mode(s) + 1])
           p == 2^(vdg_mod_cleared[vdg_mode(s) + 1] + 1)
           low == IF p = 2 THEN w.vdg_address ELSE w.vdg_address - (w.vdg_address % p) + (w.vdg_address % 2)
           u == [w EXCEPT !.vdg_address = low]
<1>1. sam6883_vdg_hsync(s) = u
  BY DEF sam6883_vdg_hsync
<1>2. p = m /\ w = vdg_address_add(s, n)
  OBVIOUS
<1> HIDE DEF w, p
<1>3. DOMAIN w = SamFields /\ w.reg = reg /\ w.vdg_address = b /\ w.xcount = x /\ w.ycount = y
  BY <1>2 DEF Counts
<1>4. low = RowStart(b, m)
  BY <1>2, <1>3 DEF RowStart
<1> HIDE DEF low
<1>5. Counts(u, reg, RowStart(b, m), x, y)
  BY <1>3, <1>4 DEF Counts, SamFields
<1> QED
  BY <1>1, <1>5

\* So it takes the counter back to the row's start, after 32 bytes
LEMMA LongSync ==
  ASSUME NEW s, NEW reg, NEW R, NEW a, NEW y, LongRow(a), Counts(s, reg, a, 0, y), ByY(vdg_mode(s), R)
  PROVE  Counts(sam6883_vdg_hsync(s), reg, a, 0, y)
<1>1. PICK b, n : b = Plus(a, 16) /\ Differ(a, b, 4) /\ ~Differ(a, b, 5) /\ RowStart(b, 32) = a
  BY LongBits
<1>2. 16 = vdg_mod_adds[vdg_mode(s) + 1] /\ vdg_mod_cleared[vdg_mode(s) + 1] = 4 /\ XDiv(s) = 1
  BY DEF ByY, XDiv
<1>3. 32 = 2^(4 + 1) /\ 32 # 2 /\ Counted(0, 1) = 0
  BY DEF Counted
<1>4. Counted(0, XDiv(s)) = 0 /\ 32 = 2^(vdg_mod_cleared[vdg_mode(s) + 1] + 1)
  BY <1>2, <1>3
<1>5. Counts(vdg_address_add(s, 16), reg, Plus(a, 16), 0, y)
  BY <1>1, <1>4, AddHalfway
<1>6. Counts(sam6883_vdg_hsync(s), reg, RowStart(b, 32), 0, y)
  BY <1>1, <1>2, <1>3, <1>4, <1>5, Synced
<1> QED
  BY <1>1, <1>6

\* and after 16.
LEMMA ShortSync ==
  ASSUME NEW s, NEW reg, NEW R, NEW a, NEW x, NEW y, ShortRow(a), Counts(s, reg, a, x, y), ByX(vdg_mode(s), R)
  PROVE  Counts(sam6883_vdg_hsync(s), reg, a, x, y)
<1>1. PICK b, n : b = Plus(a, 8) /\ ~Differ(a, b, 4) /\ RowStart(b, 16) = a
  BY ShortBits
<1>2. 8 = vdg_mod_adds[vdg_mode(s) + 1] /\ vdg_mod_cleared[vdg_mode(s) + 1] = 3
  BY DEF ByX
<1>3. 16 = 2^(3 + 1) /\ 16 # 2
  OBVIOUS
<1>4. 16 = 2^(vdg_mod_cleared[vdg_mode(s) + 1] + 1)
  BY <1>2, <1>3
<1>5. Counts(vdg_address_add(s, 8), reg, Plus(a, 8), x, y)
  BY <1>1, AddWithin
<1>6. Counts(sam6883_vdg_hsync(s), reg, RowStart(b, 16), x, y)
  BY <1>1, <1>2, <1>3, <1>4, <1>5, Synced
<1> QED
  BY <1>1, <1>6


\* A line of 32 bytes: the row again, or the next when Y has counted its lines;
LEMMA LongLine ==
  ASSUME NEW s, NEW reg, NEW R, NEW a, NEW y, LongRow(a), Counts(s, reg, a, 0, y), ByY(vdg_mode(s), R)
  PROVE  LET z == Counted(y, R)
         IN Counts(sam6883_vdg_hsync(sam6883_vdg_fetch_bytes(s, 32)), reg, IF z # 0 THEN a ELSE (a + 32) % 65536, 0, z)
<1> DEFINE z == Counted(y, R)
           t == vdg_address_add(s, 16)
           u == vdg_address_add(t, 16)
           f == sam6883_vdg_fetch_bytes(s, 32)
<1>1. PICK b, n : /\ b = Plus(a, 16) /\ n = Plus(b, 16) /\ LongRow(n) /\ a = Less(n, 32)
                  /\ Differ(a, b, 4) /\ ~Differ(a, b, 5) /\ Differ(b, n, 4) /\ Differ(b, n, 5)
                  /\ a % 16 = 0 /\ b % 16 = 0
  BY LongBits
<1>2. XDiv(s) = 1 /\ YDiv(s) = R /\ Counted(0, 1) = 0
  BY DEF ByY, XDiv, YDiv, Counted
<1> DEFINE next == IF z # 0 THEN a ELSE n
<1>3. Counts(t, reg, Plus(a, 16), 0, y)
  BY <1>1, <1>2, AddHalfway
<1> HIDE DEF t
<1>4. t.reg = s.reg /\ t.vdg_address = b
  BY <1>1, <1>3 DEF Counts
<1>5. XDiv(t) = 1 /\ YDiv(t) = R
  BY <1>2, <1>4, ModeOfRegister DEF XDiv, YDiv
<1>6. Counts(t, reg, b, 0, y)
  BY <1>1, <1>3
<1>7. Counts(u, reg, IF z # 0 THEN Less(Plus(b, 16), 32) ELSE Plus(b, 16), 0, z)
  BY <1>1, <1>2, <1>5, <1>6, AddRowEnd
<1> HIDE DEF u
<1>8. Counts(u, reg, next, 0, z) /\ LongRow(next)
  BY <1>1, <1>7
<1>9. f = u
  <2>1. s.vdg_address % 16 = 0 /\ t.vdg_address % 16 = 0
    BY <1>1, <1>4 DEF Counts
  <2> QED
    BY <2>1, Fetched DEF t, u
<1>10. ByY(vdg_mode(u), R)
  <2>1. u.reg = s.reg
    BY <1>8 DEF Counts
  <2> QED
    BY <2>1, ModeOfRegister
<1>11. n = (a + 32) % 65536
  <2>1. PICK k \in 0 .. 2047 : a = 32 * k
    BY DEF LongRow
  <2> DEFINE p == 32 * k
  <2>2. p \in Nat /\ (p + 16) % 65536 = p + 16 /\ p + 16 + 16 = p + 32
    OBVIOUS
  <2>3. p = a
    BY <2>1
  <2> HIDE DEF p
  <2>4. b = p + 16
    BY <1>1, <2>2, <2>3 DEF Plus
  <2>5. n = (p + 16 + 16) % 65536
    BY <1>1, <2>4 DEF Plus
  <2> QED
    BY <2>2, <2>3, <2>5
<1> HIDE DEF z, next, f
<1>12. Counts(sam6883_vdg_hsync(u), reg, next, 0, z)
  BY <1>8, <1>10, LongSync
<1> QED
  BY <1>9, <1>11, <1>12 DEF f, next, z

\* a line of 16: the same of X.
LEMMA ShortLine ==
  ASSUME NEW s, NEW reg, NEW R, NEW a, NEW x, ShortRow(a), Counts(s, reg, a, x, 0), ByX(vdg_mode(s), R)
  PROVE  LET z == Counted(x, R)
         IN Counts(sam6883_vdg_hsync(sam6883_vdg_fetch_bytes(s, 16)), reg, IF z # 0 THEN a ELSE (a + 16) % 65536, z, 0)
<1> DEFINE z == Counted(x, R)
           t == vdg_address_add(s, 16)
           f == sam6883_vdg_fetch_bytes(s, 16)
<1>1. PICK b, n : n = Plus(a, 16) /\ ShortRow(n) /\ a = Less(n, 16) /\ Differ(a, n, 4) /\ a % 16 = 0
  BY ShortBits
<1>2. XDiv(s) = R /\ YDiv(s) = 1 /\ Counted(0, 1) = 0
  BY DEF ByX, XDiv, YDiv, Counted
<1> DEFINE next == IF z # 0 THEN a ELSE n
<1>3. Counts(t, reg, next, z, 0)
  <2>1. ASSUME z # 0 PROVE Counts(t, reg, Less(Plus(a, 16), 16), z, 0)
    <3>1. Counts(t, reg, Less(Plus(a, 16), 16), Counted(x, XDiv(s)), 0)
      BY <1>1, <1>2, <2>1, AddRepeats
    <3> QED
      BY <1>2, <3>1
  <2>2. ASSUME z = 0, ~Differ(a, n, 5) PROVE Counts(t, reg, Plus(a, 16), 0, 0)
    BY <1>1, <1>2, <2>2, AddHalfway
  <2>3. ASSUME z = 0, Differ(a, n, 5) PROVE Counts(t, reg, Plus(a, 16), 0, 0)
    <3>1. Counts(t, reg, IF 0 # 0 THEN Less(Plus(a, 16), 32) ELSE Plus(a, 16), 0, 0)
      BY <1>1, <1>2, <2>3, AddRowEnd
    <3> QED
      BY <3>1
  <2> HIDE DEF z, t
  <2> QED
    BY <1>1, <2>1, <2>2, <2>3
<1>4. ShortRow(next)
  BY <1>1
<1>5. f = t
  <2>1. s.vdg_address % 16 = 0
    BY <1>1 DEF Counts
  <2> QED
    BY <2>1, Fetched
<1> HIDE DEF t
<1>6. ByX(vdg_mode(t), R)
  <2>1. t.reg = s.reg
    BY <1>3 DEF Counts
  <2> QED
    BY <2>1, ModeOfRegister
<1>7. n = (a + 16) % 65536
  BY <1>1 DEF Plus
<1> HIDE DEF z, next, f
<1>8. Counts(sam6883_vdg_hsync(t), reg, next, z, 0)
  BY <1>3, <1>4, <1>6, ShortSync
<1> QED
  BY <1>5, <1>7, <1>8 DEF f, next, z


\* Where the rows start from the display base, once past the end of the memory too
RowAt(base, bytes, q) == (base + bytes * q) % 65536
LEMMA RowsFrom ==
  ASSUME NEW base, \E j \in 0 .. 127 : base = 512 * j, NEW q \in Nat
  PROVE  /\ LongRow(RowAt(base, 32, q)) /\ ShortRow(RowAt(base, 16, q))
         /\ (RowAt(base, 32, q) + 32) % 65536 = RowAt(base, 32, q + 1)
         /\ (RowAt(base, 16, q) + 16) % 65536 = RowAt(base, 16, q + 1)
<1> PICK j \in 0 .. 127 : base = 512 * j
  OBVIOUS
<1> DEFINE a == 512 * j + 32 * q
           b == 512 * j + 16 * q
           k == (16 * j + q) % 2048
           i == (32 * j + q) % 4096
<1>1. a \in Int /\ b \in Int /\ 32 \in Int /\ 16 \in Int /\ 65536 \in Nat \ {0}
  OBVIOUS
<1>2. a % 65536 = 32 * k /\ k \in 0 .. 2047
  OBVIOUS
<1>3. b % 65536 = 16 * i /\ i \in 0 .. 4095
  OBVIOUS
<1>4. a + 32 = 512 * j + 32 * (q + 1) /\ b + 16 = 512 * j + 16 * (q + 1)
  OBVIOUS
<1> HIDE DEF a, b, k, i
<1>5. ((a % 65536) + 32) % 65536 = (a + 32) % 65536 /\ ((b % 65536) + 16) % 65536 = (b + 16) % 65536
  BY <1>1, ModPlus
<1>6. LongRow(a % 65536)
  <2> DEFINE w == a % 65536
  <2>1. k \in 0 .. 2047 /\ w = 32 * k
    BY <1>2
  <2> HIDE DEF w
  <2>2. \E r \in 0 .. 2047 : w = 32 * r
    BY <2>1
  <2>3. LongRow(w)
    BY <2>2 DEF LongRow
  <2> QED
    BY <2>3 DEF w
<1>7. ShortRow(b % 65536)
  <2> DEFINE w == b % 65536
  <2>1. i \in 0 .. 4095 /\ w = 16 * i
    BY <1>3
  <2> HIDE DEF w
  <2>2. \E r \in 0 .. 4095 : w = 16 * r
    BY <2>1
  <2>3. ShortRow(w)
    BY <2>2 DEF ShortRow
  <2> QED
    BY <2>3 DEF w
<1>8. /\ RowAt(base, 32, q) = a % 65536 /\ RowAt(base, 16, q) = b % 65536
      /\ RowAt(base, 32, q + 1) = (a + 32) % 65536 /\ RowAt(base, 16, q + 1) = (b + 16) % 65536
  BY <1>4 DEF a, b, RowAt
<1> QED
  BY <1>5, <1>6, <1>7, <1>8

\* A divide stage counts the lines of a row.
LEMMA LinesCounted ==
  ASSUME NEW l \in Nat, NEW R \in {1, 2, 3, 12}
  PROVE  /\ Counted(l % R, R) = (l + 1) % R /\ l \div R \in Nat
         /\ (l + 1) \div R = (l \div R) + (IF (l + 1) % R # 0 THEN 0 ELSE 1)
<1>1. CASE R = 1
  BY <1>1 DEF Counted
<1>2. CASE R = 2
  BY <1>2 DEF Counted
<1>3. CASE R = 3
  BY <1>3 DEF Counted
<1>4. CASE R = 12
  BY <1>4 DEF Counted
<1> QED
  BY <1>1, <1>2, <1>3, <1>4

\* The SAM after a line, and the pins that say what the VDG makes of it
SameSettings(c, d) == d.sam.reg = c.sam.reg /\ (d.vdg.AG = c.vdg.AG) /\ d.vdg.GM = c.vdg.GM
LEMMA SameRows ==
  ASSUME NEW c, NEW d, SameSettings(c, d)
  PROVE  /\ vdg_base(d.sam) = vdg_base(c.sam) /\ RowBytes(d) = RowBytes(c) /\ RowLines(d) = RowLines(c)
         /\ Matched(d) <=> Matched(c)
<1>1. vdg_base(d.sam) = vdg_base(c.sam) /\ vdg_mode(d.sam) = vdg_mode(c.sam)
  BY DEF SameSettings, vdg_base, vdg_mode
<1> QED
  BY <1>1 DEF SameSettings, RowBytes, RowLines, Matched

\* A line of a field walks to the next.
LEMMA LineWalked ==
  ASSUME NEW c, NEW d, NEW l \in Nat, DOMAIN c.sam = SamFields, c.vdg.GM \in 0 .. 7, Matched(c), Walked(c, l),
         SameSettings(c, d), d.sam = sam6883_vdg_hsync(sam6883_vdg_fetch_bytes(c.sam, BytesTaken(c)))
  PROVE  Walked(d, l + 1)
<1> DEFINE s == c.sam
           R == RowLines(c)
           base == vdg_base(s)
           bytes == RowBytes(c)
           q == l \div R
           z == (l + 1) % R
<1>1. \E j \in 0 .. 127 : base = 512 * j
  BY BaseType
<1>2. \/ bytes = 16 /\ ByX(vdg_mode(s), R)
      \/ bytes = 32 /\ ByY(vdg_mode(s), R)
  BY RowTables
<1>3. BytesTaken(c) = bytes
  BY RowTables
<1>4. R \in {1, 2, 3, 12}
  BY <1>2 DEF ByX, ByY
<1>5. Counted(l % R, R) = z /\ q \in Nat /\ (l + 1) \div R = (IF z # 0 THEN q ELSE q + 1)
  <2> HIDE DEF R
  <2>1. /\ Counted(l % R, R) = z /\ q \in Nat
        /\ (l + 1) \div R = q + (IF z # 0 THEN 0 ELSE 1)
    BY <1>4, LinesCounted
  <2> HIDE DEF z, q
  <2> QED
    BY <2>1
<1>6. /\ LongRow(RowAt(base, 32, q)) /\ ShortRow(RowAt(base, 16, q))
      /\ (RowAt(base, 32, q) + 32) % 65536 = RowAt(base, 32, q + 1)
      /\ (RowAt(base, 16, q) + 16) % 65536 = RowAt(base, 16, q + 1)
  <2> HIDE DEF q, base
  <2> QED
    BY <1>1, <1>5, RowsFrom
<1>7. vdg_base(d.sam) = base /\ RowBytes(d) = bytes /\ RowLines(d) = R
  BY SameRows
<1>8. /\ s.vdg_address = RowAt(base, bytes, q)
      /\ s.xcount = (IF bytes = 16 THEN l % R ELSE 0) /\ s.ycount = (IF bytes = 16 THEN 0 ELSE l % R)
  BY DEF Walked, RowAt
<1> DEFINE to == RowAt(base, bytes, IF z # 0 THEN q ELSE q + 1)
           a == RowAt(base, bytes, q)
           f == sam6883_vdg_hsync(sam6883_vdg_fetch_bytes(s, bytes))
<1>9. d.sam = f /\ DOMAIN s = SamFields
  BY <1>3
<1> HIDE DEF base, bytes, R, s, f, q, z
<1>10. CASE bytes = 16 /\ ByX(vdg_mode(s), R)
  <2>1. Counts(s, s.reg, a, l % R, 0) /\ ShortRow(a)
    BY <1>6, <1>8, <1>9, <1>10 DEF Counts
  <2>2. to = IF z # 0 THEN a ELSE (a + 16) % 65536
    BY <1>6, <1>10
  <2> HIDE DEF a, to
  <2>3. Counts(f, s.reg, IF z # 0 THEN a ELSE (a + 16) % 65536, z, 0)
    <3>1. Counts(sam6883_vdg_hsync(sam6883_vdg_fetch_bytes(s, 16)), s.reg,
                 IF Counted(l % R, R) # 0 THEN a ELSE (a + 16) % 65536, Counted(l % R, R), 0)
      BY <1>10, <2>1, ShortLine
    <3> QED
      BY <1>5, <1>10, <3>1 DEF f
  <2>4. f.vdg_address = to /\ f.xcount = z /\ f.ycount = 0
    BY <2>2, <2>3 DEF Counts
  <2> QED
    BY <1>5, <1>7, <1>9, <1>10, <2>4 DEF Walked, RowAt, to, z
<1>11. CASE bytes = 32 /\ ByY(vdg_mode(s), R)
  <2>1. Counts(s, s.reg, a, 0, l % R) /\ LongRow(a)
    BY <1>6, <1>8, <1>9, <1>11 DEF Counts
  <2>2. to = IF z # 0 THEN a ELSE (a + 32) % 65536
    BY <1>6, <1>11
  <2> HIDE DEF a, to
  <2>3. Counts(f, s.reg, IF z # 0 THEN a ELSE (a + 32) % 65536, 0, z)
    <3>1. Counts(sam6883_vdg_hsync(sam6883_vdg_fetch_bytes(s, 32)), s.reg,
                 IF Counted(l % R, R) # 0 THEN a ELSE (a + 32) % 65536, 0, Counted(l % R, R))
      BY <1>11, <2>1, LongLine
    <3> QED
      BY <1>5, <1>11, <3>1 DEF f
  <2>4. f.vdg_address = to /\ f.xcount = 0 /\ f.ycount = z
    BY <2>2, <2>3 DEF Counts
  <2> QED
    BY <1>5, <1>7, <1>9, <1>11, <2>4 DEF Walked, RowAt, to, z
<1> QED
  BY <1>2, <1>10, <1>11 DEF s, bytes, R

\* The field sync takes the counter to the display base.
LEMMA FieldBegun ==
  ASSUME NEW c, NEW s, DOMAIN s = SamFields, s.reg = c.sam.reg, c.sam = sam6883_vdg_fsync(s), Matched(c),
         c.vdg.GM \in 0 .. 7
  PROVE  Walked(c, 0)
<1> DEFINE R == RowLines(c)
           base == vdg_base(s)
           bytes == RowBytes(c)
<1>1. PICK j \in 0 .. 127 : base = 512 * j
  BY BaseType
<1>2. R \in {1, 2, 3, 12} /\ bytes \in {16, 32}
  BY RowTables DEF ByX, ByY
<1>3. vdg_base(c.sam) = base
  BY DEF vdg_base
<1>4. c.sam = [s EXCEPT !.vdg_address = base, !.xcount = 0, !.ycount = 0]
  BY DEF sam6883_vdg_fsync
<1> HIDE DEF R, base, bytes
<1>5. c.sam.vdg_address = base /\ c.sam.xcount = 0 /\ c.sam.ycount = 0
  BY <1>4 DEF SamFields
<1>6. 0 % R = 0 /\ 0 \div R = 0
  BY <1>2
<1>7. base = (base + bytes * 0) % 65536
  BY <1>1, <1>2
<1> QED
  BY <1>3, <1>5, <1>6, <1>7 DEF Walked, R, bytes

\* The picture is the SAM's and the VDG's.
LEMMA PictureKept ==
  ASSUME NEW c, NEW d, SamePicture(c, d)
  PROVE  /\ VdgFollows(c) => VdgFollows(d)
         /\ Matched(d) <=> Matched(c)
         /\ \A l : Walked(c, l) => Walked(d, l)
<1>1. d.sam = c.sam /\ d.vdg = c.vdg
  BY DEF SamePicture
<1>2. RowBytes(d) = RowBytes(c) /\ RowLines(d) = RowLines(c)
  BY <1>1 DEF RowBytes, RowLines
<1> QED
  BY <1>1, <1>2 DEF VdgFollows, Matched, Walked

\* What a write changes of the picture: nothing, but at the SAM's registers and
\* at port B of PIA 1.
LEMMA Write2Picture ==
  ASSUME NEW c, Board(c), NEW addr \in Address, NEW val
  PROVE  LET r == AfterWrite2(c, addr, val)
         IN /\ r.scanline = c.scanline /\ (VdgFollows(c) => VdgFollows(r))
            /\ SamePicture(c, r) \/ addr \in 65472 .. 65503 \/ (addr \in 65312 .. 65343 /\ addr % 4 >= 2)
<1> DEFINE where == machine_write_coco2(c, addr)
           reg == where[2]
           w0 == sound_pia0_written(PiaWrite(c, "pia0", reg, val), reg)
           w == PiaWrite(c, "pia1", reg, val)
           w1 == sound_pia1_written(IF reg >= 2 THEN update_vdg_mode_coco2(w) ELSE w, reg)
           o == orch90_write(c, addr, val)
           s == [c EXCEPT !.sam = sam6883_write(@, reg)]
           m == update_vdg_mode_coco2(
                  [update_fast_pages_coco2(s) EXCEPT !.vdg.vram_offset = vdg_base(s.sam)])
           r == AfterWrite2(c, addr, val)
           mirror == addr \in 65312 .. 65343 /\ addr % 4 >= 2
           Still(d) == d.scanline = c.scanline /\ (VdgFollows(c) => VdgFollows(d))
<1>1. r = CASE where[1] = "pia0" -> w0 [] where[1] = "pia1" -> w1 [] where[1] = "orch90" -> o
            [] where[1] = "sam" -> m [] OTHER -> c
  BY DEF AfterWrite2
<1>2. /\ where[1] \in {"pia0", "pia1"} => reg \in 0 .. 3
      /\ where[1] = "pia1" => addr \in 65312 .. 65343 /\ reg = addr % 4
      /\ where[1] = "sam" => addr \in 65472 .. 65503
  BY Lands2
<1>3. DOMAIN c = MachineFields /\ SamePicture(c, c) /\ Still(c)
  BY DEF Board, SamePicture
<1> HIDE DEF where, reg
<1>4. \A d : SamePicture(c, d) /\ d.scanline = c.scanline => Still(d)
  BY PictureKept
<1>5. reg \in 0 .. 3 => SamePicture(c, w0) /\ Still(w0)
  <2>1. reg \in 0 .. 3 => Touches(c, w0, {"pia0", "irq", "sound"})
    BY Pia0Step2
  <2> HIDE DEF w0
  <2>2. reg \in 0 .. 3 => SamePicture(c, w0) /\ w0.scanline = c.scanline
    BY <1>3, <2>1 DEF Touches, MachineFields, SamePicture
  <2> QED
    BY <1>4, <2>2
<1>6. reg \in 0 .. 3 => Still(w1) /\ (reg < 2 => SamePicture(c, w1))
  <2>1. reg \in 0 .. 3 => /\ Touches(c, w1, {"pia1", "firq", "vdg", "sound"}) /\ (reg < 2 => w1.vdg = c.vdg)
                          /\ VdgFollows(c) => VdgFollows(w1)
    BY Pia1Step2
  <2> HIDE DEF w1
  <2>2. reg \in 0 .. 3 => w1.sam = c.sam /\ w1.scanline = c.scanline
    BY <1>3, <2>1 DEF Touches, MachineFields
  <2> QED
    BY <2>1, <2>2 DEF SamePicture
<1>7. Still(m)
  BY SamStep2
<1>8. SamePicture(c, o) /\ Still(o)
  <2>1. Touches(c, o, {"sound", "orch90"})
    BY Orch90Step
  <2> HIDE DEF o
  <2>2. SamePicture(c, o) /\ o.scanline = c.scanline
    BY <1>3, <2>1 DEF Touches, MachineFields, SamePicture
  <2> QED
    BY <1>4, <2>2
<1> HIDE DEF w0, w1, w, m, o, s, r, Still
<1>9. Still(r)
  BY <1>1, <1>2, <1>3, <1>5, <1>6, <1>7, <1>8
<1>10. SamePicture(c, r) \/ addr \in 65472 .. 65503 \/ mirror
  <2>1. CASE where[1] = "pia1"
    <3>1. r = w1 /\ reg \in 0 .. 3 /\ reg = addr % 4 /\ addr \in 65312 .. 65343
      BY <1>1, <1>2, <2>1
    <3>2. reg < 2 \/ addr % 4 >= 2
      BY <3>1
    <3> QED
      BY <1>6, <3>1, <3>2
  <2>2. CASE where[1] = "sam"
    BY <1>2, <2>2
  <2>3. CASE where[1] \notin {"pia1", "sam"}
    BY <1>1, <1>2, <1>3, <1>5, <1>8, <2>3
  <2> QED
    BY <2>1, <2>2, <2>3
<1> QED
  BY <1>9, <1>10 DEF Still, r, mirror

\* A line without its field syncs: what each of its parts touches.
LEMMA PartsOfLine ==
  ASSUME NEW c, DOMAIN c = MachineFields
  PROVE  /\ Touches(c, AciaLine(c), {"firq"})
         /\ LET d == ActiveLine(c)
            IN /\ Touches(c, d, {"sam", "vdg"}) /\ SameMode(c, d)
               /\ d.sam = sam6883_vdg_fetch_bytes(c.sam, BytesTaken(c))
               /\ DOMAIN c.vdg = VdgFields => d.vdg.row_address = c.sam.vdg_address
         /\ \A t : LET d == [c EXCEPT !.sam = t] IN Touches(c, d, {"sam"}) /\ d.sam = t
         /\ \A n : LET d == [c EXCEPT !.scanline = n] IN Touches(c, d, {"scanline"}) /\ d.scanline = n
<1>1. Touches(c, AciaLine(c), {"firq"})
  <2> DEFINE line == AnyIrq(c.pia1) \/ c.acia_irq
             h == [c EXCEPT !.firq = line]
             a == AciaLine(c)
  <2>1. a = IF "acia" \in c.fitted THEN h ELSE c
    BY DEF AciaLine
  <2> HIDE DEF a, line
  <2>2. Touches(c, h, {"firq"}) /\ Touches(c, c, {"firq"})
    BY DEF Touches, MachineFields
  <2> HIDE DEF h
  <2>3. Touches(c, a, {"firq"})
    BY <2>1, <2>2
  <2> QED
    BY <2>3 DEF a
<1>2. LET d == ActiveLine(c)
      IN /\ Touches(c, d, {"sam", "vdg"}) /\ SameMode(c, d)
         /\ d.sam = sam6883_vdg_fetch_bytes(c.sam, BytesTaken(c))
         /\ DOMAIN c.vdg = VdgFields => d.vdg.row_address = c.sam.vdg_address
  <2> DEFINE t == sam6883_vdg_fetch_bytes(c.sam, BytesTaken(c))
             from == c.sam.vdg_address
             v == [c.vdg EXCEPT !.row_address = from]
             d == [c EXCEPT !.vdg = v, !.sam = t]
  <2>1. ActiveLine(c) = d
    BY DEF ActiveLine, BytesTaken
  <2> HIDE DEF t, from
  <2>2. DOMAIN c.vdg = VdgFields =>
          /\ DOMAIN v = VdgFields /\ v.AG = c.vdg.AG /\ v.GM = c.vdg.GM /\ v.vram_offset = c.vdg.vram_offset
          /\ v.row_address = from
    BY DEF VdgFields
  <2> HIDE DEF v
  <2>3. Touches(c, d, {"sam", "vdg"}) /\ d.sam = t /\ d.vdg = v
    BY DEF Touches, MachineFields
  <2> HIDE DEF d
  <2>4. SameMode(c, d)
    BY <2>2, <2>3 DEF SameMode
  <2> QED
    BY <2>1, <2>2, <2>3, <2>4 DEF t, from
<1>3. /\ \A t : LET d == [c EXCEPT !.sam = t] IN Touches(c, d, {"sam"}) /\ d.sam = t
      /\ \A n : LET d == [c EXCEPT !.scanline = n] IN Touches(c, d, {"scanline"}) /\ d.scanline = n
  BY DEF Touches, MachineFields
<1> QED
  BY <1>1, <1>2, <1>3

\* What a line makes of the picture: b is the machine once the field sync is
\* seen to.
LEMMA Scanline2Picture ==
  ASSUME NEW c, Board(c), c.scanline \in 0 .. BETWEEN
  PROVE  \E b : LET r == machine_run_scanline_coco2(c)
                IN /\ b.sam = IF c.scanline = 0 THEN sam6883_vdg_fsync(c.sam) ELSE c.sam
                   /\ SameMode(c, b) /\ SameMode(c, r) /\ r.scanline = c.scanline + 1
                   /\ r.sam.reg = c.sam.reg /\ b.sam.reg = c.sam.reg /\ DOMAIN b.sam = SamFields
                   /\ c.scanline < ACTIVE_SCANLINES =>
                        /\ r.sam = sam6883_vdg_hsync(sam6883_vdg_fetch_bytes(b.sam, BytesTaken(b)))
                        /\ DOMAIN c.vdg = VdgFields => r.vdg.row_address = b.sam.vdg_address
<1> DEFINE a == AciaLine(c)
           b == IF c.scanline = 0 THEN FieldStart(a) ELSE a
           d == IF c.scanline < ACTIVE_SCANLINES THEN ActiveLine(b) ELSE b
           t == sam6883_vdg_hsync(d.sam)
           e == [d EXCEPT !.sam = t]
           f == IF c.scanline = ACTIVE_SCANLINES THEN FieldEnd(e) ELSE e
           next == f.scanline + 1
           r == [f EXCEPT !.scanline = next]
<1>1. machine_run_scanline_coco2(c) = r
  BY DEF machine_run_scanline_coco2
<1>2. DOMAIN c = MachineFields /\ DOMAIN c.sam = SamFields
  BY SamFieldsAre DEF Board
<1>3. \A x : SameMode(x, x)
  BY DEF SameMode
<1>4. \A x, y, z : SameMode(x, y) /\ SameMode(y, z) => SameMode(x, z)
  BY DEF SameMode
<1>5. \A x, y : y.vdg = x.vdg => SameMode(x, y)
  BY DEF SameMode
<1>6. Board(a) /\ a.sam = c.sam /\ a.vdg = c.vdg /\ a.scanline = c.scanline
  <2>1. Touches(c, a, {"firq"})
    BY <1>2, PartsOfLine
  <2> HIDE DEF a
  <2>2. /\ a.sam = c.sam /\ a.vdg = c.vdg /\ a.scanline = c.scanline /\ a.sound = c.sound /\ a.pia0 = c.pia0
        /\ a.pia1 = c.pia1 /\ a.ram_pages = c.ram_pages /\ DOMAIN a = MachineFields
    BY <1>2, <2>1 DEF Touches, MachineFields
  <2> QED
    BY <2>2 DEF Board
<1> HIDE DEF a
<1>7. Board(b) /\ SameMode(c, b) /\ b.sam = IF c.scanline = 0 THEN sam6883_vdg_fsync(c.sam) ELSE c.sam
  <2>1. /\ Line2(a, FieldStart(a)) /\ FieldStart(a).sam = sam6883_vdg_fsync(a.sam)
        /\ SameMode(a, FieldStart(a))
    BY <1>6, FieldLines
  <2>2. Board(FieldStart(a))
    BY <1>6, <2>1, Line2Keeps
  <2>3. SameMode(c, a)
    BY <1>5, <1>6
  <2> QED
    BY <1>4, <1>6, <2>1, <2>2, <2>3
<1>8. b.scanline = c.scanline
  <2>1. FieldStart(a).scanline = a.scanline
    <3> DEFINE up == Transition(a, "pia0", "b", TRUE)
               u == sam6883_vdg_fsync(up.sam)
               v == [up.vdg EXCEPT !.fs = FALSE]
               g == [up EXCEPT !.sam = u, !.vdg = v]
    <3>1. FieldStart(a) = g
      BY DEF FieldStart
    <3>2. Line2(a, up) /\ SameField(a, up)
      BY <1>6, TransitionLine
    <3> HIDE DEF up, u, v
    <3>3. DOMAIN up = MachineFields
      BY <3>2 DEF Line2, Quiet
    <3>4. g.scanline = up.scanline
      BY <3>3 DEF MachineFields
    <3> QED
      BY <3>1, <3>2, <3>4 DEF SameField
  <2> QED
    BY <1>6, <2>1
<1> HIDE DEF b
<1>9. DOMAIN b = MachineFields
  BY <1>7 DEF Board
<1>10. /\ Board(d) /\ SameMode(c, d) /\ d.scanline = c.scanline
       /\ c.scanline < ACTIVE_SCANLINES =>
            /\ d.sam = sam6883_vdg_fetch_bytes(b.sam, BytesTaken(b))
            /\ DOMAIN c.vdg = VdgFields => d.vdg.row_address = b.sam.vdg_address
  <2> DEFINE g == ActiveLine(b)
  <2>1. /\ Touches(b, g, {"sam", "vdg"}) /\ SameMode(b, g)
        /\ g.sam = sam6883_vdg_fetch_bytes(b.sam, BytesTaken(b))
        /\ DOMAIN b.vdg = VdgFields => g.vdg.row_address = b.sam.vdg_address
    BY <1>9, PartsOfLine
  <2>2. Board(g)
    BY <1>7, ActiveLine2, Line2Keeps
  <2> HIDE DEF g
  <2>3. g.scanline = b.scanline
    BY <1>9, <2>1 DEF Touches, MachineFields
  <2>4. SameMode(c, g) /\ (DOMAIN c.vdg = VdgFields => DOMAIN b.vdg = VdgFields)
    BY <1>4, <1>7, <2>1 DEF SameMode
  <2> QED
    BY <1>7, <1>8, <2>1, <2>2, <2>3, <2>4 DEF g
<1> HIDE DEF d
<1>11. Board(e) /\ e.sam = sam6883_vdg_hsync(d.sam) /\ e.vdg = d.vdg /\ e.scanline = c.scanline
  <2>1. DOMAIN d = MachineFields
    BY <1>10 DEF Board
  <2>2. SamStep(d.sam, t)
    BY HsyncStep
  <2>3. t = sam6883_vdg_hsync(d.sam)
    OBVIOUS
  <2> HIDE DEF t
  <2>4. Line2(d, e)
    BY <1>10, <2>2, Line2Fields
  <2>5. Touches(d, e, {"sam"}) /\ e.sam = t
    BY <2>1, PartsOfLine
  <2> HIDE DEF e
  <2>6. Board(e)
    BY <1>10, <2>4, Line2Keeps
  <2>7. e.vdg = d.vdg /\ e.scanline = d.scanline
    BY <2>1, <2>5 DEF Touches, MachineFields
  <2> QED
    BY <1>10, <2>3, <2>5, <2>6, <2>7
<1> HIDE DEF e
<1>12. /\ Board(f) /\ SameMode(c, f) /\ f.sam = e.sam /\ f.scanline = c.scanline
       /\ c.scanline < ACTIVE_SCANLINES => f = e
  <2> DEFINE g == FieldEnd(e)
  <2>1. Line2(e, g) /\ g.sam = e.sam /\ SameMode(e, g)
    BY <1>11, FieldLines
  <2>2. Board(g)
    BY <1>11, <2>1, Line2Keeps
  <2>3. g.scanline = e.scanline
    <3> DEFINE down == Transition(e, "pia0", "b", FALSE)
               w == [down.vdg EXCEPT !.fs = TRUE]
               h == [down EXCEPT !.vdg = w]
    <3>1. g = h
      BY DEF FieldEnd
    <3>2. Line2(e, down) /\ SameField(e, down)
      BY <1>11, TransitionLine
    <3> HIDE DEF g, down, w
    <3>3. DOMAIN down = MachineFields
      BY <3>2 DEF Line2, Quiet
    <3>4. h.scanline = down.scanline
      BY <3>3 DEF MachineFields
    <3> QED
      BY <3>1, <3>2, <3>4 DEF SameField
  <2>4. SameMode(c, e)
    BY <1>4, <1>5, <1>10, <1>11
  <2> HIDE DEF g
  <2>5. SameMode(c, g)
    BY <1>4, <2>1, <2>4
  <2>6. f = IF c.scanline = ACTIVE_SCANLINES THEN g ELSE e
    BY DEF g
  <2> HIDE DEF f
  <2> QED
    BY <1>11, <2>1, <2>2, <2>3, <2>4, <2>5, <2>6 DEF ACTIVE_SCANLINES, BETWEEN, SCANLINES_PER_FRAME
<1> HIDE DEF f
<1>13. Touches(f, r, {"scanline"}) /\ r.scanline = next /\ next = c.scanline + 1
  BY <1>12, PartsOfLine DEF Board
<1> HIDE DEF next
<1>14. r.sam = f.sam /\ r.vdg = f.vdg
  BY <1>12, <1>13 DEF Touches, MachineFields, Board
<1> HIDE DEF r
<1>15. SameMode(c, r)
  BY <1>4, <1>5, <1>12, <1>14
<1>16. DOMAIN b.sam = SamFields /\ b.sam.reg = c.sam.reg
  BY <1>2, <1>7, FsyncStep DEF SamStep
<1>17. r.sam.reg = c.sam.reg
  <2>1. Line2(c, machine_run_scanline_coco2(c))
    BY Scanline2
  <2> QED
    BY <1>1, <1>2, <2>1 DEF Line2, SamStep
<1>18. c.scanline < ACTIVE_SCANLINES =>
         /\ r.sam = sam6883_vdg_hsync(sam6883_vdg_fetch_bytes(b.sam, BytesTaken(b)))
         /\ DOMAIN c.vdg = VdgFields => r.vdg.row_address = b.sam.vdg_address
  BY <1>10, <1>11, <1>12, <1>14
<1> QED
  BY <1>1, <1>7, <1>13, <1>15, <1>16, <1>17, <1>18

\* The field sync's edges reach the interrupt line in every field.
LEMMA FieldIrq ==
  ASSUME NEW c, Board(c), 0 \in c.pia0.b.ctrl,
         c.scanline = IF 1 \in c.pia0.b.ctrl THEN 0 ELSE ACTIVE_SCANLINES
  PROVE  machine_run_scanline_coco2(c).irq
<1> DEFINE a == AciaLine(c)
           b == IF c.scanline = 0 THEN FieldStart(a) ELSE a
           d == IF c.scanline < ACTIVE_SCANLINES THEN ActiveLine(b) ELSE b
           t == sam6883_vdg_hsync(d.sam)
           e == [d EXCEPT !.sam = t]
           f == IF c.scanline = ACTIVE_SCANLINES THEN FieldEnd(e) ELSE e
           next == f.scanline + 1
           r == [f EXCEPT !.scanline = next]
<1>1. machine_run_scanline_coco2(c) = r
  BY DEF machine_run_scanline_coco2
<1>2. DOMAIN c = MachineFields /\ PiaShape(c.pia0)
  BY DEF Board, Heard
<1>3. ASSUME NEW m, DOMAIN m = MachineFields, m.pia0 = c.pia0
      PROVE  /\ 1 \in c.pia0.b.ctrl => FieldStart(m).irq /\ DOMAIN FieldStart(m) = MachineFields
             /\ 1 \notin c.pia0.b.ctrl => FieldEnd(m).irq /\ DOMAIN FieldEnd(m) = MachineFields
  <2>1. ASSUME NEW rising \in BOOLEAN, EdgeMatches(m.pia0, "b", rising)
        PROVE  Transition(m, "pia0", "b", rising).irq /\ DOMAIN Transition(m, "pia0", "b", rising) = MachineFields
    <3> DEFINE flags == m.pia0["b"].ctrl \cup {7}
               p == [m.pia0 EXCEPT !["b"].ctrl = flags]
               n == pia_irq(p["b"].ctrl)
               u == [m EXCEPT !.pia0 = p, !.irq = n]
    <3>1. Transition(m, "pia0", "b", rising) = u
      BY <2>1 DEF Transition, Assign, c1_transition
    <3>2. {7, 0} \subseteq flags
      BY <1>3
    <3> HIDE DEF flags
    <3>3. p["b"].ctrl = flags
      BY <1>2, <1>3 DEF PiaShape
    <3>4. n
      BY <3>2, <3>3 DEF pia_irq
    <3> HIDE DEF p, n
    <3>5. u.irq = n /\ DOMAIN u = MachineFields
      BY <1>3 DEF MachineFields
    <3> QED
      BY <3>1, <3>4, <3>5
  <2> DEFINE up == Transition(m, "pia0", "b", TRUE)
             down == Transition(m, "pia0", "b", FALSE)
  <2>2. 1 \in c.pia0.b.ctrl => up.irq /\ DOMAIN up = MachineFields
    BY <1>3, <2>1 DEF EdgeMatches
  <2>3. 1 \notin c.pia0.b.ctrl => down.irq /\ DOMAIN down = MachineFields
    <3>1. 1 \notin c.pia0.b.ctrl => EdgeMatches(m.pia0, "b", FALSE)
      BY <1>3 DEF EdgeMatches
    <3> HIDE DEF EdgeMatches
    <3> QED
      BY <2>1, <3>1
  <2> DEFINE s == sam6883_vdg_fsync(up.sam)
             v == [up.vdg EXCEPT !.fs = FALSE]
             w == [down.vdg EXCEPT !.fs = TRUE]
  <2>4. FieldStart(m) = [up EXCEPT !.sam = s, !.vdg = v] /\ FieldEnd(m) = [down EXCEPT !.vdg = w]
    BY DEF FieldStart, FieldEnd
  <2> HIDE DEF up, down, s, v, w
  <2>5. 1 \in c.pia0.b.ctrl => FieldStart(m).irq /\ DOMAIN FieldStart(m) = MachineFields
    BY <2>2, <2>4 DEF MachineFields
  <2>6. 1 \notin c.pia0.b.ctrl => FieldEnd(m).irq /\ DOMAIN FieldEnd(m) = MachineFields
    BY <2>3, <2>4 DEF MachineFields
  <2> QED
    BY <2>5, <2>6
<1>4. Touches(c, a, {"firq"})
  BY <1>2, PartsOfLine
<1> HIDE DEF a
<1>5. DOMAIN a = MachineFields /\ a.pia0 = c.pia0
  BY <1>2, <1>4 DEF Touches, MachineFields
<1>6. \A m, s : DOMAIN m = MachineFields =>
        LET n == [m EXCEPT !.sam = s] IN DOMAIN n = MachineFields /\ n.irq = m.irq /\ n.pia0 = m.pia0
  BY DEF MachineFields
<1>7. \A m, s : DOMAIN m = MachineFields => [m EXCEPT !.scanline = s].irq = m.irq
  BY DEF MachineFields
<1>8. CASE 1 \in c.pia0.b.ctrl
  <2>1. c.scanline = 0 /\ c.scanline < ACTIVE_SCANLINES /\ c.scanline # ACTIVE_SCANLINES
    BY <1>8 DEF ACTIVE_SCANLINES
  <2>2. b.irq /\ DOMAIN b = MachineFields
    BY <1>3, <1>5, <1>8, <2>1
  <2>3. d = ActiveLine(b)
    BY <2>1
  <2> HIDE DEF b, d
  <2>4. Touches(b, d, {"sam", "vdg"})
    BY <2>2, <2>3, PartsOfLine
  <2>5. d.irq /\ DOMAIN d = MachineFields
    BY <2>2, <2>4 DEF Touches, MachineFields
  <2> HIDE DEF t
  <2>6. e.irq /\ DOMAIN e = MachineFields
    BY <1>6, <2>5
  <2> HIDE DEF e
  <2>7. f = e
    BY <2>1
  <2> HIDE DEF f, next
  <2>8. r.irq
    BY <1>7, <2>6, <2>7
  <2> QED
    BY <1>1, <2>8
<1>9. CASE 1 \notin c.pia0.b.ctrl
  <2>1. c.scanline # 0 /\ ~(c.scanline < ACTIVE_SCANLINES) /\ c.scanline = ACTIVE_SCANLINES
    BY <1>9 DEF ACTIVE_SCANLINES
  <2>2. d = a
    BY <2>1
  <2> HIDE DEF d, t
  <2>3. DOMAIN e = MachineFields /\ e.pia0 = c.pia0
    BY <1>5, <1>6, <2>2
  <2> HIDE DEF e
  <2>4. f.irq /\ DOMAIN f = MachineFields
    BY <1>3, <1>9, <2>1, <2>3
  <2> HIDE DEF f, next
  <2>5. r.irq
    BY <1>7, <2>4
  <2> QED
    BY <1>1, <2>5
<1> QED
  BY <1>8, <1>9

-----------------------------------------------------------------------------
(* FieldIInv, action by action.                                             *)

\* FieldIInv over a machine m, a scene s and a history h.
FieldInv(m, s, h) ==
  s.kind # "coco3" =>
    /\ m.scanline \in 0 .. BETWEEN /\ VdgFollows(m)
    /\ h.steady /\ Matched(m) /\ m.scanline \in 1 .. ACTIVE_SCANLINES - 1 => Walked(m, m.scanline)

\* It is that, in this state and the next.
LEMMA FieldIs ==
  /\ FieldIInv <=> FieldInv(mach, scene, hist)
  /\ FieldIInv' <=> FieldInv(mach', scene', hist')
  BY DEF FieldIInv, FieldInv, IsCoco3

\* A step within a line
LEMMA FieldStep ==
  ASSUME NEW m, NEW n, NEW s, NEW h, NEW k, FieldInv(m, s, h),
         s.kind # "coco3" =>
           /\ n.scanline = m.scanline /\ (VdgFollows(m) => VdgFollows(n))
           /\ k.steady => h.steady /\ SamePicture(m, n)
  PROVE  FieldInv(n, s, k)
<1> SUFFICES ASSUME s.kind # "coco3" PROVE FieldInv(n, s, k)
  BY DEF FieldInv
<1>1. n.scanline \in 0 .. BETWEEN /\ VdgFollows(n)
  BY DEF FieldInv
<1>2. ASSUME k.steady, Matched(n), n.scanline \in 1 .. ACTIVE_SCANLINES - 1 PROVE Walked(n, n.scanline)
  <2>1. SamePicture(m, n) /\ h.steady /\ n.scanline = m.scanline
    BY <1>2
  <2>2. Matched(m) /\ (Walked(m, m.scanline) => Walked(n, m.scanline))
    BY <1>2, <2>1, PictureKept
  <2> QED
    BY <1>2, <2>1, <2>2 DEF FieldInv
<1> QED
  BY <1>1, <1>2 DEF FieldInv

\* The writes of the setup come before the first frame.
LEMMA SetUpField == ASSUME MachineIInv, FrameIInv, FieldIInv, SetUp PROVE FieldIInv'
<1> DEFINE i == hist.setup + 1
           addr == scene.setup[i][1]
           val == scene.setup[i][2]
           r == AfterWrite2(mach, addr, val)
<1>1. BoardInv(mach, scene, hist) /\ FrameInv(mach, scene, hist) /\ FieldInv(mach, scene, hist)
  BY InvIs, FrameIs, FieldIs
<1>2. ~hist.steady
  BY <1>1 DEF FrameInv, SetUp, Ready
<1>3. i \in 1 .. Len(scene.setup)
  BY <1>1, SceneTypes DEF SetUp, Ready, BoardInv
<1>4. addr \in Address
  BY <1>1, <1>3, SceneTypes DEF BoardInv
<1>5. /\ scene' = scene /\ hist' = [hist EXCEPT !.setup = @ + 1, !.armed = FALSE]
      /\ scene.kind # "coco3" => mach' = r
  BY DEF SetUp, machine_write, IsCoco3
<1> HIDE DEF addr, val
<1>6. ~hist'.steady
  BY <1>1, <1>2, <1>5, BoardIs DEF HistFields
<1>7. ASSUME scene.kind # "coco3" PROVE r.scanline = mach.scanline /\ (VdgFollows(mach) => VdgFollows(r))
  BY <1>1, <1>4, <1>7, Write2Picture DEF BoardInv, Fit
<1> HIDE DEF r
<1>8. scene.kind # "coco3" =>
        /\ mach'.scanline = mach.scanline /\ (VdgFollows(mach) => VdgFollows(mach'))
        /\ hist'.steady => hist.steady /\ SamePicture(mach, mach')
  BY <1>5, <1>6, <1>7
<1>9. FieldInv(mach', scene, hist')
  BY <1>1, <1>8, FieldStep
<1> QED
  BY <1>5, <1>9, FieldIs

\* A write by the CPU
LEMMA CpuWriteField ==
  ASSUME MachineIInv, FieldIInv, NEW w \in scene.writes, CpuWrite(w[1], w[2])
  PROVE  FieldIInv'
<1> DEFINE addr == w[1]
           val == w[2]
           r == AfterWrite2(mach, addr, val)
           touched == addr \in 65472 .. 65503 \/ (addr \in 65312 .. 65343 /\ addr % 4 >= 2)
<1>1. BoardInv(mach, scene, hist) /\ FieldInv(mach, scene, hist)
  BY InvIs, FieldIs
<1>2. addr \in Address
  BY <1>1, SceneTypes DEF BoardInv
<1>3. scene' = scene /\ hist' = Noted(addr, val) /\ (scene.kind # "coco3" => mach' = r)
  BY DEF CpuWrite, machine_write, IsCoco3
<1> HIDE DEF addr, val
<1>4. hist'.steady => hist.steady /\ addr \notin VideoRegs
  BY <1>1, <1>3, BoardIs, NotedSteady
<1>5. ASSUME scene.kind # "coco3"
      PROVE  /\ r.scanline = mach.scanline /\ (VdgFollows(mach) => VdgFollows(r))
             /\ SamePicture(mach, r) \/ touched
  BY <1>1, <1>2, <1>5, Write2Picture DEF BoardInv, Fit
<1>6. scene.kind # "coco3" /\ addr \notin VideoRegs => ~touched
  BY DEF VideoRegs, Mirrors, IsCoco3
<1> HIDE DEF r, touched
<1>7. FieldInv(mach', scene, hist')
  BY <1>1, <1>3, <1>4, <1>5, <1>6, FieldStep
<1> QED
  BY <1>3, <1>7, FieldIs

\* A read by the CPU
LEMMA CpuReadField ==
  ASSUME MachineIInv, FieldIInv, NEW addr \in scene.reads, CpuRead(addr)
  PROVE  FieldIInv'
<1> DEFINE r == AfterRead2(mach, addr, keys)
<1>1. BoardInv(mach, scene, hist) /\ FieldInv(mach, scene, hist)
  BY InvIs, FieldIs
<1>2. addr \in Address
  BY <1>1, SceneTypes DEF BoardInv
<1>3. scene' = scene /\ hist' = [hist EXCEPT !.accesses = @ + 1] /\ (scene.kind # "coco3" => mach' = r)
  BY DEF CpuRead, machine_read, IsCoco3
<1>4. hist'.steady = hist.steady
  BY <1>1, <1>3, BoardIs, CountedFrame
<1>5. SameField(mach, r)
  BY <1>1, <1>2, Read2 DEF BoardInv, Fit
<1> HIDE DEF r
<1>6. r.scanline = mach.scanline /\ SamePicture(mach, r) /\ (VdgFollows(mach) => VdgFollows(r))
  BY <1>5, PictureKept DEF SameField
<1>7. scene.kind # "coco3" =>
        /\ mach'.scanline = mach.scanline /\ (VdgFollows(mach) => VdgFollows(mach'))
        /\ hist'.steady => hist.steady /\ SamePicture(mach, mach')
  BY <1>3, <1>4, <1>6
<1>8. FieldInv(mach', scene, hist')
  BY <1>1, <1>7, FieldStep
<1> QED
  BY <1>3, <1>8, FieldIs

\* What happens beside the bus, or nothing at all
LEMMA BesideField ==
  ASSUME MachineIInv, FieldIInv,
         \/ TakeInterrupt \/ Rti \/ AciaIrq \/ SscSample \/ ChangeMixer \/ (\E k \in scene.keys : Press(k))
         \/ Over \/ UNCHANGED mvars
  PROVE  FieldIInv'
<1>1. BoardInv(mach, scene, hist) /\ FieldInv(mach, scene, hist)
  BY InvIs, FieldIs
<1>2. /\ scene' = scene /\ mach'.scanline = mach.scanline /\ SamePicture(mach, mach')
      /\ hist' = hist \/ hist' = [hist EXCEPT !.accesses = @ + 1]
  BY <1>1, BoardIs, BesideBus
<1>3. hist'.steady = hist.steady
  BY <1>1, <1>2, BoardIs, CountedFrame
<1>4. VdgFollows(mach) => VdgFollows(mach')
  BY <1>2, PictureKept
<1>5. FieldInv(mach', scene, hist')
  BY <1>1, <1>2, <1>3, <1>4, FieldStep
<1> QED
  BY <1>2, <1>5, FieldIs

\* A line of a matched picture shows its row, and walks on to the next.
LEMMA FieldWalked ==
  ASSUME NEW c, Board(c), VdgFollows(c), Matched(c), c.scanline \in 0 .. ACTIVE_SCANLINES - 1,
         c.scanline # 0 => Walked(c, c.scanline), NEW r, r = machine_run_scanline_coco2(c)
  PROVE  /\ Walked(r, c.scanline + 1)
         /\ r.vdg.row_address = RowAt(vdg_base(c.sam), RowBytes(c), c.scanline \div RowLines(c))
<1> DEFINE l == c.scanline
<1>1. DOMAIN c.vdg = VdgFields /\ c.vdg.GM \in 0 .. 7 /\ DOMAIN c.sam = SamFields
  <2>1. DOMAIN mc6847_reset = VdgFields
    BY DEF mc6847_reset, VdgFields
  <2> QED
    BY <2>1, SamFieldsAre DEF VdgFollows, Board
<1>2. l \in Nat /\ l \in 0 .. BETWEEN /\ l < ACTIVE_SCANLINES
  BY DEF ACTIVE_SCANLINES, BETWEEN, SCANLINES_PER_FRAME
<1>3. PICK b : /\ b.sam = IF l = 0 THEN sam6883_vdg_fsync(c.sam) ELSE c.sam
               /\ SameMode(c, b) /\ SameMode(c, r)
               /\ r.sam.reg = c.sam.reg /\ b.sam.reg = c.sam.reg /\ DOMAIN b.sam = SamFields
               /\ r.sam = sam6883_vdg_hsync(sam6883_vdg_fetch_bytes(b.sam, BytesTaken(b)))
               /\ r.vdg.row_address = b.sam.vdg_address
  BY <1>1, <1>2, Scanline2Picture
<1>4. SameSettings(c, b) /\ SameSettings(b, r)
  BY <1>1, <1>3 DEF SameMode, SameSettings
<1>5. /\ vdg_base(b.sam) = vdg_base(c.sam) /\ RowBytes(b) = RowBytes(c) /\ RowLines(b) = RowLines(c)
      /\ Matched(b) /\ b.vdg.GM \in 0 .. 7
  BY <1>1, <1>4, SameRows DEF SameSettings
<1>6. Walked(b, l)
  <2>1. CASE l = 0
    BY <1>1, <1>3, <1>5, <2>1, FieldBegun
  <2>2. CASE l # 0
    <3>1. b.sam = c.sam /\ Walked(c, l)
      BY <1>3, <2>2
    <3> QED
      BY <1>5, <3>1 DEF Walked
  <2> QED
    BY <2>1, <2>2
<1>7. Walked(r, l + 1)
  BY <1>2, <1>3, <1>4, <1>5, <1>6, LineWalked
<1>8. b.sam.vdg_address = RowAt(vdg_base(c.sam), RowBytes(c), l \div RowLines(c))
  BY <1>5, <1>6 DEF Walked, RowAt
<1> QED
  BY <1>3, <1>7, <1>8

\* A line keeps the settings.
LEMMA LineSettings ==
  ASSUME NEW c, Board(c), VdgFollows(c), c.scanline \in 0 .. BETWEEN, NEW r, r = machine_run_scanline_coco2(c)
  PROVE  VdgFollows(r) /\ SameSettings(c, r) /\ r.scanline = c.scanline + 1 /\ r.vdg.vram_offset = vdg_base(c.sam)
<1>1. DOMAIN mc6847_reset = VdgFields
  BY DEF mc6847_reset, VdgFields
<1>2. DOMAIN c.vdg = VdgFields /\ c.vdg.GM \in 0 .. 7 /\ c.vdg.vram_offset = vdg_base(c.sam)
  BY <1>1 DEF VdgFollows
<1>3. SameMode(c, r) /\ r.sam.reg = c.sam.reg /\ r.scanline = c.scanline + 1
  BY Scanline2Picture
<1>4. vdg_base(r.sam) = vdg_base(c.sam)
  BY <1>3 DEF vdg_base
<1> QED
  BY <1>1, <1>2, <1>3, <1>4 DEF VdgFollows, SameMode, SameSettings

\* A line (machine_run_scanline)
LEMMA ScanlineField == ASSUME MachineIInv, FieldIInv, Scanline PROVE FieldIInv'
<1> DEFINE c == mach
           r == machine_run_scanline_coco2(c)
           k2 == [hist EXCEPT !.lines = @ + 1]
<1>1. BoardInv(mach, scene, hist) /\ FieldInv(mach, scene, hist)
  BY InvIs, FieldIs
<1>2. scene' = scene
  BY DEF Scanline
<1>3. ASSUME scene.kind # "coco3" PROVE FieldInv(mach', scene, hist')
  <2>1. mach' = r /\ hist' = k2 /\ c.scanline < BETWEEN
    BY <1>3 DEF Scanline, machine_run_scanline, IsCoco3
  <2>2. Board(c) /\ VdgFollows(c) /\ c.scanline \in 0 .. BETWEEN /\ DOMAIN hist = HistFields
    BY <1>1, <1>3, BoardIs DEF BoardInv, Fit, FieldInv
  <2>3. k2.steady = hist.steady
    BY <2>2 DEF HistFields
  <2> HIDE DEF k2
  <2>4. VdgFollows(r) /\ SameSettings(c, r) /\ r.scanline = c.scanline + 1
    BY <2>2, LineSettings
  <2>5. r.scanline \in 0 .. BETWEEN
    BY <2>1, <2>2, <2>4 DEF BETWEEN, SCANLINES_PER_FRAME
  <2>6. ASSUME hist.steady, Matched(r), r.scanline \in 1 .. ACTIVE_SCANLINES - 1 PROVE Walked(r, r.scanline)
    <3>1. Matched(c)
      BY <2>4, <2>6, SameRows
    <3>2. c.scanline \in 0 .. ACTIVE_SCANLINES - 1 /\ (c.scanline # 0 => c.scanline \in 1 .. ACTIVE_SCANLINES - 1)
      BY <2>2, <2>4, <2>6 DEF ACTIVE_SCANLINES, BETWEEN, SCANLINES_PER_FRAME
    <3>3. c.scanline # 0 => Walked(c, c.scanline)
      BY <1>1, <1>3, <2>6, <3>1, <3>2 DEF FieldInv
    <3>4. r = machine_run_scanline_coco2(c)
      OBVIOUS
    <3> HIDE DEF c, r
    <3>5. Walked(r, c.scanline + 1)
      BY <2>2, <3>1, <3>2, <3>3, <3>4, FieldWalked
    <3> QED
      BY <2>4, <3>5
  <2> HIDE DEF r
  <2> QED
    BY <2>1, <2>3, <2>4, <2>5, <2>6 DEF FieldInv
<1>4. FieldInv(mach', scene, hist')
  BY <1>3 DEF FieldInv
<1> QED
  BY <1>2, <1>4, FieldIs

\* The start of a frame (machine_run_frame)
LEMMA StartFrameField == ASSUME MachineIInv, FieldIInv, StartFrame PROVE FieldIInv'
<1> DEFINE r == FrameStart2(mach)
<1>1. BoardInv(mach, scene, hist) /\ FieldInv(mach, scene, hist)
  BY InvIs, FieldIs
<1>2. scene' = scene /\ (scene.kind # "coco3" => mach' = r)
  BY DEF StartFrame, machine_run_frame, IsCoco3
<1>3. SamePicture(mach, r) /\ r.scanline = 0
  BY <1>1, Frame2 DEF BoardInv, Fit
<1> HIDE DEF r
<1>4. VdgFollows(mach) => VdgFollows(r)
  BY <1>3, PictureKept
<1>5. r.scanline \in 0 .. BETWEEN /\ r.scanline \notin 1 .. ACTIVE_SCANLINES - 1
  BY <1>3 DEF BETWEEN, SCANLINES_PER_FRAME
<1>6. FieldInv(mach', scene, hist')
  BY <1>1, <1>2, <1>4, <1>5 DEF FieldInv
<1> QED
  BY <1>2, <1>6, FieldIs

\* The SAM and the VDG after a reset
LEMMA ResetVdg ==
  ASSUME NEW c, DOMAIN c = MachineFields
  PROVE  VdgFollows(machine_reset_coco2(c)) /\ DOMAIN machine_reset_coco2(c) = MachineFields
<1> DEFINE p == mc6821_reset
           s == sound_reset(c.sound)
           t == sam6883_reset
           v == mc6847_reset
           d == [c EXCEPT !.pia0 = p, !.pia1 = p, !.sam = t, !.vdg = v, !.sound = s,
                          !.scanline = 0, !.irq = FALSE, !.firq = FALSE, !.masked = TRUE]
           r == update_fast_pages_coco2(d)
<1>1. machine_reset_coco2(c) = r
  BY DEF machine_reset_coco2
<1>2. vdg_base(t) = 0 /\ v.GM \in 0 .. 7 /\ v.vram_offset = 0
  <2>1. t.reg = {} /\ v.GM = 0 /\ v.vram_offset = 0
    BY DEF sam6883_reset, mc6847_reset
  <2>2. Field({}, 3, 7) = 0
    BY DEF Field
  <2> HIDE DEF t, v
  <2> QED
    BY <2>1, <2>2 DEF vdg_base
<1>3. DOMAIN v = DOMAIN mc6847_reset
  OBVIOUS
<1> HIDE DEF p, s, t, v
<1>4. DOMAIN d = MachineFields /\ d.sam = t /\ d.vdg = v
  BY DEF MachineFields
<1> HIDE DEF d
<1>5. Touches(d, r, {"rd_page", "wr_page"})
  BY <1>4, PagesSet2
<1> HIDE DEF r
<1>6. DOMAIN r = MachineFields /\ r.sam = t /\ r.vdg = v
  BY <1>4, <1>5 DEF Touches, MachineFields
<1>7. VdgFollows(r)
  BY <1>2, <1>3, <1>6 DEF VdgFollows
<1> QED
  BY <1>1, <1>6, <1>7

\* After machine_init
LEMMA InitField == ASSUME MachineInit PROVE FieldIInv
<1> DEFINE a == Allocated(scene)
           b == machine_init(scene)
           n == [b EXCEPT !.scanline = BETWEEN]
<1>1. mach = n /\ hist = NoHist
  BY DEF MachineInit
<1>2. ~hist.steady
  BY <1>1 DEF NoHist
<1>3. ASSUME scene.kind # "coco3" PROVE mach.scanline = BETWEEN /\ VdgFollows(mach)
  <2>1. DOMAIN a = MachineFields /\ b = machine_reset_coco2(a)
    BY <1>3, MachineFieldsAre DEF machine_init
  <2> HIDE DEF a, b
  <2>2. VdgFollows(b) /\ DOMAIN b = MachineFields
    BY <2>1, ResetVdg
  <2>3. n.scanline = BETWEEN /\ SamePicture(b, n)
    BY <2>2 DEF MachineFields, SamePicture
  <2> QED
    BY <1>1, <2>2, <2>3, PictureKept
<1>4. FieldInv(mach, scene, hist)
  BY <1>2, <1>3 DEF FieldInv, BETWEEN, SCANLINES_PER_FRAME
<1> QED
  BY <1>4, FieldIs

\* After a reset (machine_reset)
LEMMA ResetField == ASSUME MachineIInv, FieldIInv, Reset PROVE FieldIInv'
<1> DEFINE b == machine_reset_coco2(mach)
           a == [b EXCEPT !.acia_irq = FALSE]
           n == [a EXCEPT !.scanline = BETWEEN]
           k == [hist EXCEPT !.accesses = @ + 1, !.armed = FALSE, !.steady = FALSE, !.listening = FALSE]
<1>1. DOMAIN mach = MachineFields /\ DOMAIN hist = HistFields
  BY InvIs, BoardIs
<1>2. scene' = scene /\ hist' = k /\ (scene.kind # "coco3" => mach' = n)
  BY DEF Reset, machine_reset, IsCoco3
<1>3. k.steady = FALSE
  BY <1>1 DEF HistFields
<1> HIDE DEF k
<1>4. ~hist'.steady
  BY <1>2, <1>3
<1> HIDE DEF b
<1>5. VdgFollows(b) /\ DOMAIN b = MachineFields
  BY <1>1, ResetVdg DEF b
<1>6. SamePicture(b, a) /\ DOMAIN a = MachineFields
  BY <1>5 DEF MachineFields, SamePicture
<1> HIDE DEF a
<1>7. SamePicture(a, n) /\ n.scanline = BETWEEN
  BY <1>6 DEF MachineFields, SamePicture
<1> HIDE DEF n
<1>8. VdgFollows(n)
  BY <1>5, <1>6, <1>7, PictureKept
<1>9. FieldInv(mach', scene', hist')
  BY <1>2, <1>4, <1>7, <1>8 DEF FieldInv, BETWEEN, SCANLINES_PER_FRAME
<1> QED
  BY <1>9, FieldIs

\* FieldIInv is kept by every step, given MachineIInv and that no frame has begun
\* before the setup is over.
LEMMA FieldInvariant == MachineSpec => []FieldIInv
<1>1. MachineInit => FieldIInv
  BY InitField
<1>2. MachineIInv /\ FrameIInv /\ FieldIInv /\ [MachineNext]_mvars => FieldIInv'
  <2> SUFFICES ASSUME MachineIInv, FrameIInv, FieldIInv, [MachineNext]_mvars PROVE FieldIInv'
    OBVIOUS
  <2>1. CASE \E w \in scene.writes : CpuWrite(w[1], w[2])
    BY <2>1, CpuWriteField
  <2>2. CASE \E addr \in scene.reads : CpuRead(addr)
    BY <2>2, CpuReadField
  <2>3. CASE SetUp
    BY <2>3, SetUpField
  <2>4. CASE \/ TakeInterrupt \/ Rti \/ AciaIrq \/ SscSample \/ ChangeMixer \/ (\E k \in scene.keys : Press(k))
             \/ Over \/ UNCHANGED mvars
    BY <2>4, BesideField
  <2>5. CASE Scanline
    BY <2>5, ScanlineField
  <2>6. CASE StartFrame
    BY <2>6, StartFrameField
  <2>7. CASE Reset
    BY <2>7, ResetField
  <2> QED
    BY <2>1, <2>2, <2>3, <2>4, <2>5, <2>6, <2>7 DEF MachineNext
<1> QED
  BY <1>1, <1>2, MachineInvariant, FrameInvariant, PTL DEF MachineSpec

\* What a line shows, where the VDG took its row from the row's address.
RowTaken(c, r, l) ==
  /\ SameSettings(c, r) /\ VdgFollows(c) /\ r.vdg.vram_offset = vdg_base(c.sam) /\ r.vdg.row_address \in Int
  /\ r.vdg.row_address = RowAt(vdg_base(c.sam), RowBytes(c), l \div RowLines(c))
Shown(c, r, l, x) ==
  mc6847_render_scanline(r.vdg, l, x).addr =
    ((vdg_base(c.sam) + RowBytes(c) * (l \div RowLines(c))) % 65536) + (IF x = 0 THEN 0 ELSE RowBytes(c) - 1)
LEMMA RowShown ==
  ASSUME NEW c, NEW r, NEW l \in 0 .. 191, NEW x \in {0, 255}, RowTaken(c, r, l)
  PROVE  Shown(c, r, l, x)
<1> DEFINE v == r.vdg
<1>1. (v.AG = c.vdg.AG) /\ v.GM = c.vdg.GM /\ v.GM \in 0 .. 7
  BY DEF RowTaken, SameSettings, VdgFollows
<1>2. v.vram_offset = vdg_base(c.sam) /\ v.row_address \in Int
      /\ v.row_address = RowAt(vdg_base(c.sam), RowBytes(c), l \div RowLines(c))
  BY DEF RowTaken
<1> HIDE DEF v
<1>3. ASSUME ~v.AG
      PROVE  mc6847_render_scanline(v, l, x).addr
               = RowAt(vdg_base(c.sam), RowBytes(c), l \div RowLines(c)) + (IF x = 0 THEN 0 ELSE RowBytes(c) - 1)
  <2> DEFINE base == vdg_base(c.sam)
             q == l \div 12
  <2>1. PICK j \in 0 .. 127 : base = 512 * j
    BY BaseType
  <2>2. RowBytes(c) = 32 /\ RowLines(c) = 12
    BY <1>1, <1>3 DEF RowBytes, RowLines
  <2>3. mc6847_render_scanline(v, l, x).addr = base + 32 * q + x \div 8
    BY <1>2, <1>3 DEF mc6847_render_scanline, TextCell
  <2>4. q \in 0 .. 15 /\ x \div 8 = (IF x = 0 THEN 0 ELSE 31)
    OBVIOUS
  <2> HIDE DEF base, q
  <2>5. (base + 32 * q) % 65536 = base + 32 * q /\ base + 32 * q \in Nat
    BY <2>1, <2>4
  <2> QED
    BY <2>2, <2>3, <2>4, <2>5 DEF base, q, RowAt
<1>4. ASSUME v.AG
      PROVE  mc6847_render_scanline(v, l, x).addr = v.row_address + (IF x = 0 THEN 0 ELSE RowBytes(c) - 1)
  <2> DEFINE info == gfx_modes[v.GM + 1]
             pixel == x \div (256 \div info.width)
             perByte == 8 \div info.bpp
             off == pixel \div perByte
  <2>1. mc6847_render_scanline(v, l, x).addr = v.row_address + off
    BY <1>4 DEF mc6847_render_scanline, GraphicsCell
  <2>2. RowBytes(c) = info.bytes
    BY <1>1, <1>4 DEF RowBytes
  <2>3. \/ info.width = 64 /\ info.bytes = 16 /\ info.bpp = 2
        \/ info.width = 128 /\ info.bytes = 16 /\ info.bpp = 1
        \/ info.width = 128 /\ info.bytes = 32 /\ info.bpp = 2
        \/ info.width = 256 /\ info.bytes = 32 /\ info.bpp = 1
    <3> DEFINE g == v.GM
    <3>1. g \in 0 .. 7
      BY <1>1
    <3> HIDE DEF g
    <3>2. \A i \in 0 .. 7 : LET m == gfx_modes[i + 1] IN
             \/ m.width = 64 /\ m.bytes = 16 /\ m.bpp = 2
             \/ m.width = 128 /\ m.bytes = 16 /\ m.bpp = 1
             \/ m.width = 128 /\ m.bytes = 32 /\ m.bpp = 2
             \/ m.width = 256 /\ m.bytes = 32 /\ m.bpp = 1
      BY DEF gfx_modes
    <3> QED
      BY <3>1, <3>2 DEF g
  <2>4. off = (IF x = 0 THEN 0 ELSE info.bytes - 1)
    <3> HIDE DEF info
    <3>1. CASE info.width = 64 /\ info.bytes = 16 /\ info.bpp = 2
      BY <3>1
    <3>2. CASE info.width = 128 /\ info.bytes = 16 /\ info.bpp = 1
      BY <3>2
    <3>3. CASE info.width = 128 /\ info.bytes = 32 /\ info.bpp = 2
      BY <3>3
    <3>4. CASE info.width = 256 /\ info.bytes = 32 /\ info.bpp = 1
      BY <3>4
    <3> QED
      BY <2>3, <3>1, <3>2, <3>3, <3>4
  <2> HIDE DEF off, info
  <2> QED
    BY <2>1, <2>2, <2>4
<1> QED
  BY <1>2, <1>3, <1>4 DEF v, Shown, RowAt

\* A line of a matched picture shows its row.
LEMMA LineShown ==
  ASSUME NEW c, Board(c), VdgFollows(c), Matched(c), c.scanline \in 0 .. ACTIVE_SCANLINES - 1,
         c.scanline # 0 => Walked(c, c.scanline), NEW r, r = machine_run_scanline_coco2(c), NEW x \in {0, 255}
  PROVE  Shown(c, r, c.scanline, x)
<1> DEFINE l == c.scanline
           base == vdg_base(c.sam)
           bytes == RowBytes(c)
           R == RowLines(c)
<1>1. r.vdg.row_address = RowAt(base, bytes, l \div R)
  BY FieldWalked
<1>2. l \in 0 .. BETWEEN /\ l \in 0 .. 191
  BY DEF ACTIVE_SCANLINES, BETWEEN, SCANLINES_PER_FRAME
<1>3. SameSettings(c, r) /\ r.vdg.vram_offset = base
  BY <1>2, LineSettings
<1>4. PICK j \in 0 .. 127 : base = 512 * j
  BY BaseType
<1>5. R \in {1, 2, 3, 12} /\ bytes \in {16, 32}
  BY RowTables DEF VdgFollows, ByX, ByY
<1>6. RowAt(base, bytes, l \div R) \in Int
  <2> HIDE DEF base, bytes, R, l
  <2>1. l \div R \in Nat
    BY <1>2, <1>5
  <2> QED
    BY <1>4, <1>5, <2>1 DEF RowAt
<1>7. RowTaken(c, r, l)
  BY <1>1, <1>3, <1>6 DEF RowTaken
<1> HIDE DEF l
<1>8. Shown(c, r, l, x)
  BY <1>2, <1>7, RowShown
<1> QED
  BY <1>8 DEF l

\* A CoCo 2 frame whose SAM and VDG are left alone shows video memory row by row
\* from the display base, from the left edge of the screen to the right, and the
\* field sync raises its interrupt in every frame, though either side of a PIA
\* assigns the line they share (sam6883_vdg_fetch_bytes, sam6883_vdg_hsync,
\* mc6847_render_scanline, mc6821_set_cb1).
THEOREM FieldsKeepShape == MachineSpec => FieldShape
<1> DEFINE A == Scanline /\ ~IsCoco3 =>
       /\ hist.steady /\ Matched(mach) /\ mach.scanline < ACTIVE_SCANLINES =>
            \A x \in {0, 255} :
              mc6847_render_scanline(mach'.vdg, mach.scanline, x).addr =
                ((vdg_base(mach.sam) + RowBytes(mach) * (mach.scanline \div RowLines(mach))) % 65536)
                + (IF x = 0 THEN 0 ELSE RowBytes(mach) - 1)
       /\ 0 \in mach.pia0.b.ctrl
          /\ mach.scanline = (IF 1 \in mach.pia0.b.ctrl THEN 0 ELSE ACTIVE_SCANLINES) => mach'.irq
<1>1. MachineIInv /\ FieldIInv => A
  <2> SUFFICES ASSUME MachineIInv, FieldIInv, Scanline, ~IsCoco3 PROVE A
    OBVIOUS
  <2> DEFINE c == mach
             r == machine_run_scanline_coco2(c)
  <2>1. /\ Board(c) /\ VdgFollows(c) /\ c.scanline \in 0 .. BETWEEN
        /\ hist.steady /\ Matched(c) /\ c.scanline \in 1 .. ACTIVE_SCANLINES - 1 => Walked(c, c.scanline)
    BY InvIs DEF BoardInv, Fit, FieldIInv
  <2>2. mach' = r
    BY DEF Scanline, machine_run_scanline
  <2>3. 0 \in c.pia0.b.ctrl /\ c.scanline = (IF 1 \in c.pia0.b.ctrl THEN 0 ELSE ACTIVE_SCANLINES) => r.irq
    BY <2>1, FieldIrq
  <2>4. ASSUME hist.steady, Matched(c), c.scanline < ACTIVE_SCANLINES, NEW x \in {0, 255}
        PROVE  Shown(c, r, c.scanline, x)
    <3>1. c.scanline \in 0 .. ACTIVE_SCANLINES - 1 /\ (c.scanline # 0 => c.scanline \in 1 .. ACTIVE_SCANLINES - 1)
      BY <2>1, <2>4 DEF ACTIVE_SCANLINES, BETWEEN, SCANLINES_PER_FRAME
    <3>2. c.scanline # 0 => Walked(c, c.scanline)
      BY <2>1, <2>4, <3>1
    <3>3. r = machine_run_scanline_coco2(c)
      OBVIOUS
    <3> HIDE DEF c, r
    <3> QED
      BY <2>1, <2>4, <3>1, <3>2, <3>3, LineShown
  <2> HIDE DEF r
  <2> QED
    BY <2>2, <2>3, <2>4 DEF Shown
<1>2. MachineIInv /\ FieldIInv => [A]_mvars
  BY <1>1
<1>3. MachineSpec => [][A]_mvars
  BY <1>2, MachineInvariant, FieldInvariant, PTL
<1> QED
  BY <1>3 DEF FieldShape

=============================================================================
