-------------------------------- MODULE Sound --------------------------------
(***************************************************************************)
(* The sound mixer (core/sound.cpp): the multiplexer, the 6-bit DAC, the     *)
(* single bit and the cartridge levels, mixed into one output level as MAME  *)
(* or as XRoar does.  A mixer s is a record; s.out is the level last given    *)
(* to the audio HAL, and the setters that the code makes skip the update     *)
(* leave it alone.                                                           *)
(***************************************************************************)
EXTENDS Integers

SOURCE_DAC == 0
SOURCE_SINGLE_BIT == 4
source_gain == << <<244, 154, 184>>, <<27, 22, 27>>, <<0, 0, 0>>, <<0, 0, 0>>, <<0, 0, 0>> >>
source_offset == << <<11, 10, 71>>, <<111, 87, 128>>, <<0, 0, 212>>, <<0, 0, 1>>, <<0, 0, 212>> >>
SSC_BIAS == 64
MAME_IDLE == 126
MAME_SINGLE_BIT == 252

Clipped(n) == IF n > 255 THEN 255 ELSE n

xroar_level(s) ==
  LET sindex == IF ~s.sbs_enabled THEN 1 ELSE IF s.sbs_level THEN 3 ELSE 2
      source == IF s.mux_enabled THEN s.mux_source ELSE SOURCE_SINGLE_BIT
      level == IF source = SOURCE_DAC THEN s.dac_level ELSE 0
  IN (level * source_gain[source + 1][sindex]) \div 63 + source_offset[source + 1][sindex]

\* The selector's output; it holds its last value while SNDEN is low.
Selected(s) ==
  IF ~s.mux_enabled THEN s.mame_mux ELSE IF s.mux_source = SOURCE_DAC THEN 4 * s.dac_level ELSE MAME_IDLE
mame_level(s) ==
  Clipped(Selected(s) + (IF s.sbs_enabled /\ s.sbs_level THEN MAME_SINGLE_BIT ELSE 0))

Level(s) == Clipped((IF s.mixer = "mame" THEN mame_level(s) ELSE xroar_level(s)) + s.ext_level + s.ssc_out)
sound_update(s) ==
  [s EXCEPT !.out = Level(s), !.mame_mux = IF s.mixer = "mame" THEN Selected(s) ELSE @]

sound_init(mixer) ==
  [dac_level |-> 0, sbs_enabled |-> FALSE, sbs_level |-> FALSE, mux_enabled |-> FALSE,
   mux_source |-> SOURCE_DAC, ext_level |-> 0, ssc_out |-> 0, mixer |-> mixer, mame_mux |-> MAME_IDLE,
   out |-> 0]

sound_reset(s) ==
  sound_update([sound_init(s.mixer) EXCEPT !.ext_level = s.ext_level, !.ssc_out = s.ssc_out])
sound_set_mixer(s, mixer) == IF mixer = s.mixer THEN s ELSE sound_update([s EXCEPT !.mixer = mixer])

\* Skipped while the DAC is inaudible.
sound_set_dac_level(s, dac6) ==
  LET t == [s EXCEPT !.dac_level = dac6]
  IN IF s.mux_enabled /\ s.mux_source = SOURCE_DAC THEN sound_update(t) ELSE t
sound_set_sbs(s, enabled, level) ==
  IF s.sbs_enabled = enabled /\ s.sbs_level = level THEN s
  ELSE sound_update([s EXCEPT !.sbs_enabled = enabled, !.sbs_level = level])
sound_set_mux_enabled(s, enabled) ==
  IF s.mux_enabled = enabled THEN s ELSE sound_update([s EXCEPT !.mux_enabled = enabled])
sound_set_mux_source(s, source) ==
  LET t == [s EXCEPT !.mux_source = source]
  IN IF s.mux_source # source /\ s.mux_enabled THEN sound_update(t) ELSE t
sound_set_external(s, level) == IF s.ext_level = level THEN s ELSE sound_update([s EXCEPT !.ext_level = level])
sound_set_ssc(s, level) ==
  LET v == SSC_BIAS + (level \div 2)
  IN IF s.ssc_out = v THEN s ELSE sound_update([s EXCEPT !.ssc_out = v])
=============================================================================
