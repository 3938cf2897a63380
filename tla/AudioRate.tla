------------------------------ MODULE AudioRate ------------------------------
(***************************************************************************)
(* The rate control of the audio feed, audio_feed_steer(), closed over the  *)
(* ring it controls: one step is one emulated frame, during which the DAC   *)
(* takes samples at its fixed rate and after which the frame's samples are  *)
(* queued and the rate is judged.  Numbers are the code's own; the ring's   *)
(* contents are left out.  The emulator's speed, a frame interval in us, is *)
(* the environment's choice.                                                *)
(***************************************************************************)
EXTENDS Integers

CONSTANTS
  SPEEDS,       \* frame intervals the emulator settles at, in us
  SWITCHES,     \* bound: changes of speed
  WINDOW        \* bound: frames after each of them

ASSUME SpeedsAssumption == SPEEDS \subseteq 8000 .. 60000

AUDIO_FRAME_SAMPLES == 262
AUDIO_FRAME_US == 16666
AUDIO_STRIDE_ONE == 65536
AUDIO_FILL_TARGET == AUDIO_FRAME_SAMPLES + 512
AUDIO_FILL_LIMIT == 2048 - 64
AUDIO_SLOW_DT_US == (AUDIO_FRAME_US * 102) \div 100
AUDIO_FULL_DT_US == (AUDIO_FRAME_US * 101) \div 100
AUDIO_LONG_DT_US == (AUDIO_FRAME_US * 5) \div 4
AUDIO_FILL_BAND == 128
AUDIO_FILL_SETTLED == 32
AUDIO_TRIM_MAX == (AUDIO_STRIDE_ONE * 3) \div 100
AUDIO_STRIDE_MIN == (AUDIO_STRIDE_ONE * 55) \div 100
AUDIO_DMA_WORDS == 64

VARIABLES
  feed,      \* the rate control state of AudioFeed, its stride and playing
  fill,      \* wr - rd
  rest,      \* samples and parts of one that the DAC is owed: out of FRAME_US, and of STRIDE_ONE
  speed,     \* the emulator's frame interval
  age,       \* frames since it changed
  switches

ratevars == <<feed, fill, rest, speed, age, switches>>

Lesser(a, b) == IF a < b THEN a ELSE b
Most(a, b) == IF a > b THEN a ELSE b

-----------------------------------------------------------------------------
\* Mutant: a long frame is averaged in like any other.
LongFrameAveraged(f, dt) == [f EXCEPT !.short_run = 0, !.dt_avg_us = @ + (dt - @) \div 32]
\* A frame well over the period: the third in a row sets the average to the shortest of them.
LongFrame(f, dt) ==
  LET run == Lesser(f.long_run + 1, 255)
      min == IF run = 1 THEN dt ELSE Lesser(dt, f.long_min_us)
  IN  [f EXCEPT !.short_run = 0, !.long_run = run, !.long_min_us = min,
                !.dt_avg_us = IF run >= 3 THEN Most(@, min) ELSE @]

\* A frame well under the average: the third in a row sets it to the longest of them.
ShortFrame(f, dt) ==
  LET run == Lesser(f.short_run + 1, 255)
      max == IF run = 1 THEN dt ELSE Most(dt, f.short_max_us)
  IN  [f EXCEPT !.short_run = run, !.short_max_us = max,
                !.dt_avg_us = IF run >= 3 THEN Lesser(@, Most(max, AUDIO_FRAME_US)) ELSE @]

\* Otherwise the average moves a thirty-second of the way; >> of a negative number rounds down, as \div does.
AverageIn(f, dt) == [f EXCEPT !.dt_avg_us = @ + (dt - @) \div 32]

MeasureSpeed(f, dt) ==
  IF dt > AUDIO_LONG_DT_US THEN LongFrame(f, dt)
  ELSE LET g == [f EXCEPT !.long_run = 0] IN
       AverageIn(IF dt < (g.dt_avg_us * 3) \div 4 THEN ShortFrame(g, dt) ELSE [g EXCEPT !.short_run = 0], dt)

\* A dry ring starts again from exactly the target.
Restart(f) == [f EXCEPT !.err_q4 = 0, !.correcting = FALSE, !.stride = AUDIO_STRIDE_ONE, !.playing = TRUE]

Trim(err) ==
  LET t == IF err < 0 THEN -((-err * 15) \div 2) ELSE (err * 15) \div 2
  IN  Most(-AUDIO_TRIM_MAX, Lesser(AUDIO_TRIM_MAX, t))

FeedForward(f) ==
  IF f.slow THEN Most(AUDIO_STRIDE_MIN, (AUDIO_STRIDE_ONE * AUDIO_FRAME_US) \div f.dt_avg_us)
  ELSE AUDIO_STRIDE_ONE

SetStride(f, n) ==
  LET err_q4 == f.err_q4 + ((n - AUDIO_FILL_TARGET) * 16 - f.err_q4) \div 16
      err == err_q4 \div 16
      size == IF err < 0 THEN -err ELSE err
      slow == f.dt_avg_us > AUDIO_SLOW_DT_US \/ (f.slow /\ f.dt_avg_us >= AUDIO_FULL_DT_US)
      correcting == slow \/ size > AUDIO_FILL_BAND \/ (f.correcting /\ size > AUDIO_FILL_SETTLED)
      g == [f EXCEPT !.err_q4 = err_q4, !.slow = slow, !.correcting = correcting]
  IN  [g EXCEPT !.stride = IF correcting THEN FeedForward(g) + Trim(err) ELSE AUDIO_STRIDE_ONE]

audio_feed_steer(f, n, dt) ==
  LET g == MeasureSpeed(f, dt)
  IN  CASE g.playing -> SetStride(g, n)
        [] ~g.playing /\ n >= AUDIO_FILL_TARGET -> Restart(g)
        [] OTHER -> g

-----------------------------------------------------------------------------
\* The DAC's share of a frame: output samples, each a stride further into the ring.
Out(dt) == (rest.us + dt * AUDIO_FRAME_SAMPLES) \div AUDIO_FRAME_US
Advance(dt) == rest.frac + Out(dt) * feed.stride
Taken(dt) == Advance(dt) \div AUDIO_STRIDE_ONE

\* What the ring holds at its emptiest, before the frame's samples are queued.
Low(dt) == fill - Taken(dt)

RateInit ==
  /\ feed = [dt_avg_us |-> AUDIO_FRAME_US, err_q4 |-> 0, correcting |-> FALSE, slow |-> FALSE,
             long_run |-> 0, long_min_us |-> 0, short_run |-> 0, short_max_us |-> 0,
             stride |-> AUDIO_STRIDE_ONE, playing |-> TRUE]
  /\ fill = AUDIO_FILL_TARGET
  /\ rest = [us |-> 0, frac |-> 0]
  /\ speed \in SPEEDS /\ age = 0 /\ switches = 0

\* The consumer's side of a frame, then 262 x audio_feed_push() and hal_audio_commit_frame().
RateFrame ==
  LET low == IF feed.playing THEN Most(0, Low(speed)) ELSE fill
      n == Lesser(low + AUDIO_FRAME_SAMPLES, AUDIO_FILL_LIMIT)
      f == [feed EXCEPT !.playing = @ /\ Low(speed) > 0]
      g == audio_feed_steer(f, n, speed)
  IN  /\ age < WINDOW /\ age' = age + 1
      /\ feed' = g
      /\ fill' = IF ~f.playing /\ g.playing THEN AUDIO_FILL_TARGET ELSE n
      /\ rest' = [us |-> (rest.us + speed * AUDIO_FRAME_SAMPLES) % AUDIO_FRAME_US,
                  frac |-> IF g.stride = AUDIO_STRIDE_ONE THEN 0 ELSE Advance(speed) % AUDIO_STRIDE_ONE]
      /\ UNCHANGED <<speed, switches>>

\* The fill is as close to its target as the code itself calls settled.
Settled == fill - AUDIO_FILL_TARGET \in -AUDIO_FILL_SETTLED .. AUDIO_FILL_SETTLED

\* External: the program on the CoCo gets heavier or lighter to emulate, once the last change was worked off.
ChangeSpeed ==
  /\ switches < SWITCHES /\ Settled
  /\ speed' \in SPEEDS \ {speed} /\ switches' = switches + 1 /\ age' = 0
  /\ UNCHANGED <<feed, fill, rest>>

\* The end of what is explored.
LastFrame == age = WINDOW /\ UNCHANGED ratevars

RateNext == RateFrame \/ ChangeSpeed \/ LastFrame

RateSpec == RateInit /\ [][RateNext]_ratevars

-----------------------------------------------------------------------------
Near(n) == n - AUDIO_FILL_TARGET \in -AUDIO_FILL_BAND .. AUDIO_FILL_BAND

\* WINDOW frames after a change the averaged frame interval, which sets the playback rate, is within 2 % of
\* the emulator's (audio_feed_steer(), dt_avg_us).
RateFollowsSpeed == age = WINDOW => feed.dt_avg_us - speed \in -(speed \div 50) .. speed \div 50

\* Whenever the emulator changes from a speed it has settled at to another, the ring neither runs dry nor
\* drops a sample, although its fill is judged on averages that lag behind; and WINDOW frames later the rate
\* and the fill are back where they should be, at full speed with samples passing one for one
\* (audio_feed_steer()).  It holds for one slow speed on each side of AUDIO_LONG_DT_US and none between 48
\* and 54 FPS; the README's known deviations are about the others.
SoundFollowsSpeed ==
  /\ feed.playing /\ Low(speed) > 0 /\ fill < AUDIO_FILL_LIMIT
  /\ RateFollowsSpeed
  /\ age = WINDOW => Near(fill) /\ (speed = AUDIO_FRAME_US => feed.stride = AUDIO_STRIDE_ONE)
=============================================================================
