----------------------------- MODULE AudioFeed ------------------------------
(***************************************************************************)
(* The ring between the emulation loop (core 1) and the task that refills   *)
(* the DMA buffers (core 0), and the task's bookkeeping of those buffers.   *)
(* The cores share wr, rd, stride and playing without a lock: each load and *)
(* store of them is a step of its own.  A sample is its number.  How the    *)
(* stride is chosen is the subject of AudioRate; here it is any of STRIDES. *)
(***************************************************************************)
EXTENDS Integers

CONSTANTS
  AUDIO_RING_SIZE,      \* 2048
  AUDIO_FILL_LIMIT,     \* 1984
  AUDIO_FILL_TARGET,    \* 774
  AUDIO_STRIDE_ONE,     \* 65536
  STRIDES,              \* the strides steering may set
  INDEX_MOD,            \* 2^32
  AUDIO_DMA_WORDS,      \* 64
  AUDIO_DMA_BUFS,       \* 4
  BURST,                \* words core 0 plays at most between two loads of audio_feed_steer()
  LATE,                 \* buffers the DMA finishes at most between two polls
  MaxSamples            \* bound: samples queued

\* A word takes up to two samples, so a ring at its target does not run dry within audio_feed_steer().
ASSUME FeedAssumption ==
  /\ AUDIO_RING_SIZE \in Nat \ {0} /\ INDEX_MOD \in Nat
  /\ INDEX_MOD % AUDIO_RING_SIZE = 0 /\ AUDIO_RING_SIZE < INDEX_MOD
  /\ AUDIO_FILL_TARGET \in Nat /\ AUDIO_FILL_LIMIT \in Nat
  /\ AUDIO_FILL_TARGET <= AUDIO_FILL_LIMIT /\ AUDIO_FILL_LIMIT < AUDIO_RING_SIZE
  /\ BURST \in Nat /\ 2 * BURST + 2 <= AUDIO_FILL_TARGET
  /\ AUDIO_DMA_WORDS \in Nat \ {0} /\ AUDIO_DMA_BUFS \in Nat /\ LATE \in 1 .. AUDIO_DMA_BUFS - 2
  /\ AUDIO_STRIDE_ONE \in Nat \ {0} /\ STRIDES \subseteq 1 .. 2 * AUDIO_STRIDE_ONE - 1

VARIABLES
  ring, wr, rd, stride, playing,       \* AudioFeed, what the cores share
  made,                                \* samples queued so far
  ppc, pwr, pfill,                     \* producer: position, its wr, the fill audio_feed_steer() computed
  opc, cstride, crd, chave, frac, word,  \* consumer: position and locals; words done of this buffer
  took,                                \* samples taken since the producer computed pfill
  last,                                \* history: the last sample put out
  wrong,                               \* history: a sample other than the one at its place was put out
  dma, next, upto, fresh, passed,      \* buffer being fetched, next and last to refill, refilled since fetched,
                                       \* buffers fetched since the last poll
  started                              \* history: the task's first pass, over buffers of silence, is done

feedvars == <<ring, wr, rd, stride, playing>>
prodvars == <<made, ppc, pwr, pfill>>
consvars == <<opc, cstride, crd, chave, frac, word, last, wrong>>
dmavars == <<dma, next, upto, fresh, passed, started>>
afvars == <<feedvars, prodvars, consvars, took, dmavars>>

Plus(i, n) == (i + n) % INDEX_MOD
Minus(i, j) == (i + INDEX_MOD - j) % INDEX_MOD
Slot(i) == i % AUDIO_RING_SIZE

audio_dma_fetching(dscr) == (dscr - 2 + AUDIO_DMA_BUFS) % AUDIO_DMA_BUFS
audio_dma_first(fetching) == (fetching + 1) % AUDIO_DMA_BUFS

\* External: out_link_dscr runs two descriptors ahead of the buffer being fetched.
Dscr == (dma + 2) % AUDIO_DMA_BUFS

\* audio_feed_init(), and the task's start with the DMA at buffer 0; it polls at once.
FeedInit ==
  /\ ring = [i \in 0 .. AUDIO_RING_SIZE - 1 |-> -1] /\ wr = 0 /\ rd = 0
  /\ stride = AUDIO_STRIDE_ONE /\ playing = FALSE
  /\ made = 0 /\ ppc = "idle" /\ pwr = 0 /\ pfill = 0
  /\ opc = "poll" /\ cstride = AUDIO_STRIDE_ONE /\ crd = 0 /\ chave = 0 /\ frac = 0 /\ word = 0
  /\ took = 0 /\ last = -1 /\ wrong = FALSE
  /\ dma = 0 /\ next = audio_dma_first(audio_dma_fetching(Dscr)) /\ upto = next
  /\ fresh = [b \in 0 .. AUDIO_DMA_BUFS - 1 |-> TRUE] /\ passed = LATE /\ started = FALSE

-----------------------------------------------------------------------------
(* Producer, core 1.                                                        *)

\* audio_feed_push(): above the limit the sample is dropped.
Push ==
  /\ ppc = "idle" /\ made < MaxSamples
  /\ pwr' = wr
  /\ ppc' = IF Minus(wr, rd) >= AUDIO_FILL_LIMIT THEN "idle" ELSE "fill"
  /\ UNCHANGED <<feedvars, made, pfill, consvars, took, dmavars>>

PushFill ==
  /\ ppc = "fill"
  /\ ring' = [ring EXCEPT ![Slot(pwr)] = made]
  /\ ppc' = "publish"
  /\ UNCHANGED <<wr, rd, stride, playing, made, pwr, pfill, consvars, took, dmavars>>

PushPublish ==
  /\ ppc = "publish"
  /\ wr' = Plus(pwr, 1) /\ made' = made + 1 /\ ppc' = "idle"
  /\ UNCHANGED <<ring, rd, stride, playing, pwr, pfill, consvars, took, dmavars>>

\* audio_feed_steer(): the fill is computed, and only then is playing tested.
Steer ==
  /\ ppc = "idle"
  /\ pfill' = Minus(wr, rd) /\ took' = 0 /\ ppc' = "steer"
  /\ UNCHANGED <<feedvars, made, pwr, consvars, dmavars>>

\* While playing, only the stride is set.
SteerPlaying ==
  /\ ppc = "steer" /\ playing
  /\ stride' \in STRIDES /\ ppc' = "idle"
  /\ UNCHANGED <<ring, wr, rd, playing, made, pwr, pfill, consvars, took, dmavars>>

\* A ring that ran dry is left alone below the target.
SteerDry ==
  /\ ppc = "steer" /\ ~playing
  /\ ppc' = IF pfill >= AUDIO_FILL_TARGET THEN "restart" ELSE "idle"
  /\ UNCHANGED <<feedvars, made, pwr, pfill, consvars, took, dmavars>>

\* playing is set last: until then the consumer leaves rd alone.
Restart ==
  /\ ppc = "restart"
  /\ rd' = Minus(wr, AUDIO_FILL_TARGET) /\ ppc' = "restride"
  /\ UNCHANGED <<ring, wr, stride, playing, made, pwr, pfill, consvars, took, dmavars>>

RestartStride ==
  /\ ppc = "restride"
  /\ stride' = AUDIO_STRIDE_ONE /\ ppc' = "replay"
  /\ UNCHANGED <<ring, wr, rd, playing, made, pwr, pfill, consvars, took, dmavars>>

RestartPlay ==
  /\ ppc = "replay"
  /\ playing' = TRUE /\ ppc' = "idle"
  /\ UNCHANGED <<ring, wr, rd, stride, made, pwr, pfill, consvars, took, dmavars>>

-----------------------------------------------------------------------------
(* Consumer, core 0.                                                        *)

\* One pass of audio_task()'s loop reads how far the DMA has got.
PollDma ==
  /\ opc = "poll"
  /\ upto' = audio_dma_fetching(Dscr) /\ passed' = 0
  /\ opc' = "refill"
  /\ UNCHANGED <<feedvars, prodvars, cstride, crd, chave, frac, word, last, wrong, took, dma, next, fresh, started>>

\* audio_dma_refill(): the next buffer, up to and without the one being fetched.
Refill ==
  /\ opc = "refill" /\ next # upto
  /\ cstride' = stride /\ frac' = IF stride = AUDIO_STRIDE_ONE THEN 0 ELSE frac
  /\ word' = 0 /\ opc' = "test"
  /\ UNCHANGED <<feedvars, prodvars, crd, chave, last, wrong, took, dmavars>>

Refilled ==
  /\ opc = "refill" /\ next = upto
  /\ opc' = "poll" /\ started' = TRUE
  /\ UNCHANGED <<feedvars, prodvars, cstride, crd, chave, frac, word, last, wrong, took, dma, next, upto, fresh,
                 passed>>

\* The last word ends the buffer.
WordDone ==
  IF word + 1 = AUDIO_DMA_WORDS
  THEN /\ opc' = "refill" /\ word' = 0
       /\ next' = (next + 1) % AUDIO_DMA_BUFS /\ fresh' = [fresh EXCEPT ![next] = TRUE]
  ELSE /\ opc' = "test" /\ word' = word + 1
       /\ UNCHANGED <<next, fresh>>

\* Not playing: the word repeats the last sample.
Hold ==
  /\ opc = "test" /\ ~playing
  /\ WordDone
  /\ UNCHANGED <<feedvars, prodvars, cstride, crd, chave, frac, last, wrong, took, dma, upto, passed, started>>

ReadRd ==
  /\ opc = "test" /\ playing
  /\ crd' = rd /\ opc' = "have"
  /\ UNCHANGED <<feedvars, prodvars, cstride, chave, frac, word, last, wrong, took, dmavars>>

\* Samples a word needs: an interpolated one lies between two.
Needs == IF cstride = AUDIO_STRIDE_ONE THEN 1 ELSE 2

\* Mutant: interpolation is content with one sample.
NeedsOne == chave < 1
Dry == chave < Needs

ReadWr ==
  /\ opc = "have"
  /\ chave' = Minus(wr, crd)
  /\ opc' = "take"
  /\ UNCHANGED <<feedvars, prodvars, cstride, crd, frac, word, last, wrong, took, dmavars>>

RunDry ==
  /\ opc = "take" /\ Dry
  /\ playing' = FALSE
  /\ WordDone
  /\ UNCHANGED <<ring, wr, rd, stride, prodvars, cstride, crd, chave, frac, last, wrong, took, dma, upto, passed, started>>

\* The ring is read.
Take ==
  /\ opc = "take" /\ ~Dry
  /\ last' = ring[Slot(crd)]
  /\ wrong' = (wrong \/ last' < last
               \/ \E i \in 0 .. Needs - 1 : ring[Slot(Plus(crd, i))] % INDEX_MOD # Plus(crd, i))
  /\ opc' = "advance"
  /\ UNCHANGED <<feedvars, prodvars, cstride, crd, chave, frac, word, took, dmavars>>

\* The read index moves on by the whole part of the stride and what was left over.
Advance ==
  /\ opc = "advance"
  /\ ppc = "steer" => took < BURST
  /\ took' = IF ppc = "steer" THEN took + 1 ELSE took
  /\ IF cstride = AUDIO_STRIDE_ONE
     THEN rd' = Plus(crd, 1) /\ UNCHANGED frac
     ELSE /\ rd' = Plus(crd, (frac + cstride) \div AUDIO_STRIDE_ONE)
          /\ frac' = (frac + cstride) % AUDIO_STRIDE_ONE
  /\ WordDone
  /\ UNCHANGED <<ring, wr, stride, playing, prodvars, cstride, crd, chave, last, wrong, dma, upto, passed, started>>

\* External: the DMA goes on to the next buffer, at most LATE times between polls and once during a refill.
DmaNext ==
  /\ passed < (IF opc = "poll" THEN LATE ELSE 1)
  /\ dma' = (dma + 1) % AUDIO_DMA_BUFS /\ passed' = passed + 1
  /\ fresh' = [fresh EXCEPT ![dma] = FALSE]
  /\ UNCHANGED <<feedvars, prodvars, consvars, took, next, upto, started>>

FeedNext ==
  \/ Push \/ PushFill \/ PushPublish \/ Steer \/ SteerPlaying \/ SteerDry
  \/ Restart \/ RestartStride \/ RestartPlay
  \/ PollDma \/ Refill \/ Refilled \/ Hold \/ ReadRd \/ ReadWr \/ RunDry \/ Take \/ Advance
  \/ DmaNext

FeedSpec == FeedInit /\ [][FeedNext]_afvars

-----------------------------------------------------------------------------
\* The two cores agree on the ring although each acts on indices that are out of date: it never holds more
\* than the limit, the consumer never passes the producer, every sample put out is the one at its place and
\* none comes before an earlier one, restarts included (audio_feed_push(), audio_feed_steer(),
\* audio_feed_fill_words()); rd has one writer at a time.
RingAgreed ==
  /\ Minus(wr, rd) <= AUDIO_FILL_LIMIT
  /\ ~wrong
  /\ ppc \in {"restart", "restride"} => opc # "advance"

\* The task never fills the buffer the DMA is fetching, and the DMA never fetches a buffer that was not filled
\* since it last went by, once the task's first pass is over (audio_dma_refill(), audio_task()).
DmaKeepsAhead == started => fresh[dma] /\ (opc \in {"test", "have", "take", "advance"} => next # dma)

\* Both: what the DAC plays is what was queued, in order, once.
SoundInOrder == RingAgreed /\ DmaKeepsAhead

-----------------------------------------------------------------------------
(* The inductive invariants behind SoundInOrder.                            *)

\* Every variable has its type.
FeedTypeOK ==
  /\ ring \in [0 .. AUDIO_RING_SIZE - 1 -> Int] /\ wr \in 0 .. INDEX_MOD - 1 /\ rd \in 0 .. INDEX_MOD - 1
  /\ stride \in STRIDES \cup {AUDIO_STRIDE_ONE} /\ playing \in BOOLEAN
  /\ made \in Nat /\ pwr \in 0 .. INDEX_MOD - 1 /\ pfill \in Nat /\ took \in Nat
  /\ ppc \in {"idle", "fill", "publish", "steer", "restart", "restride", "replay"}
  /\ opc \in {"poll", "refill", "test", "have", "take", "advance"}
  /\ cstride \in 1 .. 2 * AUDIO_STRIDE_ONE - 1 /\ crd \in 0 .. INDEX_MOD - 1 /\ chave \in Nat
  /\ frac \in 0 .. AUDIO_STRIDE_ONE - 1 /\ word \in 0 .. AUDIO_DMA_WORDS - 1
  /\ last \in Int /\ wrong \in BOOLEAN

\* Samples in the ring, and the number of the one at the read index.
Fill == Minus(wr, rd)
ReadAt == made - Fill

\* While audio_feed_steer() acts on the fill it computed, the consumer may take from the ring, but a ring
\* that was at its target is then not dry.
SteerKnows ==
  /\ took = 0 => pfill = Fill
  /\ took > 0 => /\ took <= BURST /\ pfill <= Fill + 2 * took
                 /\ pfill >= AUDIO_FILL_TARGET => playing /\ (opc = "take" => chave >= 2)

\* What each core knows of the other's index.
RingKnown ==
  /\ ~wrong /\ last <= ReadAt
  /\ wr = made % INDEX_MOD /\ Fill <= AUDIO_FILL_LIMIT /\ Fill <= made
  /\ ppc \in {"fill", "publish"} => pwr = wr /\ Fill < AUDIO_FILL_LIMIT
  /\ ppc \in {"restart", "restride", "replay"} => ~playing
  /\ ppc = "restart" => Fill >= AUDIO_FILL_TARGET
  /\ ppc = "steer" => SteerKnows
  /\ opc \in {"have", "take", "advance"} => playing /\ crd = rd
  /\ opc \in {"take", "advance"} => chave <= Fill
  /\ opc = "advance" => ~Dry

\* A sample stays at its place until it is read.
RingHolds ==
  /\ \A i \in made - AUDIO_FILL_LIMIT .. made - 1 : i >= 0 => ring[Slot(i)] = i
  /\ ppc = "publish" => ring[Slot(made)] = made

\* Buffers from one to another, going round.
Ahead(a, b) == IF b >= a THEN b - a ELSE b + AUDIO_DMA_BUFS - a

\* The start: the task polls before the DMA goes on.
FirstPoll ==
  /\ ~started /\ opc = "poll" /\ passed = LATE
  /\ dma = 0 /\ \A b \in 0 .. AUDIO_DMA_BUFS - 1 : fresh[b]

\* Since the last poll the DMA fetched `passed` buffers; the others are fresh, once those still to be refilled are.
Turning ==
  /\ Ahead(upto, dma) = passed
  /\ opc = "poll" => started /\ next = upto
  /\ opc # "poll" => passed <= 1
  /\ opc \in {"test", "have", "take", "advance"} => next # upto
  /\ started => Ahead(next, upto) <= LATE
  /\ \A b \in 0 .. AUDIO_DMA_BUFS - 1 :
       /\ passed <= Ahead(upto, b)
       /\ started => Ahead(upto, b) + Ahead(next, upto) < AUDIO_DMA_BUFS
       => fresh[b]

DmaKnown ==
  /\ dma \in 0 .. AUDIO_DMA_BUFS - 1 /\ next \in 0 .. AUDIO_DMA_BUFS - 1 /\ upto \in 0 .. AUDIO_DMA_BUFS - 1
  /\ passed \in 0 .. LATE /\ started \in BOOLEAN /\ fresh \in [0 .. AUDIO_DMA_BUFS - 1 -> BOOLEAN]
  /\ FirstPoll \/ Turning

FeedIInv == FeedTypeOK /\ RingKnown /\ RingHolds /\ DmaKnown
=============================================================================
