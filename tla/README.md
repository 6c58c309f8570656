# Franken FDK AAC: specifications

TLA+ models of the franken-fdk-aac encoder program, checked with TLC, and
theorems about them checked with TLAPS. The program is a command-line frontend
(`src-fdkaac`, C) around the FDK AAC encoder library (`src-fdk-aac`, C++); both
run in one thread, interrupted by a signal handler.

## The system

    container reader -> converters -> [resampler] -> [limiter] -> int16
        -> [edge extrapolator] -> encode() -> aacEncEncode() -> transport
                                      |
                                      +--> m4af (M4A file)  or  raw stream / DAB+

Everything is pulled: `encode()` asks the last reader of the chain for a frame,
each reader asks its source. A reader that runs dry returns fewer frames than
asked for, then 0. `encode()` hands the PCM to the library, which buffers it
until a frame is complete, and passes each access unit (AU) on to the output.

| component | state | operations | what makes it correct |
|---|---|---|---|
| encode loop, `main.c`, `aacenc.c` | `nread`, `remaining`, `flip`, `encoded`, two output buffers, `g_interrupted` | `encode()`, `write_sample*()`, the padding computed in `main()`, `signal_handler()` | every frame read is encoded; AUs are written once, in order, the second one left out; the declared delay and padding cut exactly the added audio; the loop ends |
| edge extrapolator, `extrapolater.c` | two buffers with counts, `nbuffer`, `process` | `process0` .. `process3`, `fetch()` | one predicted frame, the input unchanged, one predicted frame; never more than asked for |
| encoder input, `aacenc_lib.cpp` | `nSamplesRead`, `nZerosAppended`, init flags | `aacEncEncode()` with samples, without, at end of stream, after an error | takes each sample once; flushes the delay; then reports end of stream |
| M4A writer, `m4af.c` | file, sample table, chunk table, chunk buffer, `last_error` | `m4af_begin_write()`, `m4af_write_sample()`, `m4af_finalize()` | the file is a sequence of boxes; a player finds every sample through the tables; failures are reported |
| PCM readers, `resample.c`, `limiter.c`, `wav_reader.c`, ... | history windows, heads, positions | `read_frames()` | length and position are consistent however requests are split; every output is computed from the right input |
| block switching, `block_switch.cpp`, `psy_main.cpp` | window sequence, shape, attack history, grouping per channel; the overlap of the filterbank | per-frame update, stereo synchronisation, transform, output | attacks are coded short; neighbouring slopes match; the bitstream says what was done |
| rate control, `qc_main.cpp`, `aacenc.cpp` | bit reservoir, padding rest, limits of a frame | header estimate, grant, quantisation loop, fill, alignment, update | the reservoir stays in its range; every bit is accounted for; the loop ends |
| transport, `tpenc_*.cpp` | sub-frame, header and PCE counters, bit position | static bits, write and end access unit, get frame | the bits written are the bits counted; configurations come at their period; length fields are right |
| DAB+ superframes, `tpenc_dab.cpp`, `dab_rs.c`, `dab_pad.c` | `currentBlock`, start of the sub-frame, bit position | header, raw data block end, `GetFrame`, RS parity, PAD | AUs tile the superframe exactly; start markers point at them |
| SBR grid, `fram_gen.cpp`, `env_est.cpp`, `bit_sbr.cpp` | frame class, borders kept for the next frame, transients of this frame and the last one, per channel | lay the grid of a frame, compare a pair, write `sbr_grid()` | a grid starts where the last one stopped; the decoder reads the grid the energies were measured in; transients are framed |
| library parameters, `aacenc_lib.cpp`, `franken.cpp` | user parameters, init flags | `SetParam`, `aacEncInit()` | a parameter takes effect at the next call, in full or not at all |

Hard behaviours: signals at any instant; short reads and input that ends
anywhere; a library that takes and gives at different times (delay, sub-frames);
errors of the encoder, of allocations and of writes; files that cross 32-bit
limits while they are written or moved; unsigned arithmetic on counts kept by
different components. `PROJECT.json` lists them at their lines under "hazards".

## Modules

| module | role |
|---|---|
| `Extrapolater` | the extrapolator, and the reader chain without one (`ReadSource`); actions only, composed by `EncodeLoop` |
| `AacEncBuffer` | the input side of `aacEncEncode()` and the collection of AUs into output frames; actions only |
| `EncodeLoop` | `encode()`, the end of `main()`, the signal handler; composes the two; specification and properties |
| `MCEncodeLoop` | instances of `EncodeLoop` for TLC |
| `EncodeLoopProofs` | theorems about `EncodeLoop` |
| `M4af` | the M4A writer, and how a player reads its file; specification and properties |
| `SampleStore` | abstract specification: an append-only store of samples |
| `MCM4af` | instances of `M4af` for TLC |
| `M4afProofs` | lemmas about sums and about the words of a file; theorems about the types, the tables and the chunk buffer of `M4af` |
| `M4afMediaProofs` | theorems about the media data in the file, also while they are moved |
| `M4afStoreProofs` | theorems about the finished file, its player and the refinement of `SampleStore` |
| `Resampler`, `Limiter` | the two stages of the PCM chain that keep state; actions and properties, composed by `ReaderChain` |
| `ReaderChain` | source, resampler and limiter, pulling from one another; specification |
| `PcmSource` | abstract specification: a stream of frames, handed out once and in order |
| `MCReaderChain` | instances of `ReaderChain` for TLC |
| `ReaderChainProofs` | theorems about `ReaderChain` |
| `IcsInfo` | the ics_info() of a block: what the encoder writes, what the decoder reads |
| `BlockSwitch` | window switching of a channel element, frame after frame; specification and properties |
| `MCBlockSwitch` | instances of `BlockSwitch` for TLC |
| `BlockSwitchProofs` | theorems about `BlockSwitch` |
| `TpEnc` | the transport encoder: static bits, access units, frames; operators on its state |
| `RateControl` | the bit budget of a frame: operators on `QC_STATE` and `QC_OUT` |
| `FrameCoder` | `FDKaacEnc_EncodeFrame()`: rate control and transport encoder together; specification and properties |
| `MCFrameCoder` | encoder configurations for TLC |
| `FrameCoderProofs` | theorems about `FrameCoder` |
| `FrameGen` | `FDKsbrEnc_frameInfoGenerator()`: borders, follow-up, SBR_GRID and SBR_FRAME_INFO; operators |
| `SbrGridBits` | `sbr_grid()` in the bitstream: what the encoder writes, what the decoder reads or rejects; operators |
| `SbrEnvelope` | the grids of an SBR element, frame after frame, from the detectors to the decoder; specification and properties |
| `MCSbrEnvelope` | encoder configurations for TLC |
| `SbrEnvelopeProofs` | theorems about `SbrEnvelope` |

### Extrapolater, AacEncBuffer, EncodeLoop

One action is one call between components or one piece of `encode()` between
two points where a signal makes a difference: `LoopTop` (the test of
`g_interrupted`), `ReadStep` (one `read_frames()` of the reader, a round of
`pcm_read_frames()`), `EncodeCall` (`aac_encode_frame()` with what `encode()`
does with its result), `Write`, `Done`, `Main`. `Interrupt` sets
`g_interrupted` between any two of them; the handler does nothing else, and the
code reads the flag in two places only.

PCM is abstracted to its origin. A frame is predicted before the input
(`head`), input (`audio`, with its position), predicted after it (`tail`), or
claimed by a return value without having been copied (`stale`). An AU is its
number; number n carries the n-th `FrameLen` samples the encoder was fed. An
output frame with `SubFrames` AUs is named by its last AU.

The source delivers `inputLen` frames, chosen in the initial state, then
nothing. A read error is the same thing: `pcm_read_frames()` turns it into a
short count. `EncodeFull` may fail as a call of the core encoder may, before or
after the samples were consumed; `Write` may fail.

`fed`, `accepted` and `written` are history variables; `written` is also the
`frames_written` of the code. Arithmetic is unbounded except for `padding`, a
`uint32_t` (`WordMod`).

What the code does and the model shows, beyond findings 1 and 2 below:
after a signal in a padded profile the padding wraps around, because output is
written for input that has no matching tail (`PaddingInRange` is about runs that
end by themselves); after a signal without padding, an empty sample is written;
in DAB+ the flush ends at the first call that completes no superframe, and the
audio of that superframe is lost (`TailLossBounded` bounds it).

### M4af, SampleStore

The file is a sequence of 32-bit words, positions count words. Data words are
`<<"data", sample, index>>`, so that a property can tell where each of them is.
Boxes are a size word, a type word and a body; a 64-bit size takes two more
words. The moov box keeps only the three tables a player needs to find samples
(stco/co64, stsc, stsz), in one word that is the record of what the code
writes; the rest is a fixed size. `WriteSample` is all of
`m4af_write_sample()`; finalization is one action per part (`FinalizeFlush`,
`FinalizeMdat`, `WriteMoov`, `PatchMoov`, one `ShiftBlock` per block moved,
`ShiftHeader`, `WriteMoovFront`).

A write, a seek or an allocation may fail in any action; `last_error` is then
set for good. After a failure the content of the file is not followed further.
A failed read while the media data are moved is not noticed by the code;
`readFailed` remembers it for the properties, which exempt it.

The second half of `M4af` is the player: it walks the boxes from position 0,
takes the tables from moov and reads the words of each sample. `ImplementsStore`
is refinement: in every state, the samples read back (from the file through moov
when it is finished; from the chunk table, the file and the chunk buffer
before, also half way through the move) are the value of `store` in
`SampleStore`, which only ever grows by the sample accepted, closes, or fails as
a whole.

One case is mapped to a failed store although the code reports success
(`TableTooNarrow`): the width of the offsets is decided by the last chunk; when
that chunk is empty, which only the empty sample of an interrupted run can make
it, its offset is 0, and a file above 4 GiB gets 32-bit offsets.

The composition of the two models is by contract: `WriteSample` accepts an empty
sample only as the last one, which is what `EncodeLoop`'s `Done` writes, and
`FinalizeFlush` needs at least one sample, which is `SomethingWritten`.

### ReaderChain, Resampler, Limiter, PcmSource

`open_input()` stacks the resampler on the source and the limiter on the
resampler. Every stage pulls with `pcm_read_frames()`, which goes on after a
short read (`ReadOn`, `ReadReturns`). The resampler keeps a sliding window `x`
of input indices; the value of an output is abstract, the window it is computed
from is not. One turn of `refill()` is an action (`Refill`), so is one output.
In the limiter a sample is the frame it belongs to and a level: its sign and
whether it exceeds the full scale. `LimiterPass` is one turn of its loop over
all channels. `IsPcmSource` is refinement: to the stage behind it the chain is a
source of `ceil(input * L / M)` frames, liveness included.

### BlockSwitch, IcsInfo

The calls of `FDKaacEnc_psyMain()` for one element and frame, in their order:
detection per channel, synchronisation, transform with the output fields. Which
window an attack is in and its energy are choices; the table of sequences, the
synchronisation, grouping, the options `--block-bias`, `--short-groups` and
`--window-shape`, AAC-LD and LFE channels are as in the code. `IcsInfo` holds the
other end of the wire, translated from the decoder in this repository, so that
`DecoderSeesBlock` and `SlopesMeet` compare two pieces of code.

### FrameCoder, RateControl, TpEnc

One action per step of `FDKaacEnc_EncodeFrame()` that another step can be
compared with: `BeginFrame` (average, header estimate, distribution of bits),
`QuantizeOutOfRange`, `Quantize`, `Reduce`, `ReduceNothing` (the turns of
`FDKaacEnc_QCMain()`), `FillUp`, `SettleHeader` and `Align`
(`FDKaacEnc_FinalizeBitConsumption()` and `FDKaacEnc_updateBitres()`),
`WriteHeader`, `WriteBitstream`, `EndUnit`, `HandOut`. Bits are numbers. What
spectral coding makes of a frame (side information, bits of a quantisation,
a value out of range) is a choice within what the code guarantees: a coarser
quantisation takes no more bits, and no bits at all are taken only when no scale
factor band is left. Header bits, fill elements, alignment, the mux
configuration and PCE counters are counted as the writers count them.
`BitResMode` is the reservoir mode, chosen from the room over the average or given
with `--bitres-mode`: with a variable bit rate it decides whether a frame may
spend up to the limit of a frame or only the average. The default
reservoir of low delay comes out of a table of bit rates in the code; the model
takes its value from the configuration, between the limits of that table.

The length of an ADTS frame is 13 bits wide (`AdtsLength`). One block never
exceeds them. Several blocks, which the transport encoder supports up to four of
and the frontend never asks for (`AACENC_TPSUBFRAMES`), have an equal share of the
13 bits each, but the header, its CRC and the PCE come on top; `FrameLengthFields`
leaves out the superframes that are then too long (`AdtsLengthFits`).
`MCFrameCoder` checks by `FillElementsAgree` that the closed form of the fill
loop is what the loop does.

`sincePce`, `sinceSmc`, `units`, `markers` (in `TpEnc`) and `balance` are history.

### SbrEnvelope, FrameGen, SbrGridBits

A frame with a transient of HE-AAC is planned together with the next one: it
ends up to three slots inside it, and the borders past its end are kept
(`KeepForFollowUp`) until the next call shows whether another transient comes.
Then the plan is used (VARFIX) or joined with the borders of the new transient
(VARVAR, `FillFrameInter`). `FrameInfoGenerator` is the whole function; the
generator's memory is `old` and `follow`. One action per call of the encoder for
an element: `Analyse` (the detectors of `FDKsbrEnc_extractSbrEnvelope1()`: where
a transient is, or whether a frame without one is split, is a choice), `Lay`
(grids and their comparison), `Write` (whether a pair is coupled is a choice
where the code counts bits), and `Read`, the decoder of this repository with
what it keeps of the frame before. `onsets` is history.

The bitstream is a record of fields, each reduced to the width the code writes,
so that a value that does not fit, or an odd distance, is another one in the
decoder. Tables of the decoder that equal those of the encoder are shared;
everything else of the decoder is translated from its own code. Frames of 8, 9
and 18 slots, an attack border and three-frame spreads are left out: no profile
the encoder offers uses the first, the tuning excludes the others
(`NoSpecialCase`, which TLC evaluates). Frames are not lost on the way.

## Runs

| run | cfg | shows |
|---|---|---|
| `encode_padded` | `EncodeLoopPadded.cfg` | gapless profiles (2, 5, 29): types, the assertion in `process1()`, no frame lost, AU order, alignment of the trimmed audio, padding, order of the input, termination |
| `encode_dab` | `EncodeLoopDab.cfg` | no extrapolator, three AUs per output frame: superframe order, bounded loss at the end, something is always written, termination |
| `encode_interrupt_outcome` | `EncodeLoopFinalOutcomeWritten.cfg` | violation, finding 1 |
| `encode_short_tail` | `EncodeLoopOneFrameEachEnd.cfg` | violation, finding 2 |
| `m4a_writer` | `M4af.cfg` | M4A files with moov at the end and moved to the front: boxes and chunks tile the file, a player finds every sample in every state |
| `reader_chain` | `ReaderChain.cfg` | resampler and limiter: the right window for every output, no read-ahead, channels in step, half-waves whole, all frames delivered |
| `limiter_full_scale` | `ReaderChainFullScale.cfg` | violation, finding 3 |
| `block_switching` | `BlockSwitch.cfg` | attacks are coded short, slopes fit and meet, the decoder reads what was done |
| `frame_coder` | `FrameCoder.cfg` | reservoir, average, header estimate, bits written, superframes, length fields, repeated configurations, end of the quantisation loop |
| `frame_coder_superframe` | `FrameCoderSuperframe.cfg` | violation, finding 4 |
| `sbr_grid` | `SbrEnvelope.cfg` | arrays and fields are large enough, nothing is concealed, the decoder reads the grid that was laid, transients stay framed |
| `sbr_grid_960` | `SbrEnvelope960.cfg` | violation, finding 5 |

Bounds. `FrameLen = 4`, `LpcMin = 2`, `Delay = 7`, `DelayCore = 6` stand for
1024 (2048), 64, and delays between one and two frames: the order of the four is
that of every profile, and all inputs from 0 to `MaxInput` are tried, so that
every remainder modulo the frame length occurs with no, one, two and three full
frames before it; three output frames are what the skip at 1 and 3 needs. For
DAB+ `MaxInput = 40` gives three superframes of three AUs and every remainder.
The M4A run uses samples of 1 and 3 words (shorter and longer than `BlockLen`),
up to six of them in chunks of two, and `MaxUint32 = 18`: files stay below the
limits, cross them in the media data, cross them only by being moved (so that
stco turns into co64 in `m4af_patch_moov()`), or are beyond them from the start.
The limit for sizes and that for offsets are the same number as in the code.
`Slack = 3` (1024 in the code) leaves room for a free box and little more.

The reader chain has ratios above and below one that do not divide, a kernel of
4 taps (longer than the shortest request), a chunk of 4 frames, so that one
request takes several turns of `refill()`, and all inputs up to 4 frames (6
outputs) in two channels whose half-waves end at different places. Block
switching uses the real tables; an attack may be in the first, an inner or the
last window, which are the three that the code tells apart, and two energies
decide the one comparison made. The frame coder runs real rates and lengths with
no bound on the number of frames: its counters are periodic and the reservoir,
made small with `--vbr-reservoir`, takes every level. There is one configuration
for each format, for several blocks in a frame, PCE and mux configuration
periods, variable bit rate with a full and with a reduced reservoir, low delay
with constant and variable bit rate, its limit (`--max-bits-frame`) between the
thresholds of low delay and of the others, rates below the side information with and without
`--unlock-bitrate`; the bits of a spectrum lie around the average and the limit,
and in LOAS around the 255 bytes where the length takes another byte.

The SBR runs have the real numbers of slots, tables and tuning. A single channel
has its transients in every slot, a pair in five of them (start, middle and the
places where `calcFillLengthMax()` and the overlap change the plan), in each
channel independently; nothing bounds the number of frames: the generator's
memory is finite, so TLC meets every sequence of transients. Configurations
cover 15 and 16 slots, low delay, static framing with two and four envelopes, and
the four stereo modes.

Fairness. `EncodeLoop` assumes weak fairness of `Progress`, the steps of the one
thread that runs: as long as the loop can take a step it does, since reads,
encoder calls and writes return. Nothing is assumed about signals, and a read
from a pipe that blocks for ever is outside the model. `ReaderChain` and
`FrameCoder` assume weak fairness of their steps for the same reason: the calls
are made by that thread, one after the other, and none waits for anything. The
M4A, block switching and SBR runs need no fairness.

## Findings

1. `main.c:2093` writes `obp[flip^1]` after a signal, where `obp` is
   `&obuf[flip]`: always `obuf[1]`. The comment above it wants the final outcome,
   which sits in `obuf[0]` when `flip` is 1; `obuf[1]` then belongs to the call that
   ended the loop, has a size of 0, and an empty sample is written instead.
2. `extrapolater.c:167` returns the joined count for a short tail although fewer
   frames were copied: the encoder is fed stale frames, and the padding is not
   the one frame at each end that `main.c:2067` speaks of.

3. `limiter.c:110` steps forward from the start of what is held back even when
   that sample belongs to the half-wave: it is not attenuated, and may leave the
   limiter above the full scale.
4. `aacenc.cpp:491`: at 8 kbps in DAB+ an access unit made of side information
   alone is accepted up to the limit of a frame, which includes its CRC and
   header; the superframe then overflows.
5. `fram_gen.cpp:988`: with 960-sample frames a variable SBR grid may have
   segments of 3, 5 or 7 slots. `sbr_grid()` carries even distances only, so the
   decoder's borders are one slot away from the encoder's, the onset included.

More disagreements have no run of their own. `block_switch.cpp:594` reads
the window sequences "before syncing" after they have been overwritten: a pair
with one short channel takes the grouping of the louder channel, not of the
short one as the comment at 639 says; `SyncPair` is translated as the code is.
With `--vbr-reservoir` 1 to 7, which is a reservoir of no bits, the fill bits
that replace a saved header byte in LOAS make the header grow again: the
reservoir becomes negative and the next frame is refused, against the comment at
`aacenc.cpp:1005`. `frame_coder` has no configuration with such a reservoir, and
`ReservoirInRange` names it (`NoReservoir`). With `--unlock-bitrate` in LATM the
header of a forced frame is estimated before the length of the frame is aligned;
when the alignment takes it over a multiple of 255 bytes the bits written are not
those counted (`WrittenBitsAgree` leaves such configurations out). And a forced frame is granted
0 bits where the average leaves fewer (`qc_main.cpp:671`): what crash recovery then
saves is credited to a reservoir that may be full. With ADTS at 8 kbps, a reservoir
of 96 bits, 26 bits of side information, six of which crash recovery saves, and a
payload of 212, the first frame leaves 102 bits, and the next one is refused
(`AAC_ENC_BITRES_TOO_HIGH`, line 788) against the comment at 1357, "instead of the
whole encode failing"; so `ReservoirInRange` has no upper limit under that option.
These limits came out of the proof: the properties as first stated were not
provable. It also shows that a branch of `FDKaacEnc_FinalizeBitConsumption()` is
never taken, the one that takes a byte of fill back when alignment has replaced
it.

## Proofs

The theorems hold for all values of the constants under the named assumptions of
the modules; TLC evaluates the assumptions on its instances.

`EncodeLoopProofs` proves every safety property that `encode_padded` and
`encode_dab` check: `TypeOK`, `CountWithinRequest`, `NoFrameLost`,
`AudioInOrder`, `WrittenInOrder`, `AudioAligned`, `PaddingInRange`,
`TailLossBounded`, `SomethingWritten`. The assumptions (`ReaderAssumption`,
`LoopAssumption`): the frame length and the delay are positive, the predictor
needs no more than a frame, the declared delay is not larger than the flushed
one and, in padded profiles, at least a frame (so that the AU that is dropped is
priming); padded profiles have one AU per output frame; 2^32 exceeds two frames
and the delay.

None of the properties is inductive. `IInv` adds to `TypeOK` what relates the
components at each location: what the two reader buffers hold and where it comes
from in each phase; that the frames handed out are those accepted plus
`remaining`; that `accepted` plus the zeros appended is a whole number of frames
plus `nSamplesRead`; that `nZerosAppended` passes the delay only with the last
AU; how `flip`, `encoded`, the two output buffers and `written` go together.
`IInvHolds` shows it invariant with one lemma per action and per conjunct an
action can disturb; the properties then follow by arithmetic on numbers of
frames. `SomethingWritten` needs one more invariant, `Coded`: `encode()` comes to
its end only after the flush has returned at least one AU.

`ReaderChainProofs` proves the safety properties of `reader_chain` for every set
of ratios, kernel length, chunk, number of channels, input and split into
requests (`ResamplerAssumption`: positive ratios, a kernel of a multiple of four
taps, a positive chunk; `LimiterAssumption`: at least one channel, levels are a
sign and whether the full scale is exceeded; `ChainAssumption`). `ChainInv` says of the resampler
that its clock is exact (`OnTimeline`: `nfloor * L + frac = Outputs * M`), that
the frames it holds are consecutive and padded with silence only past the end
(`Contents`), and how far the source has been read (`Asked`); of the limiter that
frames are numbered without a gap from those handed out to those just computed
(`Numbered`), and that what is held back has one sign, which the last
processed sample has not (`HeldBack`). `ChainRefines` is the safety part of
`IsPcmSource`: the initial state and every step of the chain are those of the
abstract source or a stutter. A step delivers only frames that follow those
delivered, and the chain returns 0 only when `OutputLength` frames are out.

`BlockSwitchProofs` proves all properties of `block_switching`, for every set of
options, every frame length divisible by eight, and any attack windows and energies
(`BlockAssumption`). `LookAheadInv` is the point of the argument: between two frames
the right slope of the last block is what tells which sequences may follow, and
detection with synchronisation only leaves sequences whose left slope it is. In
AAC-LD a block may be marked as a start between detection and synchronisation, and
is long again when it is transformed (`LowDelayInv`). A pair has one window in both
channels (`PairInv`).

`DecoderSeesBlock` needs a second invariant, `SeenInv`: what the detector leaves
(`DetectedInv`) and what synchronisation makes of it (`SyncedInv`), that is which
shapes go with which sequence, and that both channels of a pair, which share one
ics_info(), have the same sequence, shape and groups; and that the groups of a short
block are among the sixteen lists the suggested tables, maximal and tight grouping
can give (`GroupsInv`). `GroupsReturn` shows of each of those lists that the seven
bits the encoder makes of it are read back as the same list. Long blocks have one
group whatever the mask, and the bit of the window shape has the meaning the
object type gives it.

`FrameCoderProofs` proves the safety properties of `frame_coder`, for every
configuration a program can ask for: any rate, frame length, reservoir, number of
sub-frames and channels, side information and demand (`ConfigAssumption`, what
`FDKaacEnc_Initialize()` and the transport encoder establish). The invariant has
layers, each proved from those before it:

* `TypeInv`: types; what was fixed at the start; a frame that is being coded has
  side information and an ID_END. Most of the work is to show that no bit count is
  negative (the padding, the fill elements, the average).
* `ConfigInv`: the PCE and mux counters are the distance from the last
  repetition, or have not started.
* `BudgetInv`: at each step of a frame, what is whole bytes (`TotalInv`), which
  header is in the budget, the estimate or the exact one (`HeaderInv`), that grant,
  side information and payload are the average less the header (`LedgerInv`), and
  that average and reservoir pay for the frame and can take what it leaves
  (`PaidInv`). The hard step is `SettleBudget`: the header shrinks, the difference
  goes to the reservoir or into fill bits, and those may make a LATM header grow
  by the byte it has lost, but by no more (`SettleDiff`, `LengthSteps`).
* `WrittenInv`: block numbers, byte positions, length fields, and that what has
  been written plus what closes the access unit is the header in the budget
  (`CountedInv`). That 13 bits hold the length of one ADTS block rests on
  the decoder's buffer: 6144 bits for each of at most eight channels, a PCE of at
  most 96 bits, and the header (`MaxBitsFit`, `HeaderTotal`).
* `DabInv`: access units of a superframe lie behind one another, markers point at
  the closed ones, and a complete superframe is at least as large as its
  subchannel. That it is no larger is not provable (finding 4), so
  `SuperframeExactAlways` has `SuperframeFits` as its hypothesis; the states it
  excludes are those of finding 4.

The three `M4af` modules prove what `m4a_writer` checks, for any number and size of
samples, any block, moov and chunk length and any limit of 32-bit fields
(`M4afAssumption`: samples have at least one word, the fixed part of moov holds
its header and its tables, there is room for a free box in front of the moved
data, a block is not empty). Each builds on the one before:

* `M4afProofs` has what all of them need: that the recursive functions of the model
  exist (`SumsExist`, by induction over a set of numbers, `NatUpTo`), what a sum of
  a prefix is (`SumOfOneMore`, `SumOfPrefix`, `SumAppend`), and what writing at a
  position leaves of a file (`OverlayFacts`). Then `TypeInv`: `TypeOK`, and at each
  location the values of the positions that later steps compute with.
  `ChunksTile` is not inductive, because it says nothing of where a chunk is.
  `ChunkInv` adds where (`PlaceInv`: at the sum of the sizes before it,
  counted from where the media data are now; the last chunk is in the buffer, with
  no offset, until it is flushed) and that only the last chunk may be empty
  (`TableInv`). That an empty last sample leaves an offset of 0 is the exception
  the property names.
* `M4afMediaProofs`: `LayoutInv` is the file at each location, its length included,
  and `DataInv` says that word q of the media data is that of the sample which the
  sums of the sizes give. The hard step is `ShiftBlockMedia`: words from `shiftEnd`
  on have been moved, words before it have not, and the block just written must not
  reach the latter; since blocks are taken from the end and moved up by a whole moov
  box, it never does. From both invariants follows `HeldInv`, that every
  sample accepted is where the tables say.
* `M4afStoreProofs`: the boxes a player finds walking the file. That the
  walk exists is by induction on what is left of the file (`WalkExists`);
  `BoxesDone` then follows it through the finished file in its four forms (moov
  first or last, mdat with a 32-bit or a 64-bit size). `LastRun` and
  `PlayerCountsFacts` show that the runs of stsc, which the code merges, give a
  player the number of samples of every chunk, `StoredFacts` that offsets are not
  cut, and `PlayIsHeld` that he therefore reads what the writer holds.
  `StoreImplemented` is the whole of `ImplementsStore`: the initial state maps
  to that of `SampleStore`, `WriteSample` to `Accept`, the last step of
  finalization to `Close`, a failure in any step to `Fail`, and all other steps to a
  stutter.

`BoxesTile` names the exact list of boxes; the empty free box before mdat is the
space `m4af_begin_write()` keeps for a 64-bit size.

`SbrEnvelopeProofs` proves the properties of `sbr_grid`, for every configuration,
and transients in any slots, of both channels independently (`SbrAssumption`: the
configurations are of their type, the positions natural numbers; only those before
the end of a frame are used). It is in three parts:

* The decoder reads what was laid. `VariableGrid` says what a grid of a variable
  class must be like: distances of two to eight slots, an even number in frames of
  2048 samples, at most five envelopes, sides that do not meet, a pointer that fits.
  `Transmitted` shows that such a grid is accepted and read back exactly, or in
  frames of 1920 samples with its first and last border and its resolutions
  (`Rounded`: an odd distance loses a slot, so the borders stay in order).
  FIXFIX and FIXFIXonly have their own lemmas (`FixFixRead`, `FixFixOnlyRead`).
* The generator lays such grids. `PostIs` computes the division of what lies behind
  a transient, `TailFacts` its borders: which one ends the frame, and which are left
  for the next. `GoodHead` is what may stand before the transient: fill borders, or
  the follow-up, cut by `fillFrameInter()` in one of its three ways (`FillFrameIs`).
  That five envelopes suffice is `FewEnough`: the later the transient, the fewer of
  its own borders fall into the frame. `KeptFollowUp` shows that what is kept is a
  `FollowUp` again, and `GeneratorMakes` sums up: from a generator between two
  frames (`GeneratorOK`) and any transient, a grid (`Made`) that starts where
  the last one ended and has the transient, and the one planned for, as borders.
* The element. The properties are not inductive: they speak of one frame, and
  `NothingConcealed` of two. `IInv` adds that the decoder has stopped where the
  generator will start (`Stops`), that the grids of the frame will be read back
  and end where the generator starts the next (`Grids`), that a pair which may be
  sent as one has one grid (`Pairing`, `Sent`), and that a transient not yet framed is
  the one just found or the first border of the follow-up (`Onsets`). In frames of
  1920 samples the two grids of a pair that compare equal must also both be of a
  variable class or neither: `ToldApart` is why (a variable class has a transient
  envelope, or borders that FIXFIX never has). TLC has checked `IInv` on the
  instance of `SbrEnvelope.cfg`; the proof is one lemma per action.

Only model-checked: `Termination`, `QuantizationEnds` and the liveness of `IsPcmSource`
(liveness under fairness, which the prover cannot handle), and that the assumptions
of the modules hold of the instances, among them `NoSpecialCase` about the tuning
of SBR. Every other property of a passing run is proved.

## Not modelled

The repository has 237000 lines of code in `src`; nine tenths of them are the
vendored codec: decoder libraries (not used by the encoder program, which only
encodes), SBR envelopes, MPEG Surround and psychoacoustics, filterbanks, fixed-point
arithmetic, and tables. Most of them compute numbers from one frame and have no
protocol that a state machine would describe; where the modelled parts depend on
their results the results are choices. The models cover the control of the
program around them, so their share of all lines is and will stay small.

Also left out: the content of tags, JSON, progress display, option parsing;
containers and sample converters, the Reed-Solomon code and PAD of DAB+, which are
functions of their input; `--min-bits-frame`, several channel elements sharing a
reservoir, and the thresholds that decide how many bits a spectrum takes;
parameters changed in a running stream, which the frontend never does; stdio
buffering: a write error that shows at `fclose()` is not noticed by the program
either.

## Plan

1. Several elements in `RateControl`: `FDKaacEnc_BitResRedistribution()` and the
   distribution over channels.
2. `DabReedSolomon`: the interleaving of `dab_rs.c` as a bijection.
3. `SbrHeader`: the header counter, the delta coding that depends on it and on the
   coupling of the frame before, and a decoder that misses frames.
4. `AacEncoder`: `SetParam`, init flags, re-initialisation during a stream.
5. Proofs for what is new. Of the present modules only liveness is not proved.
