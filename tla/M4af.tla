-------------------------------- MODULE M4af --------------------------------
(***************************************************************************)
(* The M4A (MP4) writer, src/src-fdkaac/src/m4af.c.  Samples are collected *)
(* in a chunk buffer and appended to the mdat box one chunk at a time; the *)
(* moov box with the sample tables is written behind mdat when the file is *)
(* finalized, and for --moov-before-mdat the media data are then moved     *)
(* towards the end of the file, block by block, to make room for a second  *)
(* moov box in front of them.                                              *)
(*                                                                         *)
(* The file is a sequence of 32-bit words; file positions and box sizes    *)
(* count words.  A box is a size word, a type word and a body.  Of the     *)
(* moov box only what a player needs to find a sample is kept, in one      *)
(* word: stco (chunk offsets), stsc (samples per chunk) and stsz (sample   *)
(* sizes).  The rest of it has a fixed size.  One track; every sample has  *)
(* the duration Delta, as main() sets a fixed frame duration.              *)
(***************************************************************************)
EXTENDS Integers, Sequences, FiniteSetsExt

CONSTANTS
    SampleSizes,  \* Sizes of the samples encode() writes.
    MaxSamples,   \* How many it writes (a bound for model checking).
    Delta,        \* frame_duration.
    HalfSecond,   \* timescale / 2: the longest chunk of several samples.
    MaxUint32,    \* The largest offset and box size that fit in one word.
    MoovFixed,    \* Size of the moov box without its chunk offsets.
    Slack,        \* Room left for a free box before the moved mdat (1024).
    BlockLen,     \* Size of the block copied at a time (2 MiB).
    Optimize      \* Values of optimize (--moov-before-mdat).

ASSUME M4afAssumption ==
    /\ SampleSizes \subseteq Nat \ {0}
    /\ {MaxSamples, Delta, HalfSecond, MaxUint32} \subseteq Nat
    /\ MoovFixed \in Nat /\ MoovFixed >= 3
    /\ Slack \in Nat /\ Slack >= 2
    /\ BlockLen \in Nat \ {0}
    /\ Optimize \subseteq BOOLEAN /\ Optimize # {}

VARIABLES
    file,        \* The words of the file.
    pos,         \* The file position.
    mdatPos,     \* Start of the media data.
    mdatSize,    \* Size of the media data written.
    samples,     \* sample_table: the size of each sample.
    chunks,      \* chunk_table.
    buffer,      \* chunk_buffer: words of the last chunk not yet written.
    lastError,   \* last_error is set.
    readFailed,  \* A block could not be read back (history).
    moovSize,    \* Size of the first moov box.
    shiftBy,     \* How far the media data move.
    shiftEnd,    \* End of the media data not yet moved.
    pc           \* Which function runs next.

vars == <<file, pos, mdatPos, mdatSize, samples, chunks, buffer, lastError,
          readFailed, moovSize, shiftBy, shiftEnd, pc>>

-----------------------------------------------------------------------------
(* Words, boxes and the file *)

Fill(n) == [i \in 1 .. n |-> <<"fill", 0>>]

Box(type, body) == <<<<"size", Len(body) + 2>>, <<"type", type>>>> \o body

(* The file after the words ws have been written at position p. *)
Overlay(f, p, ws) ==
    [i \in 1 .. Max({Len(f), p + Len(ws)}) |->
        IF i \in p + 1 .. p + Len(ws) THEN ws[i - p]
        ELSE IF i <= Len(f) THEN f[i] ELSE <<"fill", 0>>]

WordAt(p) == IF p + 1 \in 1 .. Len(file) THEN file[p + 1] ELSE <<"none", 0>>

WordsAt(p, n) == [k \in 1 .. n |-> WordAt(p + k - 1)]

Failed == lastError \/ readFailed

(* The writes of one step succeed, or one of them fails.  A failure sets   *)
(* last_error, which is never cleared.  What is in the file then matters   *)
(* to nobody: the model keeps it empty.                                    *)
Commit(f, p) ==
    /\ pos' = p
    /\ \/ file' = (IF Failed THEN << >> ELSE f) /\ UNCHANGED lastError
       \/ lastError' = TRUE /\ file' = << >>

(* The data of sample i. *)
Data(i, size) == [k \in 1 .. size |-> <<"data", i, k>>]

(* f[1] + ... + f[n] *)
Sum[f \in Seq(Nat)] ==
    IF f = << >> THEN 0 ELSE Sum[SubSeq(f, 1, Len(f) - 1)] + f[Len(f)]

SumTo(f, n) == Sum[SubSeq(f, 1, n)]

(* The chunk of sample i, and the size of the samples before it in there,  *)
(* from the number of samples of each chunk and the size of each sample.   *)
Place(counts, sizes, i) ==
    LET chunk == Min({j \in DOMAIN counts : SumTo(counts, j) >= i})
    IN  [chunk |-> chunk,
         skip  |-> SumTo(sizes, i - 1) - SumTo(sizes, SumTo(counts, chunk - 1))]

-----------------------------------------------------------------------------
(* Opening and writing samples *)

NoSamples == /\ samples = << >>
             /\ chunks = << >>
             /\ buffer = << >>

Init ==
    /\ NoSamples
    /\ file = << >>
    /\ pos = 0
    /\ mdatPos = 0
    /\ mdatSize = 0
    /\ lastError = FALSE
    /\ readFailed = FALSE
    /\ moovSize = 0
    /\ shiftBy = 0
    /\ shiftEnd = 0
    /\ pc = "begin"

FreeAndMdat == Box("free", << >>) \o <<<<"size", 0>>, <<"type", "mdat">>>>

(* m4af_begin_write(): ftyp, an empty free box (later the upper half of a  *)
(* 64-bit mdat header, if need be), and the head of mdat.  main() ignores  *)
(* what it returns; last_error tells the first write of a sample.          *)
BeginWrite ==
    /\ pc = "begin"
    /\ LET head == Box("ftyp", Fill(6)) \o FreeAndMdat
       IN  /\ Commit(Overlay(file, 0, head), Len(head))
           /\ mdatPos' = Len(head)
    /\ pc' = "write"
    /\ UNCHANGED <<mdatSize, samples, chunks, buffer, readFailed, moovSize,
                   shiftBy, shiftEnd>>

(* m4af_update_chunk_table() starts a chunk when the last one would become *)
(* longer than half a second.                                              *)
StartsChunk ==
    chunks = << >> \/ chunks[Len(chunks)].duration + Delta > HalfSecond

NewChunk == [offset |-> 0, size |-> 0, n |-> 0, duration |-> 0]

Grown(c, size) == [c EXCEPT !.size = @ + size, !.n = @ + 1,
                            !.duration = @ + Delta]

(* Mutant: the place of the chunk is taken after it has been written. *)
FlushedAfter ==
    IF buffer = << >> THEN chunks
    ELSE [chunks EXCEPT ![Len(chunks)].offset = pos + Len(buffer)]

(* The chunk table after m4af_flush_chunk(): the last chunk is where the   *)
(* file position is.  A chunk without data is not written and has no place.*)
Flushed ==
    IF buffer = << >> THEN chunks
                      ELSE [chunks EXCEPT ![Len(chunks)].offset = pos]

FlushChunk ==
    /\ Commit(Overlay(file, pos, buffer), pos + Len(buffer))
    /\ mdatSize' = mdatSize + Len(buffer)

(* m4af_write_sample().  The sample of a run that is interrupted may be    *)
(* empty (see EncodeLoop), and is then the last.  An allocation fails like *)
(* a write does; either way encode() ends.                                 *)
WriteSample(size) ==
    LET table == IF StartsChunk THEN Append(Flushed, NewChunk) ELSE chunks
        last == Len(table)
        data == Data(Len(samples) + 1, size)
    IN  /\ pc = "write"
        /\ Len(samples) < MaxSamples
        /\ IF lastError
             THEN /\ pc' = "failed"
                  /\ UNCHANGED <<samples, chunks, buffer, file, pos, mdatSize,
                                 lastError>>
             ELSE /\ samples' = Append(samples, size)
                  /\ chunks' = [table EXCEPT ![last] = Grown(@, size)]
                  /\ IF StartsChunk
                       THEN /\ FlushChunk
                            /\ buffer' = data
                       ELSE /\ buffer' = buffer \o data
                            /\ lastError' \in BOOLEAN
                            /\ UNCHANGED <<file, pos, mdatSize>>
                  /\ pc' = IF lastError' THEN "failed"
                           ELSE IF size = 0 THEN "finalize" ELSE "write"
        /\ UNCHANGED <<mdatPos, readFailed, moovSize, shiftBy, shiftEnd>>

-----------------------------------------------------------------------------
(* Finalizing *)

(* encode() is over; at least one sample was written.  m4af_finalize()     *)
(* flushes the last chunk.                                                 *)
FinalizeFlush ==
    /\ pc \in {"write", "finalize"}
    /\ samples # << >>
    /\ FlushChunk
    /\ chunks' = Flushed
    /\ buffer' = << >>
    /\ pc' = "mdat"
    /\ UNCHANGED <<mdatPos, samples, readFailed, moovSize, shiftBy, shiftEnd>>

(* m4af_finalize_mdat(): the size of mdat, in a 64-bit header that takes   *)
(* the place of the free box when it does not fit in 32 bits.              *)
SizedMdat(f, p) ==
    IF mdatSize + 2 > MaxUint32
      THEN Overlay(f, p - 4, <<<<"size", 1>>, <<"type", "mdat">>,
                               <<"size", mdatSize + 4>>, <<"fill", 0>>>>)
      ELSE Overlay(f, p - 2, <<<<"size", mdatSize + 2>>>>)

FinalizeMdat ==
    /\ pc = "mdat"
    /\ Commit(SizedMdat(file, mdatPos), mdatPos + mdatSize)
    /\ pc' = "moov"
    /\ UNCHANGED <<mdatPos, mdatSize, samples, chunks, buffer, readFailed,
                   moovSize, shiftBy, shiftEnd>>

(* m4af_write_stco_box() decides on 64-bit offsets by the last chunk. *)
Is64(table) == table[Len(table)].offset > MaxUint32

Stored(offset, is64) == IF is64 THEN offset ELSE offset % (MaxUint32 + 1)

(* m4af_write_stsc_box() has an entry for each chunk whose number of       *)
(* samples differs from that of the chunk before.                          *)
RunStarts(table) ==
    {j \in 1 .. Len(table) : j = 1 \/ table[j].n # table[j - 1].n}

Tables(table) ==
    [stco |-> [j \in 1 .. Len(table) |-> Stored(table[j].offset, Is64(table))],
     stsc |-> {[first |-> j, n |-> table[j].n] : j \in RunStarts(table)},
     stsz |-> samples]

MoovLen(table) == MoovFixed + Len(table) * (IF Is64(table) THEN 2 ELSE 1)

Moov(table) ==
    Box("moov", <<<<"tables", Tables(table)>>>> \o Fill(MoovLen(table) - 3))

WriteMoov ==
    /\ pc = "moov"
    /\ Commit(Overlay(file, pos, Moov(chunks)), pos + MoovLen(chunks))
    /\ moovSize' = MoovLen(chunks)
    /\ \E optimize \in Optimize : pc' = IF optimize THEN "patch" ELSE "done"
    /\ UNCHANGED <<mdatPos, mdatSize, samples, chunks, buffer, readFailed,
                   shiftBy, shiftEnd>>

Shifted(table, by) ==
    [j \in 1 .. Len(table) |-> [table[j] EXCEPT !.offset = @ + by]]

(* Mutant: the offsets do not follow the second growth of moov. *)
PatchMoovOnce ==
    /\ pc = "patch"
    /\ chunks' = Shifted(chunks, moovSize + Slack)
    /\ shiftBy' = MoovLen(chunks') + Slack
    /\ shiftEnd' = mdatPos + mdatSize
    /\ pc' = "shift"
    /\ UNCHANGED <<file, pos, mdatPos, mdatSize, samples, buffer, lastError,
                   readFailed, moovSize>>

(* m4af_patch_moov(): add the distance the media data will move to every   *)
(* chunk offset; when that makes the offsets 64 bits wide, moov and with   *)
(* it the distance grow once more.                                         *)
PatchMoov ==
    LET once == Shifted(chunks, moovSize + Slack)
        grown == MoovLen(once) - moovSize
    IN  /\ pc = "patch"
        /\ chunks' = Shifted(once, grown)
        /\ shiftBy' = MoovLen(chunks') + Slack
        /\ shiftEnd' = mdatPos + mdatSize
        /\ pc' = "shift"
        /\ UNCHANGED <<file, pos, mdatPos, mdatSize, samples, buffer,
                       lastError, readFailed, moovSize>>

(* Mutant: the last block may begin before the media data. *)
BlockStartUnbounded == shiftEnd - BlockLen

BlockStart == Max({mdatPos, shiftEnd - BlockLen})

(* One round of the loop of m4af_shift_mdat_pos(), from the end of the     *)
(* media data backwards.  Whether the read fails is not looked at: whatever *)
(* is in the buffer is then written (and the file not followed further).   *)
ShiftBlock ==
    /\ pc = "shift"
    /\ BlockStart < shiftEnd
    /\ \/ /\ Commit(Overlay(file, BlockStart + shiftBy,
                           WordsAt(BlockStart, shiftEnd - BlockStart)),
                   shiftEnd + shiftBy)
          /\ UNCHANGED readFailed
       \/ /\ readFailed' = TRUE
          /\ pos' = shiftEnd + shiftBy
          /\ file' = << >>
          /\ UNCHANGED lastError
    /\ shiftEnd' = BlockStart
    /\ UNCHANGED <<mdatPos, mdatSize, samples, chunks, buffer, moovSize,
                   shiftBy, pc>>

(* The rest of m4af_shift_mdat_pos(): a new mdat header. *)
ShiftHeader ==
    /\ pc = "shift"
    /\ BlockStart >= shiftEnd
    /\ mdatPos' = mdatPos + shiftBy
    /\ Commit(SizedMdat(Overlay(file, mdatPos' - 4, FreeAndMdat), mdatPos'),
              mdatPos' + mdatSize)
    /\ pc' = "front"
    /\ UNCHANGED <<mdatSize, samples, chunks, buffer, readFailed, moovSize,
                   shiftBy, shiftEnd>>

(* Mutant: the free box reaches over the mdat header. *)
FreeLenShort(p) == mdatPos - p - 2

(* The free box from p up to the header of mdat. *)
FreeLen(p) == mdatPos - p - 4

(* The end of m4af_finalize(): moov once more, after ftyp, and a free box  *)
(* over what is left of the old mdat.                                      *)
WriteMoovFront ==
    /\ pc = "front"
    /\ LET free == 8 + MoovLen(chunks)
       IN  Commit(Overlay(Overlay(file, 8, Moov(chunks)), free,
                          <<<<"size", FreeLen(free)>>, <<"type", "free">>>>),
                  free + FreeLen(free))
    /\ pc' = "done"
    /\ UNCHANGED <<mdatPos, mdatSize, samples, chunks, buffer, readFailed,
                   moovSize, shiftBy, shiftEnd>>

Stopped == pc \in {"done", "failed"} /\ UNCHANGED vars

Next ==
    \/ BeginWrite
    \/ \E size \in SampleSizes \union {0} : WriteSample(size)
    \/ FinalizeFlush
    \/ FinalizeMdat
    \/ WriteMoov
    \/ PatchMoov
    \/ ShiftBlock
    \/ ShiftHeader
    \/ WriteMoovFront
    \/ Stopped

Spec == Init /\ [][Next]_vars

-----------------------------------------------------------------------------
(* What a player does with the file *)

IsBox(p) == WordAt(p)[1] = "size" /\ WordAt(p + 1)[1] = "type"

BoxAt(p) ==
    LET wide == WordAt(p) = <<"size", 1>> /\ WordAt(p + 2)[1] = "size"
    IN  [type |-> WordAt(p + 1)[2],
         body |-> p + (IF wide THEN 4 ELSE 2),
         end  |-> p + (IF wide THEN WordAt(p + 2)[2] ELSE WordAt(p)[2])]

(* The boxes from position p to the end of the file; the walk ends where   *)
(* there is no box.                                                        *)
BoxesFrom[p \in Nat] ==
    IF IsBox(p) /\ BoxAt(p).end > p
      THEN <<BoxAt(p)>> \o BoxesFrom[BoxAt(p).end]
      ELSE << >>

Boxes == BoxesFrom[0]

Types == [i \in DOMAIN Boxes |-> Boxes[i].type]

TheBox(type) ==
    LET boxes == Boxes
    IN  boxes[CHOOSE i \in DOMAIN boxes : boxes[i].type = type]

(* The tables of the moov box, as a player reads them. *)
PlayerTables == WordAt(TheBox("moov").body)[2]

PlayerCounts(t) ==
    [j \in DOMAIN t.stco |->
        (CHOOSE e \in t.stsc :
            /\ e.first <= j
            /\ \A d \in t.stsc : d.first <= j => d.first <= e.first).n]

TablesSet == [stco : Seq(Nat), stsc : SUBSET [first : Nat, n : Nat],
              stsz : Seq(Nat)]

(* Where each sample starts. *)
SampleOffsets[t \in TablesSet] ==
    [i \in DOMAIN t.stsz |->
        LET p == Place(PlayerCounts(t), t.stsz, i)
        IN  t.stco[p.chunk] + p.skip]

Play(t) ==
    LET offsets == SampleOffsets[t]
    IN  [i \in DOMAIN t.stsz |-> WordsAt(offsets[i], t.stsz[i])]

-----------------------------------------------------------------------------
(***************************************************************************)
(* Properties                                                              *)
(***************************************************************************)

TypeOK ==
    /\ file \in Seq({<<"fill", 0>>} \union {WordAt(p) : p \in 0 .. Len(file) - 1})
    /\ {pos, mdatPos, mdatSize, moovSize, shiftBy} \subseteq Nat
    /\ samples \in Seq(SampleSizes \union {0})
    /\ chunks \in Seq([offset : Nat, size : Nat, n : Nat, duration : Nat])
    /\ buffer \in Seq(UNION {{<<"data", i, k>> : k \in 1 .. samples[i]} :
                              i \in DOMAIN samples})
    /\ {lastError, readFailed} \subseteq BOOLEAN
    /\ shiftEnd \in 0 .. mdatPos + mdatSize
    /\ pc \in {"begin", "write", "finalize", "mdat", "moov", "patch", "shift",
               "front", "done", "failed"}

Counts == [j \in DOMAIN chunks |-> chunks[j].n]
Sizes == [j \in DOMAIN chunks |-> chunks[j].size]

(* The chunk table, the sample table, the chunk buffer and the file agree  *)
(* after every call: each chunk has the size of its samples, follows the   *)
(* chunk before it without a gap, and what is not in the file yet is in    *)
(* the buffer.  An empty chunk has no place.                               *)
ChunksTile ==
    ~Failed /\ pc # "begin" =>
        /\ SumTo(Counts, Len(chunks)) = Len(samples)
        /\ \A j \in DOMAIN chunks :
              SumTo(Sizes, j) = SumTo(samples, SumTo(Counts, j))
        /\ SumTo(Sizes, Len(chunks)) = mdatSize + Len(buffer)
        /\ \A j \in 2 .. Len(chunks) :
              chunks[j].offset # 0 /\ chunks[j].size > 0 =>
                  chunks[j].offset = chunks[j - 1].offset + chunks[j - 1].size

(* A file m4af_finalize() reports as written consists of boxes from its    *)
(* first to its last byte, moov and mdat among them, and the body of mdat  *)
(* is exactly the media data, in 32-bit and 64-bit files and whether moov  *)
(* comes first or last.                                                    *)
BoxesTile ==
    pc = "done" /\ ~Failed =>
        /\ Boxes[Len(Boxes)].end = Len(file)
        /\ LET mdat == IF mdatSize + 2 > MaxUint32 THEN <<"mdat">>
                                                   ELSE <<"free", "mdat">>
           IN  Types = IF shiftBy > 0 THEN <<"ftyp", "moov", "free">> \o mdat
                                      ELSE <<"ftyp">> \o mdat \o <<"moov">>
        /\ TheBox("mdat").body = mdatPos
        /\ TheBox("mdat").end = mdatPos + mdatSize

(* When the file is larger than 32-bit offsets reach and the last chunk is *)
(* empty, its offset 0 makes moov choose 32-bit offsets all the same.      *)
TableTooNarrow ==
    ~Is64(chunks) /\ \E j \in DOMAIN chunks : chunks[j].offset > MaxUint32

(* Where position a of the media data is while they are being moved. *)
Located(a) == IF pc = "shift" /\ a - shiftBy < shiftEnd THEN a - shiftBy ELSE a

(* The words of sample i, wherever they are: in the chunk buffer, in the   *)
(* file before or after the move.                                          *)
Held(i) ==
    LET p == Place(Counts, samples, i)
        at == chunks[p.chunk].offset + p.skip
    IN  IF p.chunk = Len(chunks) /\ buffer # << >>
          THEN SubSeq(buffer, p.skip + 1, p.skip + samples[i])
          ELSE [k \in 1 .. samples[i] |-> WordAt(Located(at + k - 1))]

GivenUp == Failed \/ (pc = "done" /\ TableTooNarrow)

StoredSamples ==
    IF GivenUp THEN << >>
    ELSE IF pc = "done" THEN Play(PlayerTables)
    ELSE [i \in DOMAIN samples |-> Held(i)]

Store == INSTANCE SampleStore WITH
    Sizes <- SampleSizes \union {0},
    Sample <- Data,
    store <- StoredSamples,
    status <- IF GivenUp THEN "failed"
              ELSE IF pc = "done" THEN "closed" ELSE "open"

(* The writer implements the append-only store: in every state the samples *)
(* accepted so far can be read back in order from the file and the chunk   *)
(* buffer, also while the media data are being moved, and in the end a     *)
(* player finds each of them through moov.                                 *)
ImplementsStore == Store!Spec

=============================================================================
