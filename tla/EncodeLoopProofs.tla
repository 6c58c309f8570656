-------------------------- MODULE EncodeLoopProofs --------------------------
(***************************************************************************)
(* Proofs about EncodeLoop for every frame length, delay, input length and *)
(* superframe size.                                                        *)
(***************************************************************************)
EXTENDS EncodeLoop, TLAPS

Running == pc \notin {"failed"}

(* The extrapolator is at most one full buffer behind the source, is asked *)
(* for whole frames until the input ends, and has handed out exactly what  *)
(* fed records.                                                            *)
PaddedReaderInv ==
    /\ process = "process0" =>
          /\ srcPos = 0
          /\ nbuffer = 0
          /\ count = [i \in 0 .. 1 |-> 0]
          /\ fed = [head |-> 0, audio |-> 0, stale |-> 0, tail |-> 0]
    /\ process = "process1" =>
          /\ count[1 - nbuffer] \in 1 .. FrameLen
          /\ count[nbuffer] \in {0, FrameLen}
          /\ from[1 - nbuffer] = fed.audio
          /\ srcPos = fed.audio + count[1 - nbuffer]
          /\ count[1 - nbuffer] = FrameLen \/ srcPos = inputLen
          /\ fed.head = FrameLen /\ fed.stale = 0 /\ fed.tail = 0
    /\ process \in {"process2", "process3"} =>
          /\ srcPos = inputLen
          /\ fed.audio = inputLen
          /\ fed.head = FrameLen
          /\ fed.stale \in {0, FrameLen}
          /\ fed.tail + count[nbuffer] = FrameLen
          /\ process = "process3" <=> count[nbuffer] = 0
    /\ pc = "read" /\ process \in {"process0", "process1"} => got = 0
    /\ nread = 0 /\ ~interrupted => process = "process3"

PlainReaderInv ==
    /\ process = "process0"
    /\ count = [i \in 0 .. 1 |-> 0]
    /\ fed = [head |-> 0, audio |-> srcPos, stale |-> 0, tail |-> 0]
    /\ pc = "read" => got = 0 \/ srcPos = inputLen
    /\ nread = 0 /\ ~interrupted => srcPos = inputLen

ReaderInv == /\ Padded => PaddedReaderInv
             /\ ~Padded => PlainReaderInv
             /\ pc = "read" => got < FrameLen /\ nZerosAppended = 0
             /\ nread > 0 => nZerosAppended = 0

(* Every frame handed out has been taken by the encoder or is in ibuf. *)
FlowInv ==
    /\ pc \in {"top", "done", "main", "finished"} => accepted = FedTotal
    /\ pc = "read" => accepted + got = FedTotal
    /\ pc \in {"encode", "write"} => accepted + remaining = FedTotal
    /\ pc \in {"encode", "write"} /\ remaining > 0 => nread > 0
    /\ pc = "encode" /\ nread > 0 => remaining > 0
    /\ ~Padded /\ pc = "write" => remaining = 0
    /\ ~Padded /\ pc = "encode" /\ remaining > 0 =>
          /\ nSamplesRead = 0
          /\ remaining <= FrameLen
          /\ remaining < FrameLen => srcPos = inputLen
    /\ ~Padded /\ nSamplesRead > 0 => srcPos = inputLen
    /\ ~Padded /\ nSamplesRead > 0 /\ pc = "read" => got = 0

(* Samples in and zeros appended make up the AUs and the samples waiting. *)
EncoderInv ==
    /\ initFlags = "none"
    /\ nSamplesRead < FrameLen
    /\ accepted + nZerosAppended = nAU * FrameLen + nSamplesRead
    /\ nZerosAppended < Delay + FrameLen
    /\ nZerosAppended > 0 => nSamplesRead = 0
    /\ pc \in {"done", "main", "finished"} /\ SubFrames = 1 =>
          nZerosAppended >= Delay
    /\ pc \in {"done", "main", "finished"} => nSamplesRead = 0 /\ nread = 0

(* What is written keeps up with what is encoded. *)
InStep == \/ pc \in {"top", "read", "encode", "done"}
          \/ pc \in {"main", "finished"} /\ ~interrupted

(* AUs written after e outputs of the encoder in the padded loop. *)
WrittenAfter(e) == IF e <= 1 THEN 0 ELSE IF e = 2 THEN 1 ELSE e - 2

PaddedOutputInv ==
    /\ encoded = nAU
    /\ encoded > 0 => obuf[1 - flip] = encoded
    /\ pc = "write" =>
          /\ encoded = 2 \/ encoded > 3
          /\ obuf[flip] = encoded - 1
          /\ Len(written) = WrittenAfter(encoded) - 1
    /\ InStep => Len(written) = WrittenAfter(encoded)

PlainOutputInv ==
    /\ flip = 0
    /\ pc = "write" => 
          /\ pendingAU = 0
          /\ obuf[0] = nAU
          /\ nAU = (Len(written) + 1) * SubFrames
    /\ InStep => nAU = Len(written) * SubFrames + pendingAU

OutputInv ==
    /\ Padded => PaddedOutputInv
    /\ ~Padded => PlainOutputInv
    /\ pc = "write" \/ InStep =>
          \A i \in DOMAIN written : written[i] = AUAtPlace(i)

IInv ==
    /\ TypeOK
    /\ Running => ReaderInv /\ FlowInv /\ EncoderInv /\ OutputInv
    /\ WrittenInOrder
    /\ pc = "finished" => padding = PaddingOf(Len(written)) % WordMod

-----------------------------------------------------------------------------

(* The invariant holds before encode() has read anything. *)
LEMMA InitIInv == Init => IInv
  <1> SUFFICES ASSUME Init PROVE IInv
    OBVIOUS
  <1> USE ReaderAssumption, LoopAssumption
  <1>1. TypeOK
    <2>1. ReaderTypeOK
      BY DEF Init, ReaderInit, ReaderTypeOK, Phases, Kinds
    <2>2. BufferTypeOK
      BY DEF Init, BufferInit, BufferTypeOK
    <2>3. /\ written \in Seq(Nat)
          /\ padding \in 0 .. WordMod - 1
          /\ fed \in [head : Nat, audio : Nat, stale : Nat, tail : Nat]
          /\ obuf \in [0 .. 1 -> Nat]
      BY DEF Init
    <2> QED
      BY <2>1, <2>2, <2>3 DEF Init, TypeOK, Locations
  <1>2. ReaderInv
    BY DEF Init, ReaderInit, BufferInit, ReaderInv, PaddedReaderInv,
           PlainReaderInv
  <1>3. FlowInv
    BY DEF Init, ReaderInit, BufferInit, FlowInv, FedTotal
  <1>4. EncoderInv
    BY DEF Init, BufferInit, EncoderInv
  <1>5. OutputInv /\ WrittenInOrder
    BY DEF Init, BufferInit, OutputInv, PaddedOutputInv, PlainOutputInv,
           WrittenAfter, InStep, WrittenInOrder
  <1>6. pc # "finished"
    BY DEF Init
  <1> QED
    BY <1>1, <1>2, <1>3, <1>4, <1>5, <1>6 DEF IInv

(* A signal changes nothing but g_interrupted. *)
LEMMA InterruptIInv == IInv /\ Interrupt => IInv'
  <1> SUFFICES ASSUME IInv, Interrupt PROVE IInv'
    OBVIOUS
  <1> USE ReaderAssumption, LoopAssumption DEF Interrupt, readerVars, encoderVars
  <1>1. TypeOK'
    BY DEF IInv, TypeOK, ReaderTypeOK, BufferTypeOK
  <1>2. Running /\ ReaderInv /\ FlowInv /\ EncoderInv /\ OutputInv
    BY DEF IInv, Running
  <1>3. ReaderInv'
    BY <1>2 DEF ReaderInv, PaddedReaderInv, PlainReaderInv
  <1>4. FlowInv'
    BY <1>2 DEF FlowInv, FedTotal
  <1>5. EncoderInv'
    BY <1>2 DEF EncoderInv
  <1>6. OutputInv'
    BY <1>2 DEF OutputInv, PaddedOutputInv, PlainOutputInv, InStep, AUAtPlace
  <1>7. WrittenInOrder'
    BY DEF IInv, WrittenInOrder, AUAtPlace
  <1>8. pc' # "finished"
    OBVIOUS
  <1> QED
    BY <1>1, <1>3, <1>4, <1>5, <1>6, <1>7, <1>8 DEF IInv

(* Going round the loop loses no frame, whether it reads or flushes next. *)
LEMMA LoopTopIInv == IInv /\ LoopTop => IInv'
  <1> SUFFICES ASSUME IInv, LoopTop PROVE IInv'
    OBVIOUS
  <1> USE ReaderAssumption, LoopAssumption DEF LoopTop, readerVars, encoderVars
  <1>1. TypeOK'
    <2>1. ReaderTypeOK' /\ BufferTypeOK'
      BY DEF IInv, TypeOK, ReaderTypeOK, BufferTypeOK
    <2>2. pc' \in Locations /\ got' \in Nat /\ nread' \in Nat /\ remaining' \in Nat
      BY DEF IInv, TypeOK, Locations
    <2> QED
      BY <2>1, <2>2 DEF IInv, TypeOK
  <1>2. Running /\ ReaderInv /\ FlowInv /\ EncoderInv /\ OutputInv /\ TypeOK
    BY DEF IInv, Running
  <1>3. ReaderInv'
    BY <1>2 DEF ReaderInv, PaddedReaderInv, PlainReaderInv, TypeOK
  <1>4. FlowInv'
    BY <1>2 DEF FlowInv, FedTotal, TypeOK, BufferTypeOK
  <1>5. EncoderInv'
    BY <1>2 DEF EncoderInv
  <1>6. OutputInv'
    BY <1>2 DEF OutputInv, PaddedOutputInv, PlainOutputInv, InStep, AUAtPlace
  <1>7. WrittenInOrder'
    BY DEF IInv, WrittenInOrder, AUAtPlace
  <1>8. pc' # "finished"
    OBVIOUS
  <1> QED
    BY <1>1, <1>3, <1>4, <1>5, <1>6, <1>7, <1>8 DEF IInv

(* Appending keeps the entries there are and adds one. *)
LEMMA AppendFacts ==
    ASSUME NEW s \in Seq(Nat), NEW e \in Nat
    PROVE  /\ Append(s, e) \in Seq(Nat)
           /\ Len(s) \in Nat
           /\ Len(Append(s, e)) = Len(s) + 1
           /\ DOMAIN s = 1 .. Len(s)
           /\ DOMAIN Append(s, e) = 1 .. Len(s) + 1
           /\ \A i \in 1 .. Len(s) : Append(s, e)[i] = s[i]
           /\ Append(s, e)[Len(s) + 1] = e
  OBVIOUS

(* Writing an AU keeps the output in step with what was encoded. *)
LEMMA WriteIInv == IInv /\ Write => IInv'
  <1> SUFFICES ASSUME IInv, Write PROVE IInv'
    OBVIOUS
  <1> USE ReaderAssumption, LoopAssumption DEF Write, readerVars, encoderVars
  <1>1. Running /\ ReaderInv /\ FlowInv /\ EncoderInv /\ OutputInv /\ TypeOK
    BY DEF IInv, Running
  <1>a. obuf[flip] \in Nat /\ written \in Seq(Nat)
    BY <1>1 DEF TypeOK
  <1>2. written' \in Seq(Nat) /\ pc' \in Locations
    <2>1. CASE UNCHANGED written /\ pc' = "failed"
      BY <1>a, <2>1 DEF Locations
    <2>2. CASE /\ written' = Append(written, obuf[flip])
               /\ pc' = IF remaining > 0 THEN "encode" ELSE "top"
      BY <1>a, <2>2, AppendFacts DEF Locations
    <2> QED
      BY <2>1, <2>2
  <1>3. TypeOK'
    BY <1>1, <1>2 DEF TypeOK, ReaderTypeOK, BufferTypeOK
  <1>4. CASE pc' = "failed"
    <2>1. UNCHANGED written
      BY <1>4
    <2>2. WrittenInOrder'
      BY <2>1 DEF IInv, WrittenInOrder, AUAtPlace
    <2> QED
      BY <1>3, <1>4, <2>2 DEF IInv, Running
  <1>5. CASE pc' # "failed"
    <2>a. /\ written' = Append(written, obuf[flip])
          /\ pc' = IF remaining > 0 THEN "encode" ELSE "top"
      BY <1>5
    <2>1. /\ pc' = IF remaining > 0 THEN "encode" ELSE "top"
          /\ Len(written') = Len(written) + 1
          /\ \A i \in 1 .. Len(written) : written'[i] = written[i]
          /\ written'[Len(written) + 1] = obuf[flip]
          /\ DOMAIN written = 1 .. Len(written)
          /\ DOMAIN written' = 1 .. Len(written) + 1
          /\ Len(written) \in Nat
      BY <1>a, <2>a, AppendFacts
    <2>2. obuf[flip] = AUAtPlace(Len(written) + 1)
      <3>1. CASE Padded
        BY <1>1, <2>1, <3>1 DEF OutputInv, PaddedOutputInv, WrittenAfter,
               AUAtPlace, TypeOK
      <3>2. CASE ~Padded
        BY <1>1, <2>1, <3>2 DEF OutputInv, PlainOutputInv, AUAtPlace, TypeOK
      <3> QED
        BY <3>1, <3>2 DEF LoopAssumption
    <2>3. \A i \in DOMAIN written' : written'[i] = AUAtPlace(i)
      BY <1>1, <2>1, <2>2 DEF OutputInv
    <2>4. ReaderInv'
      BY <1>1, <2>1 DEF ReaderInv, PaddedReaderInv, PlainReaderInv
    <2>5. FlowInv'
      BY <1>1, <2>1 DEF FlowInv, FedTotal, TypeOK, BufferTypeOK
    <2>6. EncoderInv'
      BY <1>1, <2>1 DEF EncoderInv
    <2>7. OutputInv'
      <3>1. CASE Padded
        BY <1>1, <2>1, <2>3, <3>1 DEF OutputInv, PaddedOutputInv, InStep,
               AUAtPlace, WrittenAfter, TypeOK
      <3>2. CASE ~Padded
        BY <1>1, <2>1, <2>3, <3>2 DEF OutputInv, PlainOutputInv, InStep,
               AUAtPlace, TypeOK
      <3> QED
        BY <3>1, <3>2
    <2>8. WrittenInOrder'
      BY <2>3 DEF WrittenInOrder, AUAtPlace
    <2> QED
      BY <1>3, <2>1, <2>4, <2>5, <2>6, <2>7, <2>8 DEF IInv
  <1> QED
    BY <1>4, <1>5

(* Only an interrupted run writes once more at DONE. *)
LEMMA DoneIInv == IInv /\ Done => IInv'
  <1> SUFFICES ASSUME IInv, Done PROVE IInv'
    OBVIOUS
  <1> USE ReaderAssumption, LoopAssumption DEF Done, readerVars, encoderVars
  <1>1. Running /\ ReaderInv /\ FlowInv /\ EncoderInv /\ OutputInv /\ TypeOK
    BY DEF IInv, Running
  <1>2. FinalOutcome \in Nat
    BY <1>1 DEF FinalOutcome, TypeOK
  <1>3. TypeOK'
    <2>0. written \in Seq(Nat)
      BY <1>1 DEF TypeOK
    <2>1. written' \in Seq(Nat)
      BY <2>0, <1>2, AppendFacts
    <2>2. pc' \in Locations
      BY DEF Locations
    <2> QED
      BY <1>1, <2>1, <2>2 DEF TypeOK, ReaderTypeOK, BufferTypeOK
  <1>4. WrittenInOrder'
    <2>1. CASE UNCHANGED written
      BY <1>1, <2>1 DEF OutputInv, InStep, WrittenInOrder, AUAtPlace
    <2>2. CASE written' = Append(written, FinalOutcome) /\ interrupted
      <3>1. /\ Len(written) \in Nat
            /\ Len(written') = Len(written) + 1
            /\ DOMAIN written = 1 .. Len(written)
            /\ DOMAIN written' = 1 .. Len(written) + 1
            /\ \A i \in 1 .. Len(written) : written'[i] = written[i]
        BY <1>1, <1>2, <2>2, AppendFacts DEF TypeOK
      <3>2. \A i \in DOMAIN written : written[i] = AUAtPlace(i)
        BY <1>1 DEF OutputInv, InStep
      <3>3. ASSUME NEW i \in DOMAIN written'
            PROVE  written'[i] = AUAtPlace(i) \/ i = Len(written')
        BY <3>1, <3>2
      <3> QED
        BY <2>2, <3>3 DEF WrittenInOrder, AUAtPlace
    <2> QED
      BY <2>1, <2>2
  <1>5. ReaderInv'
    BY <1>1 DEF ReaderInv, PaddedReaderInv, PlainReaderInv
  <1>6. FlowInv'
    BY <1>1 DEF FlowInv, FedTotal
  <1>7. EncoderInv'
    BY <1>1 DEF EncoderInv
  <1>8. OutputInv'
    BY <1>1 DEF OutputInv, PaddedOutputInv, PlainOutputInv, InStep, AUAtPlace
  <1> QED
    BY <1>3, <1>4, <1>5, <1>6, <1>7, <1>8 DEF IInv

(* main() declares the padding from what was written and read. *)
LEMMA MainIInv == IInv /\ Main => IInv'
  <1> SUFFICES ASSUME IInv, Main PROVE IInv'
    OBVIOUS
  <1> USE ReaderAssumption, LoopAssumption DEF Main, readerVars, encoderVars
  <1>1. Running /\ ReaderInv /\ FlowInv /\ EncoderInv /\ OutputInv /\ TypeOK
    BY DEF IInv, Running
  <1>2. padding' \in 0 .. WordMod - 1
    <2>1. PaddingOf(Len(written)) \in Int
      BY <1>1 DEF PaddingOf, TypeOK, ReaderTypeOK
    <2> QED
      BY <2>1
  <1>3. TypeOK'
    BY <1>1, <1>2 DEF TypeOK, ReaderTypeOK, BufferTypeOK, Locations
  <1>4. ReaderInv'
    BY <1>1 DEF ReaderInv, PaddedReaderInv, PlainReaderInv
  <1>5. FlowInv'
    BY <1>1 DEF FlowInv, FedTotal
  <1>6. EncoderInv'
    BY <1>1 DEF EncoderInv
  <1>7. OutputInv'
    BY <1>1 DEF OutputInv, PaddedOutputInv, PlainOutputInv, InStep, AUAtPlace
  <1>8. WrittenInOrder'
    BY DEF IInv, WrittenInOrder, AUAtPlace
  <1> QED
    BY <1>3, <1>4, <1>5, <1>6, <1>7, <1>8 DEF IInv, PaddingOf

(* What a call of the reader must establish for the invariant to survive a *)
(* round of pcm_read_frames().                                             *)
LEMMA ReadStepEffect ==
    ASSUME IInv, ReadStep,
           ReaderTypeOK', ReaderInv', got' \in Nat, nread' \in Nat,
           remaining' \in Nat, pc' \in {"read", "encode"},
           fed' \in [head : Nat, audio : Nat, stale : Nat, tail : Nat],
           FedTotal' = FedTotal + (got' - got),
           pc' = "encode" => remaining' = got' /\ nread' = got',
           ~Padded => /\ got' <= FrameLen
                      /\ pc' = "encode" /\ got' < FrameLen => srcPos' = inputLen'
                      /\ nSamplesRead > 0 => got' = 0 /\ srcPos' = inputLen'
    PROVE  IInv'
  <1> USE ReaderAssumption, LoopAssumption
  <1>1. Running /\ ReaderInv /\ FlowInv /\ EncoderInv /\ OutputInv /\ TypeOK
    BY DEF IInv, Running, ReadStep
  <1>2. /\ pc = "read"
        /\ UNCHANGED <<initFlags, nSamplesRead, nZerosAppended, accepted, nAU,
                       pendingAU, out, interrupted, flip, encoded, obuf,
                       written, padding>>
    BY DEF ReadStep, encoderVars
  <1>3. TypeOK'
    BY <1>1, <1>2 DEF TypeOK, BufferTypeOK, Locations
  <1>4. FlowInv'
    <2>1. accepted + got = FedTotal /\ accepted \in Nat /\ got \in Nat
      BY <1>1, <1>2 DEF FlowInv, TypeOK, BufferTypeOK
    <2>2. accepted' + got' = FedTotal'
      BY <2>1, <1>2
    <2>3. CASE pc' = "read"
      BY <1>1, <1>2, <2>2, <2>3 DEF FlowInv
    <2>4. CASE pc' = "encode"
      <3>1. nSamplesRead \in 0 .. FrameLen
        BY <1>1 DEF TypeOK, BufferTypeOK
      <3>2. /\ remaining' = got' /\ nread' = got' /\ got' \in Nat
            /\ nSamplesRead' = nSamplesRead
        BY <1>2, <2>4
      <3>3. CASE Padded
        BY <2>2, <2>4, <3>2, <3>3 DEF FlowInv
      <3>4. CASE ~Padded
        <4>1. got' <= FrameLen /\ (got' < FrameLen => srcPos' = inputLen')
          BY <2>4, <3>4
        <4>2. nSamplesRead > 0 => got' = 0 /\ srcPos' = inputLen'
          BY <3>4
        <4> QED
          <5>1. accepted' + remaining' = FedTotal'
            BY <2>2, <3>2
          <5>2. nSamplesRead' > 0 => srcPos' = inputLen'
            BY <3>2, <4>2
          <5>3. remaining' > 0 =>
                   /\ nSamplesRead' = 0
                   /\ remaining' <= FrameLen
                   /\ remaining' < FrameLen => srcPos' = inputLen'
            BY <3>1, <3>2, <4>1, <4>2
          <5> QED
            BY <2>4, <3>2, <3>4, <5>1, <5>2, <5>3 DEF FlowInv
      <3> QED
        BY <3>3, <3>4
    <2> QED
      BY <2>3, <2>4
  <1>5. EncoderInv'
    BY <1>1, <1>2 DEF EncoderInv
  <1>6. OutputInv'
    BY <1>1, <1>2 DEF OutputInv, PaddedOutputInv, PlainOutputInv, InStep,
                      AUAtPlace
  <1>7. WrittenInOrder'
    BY <1>2 DEF IInv, WrittenInOrder, AUAtPlace
  <1> QED
    BY <1>3, <1>4, <1>5, <1>6, <1>7 DEF IInv

(* What Feed records of frames that were all copied, and of frames a join  *)
(* claims beyond those copied.                                             *)
LEMMA FeedFacts ==
    ASSUME TypeOK, NEW k \in Kinds, NEW p \in Nat, NEW c \in Nat, NEW m \in Nat,
           m >= c, Returns(k, p, c, m), Feed(ret')
    PROVE  /\ ret' \in [kind : Kinds, from : Nat, copied : Nat, n : Nat]
           /\ ret'.n = m
           /\ fed' \in [head : Nat, audio : Nat, stale : Nat, tail : Nat]
           /\ FedTotal' = FedTotal + IF k = "none" THEN m - c ELSE m
           /\ fed'.head = fed.head + IF k = "head" THEN c ELSE 0
           /\ fed'.audio = fed.audio + IF k = "audio" THEN c ELSE 0
           /\ fed'.tail = fed.tail + IF k = "tail" THEN c ELSE 0
           /\ fed'.stale = fed.stale + (m - c)
  <1>1. /\ ret' = [kind |-> k, from |-> p, copied |-> c, n |-> m]
        /\ fed \in [head : Nat, audio : Nat, stale : Nat, tail : Nat]
    BY DEF Returns, TypeOK
  <1>2. /\ ret'.kind = k /\ ret'.copied = c /\ ret'.n = m
        /\ ret' \in [kind : Kinds, from : Nat, copied : Nat, n : Nat]
    BY <1>1
  <1>3. fed' = [head  |-> fed.head + IF k = "head" THEN c ELSE 0,
                audio |-> fed.audio + IF k = "audio" THEN c ELSE 0,
                stale |-> fed.stale + (m - c),
                tail  |-> fed.tail + IF k = "tail" THEN c ELSE 0]
    BY <1>1, <1>2 DEF Feed
  <1> QED
    BY <1>1, <1>2, <1>3 DEF FedTotal, Kinds

(* The source delivers what is asked for, or the rest of the input. *)
LEMMA AvailableFacts ==
    ASSUME TypeOK, NEW n \in Nat
    PROVE  /\ Available(n) \in Nat
           /\ Available(n) <= n
           /\ srcPos + Available(n) \in 0 .. inputLen
           /\ Available(n) = n \/ srcPos + Available(n) = inputLen
           /\ n > 0 /\ Available(n) = 0 => srcPos = inputLen
  BY ReaderAssumption DEF TypeOK, ReaderTypeOK, Available, Least

(* A round of pcm_read_frames(), in each phase of the extrapolator or
   straight from the source, keeps the invariant. *)
LEMMA ReadStepIInv == IInv /\ ReadStep => IInv'
  <1> SUFFICES ASSUME IInv, ReadStep PROVE IInv'
    OBVIOUS
  <1> USE ReaderAssumption, LoopAssumption
  <1>1. Running /\ ReaderInv /\ FlowInv /\ EncoderInv /\ OutputInv /\ TypeOK
    BY DEF IInv, Running, ReadStep
  <1>f. Feed(ret')
    BY DEF ReadStep
  <1>2. /\ pc = "read" /\ got' = got + ret'.n
        /\ \/ /\ ret'.n > 0 /\ got' < FrameLen
              /\ pc' = "read" /\ nread' = nread /\ remaining' = remaining
           \/ /\ ~(ret'.n > 0 /\ got' < FrameLen)
              /\ pc' = "encode" /\ nread' = got' /\ remaining' = got'
        /\ UNCHANGED <<interrupted, nZerosAppended>>
    BY DEF ReadStep, encoderVars
  <1>3. got \in Nat /\ got < FrameLen /\ nZerosAppended = 0
    BY <1>1, <1>2 DEF ReaderInv, TypeOK
  <1> DEFINE n == FrameLen - got
  <1>4. n \in Nat \ {0} /\ n <= FrameLen
    BY <1>3
  <1> HIDE DEF n
  <1>5. CASE ~Padded
    <2> DEFINE a == Available(n)
    <2>1. /\ Returns("audio", srcPos, a, a)
          /\ srcPos' = srcPos + a
          /\ UNCHANGED <<inputLen, count, from, nbuffer, process>>
      BY <1>5 DEF ReadStep, ReadSource, n
    <2>2. /\ a \in Nat /\ a <= n /\ srcPos + a \in 0 .. inputLen
          /\ a = n \/ srcPos + a = inputLen
          /\ a = 0 => srcPos = inputLen
      BY <1>1, <1>4, AvailableFacts
    <2> HIDE DEF a
    <2>3. srcPos \in Nat /\ "audio" \in Kinds
      BY <1>1 DEF TypeOK, ReaderTypeOK, Kinds
    <2>4. /\ ret' \in [kind : Kinds, from : Nat, copied : Nat, n : Nat]
          /\ ret'.n = a
          /\ fed' \in [head : Nat, audio : Nat, stale : Nat, tail : Nat]
          /\ FedTotal' = FedTotal + a
          /\ fed'.head = fed.head
          /\ fed'.audio = fed.audio + a
          /\ fed'.tail = fed.tail
          /\ fed'.stale = fed.stale
      <3>1. fed \in [head : Nat, audio : Nat, stale : Nat, tail : Nat]
        BY <1>1 DEF TypeOK
      <3> QED
        BY <1>1, <1>f, <2>1, <2>2, <2>3, <3>1, FeedFacts
    <2>5. ReaderTypeOK'
      BY <1>1, <2>1, <2>2, <2>4 DEF TypeOK, ReaderTypeOK
    <2>6. PlainReaderInv
      BY <1>1, <1>5 DEF ReaderInv
    <2>7. fed' = [head |-> 0, audio |-> srcPos', stale |-> 0, tail |-> 0]
      BY <2>1, <2>4, <2>6 DEF PlainReaderInv
    <2>8. got' = got + a /\ got' \in Nat /\ got' <= FrameLen
      BY <1>2, <1>3, <1>4, <2>2, <2>4 DEF n
    <2>9. /\ pc' \in {"read", "encode"}
          /\ pc' = "encode" => remaining' = got' /\ nread' = got'
      BY <1>2
    <2>10. PlainReaderInv'
      <3>1. pc' = "read" => got' = 0 \/ srcPos' = inputLen'
        BY <1>2, <1>3, <2>1, <2>2, <2>4, <2>8 DEF n
      <3>2. nread' = 0 /\ ~interrupted' => srcPos' = inputLen'
        <4>1. CASE pc' = "read"
          BY <1>2, <2>1, <2>2, <2>3, <2>6, <2>8, <4>1, <1>1
             DEF PlainReaderInv, TypeOK, ReaderTypeOK
        <4>2. CASE pc' = "encode"
          BY <1>3, <2>1, <2>2, <2>3, <2>8, <2>9, <4>2
        <4> QED
          BY <2>9, <4>1, <4>2
      <3> QED
        BY <2>1, <2>6, <2>7, <3>1, <3>2 DEF PlainReaderInv
    <2>11. ReaderInv'
      BY <1>2, <1>3, <1>5, <2>8, <2>9, <2>10 DEF ReaderInv
    <2>12. nSamplesRead > 0 => got' = 0 /\ srcPos' = inputLen'
      BY <1>1, <1>2, <1>5, <2>1, <2>2, <2>3, <2>8
         DEF FlowInv, TypeOK, ReaderTypeOK
    <2>13. nread' \in Nat /\ remaining' \in Nat
      BY <1>1, <1>2, <2>8 DEF TypeOK
    <2>14. FedTotal' = FedTotal + (got' - got)
      BY <1>3, <2>2, <2>4, <2>8
    <2>15. got' < FrameLen => srcPos' = inputLen'
      BY <1>3, <2>1, <2>2, <2>8 DEF n
    <2> QED
      BY <1>5, <2>4, <2>5, <2>8, <2>9, <2>11, <2>12, <2>13, <2>14, <2>15,
         ReadStepEffect
  <1>a. /\ inputLen \in Nat /\ srcPos \in 0 .. inputLen
        /\ count \in [0 .. 1 -> Nat] /\ from \in [0 .. 1 -> Nat]
        /\ nbuffer \in 0 .. 1 /\ 1 - nbuffer \in 0 .. 1
        /\ 1 - (1 - nbuffer) = nbuffer /\ 1 - nbuffer # nbuffer
        /\ fed.head \in Nat /\ fed.audio \in Nat /\ fed.tail \in Nat
        /\ fed.stale \in Nat
    BY <1>1 DEF TypeOK, ReaderTypeOK
  <1>b. /\ Kinds = {"none", "head", "audio", "tail"}
        /\ Phases = {"process0", "process1", "process2", "process3"}
    BY DEF Kinds, Phases
  <1>6. CASE Padded /\ Process0(n)
    <2>1. PaddedReaderInv /\ got = 0 /\ n = FrameLen /\ process = "process0"
      BY <1>1, <1>2, <1>6 DEF ReaderInv, PaddedReaderInv, Process0, n
    <2>2. /\ fed = [head |-> 0, audio |-> 0, stale |-> 0, tail |-> 0]
          /\ srcPos = 0 /\ nbuffer = 0 /\ count = [i \in 0 .. 1 |-> 0]
          /\ inputLen' = inputLen
      BY <1>6, <2>1 DEF PaddedReaderInv, ReadStep, ReadFrames
    <2>3. /\ ret' \in [kind : Kinds, from : Nat, copied : Nat, n : Nat]
          /\ ret'.n = n
          /\ fed' \in [head : Nat, audio : Nat, stale : Nat, tail : Nat]
          /\ FedTotal' = FedTotal + n
          /\ fed'.head = FrameLen /\ fed'.audio = 0 /\ fed'.tail = 0
          /\ fed'.stale = 0
      <3>1. Returns("head", 0, n, n) /\ "head" \in Kinds
        BY <1>6, <1>b DEF Process0
      <3> QED
        BY <1>1, <1>4, <1>f, <2>1, <2>2, <3>1, FeedFacts
    <2>4. got' = FrameLen /\ pc' = "encode" /\ remaining' = got' /\ nread' = got'
      BY <1>2, <2>1, <2>3
    <2> DEFINE a == Available(n)
    <2>5. a \in Nat /\ a <= FrameLen /\ a \in 0 .. inputLen
          /\ (a = n \/ a = inputLen) /\ (a = 0 => inputLen = 0)
      BY <1>1, <1>4, <2>1, <2>2, AvailableFacts
    <2>6. ReaderTypeOK' /\ PaddedReaderInv'
      <3>1. CASE FetchFills(n) /\ process' = "process1"
        <4>1. /\ a > 0 /\ srcPos' = a /\ nbuffer' = 1
              /\ count' = [count EXCEPT ![0] = a]
              /\ from' = [from EXCEPT ![0] = 0]
          BY <2>2, <2>5, <3>1 DEF FetchFills
        <4> HIDE DEF a
        <4>2. count'[0] = a /\ count'[1] = 0 /\ from'[0] = 0
              /\ count' \in [0 .. 1 -> Nat] /\ from' \in [0 .. 1 -> Nat]
          BY <1>a, <2>2, <2>5, <4>1
        <4>3. ReaderTypeOK'
          BY <1>1, <1>b, <2>2, <2>3, <2>5, <3>1, <4>1, <4>2 DEF TypeOK, ReaderTypeOK
        <4> QED
          BY <2>1, <2>2, <2>3, <2>4, <2>5, <3>1, <4>1, <4>2, <4>3
             DEF PaddedReaderInv
      <3>2. CASE /\ FetchEmpty(n)
                 /\ count' = [count EXCEPT ![nbuffer] = n]
                 /\ process' = "process2"
        <4>1. /\ a = 0 /\ UNCHANGED <<srcPos, from, nbuffer>>
              /\ count' = [count EXCEPT ![0] = n]
          BY <2>2, <3>2 DEF FetchEmpty
        <4> HIDE DEF a
        <4>2. count'[0] = FrameLen /\ count' \in [0 .. 1 -> Nat]
          BY <1>a, <2>1, <2>2, <4>1
        <4>3. ReaderTypeOK'
          BY <1>1, <1>b, <2>2, <2>3, <2>5, <3>2, <4>1, <4>2 DEF TypeOK, ReaderTypeOK
        <4> QED
          BY <2>1, <2>2, <2>3, <2>4, <2>5, <3>2, <4>1, <4>2, <4>3
             DEF PaddedReaderInv
      <3> QED
        BY <1>6, <3>1, <3>2 DEF Process0
    <2>7. ReaderInv'
      BY <1>2, <1>3, <1>6, <2>4, <2>6 DEF ReaderInv
    <2>8. FedTotal' = FedTotal + (got' - got)
      BY <2>1, <2>3, <2>4
    <2>9. got' \in Nat /\ nread' \in Nat /\ remaining' \in Nat
      BY <2>4
    <2> QED
      BY <1>6, <2>3, <2>4, <2>6, <2>7, <2>8, <2>9, ReadStepEffect
  <1>7. CASE Padded /\ Process1(n)
    <2> DEFINE c == count[1 - nbuffer]
               m == IF FetchEmpty(n) THEN LastCount(1 - nbuffer, nbuffer) ELSE c
               a == Available(n)
    <2>1. /\ PaddedReaderInv /\ got = 0 /\ n = FrameLen
          /\ process = "process1" /\ inputLen' = inputLen
      BY <1>1, <1>2, <1>7
         DEF ReaderInv, PaddedReaderInv, Process1, n, ReadStep, ReadFrames
    <2>2. /\ c \in 1 .. FrameLen
          /\ count[nbuffer] \in {0, FrameLen}
          /\ from[1 - nbuffer] = fed.audio
          /\ srcPos = fed.audio + c
          /\ c = FrameLen \/ srcPos = inputLen
          /\ fed.head = FrameLen /\ fed.stale = 0 /\ fed.tail = 0
          /\ nread = 0 /\ ~interrupted => FALSE
      BY <2>1 DEF PaddedReaderInv
    <2>3. m \in {c, c + FrameLen}
      BY <1>a, <2>2 DEF LastCount, Joins
    <2>4. /\ a \in Nat /\ a <= FrameLen /\ srcPos + a \in 0 .. inputLen
          /\ (a = FrameLen \/ srcPos + a = inputLen)
          /\ (a = 0 => srcPos = inputLen)
      BY <1>1, <1>4, <2>1, AvailableFacts
    <2>5. /\ ret' \in [kind : Kinds, from : Nat, copied : Nat, n : Nat]
          /\ ret'.n = m
          /\ fed' \in [head : Nat, audio : Nat, stale : Nat, tail : Nat]
          /\ FedTotal' = FedTotal + m
          /\ fed'.head = FrameLen /\ fed'.audio = fed.audio + c
          /\ fed'.tail = 0 /\ fed'.stale = m - c
      <3>1. Returns("audio", fed.audio, c, m) /\ "audio" \in Kinds
        BY <1>7, <1>b, <2>2, <2>4 DEF Process1, FetchFills, FetchEmpty
      <3> HIDE DEF c, m
      <3>2. c \in Nat /\ m \in Nat /\ m >= c
        BY <2>2, <2>3
      <3> QED
        BY <1>1, <1>a, <1>f, <2>2, <3>1, <3>2, FeedFacts
    <2>6. CASE /\ FetchFills(n)
               /\ UNCHANGED process
      <3>1. /\ a > 0 /\ srcPos' = srcPos + a /\ nbuffer' = 1 - nbuffer
            /\ count' = [count EXCEPT ![nbuffer] = a]
            /\ from' = [from EXCEPT ![nbuffer] = srcPos]
            /\ m = c
        BY <2>6 DEF FetchFills, FetchEmpty
      <3> HIDE DEF a, m
      <3>2. c = FrameLen
        BY <2>2, <2>4, <3>1, <1>a
      <3>3. /\ count'[nbuffer] = a /\ count'[1 - nbuffer] = FrameLen
            /\ from'[nbuffer] = srcPos
            /\ count' \in [0 .. 1 -> Nat] /\ from' \in [0 .. 1 -> Nat]
        BY <1>a, <2>4, <3>1, <3>2
      <3> HIDE DEF c
      <3>4. got' = FrameLen /\ pc' = "encode" /\ remaining' = got' /\ nread' = got'
        BY <1>2, <2>1, <2>5, <3>1, <3>2
      <3>5. ReaderTypeOK'
        BY <1>1, <1>a, <1>b, <2>1, <2>4, <2>5, <2>6, <3>1, <3>3
           DEF TypeOK, ReaderTypeOK
      <3>6. 1 - nbuffer' = nbuffer
        BY <1>a, <3>1
      <3>7. PaddedReaderInv'
        BY <1>a, <2>1, <2>2, <2>4, <2>5, <2>6, <3>1, <3>2, <3>3, <3>4, <3>6
           DEF PaddedReaderInv
      <3>8. ReaderInv'
        BY <1>2, <1>3, <1>7, <3>4, <3>7 DEF ReaderInv
      <3>9. FedTotal' = FedTotal + (got' - got)
        BY <2>1, <2>5, <3>1, <3>2, <3>4
      <3>10. got' \in Nat /\ nread' \in Nat /\ remaining' \in Nat
        BY <3>4
      <3> QED
        BY <1>7, <2>5, <3>4, <3>5, <3>8, <3>9, <3>10, ReadStepEffect
    <2>7. CASE /\ FetchEmpty(n)
               /\ count' = [count EXCEPT ![1 - nbuffer] =
                                LastCount(1 - nbuffer, nbuffer),
                                         ![nbuffer] = n]
               /\ process' = "process2"
      <3>1. /\ a = 0 /\ UNCHANGED <<srcPos, from, nbuffer>>
            /\ count' = [count EXCEPT ![1 - nbuffer] = m, ![nbuffer] = FrameLen]
        BY <2>1, <2>7 DEF FetchEmpty
      <3> HIDE DEF a, m
      <3>2. m \in Nat /\ m > 0 /\ m - c \in {0, FrameLen}
        BY <2>2, <2>3
      <3>3. count'[nbuffer] = FrameLen /\ count' \in [0 .. 1 -> Nat]
        BY <1>a, <3>1, <3>2
      <3> HIDE DEF c
      <3>4. /\ got' = m /\ got' > 0 /\ got' \in Nat
            /\ pc' \in {"read", "encode"}
            /\ pc' = "read" => got' < FrameLen /\ nread' = nread
                               /\ remaining' = remaining
            /\ pc' = "encode" => remaining' = got' /\ nread' = got'
        BY <1>2, <2>1, <2>5, <3>2
      <3>5. ReaderTypeOK'
        BY <1>1, <1>a, <1>b, <2>1, <2>5, <2>7, <3>1, <3>3 DEF TypeOK, ReaderTypeOK
      <3>6. nread' = 0 /\ ~interrupted' => FALSE
        BY <1>2, <2>2, <3>4
      <3>7. PaddedReaderInv'
        BY <1>a, <2>1, <2>2, <2>4, <2>5, <2>7, <3>1, <3>2, <3>3, <3>4, <3>6
           DEF PaddedReaderInv
      <3>8. ReaderInv'
        BY <1>2, <1>3, <1>7, <3>4, <3>7 DEF ReaderInv
      <3>9. FedTotal' = FedTotal + (got' - got)
        BY <2>1, <2>5, <3>2, <3>4
      <3>10. nread' \in Nat /\ remaining' \in Nat
        BY <1>1, <3>4 DEF TypeOK
      <3> QED
        BY <1>7, <2>5, <3>4, <3>5, <3>8, <3>9, <3>10, ReadStepEffect
    <2> QED
      BY <1>7, <2>6, <2>7 DEF Process1
  <1>8. CASE Padded /\ Process2(n)
    <2> DEFINE m == Least(n, count[nbuffer])
    <2>1. /\ PaddedReaderInv /\ process = "process2" /\ inputLen' = inputLen
          /\ Returns("tail", 0, m, m)
          /\ count' = [count EXCEPT ![nbuffer] = @ - m]
          /\ process' = IF count[nbuffer] = m THEN "process3" ELSE "process2"
          /\ UNCHANGED <<srcPos, from, nbuffer>>
      BY <1>1, <1>8 DEF ReaderInv, Process2, ReadStep, ReadFrames
    <2>2. /\ srcPos = inputLen /\ fed.audio = inputLen /\ fed.head = FrameLen
          /\ fed.stale \in {0, FrameLen}
          /\ fed.tail + count[nbuffer] = FrameLen
          /\ count[nbuffer] # 0
          /\ nread = 0 /\ ~interrupted => FALSE
      BY <2>1 DEF PaddedReaderInv
    <2>3. m \in Nat /\ m > 0 /\ m <= n /\ m <= count[nbuffer]
      BY <1>4, <1>a, <2>2 DEF Least
    <2> HIDE DEF m
    <2>4. /\ ret' \in [kind : Kinds, from : Nat, copied : Nat, n : Nat]
          /\ ret'.n = m
          /\ fed' \in [head : Nat, audio : Nat, stale : Nat, tail : Nat]
          /\ FedTotal' = FedTotal + m
          /\ fed'.head = FrameLen /\ fed'.audio = fed.audio
          /\ fed'.tail = fed.tail + m /\ fed'.stale = fed.stale
      <3>1. "tail" \in Kinds /\ Returns("tail", 0, m, m) /\ m >= m /\ m \in Nat
        BY <1>b, <2>1, <2>3
      <3>2. fed.head = FrameLen /\ m - m = 0
        BY <2>2, <2>3
      <3> QED
        BY <1>1, <1>a, <1>f, <3>1, <3>2, FeedFacts
    <2>5. /\ count'[nbuffer] = count[nbuffer] - m
          /\ count' \in [0 .. 1 -> Nat]
          /\ count[nbuffer] \in Nat
      BY <1>a, <2>1, <2>3
    <2>6. /\ got' = got + m /\ got' > 0 /\ got' \in Nat
          /\ pc' \in {"read", "encode"}
          /\ pc' = "read" => got' < FrameLen /\ nread' = nread
                             /\ remaining' = remaining
          /\ pc' = "encode" => remaining' = got' /\ nread' = got'
      BY <1>2, <1>3, <2>3, <2>4
    <2>7. ReaderTypeOK'
      BY <1>1, <1>a, <1>b, <2>1, <2>4, <2>5 DEF TypeOK, ReaderTypeOK
    <2>8. nread' = 0 /\ ~interrupted' => FALSE
      BY <1>2, <2>2, <2>6
    <2>9. PaddedReaderInv'
      <3>1. process' \in {"process2", "process3"}
        BY <2>1
      <3>2. process' = "process3" <=> count'[nbuffer'] = 0
        BY <2>1, <2>3, <2>5
      <3>3. fed'.tail + count'[nbuffer'] = FrameLen
        BY <1>a, <2>1, <2>2, <2>3, <2>4, <2>5
      <3> QED
        BY <2>1, <2>2, <2>4, <2>8, <3>1, <3>2, <3>3 DEF PaddedReaderInv
    <2>10. ReaderInv'
      BY <1>2, <1>3, <1>8, <2>6, <2>9 DEF ReaderInv
    <2>11. FedTotal' = FedTotal + (got' - got)
      BY <1>3, <2>3, <2>4, <2>6
    <2>12. nread' \in Nat /\ remaining' \in Nat
      BY <1>1, <2>6 DEF TypeOK
    <2> QED
      BY <1>8, <2>4, <2>6, <2>7, <2>10, <2>11, <2>12, ReadStepEffect
  <1>9. CASE Padded /\ Process3(n)
    <2>1. /\ PaddedReaderInv /\ process = "process3" /\ inputLen' = inputLen
          /\ Returns("none", 0, 0, 0)
          /\ UNCHANGED <<srcPos, count, from, nbuffer, process>>
      BY <1>1, <1>9 DEF ReaderInv, Process3, ReadStep, ReadFrames
    <2>2. /\ ret' \in [kind : Kinds, from : Nat, copied : Nat, n : Nat]
          /\ ret'.n = 0
          /\ fed' \in [head : Nat, audio : Nat, stale : Nat, tail : Nat]
          /\ FedTotal' = FedTotal + 0
          /\ fed'.head = fed.head /\ fed'.audio = fed.audio
          /\ fed'.tail = fed.tail /\ fed'.stale = fed.stale
      <3>1. "none" \in Kinds
        BY <1>b
      <3> QED
        BY <1>1, <1>a, <1>f, <2>1, <3>1, FeedFacts
    <2>3. got' = got /\ pc' = "encode" /\ remaining' = got' /\ nread' = got'
      BY <1>2, <1>3, <2>2
    <2>4. ReaderTypeOK'
      BY <1>1, <2>1, <2>2 DEF TypeOK, ReaderTypeOK
    <2>5. PaddedReaderInv'
      BY <2>1, <2>2, <2>3 DEF PaddedReaderInv
    <2>6. ReaderInv'
      BY <1>2, <1>3, <1>9, <2>3, <2>5 DEF ReaderInv
    <2>7. FedTotal' = FedTotal + (got' - got)
      BY <1>1, <1>3, <2>2, <2>3, <1>a DEF FedTotal
    <2>8. got' \in Nat /\ nread' \in Nat /\ remaining' \in Nat
      BY <1>3, <2>3
    <2> QED
      BY <1>9, <2>2, <2>3, <2>4, <2>6, <2>7, <2>8, ReadStepEffect
  <1> QED
    BY <1>5, <1>6, <1>7, <1>8, <1>9 DEF ReadStep, ReadFrames, n

(* The three ways a call of the encoder succeeds: it waits for more input, *)
(* it reports the end of stream, or it encodes a full frame made of k      *)
(* samples of the caller and z zeros.                                      *)
Waits ==
    /\ remaining > 0
    /\ nSamplesRead' = nSamplesRead + remaining
    /\ nSamplesRead' < FrameLen
    /\ accepted' = accepted + remaining
    /\ out' = [status |-> "ok", consumed |-> remaining, frame |-> 0]
    /\ UNCHANGED <<nZerosAppended, nAU, pendingAU>>

Ends ==
    /\ remaining = 0
    /\ nZerosAppended >= Delay
    /\ out' = [status |-> "eof", consumed |-> 0, frame |-> 0]
    /\ UNCHANGED <<accepted, nSamplesRead, nZerosAppended, nAU, pendingAU>>

Encodes(k, z) ==
    /\ k + z = FrameLen - nSamplesRead
    /\ k <= remaining
    /\ z = 0 \/ k = 0
    /\ k = 0 <=> remaining = 0
    /\ k = 0 => nZerosAppended < Delay
    /\ accepted' = accepted + k
    /\ nZerosAppended' = nZerosAppended + z
    /\ nSamplesRead' = 0
    /\ nAU' = nAU + 1
    /\ pendingAU' = IF FrameComplete THEN 0 ELSE pendingAU + 1
    /\ out' = [status |-> "ok", consumed |-> k,
               frame |-> IF FrameComplete THEN nAU + 1 ELSE 0]

(* The four ways a call of aacEncEncode() ends: it waits for samples, it
   encodes an AU, it reports the end of the stream, or it fails. *)
LEMMA EncodeOutcomes ==
    ASSUME IInv, EncodeCall
    PROVE  \/ pc' = "failed" /\ BufferTypeOK' /\ UNCHANGED <<remaining, flip, encoded, obuf>>
           \/ /\ initFlags' = "none" /\ out'.status # "error"
              /\ Waits \/ Ends \/ \E k, z \in Nat : Encodes(k, z)
  <1> USE ReaderAssumption, LoopAssumption
  <1>1. Running /\ FlowInv /\ EncoderInv /\ ReaderInv /\ BufferTypeOK /\ remaining \in Nat
    BY DEF IInv, Running, EncodeCall, TypeOK
  <1>2. /\ pc = "encode" /\ initFlags = "none"
        /\ nSamplesRead \in 0 .. FrameLen - 1
        /\ nZerosAppended \in Nat /\ accepted \in Nat /\ nAU \in Nat
        /\ pendingAU \in 0 .. SubFrames - 1
        /\ Zeros = nZerosAppended
    BY <1>1 DEF EncoderInv, BufferTypeOK, Zeros, EncodeCall
  <1>3. ASSUME NEW k \in Nat, NEW z \in Nat, EncodeFull(k),
               k + z = FrameLen - nSamplesRead, k <= remaining,
               z = 0 \/ k = 0, k = 0 <=> remaining = 0,
               k = 0 => nZerosAppended < Delay,
               accepted' = accepted + k, nZerosAppended' = nZerosAppended + z
        PROVE  \/ pc' = "failed" /\ BufferTypeOK'
                  /\ UNCHANGED <<remaining, flip, encoded, obuf>>
               \/ /\ initFlags' = "none" /\ out'.status # "error"
                  /\ Encodes(k, z)
    <2>1. CASE /\ AddAU
               /\ initFlags' = "none"
               /\ Result("ok", k, IF FrameComplete THEN nAU + 1 ELSE 0)
      <3>1. out' = [status |-> "ok", consumed |-> k,
                    frame |-> IF FrameComplete THEN nAU + 1 ELSE 0]
        BY <2>1 DEF Result
      <3>2. out'.status # "error"
        BY <3>1
      <3> QED
        BY <1>3, <2>1, <3>1, <3>2 DEF Encodes, AddAU
    <2>2. CASE /\ \/ AddAU
                  \/ nSamplesRead' = FrameLen /\ UNCHANGED <<nAU, pendingAU>>
               /\ initFlags' = "all"
               /\ Result("error", k, 0)
      <3>1. out' = [status |-> "error", consumed |-> k, frame |-> 0]
        BY <2>2 DEF Result
      <3>2. AfterEncode(out') /\ out'.status = "error"
        BY <3>1 DEF EncodeCall
      <3>3. pc' = "failed" /\ UNCHANGED <<remaining, flip, encoded, obuf>>
        BY <3>2 DEF AfterEncode
      <3>4. out' \in [status : {"ok", "eof", "error"}, consumed : Nat, frame : Nat]
        BY <3>1
      <3> QED
        BY <1>2, <1>3, <2>2, <3>3, <3>4 DEF BufferTypeOK, AddAU, FrameComplete
    <2> QED
      BY <1>3, <2>1, <2>2 DEF EncodeFull
  <1>4. CASE remaining > 0 /\ EncodeInput(remaining)
    <2> DEFINE k == NewSamples(remaining)
    <2>1. /\ k \in Nat /\ k > 0 /\ k <= remaining /\ k <= FrameLen - nSamplesRead
          /\ nSamplesRead + k < FrameLen => k = remaining
      BY <1>1, <1>2, <1>4 DEF NewSamples
    <2>2. /\ accepted' = accepted + k /\ nZerosAppended' = nZerosAppended
          /\ IF nSamplesRead + k < FrameLen THEN EncodeWaits(k) ELSE EncodeFull(k)
      BY <1>2, <1>4 DEF EncodeInput
    <2> HIDE DEF k
    <2>3. CASE nSamplesRead + k < FrameLen
      <3>1. k = remaining /\ EncodeWaits(k)
        BY <2>1, <2>2, <2>3
      <3>2. /\ nSamplesRead' = nSamplesRead + k /\ initFlags' = "none"
            /\ out' = [status |-> "ok", consumed |-> k, frame |-> 0]
            /\ UNCHANGED <<nAU, pendingAU>>
        BY <3>1 DEF EncodeWaits, Result
      <3>3. out'.status # "error"
        BY <3>2
      <3> QED
        BY <1>4, <2>2, <2>3, <3>1, <3>2, <3>3 DEF Waits
    <2>4. CASE ~(nSamplesRead + k < FrameLen)
      <3>1. EncodeFull(k)
        BY <2>2, <2>4
      <3>2. /\ k + 0 = FrameLen - nSamplesRead
            /\ nZerosAppended' = nZerosAppended + 0
            /\ k = 0 <=> remaining = 0
            /\ k = 0 => nZerosAppended < Delay
        BY <1>2, <1>4, <2>1, <2>2, <2>4
      <3> QED
        BY <1>3, <2>1, <2>2, <3>1, <3>2
    <2> QED
      BY <2>3, <2>4
  <1>5. CASE remaining = 0 /\ EncodeFlush
    <2>1. CASE nZerosAppended >= Delay
      <3>1. /\ nZerosAppended' = nZerosAppended /\ initFlags' = "none"
            /\ out' = [status |-> "eof", consumed |-> 0, frame |-> 0]
            /\ UNCHANGED <<accepted, nSamplesRead, nAU, pendingAU>>
        BY <1>2, <1>5, <2>1 DEF EncodeFlush, Result
      <3>2. out'.status # "error"
        BY <3>1
      <3> QED
        BY <1>5, <2>1, <3>1, <3>2 DEF Ends
    <2>2. CASE ~(nZerosAppended >= Delay)
      <3>1. /\ EncodeFull(0)
            /\ nZerosAppended' = nZerosAppended + (FrameLen - nSamplesRead)
            /\ accepted' = accepted
        BY <1>2, <1>5, <2>2 DEF EncodeFlush
      <3>2. /\ FrameLen - nSamplesRead \in Nat
            /\ 0 + (FrameLen - nSamplesRead) = FrameLen - nSamplesRead
            /\ accepted' = accepted + 0 /\ nZerosAppended < Delay
        BY <1>2, <2>2, <3>1
      <3> QED
        BY <1>3, <1>5, <3>1, <3>2
    <2> QED
      BY <2>1, <2>2
  <1> QED
    BY <1>4, <1>5 DEF EncodeCall

(* Each outcome of aacEncEncode() keeps the invariant. *)
LEMMA EncodeCallIInv == IInv /\ EncodeCall => IInv'
  <1> SUFFICES ASSUME IInv, EncodeCall PROVE IInv'
    OBVIOUS
  <1> USE ReaderAssumption, LoopAssumption
  <1>1. Running /\ ReaderInv /\ FlowInv /\ EncoderInv /\ OutputInv /\ TypeOK
    BY DEF IInv, Running, EncodeCall
  <1>2. /\ pc = "encode"
        /\ UNCHANGED <<inputLen, srcPos, count, from, nbuffer, process, ret>>
        /\ UNCHANGED <<interrupted, nread, got, written, fed, padding>>
    BY DEF EncodeCall, readerVars
  <1>3. /\ initFlags = "none" /\ nSamplesRead \in 0 .. FrameLen - 1
        /\ nZerosAppended \in Nat /\ accepted \in Nat /\ nAU \in Nat
        /\ pendingAU \in 0 .. SubFrames - 1 /\ remaining \in Nat /\ nread \in Nat
        /\ flip \in 0 .. 1 /\ encoded \in Nat /\ obuf \in [0 .. 1 -> Nat]
        /\ FedTotal \in Nat
    BY <1>1 DEF EncoderInv, TypeOK, BufferTypeOK, FedTotal
  <1>4. WrittenInOrder'
    BY <1>2 DEF IInv, WrittenInOrder, AUAtPlace
  <1>5. FedTotal' = FedTotal
    BY <1>2 DEF FedTotal
  <1>6. ReaderTypeOK'
    BY <1>1, <1>2 DEF TypeOK, ReaderTypeOK
  <1>7. CASE /\ pc' = "failed" /\ BufferTypeOK'
             /\ UNCHANGED <<remaining, flip, encoded, obuf>>
    <2>1. TypeOK'
      BY <1>1, <1>2, <1>6, <1>7 DEF TypeOK, Locations
    <2> QED
      BY <1>4, <1>7, <2>1 DEF IInv, Running
  <1>8. CASE initFlags' = "none" /\ out'.status # "error" /\ Waits
    <2>1. /\ out' = [status |-> "ok", consumed |-> remaining, frame |-> 0]
          /\ out'.frame = 0 /\ out'.consumed = remaining
      BY <1>8 DEF Waits
    <2>2. AfterEncode(out') /\ out'.status # "error"
      BY <1>8 DEF EncodeCall
    <2>3. /\ pc' = "top" /\ obuf' = [obuf EXCEPT ![flip] = 0]
          /\ UNCHANGED <<remaining, flip, encoded>>
      BY <1>8, <2>1, <2>2 DEF AfterEncode, AfterNoOutput, Waits
    <2>4. BufferTypeOK'
      BY <1>3, <1>8, <2>1 DEF BufferTypeOK, Waits
    <2>5. TypeOK'
      BY <1>1, <1>2, <1>3, <1>6, <2>3, <2>4 DEF TypeOK, Locations
    <2>6. ReaderInv'
      BY <1>1, <1>2, <1>8, <2>3
         DEF ReaderInv, PaddedReaderInv, PlainReaderInv, Waits
    <2>7. FlowInv'
      BY <1>1, <1>2, <1>3, <1>5, <1>8, <2>3 DEF FlowInv, Waits
    <2>8. EncoderInv'
      <3>1. nread > 0 /\ nZerosAppended = 0
        BY <1>1, <1>2, <1>8 DEF FlowInv, ReaderInv, Waits
      <3>2. accepted' + nZerosAppended' = nAU' * FrameLen' + nSamplesRead'
        BY <1>1, <1>3, <1>8 DEF EncoderInv, Waits
      <3> QED
        BY <1>1, <1>2, <1>3, <1>8, <2>3, <3>1, <3>2 DEF EncoderInv, Waits
    <2>9. OutputInv'
      BY <1>1, <1>2, <1>3, <1>8, <2>3
         DEF OutputInv, PaddedOutputInv, PlainOutputInv, InStep, AUAtPlace, Waits
    <2> QED
      BY <1>4, <2>3, <2>5, <2>6, <2>7, <2>8, <2>9 DEF IInv
  <1>9. CASE initFlags' = "none" /\ out'.status # "error" /\ Ends
    <2>1. /\ out' = [status |-> "eof", consumed |-> 0, frame |-> 0]
          /\ out'.frame = 0 /\ out'.consumed = 0
      BY <1>9 DEF Ends
    <2>2. AfterEncode(out') /\ out'.status # "error"
      BY <1>9 DEF EncodeCall
    <2>3. /\ pc' = "done" /\ obuf' = [obuf EXCEPT ![flip] = 0]
          /\ UNCHANGED <<remaining, flip, encoded>>
      BY <2>1, <2>2 DEF AfterEncode, AfterNoOutput
    <2>4. BufferTypeOK'
      BY <1>3, <1>9, <2>1 DEF BufferTypeOK, Ends
    <2>5. TypeOK'
      BY <1>1, <1>2, <1>3, <1>6, <2>3, <2>4 DEF TypeOK, Locations
    <2>6. ReaderInv'
      BY <1>1, <1>2, <1>9, <2>3
         DEF ReaderInv, PaddedReaderInv, PlainReaderInv, Ends
    <2>7. FlowInv'
      BY <1>1, <1>2, <1>3, <1>5, <1>9, <2>3 DEF FlowInv, Ends
    <2>8. EncoderInv'
      BY <1>1, <1>2, <1>3, <1>9, <2>3 DEF EncoderInv, FlowInv, Ends
    <2>9. OutputInv'
      BY <1>1, <1>2, <1>3, <1>9, <2>3
         DEF OutputInv, PaddedOutputInv, PlainOutputInv, InStep, AUAtPlace, Ends
    <2> QED
      BY <1>4, <2>3, <2>5, <2>6, <2>7, <2>8, <2>9 DEF IInv
  <1>10. ASSUME initFlags' = "none", out'.status # "error",
                NEW k \in Nat, NEW z \in Nat, Encodes(k, z)
         PROVE  IInv'
    <2>1. /\ k + z = FrameLen - nSamplesRead /\ k <= remaining
          /\ z = 0 \/ k = 0
          /\ k = 0 <=> remaining = 0
          /\ k = 0 => nZerosAppended < Delay
          /\ accepted' = accepted + k /\ nZerosAppended' = nZerosAppended + z
          /\ nSamplesRead' = 0 /\ nAU' = nAU + 1
          /\ pendingAU' = IF FrameComplete THEN 0 ELSE pendingAU + 1
      BY <1>10 DEF Encodes
    <2>2. /\ out' \in [status : {"ok", "eof", "error"}, consumed : Nat, frame : Nat]
          /\ out'.consumed = k
          /\ out'.frame = IF FrameComplete THEN nAU + 1 ELSE 0
      <3>1. out' = [status |-> "ok", consumed |-> k,
                    frame |-> IF FrameComplete THEN nAU + 1 ELSE 0]
        BY <1>10 DEF Encodes
      <3> QED
        BY <1>3, <3>1
    <2>3. BufferTypeOK'
      BY <1>3, <1>10, <2>1, <2>2 DEF BufferTypeOK, FrameComplete
    <2>4. AfterEncode(out') /\ out'.status # "error"
      BY <1>10 DEF EncodeCall
    <2>5. /\ accepted' + nZerosAppended' = nAU' * FrameLen + nSamplesRead'
          /\ nSamplesRead' < FrameLen
          /\ nZerosAppended' < Delay + FrameLen
          /\ nZerosAppended' > 0 => nSamplesRead' = 0
          /\ k > 0 => nread > 0
          /\ k = 0 => nread = 0
      <3>1. accepted + nZerosAppended = nAU * FrameLen + nSamplesRead
        BY <1>1 DEF EncoderInv
      <3>2. (nAU + 1) * FrameLen = nAU * FrameLen + FrameLen
        BY <1>3
      <3>3. nAU * FrameLen \in Nat
        BY <1>3
      <3>4. accepted' + nZerosAppended' = nAU' * FrameLen + nSamplesRead'
        BY <1>3, <2>1, <3>1, <3>2, <3>3
      <3>5. (k > 0 => nread > 0) /\ (k = 0 => nread = 0)
        BY <1>1, <1>2, <1>3, <2>1 DEF FlowInv
      <3>6. nZerosAppended' < Delay + FrameLen
        BY <1>1, <1>3, <2>1 DEF EncoderInv
      <3> QED
        BY <2>1, <3>4, <3>5, <3>6
    <2>6. nread > 0 => nZerosAppended' = 0
      BY <1>1, <1>3, <2>1, <2>5 DEF ReaderInv
    <2>7. CASE FrameComplete
      <3>1. out'.frame = nAU + 1 /\ out'.frame # 0 /\ pendingAU' = 0
        BY <1>3, <2>1, <2>2, <2>7
      <3>2. /\ obuf' = [obuf EXCEPT ![flip] = nAU + 1]
            /\ remaining' = remaining - k /\ remaining' \in Nat
            /\ IF Padded
                 THEN /\ flip' = 1 - flip
                      /\ encoded' = encoded + 1
                      /\ pc' = IF encoded' \notin Skips THEN "write"
                               ELSE IF remaining' > 0 THEN "encode" ELSE "top"
                 ELSE /\ pc' = "write"
                      /\ UNCHANGED <<flip, encoded>>
        BY <1>3, <2>1, <2>2, <2>4, <3>1 DEF AfterEncode
      <3>3. pc' \in {"write", "encode", "top"}
        BY <3>2
      <3>4. TypeOK'
        BY <1>1, <1>2, <1>3, <1>6, <2>3, <3>2, <3>3 DEF TypeOK, Locations
      <3>5. ReaderInv'
        BY <1>1, <1>2, <2>6, <3>3 DEF ReaderInv, PaddedReaderInv, PlainReaderInv
      <3>6. EncoderInv'
        BY <1>10, <2>5, <3>3 DEF EncoderInv
      <3>7. CASE Padded
        <4>1. /\ encoded = nAU
              /\ encoded > 0 => obuf[1 - flip] = encoded
              /\ Len(written) = WrittenAfter(encoded)
              /\ \A i \in DOMAIN written : written[i] = AUAtPlace(i)
          BY <1>1, <1>2, <3>7 DEF OutputInv, PaddedOutputInv, InStep
        <4>2. FlowInv'
          <5>1. accepted' + remaining' = FedTotal'
            BY <1>1, <1>2, <1>3, <1>5, <2>1, <3>2 DEF FlowInv
          <5>2. remaining' > 0 => nread' > 0
            BY <1>1, <1>2, <1>3, <2>1, <3>2 DEF FlowInv
          <5>3. pc' = "encode" => remaining' > 0
            BY <3>2, <3>7
          <5>4. pc' = "top" => remaining' = 0
            BY <3>2, <3>7
          <5> QED
            BY <1>3, <2>3, <3>2, <3>3, <3>7, <5>1, <5>2, <5>3, <5>4
               DEF FlowInv, BufferTypeOK
        <4>3. /\ encoded' = nAU' /\ obuf'[1 - flip'] = encoded'
              /\ obuf'[flip'] = obuf[1 - flip]
              /\ pc' = "write" <=> encoded' \notin {1, 3}
          <5>1. /\ encoded' = encoded + 1 /\ flip' = 1 - flip
                /\ obuf' = [obuf EXCEPT ![flip] = nAU + 1]
                /\ pc' = "write" <=> encoded' \notin {1, 3}
            BY <3>2, <3>7 DEF Skips
          <5>2. 1 - flip' = flip /\ 1 - flip # flip /\ 1 - flip \in 0 .. 1
            BY <1>3, <5>1
          <5> QED
            BY <1>3, <2>1, <4>1, <5>1, <5>2
        <4>4. PaddedOutputInv'
          BY <1>2, <1>3, <3>2, <3>3, <3>7, <4>1, <4>3
             DEF PaddedOutputInv, WrittenAfter, InStep
        <4> QED
          BY <1>2, <1>4, <3>3, <3>4, <3>5, <3>6, <3>7, <4>1, <4>2, <4>4
             DEF IInv, OutputInv, AUAtPlace
      <3>8. CASE ~Padded
        <4>1. pc' = "write" /\ UNCHANGED <<flip, encoded>>
          BY <3>2, <3>8
        <4>2. /\ flip = 0 /\ nAU = Len(written) * SubFrames + pendingAU
              /\ Len(written) \in Nat
              /\ \A i \in DOMAIN written : written[i] = AUAtPlace(i)
          BY <1>1, <1>2, <3>8 DEF OutputInv, PlainOutputInv, InStep, TypeOK
        <4>3. remaining' = 0
          <5>1. CASE remaining = 0
            <6>1. remaining' = remaining - k /\ k = 0
              BY <2>1, <3>2, <5>1
            <6> QED
              BY <5>1, <6>1
          <5>2. CASE remaining > 0
            <6>1. nSamplesRead = 0 /\ remaining <= FrameLen
              BY <1>1, <1>2, <1>3, <3>8, <5>2 DEF FlowInv
            <6> QED
              BY <1>3, <2>1, <3>2, <5>2, <6>1
          <5> QED
            BY <1>3, <5>1, <5>2
        <4>4. FlowInv'
          <5>1. accepted' + remaining' = FedTotal'
            BY <1>1, <1>2, <1>3, <1>5, <2>1, <3>2 DEF FlowInv
          <5> QED
            BY <2>1, <4>1, <4>3, <5>1 DEF FlowInv
        <4>5. nAU' = (Len(written') + 1) * SubFrames
          <5>1. pendingAU + 1 = SubFrames
            BY <2>7 DEF FrameComplete
          <5>2. (Len(written) + 1) * SubFrames = Len(written) * SubFrames + SubFrames
            BY <4>2
          <5>3. Len(written) * SubFrames \in Nat
            BY <4>2
          <5> QED
            BY <1>2, <1>3, <2>1, <4>2, <5>1, <5>2, <5>3
        <4>6. PlainOutputInv'
          <5>1. obuf'[0] = nAU'
            BY <1>3, <2>1, <3>2, <4>2
          <5> QED
            BY <1>2, <3>1, <4>1, <4>2, <4>5, <5>1 DEF PlainOutputInv, InStep
        <4> QED
          BY <1>2, <1>4, <3>4, <3>5, <3>6, <3>8, <4>1, <4>2, <4>4, <4>6
             DEF IInv, OutputInv, AUAtPlace
      <3> QED
        BY <3>7, <3>8
    <2>8. CASE ~FrameComplete
      <3>1. ~Padded /\ SubFrames # 1
        BY <1>3, <2>8 DEF FrameComplete
      <3>2. out'.frame = 0 /\ pendingAU' = pendingAU + 1
        BY <2>1, <2>2, <2>8
      <3>3. /\ obuf' = [obuf EXCEPT ![flip] = 0]
            /\ pc' = IF k = 0 THEN "done" ELSE "top"
            /\ UNCHANGED <<remaining, flip, encoded>>
        BY <2>2, <2>4, <3>2 DEF AfterEncode, AfterNoOutput
      <3>4. TypeOK'
        BY <1>1, <1>2, <1>3, <1>6, <2>3, <3>3 DEF TypeOK, Locations
      <3>5. ReaderInv'
        BY <1>1, <1>2, <2>6, <3>3 DEF ReaderInv, PaddedReaderInv, PlainReaderInv
      <3>6. EncoderInv'
        BY <1>2, <1>10, <2>1, <2>5, <3>1, <3>3 DEF EncoderInv
      <3>7. k = remaining
        <4>1. CASE remaining = 0
          BY <2>1, <4>1
        <4>2. CASE remaining > 0
          <5>1. nSamplesRead = 0 /\ remaining <= FrameLen
            BY <1>1, <1>2, <1>3, <3>1, <4>2 DEF FlowInv
          <5> QED
            BY <1>3, <2>1, <4>2, <5>1
        <4> QED
          BY <1>3, <4>1, <4>2
      <3>8. FlowInv'
        <4>1. accepted' = FedTotal'
          BY <1>1, <1>2, <1>5, <2>1, <3>7 DEF FlowInv
        <4> QED
          BY <2>1, <3>3, <4>1 DEF FlowInv
      <3>9. OutputInv'
        <4>1. /\ flip = 0 /\ nAU = Len(written) * SubFrames + pendingAU
              /\ Len(written) \in Nat
              /\ \A i \in DOMAIN written : written[i] = AUAtPlace(i)
          BY <1>1, <1>2, <3>1 DEF OutputInv, PlainOutputInv, InStep, TypeOK
        <4>2. nAU' = Len(written') * SubFrames + pendingAU'
          <5>1. Len(written) * SubFrames \in Nat
            BY <4>1
          <5> QED
            BY <1>2, <1>3, <2>1, <3>2, <4>1, <5>1
        <4> QED
          BY <1>2, <3>1, <3>3, <4>1, <4>2 DEF OutputInv, PlainOutputInv, InStep, AUAtPlace
      <3> QED
        BY <1>4, <3>3, <3>4, <3>5, <3>6, <3>8, <3>9 DEF IInv
    <2> QED
      BY <2>7, <2>8
  <1> QED
    BY <1>7, <1>8, <1>9, <1>10, EncodeOutcomes

(* Every step of the frontend keeps the invariant. *)
LEMMA NextIInv == IInv /\ [Next]_vars => IInv'
  <1> SUFFICES ASSUME IInv, [Next]_vars PROVE IInv'
    OBVIOUS
  <1>1. CASE UNCHANGED vars
    <2> USE <1>1 DEF vars, readerVars, encoderVars, loopVars
    <2>1. TypeOK'
      BY DEF IInv, TypeOK, ReaderTypeOK, BufferTypeOK
    <2>2. ASSUME Running'
          PROVE  ReaderInv' /\ FlowInv' /\ EncoderInv' /\ OutputInv'
      <3>1. Running /\ ReaderInv /\ FlowInv /\ EncoderInv /\ OutputInv
        BY <2>2 DEF IInv, Running
      <3>2. ReaderInv'
        BY <3>1 DEF ReaderInv, PaddedReaderInv, PlainReaderInv
      <3>3. FlowInv' /\ EncoderInv'
        BY <3>1 DEF FlowInv, FedTotal, EncoderInv
      <3>4. OutputInv'
        BY <3>1 DEF OutputInv, PaddedOutputInv, PlainOutputInv, InStep, AUAtPlace
      <3> QED
        BY <3>2, <3>3, <3>4
    <2>3. WrittenInOrder'
      BY DEF IInv, WrittenInOrder, AUAtPlace
    <2>4. pc' = "finished" => padding' = PaddingOf(Len(written))' % WordMod
      BY DEF IInv, PaddingOf
    <2> QED
      BY <2>1, <2>2, <2>3, <2>4 DEF IInv
  <1> QED
    BY <1>1, InterruptIInv, LoopTopIInv, ReadStepIInv, EncodeCallIInv,
       WriteIInv, DoneIInv, MainIInv
       DEF Next, Progress, Stopped

(* IInv holds in every state the frontend reaches, whatever the frame      *)
(* length, the delays, the input and the instant of a signal.              *)
THEOREM IInvHolds == Spec => []IInv
  BY InitIInv, NextIInv, PTL DEF Spec

(* Every variable of the frontend keeps its type; in particular the        *)
(* reader never goes past its input and the encoder's frame buffer never   *)
(* overflows.                                                              *)
THEOREM TypeCorrect == Spec => []TypeOK
  <1>1. IInv => TypeOK
    BY DEF IInv
  <1> QED
    BY <1>1, IInvHolds, PTL

(* The AUs in the output file are those of the encoder in order, less the  *)
(* second one when the edges are padded; only the last sample of an        *)
(* interrupted run may be out of place.                                    *)
THEOREM WrittenInOrderHolds == Spec => []WrittenInOrder
  <1>1. IInv => WrittenInOrder
    BY DEF IInv
  <1> QED
    BY <1>1, IInvHolds, PTL

(* encode() goes back to the reader only when the encoder has taken every  *)
(* frame it read.                                                          *)
THEOREM NoFrameLostHolds == Spec => []NoFrameLost
  <1>1. IInv => NoFrameLost
    BY DEF IInv, Running, FlowInv, NoFrameLost
  <1> QED
    BY <1>1, IInvHolds, PTL

(* The assertion of process1(): the buffer to deliver never holds more     *)
(* than the caller has room for.                                           *)
THEOREM CountWithinRequestHolds == Spec => []CountWithinRequest
  <1>1. ASSUME IInv, pc = "read", process = "process1"
        PROVE  count[1 - nbuffer] <= FrameLen - got
    <2>1. ReaderInv /\ Padded \in BOOLEAN
      BY <1>1, LoopAssumption DEF IInv, Running
    <2>2. PaddedReaderInv
      BY <1>1, <2>1 DEF ReaderInv, PlainReaderInv
    <2> QED
      BY <1>1, <2>2, ReaderAssumption DEF PaddedReaderInv
  <1>2. IInv => CountWithinRequest
    BY <1>1 DEF CountWithinRequest
  <1> QED
    BY <1>2, IInvHolds, PTL

(* The input frames a call hands to encode() continue where the last ones  *)
(* ended, and lie between the predicted head and the predicted tail.       *)
THEOREM AudioInOrderHolds == Spec => AudioInOrder
  <1> DEFINE A == fed'.audio # fed.audio =>
                    /\ ret'.from = fed.audio
                    /\ fed.head = HeadLen
                    /\ fed.tail = 0
                    /\ fed.stale = 0
  <1>1. ASSUME IInv, ReadStep, fed'.audio # fed.audio
        PROVE  /\ ret'.from = fed.audio
               /\ fed.head = HeadLen
               /\ fed.tail = 0
               /\ fed.stale = 0
    <2> USE ReaderAssumption, LoopAssumption
    <2>1. ReaderInv /\ TypeOK /\ pc = "read"
      BY <1>1 DEF IInv, Running, ReadStep
    <2>2. /\ fed \in [head : Nat, audio : Nat, stale : Nat, tail : Nat]
          /\ Feed(ret')
      BY <1>1, <2>1 DEF TypeOK, ReadStep
    <2>3. ret'.kind = "audio"
      BY <1>1, <2>2 DEF Feed
    <2>4. CASE ~Padded
      <3>1. ReadSource(FrameLen - got) /\ PlainReaderInv
        BY <1>1, <2>1, <2>4 DEF ReadStep, ReaderInv
      <3>2. ret'.from = srcPos
        BY <3>1 DEF ReadSource, Returns
      <3> QED
        BY <2>4, <3>1, <3>2 DEF PlainReaderInv, HeadLen
    <2>5. CASE Padded
      <3>1. PaddedReaderInv /\ ReadFrames(FrameLen - got)
        BY <1>1, <2>1, <2>5 DEF ReadStep, ReaderInv
      <3>2. Process1(FrameLen - got)
        BY <2>3, <3>1 DEF ReadFrames, Process0, Process2, Process3, Returns
      <3>3. ret'.from = from[1 - nbuffer] /\ process = "process1"
        BY <3>2 DEF Process1, Returns
      <3> QED
        BY <2>5, <3>1, <3>3 DEF PaddedReaderInv, HeadLen
    <2> QED
      BY <2>4, <2>5
  <1>2. ASSUME [Next]_vars, ~ReadStep PROVE UNCHANGED fed
    BY <1>2 DEF Next, Progress, Interrupt, LoopTop, EncodeCall, Write, Done,
                Main, Stopped, vars, loopVars
  <1>3. IInv /\ [Next]_vars => A
    BY <1>1, <1>2
  <1>4. IInv /\ [Next]_vars => [A]_vars
    BY <1>3
  <1> QED
    BY <1>4, IInvHolds, PTL DEF Spec, AudioInOrder

-----------------------------------------------------------------------------

(* When the loop ends without a signal, everything the reader had has been *)
(* encoded, and the AUs hold it and the zeros of the flush exactly.        *)
LEMMA AtTheEnd ==
    ASSUME IInv, Completed
    PROVE  /\ nAU \in Nat /\ Len(written) \in Nat /\ nZerosAppended \in Nat
           /\ inputLen \in Nat /\ srcPos = inputLen /\ fed.stale \in Nat
           /\ nZerosAppended < Delay + FrameLen
           /\ SubFrames = 1 => nZerosAppended >= Delay
           /\ Padded => /\ 2 * FrameLen + inputLen + fed.stale + nZerosAppended
                              = nAU * FrameLen
                        /\ fed.stale \in {0, FrameLen}
                        /\ Len(written) = WrittenAfter(nAU)
           /\ ~Padded => /\ inputLen + nZerosAppended = nAU * FrameLen
                         /\ fed.stale = 0
                         /\ nAU = Len(written) * SubFrames + pendingAU
                         /\ pendingAU \in 0 .. SubFrames - 1
           /\ \A i \in DOMAIN written : written[i] = AUAtPlace(i)
           /\ DOMAIN written = 1 .. Len(written)
  <1> USE ReaderAssumption, LoopAssumption DEF Completed
  <1>1. ReaderInv /\ FlowInv /\ EncoderInv /\ OutputInv /\ TypeOK
    BY DEF IInv, Running
  <1>2. /\ nAU \in Nat /\ Len(written) \in Nat /\ nZerosAppended \in Nat
        /\ inputLen \in Nat /\ fed.stale \in Nat /\ accepted \in Nat
        /\ fed.tail \in Nat /\ pendingAU \in 0 .. SubFrames - 1
        /\ count[nbuffer] \in Nat /\ DOMAIN written = 1 .. Len(written)
    BY <1>1 DEF TypeOK, ReaderTypeOK, BufferTypeOK
  <1>3. nread = 0 /\ nSamplesRead = 0 /\ accepted = FedTotal
    BY <1>1 DEF EncoderInv, FlowInv
  <1>4. /\ accepted + nZerosAppended = nAU * FrameLen
        /\ nZerosAppended < Delay + FrameLen
        /\ SubFrames = 1 => nZerosAppended >= Delay
    <2>1. accepted + nZerosAppended = nAU * FrameLen + nSamplesRead
      BY <1>1 DEF EncoderInv
    <2>2. nAU * FrameLen \in Nat
      BY <1>2
    <2> QED
      BY <1>1, <1>3, <2>1, <2>2 DEF EncoderInv
  <1>5. \A i \in DOMAIN written : written[i] = AUAtPlace(i)
    BY <1>1 DEF OutputInv, InStep
  <1>6. CASE Padded
    <2>1. /\ fed.head = FrameLen /\ fed.audio = inputLen /\ fed.tail = FrameLen
          /\ srcPos = inputLen /\ fed.stale \in {0, FrameLen}
      BY <1>1, <1>2, <1>3, <1>6 DEF ReaderInv, PaddedReaderInv
    <2>2. accepted = 2 * FrameLen + inputLen + fed.stale
      BY <1>2, <1>3, <2>1 DEF FedTotal
    <2>3. Len(written) = WrittenAfter(nAU)
      BY <1>1, <1>6 DEF OutputInv, PaddedOutputInv, InStep
    <2> QED
      BY <1>2, <1>4, <1>5, <1>6, <2>1, <2>2, <2>3
  <1>7. CASE ~Padded
    <2>1. /\ fed = [head |-> 0, audio |-> srcPos, stale |-> 0, tail |-> 0]
          /\ srcPos = inputLen
      BY <1>1, <1>3, <1>7 DEF ReaderInv, PlainReaderInv
    <2>2. accepted = inputLen /\ fed.stale = 0
      BY <1>2, <1>3, <2>1 DEF FedTotal
    <2>3. nAU = Len(written) * SubFrames + pendingAU
      BY <1>1, <1>7 DEF OutputInv, PlainOutputInv, InStep
    <2> QED
      BY <1>2, <1>4, <1>5, <1>7, <2>1, <2>2, <2>3
  <1> QED
    BY <1>6, <1>7

(* A file holds, in whole frames, the input, the frames a join invented    *)
(* and the zeros of the flush: the frame of padding before and the one     *)
(* after have gone with the AU dropped and the AU never written.           *)
LEMMA WrittenHolds ==
    ASSUME IInv, Completed, SubFrames = 1
    PROVE  Len(written) * FrameLen = inputLen + fed.stale + nZerosAppended
  <1> USE ReaderAssumption, LoopAssumption
  <1>1. /\ nAU \in Nat /\ Len(written) \in Nat /\ nZerosAppended \in Nat
        /\ inputLen \in Nat /\ fed.stale \in Nat /\ nZerosAppended > 0
    BY AtTheEnd
  <1>2. CASE Padded
    <2>1. /\ 2 * FrameLen + inputLen + fed.stale + nZerosAppended = nAU * FrameLen
          /\ Len(written) = WrittenAfter(nAU)
      BY <1>2, AtTheEnd
    <2>2. nAU > 2
      <3>1. CASE nAU = 0
        BY <1>1, <2>1, <3>1
      <3>2. CASE nAU = 1
        BY <1>1, <2>1, <3>2
      <3>3. CASE nAU = 2
        BY <1>1, <2>1, <3>3
      <3> QED
        BY <1>1, <3>1, <3>2, <3>3
    <2>3. Len(written) = nAU - 2
      BY <1>1, <2>1, <2>2 DEF WrittenAfter
    <2>4. (nAU - 2) * FrameLen = nAU * FrameLen - 2 * FrameLen
      BY <1>1
    <2>5. nAU * FrameLen \in Nat
      BY <1>1
    <2> QED
      BY <1>1, <2>1, <2>3, <2>4, <2>5
  <1>3. CASE ~Padded
    <2>1. /\ inputLen + nZerosAppended = nAU * FrameLen /\ fed.stale = 0
          /\ nAU = Len(written) * 1 + pendingAU /\ pendingAU = 0
      BY <1>3, AtTheEnd
    <2>2. nAU = Len(written)
      BY <1>1, <2>1
    <2> QED
      BY <1>1, <2>1, <2>2
  <1> QED
    BY <1>2, <1>3

(* The padding main() declares never wraps around, and leaves over less    *)
(* than a frame beyond the undeclared delay and the frames invented.       *)
THEOREM PaddingInRangeHolds == Spec => []PaddingInRange
  <1> USE ReaderAssumption, LoopAssumption
  <1>1. ASSUME IInv, Completed, SubFrames = 1
        PROVE  /\ padding = PaddingOf(Len(written))
               /\ padding < FrameLen + (Delay - DelayCore) + fed.stale
    <2>1. /\ Len(written) \in Nat /\ nZerosAppended \in Nat /\ inputLen \in Nat
          /\ fed.stale \in {0, FrameLen} /\ srcPos = inputLen
          /\ nZerosAppended < Delay + FrameLen /\ nZerosAppended >= Delay
      BY <1>1, AtTheEnd
    <2>2. Len(written) * FrameLen = inputLen + fed.stale + nZerosAppended
      BY <1>1, WrittenHolds
    <2>3. PaddingOf(Len(written)) = fed.stale + nZerosAppended - DelayCore
      <3>1. Len(written) * FrameLen \in Nat
        BY <2>1
      <3> QED
        BY <2>1, <2>2, <3>1 DEF PaddingOf
    <2>4. padding = PaddingOf(Len(written)) % WordMod
      BY <1>1 DEF IInv, Completed
    <2>5. PaddingOf(Len(written)) \in 0 .. WordMod - 1
      BY <2>1, <2>3
    <2>6. \A v \in 0 .. WordMod - 1 : v % WordMod = v
      OBVIOUS
    <2> QED
      BY <2>1, <2>3, <2>4, <2>5, <2>6
  <1>2. IInv => PaddingInRange
    BY <1>1 DEF PaddingInRange
  <1> QED
    BY <1>2, IInvHolds, PTL

(* DAB+: no more is lost at the end of a broadcast than one incomplete     *)
(* superframe and the delay.                                               *)
THEOREM TailLossBoundedHolds == Spec => []TailLossBounded
  <1> USE ReaderAssumption, LoopAssumption
  <1>1. ASSUME IInv, Completed, ~Padded
        PROVE  inputLen - (Len(written) * SubFrames * FrameLen - Delay)
                  <= (SubFrames - 1) * FrameLen + Delay
    <2>1. /\ inputLen + nZerosAppended = nAU * FrameLen
          /\ nAU = Len(written) * SubFrames + pendingAU
          /\ pendingAU \in 0 .. SubFrames - 1
          /\ inputLen \in Nat /\ nZerosAppended \in Nat /\ nAU \in Nat
          /\ Len(written) \in Nat
      BY <1>1, AtTheEnd
    <2> DEFINE w == Len(written) * SubFrames
    <2>2. w \in Nat /\ nAU = w + pendingAU
      BY <2>1
    <2> HIDE DEF w
    <2>3. (w + pendingAU) * FrameLen = w * FrameLen + pendingAU * FrameLen
      BY <2>1, <2>2
    <2>4. pendingAU * FrameLen <= (SubFrames - 1) * FrameLen
      BY <2>1
    <2>5. /\ w * FrameLen \in Nat /\ pendingAU * FrameLen \in Nat
          /\ (SubFrames - 1) * FrameLen \in Nat
      BY <2>1, <2>2
    <2>6. inputLen + nZerosAppended = w * FrameLen + pendingAU * FrameLen
      BY <2>1, <2>2, <2>3
    <2>7. inputLen - (w * FrameLen - Delay) <= (SubFrames - 1) * FrameLen + Delay
      <3> DEFINE whole == w * FrameLen
                 rest  == pendingAU * FrameLen
                 most  == (SubFrames - 1) * FrameLen
      <3>1. /\ whole \in Nat /\ rest \in Nat /\ most \in Nat /\ rest <= most
            /\ inputLen + nZerosAppended = whole + rest
        BY <2>4, <2>5, <2>6
      <3> HIDE DEF whole, rest, most
      <3>2. inputLen - (whole - Delay) <= most + Delay
        BY <2>1, <3>1
      <3> QED
        BY <3>2 DEF whole, most
    <2> QED
      BY <2>7 DEF w
  <1>2. IInv => TailLossBounded
    BY <1>1 DEF TailLossBounded
  <1> QED
    BY <1>2, IInvHolds, PTL

(* Quotients by the frame length: the bound and the shift by one frame.    *)
LEMMA QuotientFacts ==
    ASSUME NEW l \in Nat \ {0}, NEW x \in Nat
    PROVE  /\ x \div l \in Nat
           /\ (l + x) \div l = x \div l + 1
           /\ x >= l => x \div l >= 1
           /\ \A w \in Nat : x < w * l => x \div l < w
  <1> DEFINE q == x \div l
             r == x % l
  <1>1. q \in Nat /\ r \in 0 .. l - 1 /\ x = l * q + r
    OBVIOUS
  <1>2. (l + x) \div l = q + 1
    <2>1. l + x = l * (q + 1) + r
      BY <1>1
    <2> QED
      BY <1>1, <2>1
  <1>3. x >= l => q >= 1
    BY <1>1
  <1>4. ASSUME NEW w \in Nat, x < w * l PROVE q < w
    BY <1>1, <1>4
  <1> QED
    BY <1>1, <1>2, <1>3, <1>4

(* Gapless: after a player has dropped the declared delay, every input     *)
(* frame is decoded from the AU that carries it.                           *)
THEOREM AudioAlignedHolds == Spec => []AudioAligned
  <1> USE ReaderAssumption, LoopAssumption
  <1>1. ASSUME IInv, Completed, SubFrames = 1, NEW s \in 0 .. inputLen - 1
        PROVE  LET place == (s + DelayCore) \div FrameLen + 1
               IN  /\ place <= Len(written)
                   /\ written[place] = AUPlaying(HeadLen + s)
    <2> DEFINE x == s + DelayCore
               q == x \div FrameLen
    <2>1. /\ Len(written) \in Nat /\ nZerosAppended \in Nat /\ inputLen \in Nat
          /\ fed.stale \in Nat /\ nZerosAppended >= Delay
          /\ \A i \in DOMAIN written : written[i] = AUAtPlace(i)
          /\ DOMAIN written = 1 .. Len(written)
      BY <1>1, AtTheEnd
    <2>2. Len(written) * FrameLen = inputLen + fed.stale + nZerosAppended
      BY <1>1, WrittenHolds
    <2>3. x \in Nat /\ x < Len(written) * FrameLen
      BY <2>1, <2>2
    <2> HIDE DEF x
    <2>4. q \in Nat /\ q < Len(written)
          /\ (FrameLen + x) \div FrameLen = q + 1
          /\ (x >= FrameLen => q >= 1)
      BY <2>1, <2>3, QuotientFacts
    <2> HIDE DEF q
    <2>5. q + 1 \in DOMAIN written /\ written[q + 1] = AUAtPlace(q + 1)
      BY <2>1, <2>4
    <2>6. AUAtPlace(q + 1) = AUPlaying(HeadLen + s)
      <3>1. CASE Padded
        <4>1. x >= FrameLen
          BY <2>1, <3>1 DEF x
        <4>2. AUAtPlace(q + 1) = q + 2
          BY <2>4, <3>1, <4>1 DEF AUAtPlace
        <4>3. HeadLen + s + DelayCore = FrameLen + x
          BY <2>1, <3>1 DEF HeadLen, x
        <4>4. AUPlaying(HeadLen + s) = (q + 1) + 1
          BY <2>4, <4>3 DEF AUPlaying
        <4> QED
          BY <2>4, <4>2, <4>4
      <3>2. CASE ~Padded
        <4>1. HeadLen + s + DelayCore = x
          BY <2>1, <3>2 DEF HeadLen, x
        <4>2. AUPlaying(HeadLen + s) = q + 1
          BY <4>1 DEF AUPlaying, q
        <4> QED
          BY <1>1, <2>4, <3>2, <4>2 DEF AUAtPlace
      <3> QED
        BY <3>1, <3>2
    <2> QED
      BY <2>4, <2>5, <2>6 DEF q, x
  <1>2. IInv => AudioAligned
    BY <1>1 DEF AudioAligned
  <1> QED
    BY <1>2, IInvHolds, PTL

-----------------------------------------------------------------------------

(* encode() does not leave its loop before an AU has been encoded: the     *)
(* flush takes at least one frame of zeros, however early the signal.      *)
Coded == pc \in {"done", "main", "finished"} => nAU > 0

(* Every step keeps Coded. *)
LEMMA CodedStep ==
    ASSUME IInv, Coded, [Next]_vars
    PROVE  Coded'
  <1> USE ReaderAssumption, LoopAssumption
  <1>1. nAU \in Nat /\ nZerosAppended \in Nat /\ accepted \in Nat
    BY DEF IInv, TypeOK, BufferTypeOK
  <1>2. CASE EncodeCall /\ pc' = "done"
    <2>1. /\ initFlags' = "none" /\ out'.status # "error"
          /\ Waits \/ Ends \/ \E k, z \in Nat : Encodes(k, z)
      BY <1>2, EncodeOutcomes
    <2>2. CASE Waits
      <3>1. out'.consumed = remaining /\ out'.frame = 0 /\ remaining > 0
        BY <2>2 DEF Waits
      <3>2. remaining \in Nat /\ pc' = "top"
        BY <1>2, <2>1, <3>1
           DEF IInv, TypeOK, EncodeCall, AfterEncode, AfterNoOutput
      <3> QED
        BY <1>2, <3>2
    <2>3. CASE Ends
      <3>1. nZerosAppended >= Delay /\ nAU' = nAU
        BY <2>3 DEF Ends
      <3>2. Running
        BY <1>2 DEF Running, EncodeCall
      <3>3. /\ accepted + nZerosAppended = nAU * FrameLen + nSamplesRead
            /\ nZerosAppended > 0 => nSamplesRead = 0
        BY <3>2 DEF IInv, EncoderInv
      <3>4. nAU # 0
        BY <1>1, <3>1, <3>3
      <3> QED
        BY <1>1, <3>1, <3>4 DEF Coded
    <2>4. ASSUME NEW k \in Nat, NEW z \in Nat, Encodes(k, z)
          PROVE  Coded'
      BY <1>1, <2>4 DEF Encodes, Coded
    <2> QED
      BY <2>1, <2>2, <2>3, <2>4
  <1>3. CASE EncodeCall /\ pc' # "done"
    BY <1>3 DEF EncodeCall, AfterEncode, AfterNoOutput, Coded
  <1>4. CASE Next /\ ~EncodeCall
    BY <1>4 DEF Next, Progress, Interrupt, LoopTop, ReadStep, Write, Done, Main,
                Stopped, Coded, encoderVars, vars, loopVars
  <1>5. CASE UNCHANGED vars
    BY <1>5 DEF Coded, vars, loopVars, encoderVars
  <1> QED
    BY <1>2, <1>3, <1>4, <1>5

(* What encode() has written when it comes to DONE without a signal. *)
LEMMA WrittenAtDone ==
    ASSUME IInv, Coded, pc = "done", ~interrupted, pendingAU < nAU
    PROVE  written # << >>
  <1> USE ReaderAssumption, LoopAssumption
  <1>1. ReaderInv /\ FlowInv /\ EncoderInv /\ OutputInv /\ TypeOK
    BY DEF IInv, Running
  <1>2. /\ nAU \in Nat /\ nZerosAppended \in Nat /\ accepted \in Nat
        /\ Len(written) \in Nat /\ pendingAU \in 0 .. SubFrames - 1
        /\ fed.head \in Nat /\ fed.audio \in Nat /\ fed.stale \in Nat
        /\ fed.tail \in Nat
    BY <1>1 DEF TypeOK, BufferTypeOK
  <1>3. nread = 0 /\ nSamplesRead = 0 /\ accepted = FedTotal
    BY <1>1 DEF EncoderInv, FlowInv
  <1>4. Len(written) > 0
    <2>1. CASE Padded
      <3>1. process = "process3" /\ fed.head = FrameLen
        BY <1>1, <1>3, <2>1 DEF ReaderInv, PaddedReaderInv
      <3>2. accepted >= FrameLen
        <4>1. accepted = FrameLen + fed.audio + fed.stale + fed.tail
          BY <1>3, <3>1 DEF FedTotal
        <4>2. \A h, a, i, t \in Nat : h + a + i + t >= h
          OBVIOUS
        <4>3. FrameLen \in Nat
          OBVIOUS
        <4> QED
          BY <1>2, <4>1, <4>2, <4>3
      <3>3. nZerosAppended >= Delay /\ Delay >= FrameLen
        BY <1>1, <2>1 DEF EncoderInv
      <3>4. accepted + nZerosAppended = nAU * FrameLen
        <4>1. nAU * FrameLen \in Nat
          BY <1>2
        <4>2. accepted + nZerosAppended = nAU * FrameLen + nSamplesRead
          BY <1>1 DEF EncoderInv
        <4> QED
          BY <1>3, <4>1, <4>2
      <3>5. nAU > 1
        <4>1. nAU # 0 /\ nAU # 1
          BY <1>2, <3>2, <3>3, <3>4
        <4> QED
          BY <1>2, <4>1
      <3>6. Len(written) = WrittenAfter(nAU)
        BY <1>1, <2>1 DEF OutputInv, PaddedOutputInv, InStep
      <3> QED
        BY <1>2, <3>5, <3>6 DEF WrittenAfter
    <2>2. CASE ~Padded
      <3>1. nAU = Len(written) * SubFrames + pendingAU
        BY <1>1, <2>2 DEF OutputInv, PlainOutputInv, InStep
      <3>2. Len(written) # 0
        BY <1>2, <3>1
      <3> QED
        BY <1>2, <3>2
    <2> QED
      BY <2>1, <2>2
  <1> QED
    BY <1>4

(* No step ends the loop with nothing written. *)
LEMMA SomethingWrittenStep ==
    ASSUME IInv, Coded, Coded', SomethingWritten, [Next]_vars
    PROVE  SomethingWritten'
  <1>1. CASE Done
    <2>1. CASE interrupted /\ written' = Append(written, FinalOutcome)
      <3>1. written \in Seq(Nat) /\ FinalOutcome \in Nat
        BY DEF IInv, TypeOK, FinalOutcome
      <3>2. written' # << >>
        BY <2>1, <3>1
      <3> QED
        BY <3>2 DEF SomethingWritten, Coded
    <2>2. CASE pc' = "failed"
      BY <2>2 DEF SomethingWritten
    <2>3. CASE ~interrupted /\ UNCHANGED written
      <3>1. pc = "done" /\ UNCHANGED <<nAU, pendingAU>>
        BY <1>1 DEF Done, encoderVars
      <3>2. pendingAU < nAU => written # << >>
        BY <2>3, <3>1, WrittenAtDone
      <3> QED
        BY <2>3, <3>1, <3>2 DEF SomethingWritten, Coded
    <2> QED
      BY <1>1, <2>1, <2>2, <2>3 DEF Done
  <1>2. CASE Next /\ ~Done
    BY <1>2 DEF Next, Progress, Interrupt, LoopTop, ReadStep, EncodeCall, AfterEncode,
                AfterNoOutput, Write, Main, Stopped, SomethingWritten, encoderVars,
                vars, loopVars
  <1>3. CASE UNCHANGED vars
    BY <1>3 DEF SomethingWritten, vars, loopVars, encoderVars
  <1> QED
    BY <1>1, <1>2, <1>3

(* encode() never comes back to main() without an AU, nor, when one        *)
(* completes an output frame, without having written it: what              *)
(* m4af_finalize() takes for granted.                                      *)
THEOREM SomethingWrittenHolds == Spec => []SomethingWritten
  <1>1. Init => Coded /\ SomethingWritten
    BY DEF Init, Coded, SomethingWritten
  <1>2. IInv /\ Coded /\ [Next]_vars => Coded'
    BY CodedStep
  <1>3. IInv /\ Coded /\ Coded' /\ SomethingWritten /\ [Next]_vars => SomethingWritten'
    BY SomethingWrittenStep
  <1> QED
    BY <1>1, <1>2, <1>3, IInvHolds, PTL DEF Spec

=============================================================================
