------------------------------- MODULE Speech -------------------------------
(***************************************************************************)
(* From a microphone's bytes to saved speech and its text.                 *)
(*                                                                         *)
(*   services/audio_stream_service.py  PcmVad: feed, _block, _take, flush  *)
(*   services/meeting_service.py       saving an utterance                 *)
(*   infra/stt.py                      WhisperStt.transcribe, its filters  *)
(*   infra/meeting_audio.py            assemble_meeting_wav                *)
(*                                                                         *)
(* Module AudioStream has the queue between the two halves.  Time and      *)
(* length are in units of ten milliseconds: frames are a whole number of   *)
(* milliseconds long (the protocol refuses others) and blocks are two      *)
(* units.  Whether a block is voiced is up to the microphone.              *)
(***************************************************************************)
EXTENDS Integers, Sequences, FiniteSets, SequencesExt

CONSTANTS
    PreRoll,       \* blocks kept from before the speech (10)
    SilenceEnd,    \* silence that ends an utterance (600 ms)
    MaxUtterance,  \* length that ends an utterance (15 s)
    MinVoice,      \* voice an utterance needs (160 ms)
    MaxStart,      \* bound: when a stream begins
    MAX_MEETING_MS, \* longest meeting whose audio is put together (four hours)
    MaxTime,       \* bound: length of a stream
    HeardTexts     \* what the recogniser may write: sequences of words

VARIABLES
    vad,      \* PcmVad of the open stream, and the stream's offset
    saved,    \* MeetingAudioChunk rows: [start_ms, end_ms, length]
    hear      \* the WhisperStt call for the last utterance

speechVars == <<vad, saved, hear>>

BLOCK == 2

\* The audio kept from before the speech is shorter than the longest utterance.
ASSUME SpeechAssumption ==
    /\ PreRoll \in Nat /\ SilenceEnd \in Nat /\ MaxUtterance \in Nat /\ MinVoice \in Nat \ {0}
    /\ MaxStart \in Nat /\ MaxTime \in Nat /\ MAX_MEETING_MS \in Nat
    /\ PreRoll * BLOCK < MaxUtterance

(***************************************************************************)
(* PcmVad                                                                  *)
(***************************************************************************)
NewVad(offset) ==
    [open |-> TRUE, stream |-> offset, pending |-> 0, offset |-> 0, pre |-> <<>>, active |-> 0,
     start |-> 0, voice |-> 0, silence |-> 0, out |-> <<>>]

_take(v) ==
    [v EXCEPT !.active = 0, !.voice = 0, !.silence = 0,
              !.out = IF v.voice >= MinVoice
                      THEN Append(@, [start_ms |-> v.start, end_ms |-> v.offset, length |-> v.active])
                      ELSE @]

\* Fault: the pre-roll stays for the next utterance.
StartKeepingPreRoll(v, at) ==
    [v EXCEPT !.start = IF v.pre = <<>> THEN at ELSE Head(v.pre).at,
              !.active = FoldLeft(LAMBDA sum, b : sum + b.length, 0, v.pre)]

\* The first voiced block opens an utterance with the blocks before it.
open_utterance(v, at) ==
    [v EXCEPT !.start = IF v.pre = <<>> THEN at ELSE Head(v.pre).at,
              !.active = FoldLeft(LAMBDA sum, b : sum + b.length, 0, v.pre),
              !.pre = <<>>]

\* deque(maxlen=10)
keep_pre_roll(pre, b) ==
    LET all == Append(pre, b) IN IF Len(all) > PreRoll THEN Tail(all) ELSE all

_block(v, duration, voiced) ==
    LET at == v.offset
        moved == [v EXCEPT !.offset = @ + duration]
        opened == IF v.active = 0 THEN open_utterance(moved, at) ELSE moved
        grown == [opened EXCEPT !.active = @ + duration,
                                !.voice = IF voiced THEN @ + duration ELSE @,
                                !.silence = IF voiced THEN 0 ELSE @ + duration]
    IN  IF v.active = 0 /\ ~voiced
        THEN [moved EXCEPT !.pre = keep_pre_roll(@, [at |-> at, length |-> duration])]
        ELSE IF grown.silence >= SilenceEnd \/ grown.offset - grown.start >= MaxUtterance
             THEN _take(grown) ELSE grown

\* feed: every whole block, then the rest stays pending.
after_feed(v, n, voiced) ==
    LET blocks == (v.pending + n) \div BLOCK
        start == [v EXCEPT !.pending = (v.pending + n) % BLOCK]
    IN  FoldLeft(LAMBDA w, i : _block(w, BLOCK, voiced[i]), start, [i \in 1..blocks |-> i])

\* flush: the tail as a short block, and the open utterance.
after_flush(v, voiced) ==
    LET tail == IF v.pending = 0 THEN v ELSE _block([v EXCEPT !.pending = 0], v.pending, voiced)
    IN  IF Len(tail.out) > Len(v.out) THEN tail ELSE _take(tail)

\* Saving puts an utterance on the meeting's timeline.
on_timeline(v) ==
    [i \in 1..Len(v.out) |-> [start_ms |-> v.stream + v.out[i].start_ms,
                              end_ms |-> v.stream + v.out[i].end_ms, length |-> v.out[i].length]]

stored(v) == [v EXCEPT !.out = <<>>]

(***************************************************************************)
(* assemble_meeting_wav: the saved chunks make one file, or ValueError      *)
(***************************************************************************)
assembles(chunks) ==
    /\ chunks # <<>>
    /\ \A i \in DOMAIN chunks :
        /\ (IF i = 1 THEN 0 ELSE chunks[i - 1].end_ms) <= chunks[i].start_ms
        /\ chunks[i].start_ms < chunks[i].end_ms
        /\ chunks[i].end_ms <= MAX_MEETING_MS
        /\ chunks[i].length = chunks[i].end_ms - chunks[i].start_ms

(***************************************************************************)
(* WhisperStt.transcribe                                                   *)
(***************************************************************************)
Quiet == [at |-> "idle", posts |-> 0, voiced |-> FALSE, result |-> "none", text |-> <<>>]

\* The length of a text.  A word is its length here, so equal words are equal
\* lengths.
letters(words) == FoldLeft(LAMBDA sum, w : sum + w, 0, words) + Len(words) - 1

\* _is_repeated_short_phrase: two to four times the same one to four words,
\* unless the text is long or the phrase shorter than three letters ("yes yes").
_is_repeated_short_phrase(text) ==
    \E repeats \in {2, 3, 4} :
        /\ Len(text) >= 2 /\ letters(text) <= 48 /\ Len(text) % repeats = 0
        /\ LET size == Len(text) \div repeats
               unit == SubSeq(text, 1, size)
           IN  /\ size <= 4
               /\ letters(unit) >= 3
               /\ \A k \in 0..repeats - 1 : SubSeq(text, k * size + 1, (k + 1) * size) = unit

\* _is_silence_response: the payload's own probability, or every segment's,
\* reaches NO_SPEECH_THRESHOLD; one segment without the figure decides nothing.
Segments == SeqOf({"speech", "silence", "unknown"}, 2)

_is_silence_response(whole, segments) ==
    \/ whole = "silence"
    \/ segments # <<>> /\ ToSet(segments) = {"silence"}

\* What transcribe returns for an answer of the provider; <<>> is "".
heard_text(whole, segments, low_confidence, unrecognized, text) ==
    IF \/ _is_silence_response(whole, segments)
       \/ low_confidence /\ segments # <<>>
       \/ unrecognized
       \/ _is_repeated_short_phrase(text)
    THEN <<>> ELSE text

\* _contains_voiced_energy: audio without a voiced run is not sent at all.
transcribe(voiced) ==
    /\ hear.at = "saved"
    /\ hear' = IF voiced THEN [hear EXCEPT !.at = "posted", !.posts = 1, !.voiced = TRUE]
               ELSE [hear EXCEPT !.at = "done", !.result = "text", !.text = <<>>]

\* 400 or 422: an older gateway; the same audio without the options, once.
post_plainly ==
    /\ hear.at = "posted" /\ hear.posts = 1
    /\ hear' = [hear EXCEPT !.posts = 2]

response_arrives(whole, segments, low, unrecognized, text) ==
    /\ hear.at = "posted"
    /\ hear' = [hear EXCEPT !.at = "done", !.result = "text",
                            !.text = heard_text(whole, segments, low, unrecognized, text)]

stt_fails(code) ==
    /\ hear.at = "posted"
    /\ hear' = [hear EXCEPT !.at = "done", !.result = code]

(***************************************************************************)
(* The stream                                                              *)
(***************************************************************************)
\* A stream begins some time after the meeting did, and only while nothing
\* has been saved of an earlier one.
start_stream(offset) ==
    /\ ~vad.open /\ saved = <<>>
    /\ vad' = NewVad(offset)
    /\ UNCHANGED <<saved, hear>>

\* The worker takes the utterances one after the other: save, then transcribe.
receive_audio(n, voiced) ==
    /\ vad.open /\ hear.at \in {"idle", "done"}
    /\ vad.offset + vad.pending + n <= MaxTime
    /\ LET v == after_feed(vad, n, voiced)
       IN  /\ vad' = stored(v)
           /\ saved' = saved \o on_timeline(v)
           /\ hear' = IF v.out = <<>> THEN Quiet ELSE [Quiet EXCEPT !.at = "saved"]

end_stream(voiced) ==
    /\ vad.open /\ hear.at \in {"idle", "done"}
    /\ LET v == after_flush(vad, voiced)
       IN  /\ vad' = [NewVad(0) EXCEPT !.open = FALSE]
           /\ saved' = saved \o on_timeline(v)
           /\ hear' = IF v.out = <<>> THEN Quiet ELSE [Quiet EXCEPT !.at = "saved"]

SpeechInit == vad = [NewVad(0) EXCEPT !.open = FALSE] /\ saved = <<>> /\ hear = Quiet

SpeechNext ==
    \/ \E offset \in 0..MaxStart : start_stream(offset)
    \/ \E n \in 1..2 * BLOCK + 1 : \E voiced \in [1..(vad.pending + n) \div BLOCK -> BOOLEAN] :
          receive_audio(n, voiced)
    \/ \E voiced \in BOOLEAN : end_stream(voiced)
    \/ /\ \/ \E voiced \in BOOLEAN : transcribe(voiced)
          \/ post_plainly
          \/ hear.at = "posted" /\ \E whole \in {"speech", "silence"}, s \in Segments, low, un \in BOOLEAN, t \in HeardTexts :
                response_arrives(whole, s, low, un, t)
          \/ \E code \in {"STT_TIMEOUT", "STT_PROVIDER_ERROR", "STT_INVALID_RESPONSE"} : stt_fails(code)
       /\ UNCHANGED <<vad, saved>>

\* PcmVad with assemble_meeting_wav: however frames are cut and whenever the
\* stream begins and ends, the saved utterances are in order, do not overlap and are as
\* long as their times say, so that the audio of a meeting in which something
\* was said is refused only if it goes on for too long; none is longer than the
\* limit and one more block.
SavedSpeechAssembles ==
    /\ assembles(saved) <=> saved # <<>> /\ \A i \in DOMAIN saved : saved[i].end_ms <= MAX_MEETING_MS
    /\ \A i \in DOMAIN saved : /\ saved[i].length >= MinVoice
                               /\ saved[i].length < MaxUtterance + BLOCK
    /\ vad.active # 0 => vad.active = vad.offset - vad.start
    /\ saved # <<>> /\ vad.active # 0 => vad.stream + vad.start >= Last(saved).end_ms

\* WhisperStt: no text comes out of silence, the provider is asked at most
\* twice, and a short phrase it repeats is dropped.
NoTextFromSilence ==
    /\ hear.posts <= 2
    /\ hear.text # <<>> => /\ hear.voiced /\ hear.result = "text"
                           /\ \A n \in 3..12 : hear.text # <<n, n>> /\ hear.text # <<n, n, n>>

=============================================================================
