---------------------------- MODULE AudioProofs ----------------------------
(***************************************************************************)
(* What holds of the recorder of a meeting (module AudioStream) for any    *)
(* number of connections, utterances and segments, and any size of the     *)
(* queue: no utterance is recognised twice; and unless a resume was let    *)
(* through whose window had run out while it was checked, the transcript   *)
(* is in the order of speech and what is reported complete is complete.    *)
(***************************************************************************)
EXTENDS AudioStream, SequenceTheorems, TLAPS

----------------------------------------------------------------------------
(* The invariant.  TranscriptIsWhole alone is not inductive: that no       *)
(* utterance is recognised twice rests on where the utterances still to    *)
(* come are (OnceInv), and that speech is stored in its order, and that    *)
(* nothing is left when a recording is reported complete, on how the       *)
(* connections of one recording follow each other (AudioInv).              *)

\* What was cut in this recording is numbered before what comes; or the
\* process holds no recording.
Over ==
    /\ resumable = Nobody
    /\ \A s \in Streams :
           /\ expiry[s].pc = "none" /\ stream[s].queue = <<>>
           /\ stream[s].pc \in {"closed", "open", "starting", "done"}

ChunksFit == Over \/ \A c \in 1 .. Len(chunk) : chunk[c].utterance <= audio.cut

\* What a queue holds was cut, is in no chunk, and in no other place.
PlaceFits(s, i) ==
    /\ stream[s].queue[i] <= audio.cut
    /\ \A c \in 1 .. Len(chunk) : chunk[c].utterance # stream[s].queue[i]
    /\ \A t \in Streams : \A j \in 1 .. Len(stream[t].queue) :
           stream[s].queue[i] = stream[t].queue[j] => s = t /\ i = j

OnceInv ==
    /\ HeardOnce /\ ChunksFit
    /\ \A s \in Streams : \A i \in 1 .. Len(stream[s].queue) : PlaceFits(s, i)

\* A connection whose worker takes part in the recording.
Live(s) == stream[s].pc \in {"on", "breaking", "draining"}

NoneLive == \A s \in Streams : ~Live(s)

\* One connection at a time is between its first message and its last, and
\* holds the recorder; a lost one can be resumed while nobody records.
RecorderFits ==
    /\ \A s \in Streams :
         /\ stream[s].pc \in {"starting", "resuming", "checked", "on", "breaking"}
                => recorder = s
         /\ stream[s].pc = "starting" => resumable = Nobody /\ NoneLive
         /\ stream[s].pc \in {"resuming", "checked"} =>
                /\ stream[s].prev # Nobody
                /\ resumable = stream[s].prev \/ resumable = Nobody
    /\ recorder # Nobody =>
         stream[recorder].pc \in {"starting", "resuming", "checked", "on",
                                  "breaking", "draining"}
    /\ resumable # Nobody =>
         /\ stream[resumable].pc \in {"draining", "done"}
         /\ recorder # Nobody => stream[recorder].pc \in {"resuming", "checked"}

\* After `end` the connection keeps the recorder and no sound is left to cut.
EndFits(s) ==
    stream[s].ended =>
        /\ stream[s].pc \in {"draining", "done"}
        /\ stream[s].pc = "draining" => recorder = s /\ ~audio.open

\* The expiry is of the connection that can be resumed.
ExpiryFits ==
    \A s \in Streams : expiry[s].pc # "none" =>
        /\ resumable = s
        /\ expiry[s].pc # "waiting" => stream[s].pc = "done"

\* Only live connections hold anything, and a worker stops on an empty queue.
WorkerFits(s) ==
    /\ ~Live(s) =>
         /\ stream[s].queue = <<>> /\ stream[s].tasks = {}
         /\ stream[s].worker \in {"none", "stopped"}
    /\ Live(s) =>
         /\ stream[s].worker # "none"
         /\ stream[s].prev # Nobody =>
              Live(stream[s].prev) \/ stream[stream[s].prev].pc = "done"
    /\ stream[s].worker = "stopped" =>
         stream[s].queue = <<>> /\ stream[s].pc \notin {"on", "breaking"}
    /\ stream[s].pc \in {"closed", "open", "starting"} => stream[s].prev = Nobody

\* The live connections, the earliest first, in some numbering of them: each
\* follows the one it resumed, and the last of them records or can be resumed.
LineOrder(rank) ==
    \A s, t \in Streams : Live(s) /\ Live(t) =>
        /\ s # t => rank[s] # rank[t]
        /\ stream[t].prev = Nobody => rank[t] <= rank[s]
        /\ stream[t].prev # Nobody =>
             IF Live(stream[t].prev)
             THEN /\ rank[stream[t].prev] < rank[t]
                  /\ rank[s] < rank[t] => rank[s] <= rank[stream[t].prev]
             ELSE rank[t] <= rank[s]

LineTip(rank) ==
    \A s, t \in Streams : Live(s) /\ Live(t) =>
        (t = recorder \/ t = resumable => rank[s] <= rank[t])

\* A worker begins when those before it have stopped, and what is queued
\* behind it is said later.
LineWork(rank) ==
    \A s, t \in Streams : Live(s) /\ Live(t) /\ rank[s] < rank[t] =>
        /\ stream[t].worker # "waiting" => stream[s].worker = "stopped"
        /\ \A i \in 1 .. Len(stream[s].queue), j \in 1 .. Len(stream[t].queue) :
               stream[s].queue[i] < stream[t].queue[j]

LastIsKnown ==
    (\E s \in Streams : Live(s)) =>
        \E s \in Streams : Live(s) /\ (s = recorder \/ s = resumable)

InLine ==
    \E rank \in [Streams -> Nat] : LineOrder(rank) /\ LineTip(rank) /\ LineWork(rank)

\* Who is waiting for the recogniser waits with the newest chunk.
BeingHeard ==
    /\ Len(chunk) > 0 /\ Len(segment) < Len(chunk)
    /\ chunk[Len(chunk)].stt = "RUNNING"
    /\ \A g \in 1 .. Len(segment) :
           segment[g].utterance < chunk[Len(chunk)].utterance

HearingFits ==
    /\ \A s \in Streams :
           stream[s].worker = "hearing" => stream[s].chunk = Len(chunk) /\ BeingHeard
    /\ \A s \in Streams :
           expiry[s].pc = "hearing" => expiry[s].chunk = Len(chunk) /\ BeingHeard

RowsFit == Len(segment) <= Len(chunk) /\ Len(chunk) <= MaxSegments /\ SpeechOrder

\* Later than all that has been taken from a queue.
Unsaid(u) ==
    /\ \A c \in 1 .. Len(chunk) : chunk[c].utterance < u
    /\ \A g \in 1 .. Len(segment) : segment[g].utterance < u

QueueFits(s) ==
    \A i \in 1 .. Len(stream[s].queue) :
        /\ Unsaid(stream[s].queue[i]) /\ stream[s].queue[i] <= audio.cut
        /\ \A j \in 1 .. Len(stream[s].queue) :
               i < j => stream[s].queue[i] < stream[s].queue[j]

\* While a recording may go on, what comes next was not cut before.
CutFits ==
    resumable # Nobody \/ ~NoneLive => Unsaid(audio.cut + 1)

Queued(u) == \E s \in Streams : \E i \in 1 .. Len(stream[s].queue) :
                 stream[s].queue[i] = u

Listening == \E s \in Streams : \/ stream[s].worker = "hearing"
                                \/ expiry[s].pc = "hearing"

\* Whatever was cut is heard, waits for it, or was counted as an error.
SpokenFits ==
    \A u \in spoken : \/ heard(u) \/ audio.errors > 0 \/ Queued(u)
                      \/ Listening /\ chunk[Len(chunk)].utterance = u

\* A recording that starts again left nothing behind.
NothingYet ==
    chunk = <<>> /\ meeting.status = "RECORDING" /\ spoken # {} =>
        \E s \in Streams : stream[s].queue # <<>>

\* A recording that was reported complete does not go on.
ReportFits ==
    reported = "COMPLETED" =>
        /\ meeting.status # "RECORDING"
        /\ resumable = Nobody /\ NoneLive
        /\ ~audio.open
        /\ \A u \in spoken : heard(u)

AudioInv ==
    /\ TypeOK
    /\ RecorderFits /\ ExpiryFits /\ LastIsKnown /\ InLine
    /\ \A s \in Streams : EndFits(s) /\ WorkerFits(s) /\ QueueFits(s)
    /\ HearingFits /\ RowsFit /\ CutFits
    /\ SpokenFits /\ NothingYet /\ ReportFits

AudioWhole == TypeOK /\ OnceInv /\ (~raced => AudioInv)

----------------------------------------------------------------------------
LEMMA AudioTypes ==
    ASSUME TypeOK
    PROVE  /\ stream \in [Streams -> Stream]
           /\ \A s \in Streams :
                /\ stream[s] \in Stream
                /\ stream[s].queue \in Seq(Utterances)
                /\ stream[s].prev \in Streams \cup {Nobody}
                /\ Len(stream[s].queue) \in Nat /\ Len(stream[s].queue) <= QueueSize
                /\ \A i \in 1 .. Len(stream[s].queue) :
                       stream[s].queue[i] \in Utterances /\ stream[s].queue[i] \in Nat
                /\ stream[s].tasks \in SUBSET Nat
           /\ recorder \in Streams \cup {Nobody} /\ resumable \in Streams \cup {Nobody}
           /\ expiry \in [Streams -> Expiry] /\ \A s \in Streams : expiry[s] \in Expiry
           /\ audio \in Audio /\ audio.cut \in Nat /\ audio.open \in BOOLEAN
           /\ audio.errors \in Nat
           /\ audio = [cut |-> audio.cut, open |-> audio.open, errors |-> audio.errors]
           /\ chunk \in Seq(Chunk) /\ Len(chunk) \in Nat
           /\ \A c \in 1 .. Len(chunk) : chunk[c] \in Chunk /\ chunk[c].utterance \in Nat
           /\ segment \in Seq(Segment) /\ Len(segment) \in Nat
           /\ \A g \in 1 .. Len(segment) :
                  segment[g] \in Segment /\ segment[g].utterance \in Nat
           /\ spoken \subseteq Nat
           /\ meeting \in MeetingRow
           /\ Nobody \notin Streams /\ MaxSegments \in Nat
           /\ QueueSize \in Nat /\ QueueSize > 0
<1>1. /\ stream \in [Streams -> Stream] /\ expiry \in [Streams -> Expiry]
      /\ recorder \in Streams \cup {Nobody} /\ resumable \in Streams \cup {Nobody}
      /\ audio \in Audio
      /\ chunk \in Seq(Chunk) /\ segment \in Seq(Segment) /\ meeting \in MeetingRow
      /\ \A s \in Streams : Len(stream[s].queue) <= QueueSize
  BY DEF TypeOK, MeetingTypeOK
<1>2. /\ Nobody \notin Streams /\ MaxSegments \in Nat
      /\ QueueSize \in Nat /\ QueueSize > 0
  BY AudioAssumption
<1>3. ASSUME NEW s \in Streams
      PROVE  /\ stream[s] \in Stream
             /\ stream[s].queue \in Seq(Utterances)
             /\ stream[s].prev \in Streams \cup {Nobody}
             /\ Len(stream[s].queue) \in Nat /\ Len(stream[s].queue) <= QueueSize
             /\ \A i \in 1 .. Len(stream[s].queue) :
                    stream[s].queue[i] \in Utterances /\ stream[s].queue[i] \in Nat
             /\ stream[s].tasks \in SUBSET Nat
  <2>1. /\ stream[s] \in Stream /\ stream[s].queue \in Seq(Utterances)
        /\ stream[s].prev \in Streams \cup {Nobody}
        /\ stream[s].tasks \in SUBSET Nat
    BY <1>1 DEF Stream
  <2>2. \A i \in 1 .. Len(stream[s].queue) : stream[s].queue[i] \in Utterances
    BY <2>1, ElementOfSeq
  <2>3. \A i \in 1 .. Len(stream[s].queue) : stream[s].queue[i] \in Nat
    BY <2>2 DEF Utterances
  <2> QED
    BY <2>1, <2>2, <2>3, <1>1
<1>4. \A c \in 1 .. Len(chunk) : chunk[c] \in Chunk /\ chunk[c].utterance \in Nat
  <2>1. \A c \in 1 .. Len(chunk) : chunk[c] \in Chunk
    BY <1>1, ElementOfSeq
  <2> QED
    BY <2>1 DEF Chunk
<1>5. \A g \in 1 .. Len(segment) :
          segment[g] \in Segment /\ segment[g].utterance \in Nat
  <2>1. \A g \in 1 .. Len(segment) : segment[g] \in Segment
    BY <1>1, ElementOfSeq
  <2> QED
    BY <2>1 DEF Segment
<1>6. /\ audio.cut \in Nat /\ audio.open \in BOOLEAN /\ audio.errors \in Nat
      /\ audio = [cut |-> audio.cut, open |-> audio.open, errors |-> audio.errors]
  BY <1>1 DEF Audio
<1>7. spoken \subseteq Nat
  BY <1>6 DEF spoken
<1> QED
  BY <1>1, <1>2, <1>3, <1>4, <1>5, <1>6, <1>7

----------------------------------------------------------------------------
(* Types, and that no utterance is recognised twice.  This holds of every  *)
(* step, also after a resume that raced with the expiry.                   *)

\* One connection's record changes.
LEMMA StreamField ==
    ASSUME stream \in [Streams -> Stream], NEW s \in Streams,
           NEW row \in Stream, stream' = [stream EXCEPT ![s] = row]
    PROVE  /\ stream' \in [Streams -> Stream] /\ stream'[s] = row
           /\ \A t \in Streams : t # s => stream'[t] = stream[t]
OBVIOUS

LEMMA ExpiryField ==
    ASSUME expiry \in [Streams -> Expiry], NEW s \in Streams,
           NEW row \in Expiry, expiry' = [expiry EXCEPT ![s] = row]
    PROVE  /\ expiry' \in [Streams -> Expiry] /\ expiry'[s] = row
           /\ \A t \in Streams : t # s => expiry'[t] = expiry[t]
OBVIOUS

\* TypeOK' from the types of what changed.
LEMMA TypesSuffice ==
    ASSUME TypeOK, MeetingTypeOK', Len(chunk') >= Len(chunk),
           NEW s \in Streams, NEW row \in Stream, stream' = [stream EXCEPT ![s] = row],
           Len(row.queue) <= QueueSize,
           row.worker = "hearing" => row.chunk \in 1 .. Len(chunk'),
           recorder' \in Streams \cup {Nobody}, resumable' \in Streams \cup {Nobody},
           NEW e \in Expiry, expiry' = [expiry EXCEPT ![s] = e],
           e.pc = "hearing" => e.chunk \in 1 .. Len(chunk'),
           audio' \in Audio, raced' \in BOOLEAN,
           reported' \in {"none", "COMPLETED", "FAILED"}
    PROVE  TypeOK'
<1>1. /\ stream' \in [Streams -> Stream] /\ stream'[s] = row
      /\ \A t \in Streams : t # s => stream'[t] = stream[t]
  BY StreamField, AudioTypes
<1>2. /\ expiry' \in [Streams -> Expiry] /\ expiry'[s] = e
      /\ \A t \in Streams : t # s => expiry'[t] = expiry[t]
  BY ExpiryField, AudioTypes
<1>3. Len(chunk) \in Nat /\ Len(chunk') \in Nat
  BY AudioTypes DEF MeetingTypeOK
<1>4. ASSUME NEW t \in Streams
      PROVE  /\ Len(stream'[t].queue) <= QueueSize
             /\ stream'[t].worker = "hearing" => stream'[t].chunk \in 1 .. Len(chunk')
             /\ expiry'[t].pc = "hearing" => expiry'[t].chunk \in 1 .. Len(chunk')
  <2>1. CASE t = s
    BY <1>1, <1>2, <2>1
  <2>2. CASE t # s
    <3>1. /\ Len(stream[t].queue) <= QueueSize
          /\ stream[t].worker = "hearing" => stream[t].chunk \in 1 .. Len(chunk)
          /\ expiry[t].pc = "hearing" => expiry[t].chunk \in 1 .. Len(chunk)
      BY DEF TypeOK
    <3> QED
      BY <1>1, <1>2, <1>3, <2>2, <3>1
  <2> QED
    BY <2>1, <2>2
<1> QED
  BY <1>1, <1>2, <1>4 DEF TypeOK

\* Nothing is cut, queued or taken.
LEMMA OnceStays ==
    ASSUME TypeOK, OnceInv, Len(chunk') = Len(chunk),
           \A c \in 1 .. Len(chunk) : chunk'[c].utterance = chunk[c].utterance,
           \A t \in Streams : stream'[t].queue = stream[t].queue,
           audio'.cut = audio.cut,
           Over => chunk = <<>> \/ Over'
    PROVE  OnceInv'
<1>1. HeardOnce'
  BY DEF OnceInv, HeardOnce
<1>2. ChunksFit'
  BY DEF OnceInv, ChunksFit
<1>3. \A s \in Streams : \A i \in 1 .. Len(stream'[s].queue) : PlaceFits(s, i)'
  <2> SUFFICES ASSUME NEW s \in Streams, NEW i \in 1 .. Len(stream'[s].queue)
               PROVE  PlaceFits(s, i)'
    OBVIOUS
  <2>1. i \in 1 .. Len(stream[s].queue) /\ PlaceFits(s, i)
    BY DEF OnceInv
  <2>2. PICK u : u = stream[s].queue[i]
    OBVIOUS
  <2>3. \A t \in Streams : \A j \in 1 .. Len(stream'[t].queue) :
           u = stream'[t].queue[j] => s = t /\ i = j
    BY <2>1, <2>2 DEF PlaceFits
  <2>4. /\ u <= audio'.cut /\ stream'[s].queue[i] = u
        /\ \A c \in 1 .. Len(chunk') : chunk'[c].utterance # u
    BY <2>1, <2>2 DEF PlaceFits
  <2> QED
    BY <2>3, <2>4 DEF PlaceFits
<1> QED
  BY <1>1, <1>2, <1>3 DEF OnceInv

\* A connection's record with other fields, and what else may change when it
\* takes and cuts nothing.
Row(old, p, v, w, k) == [old EXCEPT !.pc = p, !.prev = v, !.worker = w, !.tasks = k]

LEMMA RowFields ==
    ASSUME NEW old \in Stream, NEW p, NEW v, NEW w, NEW k
    PROVE  /\ Row(old, p, v, w, k).pc = p /\ Row(old, p, v, w, k).prev = v
           /\ Row(old, p, v, w, k).worker = w /\ Row(old, p, v, w, k).tasks = k
           /\ Row(old, p, v, w, k).queue = old.queue
           /\ Row(old, p, v, w, k).chunk = old.chunk
           /\ Row(old, p, v, w, k).ended = old.ended
BY DEF Stream, Row

LEMMA RowOfPc ==
    ASSUME NEW old \in Stream, NEW p
    PROVE  [old EXCEPT !.pc = p] = Row(old, p, old.prev, old.worker, old.tasks)
BY DEF Stream, Row

LEMMA RowOfWorker ==
    ASSUME NEW old \in Stream, NEW w
    PROVE  [old EXCEPT !.worker = w] = Row(old, old.pc, old.prev, w, old.tasks)
BY DEF Stream, Row

LEMMA RowOfTasks ==
    ASSUME NEW old \in Stream, NEW k
    PROVE  [old EXCEPT !.tasks = k] = Row(old, old.pc, old.prev, old.worker, k)
BY DEF Stream, Row

LEMMA RowOfPrev ==
    ASSUME NEW old \in Stream, NEW p, NEW v
    PROVE  [old EXCEPT !.pc = p, !.prev = v] = Row(old, p, v, old.worker, old.tasks)
BY DEF Stream, Row

LEMMA RowOfStart ==
    ASSUME NEW old \in Stream, NEW p, NEW w
    PROVE  [old EXCEPT !.pc = p, !.worker = w] = Row(old, p, old.prev, w, old.tasks)
BY DEF Stream, Row

RowTypes(p, v, w, k) ==
    /\ p \in {"closed", "open", "starting", "resuming", "checked", "on",
              "breaking", "draining", "done"}
    /\ v \in Streams \cup {Nobody}
    /\ w \in {"none", "waiting", "idle", "hearing", "stopped"}
    /\ k \in SUBSET Nat

RestMoves(p) ==
    /\ UNCHANGED <<chunk, segment, expiry>> /\ meeting' \in MeetingRow
    /\ recorder' \in Streams \cup {Nobody} /\ resumable' \in Streams \cup {Nobody}
    /\ audio' \in Audio /\ audio'.cut = audio.cut /\ raced' \in BOOLEAN
    /\ reported' \in {"none", "COMPLETED", "FAILED"}
    /\ Over => \/ chunk = <<>>
               \/ /\ resumable' = Nobody
                  /\ p \in {"closed", "open", "starting", "done"}

\* One connection moves, and takes and cuts nothing.
LEMMA FieldsMove ==
    ASSUME TypeOK, OnceInv, NEW s \in Streams, NEW p, NEW v, NEW w, NEW k,
           stream' = [stream EXCEPT ![s] = Row(stream[s], p, v, w, k)],
           RowTypes(p, v, w, k), RestMoves(p),
           w = "hearing" => stream[s].worker = "hearing"
    PROVE  TypeOK' /\ OnceInv'
<1>0. PICK row : row = Row(stream[s], p, v, w, k)
  OBVIOUS
<1>1. /\ row \in Stream /\ row.pc = p /\ row.worker = w
      /\ row.queue = stream[s].queue /\ row.chunk = stream[s].chunk
  <2>1. row \in Stream
    BY <1>0, AudioTypes DEF Stream, Row, RowTypes
  <2>2. /\ row.pc = p /\ row.worker = w
        /\ row.queue = stream[s].queue /\ row.chunk = stream[s].chunk
    <3>1. stream[s] \in Stream
      BY AudioTypes
    <3> QED
      BY <1>0, <3>1, RowFields
  <2> QED
    BY <2>1, <2>2
<1>2. stream' = [stream EXCEPT ![s] = row]
  BY <1>0
<1>3. /\ MeetingTypeOK' /\ Len(chunk') >= Len(chunk) /\ Len(chunk) \in Nat
  <2>1. Len(chunk) \in Nat
    BY AudioTypes
  <2> QED
    BY <2>1 DEF TypeOK, MeetingTypeOK, RestMoves
<1>4. /\ Len(row.queue) <= QueueSize
      /\ row.worker = "hearing" => row.chunk \in 1 .. Len(chunk')
      /\ expiry[s].pc = "hearing" => expiry[s].chunk \in 1 .. Len(chunk')
  BY <1>1 DEF TypeOK, RestMoves
<1>5. expiry' = [expiry EXCEPT ![s] = expiry[s]] /\ expiry[s] \in Expiry
  BY AudioTypes DEF RestMoves
<1>6. TypeOK'
  BY <1>1, <1>2, <1>3, <1>4, <1>5, TypesSuffice DEF RestMoves
<1>7. /\ stream'[s] = row /\ \A t \in Streams : t # s => stream'[t] = stream[t]
  BY <1>1, <1>2, StreamField, AudioTypes
<1>8. Over => chunk = <<>> \/ Over'
  BY <1>1, <1>7 DEF Over, RestMoves
<1>9. OnceInv'
  <2>1. \A t \in Streams : stream'[t].queue = stream[t].queue
    BY <1>1, <1>7
  <2> QED
    BY <1>8, <2>1, OnceStays DEF RestMoves
<1> QED
  BY <1>6, <1>9

\* Its pc is all that moves of it.
LEMMA PcMoves ==
    ASSUME TypeOK, OnceInv, NEW s \in Streams,
           NEW p \in {"closed", "open", "starting", "resuming", "checked", "on",
                      "breaking", "draining", "done"},
           stream' = [stream EXCEPT ![s].pc = p], RestMoves(p)
    PROVE  TypeOK' /\ OnceInv'
<1> DEFINE old == stream[s]
<1>1. stream \in [Streams -> Stream] /\ old \in Stream
  BY AudioTypes
<1>2. stream' = [stream EXCEPT ![s] = Row(old, p, old.prev, old.worker, old.tasks)]
  <2>1. stream' = [stream EXCEPT ![s] = [old EXCEPT !.pc = p]]
    BY <1>1
  <2> QED
    BY <1>1, <2>1, RowOfPc
<1>3. RowTypes(p, old.prev, old.worker, old.tasks)
  BY <1>1 DEF RowTypes, Stream
<1> QED
  BY <1>2, <1>3, FieldsMove

LEMMA ConnectIsOnce ==
    ASSUME TypeOK, OnceInv, NEW s \in Streams, meeting_stream(s) \/ Start(s)
    PROVE  TypeOK' /\ OnceInv'
<1>1. PICK p \in {"open", "starting", "done"} : stream' = [stream EXCEPT ![s].pc = p]
  BY DEF meeting_stream, Start, close
<1>2. RestMoves(p)
  <2>1. /\ UNCHANGED <<meeting, chunk, segment, expiry, audio, resumable, raced, reported>>
        /\ recorder' \in {recorder, s}
    BY DEF meeting_stream, Start, rows, ends
  <2> QED
    BY <2>1, AudioTypes DEF RestMoves, Over, TypeOK
<1> QED
  BY <1>1, <1>2, PcMoves

LEMMA StartedIsOnce ==
    ASSUME TypeOK, OnceInv, NEW s \in Streams, Started(s)
    PROVE  TypeOK' /\ OnceInv'
<1> DEFINE old == stream[s]
<1>0. stream \in [Streams -> Stream] /\ old \in Stream /\ audio \in Audio
  BY AudioTypes
<1>1. /\ UNCHANGED <<meeting, chunk, segment, expiry, resumable, raced, reported>>
      /\ recorder' \in {recorder, Nobody}
      /\ audio' \in Audio /\ audio'.cut = audio.cut
  <2>1. \/ UNCHANGED audio
        \/ audio' = [cut |-> audio.cut, open |-> FALSE, errors |-> 0]
    BY DEF Started
  <2>2. audio' \in Audio /\ audio'.cut = audio.cut
    <3>1. CASE UNCHANGED audio
      BY <1>0, <3>1
    <3>2. CASE audio' = [cut |-> audio.cut, open |-> FALSE, errors |-> 0]
      <4>1. PICK c \in Nat, o \in BOOLEAN : c = audio.cut /\ o = FALSE
        BY AudioTypes
      <4>2. audio' = [cut |-> c, open |-> o, errors |-> 0]
        BY <3>2, <4>1
      <4> QED
        BY <4>1, <4>2 DEF Audio
    <3> QED
      BY <2>1, <3>1, <3>2
  <2> QED
    BY <2>2 DEF Started, rows, ends
<1>2. CASE may_start /\ stream' = [stream EXCEPT ![s].pc = "on", ![s].worker = "waiting"]
  <2>0. PICK p, w : p = "on" /\ w = "waiting"
    OBVIOUS
  <2>1. stream' = [stream EXCEPT ![s] = Row(old, p, old.prev, w, old.tasks)]
    <3>1. stream' = [stream EXCEPT ![s] = [old EXCEPT !.pc = p, !.worker = w]]
      BY <1>0, <1>2, <2>0
    <3> QED
      BY <1>0, <3>1, RowOfStart
  <2>2. RowTypes(p, old.prev, w, old.tasks) /\ w # "hearing"
    BY <1>0, <2>0 DEF RowTypes, Stream
  <2>3. RestMoves(p)
    BY <1>1, <1>2, AudioTypes DEF RestMoves, may_start, TypeOK
  <2> QED
    BY <2>1, <2>2, <2>3, FieldsMove
<1>3. CASE close(s)
  <2>1. RestMoves("done")
    BY <1>1, AudioTypes DEF RestMoves, Over, TypeOK
  <2> QED
    BY <1>3, <2>1, PcMoves DEF close
<1> QED
  BY <1>2, <1>3 DEF Started

LEMMA ResumeIsOnce ==
    ASSUME TypeOK, OnceInv, NEW s \in Streams, Resume(s) \/ ResumeChecked(s)
    PROVE  TypeOK' /\ OnceInv'
<1> DEFINE old == stream[s]
<1>0. /\ stream \in [Streams -> Stream] /\ old \in Stream
      /\ old.prev \in Streams \cup {Nobody} /\ resumable \in Streams \cup {Nobody}
  BY AudioTypes
<1>1. PICK p \in {"resuming", "checked", "done"}, v \in {old.prev, resumable, Nobody} :
          /\ stream' = [stream EXCEPT ![s] = Row(old, p, v, old.worker, old.tasks)]
          /\ Over => p = "done"
  <2>1. CASE Resume(s)
    <3>1. CASE /\ resumable # Nobody
               /\ stream' = [stream EXCEPT ![s].pc = "resuming", ![s].prev = resumable]
      <4>1. stream' = [stream EXCEPT ![s] = [old EXCEPT !.pc = "resuming", !.prev = resumable]]
        BY <1>0, <3>1
      <4>2. stream' = [stream EXCEPT ![s] =
                           Row(old, "resuming", resumable, old.worker, old.tasks)]
        BY <1>0, <4>1, RowOfPrev
      <4> QED
        BY <3>1, <4>2 DEF Over
    <3>2. CASE close(s)
      <4>1. stream' = [stream EXCEPT ![s] = [old EXCEPT !.pc = "done"]]
        BY <1>0, <3>2 DEF close
      <4>2. stream' = [stream EXCEPT ![s] =
                           Row(old, "done", old.prev, old.worker, old.tasks)]
        BY <1>0, <4>1, RowOfPc
      <4> QED
        BY <4>2
    <3> QED
      BY <2>1, <3>1, <3>2 DEF Resume
  <2>2. CASE ResumeChecked(s)
    <3>1. CASE stream' = [stream EXCEPT ![s].pc = "checked"]
      <4>1. stream' = [stream EXCEPT ![s] = [old EXCEPT !.pc = "checked"]]
        BY <1>0, <3>1
      <4>2. stream' = [stream EXCEPT ![s] =
                           Row(old, "checked", old.prev, old.worker, old.tasks)]
        BY <1>0, <4>1, RowOfPc
      <4> QED
        BY <2>2, <4>2 DEF Over, ResumeChecked
    <3>2. CASE stream' = [stream EXCEPT ![s].pc = "done", ![s].prev = Nobody]
      <4>1. stream' = [stream EXCEPT ![s] = [old EXCEPT !.pc = "done", !.prev = Nobody]]
        BY <1>0, <3>2
      <4>2. stream' = [stream EXCEPT ![s] =
                           Row(old, "done", Nobody, old.worker, old.tasks)]
        BY <1>0, <4>1, RowOfPrev
      <4> QED
        BY <4>2
    <3> QED
      BY <2>2, <3>1, <3>2 DEF ResumeChecked
  <2> QED
    BY <2>1, <2>2
<1>2. RowTypes(p, v, old.worker, old.tasks)
  BY <1>0 DEF RowTypes, Stream
<1>3. RestMoves(p)
  <2>1. /\ UNCHANGED <<meeting, chunk, segment, expiry, audio, resumable, raced, reported>>
        /\ recorder' \in {recorder, s, Nobody}
    BY DEF Resume, ResumeChecked, rows, ends
  <2> QED
    BY <1>1, <2>1, AudioTypes DEF RestMoves, Over, TypeOK
<1> QED
  BY <1>1, <1>2, <1>3, FieldsMove

LEMMA ResumedIsOnce ==
    ASSUME TypeOK, OnceInv, NEW s \in Streams, Resumed(s)
    PROVE  TypeOK' /\ OnceInv'
<1> DEFINE old == stream[s]
<1>0. stream \in [Streams -> Stream] /\ old \in Stream
  BY AudioTypes
<1>5. PICK p, w : p = "on" /\ w = "waiting"
  OBVIOUS
<1>1. stream' = [stream EXCEPT ![s] = Row(old, p, old.prev, w, old.tasks)]
  <2>1. stream' = [stream EXCEPT ![s] = [old EXCEPT !.pc = p, !.worker = w]]
    BY <1>0, <1>5 DEF Resumed
  <2> QED
    BY <1>0, <2>1, RowOfStart
<1>2. RowTypes(p, old.prev, w, old.tasks) /\ w # "hearing"
  BY <1>0, <1>5 DEF RowTypes, Stream
<1>3. raced' \in BOOLEAN
  <2>1. raced' = (raced \/ resumable # old.prev \/ expired)
    BY DEF Resumed
  <2> QED
    BY <2>1, Zenon
<1>4. RestMoves(p)
  <2>1. ~Over
    BY DEF Over, Resumed
  <2> QED
    BY <1>3, <2>1, AudioTypes DEF RestMoves, Resumed, rows, TypeOK
<1> QED
  BY <1>1, <1>2, <1>4, FieldsMove

LEMMA DisconnectIsOnce ==
    ASSUME TypeOK, OnceInv, NEW s \in Streams,
           Disconnect(s) \/ ProtocolError(s) \/ Finish(s)
    PROVE  TypeOK' /\ OnceInv'
<1>1. PICK p \in {"breaking", "draining", "done"} :
          /\ stream' = [stream EXCEPT ![s].pc = p]
          /\ Over => p = "done" /\ resumable' = resumable
  BY DEF Disconnect, ProtocolError, Finish, close, Over
<1>2. /\ audio' \in Audio /\ audio'.cut = audio.cut
  <2>1. UNCHANGED audio \/ audio' = [audio EXCEPT !.errors = audio.errors + 1]
    BY DEF Disconnect, ProtocolError, Finish
  <2> QED
    BY <2>1, AudioTypes DEF Audio
<1>3. RestMoves(p)
  <2>1. UNCHANGED <<chunk, segment, expiry, raced>>
    BY DEF Disconnect, ProtocolError, Finish, set_stream_status, rows, ends
  <2>2. /\ recorder' \in {recorder, Nobody} /\ resumable' \in {resumable, s}
        /\ meeting' \in MeetingRow /\ reported' \in {"none", "COMPLETED", "FAILED"}
    BY AudioTypes DEF Disconnect, ProtocolError, Finish, set_stream_status, rows, ends,
                      MeetingRow, TypeOK
  <2> QED
    BY <1>1, <1>2, <2>1, <2>2, AudioTypes DEF RestMoves, Over, TypeOK
<1> QED
  BY <1>1, <1>3, PcMoves

LEMMA WorkerIsOnce ==
    ASSUME TypeOK, OnceInv, NEW s \in Streams,
           \/ WorkerReady(s) \/ WorkerStop(s)
           \/ \E g \in stream[s].tasks : decide_one(s, g)
    PROVE  TypeOK' /\ OnceInv'
<1> DEFINE old == stream[s]
<1>0. stream \in [Streams -> Stream] /\ old \in Stream /\ audio \in Audio
  BY AudioTypes
<1>1. PICK w \in {old.worker, "idle", "stopped"}, k \in SUBSET Nat :
          stream' = [stream EXCEPT ![s] = Row(old, old.pc, old.prev, w, k)]
  <2>1. CASE WorkerReady(s) \/ WorkerStop(s)
    <3>1. PICK w \in {"idle", "stopped"} : stream' = [stream EXCEPT ![s].worker = w]
      BY <2>1 DEF WorkerReady, WorkerStop
    <3>2. stream' = [stream EXCEPT ![s] = [old EXCEPT !.worker = w]]
      BY <1>0, <3>1
    <3>3. stream' = [stream EXCEPT ![s] = Row(old, old.pc, old.prev, w, old.tasks)]
      BY <1>0, <3>2, RowOfWorker
    <3> QED
      BY <1>0, <3>3 DEF Stream
  <2>2. CASE \E g \in old.tasks : decide_one(s, g)
    <3>1. PICK g \in old.tasks : decide_one(s, g)
      BY <2>2
    <3>2. PICK k \in SUBSET Nat : k = old.tasks \ {g}
      BY <1>0 DEF Stream
    <3>3. stream' = [stream EXCEPT ![s] = [old EXCEPT !.tasks = k]]
      BY <1>0, <3>1, <3>2 DEF decide_one
    <3>4. stream' = [stream EXCEPT ![s] = Row(old, old.pc, old.prev, old.worker, k)]
      BY <1>0, <3>3, RowOfTasks
    <3> QED
      BY <3>4
  <2> QED
    BY <2>1, <2>2
<1>2. RowTypes(old.pc, old.prev, w, k)
  BY <1>0 DEF RowTypes, Stream
<1>3. RestMoves(old.pc)
  <2>1. UNCHANGED <<meeting, chunk, segment, expiry, recorder, resumable, raced, reported>>
    BY DEF WorkerReady, WorkerStop, decide_one, rows, ends
  <2>2. audio' \in Audio /\ audio'.cut = audio.cut
    <3>1. UNCHANGED audio \/ audio' = [audio EXCEPT !.errors = audio.errors + 1]
      BY DEF WorkerReady, WorkerStop, decide_one
    <3> QED
      BY <1>0, <3>1 DEF Audio
  <2> QED
    BY <2>1, <2>2, AudioTypes DEF RestMoves, Over, TypeOK
<1> QED
  BY <1>1, <1>2, <1>3, FieldsMove


----------------------------------------------------------------------------
\* Utterances are cut off, and the first of them are queued.
LEMMA OnceGrows ==
    ASSUME TypeOK, OnceInv, ~Over, UNCHANGED chunk, audio' \in Audio,
           NEW s \in Streams, NEW m \in Nat, audio'.cut >= audio.cut + m,
           Len(stream'[s].queue) = Len(stream[s].queue) + m,
           \A i \in 1 .. Len(stream[s].queue) : stream'[s].queue[i] = stream[s].queue[i],
           \A k \in 1 .. m : stream'[s].queue[Len(stream[s].queue) + k] = audio.cut + k,
           \A t \in Streams : t # s => stream'[t].queue = stream[t].queue
    PROVE  OnceInv'
<1> DEFINE Old(t, i) == t \in Streams /\ i \in 1 .. Len(stream[t].queue)
           New(t, i) == t = s /\ \E k \in 1 .. m : i = Len(stream[s].queue) + k
<1>1. /\ audio.cut \in Nat /\ audio'.cut \in Nat
      /\ \A t \in Streams : Len(stream[t].queue) \in Nat
      /\ \A c \in 1 .. Len(chunk) : chunk[c].utterance \in Nat
      /\ \A t \in Streams : \A i \in 1 .. Len(stream[t].queue) : stream[t].queue[i] \in Nat
  BY AudioTypes DEF Audio
<1>2. \A c \in 1 .. Len(chunk) : chunk[c].utterance <= audio.cut
  BY DEF OnceInv, ChunksFit
<1>3. HeardOnce' /\ ChunksFit'
  <2>1. HeardOnce'
    BY DEF OnceInv, HeardOnce
  <2>2. \A c \in 1 .. Len(chunk') : chunk'[c].utterance <= audio'.cut
    BY <1>1, <1>2
  <2> QED
    BY <2>1, <2>2 DEF ChunksFit
<1>4. \A t, i : Old(t, i) =>
          /\ stream'[t].queue[i] = stream[t].queue[i] /\ stream[t].queue[i] <= audio.cut
          /\ \A c \in 1 .. Len(chunk) : chunk[c].utterance # stream[t].queue[i]
          /\ \A v, j : Old(v, j) /\ stream[t].queue[i] = stream[v].queue[j] => t = v /\ i = j
  <2> SUFFICES ASSUME NEW t \in Streams, NEW i \in 1 .. Len(stream[t].queue)
      PROVE  /\ stream'[t].queue[i] = stream[t].queue[i] /\ stream[t].queue[i] <= audio.cut
             /\ \A c \in 1 .. Len(chunk) : chunk[c].utterance # stream[t].queue[i]
             /\ \A v \in Streams : \A j \in 1 .. Len(stream[v].queue) :
                    stream[t].queue[i] = stream[v].queue[j] => t = v /\ i = j
    OBVIOUS
  <2>1. stream'[t].queue[i] = stream[t].queue[i]
    <3>1. CASE t = s
      BY <3>1
    <3>2. CASE t # s
      BY <3>2
    <3> QED
      BY <3>1, <3>2
  <2>2. PlaceFits(t, i)
    BY DEF OnceInv
  <2> QED
    BY <2>1, <2>2, Zenon DEF PlaceFits
<1>0. PICK l \in Nat, cut \in Nat : l = Len(stream[s].queue) /\ cut = audio.cut
  BY <1>1
<1>5. ASSUME NEW t, NEW i, New(t, i)
      PROVE  /\ t = s /\ i \in Nat /\ stream'[t].queue[i] \in Nat
             /\ stream'[t].queue[i] = cut + (i - l)
             /\ stream'[t].queue[i] > cut /\ stream'[t].queue[i] <= cut + m
  <2>1. PICK k \in 1 .. m : i = l + k
    BY <1>0, <1>5
  <2>2. t = s /\ stream'[s].queue[i] = cut + k
    BY <1>0, <1>5, <2>1
  <2>3. k \in Nat /\ k <= m /\ k > 0
    OBVIOUS
  <2> QED
    BY <2>1, <2>2, <2>3
<1>10. ASSUME NEW t, NEW i, Old(t, i)
       PROVE  stream'[t].queue[i] \in Nat /\ stream'[t].queue[i] <= cut
  <2>1. stream[t].queue[i] \in Nat
    BY <1>1, <1>10
  <2> QED
    BY <1>0, <1>4, <1>10, <2>1
<1>11. ASSUME NEW c \in 1 .. Len(chunk)
       PROVE  chunk'[c].utterance \in Nat /\ chunk'[c].utterance <= cut
  BY <1>0, <1>1, <1>2
<1>6. ASSUME NEW t \in Streams, NEW i \in 1 .. Len(stream'[t].queue)
      PROVE  Old(t, i) \/ New(t, i)
  <2>1. CASE t # s
    BY <2>1
  <2>2. CASE t = s
    <3>1. CASE i <= Len(stream[s].queue)
      BY <1>1, <2>2, <3>1
    <3>2. CASE i > Len(stream[s].queue)
      <4>1. i \in Nat /\ i > l /\ i <= l + m
        BY <1>0, <2>2, <3>2
      <4>2. PICK k \in 1 .. m : i = l + k
        <5>1. i - l \in 1 .. m /\ i = l + (i - l)
          BY <4>1
        <5> QED
          BY <5>1
      <4> QED
        BY <1>0, <2>2, <4>2
    <3> QED
      BY <1>1, <2>2, <3>1, <3>2
  <2> QED
    BY <2>1, <2>2
<1> HIDE DEF Old, New
<1>7. ASSUME NEW t \in Streams, NEW i \in 1 .. Len(stream'[t].queue)
      PROVE  PlaceFits(t, i)'
  <2>1. PICK u : u = stream'[t].queue[i]
    OBVIOUS
  <2>2. u <= audio'.cut
    <3>1. CASE Old(t, i)
      <4>1. u <= audio.cut /\ u \in Nat
        BY <1>1, <1>4, <2>1, <3>1 DEF Old
      <4> QED
        BY <1>1, <4>1
    <3>2. CASE New(t, i)
      <4>1. u \in Nat /\ u <= cut + m
        BY <1>5, <2>1, <3>2
      <4> QED
        BY <1>0, <1>1, <4>1
    <3> QED
      BY <1>6, <3>1, <3>2
  <2>3. \A c \in 1 .. Len(chunk') : chunk'[c].utterance # u
    <3>1. CASE Old(t, i)
      BY <1>4, <2>1, <3>1
    <3>2. CASE New(t, i)
      <4>1. u > cut /\ u \in Nat
        BY <1>5, <2>1, <3>2
      <4> QED
        <5> SUFFICES ASSUME NEW c \in 1 .. Len(chunk') PROVE chunk'[c].utterance # u
          OBVIOUS
        <5>1. chunk'[c].utterance \in Nat /\ chunk'[c].utterance <= cut
          BY <1>11
        <5> QED
          BY <4>1, <5>1
    <3> QED
      BY <1>6, <3>1, <3>2
  <2>4. ASSUME NEW v \in Streams, NEW j \in 1 .. Len(stream'[v].queue),
               u = stream'[v].queue[j]
        PROVE  t = v /\ i = j
    <3>1. CASE Old(t, i) /\ Old(v, j)
      <4>1. stream[t].queue[i] = stream[v].queue[j]
        BY <1>4, <2>1, <2>4, <3>1
      <4> QED
        BY <1>4, <3>1, <4>1
    <3>2. CASE New(t, i) /\ New(v, j)
      <4>1. u = cut + (i - l) /\ t = s /\ i \in Nat
        BY <1>5, <2>1, <3>2
      <4>2. u = cut + (j - l) /\ v = s /\ j \in Nat
        BY <1>5, <2>4, <3>2
      <4> QED
        BY <4>1, <4>2
    <3>3. CASE Old(t, i) /\ New(v, j)
      <4>1. u <= cut /\ u \in Nat
        BY <1>10, <2>1, <3>3
      <4>2. u > cut
        BY <1>5, <2>1, <2>4, <3>3
      <4> QED
        BY <4>1, <4>2
    <3>4. CASE New(t, i) /\ Old(v, j)
      <4>1. u <= cut /\ u \in Nat
        BY <1>10, <2>4, <3>4
      <4>2. u > cut
        BY <1>5, <2>1, <2>4, <3>4
      <4> QED
        BY <4>1, <4>2
    <3> QED
      BY <1>6, <3>1, <3>2, <3>3, <3>4
  <2> QED
    BY <2>1, <2>2, <2>3, <2>4 DEF PlaceFits
<1> QED
  BY <1>3, <1>7 DEF OnceInv

\* An utterance becomes a chunk, or is dropped: one that was first in its
\* queue, or the rest that the detector kept.
LEMMA OnceTakes ==
    ASSUME TypeOK, OnceInv, ~Over, audio' \in Audio,
           NEW u \in Nat,
           \/ chunk' = chunk
           \/ chunk' = Append(chunk, [stt |-> "RUNNING", utterance |-> u]),
           u <= audio'.cut, audio.cut <= audio'.cut,
           \A c \in 1 .. Len(chunk) : chunk[c].utterance # u,
           NEW s \in Streams, NEW off \in {0, 1},
           Len(stream'[s].queue) = Len(stream[s].queue) - off,
           \A i \in 1 .. Len(stream'[s].queue) :
               stream'[s].queue[i] = stream[s].queue[i + off],
           \A t \in Streams : t # s => stream'[t].queue = stream[t].queue,
           \A t \in Streams : \A i \in 1 .. Len(stream'[t].queue) : stream'[t].queue[i] # u
    PROVE  OnceInv'
<1> DEFINE at(t, i) == IF t = s THEN i + off ELSE i
<1>1. /\ audio.cut \in Nat /\ audio'.cut \in Nat /\ Len(chunk) \in Nat
      /\ \A t \in Streams : Len(stream[t].queue) \in Nat
      /\ \A c \in 1 .. Len(chunk) : chunk[c].utterance \in Nat
      /\ \A t \in Streams : \A i \in 1 .. Len(stream[t].queue) : stream[t].queue[i] \in Nat
      /\ chunk \in Seq(Chunk)
  BY AudioTypes DEF Audio
<1>2. /\ Len(chunk') \in {Len(chunk), Len(chunk) + 1}
      /\ \A c \in 1 .. Len(chunk') :
             chunk'[c].utterance = IF c = Len(chunk) + 1 THEN u ELSE chunk[c].utterance
  <2>1. CASE chunk' = chunk
    BY <1>1, <2>1
  <2>2. CASE chunk' = Append(chunk, [stt |-> "RUNNING", utterance |-> u])
    BY <1>1, <2>2
  <2> QED
    BY <2>1, <2>2
<1>3. \A c \in 1 .. Len(chunk') : c = Len(chunk) + 1 \/ c \in 1 .. Len(chunk)
  BY <1>1, <1>2
<1>4. \A c \in 1 .. Len(chunk) : chunk[c].utterance <= audio.cut
  BY DEF OnceInv, ChunksFit
<1>5. HeardOnce'
  BY <1>2, <1>3 DEF OnceInv, HeardOnce
<1>6. ChunksFit'
  <2>1. \A c \in 1 .. Len(chunk') : chunk'[c].utterance <= audio'.cut
    <3> SUFFICES ASSUME NEW c \in 1 .. Len(chunk') PROVE chunk'[c].utterance <= audio'.cut
      OBVIOUS
    <3>1. CASE c = Len(chunk) + 1
      BY <1>2, <3>1
    <3>2. CASE c # Len(chunk) + 1
      <4>1. PICK w \in Nat : w = chunk[c].utterance /\ w <= audio.cut
        BY <1>1, <1>3, <1>4, <3>2
      <4> QED
        BY <1>1, <1>2, <3>2, <4>1
    <3> QED
      BY <3>1, <3>2
  <2> QED
    BY <2>1 DEF ChunksFit
<1>7. ASSUME NEW t \in Streams, NEW i \in 1 .. Len(stream'[t].queue)
      PROVE  /\ at(t, i) \in 1 .. Len(stream[t].queue)
             /\ stream'[t].queue[i] = stream[t].queue[at(t, i)]
             /\ i \in Nat
  <2>1. CASE t = s
    <3>1. PICK l \in Nat : l = Len(stream[s].queue)
      BY <1>1
    <3>2. i \in Nat /\ i >= 1 /\ i <= l - off
      BY <2>1, <3>1
    <3>3. i + off \in 1 .. l
      BY <3>2
    <3> QED
      BY <2>1, <3>1, <3>2, <3>3
  <2>2. CASE t # s
    BY <1>1, <2>2
  <2> QED
    BY <2>1, <2>2
<1>8. \A t \in Streams : \A i, j \in Nat : at(t, i) = at(t, j) => i = j
  OBVIOUS
<1> HIDE DEF at
<1>9. ASSUME NEW t \in Streams, NEW i \in 1 .. Len(stream'[t].queue)
      PROVE  PlaceFits(t, i)'
  <2>1. PICK w : w = stream'[t].queue[i]
    OBVIOUS
  <2>2. PICK k \in 1 .. Len(stream[t].queue) : k = at(t, i) /\ w = stream[t].queue[k]
    BY <1>7, <2>1
  <2>3. PlaceFits(t, k) /\ w \in Nat
    BY <1>1, <2>2 DEF OnceInv
  <2>4. w <= audio'.cut
    <3>1. w <= audio.cut
      BY <2>2, <2>3 DEF PlaceFits
    <3> QED
      BY <1>1, <2>3, <3>1
  <2>5. \A c \in 1 .. Len(chunk') : chunk'[c].utterance # w
    <3>1. u # w
      BY <2>1
    <3>2. \A c \in 1 .. Len(chunk) : chunk[c].utterance # w
      BY <2>2, <2>3 DEF PlaceFits
    <3> QED
      BY <1>2, <1>3, <3>1, <3>2
  <2>6. ASSUME NEW v \in Streams, NEW j \in 1 .. Len(stream'[v].queue),
               w = stream'[v].queue[j]
        PROVE  t = v /\ i = j
    <3>1. /\ at(v, j) \in 1 .. Len(stream[v].queue) /\ w = stream[v].queue[at(v, j)]
          /\ i \in Nat /\ j \in Nat
      BY <1>7, <2>6
    <3>2. t = v /\ k = at(v, j)
      BY <2>2, <2>3, <3>1 DEF PlaceFits
    <3> QED
      BY <1>8, <2>2, <3>1, <3>2
  <2> QED
    BY <2>1, <2>4, <2>5, <2>6 DEF PlaceFits
<1> QED
  BY <1>5, <1>6, <1>9 DEF OnceInv

\* What sound does to a queue and to the detector: n utterances are cut off, m
\* of them are queued, and what is dropped is counted.
Sound(old, q, n, m, a, b) ==
    /\ n \in 0 .. 2 /\ m \in 0 .. 2 /\ m <= n
    /\ q \in Seq(Utterances) /\ Len(q) <= QueueSize /\ Len(q) = Len(old) + m
    /\ \A i \in 1 .. Len(old) : q[i] = old[i]
    /\ \A k \in 1 .. m : q[Len(old) + k] = a.cut + k
    /\ n > 0 => Len(q) > 0
    /\ b \in Audio /\ b.cut = a.cut + n /\ b.errors >= a.errors
    /\ m = n \/ b.errors > 0

QueueRow(old, p, e, q) == [old EXCEPT !.pc = p, !.ended = e, !.queue = q]

LEMMA QueueRowFields ==
    ASSUME NEW old \in Stream, NEW p, NEW e, NEW q
    PROVE  /\ QueueRow(old, p, e, q).pc = p /\ QueueRow(old, p, e, q).ended = e
           /\ QueueRow(old, p, e, q).queue = q
           /\ QueueRow(old, p, e, q).prev = old.prev
           /\ QueueRow(old, p, e, q).worker = old.worker
           /\ QueueRow(old, p, e, q).chunk = old.chunk
           /\ QueueRow(old, p, e, q).tasks = old.tasks
BY DEF Stream, QueueRow

LEMMA RowOfQueue ==
    ASSUME NEW old \in Stream, NEW p, NEW q
    PROVE  [old EXCEPT !.queue = q, !.pc = p] = QueueRow(old, p, old.ended, q)
BY DEF Stream, QueueRow

LEMMA RowOfBreak ==
    ASSUME NEW old \in Stream, NEW p, NEW q
    PROVE  [old EXCEPT !.pc = p, !.queue = q] = QueueRow(old, p, old.ended, q)
BY DEF Stream, QueueRow

LEMMA RowOfStop ==
    ASSUME NEW old \in Stream, NEW p
    PROVE  [old EXCEPT !.pc = p] = QueueRow(old, p, old.ended, old.queue)
BY DEF Stream, QueueRow

LEMMA FeedIs ==
    ASSUME TypeOK, NEW s \in Streams, Feed(s)
    PROVE  \E n, m, q : \E p \in {"on", "breaking"} :
               /\ Sound(stream[s].queue, q, n, m, audio, audio')
               /\ stream' = [stream EXCEPT ![s] = QueueRow(stream[s], p, stream[s].ended, q)]
<1> DEFINE old == stream[s]
<1>1. PICK n \in 0 .. 2, rest \in BOOLEAN :
          LET room == QueueSize - Len(stream[s].queue)
              fit == IF n <= room THEN n ELSE room
          IN
          /\ stream' = [stream EXCEPT
                 ![s].queue = @ \o [k \in 1 .. fit |-> audio.cut + k],
                 ![s].pc = IF fit = n THEN "on" ELSE "breaking"]
          /\ audio' = [cut |-> audio.cut + n, open |-> rest,
                       errors |-> IF fit = n THEN audio.errors ELSE audio.errors + 1]
  BY DEF Feed
<1>2. /\ stream \in [Streams -> Stream] /\ old \in Stream
      /\ old.queue \in Seq(Utterances) /\ audio.cut \in Nat /\ audio.errors \in Nat
  BY AudioTypes
<1>3. PICK l \in Nat, cut \in Nat, size \in Nat :
          l = Len(old.queue) /\ cut = audio.cut /\ size = QueueSize /\ l <= size /\ size > 0
  BY AudioTypes
<1>4. PICK m \in 0 .. 2 : m = (IF n <= size - l THEN n ELSE size - l)
  BY <1>3
<1>5. m <= n /\ l + m <= size /\ (n > 0 => l + m > 0)
  <2>0. l <= size /\ size > 0
    BY <1>3
  <2>1. CASE n <= size - l
    <3>1. m = n
      BY <1>4, <2>1
    <3> QED
      BY <2>0, <2>1, <3>1
  <2>2. CASE n > size - l
    <3>1. m = size - l
      BY <1>4, <2>2
    <3> QED
      BY <2>0, <2>2, <3>1
  <2> QED
    BY <2>1, <2>2
<1>6. PICK new \in Seq(Utterances) :
          new = [k \in 1 .. m |-> cut + k] /\ Len(new) = m /\ \A k \in 1 .. m : new[k] = cut + k
  <2>1. PICK w : w = [k \in 1 .. m |-> cut + k]
    OBVIOUS
  <2>2. \A k \in 1 .. m : w[k] = cut + k /\ cut + k \in Utterances
    BY <2>1 DEF Utterances
  <2>3. w \in [1 .. m -> Utterances]
    BY <2>1, <2>2
  <2>4. w \in Seq(Utterances) /\ Len(w) = m
    BY <2>3
  <2> QED
    BY <2>1, <2>2, <2>4
<1>7. PICK q \in Seq(Utterances) :
          /\ q = old.queue \o new /\ Len(q) = l + m
          /\ \A i \in 1 .. l : q[i] = old.queue[i]
          /\ \A k \in 1 .. m : q[l + k] = cut + k
  <2>1. PICK w \in Seq(Utterances) : w = old.queue
    BY <1>2
  <2>2. /\ w \o new \in Seq(Utterances) /\ Len(w \o new) = l + m
        /\ \A i \in 1 .. l : (w \o new)[i] = w[i]
    BY <1>3, <1>6, <2>1
  <2>3. \A k \in 1 .. m : (w \o new)[l + k] = new[k]
    BY <1>3, <1>6, <2>1
  <2> QED
    BY <1>6, <2>1, <2>2, <2>3
<1>8. PICK p \in {"on", "breaking"} : p = (IF m = n THEN "on" ELSE "breaking")
  OBVIOUS
<1>9. stream' = [stream EXCEPT ![s] = QueueRow(old, p, old.ended, q)]
  <2>1. stream' = [stream EXCEPT ![s] = [old EXCEPT !.queue = q, !.pc = p]]
    BY <1>1, <1>2, <1>3, <1>4, <1>6, <1>7, <1>8
  <2>2. [old EXCEPT !.queue = q, !.pc = p] = QueueRow(old, p, old.ended, q)
    BY <1>2, RowOfQueue
  <2> QED
    BY <2>1, <2>2
<1>10. PICK e \in Nat : e = audio.errors
  BY <1>2
<1>11. audio' = [cut |-> cut + n, open |-> rest, errors |-> IF m = n THEN e ELSE e + 1]
  BY <1>1, <1>3, <1>4, <1>10
<1>12. /\ audio' \in Audio /\ audio'.cut = cut + n /\ audio'.errors >= e
       /\ m = n \/ audio'.errors > 0
  BY <1>11 DEF Audio
<1>13. Sound(old.queue, q, n, m, audio, audio')
  BY <1>3, <1>5, <1>7, <1>10, <1>12 DEF Sound
<1> QED
  BY <1>9, <1>13

\* The rest that the detector hands over at the end.
LEMMA TailIs ==
    ASSUME TypeOK, NEW s \in Streams, NEW tail \in flush, NEW e \in {0, 1},
           NEW b \in Audio, b.cut = flushed(tail).cut, b.errors = audio.errors + e,
           NEW q,
           \/ q = stream[s].queue /\ (tail = 0 \/ (e = 1 /\ ~fits(s)))
           \/ tail # 0 /\ fits(s) /\ q = Append(stream[s].queue, tail)
    PROVE  \E n, m : Sound(stream[s].queue, q, n, m, audio, b)
<1>1. PICK l \in Nat, cut \in Nat, size \in Nat, old \in Seq(Utterances) :
          /\ old = stream[s].queue
          /\ l = Len(old) /\ cut = audio.cut /\ size = QueueSize /\ l <= size /\ size > 0
  BY AudioTypes
<1>2. PICK n \in 0 .. 2 : n = IF tail = 0 THEN 0 ELSE 1
  OBVIOUS
<1>3. tail = 0 \/ tail = cut + 1
  BY <1>1 DEF flush
<1>4. b.cut = cut + n /\ b.errors >= audio.errors /\ (e = 1 => b.errors > 0)
  <2>1. audio \in Audio /\ audio.errors \in Nat
    BY AudioTypes
  <2>2. flushed(tail).cut = IF tail = 0 THEN cut ELSE tail
    BY <1>1, <2>1 DEF flushed, Audio
  <2> QED
    BY <1>1, <1>2, <1>3, <2>1, <2>2
<1>5. CASE q = stream[s].queue /\ (tail = 0 \/ (e = 1 /\ ~fits(s)))
  <2>1. n > 0 => l > 0
    BY <1>1, <1>2, <1>5 DEF fits
  <2>2. 0 = n \/ b.errors > 0
    BY <1>2, <1>4, <1>5
  <2>3. q = old /\ Len(q) = l + 0
    BY <1>1, <1>5
  <2>4. Sound(old, q, n, 0, audio, b)
    BY <1>1, <1>2, <1>4, <2>1, <2>2, <2>3 DEF Sound
  <2> QED
    BY <1>1, <2>4
<1>6. CASE tail # 0 /\ fits(s) /\ q = Append(stream[s].queue, tail)
  <2>1. n = 1 /\ l + 1 <= size /\ tail = cut + 1 /\ tail \in Utterances
    BY <1>1, <1>2, <1>3, <1>6 DEF fits, Utterances
  <2>2. /\ q \in Seq(Utterances) /\ Len(q) = l + 1
        /\ \A i \in 1 .. l : q[i] = old[i]
        /\ q[l + 1] = cut + 1
    BY <1>1, <1>6, <2>1
  <2>3. \A k \in 1 .. 1 : q[l + k] = cut + k
    BY <2>2
  <2>4. Sound(old, q, n, 1, audio, b)
    BY <1>1, <1>4, <2>1, <2>2, <2>3 DEF Sound
  <2> QED
    BY <1>1, <2>4
<1> QED
  BY <1>5, <1>6

LEMMA FlushedIs ==
    ASSUME TypeOK, NEW tail \in flush
    PROVE  /\ flushed(tail) \in Audio /\ flushed(tail).errors = audio.errors
           /\ ~flushed(tail).open
<1>0. PICK d \in Nat : d = IF tail = 0 THEN audio.cut ELSE tail
  BY AudioTypes DEF flush
<1>6. PICK x \in BOOLEAN : x = FALSE
  OBVIOUS
<1>1. PICK a \in Audio : a = audio
  BY AudioTypes
<1>2. PICK b : b = [a EXCEPT !.open = x, !.cut = d]
  OBVIOUS
<1>3. b = flushed(tail)
  BY <1>0, <1>1, <1>2, <1>6 DEF flushed
<1>4. b \in Audio
  BY <1>2 DEF Audio
<1>5. b.errors = a.errors /\ b.open = x
  BY <1>2 DEF Audio
<1> QED
  BY <1>1, <1>3, <1>4, <1>5, <1>6

LEMMA BreakIs ==
    ASSUME TypeOK, NEW s \in Streams, Break(s)
    PROVE  \/ /\ resumable' = s /\ recorder' = Nobody /\ UNCHANGED audio
              /\ stream' = [stream EXCEPT ![s].pc = "draining"]
           \/ /\ UNCHANGED <<resumable, recorder>> /\ ~audio'.open
              /\ \E n, m, q, p :
                     /\ p = "draining" /\ Sound(stream[s].queue, q, n, m, audio, audio')
                     /\ stream' = [stream EXCEPT
                            ![s] = QueueRow(stream[s], p, stream[s].ended, q)]
<1> DEFINE old == stream[s]
<1>1. /\ stream \in [Streams -> Stream] /\ old \in Stream
      /\ audio \in Audio /\ audio.cut \in Nat /\ audio.errors \in Nat
      /\ audio = [cut |-> audio.cut, open |-> audio.open, errors |-> audio.errors]
  BY AudioTypes
<1>2. ASSUME NEW tail \in flush, NEW kept,
             kept = (tail # 0 /\ fits(s)), UNCHANGED <<resumable, recorder>>,
             stream' = [stream EXCEPT ![s].pc = "draining",
                     ![s].queue = IF kept THEN Append(@, tail) ELSE @],
             audio' = [flushed(tail) EXCEPT
                     !.errors = IF tail # 0 /\ ~kept THEN @ + 1 ELSE @]
      PROVE  /\ ~audio'.open
             /\ \E n, m, q, p :
                    /\ p = "draining" /\ Sound(stream[s].queue, q, n, m, audio, audio')
                    /\ stream' = [stream EXCEPT
                           ![s] = QueueRow(stream[s], p, stream[s].ended, q)]
  <2>1. PICK e \in {0, 1} : e = IF tail # 0 /\ ~kept THEN 1 ELSE 0
    OBVIOUS
  <2>2. flushed(tail) \in Audio /\ flushed(tail).errors = audio.errors /\ ~flushed(tail).open
    BY FlushedIs
  <2>3. /\ audio' \in Audio /\ audio'.cut = flushed(tail).cut
        /\ audio'.errors = audio.errors + e /\ ~audio'.open
    <3>1. audio' = [flushed(tail) EXCEPT !.errors = audio.errors + e]
      <4>1. CASE tail # 0 /\ ~kept
        BY <1>2, <2>1, <2>2, <4>1
      <4>2. CASE ~(tail # 0 /\ ~kept)
        <5>1. e = 0 /\ audio' = [flushed(tail) EXCEPT !.errors = flushed(tail).errors]
          BY <1>2, <2>1, <4>2
        <5>2. audio.errors + e = flushed(tail).errors
          BY <1>1, <2>2, <5>1
        <5> QED
          BY <5>1, <5>2
      <4> QED
        BY <4>1, <4>2
    <3> QED
      BY <1>1, <2>1, <2>2, <3>1 DEF Audio
  <2>4. PICK q : q = IF kept THEN Append(old.queue, tail) ELSE old.queue
    OBVIOUS
  <2>5. PICK p : p = "draining"
    OBVIOUS
  <2>6. stream' = [stream EXCEPT ![s] = QueueRow(old, p, old.ended, q)]
    <3>1. stream' = [stream EXCEPT ![s] = [old EXCEPT !.pc = p, !.queue = q]]
      BY <1>1, <1>2, <2>4, <2>5
    <3>2. [old EXCEPT !.pc = p, !.queue = q] = QueueRow(old, p, old.ended, q)
      BY <1>1, RowOfBreak
    <3> QED
      BY <3>1, <3>2
  <2>7. \/ q = old.queue /\ (tail = 0 \/ (e = 1 /\ ~fits(s)))
        \/ tail # 0 /\ fits(s) /\ q = Append(old.queue, tail)
    BY <1>2, <2>1, <2>4
  <2>8. PICK n, m : Sound(old.queue, q, n, m, audio, audio')
    BY <2>1, <2>3, <2>7, TailIs
  <2> QED
    BY <2>3, <2>5, <2>6, <2>8
<1> QED
  BY <1>2 DEF Break

LEMMA EndIs ==
    ASSUME TypeOK, NEW s \in Streams, End(s)
    PROVE  \E n, m, q, p, e :
               /\ Sound(stream[s].queue, q, n, m, audio, audio')
               /\ stream' = [stream EXCEPT ![s] = QueueRow(stream[s], p, e, q)]
               /\ \/ /\ p = "draining" /\ e = TRUE /\ set_stream_status("FINALIZING")
                     /\ ~audio'.open
                  \/ p = "breaking" /\ e = stream[s].ended /\ UNCHANGED rows
<1> DEFINE old == stream[s]
<1>1. /\ stream \in [Streams -> Stream] /\ old \in Stream
      /\ audio \in Audio /\ audio.cut \in Nat /\ audio.errors \in Nat
  BY AudioTypes
<1>2. PICK tail \in flush :
           \/ /\ tail = 0 \/ fits(s)
              /\ stream' = [stream EXCEPT
                     ![s].pc = "draining", ![s].ended = TRUE,
                     ![s].queue = IF tail = 0 THEN @ ELSE Append(@, tail)]
              /\ audio' = flushed(tail)
              /\ set_stream_status("FINALIZING")
           \/ /\ tail # 0 /\ ~fits(s)
              /\ stream' = [stream EXCEPT ![s].pc = "breaking"]
              /\ audio' = [flushed(tail) EXCEPT !.errors = @ + 1]
              /\ UNCHANGED rows
  BY DEF End
<1>3. flushed(tail) \in Audio /\ flushed(tail).errors = audio.errors /\ ~flushed(tail).open
  BY FlushedIs
<1>4. CASE /\ tail = 0 \/ fits(s)
           /\ stream' = [stream EXCEPT
                  ![s].pc = "draining", ![s].ended = TRUE,
                  ![s].queue = IF tail = 0 THEN @ ELSE Append(@, tail)]
           /\ audio' = flushed(tail)
           /\ set_stream_status("FINALIZING")
  <2>1. PICK q : q = IF tail = 0 THEN old.queue ELSE Append(old.queue, tail)
    OBVIOUS
  <2>2. PICK p, e : p = "draining" /\ e = TRUE
    OBVIOUS
  <2>3. stream' = [stream EXCEPT ![s] = QueueRow(old, p, e, q)]
    <3>1. stream' = [stream EXCEPT ![s] = [old EXCEPT !.pc = p, !.ended = e, !.queue = q]]
      BY <1>1, <1>4, <2>1, <2>2
    <3>2. [old EXCEPT !.pc = p, !.ended = e, !.queue = q] = QueueRow(old, p, e, q)
      BY DEF QueueRow
    <3> QED
      BY <3>1, <3>2
  <2>4. PICK n, m : Sound(old.queue, q, n, m, audio, audio')
    <3>1. \/ q = old.queue /\ tail = 0
          \/ tail # 0 /\ fits(s) /\ q = Append(old.queue, tail)
      BY <1>4, <2>1
    <3>2. PICK d \in {0, 1} : d = 0 /\ audio'.errors = audio.errors + d
      BY <1>1, <1>3, <1>4
    <3>3. audio' \in Audio /\ audio'.cut = flushed(tail).cut
      BY <1>3, <1>4
    <3> QED
      BY <3>1, <3>2, <3>3, TailIs
  <2> QED
    BY <1>3, <1>4, <2>2, <2>3, <2>4
<1>5. CASE /\ tail # 0 /\ ~fits(s)
           /\ stream' = [stream EXCEPT ![s].pc = "breaking"]
           /\ audio' = [flushed(tail) EXCEPT !.errors = @ + 1]
           /\ UNCHANGED rows
  <2>1. PICK q : q = old.queue
    OBVIOUS
  <2>2. PICK p, e : p = "breaking" /\ e = old.ended
    OBVIOUS
  <2>3. stream' = [stream EXCEPT ![s] = QueueRow(old, p, e, q)]
    <3>1. stream' = [stream EXCEPT ![s] = [old EXCEPT !.pc = p]]
      BY <1>1, <1>5, <2>2
    <3>2. [old EXCEPT !.pc = p] = QueueRow(old, p, old.ended, old.queue)
      BY <1>1, RowOfStop
    <3> QED
      BY <2>1, <2>2, <3>1, <3>2
  <2>4. PICK n, m : Sound(old.queue, q, n, m, audio, audio')
    <3>1. /\ audio' \in Audio /\ audio'.cut = flushed(tail).cut
      BY <1>3, <1>5 DEF Audio
    <3>2. PICK d \in {0, 1} : d = 1 /\ audio'.errors = audio.errors + d
      BY <1>1, <1>3, <1>5 DEF Audio
    <3> QED
      BY <1>5, <2>1, <3>1, <3>2, TailIs
  <2> QED
    BY <1>5, <2>2, <2>3, <2>4
<1> QED
  BY <1>2, <1>4, <1>5

\* Sound comes in, or the rest of it at the end.
LEMMA SoundIsOnce ==
    ASSUME TypeOK, OnceInv, NEW s \in Streams, stream[s].pc \in {"on", "breaking"},
           NEW n, NEW m, NEW q, NEW e \in BOOLEAN, NEW p \in {"on", "breaking", "draining"},
           Sound(stream[s].queue, q, n, m, audio, audio'),
           stream' = [stream EXCEPT ![s] = QueueRow(stream[s], p, e, q)],
           UNCHANGED <<chunk, segment, recorder, resumable, expiry, raced, reported>>,
           meeting' \in MeetingRow
    PROVE  TypeOK' /\ OnceInv'
<1>1. PICK old, row : old = stream[s] /\ row = QueueRow(old, p, e, q)
  OBVIOUS
<1>2. old \in Stream
  BY <1>1, AudioTypes
<1>3. /\ row.queue = q /\ row.worker = old.worker /\ row.chunk = old.chunk
  BY <1>1, <1>2, QueueRowFields
<1>4. row \in Stream
  BY <1>1, <1>2 DEF Stream, QueueRow, Sound
<1>5. stream' = [stream EXCEPT ![s] = row]
  BY <1>1
<1>6. /\ stream'[s] = row /\ \A t \in Streams : t # s => stream'[t] = stream[t]
  BY <1>4, <1>5, StreamField, AudioTypes
<1>7. TypeOK'
  <2>1. MeetingTypeOK' /\ Len(chunk') >= Len(chunk)
    BY AudioTypes DEF TypeOK, MeetingTypeOK
  <2>2. /\ Len(row.queue) <= QueueSize /\ audio' \in Audio
        /\ row.worker = "hearing" => row.chunk \in 1 .. Len(chunk')
    BY <1>1, <1>3 DEF TypeOK, Sound
  <2>3. /\ expiry' = [expiry EXCEPT ![s] = expiry[s]] /\ expiry[s] \in Expiry
        /\ expiry[s].pc = "hearing" => expiry[s].chunk \in 1 .. Len(chunk')
    BY AudioTypes DEF TypeOK
  <2> QED
    BY <1>4, <1>5, <2>1, <2>2, <2>3, TypesSuffice DEF TypeOK
<1>8. OnceInv'
  <2>1. ~Over
    BY DEF Over
  <2>2. m \in Nat /\ audio'.cut >= audio.cut + m
    <3>1. PICK cut \in Nat : cut = audio.cut
      BY AudioTypes
    <3>2. n \in Nat /\ m \in Nat /\ m <= n /\ audio'.cut = cut + n
      BY <3>1 DEF Sound
    <3> QED
      BY <3>1, <3>2
  <2>3. /\ audio' \in Audio /\ Len(stream'[s].queue) = Len(stream[s].queue) + m
        /\ \A i \in 1 .. Len(stream[s].queue) : stream'[s].queue[i] = stream[s].queue[i]
        /\ \A k \in 1 .. m : stream'[s].queue[Len(stream[s].queue) + k] = audio.cut + k
        /\ \A t \in Streams : t # s => stream'[t].queue = stream[t].queue
    BY <1>3, <1>6 DEF Sound
  <2> QED
    BY <2>1, <2>2, <2>3, OnceGrows
<1> QED
  BY <1>7, <1>8

LEMMA FeedIsOnce ==
    ASSUME TypeOK, OnceInv, NEW s \in Streams, Feed(s) \/ Break(s) \/ End(s)
    PROVE  TypeOK' /\ OnceInv'
<1>1. /\ stream[s].pc \in {"on", "breaking"} /\ UNCHANGED <<expiry, raced, reported>>
  BY DEF Feed, Break, End, ends
<1>2. stream[s].ended \in BOOLEAN /\ meeting \in MeetingRow
  BY AudioTypes DEF Stream
<1>3. CASE Feed(s)
  <2>1. PICK n, m, q : \E p \in {"on", "breaking"} :
               /\ Sound(stream[s].queue, q, n, m, audio, audio')
               /\ stream' = [stream EXCEPT ![s] = QueueRow(stream[s], p, stream[s].ended, q)]
    BY <1>3, FeedIs
  <2>2. UNCHANGED <<meeting, chunk, segment, recorder, resumable>>
    BY <1>3 DEF Feed, rows, ends
  <2> QED
    BY <1>1, <1>2, <2>1, <2>2, SoundIsOnce
<1>4. CASE Break(s)
  <2>0. UNCHANGED <<meeting, chunk, segment>>
    BY <1>4 DEF Break, rows
  <2>1. CASE /\ resumable' = s /\ recorder' = Nobody /\ UNCHANGED audio
             /\ stream' = [stream EXCEPT ![s].pc = "draining"]
    <3>1. RestMoves("draining")
      BY <1>1, <1>2, <2>0, <2>1, AudioTypes DEF RestMoves, Over, TypeOK
    <3> QED
      BY <2>1, <3>1, PcMoves
  <2>2. CASE UNCHANGED <<resumable, recorder>> /\
              \E n, m, q, p :
                     /\ p = "draining" /\ Sound(stream[s].queue, q, n, m, audio, audio')
                     /\ stream' = [stream EXCEPT
                            ![s] = QueueRow(stream[s], p, stream[s].ended, q)]
    <3>1. PICK n, m, q, p :
                     /\ p = "draining" /\ Sound(stream[s].queue, q, n, m, audio, audio')
                     /\ stream' = [stream EXCEPT
                            ![s] = QueueRow(stream[s], p, stream[s].ended, q)]
      BY <2>2
    <3> QED
      BY <1>1, <1>2, <2>0, <2>2, <3>1, SoundIsOnce
  <2> QED
    BY <1>4, <2>1, <2>2, BreakIs
<1>5. CASE End(s)
  <2>1. PICK n, m, q, p, e :
               /\ Sound(stream[s].queue, q, n, m, audio, audio')
               /\ stream' = [stream EXCEPT ![s] = QueueRow(stream[s], p, e, q)]
               /\ \/ /\ p = "draining" /\ e = TRUE /\ set_stream_status("FINALIZING")
                     /\ ~audio'.open
                  \/ p = "breaking" /\ e = stream[s].ended /\ UNCHANGED rows
    BY <1>5, EndIs
  <2>2. UNCHANGED <<chunk, segment, recorder, resumable>> /\ meeting' \in MeetingRow
    BY <1>2, <1>5, <2>1 DEF End, ends, rows, set_stream_status, MeetingRow
  <2>3. e \in BOOLEAN /\ p \in {"on", "breaking", "draining"}
    BY <1>2, <2>1
  <2> QED
    BY <1>1, <2>1, <2>2, <2>3, SoundIsOnce
<1> QED
  BY <1>3, <1>4, <1>5

----------------------------------------------------------------------------
\* The types of the rows.
LEMMA ChunkIsTaken ==
    ASSUME TypeOK, NEW u \in Utterances, begin_stream_utterance(u)
    PROVE  /\ MeetingTypeOK' /\ Len(chunk') = Len(chunk) + 1
           /\ Len(chunk') \in 1 .. Len(chunk')
           /\ chunk' = Append(chunk, [stt |-> "RUNNING", utterance |-> u])
           /\ meeting' = meeting /\ segment' = segment
<1>1. /\ chunk \in Seq(Chunk) /\ Len(chunk) \in Nat /\ u \in Nat
      /\ segment \in Seq(Segment) /\ meeting \in MeetingRow
  BY AudioTypes DEF Utterances
<1>2. PICK r \in Chunk : r = [stt |-> "RUNNING", utterance |-> u]
  BY <1>1 DEF Chunk
<1>3. /\ chunk' = Append(chunk, r) /\ UNCHANGED <<meeting, segment>>
  BY <1>2 DEF begin_stream_utterance
<1>4. chunk' \in Seq(Chunk) /\ Len(chunk') = Len(chunk) + 1
  BY <1>1, <1>3
<1> QED
  BY <1>1, <1>2, <1>3, <1>4 DEF MeetingTypeOK

\* The answer of the recogniser is stored, or its failure.
Answered(c) ==
    \/ save_stream_transcript(c, TRUE) \/ save_stream_transcript(c, FALSE)
    \/ fail_stream_stt(c)

LEMMA ChunkIsAnswered ==
    ASSUME TypeOK, NEW c \in 1 .. Len(chunk), Answered(c)
    PROVE  /\ MeetingTypeOK' /\ Len(chunk') = Len(chunk)
           /\ \A d \in 1 .. Len(chunk) : chunk'[d].utterance = chunk[d].utterance
           /\ Len(segment') \in Nat /\ meeting' = meeting
<1>1. /\ chunk \in Seq(Chunk) /\ Len(chunk) \in Nat
      /\ segment \in Seq(Segment) /\ meeting \in MeetingRow
      /\ \A d \in 1 .. Len(chunk) : chunk[d] \in Chunk
  BY AudioTypes
<1>2. PICK stt \in {"SUCCEEDED", "FAILED"} : chunk' = [chunk EXCEPT ![c].stt = stt]
  BY DEF Answered, save_stream_transcript, fail_stream_stt
<1>3. PICK r \in Chunk : r = [chunk[c] EXCEPT !.stt = stt] /\ r.utterance = chunk[c].utterance
  <2>1. PICK r : r = [chunk[c] EXCEPT !.stt = stt]
    OBVIOUS
  <2>2. r \in Chunk
    BY <1>1, <2>1 DEF Chunk
  <2>3. r.utterance = chunk[c].utterance
    BY <1>1, <2>1 DEF Chunk
  <2> QED
    BY <2>1, <2>2, <2>3
<1>4. chunk' = [chunk EXCEPT ![c] = r]
  BY <1>1, <1>2, <1>3
<1>5. /\ chunk' \in Seq(Chunk) /\ Len(chunk') = Len(chunk)
      /\ \A d \in 1 .. Len(chunk) : chunk'[d] = IF d = c THEN r ELSE chunk[d]
  BY <1>1, <1>4, ExceptSeq
<1>6. meeting' = meeting
  BY DEF Answered, save_stream_transcript, fail_stream_stt
<1>7. segment' \in Seq(Segment)
  <2>1. CASE segment' = segment
    BY <1>1, <2>1
  <2>2. CASE segment' = Append(segment, [utterance |-> chunk[c].utterance,
                           version |-> 1, final |-> TRUE, job |-> 0])
    <3>1. PICK g \in Segment : segment' = Append(segment, g)
      <4>1. PICK u \in Nat, t \in BOOLEAN : u = chunk[c].utterance /\ t = TRUE
        BY AudioTypes
      <4>2. [utterance |-> u, version |-> 1, final |-> t, job |-> 0] \in Segment
        BY DEF Segment
      <4> QED
        BY <2>2, <4>1, <4>2
    <3> QED
      BY <1>1, <3>1
  <2> QED
    BY <2>1, <2>2 DEF Answered, save_stream_transcript, fail_stream_stt
<1>8. Len(segment') \in Nat
  BY <1>7
<1>9. \A d \in 1 .. Len(chunk) : chunk'[d].utterance = chunk[d].utterance
  BY <1>3, <1>5
<1> QED
  BY <1>1, <1>5, <1>6, <1>7, <1>8, <1>9 DEF MeetingTypeOK

\* The worker's record when it takes the first of its queue.
TakeRow(old, q, w, c) == [old EXCEPT !.queue = q, !.worker = w, !.chunk = c]

LEMMA TakeRowFields ==
    ASSUME NEW old \in Stream, NEW q, NEW w, NEW c
    PROVE  /\ TakeRow(old, q, w, c).queue = q /\ TakeRow(old, q, w, c).worker = w
           /\ TakeRow(old, q, w, c).chunk = c
           /\ TakeRow(old, q, w, c).pc = old.pc /\ TakeRow(old, q, w, c).prev = old.prev
           /\ TakeRow(old, q, w, c).ended = old.ended
           /\ TakeRow(old, q, w, c).tasks = old.tasks
BY DEF Stream, TakeRow

LEMMA RowOfTail ==
    ASSUME NEW old \in Stream, NEW q
    PROVE  [old EXCEPT !.queue = q] = TakeRow(old, q, old.worker, old.chunk)
BY DEF Stream, TakeRow

LEMMA HearIs ==
    ASSUME TypeOK, NEW s \in Streams, Hear(s)
    PROVE  \E w, c : \E q \in Seq(Utterances) : \E u \in Utterances :
               /\ stream' = [stream EXCEPT ![s] = TakeRow(stream[s], q, w, c)]
               /\ stream[s].worker = "idle" /\ Len(stream[s].queue) > 0
               /\ u = stream[s].queue[1] /\ Len(q) = Len(stream[s].queue) - 1
               /\ \A i \in 1 .. Len(q) : q[i] = stream[s].queue[i + 1]
               /\ \/ /\ w = "hearing" /\ c = Len(chunk') /\ UNCHANGED audio
                     /\ begin_stream_utterance(u)
                  \/ /\ w = "idle" /\ c = stream[s].chunk /\ ~takes_speech
                     /\ audio' = [audio EXCEPT !.errors = audio.errors + 1]
                     /\ UNCHANGED rows
<1> DEFINE old == stream[s]
<1>1. /\ stream \in [Streams -> Stream] /\ old \in Stream
      /\ old.queue \in Seq(Utterances) /\ old.queue # <<>>
  BY AudioTypes DEF Hear
<1>2. PICK q \in Seq(Utterances), u \in Utterances :
          /\ q = Tail(old.queue) /\ u = Head(old.queue)
          /\ Len(old.queue) > 0 /\ u = old.queue[1] /\ Len(q) = Len(old.queue) - 1
          /\ \A i \in 1 .. Len(q) : q[i] = old.queue[i + 1]
  <2>1. PICK w \in Seq(Utterances) : w = old.queue /\ w # <<>>
    BY <1>1
  <2>2. /\ Tail(w) \in Seq(Utterances) /\ Head(w) \in Utterances
        /\ Len(w) > 0 /\ Head(w) = w[1] /\ Len(Tail(w)) = Len(w) - 1
        /\ \A i \in 1 .. Len(Tail(w)) : Tail(w)[i] = w[i + 1]
    BY <2>1
  <2> QED
    BY <2>1, <2>2
<1>3. CASE /\ begin_stream_utterance(u) /\ UNCHANGED audio
           /\ stream' = [stream EXCEPT ![s].queue = Tail(@),
                            ![s].worker = "hearing", ![s].chunk = Len(chunk')]
  <2>1. PICK w, c : w = "hearing" /\ c = Len(chunk')
    OBVIOUS
  <2>2. stream' = [stream EXCEPT ![s] = [old EXCEPT !.queue = q, !.worker = w, !.chunk = c]]
    BY <1>1, <1>2, <1>3, <2>1
  <2>3. [old EXCEPT !.queue = q, !.worker = w, !.chunk = c] = TakeRow(old, q, w, c)
    BY DEF TakeRow
  <2>4. stream' = [stream EXCEPT ![s] = TakeRow(old, q, w, c)]
    BY <2>2, <2>3
  <2>5. old.worker = "idle"
    BY DEF Hear
  <2> QED
    BY <1>2, <1>3, <2>1, <2>4, <2>5
<1>4. CASE /\ ~takes_speech /\ stream' = [stream EXCEPT ![s].queue = Tail(@)]
           /\ audio' = [audio EXCEPT !.errors = @ + 1] /\ UNCHANGED rows
  <2>1. PICK w, c : w = old.worker /\ c = old.chunk
    OBVIOUS
  <2>2. stream' = [stream EXCEPT ![s] = [old EXCEPT !.queue = q]]
    BY <1>1, <1>2, <1>4
  <2>3. [old EXCEPT !.queue = q] = TakeRow(old, q, w, c)
    BY <1>1, <2>1, RowOfTail
  <2>4. stream' = [stream EXCEPT ![s] = TakeRow(old, q, w, c)]
    BY <2>2, <2>3
  <2>5. old.worker = "idle"
    BY DEF Hear
  <2> QED
    BY <1>2, <1>4, <2>1, <2>4, <2>5
<1> QED
  BY <1>2, <1>3, <1>4 DEF Hear

LEMMA HearIsOnce ==
    ASSUME TypeOK, OnceInv, NEW s \in Streams, Hear(s)
    PROVE  TypeOK' /\ OnceInv'
<1>1. PICK w, c : \E q \in Seq(Utterances) : \E u \in Utterances :
               /\ stream' = [stream EXCEPT ![s] = TakeRow(stream[s], q, w, c)]
               /\ stream[s].worker = "idle" /\ Len(stream[s].queue) > 0
               /\ u = stream[s].queue[1] /\ Len(q) = Len(stream[s].queue) - 1
               /\ \A i \in 1 .. Len(q) : q[i] = stream[s].queue[i + 1]
               /\ \/ /\ w = "hearing" /\ c = Len(chunk') /\ UNCHANGED audio
                     /\ begin_stream_utterance(u)
                  \/ /\ w = "idle" /\ c = stream[s].chunk /\ ~takes_speech
                     /\ audio' = [audio EXCEPT !.errors = audio.errors + 1]
                     /\ UNCHANGED rows
  BY HearIs
<1>2. PICK q \in Seq(Utterances), u \in Utterances :
               /\ stream' = [stream EXCEPT ![s] = TakeRow(stream[s], q, w, c)]
               /\ stream[s].worker = "idle" /\ Len(stream[s].queue) > 0
               /\ u = stream[s].queue[1] /\ Len(q) = Len(stream[s].queue) - 1
               /\ \A i \in 1 .. Len(q) : q[i] = stream[s].queue[i + 1]
               /\ \/ /\ w = "hearing" /\ c = Len(chunk') /\ UNCHANGED audio
                     /\ begin_stream_utterance(u)
                  \/ /\ w = "idle" /\ c = stream[s].chunk /\ ~takes_speech
                     /\ audio' = [audio EXCEPT !.errors = audio.errors + 1]
                     /\ UNCHANGED rows
  BY <1>1
<1>3. PICK old, row : old = stream[s] /\ old \in Stream /\ row = TakeRow(old, q, w, c)
  BY AudioTypes
<1>4. /\ MeetingTypeOK' /\ Len(chunk') \in Nat /\ Len(chunk') >= Len(chunk)
      /\ w \in {"idle", "hearing"} /\ c \in Nat
      /\ w = "hearing" => c \in 1 .. Len(chunk')
      /\ \/ chunk' = chunk
         \/ chunk' = Append(chunk, [stt |-> "RUNNING", utterance |-> u])
      /\ audio' \in Audio /\ audio'.cut = audio.cut
  <2>1. CASE /\ w = "hearing" /\ c = Len(chunk') /\ UNCHANGED audio
             /\ begin_stream_utterance(u)
    <3>1. /\ MeetingTypeOK' /\ Len(chunk') = Len(chunk) + 1
          /\ Len(chunk') \in 1 .. Len(chunk')
          /\ chunk' = Append(chunk, [stt |-> "RUNNING", utterance |-> u])
      BY <2>1, ChunkIsTaken
    <3>2. Len(chunk) \in Nat /\ audio \in Audio
      BY AudioTypes
    <3> QED
      BY <2>1, <3>1, <3>2
  <2>2. CASE /\ w = "idle" /\ c = stream[s].chunk
             /\ audio' = [audio EXCEPT !.errors = audio.errors + 1]
             /\ UNCHANGED rows
    <3>1. MeetingTypeOK' /\ chunk' = chunk
      BY <2>2 DEF TypeOK, MeetingTypeOK, rows
    <3>2. Len(chunk) \in Nat /\ audio \in Audio /\ c \in Nat
      BY <1>3, <2>2, AudioTypes DEF Stream
    <3>3. audio' \in Audio /\ audio'.cut = audio.cut
      BY <2>2, <3>2 DEF Audio
    <3> QED
      BY <2>2, <3>1, <3>2, <3>3
  <2> QED
    BY <1>2, <2>1, <2>2
<1>5. /\ row.queue = q /\ row.worker = w /\ row.chunk = c
  BY <1>3, TakeRowFields
<1>6. row \in Stream
  BY <1>3, <1>4 DEF Stream, TakeRow
<1>7. stream' = [stream EXCEPT ![s] = row]
  BY <1>2, <1>3
<1>8. /\ stream'[s] = row /\ \A t \in Streams : t # s => stream'[t] = stream[t]
  BY <1>6, <1>7, StreamField, AudioTypes
<1>9. UNCHANGED <<recorder, resumable, expiry, raced, reported>>
  BY DEF Hear, ends
<1>10. Len(q) <= QueueSize
  <2>1. PICK l \in Nat : l = Len(stream[s].queue) /\ l <= QueueSize /\ QueueSize \in Nat
    BY AudioTypes
  <2>2. Len(q) = l - 1
    BY <1>2, <2>1
  <2> QED
    BY <2>1, <2>2
<1>11. TypeOK'
  <2>1. /\ expiry' = [expiry EXCEPT ![s] = expiry[s]] /\ expiry[s] \in Expiry
        /\ expiry[s].pc = "hearing" => expiry[s].chunk \in 1 .. Len(chunk')
    <3>1. expiry[s].pc = "hearing" => expiry[s].chunk \in 1 .. Len(chunk)
      BY DEF TypeOK
    <3>2. Len(chunk) \in Nat
      BY AudioTypes
    <3> QED
      BY <1>4, <1>9, <3>1, <3>2, AudioTypes
  <2> QED
    BY <1>4, <1>5, <1>6, <1>7, <1>9, <1>10, <2>1, TypesSuffice DEF TypeOK
<1>12. OnceInv'
  <2>1. ~Over
    BY <1>2 DEF Over
  <2>2. PlaceFits(s, 1) /\ u \in Nat /\ 1 \in 1 .. Len(stream[s].queue)
    <3>1. 1 \in 1 .. Len(stream[s].queue)
      BY <1>2, AudioTypes
    <3> QED
      BY <3>1 DEF OnceInv, Utterances
  <2>3. u <= audio'.cut /\ audio.cut <= audio'.cut
    BY <1>2, <1>4, <2>2, AudioTypes DEF PlaceFits
  <2>4. \A d \in 1 .. Len(chunk) : chunk[d].utterance # u
    BY <1>2, <2>2 DEF PlaceFits
  <2>5. /\ Len(stream'[s].queue) = Len(stream[s].queue) - 1
        /\ \A i \in 1 .. Len(stream'[s].queue) :
               stream'[s].queue[i] = stream[s].queue[i + 1]
        /\ \A t \in Streams : t # s => stream'[t].queue = stream[t].queue
    BY <1>2, <1>5, <1>8
  <2>7. PICK off \in {0, 1} :
            /\ Len(stream'[s].queue) = Len(stream[s].queue) - off
            /\ \A i \in 1 .. Len(stream'[s].queue) :
                   stream'[s].queue[i] = stream[s].queue[i + off]
    BY <2>5
  <2>6. ASSUME NEW t \in Streams, NEW i \in 1 .. Len(stream'[t].queue),
               stream'[t].queue[i] = u
        PROVE  FALSE
    <3>1. CASE t = s
      <4>1. PICK l \in Nat : l = Len(stream[s].queue)
        BY AudioTypes
      <4>2. i \in Nat /\ i >= 1 /\ i <= l - 1
        BY <2>5, <3>1, <4>1
      <4>3. i + 1 \in 1 .. l /\ i + 1 # 1
        BY <4>2
      <4>4. stream[s].queue[1] = stream[s].queue[i + 1]
        BY <1>2, <2>5, <2>6, <3>1
      <4> QED
        BY <2>2, <4>1, <4>3, <4>4 DEF PlaceFits
    <3>2. CASE t # s
      <4>1. i \in 1 .. Len(stream[t].queue) /\ stream[s].queue[1] = stream[t].queue[i]
        BY <1>2, <2>5, <2>6, <3>2
      <4> QED
        BY <2>2, <3>2, <4>1 DEF PlaceFits
    <3> QED
      BY <3>1, <3>2
  <2> QED
    BY <1>4, <2>1, <2>2, <2>3, <2>4, <2>5, <2>6, <2>7, OnceTakes
<1> QED
  BY <1>11, <1>12

LEMMA HeardIs ==
    ASSUME TypeOK, NEW s \in Streams, Heard(s)
    PROVE  \E w : \E k \in SUBSET Nat :
               /\ w = "idle" /\ Answered(stream[s].chunk)
               /\ stream' = [stream EXCEPT
                      ![s] = Row(stream[s], stream[s].pc, stream[s].prev, w, k)]
               /\ \/ k = stream[s].tasks
                  \/ k = stream[s].tasks \cup {Len(segment')}
               /\ UNCHANGED audio \/ audio' = [audio EXCEPT !.errors = audio.errors + 1]
<1> DEFINE old == stream[s]
<1>1. /\ stream \in [Streams -> Stream] /\ old \in Stream /\ old.tasks \in SUBSET Nat
      /\ stream[s].chunk \in 1 .. Len(chunk)
  BY AudioTypes DEF Heard, TypeOK
<1>2. /\ Answered(old.chunk) /\ Len(segment') \in Nat
      /\ UNCHANGED audio \/ audio' = [audio EXCEPT !.errors = audio.errors + 1]
  <2>1. Answered(old.chunk)
    BY DEF Heard, Answered
  <2> QED
    BY <1>1, <2>1, ChunkIsAnswered DEF Heard
<1>3. PICK w : w = "idle"
  OBVIOUS
<1>4. CASE stream' = [stream EXCEPT ![s].worker = "idle", ![s].tasks = @ \cup {Len(segment')}]
  <2>1. PICK k \in SUBSET Nat : k = old.tasks \cup {Len(segment')}
    BY <1>1, <1>2
  <2>2. stream' = [stream EXCEPT ![s] = [old EXCEPT !.worker = w, !.tasks = k]]
    BY <1>1, <1>3, <1>4, <2>1
  <2>3. [old EXCEPT !.worker = w, !.tasks = k] = Row(old, old.pc, old.prev, w, k)
    BY <1>1 DEF Row, Stream
  <2> QED
    BY <1>2, <1>3, <2>1, <2>2, <2>3
<1>5. CASE stream' = [stream EXCEPT ![s].worker = "idle"]
  <2>1. PICK k \in SUBSET Nat : k = old.tasks
    BY <1>1
  <2>2. stream' = [stream EXCEPT ![s] = [old EXCEPT !.worker = w]]
    BY <1>1, <1>3, <1>5
  <2>3. [old EXCEPT !.worker = w] = Row(old, old.pc, old.prev, w, k)
    BY <1>1, <2>1, RowOfWorker
  <2> QED
    BY <1>2, <1>3, <2>1, <2>2, <2>3
<1> QED
  BY <1>4, <1>5 DEF Heard

LEMMA HeardIsOnce ==
    ASSUME TypeOK, OnceInv, NEW s \in Streams, Heard(s)
    PROVE  TypeOK' /\ OnceInv'
<1>1. PICK w, k :
               /\ w = "idle" /\ k \in SUBSET Nat /\ Answered(stream[s].chunk)
               /\ stream' = [stream EXCEPT
                      ![s] = Row(stream[s], stream[s].pc, stream[s].prev, w, k)]
               /\ UNCHANGED audio \/ audio' = [audio EXCEPT !.errors = audio.errors + 1]
  BY HeardIs
<1>2. PICK old, row : old = stream[s] /\ old \in Stream /\ row = Row(old, old.pc, old.prev, w, k)
  BY AudioTypes
<1>3. /\ row.pc = old.pc /\ row.queue = old.queue /\ row.worker = w
  BY <1>2, RowFields
<1>4. row \in Stream
  BY <1>1, <1>2 DEF Row, Stream
<1>5. stream' = [stream EXCEPT ![s] = row]
  BY <1>1, <1>2
<1>6. /\ stream'[s] = row /\ \A t \in Streams : t # s => stream'[t] = stream[t]
  BY <1>4, <1>5, StreamField, AudioTypes
<1>7. UNCHANGED <<recorder, resumable, expiry, raced, reported>>
  BY DEF Heard, ends
<1>8. /\ MeetingTypeOK' /\ Len(chunk') = Len(chunk) /\ Len(chunk) \in Nat
      /\ \A d \in 1 .. Len(chunk) : chunk'[d].utterance = chunk[d].utterance
  <2>1. stream[s].chunk \in 1 .. Len(chunk)
    BY DEF Heard, TypeOK
  <2> QED
    BY <1>1, <2>1, ChunkIsAnswered, AudioTypes
<1>9. audio' \in Audio /\ audio'.cut = audio.cut
  <2>1. audio \in Audio
    BY AudioTypes
  <2> QED
    BY <1>1, <2>1 DEF Audio
<1>10. TypeOK'
  <2>1. /\ expiry' = [expiry EXCEPT ![s] = expiry[s]] /\ expiry[s] \in Expiry
        /\ expiry[s].pc = "hearing" => expiry[s].chunk \in 1 .. Len(chunk')
    BY <1>7, <1>8, AudioTypes DEF TypeOK
  <2>2. Len(row.queue) <= QueueSize /\ row.worker # "hearing"
    BY <1>1, <1>2, <1>3 DEF TypeOK
  <2>3. Len(chunk') >= Len(chunk)
    BY <1>8
  <2> QED
    BY <1>4, <1>5, <1>7, <1>8, <1>9, <2>1, <2>2, <2>3, TypesSuffice DEF TypeOK
<1>11. OnceInv'
  <2>1. \A t \in Streams : stream'[t].queue = stream[t].queue /\ stream'[t].pc = stream[t].pc
    BY <1>2, <1>3, <1>6
  <2>2. Over => Over'
    BY <1>7, <2>1 DEF Over
  <2> QED
    BY <1>8, <1>9, <2>1, <2>2, OnceStays
<1> QED
  BY <1>10, <1>11

----------------------------------------------------------------------------
\* What the expiry of one connection may change.
LEMMA ExpiryIsTyped ==
    ASSUME TypeOK, NEW s \in Streams, NEW e \in Expiry,
           expiry' = [expiry EXCEPT ![s] = e],
           e.pc = "hearing" => e.chunk \in 1 .. Len(chunk'),
           UNCHANGED <<stream, recorder, raced, reported>>,
           resumable' \in Streams \cup {Nobody}, audio' \in Audio,
           MeetingTypeOK', Len(chunk') >= Len(chunk)
    PROVE  TypeOK'
<1>1. PICK row \in Stream : row = stream[s]
  BY AudioTypes
<1>2. stream' = [stream EXCEPT ![s] = row]
  BY <1>1, AudioTypes
<1>3. /\ Len(row.queue) <= QueueSize
      /\ row.worker = "hearing" => row.chunk \in 1 .. Len(chunk')
  <2>1. row.worker = "hearing" => row.chunk \in 1 .. Len(chunk)
    BY <1>1 DEF TypeOK
  <2>2. Len(chunk) \in Nat /\ Len(chunk') \in Nat
    BY AudioTypes DEF MeetingTypeOK
  <2> QED
    BY <1>1, <2>1, <2>2 DEF TypeOK
<1> QED
  BY <1>2, <1>3, TypesSuffice DEF TypeOK

\* It cuts and takes nothing.
LEMMA ExpiryIsOnce ==
    ASSUME TypeOK, OnceInv, ~Over, NEW s \in Streams, NEW e \in Expiry,
           expiry' = [expiry EXCEPT ![s] = e], e.pc # "hearing",
           UNCHANGED <<stream, recorder, raced, reported>>,
           resumable' \in Streams \cup {Nobody},
           audio' \in Audio, audio'.cut = audio.cut,
           MeetingTypeOK', Len(chunk') = Len(chunk),
           \A c \in 1 .. Len(chunk) : chunk'[c].utterance = chunk[c].utterance
    PROVE  TypeOK' /\ OnceInv'
<1>1. TypeOK'
  <2>1. Len(chunk') >= Len(chunk)
    BY AudioTypes
  <2> QED
    BY <2>1, ExpiryIsTyped
<1> QED
  BY <1>1, OnceStays

\* An expiry's pc moves.
LEMMA ExpiryRow ==
    ASSUME TypeOK, NEW s \in Streams,
           NEW p \in {"none", "waiting", "hearing", "deciding", "closing"},
           expiry' = [expiry EXCEPT ![s].pc = p]
    PROVE  \E e \in Expiry : e.pc = p /\ e.chunk = expiry[s].chunk
                             /\ expiry' = [expiry EXCEPT ![s] = e]
<1>1. expiry \in [Streams -> Expiry] /\ expiry[s] \in Expiry
  BY AudioTypes
<1>2. PICK e : e = [expiry[s] EXCEPT !.pc = p]
  OBVIOUS
<1>3. e \in Expiry /\ e.pc = p /\ e.chunk = expiry[s].chunk
  BY <1>1, <1>2 DEF Expiry
<1>4. expiry' = [expiry EXCEPT ![s] = e]
  BY <1>1, <1>2
<1> QED
  BY <1>3, <1>4

LEMMA ExpireTailIsOnce ==
    ASSUME TypeOK, OnceInv, NEW s \in Streams, ExpireTail(s)
    PROVE  TypeOK' /\ OnceInv'
<1>1. PICK cut \in Nat, u \in Utterances : cut = audio.cut /\ u = cut + 1
  BY AudioTypes DEF Utterances
<1>2. /\ u \in flush /\ ~Over
      /\ UNCHANGED <<stream, recorder, resumable, raced, reported>>
      /\ audio.open
  BY <1>1 DEF ExpireTail, Over, flush
<1>3. /\ flushed(u) \in Audio /\ flushed(u).errors = audio.errors
      /\ flushed(u).cut = u
  <2>1. flushed(u).cut = u
    BY <1>1, AudioTypes DEF flushed, Audio, Utterances
  <2> QED
    BY <1>2, <2>1, FlushedIs
<1>4. CASE begin_stream_utterance(u) /\ audio' = flushed(u)
           /\ expiry' = [expiry EXCEPT ![s] = [pc |-> "hearing", chunk |-> Len(chunk')]]
  <2>1. /\ MeetingTypeOK' /\ Len(chunk') = Len(chunk) + 1
        /\ Len(chunk') \in 1 .. Len(chunk')
        /\ chunk' = Append(chunk, [stt |-> "RUNNING", utterance |-> u])
    BY <1>4, ChunkIsTaken
  <2>2. Len(chunk) \in Nat /\ Len(chunk') >= Len(chunk) /\ Len(chunk') \in Nat
    BY <2>1, AudioTypes
  <2>3. PICK e \in Expiry : e = [pc |-> "hearing", chunk |-> Len(chunk')]
    BY <2>2 DEF Expiry
  <2>4. e.pc = "hearing" => e.chunk \in 1 .. Len(chunk')
    BY <2>1, <2>3
  <2>5. TypeOK'
    BY <1>2, <1>3, <1>4, <2>1, <2>2, <2>3, <2>4, ExpiryIsTyped, AudioTypes
  <2>6. \A c \in 1 .. Len(chunk) : chunk[c].utterance <= cut /\ chunk[c].utterance \in Nat
    BY <1>1, <1>2, AudioTypes DEF OnceInv, ChunksFit
  <2>7. \A t \in Streams : \A i \in 1 .. Len(stream[t].queue) :
            stream[t].queue[i] <= cut /\ stream[t].queue[i] \in Nat
    BY <1>1, AudioTypes DEF OnceInv, PlaceFits
  <2>8. OnceInv'
    <3>1. PICK off \in {0, 1} :
            /\ Len(stream'[s].queue) = Len(stream[s].queue) - off
            /\ \A i \in 1 .. Len(stream'[s].queue) :
                   stream'[s].queue[i] = stream[s].queue[i + off]
      <4>1. PICK l \in Nat : l = Len(stream[s].queue)
        BY AudioTypes
      <4>2. Len(stream'[s].queue) = l - 0 /\ \A i \in 1 .. l : i + 0 = i
        BY <1>2, <4>1
      <4> QED
        BY <1>2, <4>1, <4>2
    <3>2. \A c \in 1 .. Len(chunk) : chunk[c].utterance # u
      BY <1>1, <2>6
    <3>3. \A t \in Streams : \A i \in 1 .. Len(stream'[t].queue) : stream'[t].queue[i] # u
      BY <1>1, <1>2, <2>7
    <3>4. u \in Nat /\ u <= audio'.cut /\ audio.cut <= audio'.cut
      BY <1>1, <1>3, <1>4
    <3> QED
      BY <1>2, <1>3, <1>4, <2>1, <3>1, <3>2, <3>3, <3>4, OnceTakes
  <2> QED
    BY <2>5, <2>8
<1>5. CASE UNCHANGED rows /\ audio' = [flushed(u) EXCEPT !.errors = @ + 1]
           /\ expiry' = [expiry EXCEPT ![s].pc = "closing"]
  <2>1. /\ audio' \in Audio /\ audio'.cut = u
    BY <1>3, <1>5 DEF Audio
  <2>2. PICK e \in Expiry : e.pc = "closing" /\ expiry' = [expiry EXCEPT ![s] = e]
    BY <1>5, ExpiryRow
  <2>3. TypeOK'
    <3>1. MeetingTypeOK' /\ Len(chunk') >= Len(chunk)
      BY <1>5, AudioTypes DEF TypeOK, MeetingTypeOK, rows
    <3>2. resumable' \in Streams \cup {Nobody}
      BY <1>2, AudioTypes
    <3> QED
      BY <1>2, <2>1, <2>2, <3>1, <3>2, ExpiryIsTyped
  <2>4. OnceInv'
    <3>1. PICK m \in Nat, l \in Nat : m = 0 /\ l = Len(stream[s].queue)
      BY AudioTypes
    <3>2. audio'.cut >= audio.cut + m /\ Len(stream'[s].queue) = Len(stream[s].queue) + m
      BY <1>1, <1>2, <2>1, <3>1
    <3> QED
      BY <1>2, <1>5, <2>1, <3>1, <3>2, OnceGrows DEF rows
  <2> QED
    BY <2>3, <2>4
<1> QED
  BY <1>1, <1>4, <1>5 DEF ExpireTail

LEMMA ExpireIsOnce ==
    ASSUME TypeOK, OnceInv, NEW s \in Streams,
           ExpireNoTail(s) \/ ExpireHeard(s) \/ ExpireDecided(s)
    PROVE  TypeOK' /\ OnceInv'
<1>1. ~Over /\ UNCHANGED <<stream, recorder, resumable, raced, reported>>
  BY DEF ExpireNoTail, ExpireHeard, ExpireDecided, Over
<1>2. PICK p \in {"deciding", "closing"} : expiry' = [expiry EXCEPT ![s].pc = p]
  BY DEF ExpireNoTail, ExpireHeard, ExpireDecided
<1>3. PICK e \in Expiry : e.pc = p /\ expiry' = [expiry EXCEPT ![s] = e]
  <2>1. p \in {"none", "waiting", "hearing", "deciding", "closing"}
    OBVIOUS
  <2>2. \E e \in Expiry : e.pc = p /\ e.chunk = expiry[s].chunk
                             /\ expiry' = [expiry EXCEPT ![s] = e]
    BY <1>2, <2>1, ExpiryRow, Zenon
  <2> QED
    BY <2>2
<1>4. audio' \in Audio /\ audio'.cut = audio.cut
  <2>1. CASE ExpireNoTail(s)
    <3>1. 0 \in flush /\ flushed(0).cut = audio.cut
      BY AudioTypes DEF flush, flushed, Audio
    <3> QED
      BY <2>1, <3>1, FlushedIs DEF ExpireNoTail
  <2>2. CASE UNCHANGED audio \/ audio' = [audio EXCEPT !.errors = audio.errors + 1]
    BY <2>2, AudioTypes DEF Audio
  <2> QED
    BY <2>1, <2>2 DEF ExpireHeard, ExpireDecided
<1>5. /\ MeetingTypeOK' /\ Len(chunk') = Len(chunk)
      /\ \A c \in 1 .. Len(chunk) : chunk'[c].utterance = chunk[c].utterance
  <2>1. CASE ExpireHeard(s)
    <3>1. expiry[s].chunk \in 1 .. Len(chunk) /\ Answered(expiry[s].chunk)
      BY <2>1 DEF ExpireHeard, TypeOK, Answered
    <3> QED
      BY <3>1, ChunkIsAnswered
  <2>2. CASE UNCHANGED rows
    BY <2>2 DEF TypeOK, MeetingTypeOK, rows
  <2> QED
    BY <2>1, <2>2 DEF ExpireNoTail, ExpireDecided
<1> QED
  BY <1>1, <1>2, <1>3, <1>4, <1>5, ExpiryIsOnce, AudioTypes

LEMMA ExpireEndIsOnce ==
    ASSUME TypeOK, OnceInv, NEW s \in Streams, ExpireClose(s)
    PROVE  TypeOK' /\ OnceInv'
<1>1. ~Over /\ UNCHANGED <<stream, recorder, audio, raced, reported, chunk, segment>>
  BY DEF ExpireClose, Over, set_stream_status
<1>2. PICK e \in Expiry : e.pc = "none" /\ expiry' = [expiry EXCEPT ![s] = e]
  <2>1. NoExpiry \in Expiry /\ NoExpiry.pc = "none"
    BY DEF NoExpiry, Expiry
  <2> QED
    BY <2>1 DEF ExpireClose
<1>3. MeetingTypeOK'
  BY <1>1, AudioTypes DEF ExpireClose, set_stream_status, MeetingTypeOK, MeetingRow
<1>4. resumable' \in Streams \cup {Nobody}
  BY AudioTypes DEF ExpireClose
<1> QED
  BY <1>1, <1>2, <1>3, <1>4, ExpiryIsOnce, AudioTypes

LEMMA ForgetIsOnce ==
    ASSUME TypeOK, OnceInv, forget_resume
    PROVE  TypeOK' /\ OnceInv'
<1>1. resumable \in Streams /\ ~Over
  BY AudioTypes DEF forget_resume, Over
<1>2. /\ UNCHANGED <<stream, recorder, resumable, audio, raced, reported>>
      /\ UNCHANGED <<meeting, chunk, segment>>
  BY DEF forget_resume, rows
<1>3. PICK e \in Expiry : e.pc = "waiting" /\ expiry' = [expiry EXCEPT ![resumable] = e]
  <2>1. PICK p \in {"none", "waiting", "hearing", "deciding", "closing"}, r \in Streams :
            p = "waiting" /\ r = resumable
    BY <1>1
  <2>2. expiry' = [expiry EXCEPT ![r].pc = p]
    BY <2>1 DEF forget_resume
  <2>3. \E e \in Expiry : e.pc = p /\ e.chunk = expiry[r].chunk
                             /\ expiry' = [expiry EXCEPT ![r] = e]
    BY <2>2, ExpiryRow, Zenon
  <2> QED
    BY <2>1, <2>3
<1>4. MeetingTypeOK'
  BY <1>2 DEF TypeOK, MeetingTypeOK
<1> QED
  BY <1>1, <1>2, <1>3, <1>4, ExpiryIsOnce, AudioTypes

LEMMA RestartIsOnce ==
    ASSUME TypeOK, OnceInv, Restart
    PROVE  TypeOK' /\ OnceInv'
<1>1. Closed \in Stream /\ [Closed EXCEPT !.pc = "done"] \in Stream
  <2>1. /\ <<>> \in Seq(Utterances) /\ {} \in SUBSET Nat /\ FALSE \in BOOLEAN
    OBVIOUS
  <2>2. Closed \in Stream
    BY <2>1 DEF Closed, Stream
  <2> QED
    BY <2>2 DEF Stream
<1>2. /\ Closed.queue = <<>> /\ Closed.worker = "none" /\ Closed.pc = "closed"
      /\ [Closed EXCEPT !.pc = "done"].queue = <<>>
      /\ [Closed EXCEPT !.pc = "done"].worker = "none"
      /\ [Closed EXCEPT !.pc = "done"].pc = "done"
  BY DEF Closed
<1>3. ASSUME NEW s \in Streams
      PROVE  /\ stream'[s] \in Stream /\ stream'[s].queue = <<>>
             /\ stream'[s].worker = "none" /\ stream'[s].pc \in {"closed", "done"}
             /\ expiry'[s] = NoExpiry
  <2>1. stream'[s] = IF stream[s].pc = "closed" THEN Closed ELSE [Closed EXCEPT !.pc = "done"]
    BY DEF Restart
  <2>2. expiry'[s] = NoExpiry
    BY DEF Restart
  <2> QED
    BY <1>1, <1>2, <2>1, <2>2
<1>4. /\ NoExpiry \in Expiry /\ NoExpiry.pc = "none"
      /\ NoAudio \in Audio
  BY DEF NoExpiry, Expiry, NoAudio, Audio
<1>5. stream' \in [Streams -> Stream] /\ expiry' \in [Streams -> Expiry]
  BY <1>3, <1>4 DEF Restart
<1>6. /\ UNCHANGED <<meeting, chunk, segment, raced, reported>>
      /\ recorder' = Nobody /\ resumable' = Nobody /\ audio' \in Audio
  BY <1>4 DEF Restart, rows
<1>7. TypeOK'
  <2>1. MeetingTypeOK'
    BY <1>6 DEF TypeOK, MeetingTypeOK
  <2>2. QueueSize >= 0 /\ Len(<<>>) = 0
    BY AudioTypes
  <2>3. \A s \in Streams : Len(stream'[s].queue) <= QueueSize
    BY <1>3, <2>2, AudioTypes
  <2> QED
    BY <1>3, <1>4, <1>5, <1>6, <2>1, <2>3 DEF TypeOK
<1>8. OnceInv'
  <2>1. Over'
    BY <1>3, <1>4, <1>6 DEF Over
  <2>2. HeardOnce'
    BY <1>6 DEF OnceInv, HeardOnce
  <2>3. \A s \in Streams : \A i \in 1 .. Len(stream'[s].queue) : FALSE
    BY <1>3
  <2> QED
    BY <2>1, <2>2, <2>3 DEF OnceInv, ChunksFit
<1> QED
  BY <1>7, <1>8

LEMMA FinishIsOnce ==
    ASSUME TypeOK, OnceInv, FinishRequest \/ UNCHANGED vars
    PROVE  TypeOK' /\ OnceInv'
<1>1. /\ UNCHANGED <<chunk, segment, stream, recorder, resumable, expiry, audio,
                     raced, reported>>
      /\ meeting' \in MeetingRow
  BY AudioTypes DEF FinishRequest, finish_meeting, audioVars, vars, MeetingRow
<1>2. TypeOK'
  BY <1>1 DEF TypeOK, MeetingTypeOK
<1>3. Over => Over'
  BY <1>1 DEF Over
<1> QED
  BY <1>1, <1>2, <1>3, OnceStays

\* However a resume races with the expiry.
LEMMA OnceNext ==
    ASSUME TypeOK, OnceInv, [Next]_vars
    PROVE  TypeOK' /\ OnceInv'
<1>1. ASSUME NEW s \in Streams, Client(s) PROVE TypeOK' /\ OnceInv'
  BY <1>1, ConnectIsOnce, ResumeIsOnce, FeedIsOnce, DisconnectIsOnce DEF Client
<1>2. ASSUME NEW s \in Streams, Server(s) PROVE TypeOK' /\ OnceInv'
  BY <1>2, StartedIsOnce, ResumeIsOnce, ResumedIsOnce, FeedIsOnce, WorkerIsOnce,
     HearIsOnce, HeardIsOnce, DisconnectIsOnce DEF Server
<1>3. ASSUME NEW s \in Streams, expire_resume(s) PROVE TypeOK' /\ OnceInv'
  BY <1>3, ExpireTailIsOnce, ExpireIsOnce, ExpireEndIsOnce DEF expire_resume
<1> QED
  BY <1>1, <1>2, <1>3, ForgetIsOnce, RestartIsOnce, FinishIsOnce DEF Next

----------------------------------------------------------------------------
(* The order of speech, and that what is reported complete is.             *)

\* The rows, the sound and the queues stay; at most somebody else is waiting.
LEMMA RowsStay ==
    ASSUME AudioInv, UNCHANGED <<meeting, chunk, segment>>,
           audio'.cut = audio.cut, audio'.errors \in Nat, audio'.errors >= audio.errors,
           \A t \in Streams :
               /\ stream'[t].queue = stream[t].queue
               /\ stream'[t].worker = "hearing" <=> stream[t].worker = "hearing"
               /\ stream'[t].chunk = stream[t].chunk,
           \A t \in Streams :
               /\ expiry'[t].pc = "hearing" <=> expiry[t].pc = "hearing"
               /\ expiry'[t].pc = "hearing" => expiry'[t].chunk = expiry[t].chunk
    PROVE  /\ HearingFits' /\ RowsFit' /\ SpokenFits' /\ NothingYet'
           /\ \A s \in Streams : QueueFits(s)'
<1> USE DEF AudioInv
<1>1. HearingFits'
  BY DEF HearingFits, BeingHeard
<1>2. RowsFit'
  BY DEF RowsFit, SpeechOrder
<1>3. SpokenFits'
  <2>1. \A u : heard(u)' <=> heard(u)
    BY DEF heard
  <2>2. \A u : Queued(u)' <=> Queued(u)
    BY DEF Queued
  <2>3. Listening' <=> Listening
    BY DEF Listening
  <2>4. spoken' = spoken
    BY DEF spoken
  <2> QED
    BY <2>1, <2>2, <2>3, <2>4, AudioTypes DEF SpokenFits
<1>4. NothingYet'
  BY DEF NothingYet, spoken
<1>5. \A s \in Streams : QueueFits(s)'
  BY DEF QueueFits, Unsaid
<1> QED
  BY <1>1, <1>2, <1>3, <1>4, <1>5


\* The same connections are live, in the same order.
LEMMA LineStays ==
    ASSUME AudioInv, NEW rank, LineOrder(rank), LineTip(rank),
           \A t \in Streams : /\ Live(t)' <=> Live(t)
                              /\ Live(t) => stream'[t].prev = stream[t].prev
                              /\ Live(t) => /\ t = recorder \/ t = resumable
                                               <=> t = recorder' \/ t = resumable'
    PROVE  LineOrder(rank)' /\ LineTip(rank)' /\ LastIsKnown'
<1>1. \A t \in Streams : stream[t].prev \in Streams \cup {Nobody}
  BY AudioTypes DEF AudioInv
<1>2. LineOrder(rank)'
  BY <1>1 DEF LineOrder
<1>3. LineTip(rank)'
  BY DEF LineTip
<1>4. LastIsKnown'
  BY DEF LastIsKnown, AudioInv
<1> QED
  BY <1>2, <1>3, <1>4


\* Workers go on, queues lose what is taken.
LEMMA WorkStays ==
    ASSUME AudioInv, NEW rank, LineWork(rank),
           \A t \in Streams : /\ Live(t)' => Live(t)
                              /\ stream'[t].queue = stream[t].queue
                              /\ stream'[t].worker = "waiting" <=> stream[t].worker = "waiting"
                              /\ stream[t].worker = "stopped" => stream'[t].worker = "stopped"
    PROVE  LineWork(rank)'
BY DEF LineWork


----------------------------------------------------------------------------
(* Connecting *)

\* A connection that takes no part in a recording yet moves on.
LEMMA OutsiderMoves ==
    ASSUME AudioInv, TypeOK', NEW s \in Streams,
           stream[s].pc \in {"closed", "open", "starting", "resuming", "checked"},
           NEW p \in {"open", "starting", "resuming", "checked", "done"},
           NEW v, stream' = [stream EXCEPT
               ![s] = Row(stream[s], p, v, stream[s].worker, stream[s].tasks)],
           p \in {"open", "starting"} => v = Nobody,
           \A t \in Streams : Live(t) => (t = recorder <=> t = recorder'),
           UNCHANGED <<rows, ends, audio>>,
           RecorderFits', ExpiryFits'
    PROVE  AudioInv'
<1>0. stream \in [Streams -> Stream] /\ stream[s] \in Stream
  BY AudioTypes DEF AudioInv
<1>1. PICK row : row = Row(stream[s], p, v, stream[s].worker, stream[s].tasks)
  OBVIOUS
<1>2. \A t \in Streams :
         /\ stream'[t].queue = stream[t].queue /\ stream'[t].worker = stream[t].worker
         /\ stream'[t].chunk = stream[t].chunk
         /\ stream'[t].tasks = stream[t].tasks /\ stream'[t].ended = stream[t].ended
         /\ t # s => stream'[t].pc = stream[t].pc /\ stream'[t].prev = stream[t].prev
         /\ stream'[s].pc = p /\ stream'[s].prev = v
  <2>1. /\ row.pc = p /\ row.prev = v /\ row.worker = stream[s].worker
        /\ row.tasks = stream[s].tasks /\ row.queue = stream[s].queue
        /\ row.chunk = stream[s].chunk /\ row.ended = stream[s].ended
    BY <1>0, <1>1, RowFields
  <2>2. stream' = [stream EXCEPT ![s] = row]
    BY <1>1
  <2>3. stream'[s] = row /\ \A t \in Streams : t # s => stream'[t] = stream[t]
    BY <1>0, <2>2
  <2> QED
    BY <2>1, <2>3
<1>10. UNCHANGED <<meeting, chunk, segment, resumable, expiry, reported, audio>>
  BY DEF rows, ends
<1>3. \A t \in Streams : Live(t)' <=> Live(t)
  BY <1>2 DEF Live
<1>5. LastIsKnown' /\ InLine'
  <2>1. PICK rank \in [Streams -> Nat] :
            LineOrder(rank) /\ LineTip(rank) /\ LineWork(rank)
    BY DEF AudioInv, InLine
  <2>0. \A t \in Streams : Live(t) => t # s
    BY DEF Live
  <2>2. LineOrder(rank)' /\ LineTip(rank)' /\ LastIsKnown'
    BY <2>0, <2>1, <1>2, <1>3, <1>10, LineStays
  <2>3. LineWork(rank)'
    BY <2>1, <1>2, <1>3, WorkStays
  <2> QED
    BY <2>2, <2>3 DEF InLine
<1>6. \A t \in Streams : EndFits(t)' /\ WorkerFits(t)'
  <2> TAKE t \in Streams
  <2>0. EndFits(t) /\ WorkerFits(t)
    BY DEF AudioInv
  <2>3. stream[t].pc = "draining" => (t = recorder <=> t = recorder')
    BY DEF Live
  <2>1. EndFits(t)'
    BY <1>2, <1>10, <2>0, <2>3 DEF EndFits
  <2>2. WorkerFits(t)'
    <3>1. CASE t = s
      BY <1>2, <1>3, <2>0, <3>1 DEF WorkerFits, Live
    <3>2. CASE t # s
      <4>1. stream[t].prev \in Streams \cup {Nobody}
        BY AudioTypes DEF AudioInv
      <4> QED
        BY <1>2, <1>3, <2>0, <3>2, <4>1 DEF WorkerFits, Live
    <3> QED
      BY <3>1, <3>2
  <2> QED
    BY <2>1, <2>2
<1>7. /\ HearingFits' /\ RowsFit' /\ SpokenFits' /\ NothingYet'
      /\ \A t \in Streams : QueueFits(t)'
  <2>1. audio.errors \in Nat
    BY AudioTypes DEF AudioInv
  <2> QED
    BY <1>2, <1>10, <2>1, RowsStay
<1>8. CutFits'
  BY <1>3, <1>10 DEF AudioInv, CutFits, Unsaid, NoneLive
<1>9. ReportFits'
  <2>1. \A u : heard(u)' <=> heard(u)
    BY <1>10 DEF heard
  <2>2. spoken' = spoken
    BY <1>10 DEF spoken
  <2> QED
    BY <2>1, <2>2, <1>3, <1>10 DEF AudioInv, ReportFits, NoneLive
<1> QED
  BY <1>5, <1>6, <1>7, <1>8, <1>9 DEF AudioInv

\* Its pc is all that moves.
LEMMA OutsiderSteps ==
    ASSUME AudioInv, TypeOK', NEW s \in Streams,
           stream[s].pc \in {"closed", "open", "starting", "resuming", "checked"},
           NEW p \in {"open", "starting", "resuming", "checked", "done"},
           stream' = [stream EXCEPT ![s].pc = p],
           p \in {"open", "starting"} => stream[s].prev = Nobody,
           \A t \in Streams : Live(t) => (t = recorder <=> t = recorder'),
           UNCHANGED <<rows, ends, audio>>,
           RecorderFits', ExpiryFits'
    PROVE  AudioInv'
<1>1. stream \in [Streams -> Stream] /\ stream[s] \in Stream
  BY AudioTypes DEF AudioInv
<1>2. PICK v : v = stream[s].prev
  OBVIOUS
<1>3. stream' = [stream EXCEPT
               ![s] = Row(stream[s], p, v, stream[s].worker, stream[s].tasks)]
  <2>1. stream' = [stream EXCEPT ![s] = [stream[s] EXCEPT !.pc = p]]
    BY <1>1
  <2>2. [stream[s] EXCEPT !.pc = p]
            = Row(stream[s], p, v, stream[s].worker, stream[s].tasks)
    BY <1>1, <1>2, RowOfPc
  <2> QED
    BY <2>1, <2>2
<1> QED
  BY <1>2, <1>3, OutsiderMoves

LEMMA ConnectKeeps ==
    ASSUME AudioInv, TypeOK', NEW s \in Streams, meeting_stream(s)
    PROVE  AudioInv'
<1>0. stream \in [Streams -> Stream] /\ RecorderFits /\ ExpiryFits /\ WorkerFits(s)
  BY AudioTypes DEF AudioInv
<1>1. /\ stream[s].pc = "closed" /\ stream' = [stream EXCEPT ![s].pc = "open"]
      /\ UNCHANGED <<rows, recorder, ends, audio>>
  BY DEF meeting_stream
<1>2. /\ stream'[s].pc = "open" /\ stream'[s].prev = stream[s].prev
      /\ \A t \in Streams : t # s => stream'[t] = stream[t]
  BY <1>0, <1>1 DEF Stream
<1>3. RecorderFits' /\ ExpiryFits'
  BY <1>0, <1>1, <1>2 DEF RecorderFits, ExpiryFits, NoneLive, Live, ends
<1> QED
  BY <1>0, <1>1, <1>3, OutsiderSteps DEF WorkerFits

\* A connection that is given up.
LEMMA CloseKeeps ==
    ASSUME AudioInv, TypeOK', NEW s \in Streams,
           stream[s].pc \in {"open", "starting", "resuming"}, close(s),
           IF stream[s].pc = "open" THEN UNCHANGED recorder ELSE recorder' = Nobody,
           UNCHANGED <<rows, ends, audio>>
    PROVE  AudioInv'
<1>0. /\ stream \in [Streams -> Stream] /\ RecorderFits /\ ExpiryFits
      /\ Nobody \notin Streams /\ resumable \in Streams \cup {Nobody}
      /\ recorder \in Streams \cup {Nobody}
  BY AudioTypes DEF AudioInv
<1>1. stream' = [stream EXCEPT ![s].pc = "done"]
  BY DEF close
<1>2. /\ stream'[s].pc = "done" /\ stream'[s].prev = stream[s].prev
      /\ \A t \in Streams : t # s => stream'[t] = stream[t]
  BY <1>0, <1>1 DEF Stream
<1>3. UNCHANGED <<resumable, expiry>> /\ resumable # s
  BY <1>0 DEF ends, RecorderFits
<1>4. NoneLive => NoneLive'
  BY <1>2 DEF NoneLive, Live
<1>5. RecorderFits'
  <2>1. CASE stream[s].pc = "open" /\ recorder' = recorder /\ recorder # s
    BY <1>0, <1>2, <1>3, <1>4, <2>1 DEF RecorderFits
  <2>2. CASE recorder = s /\ recorder' = Nobody
    <3>1. \A t \in Streams : stream'[t].pc \notin
              {"starting", "resuming", "checked", "on", "breaking"}
      BY <1>0, <1>2, <2>2 DEF RecorderFits
    <3> QED
      BY <1>0, <1>2, <1>3, <2>2, <3>1 DEF RecorderFits
  <2> QED
    BY <1>0, <2>1, <2>2 DEF RecorderFits
<1>6. ExpiryFits'
  BY <1>0, <1>2, <1>3 DEF ExpiryFits
<1>7. \A t \in Streams : Live(t) => (t = recorder <=> t = recorder')
  BY <1>0 DEF RecorderFits, Live
<1> QED
  BY <1>1, <1>5, <1>6, <1>7, OutsiderSteps

LEMMA StartKeeps ==
    ASSUME AudioInv, TypeOK', NEW s \in Streams, Start(s)
    PROVE  AudioInv'
<1>0. /\ stream \in [Streams -> Stream] /\ RecorderFits /\ ExpiryFits /\ LastIsKnown
      /\ WorkerFits(s) /\ Nobody \notin Streams
  BY AudioTypes DEF AudioInv
<1>1. CASE recorder = Nobody /\ resumable = Nobody /\ recorder' = s
           /\ stream' = [stream EXCEPT ![s].pc = "starting"]
  <2>1. NoneLive
    BY <1>0, <1>1 DEF LastIsKnown, NoneLive
  <2>2. /\ stream'[s].pc = "starting" /\ stream'[s].prev = stream[s].prev
        /\ \A t \in Streams : t # s => stream'[t] = stream[t]
    BY <1>0, <1>1 DEF Stream
  <2>4. stream[s].pc = "open" /\ UNCHANGED <<rows, ends, audio>>
    BY DEF Start
  <2>3. RecorderFits' /\ ExpiryFits'
    BY <1>0, <1>1, <2>1, <2>2, <2>4 DEF RecorderFits, ExpiryFits, NoneLive, Live, ends
  <2> QED
    BY <1>0, <1>1, <2>1, <2>3, <2>4, OutsiderSteps DEF NoneLive, WorkerFits
<1>2. CASE UNCHANGED recorder /\ close(s)
  BY <1>2, CloseKeeps DEF Start
<1> QED
  BY <1>1, <1>2 DEF Start

LEMMA ResumeKeeps ==
    ASSUME AudioInv, TypeOK', NEW s \in Streams, Resume(s)
    PROVE  AudioInv'
<1>0. /\ stream \in [Streams -> Stream] /\ stream[s] \in Stream
      /\ RecorderFits /\ ExpiryFits
      /\ Nobody \notin Streams /\ resumable \in Streams \cup {Nobody}
      /\ recorder \in Streams \cup {Nobody}
  BY AudioTypes DEF AudioInv
<1>1. CASE recorder = Nobody /\ resumable # Nobody /\ recorder' = s
           /\ stream' = [stream EXCEPT ![s].pc = "resuming", ![s].prev = resumable]
  <2>4. stream[s].pc = "open" /\ UNCHANGED <<rows, ends, audio>>
    BY DEF Resume
  <2>2. /\ stream'[s].pc = "resuming" /\ stream'[s].prev = resumable
        /\ \A t \in Streams : t # s => stream'[t] = stream[t]
    BY <1>0, <1>1 DEF Stream
  <2>9. UNCHANGED <<resumable, expiry>> /\ resumable # s
    BY <1>0, <2>4 DEF ends, RecorderFits
  <2>10. RecorderFits'
    <3>1. \A t \in Streams : stream[t].pc \notin
              {"starting", "resuming", "checked", "on", "breaking"}
      BY <1>0, <1>1 DEF RecorderFits
    <3>2. \A t \in Streams : stream'[t].pc \in
              {"starting", "resuming", "checked", "on", "breaking"} => t = s
      BY <2>2, <3>1
    <3> QED
      BY <1>0, <1>1, <2>2, <2>9, <3>2 DEF RecorderFits
  <2>11. ExpiryFits'
    BY <1>0, <2>2, <2>9 DEF ExpiryFits
  <2>3. RecorderFits' /\ ExpiryFits'
    BY <2>10, <2>11
  <2>5. PICK p, v : p = "resuming" /\ v = resumable
    OBVIOUS
  <2>6. stream' = [stream EXCEPT
               ![s] = Row(stream[s], p, v, stream[s].worker, stream[s].tasks)]
    <3>1. stream' = [stream EXCEPT ![s] = [stream[s] EXCEPT !.pc = p, !.prev = v]]
      BY <1>0, <1>1, <2>5
    <3>2. [stream[s] EXCEPT !.pc = p, !.prev = v]
            = Row(stream[s], p, v, stream[s].worker, stream[s].tasks)
      BY <1>0, RowOfPrev
    <3> QED
      BY <3>1, <3>2
  <2>7. \A t \in Streams : Live(t) => (t = recorder <=> t = recorder')
    BY <1>0, <1>1, <2>4 DEF Live
  <2>8. p \in {"open", "starting", "resuming", "checked", "done"} /\ p \notin {"open", "starting"}
    BY <2>5
  <2> QED
    BY <2>3, <2>4, <2>6, <2>7, <2>8, OutsiderMoves
<1>2. CASE UNCHANGED recorder /\ close(s)
  BY <1>2, CloseKeeps DEF Resume
<1> QED
  BY <1>1, <1>2 DEF Resume

\* on_resume has answered.
LEMMA ResumeCheckedKeeps ==
    ASSUME AudioInv, TypeOK', NEW s \in Streams, ResumeChecked(s)
    PROVE  AudioInv'
<1>0. /\ stream \in [Streams -> Stream] /\ stream[s] \in Stream
      /\ RecorderFits /\ ExpiryFits
      /\ Nobody \notin Streams /\ resumable \in Streams \cup {Nobody}
      /\ recorder \in Streams \cup {Nobody}
      /\ stream[s].pc = "resuming" /\ recorder = s
      /\ UNCHANGED <<rows, ends, audio>>
  BY AudioTypes DEF AudioInv, RecorderFits, ResumeChecked
<1>1. CASE UNCHANGED recorder /\ stream' = [stream EXCEPT ![s].pc = "checked"]
  <2>2. /\ stream'[s].pc = "checked" /\ stream'[s].prev = stream[s].prev
        /\ \A t \in Streams : t # s => stream'[t] = stream[t]
    BY <1>0, <1>1 DEF Stream
  <2>3. RecorderFits' /\ ExpiryFits'
    BY <1>0, <1>1, <2>2 DEF RecorderFits, ExpiryFits, NoneLive, Live, ends
  <2> QED
    BY <1>0, <1>1, <2>3, OutsiderSteps
<1>2. CASE recorder' = Nobody
           /\ stream' = [stream EXCEPT ![s].pc = "done", ![s].prev = Nobody]
  <2>2. /\ stream'[s].pc = "done" /\ stream'[s].prev = Nobody
        /\ \A t \in Streams : t # s => stream'[t] = stream[t]
    BY <1>0, <1>2 DEF Stream
  <2>9. UNCHANGED <<resumable, expiry>> /\ resumable # s
    BY <1>0 DEF ends, RecorderFits
  <2>10. RecorderFits'
    <3>1. \A t \in Streams : stream'[t].pc \notin
              {"starting", "resuming", "checked", "on", "breaking"}
      BY <1>0, <2>2 DEF RecorderFits
    <3> QED
      BY <1>0, <1>2, <2>2, <2>9, <3>1 DEF RecorderFits
  <2>11. ExpiryFits'
    BY <1>0, <2>2, <2>9 DEF ExpiryFits
  <2>3. RecorderFits' /\ ExpiryFits'
    BY <2>10, <2>11
  <2>5. PICK p, v : p = "done" /\ v = Nobody
    OBVIOUS
  <2>6. stream' = [stream EXCEPT
               ![s] = Row(stream[s], p, v, stream[s].worker, stream[s].tasks)]
    <3>1. stream' = [stream EXCEPT ![s] = [stream[s] EXCEPT !.pc = p, !.prev = v]]
      BY <1>0, <1>2, <2>5
    <3>2. [stream[s] EXCEPT !.pc = p, !.prev = v]
            = Row(stream[s], p, v, stream[s].worker, stream[s].tasks)
      BY <1>0, RowOfPrev
    <3> QED
      BY <3>1, <3>2
  <2>7. \A t \in Streams : Live(t) => (t = recorder <=> t = recorder')
    BY <1>0, <1>2 DEF Live
  <2>8. p \in {"open", "starting", "resuming", "checked", "done"} /\ p \notin {"open", "starting"}
    BY <2>5
  <2> QED
    BY <1>0, <2>3, <2>6, <2>7, <2>8, OutsiderMoves
<1> QED
  BY <1>1, <1>2 DEF ResumeChecked

LEMMA RecordingBegins ==
    ASSUME AudioInv, TypeOK', NEW s \in Streams,
           Started(s), stream'[s].pc = "on"
    PROVE  AudioInv'
<1> USE DEF AudioInv
<1>0. /\ stream[s].pc = "starting" /\ may_start
      /\ stream' = [stream EXCEPT ![s].pc = "on", ![s].worker = "waiting"]
      /\ audio' = [cut |-> audio.cut, open |-> FALSE, errors |-> 0]
      /\ \A t \in Streams : expiry[t].pc = "none"
      /\ UNCHANGED <<rows, recorder, ends>>
  <2>1. stream \in [Streams -> Stream]
    BY AudioTypes
  <2>2. CASE stream' = [stream EXCEPT ![s].pc = "done"]
    BY <2>1, <2>2 DEF Stream
  <2> QED
    BY <2>2 DEF Started, close
<1>1. /\ recorder = s /\ resumable = Nobody /\ NoneLive
      /\ stream[s].prev = Nobody /\ ~stream[s].ended
      /\ chunk = <<>> /\ segment = <<>> /\ meeting.status = "RECORDING"
  <2>1. recorder = s /\ resumable = Nobody /\ NoneLive
    BY <1>0 DEF RecorderFits
  <2>2. chunk = <<>> /\ meeting.status = "RECORDING"
    BY <1>0 DEF may_start
  <2>3. segment = <<>>
    BY <2>2, AudioTypes DEF RowsFit
  <2> QED
    BY <1>0, <2>1, <2>2, <2>3 DEF WorkerFits, EndFits
<1>2. /\ stream' \in [Streams -> Stream]
      /\ stream'[s] = [stream[s] EXCEPT !.pc = "on", !.worker = "waiting"]
      /\ \A t \in Streams : t # s => stream'[t] = stream[t]
  <2>1. [stream[s] EXCEPT !.pc = "on", !.worker = "waiting"] \in Stream
    BY AudioTypes DEF Stream
  <2>2. stream' = [stream EXCEPT ![s] = [stream[s] EXCEPT !.pc = "on", !.worker = "waiting"]]
    BY <1>0, AudioTypes
  <2> QED
    BY <2>1, <2>2, AudioTypes
<1>3. \A t \in Streams :
         /\ stream'[t].queue = <<>> /\ stream'[t].tasks = {}
         /\ stream'[t].worker # "hearing" /\ stream'[t].prev = stream[t].prev
         /\ stream'[t].ended = stream[t].ended
         /\ t # s => stream'[t].pc = stream[t].pc /\ stream'[t].worker = stream[t].worker
         /\ stream'[s].pc = "on" /\ stream'[s].worker = "waiting"
  <2>1. \A t \in Streams : stream[t] \in Stream
    BY AudioTypes
  <2>2. \A t \in Streams : /\ stream[t].queue = <<>> /\ stream[t].tasks = {}
                           /\ stream[t].worker # "hearing"
    BY <1>1 DEF NoneLive, WorkerFits
  <2>3. /\ stream'[s].queue = stream[s].queue /\ stream'[s].tasks = stream[s].tasks
        /\ stream'[s].prev = stream[s].prev /\ stream'[s].ended = stream[s].ended
        /\ stream'[s].pc = "on" /\ stream'[s].worker = "waiting"
    BY <1>2, <2>1 DEF Stream
  <2> QED
    BY <1>2, <2>2, <2>3
<1>12. /\ audio'.cut = audio.cut /\ ~audio'.open /\ audio'.errors = 0
       /\ UNCHANGED <<meeting, chunk, segment, recorder, resumable, expiry, reported>>
       /\ \A t \in Streams : expiry[t].pc = "none"
       /\ Nobody \notin Streams
  BY <1>0, AudioTypes DEF rows, ends
<1>4. \A t \in Streams : Live(t)' <=> t = s
  BY <1>1, <1>3 DEF Live, NoneLive
<1>5. spoken = {}
  BY <1>1 DEF NothingYet, NoneLive, WorkerFits
<1>7. RecorderFits' /\ ExpiryFits' /\ LastIsKnown'
  <2>1. \A t \in Streams : t # s =>
            stream'[t].pc \notin {"starting", "resuming", "checked", "on", "breaking"}
    BY <1>1, <1>3 DEF RecorderFits
  <2>2. RecorderFits'
    BY <1>12, <1>1, <1>3, <2>1 DEF RecorderFits
  <2>3. ExpiryFits'
    BY <1>12 DEF ExpiryFits
  <2>4. LastIsKnown'
    BY <1>12, <1>1, <1>4 DEF LastIsKnown
  <2> QED
    BY <2>2, <2>3, <2>4
<1>8. InLine'
  <2>1. PICK rank \in [Streams -> Nat] :
            LineOrder(rank) /\ LineTip(rank) /\ LineWork(rank)
    BY DEF InLine
  <2>2. LineOrder(rank)'
    BY <1>12, <1>1, <1>3, <1>4 DEF LineOrder
  <2>3. LineTip(rank)' /\ LineWork(rank)'
    <3>1. rank[s] <= rank[s] /\ ~(rank[s] < rank[s])
      BY <2>1
    <3> QED
      BY <1>4, <3>1 DEF LineTip, LineWork
  <2> QED
    BY <2>2, <2>3 DEF InLine
<1>9. \A t \in Streams : EndFits(t)' /\ WorkerFits(t)' /\ QueueFits(t)'
  <2> TAKE t \in Streams
  <2>1. EndFits(t)'
    BY <1>12, <1>1, <1>3, <1>4 DEF EndFits, Live, NoneLive
  <2>2. WorkerFits(t)'
    BY <1>12, <1>1, <1>3, <1>4 DEF WorkerFits, Live, NoneLive
  <2>3. QueueFits(t)'
    BY <1>3 DEF QueueFits
  <2> QED
    BY <2>1, <2>2, <2>3
<1>10. HearingFits' /\ RowsFit' /\ CutFits'
  BY <1>12, <1>1, <1>3 DEF HearingFits, RowsFit, SpeechOrder, CutFits, Unsaid
<1>11. SpokenFits' /\ NothingYet' /\ ReportFits'
  BY <1>12, <1>1, <1>5 DEF SpokenFits, NothingYet, ReportFits, spoken
<1> QED
  BY <1>7, <1>8, <1>9, <1>10, <1>11
LEMMA StartedKeeps ==
    ASSUME AudioInv, TypeOK', NEW s \in Streams, Started(s)
    PROVE  AudioInv'
<1>1. CASE stream'[s].pc = "on"
  BY <1>1, RecordingBegins
<1>2. CASE stream'[s].pc # "on"
  <2>0. stream \in [Streams -> Stream]
    BY AudioTypes DEF AudioInv
  <2>1. /\ stream' = [stream EXCEPT ![s].pc = "done"]
        /\ recorder' = Nobody /\ UNCHANGED <<rows, ends, audio>>
    <3>1. stream' # [stream EXCEPT ![s].pc = "on", ![s].worker = "waiting"]
      BY <1>2, <2>0 DEF Stream
    <3> QED
      BY <3>1 DEF Started, close
  <2>2. stream[s].pc = "starting"
    BY DEF Started
  <2> QED
    BY <2>1, <2>2, CloseKeeps DEF close
<1> QED
  BY <1>1, <1>2

LEMMA LineGrows ==
    ASSUME AudioInv, NEW s \in Streams, NEW rank \in [Streams -> Nat],
           LineOrder(rank), LineTip(rank), LineWork(rank),
           stream[s].pc = "checked", resumable \in Streams,
           \A t \in Streams : t # s => stream'[t] = stream[t],
           stream'[s].pc = "on", stream'[s].worker = "waiting",
           stream'[s].queue = <<>>, stream'[s].prev = resumable,
           resumable' = Nobody, recorder' = recorder
    PROVE  LastIsKnown' /\ InLine'
<1>0. /\ Nobody \notin Streams /\ resumable \in Streams \cup {Nobody}
      /\ RecorderFits /\ LastIsKnown /\ \A t \in Streams : WorkerFits(t)
      /\ \A t \in Streams : stream[t].prev \in Streams \cup {Nobody}
  BY AudioTypes DEF AudioInv
<1>1. recorder = s /\ resumable \in Streams /\ resumable # s
      /\ stream[resumable].pc \in {"draining", "done"}
  BY <1>0 DEF RecorderFits
<1>2. \A t \in Streams : Live(t)' <=> Live(t) \/ t = s
  BY DEF Live
<1>3. \A t \in Streams : Live(t) => Live(resumable) /\ rank[t] <= rank[resumable]
  <2> TAKE t \in Streams
  <2> HAVE Live(t)
  <2>1. Live(resumable)
    BY <1>0, <1>1 DEF LastIsKnown, Live
  <2> QED
    BY <1>1, <2>1 DEF LineTip
<1>4. PICK after \in [Streams -> Nat] :
           /\ after[s] = rank[resumable] + 1
           /\ \A t \in Streams : t # s => after[t] = rank[t]
  <2> DEFINE longer == [rank EXCEPT ![s] = rank[resumable] + 1]
  <2>1. /\ longer \in [Streams -> Nat] /\ longer[s] = rank[resumable] + 1
        /\ \A t \in Streams : t # s => longer[t] = rank[t]
    BY <1>1
  <2> QED
    BY <2>1
<1>5. \A t \in Streams : after[t] \in Nat /\ rank[t] \in Nat
  BY <1>4
<1>6. ~Live(s)
  BY DEF Live
<1>7. LineOrder(after)'
  <2> SUFFICES ASSUME NEW t \in Streams, NEW u \in Streams, Live(t)', Live(u)',
                      NEW before, before = stream'[u].prev
               PROVE  /\ t # u => after[t] # after[u]
                      /\ before = Nobody => after[u] <= after[t]
                      /\ before # Nobody =>
                           IF Live(before)'
                           THEN /\ after[before] < after[u]
                                /\ after[t] < after[u] => after[t] <= after[before]
                           ELSE after[u] <= after[t]
    BY DEF LineOrder
  <2>1. CASE u = s
    <3>1. before = resumable /\ before # Nobody /\ after[u] = rank[before] + 1
          /\ after[before] = rank[before] /\ (Live(before)' <=> Live(before))
      BY <1>0, <1>1, <1>2, <1>4, <2>1
    <3>2. CASE t = s
      BY <1>1, <1>5, <2>1, <3>1, <3>2
    <3>3. CASE t # s
      <4>1. Live(t) /\ after[t] = rank[t]
        BY <1>2, <1>4, <3>3
      <4> QED
        BY <1>1, <1>3, <1>5, <2>1, <3>1, <3>3, <4>1
    <3> QED
      BY <3>2, <3>3
  <2>2. CASE u # s
    <3>1. Live(u) /\ before = stream[u].prev
          /\ rank[u] <= rank[resumable] /\ after[u] = rank[u]
      BY <1>2, <1>3, <1>4, <2>2
    <3>2. u # recorder' /\ u # resumable'
      BY <1>0, <1>1, <2>2
    <3>3. before # Nobody =>
              /\ before \in Streams /\ before # s /\ after[before] = rank[before]
              /\ Live(before)' <=> Live(before)
      BY <1>0, <1>2, <1>4, <3>1 DEF WorkerFits, Live
    <3>4. CASE t = s
      <4>1. after[t] > rank[u]
        BY <1>4, <1>5, <3>1, <3>4, <1>1
      <4>2. before = Nobody \/ ~Live(before) \/ rank[before] < rank[u]
        BY <3>1, <3>3 DEF LineOrder
      <4> QED
        BY <4>1, <4>2, <3>1, <3>2, <3>3, <3>4, <1>4, <1>5
    <3>5. CASE t # s
      <4>1. Live(t) /\ after[t] = rank[t]
        BY <1>2, <1>4, <3>5
      <4> QED
        BY <4>1, <3>1, <3>2, <3>3, <3>5 DEF LineOrder
    <3> QED
      BY <3>4, <3>5
  <2> QED
    BY <2>1, <2>2
<1>10. LineTip(after)'
  <2> SUFFICES ASSUME NEW t \in Streams, Live(t)'
               PROVE  after[t] <= after[s]
    BY <1>0, <1>1 DEF LineTip
  <2> QED
    BY <1>1, <1>2, <1>3, <1>4, <1>5
<1>8. LineWork(after)'
  <2> SUFFICES ASSUME NEW t \in Streams, NEW u \in Streams, Live(t)', Live(u)',
                      after[t] < after[u]
               PROVE  /\ stream'[u].worker # "waiting" => stream'[t].worker = "stopped"
                      /\ \A i \in 1 .. Len(stream'[t].queue), j \in 1 .. Len(stream'[u].queue) :
                             stream'[t].queue[i] < stream'[u].queue[j]
    BY DEF LineWork
  <2>1. t # s
    <3>1. u # s => after[u] <= rank[resumable]
      BY <1>2, <1>3, <1>4
    <3> QED
      BY <3>1, <1>1, <1>4, <1>5
  <2>2. CASE u = s
    BY <2>2
  <2>3. CASE u # s
    <3>1. Live(t) /\ Live(u) /\ rank[t] < rank[u]
      BY <1>2, <1>4, <2>1, <2>3
    <3>2. stream'[t] = stream[t] /\ stream'[u] = stream[u]
      BY <2>1, <2>3
    <3> QED
      BY <3>1, <3>2 DEF LineWork
  <2> QED
    BY <2>2, <2>3
<1>9. LastIsKnown'
  BY <1>1, <1>2 DEF LastIsKnown
<1> QED
  BY <1>4, <1>7, <1>8, <1>9, <1>10 DEF InLine
LEMMA ResumptionBegins ==
    ASSUME AudioInv, TypeOK', ~raced', NEW s \in Streams, Resumed(s)
    PROVE  AudioInv'
<1>0. /\ stream[s].pc = "checked" /\ resumable = stream[s].prev /\ ~expired
      /\ stream' = [stream EXCEPT ![s].pc = "on", ![s].worker = "waiting"]
      /\ resumable' = Nobody
      /\ UNCHANGED <<rows, recorder, expiry, audio, reported>>
  BY DEF Resumed
<1>1. /\ recorder = s /\ resumable \in Streams /\ resumable # s
      /\ stream[resumable].pc \in {"draining", "done"}
      /\ Nobody \notin Streams
  BY <1>0, AudioTypes DEF AudioInv, RecorderFits
<1>2. ~stream[s].ended /\ \A t \in Streams : expiry[t].pc = "none"
  BY <1>0, <1>1 DEF AudioInv, ExpiryFits, EndFits, expired
<1>3. /\ stream' \in [Streams -> Stream]
      /\ stream'[s] = [stream[s] EXCEPT !.pc = "on", !.worker = "waiting"]
      /\ \A t \in Streams : t # s => stream'[t] = stream[t]
  <2> DEFINE row == [stream[s] EXCEPT !.pc = "on", !.worker = "waiting"]
  <2>0. stream \in [Streams -> Stream] /\ stream[s] \in Stream
    BY AudioTypes DEF AudioInv
  <2>1. row \in Stream
    BY <2>0, <1>1 DEF Stream
  <2>2. stream' = [stream EXCEPT ![s] = row]
    BY <1>0, <2>0
  <2> QED
    BY <2>0, <2>1, <2>2
<1>4. /\ stream'[s].pc = "on" /\ stream'[s].prev = resumable
      /\ stream'[s].worker = "waiting" /\ stream'[s].ended = stream[s].ended
      /\ stream'[s].queue = <<>> /\ stream'[s].tasks = {}
      /\ stream'[s].chunk = stream[s].chunk
      /\ stream[s].queue = <<>> /\ stream[s].worker # "hearing"
      /\ \A t \in Streams : t # s => stream'[t] = stream[t]
  <2>0. stream[s] \in Stream
    BY AudioTypes DEF AudioInv
  <2>1. stream[s].queue = <<>> /\ stream[s].tasks = {} /\ stream[s].worker # "hearing"
    BY <1>0 DEF AudioInv, WorkerFits, Live
  <2> QED
    BY <2>0, <2>1, <1>0, <1>3 DEF Stream
<1>5. \A t \in Streams : Live(t)' <=> Live(t) \/ t = s
  BY <1>3, <1>4 DEF Live
<1>6. \A t \in Streams :
         /\ stream'[t].queue = stream[t].queue
         /\ stream'[t].worker = "hearing" <=> stream[t].worker = "hearing"
         /\ stream'[t].chunk = stream[t].chunk
         /\ stream'[t].ended = stream[t].ended
  BY <1>3, <1>4
<1>7. UNCHANGED <<meeting, chunk, segment, audio, expiry, recorder, reported>>
      /\ resumable' = Nobody
  BY <1>0 DEF rows
<1>9. RecorderFits' /\ ExpiryFits'
  <2>1. \A t \in Streams : t # s =>
            stream'[t].pc \notin {"starting", "resuming", "checked", "on", "breaking"}
    BY <1>1, <1>4 DEF AudioInv, RecorderFits
  <2>2. RecorderFits'
    BY <1>1, <1>4, <1>7, <2>1 DEF RecorderFits
  <2>3. ExpiryFits'
    BY <1>2, <1>7 DEF ExpiryFits
  <2> QED
    BY <2>2, <2>3
<1>10. LastIsKnown' /\ InLine'
  <2>1. PICK rank \in [Streams -> Nat] :
            LineOrder(rank) /\ LineTip(rank) /\ LineWork(rank)
    BY DEF AudioInv, InLine
  <2> QED
    BY <1>0, <1>1, <1>3, <1>4, <1>7, <2>1, LineGrows
<1>11. \A t \in Streams : EndFits(t)' /\ WorkerFits(t)'
  <2> TAKE t \in Streams
  <2>1. EndFits(t)'
    BY <1>2, <1>4, <1>7 DEF AudioInv, EndFits
  <2>2. WorkerFits(t)'
    <3>1. CASE t = s
      BY <1>1, <1>4, <1>5, <3>1 DEF WorkerFits, Live
    <3>2. CASE t # s
      <4>1. stream[s].pc = "checked" /\ WorkerFits(t)
        BY <1>0 DEF AudioInv
      <4>2. stream[t].prev \in Streams \cup {Nobody}
        BY AudioTypes DEF AudioInv
      <4> QED
        BY <1>4, <3>2, <4>1, <4>2 DEF WorkerFits, Live
    <3> QED
      BY <3>1, <3>2
  <2> QED
    BY <2>1, <2>2
<1>12. /\ HearingFits' /\ RowsFit' /\ SpokenFits' /\ NothingYet'
       /\ \A t \in Streams : QueueFits(t)'
  BY <1>6, <1>7, RowsStay, AudioTypes DEF AudioInv
<1>13. CutFits'
  BY <1>1, <1>7 DEF AudioInv, CutFits, Unsaid
<1>14. ReportFits'
  BY <1>1, <1>7 DEF AudioInv, ReportFits
<1> QED
  BY <1>9, <1>10, <1>11, <1>12, <1>13, <1>14 DEF AudioInv

(* The worker of a connection *)

\* No connection begins or ends.
LEMMA ConnectionsStay ==
    ASSUME AudioInv, UNCHANGED <<recorder, resumable, expiry, reported>>,
           \A t \in Streams :
               /\ stream'[t].pc = stream[t].pc /\ stream'[t].prev = stream[t].prev
               /\ stream'[t].ended = stream[t].ended,
           ~audio.open => ~audio'.open
    PROVE  /\ RecorderFits' /\ ExpiryFits' /\ LastIsKnown'
           /\ \A rank \in [Streams -> Nat] :
                  LineOrder(rank) /\ LineTip(rank) => LineOrder(rank)' /\ LineTip(rank)'
           /\ \A t \in Streams : EndFits(t)' /\ (Live(t)' <=> Live(t))
           /\ NoneLive' <=> NoneLive
<1>1. (\A t \in Streams : Live(t)' <=> Live(t)) /\ (NoneLive' <=> NoneLive)
  BY DEF Live, NoneLive
<1>2. Nobody \notin Streams /\ resumable \in Streams \cup {Nobody}
      /\ recorder \in Streams \cup {Nobody}
  BY AudioTypes DEF AudioInv
<1>3. RecorderFits' /\ ExpiryFits'
  BY <1>1, <1>2 DEF AudioInv, RecorderFits, ExpiryFits
<1>4. LastIsKnown'
  BY <1>1 DEF AudioInv, LastIsKnown
<1>5. ASSUME NEW rank \in [Streams -> Nat], LineOrder(rank), LineTip(rank)
      PROVE  LineOrder(rank)' /\ LineTip(rank)'
  BY <1>1, <1>5, LineStays
<1>6. \A t \in Streams : EndFits(t)'
  BY DEF AudioInv, EndFits
<1> QED
  BY <1>1, <1>3, <1>4, <1>5, <1>6
\* The connection is lost: it can be resumed, and nobody records.
LEMMA LostKeeps ==
    ASSUME AudioInv, TypeOK', NEW s \in Streams, stream[s].pc \in {"on", "breaking"},
           stream' = [stream EXCEPT ![s].pc = "draining"],
           resumable' = s, recorder' = Nobody,
           UNCHANGED <<rows, expiry, audio, reported>>
    PROVE  AudioInv'
<1>0. stream \in [Streams -> Stream] /\ stream[s] \in Stream /\ Nobody \notin Streams
      /\ recorder \in Streams \cup {Nobody} /\ resumable \in Streams \cup {Nobody}
      /\ RecorderFits /\ ExpiryFits
  BY AudioTypes DEF AudioInv
<1>7. UNCHANGED <<meeting, chunk, segment, audio, expiry, reported>>
  BY DEF rows
<1>2. stream[s].pc \in {"on", "breaking"}
  OBVIOUS
<1>21. resumable' = s /\ recorder' = Nobody /\ stream' = [stream EXCEPT ![s].pc = "draining"]
  OBVIOUS
<1>22. /\ stream' \in [Streams -> Stream]
      /\ stream'[s] = [stream[s] EXCEPT !.pc = "draining"]
      /\ \A t \in Streams : t # s => stream'[t] = stream[t]
  <2>1. [stream[s] EXCEPT !.pc = "draining"] \in Stream
    BY <1>0 DEF Stream
  <2> QED
    BY <1>0, <1>21, <2>1
<1>23. \A t \in Streams :
         /\ stream'[t].queue = stream[t].queue /\ stream'[t].worker = stream[t].worker
         /\ stream'[t].chunk = stream[t].chunk /\ stream'[t].prev = stream[t].prev
         /\ stream'[t].tasks = stream[t].tasks /\ stream'[t].ended = stream[t].ended
         /\ stream'[t].pc = IF t = s THEN "draining" ELSE stream[t].pc
  BY <1>0, <1>22 DEF Stream
<1>24. \A t \in Streams : Live(t)' <=> Live(t)
  BY <1>2, <1>23 DEF Live
<1>25. /\ recorder = s /\ resumable = Nobody /\ ~stream[s].ended
       /\ \A t \in Streams : expiry[t].pc = "none"
  BY <1>0, <1>2 DEF RecorderFits, ExpiryFits, AudioInv, EndFits
<1>27. RecorderFits' /\ ExpiryFits'
  <2>1. ExpiryFits'
    BY <1>7, <1>25 DEF ExpiryFits
  <2>2. RecorderFits'
    <3>1. \A t \in Streams :
             stream'[t].pc \notin {"starting", "resuming", "checked", "on", "breaking"}
      BY <1>0, <1>23, <1>25 DEF RecorderFits
    <3> QED
      BY <1>0, <1>21, <1>23, <3>1 DEF RecorderFits
  <2> QED
    BY <2>1, <2>2
<1>28. LastIsKnown' /\ InLine'
  <2>1. PICK rank \in [Streams -> Nat] :
            LineOrder(rank) /\ LineTip(rank) /\ LineWork(rank)
    BY DEF AudioInv, InLine
  <2>2. LineOrder(rank)' /\ LineTip(rank)' /\ LastIsKnown'
    BY <1>0, <1>21, <1>23, <1>24, <1>25, <2>1, LineStays
  <2>3. LineWork(rank)'
    BY <1>23, <1>24, <2>1, WorkStays
  <2> QED
    BY <2>2, <2>3 DEF InLine
<1>29. \A t \in Streams : EndFits(t)' /\ WorkerFits(t)'
  <2> TAKE t \in Streams
  <2>1. stream[t].prev \in Streams \cup {Nobody}
    BY AudioTypes DEF AudioInv
  <2>2. EndFits(t)'
    BY <1>2, <1>7, <1>21, <1>23, <1>25 DEF AudioInv, EndFits
  <2>3. WorkerFits(t)'
    BY <1>0, <1>2, <1>23, <1>24, <2>1 DEF AudioInv, WorkerFits, Live
  <2> QED
    BY <2>2, <2>3
<1>30. /\ HearingFits' /\ RowsFit' /\ SpokenFits' /\ NothingYet'
       /\ \A t \in Streams : QueueFits(t)'
  BY <1>7, <1>23, RowsStay, AudioTypes DEF AudioInv
<1>31. CutFits'
  <2>1. Live(s)
    BY <1>2 DEF Live
  <2> QED
    BY <1>7, <2>1 DEF AudioInv, CutFits, Unsaid, NoneLive
<1>32. ReportFits'
  <2>1. Live(s)
    BY <1>2 DEF Live
  <2> QED
    BY <1>7, <2>1 DEF AudioInv, ReportFits, NoneLive
<1> QED
  BY <1>27, <1>28, <1>29, <1>30, <1>31, <1>32 DEF AudioInv

LEMMA DisconnectKeeps ==
    ASSUME AudioInv, TypeOK', NEW s \in Streams, Disconnect(s)
    PROVE  AudioInv'
<1>1. CASE stream[s].pc = "open"
  BY <1>1, CloseKeeps DEF Disconnect, close, ends
<1>2. CASE stream[s].pc = "on"
  BY <1>2, LostKeeps DEF Disconnect
<1> QED
  BY <1>1, <1>2 DEF Disconnect

LEMMA ForgetKeeps ==
    ASSUME AudioInv, TypeOK', forget_resume
    PROVE  AudioInv'
<1>1. /\ resumable \in Streams /\ expiry[resumable].pc = "none"
      /\ expiry' = [expiry EXCEPT ![resumable].pc = "waiting"]
      /\ UNCHANGED <<meeting, chunk, segment, stream, recorder, resumable, audio, reported>>
  BY AudioTypes DEF AudioInv, forget_resume, rows
<1>2. /\ expiry \in [Streams -> Expiry] /\ ExpiryFits
      /\ \A t \in Streams : /\ t # resumable => expiry'[t] = expiry[t]
                            /\ expiry'[resumable].pc = "waiting"
  BY <1>1, AudioTypes DEF AudioInv, Expiry
<1>3. \A t \in Streams : /\ expiry'[t].pc = "hearing" <=> expiry[t].pc = "hearing"
                         /\ expiry'[t].pc = "hearing" => expiry'[t].chunk = expiry[t].chunk
  BY <1>1, <1>2
<1>4. RecorderFits' /\ LastIsKnown'
  BY <1>1 DEF AudioInv, RecorderFits, LastIsKnown, NoneLive, Live
<1>5. ExpiryFits'
  BY <1>1, <1>2 DEF ExpiryFits
<1>6. InLine'
  BY <1>1 DEF AudioInv, InLine, LineOrder, LineTip, LineWork, Live
<1>7. \A t \in Streams : EndFits(t)' /\ WorkerFits(t)'
  BY <1>1 DEF AudioInv, EndFits, WorkerFits, Live
<1>8. /\ HearingFits' /\ RowsFit' /\ SpokenFits' /\ NothingYet'
      /\ \A t \in Streams : QueueFits(t)'
  <2>1. audio.errors \in Nat
    BY AudioTypes DEF AudioInv
  <2> QED
    BY <1>1, <1>3, <2>1, RowsStay
<1>9. CutFits'
  BY <1>1 DEF AudioInv, CutFits, Unsaid, NoneLive, Live
<1>10. ReportFits'
  BY <1>1 DEF AudioInv, ReportFits, NoneLive, Live, heard, spoken
<1> QED
  BY <1>4, <1>5, <1>6, <1>7, <1>8, <1>9, <1>10 DEF AudioInv

LEMMA WorkersAreLive ==
    ASSUME AudioInv, NEW s \in Streams,
           stream[s].worker \in {"waiting", "idle", "hearing"} \/ stream[s].tasks # {}
    PROVE  Live(s)
BY DEF AudioInv, WorkerFits

\* While a connection's worker is at work no other is, nor the expiry, and
\* what is queued elsewhere was said later.
LEMMA OneWorksAtATime ==
    ASSUME AudioInv, NEW s \in Streams, stream[s].worker \in {"idle", "hearing"}
    PROVE  /\ \A t \in Streams : expiry[t].pc \in {"none", "waiting"}
           /\ \A t \in Streams : t # s =>
                /\ stream[t].worker \in {"none", "waiting", "stopped"}
                /\ \A i \in 1 .. Len(stream[s].queue), j \in 1 .. Len(stream[t].queue) :
                       stream[s].queue[i] < stream[t].queue[j]
<1>1. Live(s)
  BY WorkersAreLive
<1>2. ASSUME NEW t \in Streams
      PROVE  expiry[t].pc \in {"none", "waiting"}
  <2>1. /\ expiry[t].pc \in {"none", "waiting", "hearing", "deciding", "closing"}
        /\ Nobody \notin Streams
    BY AudioTypes DEF AudioInv, Expiry
  <2>2. PICK u \in Streams : Live(u) /\ (u = recorder \/ u = resumable)
    BY <1>1 DEF AudioInv, LastIsKnown
  <2>3. expiry[t].pc # "none" => resumable = t /\ (expiry[t].pc # "waiting" => stream[t].pc = "done")
    BY DEF AudioInv, ExpiryFits
  <2>4. resumable # Nobody /\ recorder # Nobody => stream[recorder].pc \in {"resuming", "checked"}
    BY DEF AudioInv, RecorderFits
  <2> QED
    BY <2>1, <2>2, <2>3, <2>4 DEF Live
<1>3. PICK rank \in [Streams -> Nat] :
          LineOrder(rank) /\ LineWork(rank)
  BY DEF AudioInv, InLine
<1>4. \A t \in Streams : stream[t].worker \in {"none", "waiting", "idle", "hearing", "stopped"}
  BY AudioTypes DEF AudioInv, Stream
<1>5. ASSUME NEW t \in Streams, t # s
      PROVE  /\ stream[t].worker \in {"none", "waiting", "stopped"}
             /\ \A i \in 1 .. Len(stream[s].queue), j \in 1 .. Len(stream[t].queue) :
                    stream[s].queue[i] < stream[t].queue[j]
  <2>1. CASE ~Live(t)
    BY <2>1 DEF AudioInv, WorkerFits
  <2>2. CASE Live(t)
    <3>1. rank[s] < rank[t] \/ rank[t] < rank[s]
      <4>1. rank[s] # rank[t]
        BY <1>1, <1>3, <1>5, <2>2 DEF LineOrder
      <4> QED
        BY <4>1
    <3>2. CASE rank[s] < rank[t]
      <4>1. /\ stream[t].worker # "waiting" => stream[s].worker = "stopped"
            /\ \A i \in 1 .. Len(stream[s].queue), j \in 1 .. Len(stream[t].queue) :
                   stream[s].queue[i] < stream[t].queue[j]
        BY <1>1, <1>3, <2>2, <3>2 DEF LineWork
      <4> QED
        BY <4>1, <1>4
    <3>3. CASE rank[t] < rank[s]
      <4>1. stream[t].worker = "stopped"
        BY <1>1, <1>3, <2>2, <3>3 DEF LineWork
      <4>2. stream[t].queue = <<>>
        BY <4>1 DEF AudioInv, WorkerFits
      <4> QED
        BY <4>1, <4>2
    <3> QED
      BY <3>1, <3>2, <3>3
  <2> QED
    BY <2>1, <2>2
<1> QED
  BY <1>2, <1>5


\* The worker of one connection moves on; its connection and the sound stay.
LEMMA WorkerMoves ==
    ASSUME AudioInv, TypeOK', NEW s \in Streams, Live(s),
           UNCHANGED <<recorder, resumable, expiry, reported>>,
           stream' \in [Streams -> Stream],
           \A t \in Streams : t # s => stream'[t] = stream[t],
           stream'[s].pc = stream[s].pc, stream'[s].prev = stream[s].prev,
           stream'[s].ended = stream[s].ended,
           stream'[s].worker \in {"idle", "hearing", "stopped"},
           stream'[s].worker = "stopped" =>
               stream'[s].queue = <<>> /\ stream[s].pc \notin {"on", "breaking"},
           audio'.cut = audio.cut, audio'.open = audio.open,
           InLine', HearingFits', RowsFit', CutFits', SpokenFits', NothingYet',
           \A t \in Streams : QueueFits(t)'
    PROVE  AudioInv'
<1>1. \A t \in Streams :
         /\ stream'[t].pc = stream[t].pc /\ stream'[t].prev = stream[t].prev
         /\ stream'[t].ended = stream[t].ended
  OBVIOUS
<1>2. /\ RecorderFits' /\ ExpiryFits' /\ LastIsKnown'
      /\ \A t \in Streams : EndFits(t)' /\ (Live(t)' <=> Live(t))
      /\ NoneLive' <=> NoneLive
  BY <1>1, ConnectionsStay
<1>4. \A t \in Streams : WorkerFits(t)'
  <2> TAKE t \in Streams
  <2>1. \A u \in Streams : stream[u].prev \in Streams \cup {Nobody}
    BY AudioTypes DEF AudioInv
  <2>2. WorkerFits(t)
    BY DEF AudioInv
  <2>3. CASE t = s
    BY <1>1, <1>2, <2>1, <2>2, <2>3 DEF WorkerFits, Live
  <2>4. CASE t # s
    BY <1>1, <1>2, <2>1, <2>2, <2>4 DEF WorkerFits, Live
  <2> QED
    BY <2>3, <2>4
<1>5. ReportFits'
  <2>1. ~NoneLive
    BY DEF NoneLive
  <2>2. reported # "COMPLETED"
    BY <2>1 DEF AudioInv, ReportFits
  <2> QED
    BY <2>2 DEF ReportFits
<1> QED
  BY <1>2, <1>4, <1>5 DEF AudioInv

\* The line as it is when only workers move: InLine' from LineWork'.
LEMMA LineOfWorkers ==
    ASSUME AudioInv, UNCHANGED <<recorder, resumable>>, NEW s \in Streams,
           \A t \in Streams : t # s => stream'[t] = stream[t],
           stream'[s].pc = stream[s].pc, stream'[s].prev = stream[s].prev,
           \A rank \in [Streams -> Nat] :
               LineOrder(rank) /\ LineTip(rank) /\ LineWork(rank) => LineWork(rank)'
    PROVE  InLine'
<1>1. PICK rank \in [Streams -> Nat] : LineOrder(rank) /\ LineTip(rank) /\ LineWork(rank)
  BY DEF AudioInv, InLine
<1>2. \A t \in Streams :
          (Live(t)' <=> Live(t)) /\ stream'[t].prev = stream[t].prev
  BY DEF Live
<1>3. LineOrder(rank)' /\ LineTip(rank)'
  BY <1>1, <1>2, LineStays
<1> QED
  BY <1>1, <1>3 DEF InLine

LEMMA ReadyKeeps ==
    ASSUME AudioInv, TypeOK', NEW s \in Streams, WorkerReady(s)
    PROVE  AudioInv'
<1>0. /\ stream \in [Streams -> Stream] /\ stream[s] \in Stream
      /\ stream[s].worker = "waiting" /\ may_hear(s)
      /\ stream' = [stream EXCEPT ![s].worker = "idle"]
      /\ audio \in Audio /\ audio.errors \in Nat
      /\ stream[s].prev \in Streams \cup {Nobody} /\ Nobody \notin Streams
  BY AudioTypes DEF AudioInv, TypeOK, WorkerReady
<1>1. UNCHANGED <<meeting, chunk, segment, recorder, resumable, expiry, reported, audio>>
  BY DEF WorkerReady, rows, ends
<1>2. /\ stream' \in [Streams -> Stream]
      /\ stream'[s] = [stream[s] EXCEPT !.worker = "idle"]
      /\ \A t \in Streams : t # s => stream'[t] = stream[t]
  <2>1. [stream[s] EXCEPT !.worker = "idle"] \in Stream
    BY <1>0 DEF Stream
  <2> QED
    BY <1>0, <2>1
<1>3. /\ stream'[s].pc = stream[s].pc /\ stream'[s].prev = stream[s].prev
      /\ stream'[s].ended = stream[s].ended /\ stream'[s].worker = "idle"
      /\ stream'[s].queue = stream[s].queue /\ stream'[s].chunk = stream[s].chunk
  BY <1>0, <1>2 DEF Stream
<1>4. Live(s)
  BY <1>0, WorkersAreLive
<1>5. InLine'
  <2> SUFFICES ASSUME NEW rank \in [Streams -> Nat],
                      LineOrder(rank), LineTip(rank), LineWork(rank)
               PROVE  LineWork(rank)'
    BY <1>1, <1>2, <1>3, LineOfWorkers
  <2>1. ASSUME NEW t \in Streams, Live(t), rank[t] < rank[s]
        PROVE  stream[t].worker = "stopped"
    <3>1. t # s /\ rank[t] \in Nat /\ rank[s] \in Nat
      BY <2>1
    <3> DEFINE prev == stream[s].prev
    <3>2. prev # Nobody /\ Live(prev) /\ rank[t] <= rank[prev] /\ prev \in Streams
      BY <1>0, <1>4, <2>1, <3>1 DEF LineOrder
    <3>3. stream[prev].worker = "stopped"
      BY <1>0, <3>2 DEF may_hear
    <3> HIDE DEF prev
    <3>4. t # prev => rank[t] < rank[prev]
      <4>1. t # prev => rank[t] # rank[prev]
        BY <2>1, <3>2 DEF LineOrder
      <4> QED
        BY <3>1, <3>2, <4>1
    <3> QED
      BY <2>1, <3>2, <3>3, <3>4 DEF LineWork
  <2>2. \A t \in Streams : /\ Live(t)' <=> Live(t)
                           /\ stream'[t].queue = stream[t].queue
                           /\ t # s => stream'[t].worker = stream[t].worker
    BY <1>2, <1>3 DEF Live
  <2> SUFFICES ASSUME NEW t \in Streams, NEW u \in Streams, Live(t), Live(u),
                      rank[t] < rank[u]
               PROVE  stream'[u].worker # "waiting" => stream'[t].worker = "stopped"
    BY <2>2 DEF LineWork
  <2>3. CASE u = s
    <3>1. t # s
      BY <2>3
    <3> QED
      BY <2>1, <2>2, <2>3, <3>1
  <2>4. CASE u # s /\ t = s
    BY <1>0, <2>2, <2>4 DEF LineWork
  <2>5. CASE u # s /\ t # s
    BY <2>2, <2>5 DEF LineWork
  <2> QED
    BY <2>3, <2>4, <2>5
<1>6. /\ HearingFits' /\ RowsFit' /\ SpokenFits' /\ NothingYet'
      /\ \A t \in Streams : QueueFits(t)'
  <2>1. audio.errors \in Nat /\ audio.errors >= audio.errors
    BY <1>0
  <2> QED
    BY <1>0, <1>1, <1>2, <1>3, <2>1, RowsStay
<1>7. CutFits'
  <2>1. \A t \in Streams : Live(t)' <=> Live(t)
    BY <1>2, <1>3 DEF Live
  <2> QED
    BY <1>1, <2>1 DEF AudioInv, CutFits, Unsaid, NoneLive
<1> QED
  BY <1>0, <1>1, <1>2, <1>3, <1>4, <1>5, <1>6, <1>7, WorkerMoves

LEMMA StopKeeps ==
    ASSUME AudioInv, TypeOK', NEW s \in Streams, WorkerStop(s)
    PROVE  AudioInv'
<1>0. /\ stream \in [Streams -> Stream] /\ stream[s] \in Stream
      /\ stream[s].worker = "idle" /\ stream[s].queue = <<>> /\ stream[s].pc = "draining"
      /\ stream' = [stream EXCEPT ![s].worker = "stopped"]
      /\ audio \in Audio /\ audio.errors \in Nat
  BY AudioTypes DEF AudioInv, TypeOK, WorkerStop
<1>1. UNCHANGED <<meeting, chunk, segment, recorder, resumable, expiry, reported, audio>>
  BY DEF WorkerStop, rows, ends
<1>2. /\ stream' \in [Streams -> Stream]
      /\ stream'[s] = [stream[s] EXCEPT !.worker = "stopped"]
      /\ \A t \in Streams : t # s => stream'[t] = stream[t]
  <2>1. [stream[s] EXCEPT !.worker = "stopped"] \in Stream
    BY <1>0 DEF Stream
  <2> QED
    BY <1>0, <2>1
<1>3. /\ stream'[s].pc = stream[s].pc /\ stream'[s].prev = stream[s].prev
      /\ stream'[s].ended = stream[s].ended /\ stream'[s].worker = "stopped"
      /\ stream'[s].queue = stream[s].queue /\ stream'[s].chunk = stream[s].chunk
  BY <1>0, <1>2 DEF Stream
<1>4. Live(s)
  BY <1>0, WorkersAreLive
<1>5. \A t \in Streams : Live(t)' <=> Live(t)
  BY <1>2, <1>3 DEF Live
<1>6. InLine'
  <2> SUFFICES ASSUME NEW rank \in [Streams -> Nat],
                      LineOrder(rank), LineTip(rank), LineWork(rank)
               PROVE  LineWork(rank)'
    BY <1>1, <1>2, <1>3, LineOfWorkers
  <2> QED
    BY <1>0, <1>2, <1>3, <1>5, WorkStays
<1>7. /\ HearingFits' /\ RowsFit' /\ SpokenFits' /\ NothingYet'
      /\ \A t \in Streams : QueueFits(t)'
  <2>1. audio.errors \in Nat /\ audio.errors >= audio.errors
    BY <1>0
  <2> QED
    BY <1>0, <1>1, <1>2, <1>3, <2>1, RowsStay
<1>8. CutFits'
  BY <1>1, <1>5 DEF AudioInv, CutFits, Unsaid, NoneLive
<1> QED
  BY <1>0, <1>1, <1>2, <1>3, <1>4, <1>6, <1>7, <1>8, WorkerMoves

LEMMA DecidedKeeps ==
    ASSUME AudioInv, TypeOK', NEW s \in Streams, NEW g \in stream[s].tasks, decide_one(s, g)
    PROVE  AudioInv'
<1>0. /\ stream \in [Streams -> Stream] /\ stream[s] \in Stream
      /\ stream[s].tasks \in SUBSET Nat /\ stream[s].tasks # {}
      /\ stream' = [stream EXCEPT ![s].tasks = stream[s].tasks \ {g}]
      /\ audio \in Audio
  BY AudioTypes DEF AudioInv, TypeOK, decide_one
<1>1. UNCHANGED <<meeting, chunk, segment, recorder, resumable, expiry, reported>>
  BY DEF decide_one, rows, ends
<1>2. /\ stream' \in [Streams -> Stream]
      /\ stream'[s] = [stream[s] EXCEPT !.tasks = stream[s].tasks \ {g}]
      /\ \A t \in Streams : t # s => stream'[t] = stream[t]
  <2>1. [stream[s] EXCEPT !.tasks = stream[s].tasks \ {g}] \in Stream
    BY <1>0 DEF Stream
  <2> QED
    BY <1>0, <2>1
<1>3. /\ stream'[s].pc = stream[s].pc /\ stream'[s].prev = stream[s].prev
      /\ stream'[s].ended = stream[s].ended /\ stream'[s].worker = stream[s].worker
      /\ stream'[s].queue = stream[s].queue /\ stream'[s].chunk = stream[s].chunk
      /\ stream'[s].tasks \subseteq stream[s].tasks
  BY <1>0, <1>2 DEF Stream
<1>4. /\ audio'.cut = audio.cut /\ audio'.open = audio.open
      /\ audio'.errors \in Nat /\ audio'.errors >= audio.errors
  <2>1. CASE UNCHANGED audio
    BY <1>0, <2>1 DEF Audio
  <2>2. CASE audio' = [audio EXCEPT !.errors = @ + 1]
    BY <1>0, <2>2 DEF Audio
  <2> QED
    BY <2>1, <2>2 DEF decide_one
<1>5. Live(s)
  BY <1>0, WorkersAreLive
<1>6. \A t \in Streams : Live(t)' <=> Live(t)
  BY <1>2, <1>3 DEF Live
<1>7. InLine'
  <2> SUFFICES ASSUME NEW rank \in [Streams -> Nat],
                      LineOrder(rank), LineTip(rank), LineWork(rank)
               PROVE  LineWork(rank)'
    BY <1>1, <1>2, <1>3, LineOfWorkers
  <2> QED
    BY <1>2, <1>3, <1>6, WorkStays
<1>8. /\ HearingFits' /\ RowsFit' /\ SpokenFits' /\ NothingYet'
      /\ \A t \in Streams : QueueFits(t)'
  BY <1>1, <1>2, <1>3, <1>4, RowsStay
<1>9. CutFits'
  BY <1>1, <1>4, <1>6 DEF AudioInv, CutFits, Unsaid, NoneLive
<1>12. \A t \in Streams :
          /\ stream'[t].pc = stream[t].pc /\ stream'[t].prev = stream[t].prev
          /\ stream'[t].ended = stream[t].ended
  BY <1>2, <1>3
<1>13. /\ RecorderFits' /\ ExpiryFits' /\ LastIsKnown'
       /\ \A t \in Streams : EndFits(t)'
       /\ NoneLive' <=> NoneLive
  BY <1>1, <1>4, <1>12, ConnectionsStay
<1>14. \A t \in Streams : WorkerFits(t)'
  <2> TAKE t \in Streams
  <2>1. \A u \in Streams : stream[u].prev \in Streams \cup {Nobody}
    BY AudioTypes DEF AudioInv
  <2>2. WorkerFits(t)
    BY DEF AudioInv
  <2>3. CASE t = s
    BY <1>3, <1>5, <1>6, <1>12, <2>1, <2>2, <2>3 DEF WorkerFits, Live
  <2>4. CASE t # s
    BY <1>2, <1>6, <1>12, <2>1, <2>2, <2>4 DEF WorkerFits, Live
  <2> QED
    BY <2>3, <2>4
<1>15. ReportFits'
  <2>1. ~NoneLive
    BY <1>5 DEF NoneLive
  <2>2. reported # "COMPLETED"
    BY <2>1 DEF AudioInv, ReportFits
  <2> QED
    BY <1>1, <2>2 DEF ReportFits
<1> QED
  BY <1>7, <1>8, <1>9, <1>13, <1>14, <1>15 DEF AudioInv

----------------------------------------------------------------------------
----------------------------------------------------------------------------
(* The rows of the recogniser *)

\* A WAV is kept: the new chunk waits to be heard, and only later speech is
\* unsaid.
LEMMA SpeechIsTaken ==
    ASSUME AudioInv, NEW u \in Utterances, Unsaid(u), begin_stream_utterance(u)
    PROVE  /\ MeetingTypeOK' /\ Len(chunk') = Len(chunk) + 1
           /\ BeingHeard' /\ RowsFit'
           /\ chunk'[Len(chunk')].utterance = u
           /\ \A v : heard(v) => heard(v)'
           /\ \A v \in Nat : u < v /\ Unsaid(v) => Unsaid(v)'
<1> DEFINE new == [stt |-> "RUNNING", utterance |-> u]
<1>1. /\ u \in Nat /\ chunk \in Seq(Chunk) /\ Len(chunk) \in Nat /\ Len(segment) \in Nat
      /\ MaxSegments \in Nat /\ MeetingTypeOK
  BY AudioTypes DEF AudioInv, TypeOK, Utterances
<1>2. /\ chunk' = Append(chunk, new) /\ UNCHANGED <<meeting, segment>>
      /\ Len(chunk) < MaxSegments
  BY DEF begin_stream_utterance
<1>3. new \in Chunk
  BY <1>1 DEF Chunk
<1>4. /\ chunk' \in Seq(Chunk) /\ Len(chunk') = Len(chunk) + 1
      /\ \A c \in 1 .. Len(chunk) : chunk'[c] = chunk[c]
      /\ chunk'[Len(chunk')] = new
  BY <1>1, <1>2, <1>3
<1>5. new.stt = "RUNNING" /\ new.utterance = u
  OBVIOUS
<1> HIDE DEF new
<1>6. MeetingTypeOK'
  BY <1>1, <1>2, <1>4 DEF MeetingTypeOK
<1>7. BeingHeard'
  BY <1>1, <1>2, <1>4, <1>5 DEF BeingHeard, AudioInv, RowsFit, Unsaid
<1>8. RowsFit'
  BY <1>1, <1>2, <1>4 DEF AudioInv, RowsFit, SpeechOrder
<1>9. \A v : heard(v) => heard(v)'
  BY <1>1, <1>4 DEF heard
<1>10. \A v \in Nat : u < v /\ Unsaid(v) => Unsaid(v)'
  <2> SUFFICES ASSUME NEW v \in Nat, u < v, Unsaid(v) PROVE Unsaid(v)'
    OBVIOUS
  <2>1. \A c \in 1 .. Len(chunk') : chunk'[c].utterance < v
    <3> TAKE c \in 1 .. Len(chunk')
    <3>1. CASE c = Len(chunk')
      BY <1>4, <1>5, <3>1
    <3>2. CASE c # Len(chunk')
      <4>1. c \in 1 .. Len(chunk)
        BY <1>1, <1>4, <3>2
      <4> QED
        BY <1>4, <4>1 DEF Unsaid
    <3> QED
      BY <3>1, <3>2
  <2> QED
    BY <1>2, <2>1 DEF Unsaid
<1> QED
  BY <1>4, <1>5, <1>6, <1>7, <1>8, <1>9, <1>10

LEMMA ReplacedChunk ==
    ASSUME NEW S, NEW list \in Seq(S), NEW i \in 1 .. Len(list), NEW x \in S
    PROVE  LET changed == [list EXCEPT ![i] = x]
           IN  /\ changed \in Seq(S) /\ Len(changed) = Len(list) /\ changed[i] = x
               /\ \A k \in 1 .. Len(list) : k # i => changed[k] = list[k]
OBVIOUS

LEMMA AppendedSegment ==
    ASSUME NEW S, NEW list \in Seq(S), NEW x \in S
    PROVE  LET longer == Append(list, x)
           IN  /\ longer \in Seq(S) /\ Len(longer) = Len(list) + 1
               /\ longer[Len(list) + 1] = x
               /\ \A k \in 1 .. Len(list) : longer[k] = list[k]
OBVIOUS

\* The recogniser answers, or fails: what it heard is the last segment.
LEMMA SpeechIsHeard ==
    ASSUME AudioInv, BeingHeard,
           \/ save_stream_transcript(Len(chunk), TRUE)
           \/ save_stream_transcript(Len(chunk), FALSE)
           \/ fail_stream_stt(Len(chunk))
    PROVE  /\ MeetingTypeOK' /\ UNCHANGED meeting /\ Len(chunk') = Len(chunk) /\ RowsFit'
           /\ \A c \in 1 .. Len(chunk) : chunk'[c].utterance = chunk[c].utterance
           /\ \A v : heard(v) => heard(v)'
           /\ \A v : ~fail_stream_stt(Len(chunk)) /\ v = chunk[Len(chunk)].utterance
                      => heard(v)'
           /\ \A v \in Nat : Unsaid(v) => Unsaid(v)'
           /\ Len(segment') \in 1 .. MaxSegments \/ segment' = segment
<1> DEFINE n == Len(chunk)
           new == [utterance |-> chunk[n].utterance, version |-> 1, final |-> TRUE, job |-> 0]
<1>1. /\ chunk \in Seq(Chunk) /\ n \in 1 .. Len(chunk)
      /\ segment \in Seq(Segment) /\ Len(segment) \in Nat
      /\ MaxSegments \in Nat /\ MeetingTypeOK
      /\ \A c \in 1 .. Len(chunk) : chunk[c] \in Chunk /\ chunk[c].utterance \in Nat
      /\ \A g \in 1 .. Len(segment) : segment[g].utterance \in Nat
  BY AudioTypes DEF AudioInv, TypeOK, BeingHeard
<1>0. /\ n = Len(chunk) /\ new.utterance = chunk[n].utterance
      /\ new = [utterance |-> chunk[n].utterance, version |-> 1, final |-> TRUE, job |-> 0]
  OBVIOUS
<1> HIDE DEF n, new
<1>2. PICK r \in {"SUCCEEDED", "FAILED"} :
          /\ chunk' = [chunk EXCEPT ![n].stt = r]
          /\ ~fail_stream_stt(n) => r = "SUCCEEDED"
  <2>1. CASE fail_stream_stt(n)
    BY <1>0, <2>1 DEF fail_stream_stt
  <2>2. CASE save_stream_transcript(n, TRUE)
    BY <1>0, <2>2 DEF save_stream_transcript
  <2>3. CASE save_stream_transcript(n, FALSE)
    BY <1>0, <2>3 DEF save_stream_transcript
  <2> QED
    BY <1>0, <2>1, <2>2, <2>3
<1>3. UNCHANGED meeting /\ (segment' = segment \/ segment' = Append(segment, new))
  BY <1>0 DEF save_stream_transcript, fail_stream_stt
<1>4. [chunk[n] EXCEPT !.stt = r] \in Chunk
  BY <1>1 DEF Chunk
<1>5. /\ chunk' \in Seq(Chunk) /\ Len(chunk') = Len(chunk)
      /\ chunk'[n] = [chunk[n] EXCEPT !.stt = r]
      /\ \A c \in 1 .. Len(chunk) : c # n => chunk'[c] = chunk[c]
  BY <1>1, <1>2, <1>4, ReplacedChunk
<1>6. /\ chunk'[n].stt = r /\ chunk'[n].utterance = chunk[n].utterance
  BY <1>1, <1>5 DEF Chunk
<1>7. new \in Segment /\ new.utterance = chunk[n].utterance
  BY <1>0, <1>1 DEF Segment
<1>8. \/ segment' = segment
      \/ /\ segment' \in Seq(Segment) /\ Len(segment') = Len(segment) + 1
         /\ \A g \in 1 .. Len(segment) : segment'[g] = segment[g]
         /\ segment'[Len(segment')] = new
  <2>1. CASE segment' = Append(segment, new)
    BY <1>1, <1>7, <2>1, AppendedSegment
  <2> QED
    BY <1>3, <2>1
<1>9. /\ n = Len(chunk) /\ Len(segment) < n /\ n <= MaxSegments
      /\ \A g \in 1 .. Len(segment) : segment[g].utterance < chunk[n].utterance
      /\ SpeechOrder /\ chunk[n].stt = "RUNNING"
  BY <1>0 DEF BeingHeard, AudioInv, RowsFit
<1>10. MeetingTypeOK'
  BY <1>1, <1>3, <1>5, <1>8 DEF MeetingTypeOK
<1>11. SpeechOrder'
  <2>1. CASE segment' = segment
    BY <1>9, <2>1 DEF SpeechOrder
  <2>2. CASE /\ Len(segment') = Len(segment) + 1
             /\ \A g \in 1 .. Len(segment) : segment'[g] = segment[g]
             /\ segment'[Len(segment')] = new
    <3> SUFFICES ASSUME NEW g \in 1 .. Len(segment'), NEW h \in 1 .. Len(segment'), g < h
                 PROVE  segment'[g].utterance < segment'[h].utterance
      BY DEF SpeechOrder
    <3>1. g \in 1 .. Len(segment) /\ segment'[g] = segment[g]
      BY <1>1, <2>2
    <3>2. CASE h = Len(segment')
      BY <1>7, <1>9, <2>2, <3>1, <3>2
    <3>3. CASE h # Len(segment')
      <4>1. h \in 1 .. Len(segment)
        <5> DEFINE m == Len(segment)
        <5>1. m \in Nat /\ Len(segment') = m + 1
          BY <1>1, <2>2
        <5> HIDE DEF m
        <5>2. h \in 1 .. m
          BY <3>3, <5>1
        <5> QED
          BY <5>2 DEF m
      <4>2. segment'[h] = segment[h]
        BY <2>2, <4>1
      <4> QED
        BY <1>9, <3>1, <4>1, <4>2 DEF SpeechOrder
    <3> QED
      BY <3>2, <3>3
  <2> QED
    BY <1>8, <2>1, <2>2
<1>12. /\ Len(segment') <= Len(chunk') /\ Len(chunk') <= MaxSegments
       /\ Len(segment') \in 1 .. MaxSegments \/ segment' = segment
  BY <1>1, <1>5, <1>8, <1>9
<1>13. \A c \in 1 .. Len(chunk) : chunk'[c].utterance = chunk[c].utterance
  BY <1>5, <1>6
<1>14. \A v : heard(v) => heard(v)'
  <2> SUFFICES ASSUME NEW v, NEW c \in 1 .. Len(chunk),
                      chunk[c].utterance = v, chunk[c].stt = "SUCCEEDED"
               PROVE  heard(v)'
    BY DEF heard
  <2>1. c # n
    BY <1>9
  <2> QED
    BY <1>5, <2>1 DEF heard
<1>15. \A v : ~fail_stream_stt(Len(chunk)) /\ v = chunk[Len(chunk)].utterance => heard(v)'
  <2> SUFFICES ASSUME ~fail_stream_stt(Len(chunk)), NEW v, v = chunk[Len(chunk)].utterance
               PROVE  heard(v)'
    OBVIOUS
  <2>1. n \in 1 .. Len(chunk') /\ chunk'[n].utterance = v /\ chunk'[n].stt = "SUCCEEDED"
    BY <1>0, <1>1, <1>2, <1>5, <1>6
  <2> QED
    BY <2>1 DEF heard
<1>16. \A v \in Nat : Unsaid(v) => Unsaid(v)'
  <2> SUFFICES ASSUME NEW v \in Nat, Unsaid(v) PROVE Unsaid(v)'
    OBVIOUS
  <2>1. \A c \in 1 .. Len(chunk') : chunk'[c].utterance < v
    BY <1>5, <1>13 DEF Unsaid
  <2>2. \A g \in 1 .. Len(segment') : segment'[g].utterance < v
    <3> TAKE g \in 1 .. Len(segment')
    <3>1. CASE g \in 1 .. Len(segment) /\ segment'[g] = segment[g]
      BY <3>1 DEF Unsaid
    <3>2. CASE segment'[g] = new
      BY <1>1, <1>7, <3>2 DEF Unsaid
    <3> QED
      BY <1>1, <1>8, <3>1, <3>2
  <2> QED
    BY <2>1, <2>2 DEF Unsaid
<1> QED
  BY <1>3, <1>5, <1>9, <1>10, <1>11, <1>12, <1>13, <1>14, <1>15, <1>16 DEF RowsFit


LEMMA TailOfSeq ==
    ASSUME NEW S, NEW q \in Seq(S), q # <<>>
    PROVE  /\ Len(q) \in Nat /\ Len(q) >= 1 /\ Head(q) = q[1] /\ Head(q) \in S
           /\ Tail(q) \in Seq(S) /\ Len(Tail(q)) = Len(q) - 1
           /\ \A i \in 1 .. Len(Tail(q)) : i + 1 \in 1 .. Len(q) /\ Tail(q)[i] = q[i + 1]
<1>1. Len(q) \in Nat /\ Len(q) >= 1 /\ Head(q) = q[1] /\ Head(q) \in S
  BY HeadTailProperties, EmptySeq
<1>2. /\ Tail(q) \in Seq(S) /\ Len(Tail(q)) = Len(q) - 1
      /\ \A i \in 1 .. Len(Tail(q)) : Tail(q)[i] = q[i + 1]
  BY HeadTailProperties
<1>3. \A i \in 1 .. Len(Tail(q)) : i + 1 \in 1 .. Len(q)
  BY <1>1, <1>2
<1> QED
  BY <1>1, <1>2, <1>3

\* The worker takes the first of its queue, the earliest of all that wait.
LEMMA EarliestIsTaken ==
    ASSUME AudioInv, NEW s \in Streams,
           stream[s].worker = "idle", stream[s].queue # <<>>,
           UNCHANGED <<recorder, resumable>>,
           \A t \in Streams : t # s => stream'[t] = stream[t],
           stream'[s].pc = stream[s].pc, stream'[s].prev = stream[s].prev,
           stream'[s].queue = Tail(stream[s].queue),
           stream'[s].worker # "waiting"
    PROVE  /\ Live(s) /\ InLine' /\ ~Listening
           /\ \A t \in Streams : t # s => stream[t].worker # "hearing"
           /\ \A t \in Streams : expiry[t].pc # "hearing"
           /\ Len(stream'[s].queue) <= QueueSize
           /\ \A u : u = Head(stream[s].queue) =>
                /\ u \in Utterances /\ Unsaid(u) /\ u <= audio.cut
                /\ \A v : Queued(v) => Queued(v)' \/ v = u
                /\ \A t \in Streams :
                     /\ \A i \in 1 .. Len(stream'[t].queue) :
                          /\ stream'[t].queue[i] \in Nat /\ u < stream'[t].queue[i]
                          /\ Unsaid(stream'[t].queue[i])
                          /\ stream'[t].queue[i] <= audio.cut
                          /\ \A j \in 1 .. Len(stream'[t].queue) :
                               i < j => stream'[t].queue[i] < stream'[t].queue[j]
<1> DEFINE q == stream[s].queue
<1>1. Live(s)
  BY WorkersAreLive
<1>2. /\ \A t \in Streams : expiry[t].pc \in {"none", "waiting"}
      /\ \A t \in Streams : t # s =>
           /\ stream[t].worker \in {"none", "waiting", "stopped"}
           /\ \A i \in 1 .. Len(q), j \in 1 .. Len(stream[t].queue) :
                  q[i] < stream[t].queue[j]
  BY OneWorksAtATime
<1>3. ~Listening
  BY <1>2 DEF Listening
<1>4. /\ q \in Seq(Utterances) /\ q # <<>> /\ Len(q) <= QueueSize /\ QueueSize \in Nat
      /\ \A i \in 1 .. Len(q) : q[i] \in Nat
      /\ \A t \in Streams : \A i \in 1 .. Len(stream[t].queue) : stream[t].queue[i] \in Nat
  BY AudioTypes, AudioAssumption DEF AudioInv
<1>5. /\ Len(q) \in Nat /\ Len(q) >= 1 /\ Head(q) = q[1] /\ Head(q) \in Utterances
      /\ Len(Tail(q)) = Len(q) - 1
      /\ \A i \in 1 .. Len(Tail(q)) : i + 1 \in 1 .. Len(q) /\ Tail(q)[i] = q[i + 1]
  BY <1>4, TailOfSeq
<1>6. PICK r : r = Tail(q)
  OBVIOUS
<1>7. stream'[s].queue = r /\ Len(r) = Len(q) - 1
      /\ \A i \in 1 .. Len(r) : i + 1 \in 1 .. Len(q) /\ r[i] = q[i + 1]
  BY <1>5, <1>6
<1>8. \A i \in 1 .. Len(q) :
         /\ Unsaid(q[i]) /\ q[i] <= audio.cut
         /\ \A j \in 1 .. Len(q) : i < j => q[i] < q[j]
  BY DEF AudioInv, QueueFits
<1>9. InLine'
  <2> SUFFICES ASSUME NEW rank \in [Streams -> Nat],
                      LineOrder(rank), LineTip(rank), LineWork(rank)
               PROVE  LineWork(rank)'
    BY LineOfWorkers
  <2>1. \A t \in Streams : Live(t)' <=> Live(t)
    BY DEF Live
  <2> SUFFICES ASSUME NEW t \in Streams, NEW v \in Streams, Live(t), Live(v),
                      rank[t] < rank[v]
               PROVE  /\ stream'[v].worker # "waiting" => stream'[t].worker = "stopped"
                      /\ \A i \in 1 .. Len(stream'[t].queue), j \in 1 .. Len(stream'[v].queue) :
                             stream'[t].queue[i] < stream'[v].queue[j]
    BY <2>1 DEF LineWork
  <2>2. /\ stream[v].worker # "waiting" => stream[t].worker = "stopped"
        /\ \A i \in 1 .. Len(stream[t].queue), j \in 1 .. Len(stream[v].queue) :
               stream[t].queue[i] < stream[v].queue[j]
    BY DEF LineWork
  <2>3. t # v
    BY DEF LineOrder
  <2>4. CASE t = s
    BY <1>2, <1>7, <2>2, <2>3, <2>4
  <2>5. CASE v = s
    BY <1>7, <2>2, <2>3, <2>5
  <2>6. CASE t # s /\ v # s
    BY <2>2, <2>6
  <2> QED
    BY <2>4, <2>5, <2>6
<1>10. \A v : Queued(v) => Queued(v)' \/ v = q[1]
  <2> SUFFICES ASSUME NEW v, NEW t \in Streams, NEW i \in 1 .. Len(stream[t].queue),
                      stream[t].queue[i] = v, v # q[1]
               PROVE  Queued(v)'
    BY DEF Queued
  <2>1. CASE t = s
    <3>1. i - 1 \in 1 .. Len(r) /\ r[i - 1] = q[i]
      BY <1>5, <1>7, <2>1
    <3> QED
      BY <1>7, <2>1, <3>1 DEF Queued
  <2>2. CASE t # s
    BY <2>2 DEF Queued
  <2> QED
    BY <2>1, <2>2
<1>11. ASSUME NEW t \in Streams
       PROVE  \A i \in 1 .. Len(stream'[t].queue) :
                /\ stream'[t].queue[i] \in Nat /\ q[1] < stream'[t].queue[i]
                /\ Unsaid(stream'[t].queue[i])
                /\ stream'[t].queue[i] <= audio.cut
                /\ \A j \in 1 .. Len(stream'[t].queue) :
                     i < j => stream'[t].queue[i] < stream'[t].queue[j]
  <2>1. CASE t = s
    <3>1. stream'[t].queue = r
      BY <1>7, <2>1
    <3>2. ASSUME NEW i \in 1 .. Len(r)
          PROVE  /\ r[i] \in Nat /\ q[1] < r[i] /\ Unsaid(r[i]) /\ r[i] <= audio.cut
                 /\ \A j \in 1 .. Len(r) : i < j => r[i] < r[j]
      <4>1. 1 \in 1 .. Len(q) /\ i + 1 \in 1 .. Len(q) /\ 1 < i + 1 /\ r[i] = q[i + 1]
        BY <1>5, <1>7
      <4>2. ASSUME NEW j \in 1 .. Len(r), i < j PROVE r[i] < r[j]
        <5>1. j + 1 \in 1 .. Len(q) /\ i + 1 < j + 1 /\ r[j] = q[j + 1]
          BY <1>5, <1>7, <4>2
        <5> QED
          BY <1>8, <4>1, <5>1
      <4>3. q[1] < q[i + 1]
        BY <1>8, <4>1
      <4> QED
        BY <1>4, <1>8, <4>1, <4>2, <4>3
    <3> QED
      BY <3>1, <3>2
  <2>2. CASE t # s
    <3>1. stream'[t].queue = stream[t].queue /\ QueueFits(t) /\ 1 \in 1 .. Len(q)
      BY <1>5, <2>2 DEF AudioInv
    <3> QED
      BY <1>2, <1>4, <2>2, <3>1 DEF QueueFits
  <2> QED
    BY <2>1, <2>2
<1>12. 1 \in 1 .. Len(q)
  BY <1>5
<1>13. Len(stream'[s].queue) <= QueueSize
  BY <1>4, <1>5, <1>7
<1> HIDE DEF q
<1>14. Head(q) = q[1]
  BY <1>5
<1>15. \A u : u = Head(q) =>
          /\ u \in Utterances /\ Unsaid(u) /\ u <= audio.cut
          /\ \A v : Queued(v) => Queued(v)' \/ v = u
          /\ \A t \in Streams :
               /\ \A i \in 1 .. Len(stream'[t].queue) :
                    /\ stream'[t].queue[i] \in Nat /\ u < stream'[t].queue[i]
                    /\ Unsaid(stream'[t].queue[i])
                    /\ stream'[t].queue[i] <= audio.cut
                    /\ \A j \in 1 .. Len(stream'[t].queue) :
                         i < j => stream'[t].queue[i] < stream'[t].queue[j]
  <2> SUFFICES ASSUME NEW u, u = q[1]
               PROVE  /\ u \in Utterances /\ Unsaid(u) /\ u <= audio.cut
                      /\ \A v : Queued(v) => Queued(v)' \/ v = u
                      /\ \A t \in Streams :
                           /\ \A i \in 1 .. Len(stream'[t].queue) :
                                /\ stream'[t].queue[i] \in Nat /\ u < stream'[t].queue[i]
                                /\ Unsaid(stream'[t].queue[i])
                                /\ stream'[t].queue[i] <= audio.cut
                                /\ \A j \in 1 .. Len(stream'[t].queue) :
                                     i < j => stream'[t].queue[i] < stream'[t].queue[j]
    BY <1>14
  <2>1. u \in Utterances /\ Unsaid(u) /\ u <= audio.cut
    BY <1>5, <1>8, <1>12, <1>14
  <2> QED
    BY <1>10, <1>11, <2>1
<1> QED
  BY <1>1, <1>2, <1>3, <1>9, <1>13, <1>15 DEF q

LEMMA HearKeeps ==
    ASSUME AudioInv, TypeOK', NEW s \in Streams, Hear(s)
    PROVE  AudioInv'
<1>0. /\ stream \in [Streams -> Stream] /\ stream[s] \in Stream
      /\ stream[s].worker = "idle" /\ stream[s].queue # <<>>
      /\ stream[s].queue \in Seq(Utterances)
      /\ audio \in Audio /\ audio.cut \in Nat /\ audio.errors \in Nat
      /\ MeetingTypeOK /\ Len(chunk) \in Nat
      /\ UNCHANGED <<recorder, resumable, expiry, reported>>
  BY AudioTypes DEF AudioInv, TypeOK, Hear, ends
<1>1. PICK u : u = Head(stream[s].queue)
  OBVIOUS
<1>2. Tail(stream[s].queue) \in Seq(Utterances)
  BY <1>0, TailOfSeq
<1>3. CASE /\ begin_stream_utterance(u)
           /\ stream' = [stream EXCEPT ![s].queue = Tail(stream[s].queue),
                             ![s].worker = "hearing", ![s].chunk = Len(chunk')]
           /\ UNCHANGED audio
  <2>1. Len(chunk') \in Nat
    <3>1. \A x : x \in Seq(Chunk) => Len(x) \in Nat
      OBVIOUS
    <3>2. chunk \in Seq(Chunk)
      BY <1>0 DEF MeetingTypeOK
    <3> DEFINE new == [stt |-> "RUNNING", utterance |-> u]
    <3>3. chunk' = Append(chunk, new)
      BY <1>3 DEF begin_stream_utterance
    <3> HIDE DEF new
    <3> QED
      BY <1>0, <3>2, <3>3
  <2>2. PICK n \in Nat : n = Len(chunk')
    BY <2>1
  <2>3. /\ stream' \in [Streams -> Stream]
        /\ stream'[s] = [stream[s] EXCEPT !.queue = Tail(stream[s].queue),
                             !.worker = "hearing", !.chunk = n]
        /\ \A t \in Streams : t # s => stream'[t] = stream[t]
    <3> DEFINE row == [stream[s] EXCEPT !.queue = Tail(stream[s].queue),
                             !.worker = "hearing", !.chunk = n]
    <3>1. row \in Stream
      BY <1>0, <1>2, <2>2 DEF Stream
    <3>2. stream' = [stream EXCEPT ![s] = row]
      BY <1>0, <1>3, <2>2
    <3> QED
      BY <1>0, <3>1, <3>2
  <2>4. /\ stream'[s].pc = stream[s].pc /\ stream'[s].prev = stream[s].prev
        /\ stream'[s].ended = stream[s].ended /\ stream'[s].worker = "hearing"
        /\ stream'[s].queue = Tail(stream[s].queue) /\ stream'[s].chunk = n
        /\ stream'[s].tasks = stream[s].tasks
    BY <1>0, <2>3 DEF Stream
  <2>5. /\ Live(s) /\ InLine' /\ ~Listening
        /\ \A t \in Streams : t # s => stream[t].worker # "hearing"
        /\ \A t \in Streams : expiry[t].pc # "hearing"
        /\ Len(stream'[s].queue) <= QueueSize
        /\ u \in Utterances /\ Unsaid(u) /\ u <= audio.cut
        /\ \A v : Queued(v) => Queued(v)' \/ v = u
        /\ \A t \in Streams : \A i \in 1 .. Len(stream'[t].queue) :
             /\ stream'[t].queue[i] \in Nat /\ u < stream'[t].queue[i]
             /\ Unsaid(stream'[t].queue[i])
             /\ stream'[t].queue[i] <= audio.cut
             /\ \A j \in 1 .. Len(stream'[t].queue) :
                  i < j => stream'[t].queue[i] < stream'[t].queue[j]
    <3>1. stream'[s].worker # "waiting"
      BY <2>4
    <3> QED
      BY <1>0, <1>1, <2>3, <2>4, <3>1, EarliestIsTaken
  <2>6. /\ MeetingTypeOK' /\ Len(chunk') = Len(chunk) + 1
        /\ BeingHeard' /\ RowsFit'
        /\ chunk'[Len(chunk')].utterance = u
        /\ \A v : heard(v) => heard(v)'
        /\ \A v \in Nat : u < v /\ Unsaid(v) => Unsaid(v)'
    BY <1>3, <2>5, SpeechIsTaken
  <2>7. HearingFits'
    BY <1>0, <2>2, <2>3, <2>4, <2>5, <2>6 DEF HearingFits
  <2>8. CutFits'
    <3>1. Unsaid(audio.cut + 1) /\ audio.cut \in Nat
      BY <1>0, <2>5 DEF AudioInv, CutFits, NoneLive
    <3>2. u < audio.cut + 1 /\ audio.cut + 1 \in Nat
      BY <2>5, <3>1 DEF Utterances
    <3>3. Unsaid(audio.cut + 1)'
      <4>1. \A v \in Nat : v = audio.cut + 1 => Unsaid(v)'
        BY <2>6, <3>1, <3>2
      <4> QED
        BY <1>3, <3>2, <4>1
    <3> QED
      BY <1>3, <3>1, <3>3 DEF CutFits
  <2>9. SpokenFits'
    <3>1. Listening' /\ chunk'[Len(chunk')].utterance = u
      BY <2>4, <2>6 DEF Listening
    <3> SUFFICES ASSUME NEW v \in spoken, audio.errors = 0
                 PROVE  heard(v)' \/ Queued(v)' \/ v = u
      BY <1>0, <1>3, <3>1 DEF SpokenFits, spoken
    <3>2. heard(v) \/ Queued(v)
      BY <2>5 DEF AudioInv, SpokenFits
    <3> QED
      BY <2>5, <2>6, <3>2
  <2>10. NothingYet'
    <3>1. chunk' # <<>>
      BY <1>0, <2>6
    <3> QED
      BY <3>1 DEF NothingYet
  <2>11. \A t \in Streams : QueueFits(t)'
    <3>1. \A t \in Streams : \A i \in 1 .. Len(stream'[t].queue) :
              \A v \in Nat : v = stream'[t].queue[i] => Unsaid(v)'
      BY <2>5, <2>6
    <3>2. \A t \in Streams : \A i \in 1 .. Len(stream'[t].queue) :
              Unsaid(stream[t].queue[i])'
      BY <2>5, <3>1
    <3> QED
      BY <1>3, <2>5, <3>2 DEF QueueFits
  <2>12. audio'.cut = audio.cut /\ audio'.open = audio.open
    BY <1>3
  <2> QED
    BY <1>0, <2>3, <2>4, <2>5, <2>6, <2>7, <2>8, <2>9, <2>10, <2>11, <2>12, WorkerMoves
<1>4. CASE /\ ~takes_speech
           /\ stream' = [stream EXCEPT ![s].queue = Tail(stream[s].queue)]
           /\ audio' = [audio EXCEPT !.errors = audio.errors + 1]
           /\ UNCHANGED rows
  <2>1. UNCHANGED <<meeting, chunk, segment>>
    BY <1>4 DEF rows
  <2>3. /\ stream' \in [Streams -> Stream]
        /\ stream'[s] = [stream[s] EXCEPT !.queue = Tail(stream[s].queue)]
        /\ \A t \in Streams : t # s => stream'[t] = stream[t]
    <3> DEFINE row == [stream[s] EXCEPT !.queue = Tail(stream[s].queue)]
    <3>1. row \in Stream
      BY <1>0, <1>2 DEF Stream
    <3>2. stream' = [stream EXCEPT ![s] = row]
      BY <1>0, <1>4
    <3> QED
      BY <1>0, <3>1, <3>2
  <2>4. /\ stream'[s].pc = stream[s].pc /\ stream'[s].prev = stream[s].prev
        /\ stream'[s].ended = stream[s].ended /\ stream'[s].worker = "idle"
        /\ stream'[s].queue = Tail(stream[s].queue)
    BY <1>0, <2>3 DEF Stream
  <2>5. /\ Live(s) /\ InLine' /\ ~Listening
        /\ \A t \in Streams : t # s => stream[t].worker # "hearing"
        /\ \A t \in Streams : expiry[t].pc # "hearing"
        /\ Len(stream'[s].queue) <= QueueSize
        /\ \A t \in Streams : \A i \in 1 .. Len(stream'[t].queue) :
             /\ Unsaid(stream'[t].queue[i])
             /\ stream'[t].queue[i] <= audio.cut
             /\ \A j \in 1 .. Len(stream'[t].queue) :
                  i < j => stream'[t].queue[i] < stream'[t].queue[j]
    <3>1. stream'[s].worker # "waiting"
      BY <2>4
    <3> QED
      BY <1>0, <1>1, <2>3, <2>4, <3>1, EarliestIsTaken
  <2>6. audio'.cut = audio.cut /\ audio'.open = audio.open /\ audio'.errors > 0
    BY <1>0, <1>4 DEF Audio
  <2>7. HearingFits' /\ RowsFit'
    BY <1>0, <2>1, <2>3, <2>4, <2>5 DEF AudioInv, HearingFits, RowsFit, SpeechOrder
  <2>8. CutFits'
    BY <2>1, <2>5, <2>6 DEF AudioInv, CutFits, Unsaid, NoneLive
  <2>9. SpokenFits'
    BY <2>6 DEF SpokenFits
  <2>10. NothingYet'
    BY <1>4, <2>1 DEF NothingYet, takes_speech
  <2>11. \A t \in Streams : QueueFits(t)'
    BY <2>1, <2>5, <2>6 DEF QueueFits, Unsaid
  <2> QED
    BY <1>0, <2>3, <2>4, <2>5, <2>6, <2>7, <2>8, <2>9, <2>10, <2>11, WorkerMoves
<1> QED
  BY <1>1, <1>3, <1>4 DEF Hear

LEMMA HeardIsNotFailed ==
    ASSUME AudioInv, BeingHeard,
           save_stream_transcript(Len(chunk), TRUE) \/ save_stream_transcript(Len(chunk), FALSE)
    PROVE  ~fail_stream_stt(Len(chunk))
<1>1. chunk[Len(chunk)] \in Chunk /\ Len(chunk) \in 1 .. Len(chunk) /\ chunk \in Seq(Chunk)
  BY AudioTypes DEF AudioInv, BeingHeard
<1>2. ASSUME NEW n \in 1 .. Len(chunk), chunk[n] \in Chunk
      PROVE  [chunk EXCEPT ![n].stt = "SUCCEEDED"] # [chunk EXCEPT ![n].stt = "FAILED"]
  <2>1. /\ [chunk[n] EXCEPT !.stt = "SUCCEEDED"] \in Chunk
        /\ [chunk[n] EXCEPT !.stt = "FAILED"] \in Chunk
        /\ [chunk[n] EXCEPT !.stt = "SUCCEEDED"].stt = "SUCCEEDED"
        /\ [chunk[n] EXCEPT !.stt = "FAILED"].stt = "FAILED"
    BY <1>2 DEF Chunk
  <2>2. \A x \in Chunk : [chunk EXCEPT ![n] = x][n] = x
    BY <1>1, <1>2, ReplacedChunk
  <2>3. "SUCCEEDED" # "FAILED"
    OBVIOUS
  <2> QED
    BY <2>1, <2>2, <2>3
<1>3. [chunk EXCEPT ![Len(chunk)].stt = "SUCCEEDED"] # [chunk EXCEPT ![Len(chunk)].stt = "FAILED"]
  BY <1>1, <1>2
<1> QED
  BY <1>3 DEF save_stream_transcript, fail_stream_stt

LEMMA HeardKeeps ==
    ASSUME AudioInv, TypeOK', NEW s \in Streams, Heard(s)
    PROVE  AudioInv'
<1>0. /\ stream \in [Streams -> Stream] /\ stream[s] \in Stream
      /\ stream[s].worker = "hearing"
      /\ audio \in Audio /\ audio.cut \in Nat /\ audio.errors \in Nat
      /\ Len(chunk) \in Nat /\ UNCHANGED <<recorder, resumable, expiry, reported>>
  BY AudioTypes DEF AudioInv, TypeOK, Heard, ends
<1>1. stream[s].chunk = Len(chunk) /\ BeingHeard
  BY <1>0 DEF AudioInv, HearingFits
<1>2. /\ \/ save_stream_transcript(Len(chunk), TRUE)
         \/ save_stream_transcript(Len(chunk), FALSE)
         \/ fail_stream_stt(Len(chunk))
      /\ \/ ~fail_stream_stt(Len(chunk)) /\ UNCHANGED audio
         \/ UNCHANGED audio
         \/ audio' = [audio EXCEPT !.errors = audio.errors + 1]
  BY <1>1 DEF Heard
<1>3. /\ UNCHANGED meeting /\ Len(chunk') = Len(chunk) /\ RowsFit'
      /\ Len(segment') \in 1 .. MaxSegments \/ segment' = segment
  BY <1>1, <1>2, SpeechIsHeard
<1>4. /\ stream' \in [Streams -> Stream]
      /\ \A t \in Streams : t # s => stream'[t] = stream[t]
      /\ stream'[s].pc = stream[s].pc /\ stream'[s].prev = stream[s].prev
      /\ stream'[s].ended = stream[s].ended /\ stream'[s].worker = "idle"
      /\ stream'[s].queue = stream[s].queue
  <2>1. PICK w, k : /\ w = "idle" /\ k \in SUBSET Nat
                    /\ stream' = [stream EXCEPT
                          ![s] = Row(stream[s], stream[s].pc, stream[s].prev, w, k)]
    BY HeardIs DEF AudioInv
  <2>2. PICK old, row : /\ old = stream[s] /\ old \in Stream
                        /\ row = Row(old, old.pc, old.prev, w, k)
    BY <1>0
  <2>3. /\ row.pc = old.pc /\ row.prev = old.prev /\ row.ended = old.ended
        /\ row.worker = w /\ row.queue = old.queue
    BY <2>2, RowFields
  <2>4. stream' \in [Streams -> Stream]
    BY DEF TypeOK
  <2>5. stream'[s] = row /\ \A t \in Streams : t # s => stream'[t] = stream[t]
    BY <1>0, <2>1, <2>2
  <2> QED
    BY <2>1, <2>2, <2>3, <2>4, <2>5
<1>5. \A t \in Streams : stream'[t].queue = stream[t].queue
  BY <1>4
<1>6. /\ MeetingTypeOK' /\ UNCHANGED meeting /\ Len(chunk') = Len(chunk) /\ RowsFit'
      /\ \A v : heard(v) => heard(v)'
      /\ \A v : ~fail_stream_stt(Len(chunk)) /\ v = chunk[Len(chunk)].utterance
                 => heard(v)'
      /\ \A v \in Nat : Unsaid(v) => Unsaid(v)'
  BY <1>1, <1>2, SpeechIsHeard
<1>7. /\ audio'.cut = audio.cut /\ audio'.open = audio.open
      /\ \/ audio'.errors = audio.errors /\ ~fail_stream_stt(Len(chunk))
         \/ audio'.errors > 0
  <2>1. CASE UNCHANGED audio /\ ~fail_stream_stt(Len(chunk))
    BY <1>0, <2>1
  <2>2. CASE audio' = [audio EXCEPT !.errors = audio.errors + 1]
    BY <1>0, <2>2 DEF Audio
  <2>3. ~fail_stream_stt(Len(chunk)) \/ audio' = [audio EXCEPT !.errors = audio.errors + 1]
    BY <1>1, HeardIsNotFailed DEF Heard
  <2> QED
    BY <1>2, <2>1, <2>2, <2>3
<1>8. /\ \A t \in Streams : t # s => stream[t].worker # "hearing"
      /\ \A t \in Streams : expiry[t].pc # "hearing" /\ Live(s)
  BY <1>0, OneWorksAtATime, WorkersAreLive
<1>9. \A t \in Streams : Live(t)' <=> Live(t)
  BY <1>4, <1>5 DEF Live
<1>10. InLine'
  <2> SUFFICES ASSUME NEW rank \in [Streams -> Nat],
                      LineOrder(rank), LineTip(rank), LineWork(rank)
               PROVE  LineWork(rank)'
    BY <1>0, <1>4, <1>5, LineOfWorkers
  <2> QED
    BY <1>0, <1>4, <1>5, <1>9, WorkStays
<1>11. HearingFits'
  BY <1>0, <1>4, <1>5, <1>8 DEF HearingFits
<1>12. CutFits'
  <2>1. Unsaid(audio.cut + 1) /\ audio.cut + 1 \in Nat
    BY <1>0, <1>8 DEF AudioInv, CutFits, NoneLive
  <2>2. \A v \in Nat : v = audio.cut + 1 => Unsaid(v)'
    BY <1>6, <2>1
  <2>3. Unsaid(audio.cut + 1)'
    BY <1>7, <2>1, <2>2
  <2> QED
    BY <1>7, <2>1, <2>3 DEF CutFits
<1>13. SpokenFits'
  <2> SUFFICES ASSUME NEW v \in spoken, audio'.errors = 0
               PROVE  heard(v)' \/ Queued(v)'
    BY <1>0, <1>7 DEF SpokenFits, spoken
  <2>1. audio.errors = 0 /\ ~fail_stream_stt(Len(chunk))
    BY <1>7
  <2>2. heard(v) \/ Queued(v) \/ chunk[Len(chunk)].utterance = v
    BY <2>1 DEF AudioInv, SpokenFits
  <2>3. Queued(v) => Queued(v)'
    BY <1>5 DEF Queued
  <2> QED
    BY <1>6, <2>1, <2>2, <2>3
<1>14. NothingYet'
  <2>1. chunk' # <<>>
    BY <1>0, <1>1, <1>6 DEF BeingHeard
  <2> QED
    BY <2>1 DEF NothingYet
<1>15. \A t \in Streams : QueueFits(t)'
  <2> TAKE t \in Streams
  <2>1. \A i \in 1 .. Len(stream[t].queue) : stream[t].queue[i] \in Nat
    BY AudioTypes DEF AudioInv
  <2>2. stream'[t].queue = stream[t].queue /\ QueueFits(t)
    BY <1>4, <1>5 DEF AudioInv
  <2> QED
    BY <1>6, <1>7, <2>1, <2>2 DEF QueueFits
<1> QED
  BY <1>0, <1>4, <1>5, <1>6, <1>7, <1>8, <1>10, <1>11, <1>12, <1>13, <1>14, <1>15, WorkerMoves

----------------------------------------------------------------------------
(* Audio *)

LEMMA UnsaidIsLater ==
    ASSUME AudioInv, NEW v \in Nat, NEW u \in Nat, Unsaid(v), v <= u
    PROVE  Unsaid(u)
<1>1. /\ \A c \in 1 .. Len(chunk) : chunk[c].utterance \in Nat
      /\ \A g \in 1 .. Len(segment) : segment[g].utterance \in Nat
  BY AudioTypes DEF AudioInv
<1>2. \A x \in Nat : x < v => x < u
  OBVIOUS
<1> QED
  BY <1>1, <1>2 DEF Unsaid

\* What the detector cuts out of a recording, utterances or nothing, is later
\* than all that was cut before, and goes to the queue of the last connection.
LEMMA SoundComesIn ==
    ASSUME AudioInv, TypeOK', NEW s \in Streams, stream[s].pc \in {"on", "breaking"},
           NEW n, NEW m, NEW q, NEW e \in BOOLEAN, NEW p \in {"on", "breaking", "draining"},
           Sound(stream[s].queue, q, n, m, audio, audio'),
           stream' = [stream EXCEPT ![s] = QueueRow(stream[s], p, e, q)],
           e => p = "draining" /\ ~audio'.open,
           UNCHANGED <<recorder, resumable, expiry, reported, chunk, segment>>,
           UNCHANGED meeting \/ meeting'.status # "RECORDING"
    PROVE  AudioInv'
<1>0. /\ audio.errors \in Nat /\ audio'.errors \in Nat /\ audio'.errors >= audio.errors
      /\ Nobody \notin Streams
      /\ recorder \in Streams \cup {Nobody} /\ resumable \in Streams \cup {Nobody}
      /\ \A t \in Streams :
           /\ Len(stream[t].queue) \in Nat
           /\ \A i \in 1 .. Len(stream[t].queue) : stream[t].queue[i] \in Nat
           /\ stream[t].prev \in Streams \cup {Nobody}
  <2>1. audio' \in Audio
    BY DEF TypeOK
  <2>2. audio'.errors \in Nat
    BY <2>1 DEF Audio
  <2> QED
    BY <2>2, AudioTypes DEF AudioInv, Sound
<1>20. PICK l \in Nat, cut \in Nat, end \in Nat :
          l = Len(stream[s].queue) /\ cut = audio.cut /\ end = audio'.cut
  <2>1. audio.cut \in Nat /\ audio' \in Audio
    BY AudioTypes DEF AudioInv, TypeOK
  <2> QED
    BY <1>0, <2>1 DEF Audio
<1>21. /\ n \in Nat /\ m \in Nat /\ m <= n /\ end = cut + n
       /\ Len(q) = l + m /\ (n > 0 => Len(q) > 0)
       /\ \A i \in 1 .. l : q[i] = stream[s].queue[i]
       /\ \A k \in 1 .. m : q[l + k] = cut + k
       /\ m = n \/ audio'.errors > 0
  BY <1>20 DEF Sound
<1>22. ASSUME NEW i \in 1 .. Len(q)
       PROVE  \/ i \in 1 .. l /\ q[i] = stream[s].queue[i]
              \/ \E k \in 1 .. m : i = l + k /\ q[i] = cut + k
  <2>1. CASE i <= l
    <3>1. i \in 1 .. l
      BY <1>21, <2>1
    <3> QED
      BY <1>21, <3>1
  <2>2. CASE i > l
    <3>1. i - l \in 1 .. m /\ l + (i - l) = i
      BY <1>21, <2>2
    <3> QED
      BY <1>21, <3>1
  <2> QED
    BY <2>1, <2>2, <1>21
<1>23. /\ stream'[s].pc = p /\ stream'[s].ended = e /\ stream'[s].queue = q
       /\ stream'[s].prev = stream[s].prev /\ stream'[s].worker = stream[s].worker
       /\ stream'[s].chunk = stream[s].chunk /\ stream'[s].tasks = stream[s].tasks
       /\ \A t \in Streams : t # s => stream'[t] = stream[t]
  <2>1. PICK old, row : old = stream[s] /\ row = QueueRow(old, p, e, q)
    OBVIOUS
  <2>2. stream \in [Streams -> Stream] /\ old \in Stream
    BY <2>1, AudioTypes DEF AudioInv
  <2>3. /\ row.pc = p /\ row.ended = e /\ row.queue = q /\ row.prev = old.prev
        /\ row.worker = old.worker /\ row.chunk = old.chunk /\ row.tasks = old.tasks
    BY <2>1, <2>2, QueueRowFields
  <2>4. stream'[s] = row /\ \A t \in Streams : t # s => stream'[t] = stream[t]
    BY <2>1, <2>2
  <2> QED
    BY <2>1, <2>3, <2>4
<1>1. /\ recorder = s /\ resumable = Nobody /\ Live(s) /\ ~NoneLive
      /\ stream[s].worker \notin {"none", "stopped"}
      /\ \A t \in Streams : expiry[t].pc = "none"
      /\ \A t \in Streams : t # s =>
             stream[t].pc \notin {"starting", "resuming", "checked", "on", "breaking"}
  <2>1. recorder = s /\ resumable = Nobody
    BY <1>0 DEF AudioInv, RecorderFits
  <2>2. \A t \in Streams : t # s =>
             stream[t].pc \notin {"starting", "resuming", "checked", "on", "breaking"}
    BY <2>1 DEF AudioInv, RecorderFits
  <2>3. Live(s) /\ ~NoneLive
    BY DEF Live, NoneLive
  <2>4. stream[s].worker \notin {"none", "stopped"}
    BY <2>3 DEF AudioInv, WorkerFits
  <2>5. \A t \in Streams : expiry[t].pc = "none"
    BY <1>0, <2>1 DEF AudioInv, ExpiryFits
  <2> QED
    BY <2>1, <2>2, <2>3, <2>4, <2>5
<1>2. \A t \in Streams : (Live(t)' <=> Live(t)) /\ stream'[t].prev = stream[t].prev
  BY <1>23 DEF Live
<1>3. Unsaid(cut + 1)
  BY <1>1, <1>20 DEF AudioInv, CutFits
<1>4. \A k \in 1 .. m : Unsaid(cut + k)
  <2> TAKE k \in 1 .. m
  <2>1. cut + 1 \in Nat /\ cut + k \in Nat /\ cut + 1 <= cut + k
    BY <1>21
  <2> QED
    BY <1>3, <2>1, UnsaidIsLater
<1>5. \A t \in Streams : t # s => stream'[t].queue = stream[t].queue
  BY <1>23
<1>7. \A v : Queued(v) => Queued(v)'
  <2> SUFFICES ASSUME NEW v, Queued(v) PROVE Queued(v)'
    OBVIOUS
  <2>2. PICK t \in Streams : \E i \in 1 .. Len(stream[t].queue) : stream[t].queue[i] = v
    BY DEF Queued
  <2>3. PICK i \in 1 .. Len(stream[t].queue) : stream[t].queue[i] = v
    BY <2>2
  <2>1. i \in 1 .. Len(stream'[t].queue) /\ stream'[t].queue[i] = v
    <3>1. CASE t = s
      <4>1. i \in 1 .. l /\ i \in 1 .. Len(q)
        BY <1>20, <1>21, <2>3, <3>1
      <4> QED
        BY <1>21, <1>23, <2>3, <3>1, <4>1
    <3>2. CASE t # s
      BY <1>5, <2>3, <3>2
    <3> QED
      BY <3>1, <3>2
  <2> QED
    BY <2>1 DEF Queued
<1>8. ASSUME NEW k \in 1 .. m, NEW v, v = cut + k PROVE Queued(v)'
  <2>1. l + k \in 1 .. Len(q) /\ q[l + k] = v
    BY <1>8, <1>21
  <2> QED
    BY <1>23, <2>1 DEF Queued
<1>10. RecorderFits' /\ ExpiryFits'
  <2>1. RecorderFits'
    BY <1>0, <1>1, <1>23 DEF RecorderFits
  <2>2. ExpiryFits'
    BY <1>1 DEF ExpiryFits
  <2> QED
    BY <2>1, <2>2
<1>11. LastIsKnown' /\ InLine'
  <2>1. PICK rank \in [Streams -> Nat] :
            LineOrder(rank) /\ LineTip(rank) /\ LineWork(rank)
    BY DEF AudioInv, InLine
  <2>2. LineOrder(rank)' /\ LineTip(rank)' /\ LastIsKnown'
    BY <1>2, <2>1, LineStays
  <2>3. LineWork(rank)'
    <3> SUFFICES ASSUME NEW t \in Streams, NEW v \in Streams, Live(t), Live(v),
                        rank[t] < rank[v]
                 PROVE  /\ stream'[v].worker # "waiting" => stream'[t].worker = "stopped"
                        /\ \A i \in 1 .. Len(stream'[t].queue), j \in 1 .. Len(stream'[v].queue) :
                               stream'[t].queue[i] < stream'[v].queue[j]
      BY <1>2 DEF LineWork
    <3>1. t # s
      <4>1. rank[v] <= rank[s] /\ rank[v] \in Nat /\ rank[s] \in Nat /\ rank[t] \in Nat
        BY <1>1, <2>1 DEF LineTip
      <4> QED
        BY <4>1
    <3>2. /\ stream[v].worker # "waiting" => stream[t].worker = "stopped"
          /\ \A i \in 1 .. Len(stream[t].queue), j \in 1 .. Len(stream[v].queue) :
                 stream[t].queue[i] < stream[v].queue[j]
      BY <2>1 DEF LineWork
    <3>3. \A t1 \in Streams : stream'[t1].worker = stream[t1].worker
      BY <1>23
    <3>4. stream'[t].queue = stream[t].queue
          /\ \A i \in 1 .. Len(stream[t].queue) : stream[t].queue[i] <= cut
      BY <1>5, <1>20, <3>1 DEF AudioInv, QueueFits
    <3>5. ASSUME NEW i \in 1 .. Len(stream[t].queue), NEW j \in 1 .. Len(stream'[v].queue)
          PROVE  stream[t].queue[i] < stream'[v].queue[j]
      <4>1. CASE j \in 1 .. Len(stream[v].queue) /\ stream'[v].queue[j] = stream[v].queue[j]
        BY <3>2, <4>1
      <4>2. CASE \E k \in 1 .. m : stream'[v].queue[j] = cut + k
        <5>1. PICK k \in 1 .. m : stream'[v].queue[j] = cut + k
          BY <4>2
        <5>2. PICK x \in Nat : x = stream[t].queue[i]
          BY <1>0
        <5>3. x <= cut
          BY <3>4, <5>2
        <5>4. x < cut + k
          BY <5>3, <1>21
        <5> QED
          BY <5>1, <5>2, <5>4
      <4>3. CASE v = s
        <5>1. j \in 1 .. Len(q) /\ stream'[v].queue[j] = q[j]
          BY <1>23, <4>3
        <5> QED
          BY <1>20, <1>22, <4>1, <4>2, <4>3, <5>1
      <4>4. CASE v # s
        BY <1>5, <4>1, <4>4
      <4> QED
        BY <4>3, <4>4
    <3> QED
      BY <3>2, <3>3, <3>4, <3>5
  <2> QED
    BY <2>2, <2>3 DEF InLine
<1>12. \A t \in Streams : EndFits(t)' /\ WorkerFits(t)'
  <2> TAKE t \in Streams
  <2>1. EndFits(t)'
    <3>1. EndFits(t)
      BY DEF AudioInv
    <3>2. CASE t = s
      BY <1>1, <1>23, <3>2 DEF EndFits
    <3>3. CASE t # s
      <4>1. stream[t].ended => stream[t].pc \in {"draining", "done"} /\ stream[t].pc # "draining"
        BY <1>1, <3>1, <3>3 DEF EndFits
      <4> QED
        BY <1>23, <3>3, <4>1 DEF EndFits
    <3> QED
      BY <3>2, <3>3
  <2>2. WorkerFits(t)'
    <3>1. WorkerFits(t) /\ WorkerFits(s)
      BY DEF AudioInv
    <3>2. CASE t = s
      <4>1. Live(s)' /\ Live(s) /\ stream'[s].worker \notin {"none", "stopped"}
        BY <1>1, <1>2, <1>23
      <4>2. stream[s].prev # Nobody => Live(stream[s].prev) \/ stream[stream[s].prev].pc = "done"
        BY <3>1, <4>1 DEF WorkerFits
      <4>3. stream[s].prev # Nobody =>
               Live(stream[s].prev)' \/ stream'[stream[s].prev].pc = "done"
        <5>1. CASE stream[s].prev \in Streams
          <6>1. stream[stream[s].prev].pc = "done" => stream[s].prev # s
            OBVIOUS
          <6> QED
            BY <1>2, <1>23, <4>2, <5>1, <6>1
        <5> QED
          BY <1>0, <5>1
      <4> QED
        BY <1>23, <3>2, <4>1, <4>3 DEF WorkerFits
    <3>3. CASE t # s
      <4>1. stream[t].prev # Nobody /\ stream[stream[t].prev].pc = "done" =>
                stream'[stream[t].prev].pc = "done"
        BY <1>0, <1>23
      <4> QED
        BY <1>0, <1>2, <1>23, <3>1, <3>3, <4>1 DEF WorkerFits
    <3> QED
      BY <3>2, <3>3
  <2> QED
    BY <2>1, <2>2
<1>13. HearingFits' /\ RowsFit'
  BY <1>23 DEF AudioInv, HearingFits, BeingHeard, RowsFit, SpeechOrder
<1>14. \A w : Unsaid(w)' <=> Unsaid(w)
  BY DEF Unsaid
<1>15. CutFits'
  <2>1. end + 1 \in Nat /\ cut + 1 \in Nat /\ cut + 1 <= end + 1
    BY <1>21
  <2>2. Unsaid(end + 1)
    BY <1>3, <2>1, UnsaidIsLater
  <2>3. \A w : w = end + 1 => Unsaid(w)'
    BY <1>14, <2>2
  <2>4. Unsaid(audio.cut + 1)'
    BY <1>20, <2>3
  <2> QED
    BY <2>4 DEF CutFits
<1>16. ASSUME NEW t \in Streams PROVE QueueFits(t)'
  <2>1. \A i \in 1 .. Len(stream[t].queue) :
           /\ Unsaid(stream[t].queue[i]) /\ stream[t].queue[i] <= cut
           /\ stream[t].queue[i] \in Nat
           /\ \A j \in 1 .. Len(stream[t].queue) :
                  i < j => stream[t].queue[i] < stream[t].queue[j]
    BY <1>0, <1>20 DEF AudioInv, QueueFits
  <2>2. PICK r : r = stream'[t].queue
    OBVIOUS
  <2>3. \A i \in 1 .. Len(r) :
           /\ Unsaid(r[i]) /\ r[i] <= end
           /\ \A j \in 1 .. Len(r) : i < j => r[i] < r[j]
    <3>1. CASE t # s
      <4>1. r = stream[t].queue
        BY <1>5, <2>2, <3>1
      <4>2. \A x \in Nat : x <= cut => x <= end
        BY <1>21
      <4> QED
        BY <2>1, <4>1, <4>2
    <3>2. CASE t = s
      <4>0. r = q /\ l = Len(stream[t].queue)
        BY <1>20, <1>23, <2>2, <3>2
      <4> TAKE i \in 1 .. Len(r)
      <4>1. CASE i \in 1 .. l /\ q[i] = stream[s].queue[i]
        <5>1. PICK x \in Nat : x = q[i] /\ Unsaid(x) /\ x <= cut
          BY <2>1, <3>2, <4>0, <4>1
        <5>2. ASSUME NEW j \in 1 .. Len(r), i < j PROVE x < r[j]
          <6>1. CASE j \in 1 .. l /\ q[j] = stream[s].queue[j]
            BY <2>1, <3>2, <4>0, <4>1, <5>1, <5>2, <6>1
          <6>2. CASE \E k \in 1 .. m : q[j] = cut + k
            <7>1. PICK k \in 1 .. m : q[j] = cut + k
              BY <6>2
            <7>2. x < cut + k
              BY <1>21, <5>1
            <7> QED
              BY <4>0, <7>1, <7>2
          <6> QED
            BY <1>22, <4>0, <6>1, <6>2
        <5>3. x <= end
          BY <1>21, <5>1
        <5> QED
          BY <4>0, <5>1, <5>2, <5>3
      <4>2. CASE \E k \in 1 .. m : i = l + k /\ q[i] = cut + k
        <5>1. PICK k \in 1 .. m : i = l + k /\ q[i] = cut + k
          BY <4>2
        <5>2. Unsaid(cut + k) /\ cut + k <= end
          <6>1. Unsaid(cut + k)
            BY <1>4, <5>1
          <6>2. cut + k <= end
            BY <1>21
          <6> QED
            BY <6>1, <6>2
        <5>3. ASSUME NEW j \in 1 .. Len(r), i < j PROVE cut + k < r[j]
          <6>1. CASE j \in 1 .. l
            BY <5>1, <5>3, <6>1, <1>21
          <6>2. CASE \E h \in 1 .. m : j = l + h /\ q[j] = cut + h
            <7>1. PICK h \in 1 .. m : j = l + h /\ q[j] = cut + h
              BY <6>2
            <7>2. cut + k < cut + h
              BY <1>21, <5>1, <5>3, <7>1
            <7> QED
              BY <4>0, <7>1, <7>2
          <6> QED
            BY <1>22, <4>0, <6>1, <6>2
        <5> QED
          BY <4>0, <5>1, <5>2, <5>3
      <4> QED
        BY <1>22, <4>0, <4>1, <4>2
    <3> QED
      BY <3>1, <3>2
  <2>4. \A i \in 1 .. Len(r) : Unsaid(r[i])'
    <3>1. \A i \in 1 .. Len(r) : \A w : w = r[i] => Unsaid(w)'
      BY <1>14, <2>3
    <3> QED
      BY <3>1
  <2> QED
    BY <1>20, <2>2, <2>3, <2>4 DEF QueueFits
<1>17. SpokenFits'
  <2> SUFFICES ASSUME NEW v \in spoken', audio'.errors = 0
               PROVE  heard(v)' \/ Queued(v)' \/ (Listening' /\ chunk[Len(chunk)].utterance = v)
    BY <1>0 DEF SpokenFits
  <2>1. audio.errors = 0 /\ m = n
    BY <1>0, <1>21
  <2>2. heard(v)' <=> heard(v)
    BY DEF heard
  <2>3. Listening' <=> Listening
    BY <1>23 DEF Listening
  <2>4. CASE v \in spoken
    BY <1>7, <2>1, <2>2, <2>3, <2>4 DEF AudioInv, SpokenFits
  <2>5. CASE v \notin spoken
    <3>1. v \in 1 .. end /\ v \notin 1 .. cut
      BY <1>20, <2>5 DEF spoken
    <3>2. v - cut \in 1 .. m /\ v = cut + (v - cut)
      BY <1>21, <2>1, <3>1
    <3> QED
      BY <1>8, <3>2
  <2> QED
    BY <2>4, <2>5
<1>18. NothingYet'
  <2> SUFFICES ASSUME chunk = <<>>, meeting'.status = "RECORDING", spoken' # {}
               PROVE  \E t \in Streams : stream'[t].queue # <<>>
    BY DEF NothingYet
  <2>1. CASE n = 0
    <3>1. end = cut /\ m = 0
      BY <1>21, <2>1
    <3>2. \E t \in Streams : stream[t].queue # <<>>
      BY <1>20, <3>1 DEF AudioInv, NothingYet, spoken
    <3>3. PICK t \in Streams : stream[t].queue # <<>>
      BY <3>2
    <3>4. stream'[t].queue # <<>>
      <4>1. CASE t = s
        <5>1. stream[s].queue \in Seq(Utterances) /\ q \in Seq(Utterances)
          BY AudioTypes DEF AudioInv, Sound
        <5>2. l > 0
          BY <1>20, <3>3, <4>1, <5>1
        <5>3. Len(q) > 0
          BY <1>21, <5>2
        <5> QED
          BY <1>23, <4>1, <5>1, <5>3
      <4>2. CASE t # s
        BY <1>5, <3>3, <4>2
      <4> QED
        BY <4>1, <4>2
    <3> QED
      BY <3>4
  <2>2. CASE n # 0
    <3>1. Len(q) > 0
      BY <1>21, <2>2
    <3>2. q # <<>>
      BY <3>1
    <3> QED
      BY <1>23, <3>2
  <2> QED
    BY <2>1, <2>2
<1>19. ReportFits'
  <2>1. reported # "COMPLETED"
    BY <1>1 DEF AudioInv, ReportFits
  <2> QED
    BY <2>1 DEF ReportFits
<1> QED
  BY <1>10, <1>11, <1>12, <1>13, <1>15, <1>16, <1>17, <1>18, <1>19 DEF AudioInv

LEMMA FeedKeeps ==
    ASSUME AudioInv, TypeOK', NEW s \in Streams, Feed(s) \/ Break(s) \/ End(s)
    PROVE  AudioInv'
<1>0. TypeOK /\ stream[s].pc \in {"on", "breaking"} /\ UNCHANGED <<expiry, reported>>
  BY DEF AudioInv, Feed, Break, End, ends
<1>1. PICK x \in BOOLEAN : x = stream[s].ended
  BY <1>0, AudioTypes DEF Stream
<1>2. ~x
  BY <1>0, <1>1 DEF AudioInv, EndFits
<1>3. CASE Feed(s)
  <2>1. PICK n, m, q : \E p \in {"on", "breaking"} :
               /\ Sound(stream[s].queue, q, n, m, audio, audio')
               /\ stream' = [stream EXCEPT ![s] = QueueRow(stream[s], p, stream[s].ended, q)]
    BY <1>0, <1>3, FeedIs
  <2>2. UNCHANGED <<meeting, chunk, segment, recorder, resumable>>
    BY <1>3 DEF Feed, rows, ends
  <2>3. PICK p \in {"on", "breaking", "draining"} :
               stream' = [stream EXCEPT ![s] = QueueRow(stream[s], p, x, q)]
    BY <1>1, <2>1
  <2> QED
    BY <1>0, <1>2, <2>1, <2>2, <2>3, SoundComesIn
<1>4. CASE Break(s)
  <2>0. UNCHANGED <<meeting, chunk, segment>>
    BY <1>4 DEF Break, rows
  <2>1. CASE /\ resumable' = s /\ recorder' = Nobody /\ UNCHANGED audio
             /\ stream' = [stream EXCEPT ![s].pc = "draining"]
    BY <1>0, <2>0, <2>1, LostKeeps DEF rows
  <2>2. CASE UNCHANGED <<resumable, recorder>> /\
              \E n, m, q, p :
                     /\ p = "draining" /\ Sound(stream[s].queue, q, n, m, audio, audio')
                     /\ stream' = [stream EXCEPT
                            ![s] = QueueRow(stream[s], p, stream[s].ended, q)]
    <3>1. PICK n, m, q, p :
                     /\ p = "draining" /\ Sound(stream[s].queue, q, n, m, audio, audio')
                     /\ stream' = [stream EXCEPT
                            ![s] = QueueRow(stream[s], p, stream[s].ended, q)]
      BY <2>2
    <3>2. p \in {"on", "breaking", "draining"}
          /\ stream' = [stream EXCEPT ![s] = QueueRow(stream[s], p, x, q)]
      BY <1>1, <3>1
    <3> QED
      BY <1>0, <1>2, <2>0, <2>2, <3>1, <3>2, SoundComesIn
  <2> QED
    BY <1>0, <1>4, <2>1, <2>2, BreakIs
<1>5. CASE End(s)
  <2>1. PICK n, m, q, p, e :
               /\ Sound(stream[s].queue, q, n, m, audio, audio')
               /\ stream' = [stream EXCEPT ![s] = QueueRow(stream[s], p, e, q)]
               /\ \/ /\ p = "draining" /\ e = TRUE /\ set_stream_status("FINALIZING")
                     /\ ~audio'.open
                  \/ p = "breaking" /\ e = stream[s].ended /\ UNCHANGED rows
    BY <1>0, <1>5, EndIs
  <2>2. /\ UNCHANGED <<chunk, segment, recorder, resumable>>
        /\ UNCHANGED meeting \/ meeting'.status # "RECORDING"
    <3>1. UNCHANGED <<recorder, resumable>> /\ meeting \in MeetingRow
      BY <1>0, <1>5, AudioTypes DEF End, ends
    <3> QED
      BY <2>1, <3>1 DEF rows, set_stream_status, MeetingRow
  <2>3. /\ e \in BOOLEAN /\ p \in {"on", "breaking", "draining"}
        /\ e => p = "draining" /\ ~audio'.open
    BY <1>1, <1>2, <2>1
  <2> QED
    BY <1>0, <2>1, <2>2, <2>3, SoundComesIn
<1> QED
  BY <1>3, <1>4, <1>5

\* A message that is not allowed: it is counted, and the connection breaks.
LEMMA ProtocolErrorKeeps ==
    ASSUME AudioInv, TypeOK', NEW s \in Streams, ProtocolError(s)
    PROVE  AudioInv'
<1>0. TypeOK /\ stream[s].pc = "on"
      /\ UNCHANGED <<meeting, chunk, segment, recorder, resumable, expiry, reported>>
  BY DEF AudioInv, ProtocolError, rows, ends
<1>1. PICK x \in BOOLEAN, p \in {"on", "breaking", "draining"} :
          x = stream[s].ended /\ p = "breaking"
  BY <1>0, AudioTypes DEF Stream
<1>2. ~x
  BY <1>0, <1>1 DEF AudioInv, EndFits
<1>3. PICK old \in Stream, q \in Seq(Utterances) : old = stream[s] /\ q = old.queue
  BY <1>0, AudioTypes
<1>4. stream' = [stream EXCEPT ![s] = QueueRow(old, p, x, q)]
  <2>1. stream' = [stream EXCEPT ![s] = [old EXCEPT !.pc = p]]
    BY <1>0, <1>1, <1>3, AudioTypes DEF ProtocolError
  <2>2. [old EXCEPT !.pc = p] = QueueRow(old, p, old.ended, old.queue)
    BY RowOfStop
  <2> QED
    BY <1>1, <1>3, <2>1, <2>2
<1>5. PICK cut \in Nat, errors \in Nat : cut = audio.cut /\ errors = audio.errors
  BY <1>0, AudioTypes
<1>6. audio' \in Audio /\ audio'.cut = cut + 0 /\ audio'.errors = errors + 1
  <2>1. audio \in Audio /\ audio' = [audio EXCEPT !.errors = errors + 1]
    BY <1>0, <1>5, AudioTypes DEF ProtocolError
  <2> QED
    BY <1>5, <2>1 DEF Audio
<1>7. PICK size \in Nat, l \in Nat : size = QueueSize /\ l = Len(q) /\ l <= size
  BY <1>0, <1>3, AudioTypes
<1>8. Sound(q, q, 0, 0, audio, audio')
  BY <1>5, <1>6, <1>7 DEF Sound
<1> QED
  BY <1>0, <1>1, <1>2, <1>3, <1>4, <1>8, SoundComesIn


----------------------------------------------------------------------------
(* The end of a connection *)

\* The connection that has been drained is the first of the line.
LEMMA FirstIsDrained ==
    ASSUME AudioInv, NEW s \in Streams, stream[s].pc = "draining", drained(s)
    PROVE  /\ Live(s) /\ stream[s].worker = "stopped"
           /\ stream[s].queue = <<>> /\ stream[s].tasks = {}
           /\ \A rank \in [Streams -> Nat] : LineOrder(rank) =>
                  \A t \in Streams : Live(t) => rank[s] <= rank[t]
<1>1. Live(s)
  BY DEF Live
<1>2. stream[s].tasks = {} /\ stream[s].worker \in {"none", "stopped"}
  BY DEF drained
<1>3. stream[s].worker = "stopped" /\ stream[s].queue = <<>>
  BY <1>1, <1>2 DEF AudioInv, WorkerFits
<1>4. stream[s].prev # Nobody => ~Live(stream[s].prev)
  BY DEF drained, Live
<1> QED
  BY <1>1, <1>2, <1>3, <1>4 DEF LineOrder

\* When the drained connection records or can be resumed no other is live.
LEMMA LastIsDrained ==
    ASSUME AudioInv, NEW s \in Streams, stream[s].pc = "draining", drained(s),
           s = recorder \/ s = resumable
    PROVE  \A t \in Streams : Live(t) => t = s
<1> SUFFICES ASSUME NEW t \in Streams, Live(t), t # s PROVE FALSE
  OBVIOUS
<1>1. PICK rank \in [Streams -> Nat] : LineOrder(rank) /\ LineTip(rank)
  BY DEF AudioInv, InLine
<1>2. Live(s) /\ rank[s] <= rank[t]
  BY <1>1, FirstIsDrained
<1>3. rank[t] <= rank[s] /\ rank[s] # rank[t] /\ rank[s] \in Nat /\ rank[t] \in Nat
  BY <1>1, <1>2 DEF LineTip, LineOrder
<1> QED
  BY <1>2, <1>3

LEMMA LineShrinks ==
    ASSUME AudioInv, NEW s \in Streams, stream[s].pc = "draining", drained(s),
           \A t \in Streams : t # s => stream'[t] = stream[t],
           stream'[s].pc = "done",
           recorder' = IF recorder = s THEN Nobody ELSE recorder,
           UNCHANGED resumable
    PROVE  LastIsKnown' /\ InLine'
<1>0. /\ Nobody \notin Streams
      /\ \A t \in Streams : stream[t].prev \in Streams \cup {Nobody}
  BY AudioTypes DEF AudioInv
<1>1. PICK rank \in [Streams -> Nat] : LineOrder(rank) /\ LineTip(rank) /\ LineWork(rank)
  BY DEF AudioInv, InLine
<1>2. \A t \in Streams : Live(t)' <=> Live(t) /\ t # s
  BY DEF Live
<1>3. /\ Live(s) /\ stream[s].worker = "stopped"
      /\ \A t \in Streams : Live(t) => rank[s] <= rank[t]
  BY <1>1, FirstIsDrained
<1>4. \A t \in Streams : Live(t) /\ t # s => rank[s] < rank[t]
  <2> TAKE t \in Streams
  <2> HAVE Live(t) /\ t # s
  <2>1. rank[s] <= rank[t] /\ rank[s] # rank[t]
    BY <1>1, <1>3 DEF LineOrder
  <2>2. rank[s] \in Nat /\ rank[t] \in Nat
    OBVIOUS
  <2> QED
    BY <2>1, <2>2
<1>5. LineOrder(rank)'
  <2> SUFFICES ASSUME NEW t \in Streams, NEW v \in Streams, Live(t), Live(v), t # s, v # s,
                      NEW before, before = stream[v].prev
               PROVE  /\ t # v => rank[t] # rank[v]
                      /\ before = Nobody => rank[v] <= rank[t]
                      /\ before # Nobody =>
                           IF Live(before)'
                           THEN /\ rank[before] < rank[v]
                                /\ rank[t] < rank[v] => rank[t] <= rank[before]
                           ELSE rank[v] <= rank[t]
    <3>1. \A t \in Streams : t # s => stream'[t].prev = stream[t].prev
      OBVIOUS
    <3> QED
      BY <1>2, <3>1 DEF LineOrder
  <2>1. /\ t # v => rank[t] # rank[v]
        /\ before = Nobody => rank[v] <= rank[t]
        /\ before # Nobody =>
             IF Live(before)
             THEN /\ rank[before] < rank[v]
                  /\ rank[t] < rank[v] => rank[t] <= rank[before]
             ELSE rank[v] <= rank[t]
    BY <1>1 DEF LineOrder
  <2>2. before # Nobody => before \in Streams /\ (Live(before)' <=> Live(before) /\ before # s)
    BY <1>0, <1>2
  <2>3. CASE before = s
    <3>1. rank[t] < rank[v] => rank[t] <= rank[s]
      BY <1>0, <1>3, <2>1, <2>3
    <3>2. rank[s] < rank[t] /\ rank[s] \in Nat /\ rank[t] \in Nat /\ rank[v] \in Nat
      BY <1>4
    <3>3. rank[v] <= rank[t]
      BY <3>1, <3>2
    <3> QED
      BY <1>0, <2>1, <2>2, <2>3, <3>3
  <2>4. CASE before # s
    BY <2>1, <2>2, <2>4
  <2> QED
    BY <2>3, <2>4
<1>6. LineTip(rank)'
  <2>1. \A t \in Streams : t # s /\ (t = recorder' \/ t = resumable')
                               => t = recorder \/ t = resumable
    BY <1>0
  <2> QED
    BY <1>1, <1>2, <2>1 DEF LineTip
<1>7. LineWork(rank)'
  <2> SUFFICES ASSUME NEW t \in Streams, NEW v \in Streams, Live(t), Live(v), t # s, v # s,
                      rank[t] < rank[v]
               PROVE  /\ stream'[v].worker # "waiting" => stream'[t].worker = "stopped"
                      /\ \A i \in 1 .. Len(stream'[t].queue), j \in 1 .. Len(stream'[v].queue) :
                             stream'[t].queue[i] < stream'[v].queue[j]
    BY <1>2 DEF LineWork
  <2>1. /\ stream[v].worker # "waiting" => stream[t].worker = "stopped"
        /\ \A i \in 1 .. Len(stream[t].queue), j \in 1 .. Len(stream[v].queue) :
               stream[t].queue[i] < stream[v].queue[j]
    BY <1>1 DEF LineWork
  <2>2. stream'[t] = stream[t] /\ stream'[v] = stream[v]
    OBVIOUS
  <2> QED
    BY <2>1, <2>2
<1>8. LastIsKnown'
  <2> SUFFICES ASSUME NEW t \in Streams, Live(t), t # s
               PROVE  \E v \in Streams : Live(v)' /\ (v = recorder' \/ v = resumable')
    BY <1>2 DEF LastIsKnown
  <2>1. PICK v \in Streams : Live(v) /\ (v = recorder \/ v = resumable)
    BY DEF AudioInv, LastIsKnown
  <2>2. v # s
    BY <2>1, LastIsDrained
  <2>3. v = recorder' \/ v = resumable'
    BY <2>1, <2>2
  <2> QED
    BY <1>2, <2>1, <2>2, <2>3
<1> QED
  BY <1>1, <1>5, <1>6, <1>7, <1>8 DEF InLine

LEMMA FinishKeeps ==
    ASSUME AudioInv, TypeOK', NEW s \in Streams, Finish(s)
    PROVE  AudioInv'
<1>0. /\ stream \in [Streams -> Stream] /\ stream[s] \in Stream /\ Nobody \notin Streams
      /\ meeting \in MeetingRow /\ stream[s].pc = "draining" /\ drained(s)
      /\ stream' = [stream EXCEPT ![s].pc = "done"]
      /\ recorder' = IF recorder = s THEN Nobody ELSE recorder
      /\ recorder \in Streams \cup {Nobody}
      /\ UNCHANGED <<resumable, expiry, audio, chunk, segment>>
      /\ \A t \in Streams : stream[t].prev \in Streams \cup {Nobody}
  BY AudioTypes DEF AudioInv, TypeOK, MeetingTypeOK, Finish, set_stream_status, rows
<1>1. /\ meeting' \in MeetingRow /\ (UNCHANGED meeting \/ meeting'.status # "RECORDING")
      /\ \/ UNCHANGED reported /\ ~stream[s].ended
         \/ /\ stream[s].ended /\ reported' \in {"COMPLETED", "FAILED"}
            /\ reported' = "COMPLETED" => audio.errors = 0
            /\ meeting'.status = reported'
  <2>1. CASE ~stream[s].ended /\ UNCHANGED <<rows, reported>>
    BY <1>0, <2>1 DEF rows
  <2>2. CASE /\ stream[s].ended
             /\ meeting' = [meeting EXCEPT !.status =
                    IF audio.errors = 0 THEN "COMPLETED" ELSE "FAILED"]
             /\ reported' = IF audio.errors = 0 THEN "COMPLETED" ELSE "FAILED"
    BY <1>0, <2>2 DEF MeetingRow
  <2> QED
    BY <2>1, <2>2 DEF Finish, set_stream_status
<1>2. /\ stream' \in [Streams -> Stream] /\ stream'[s] = [stream[s] EXCEPT !.pc = "done"]
      /\ \A t \in Streams : t # s => stream'[t] = stream[t]
  <2>1. [stream[s] EXCEPT !.pc = "done"] \in Stream
    BY <1>0 DEF Stream
  <2> QED
    BY <1>0, <2>1
<1>3. /\ \A t \in Streams :
           /\ stream'[t].queue = stream[t].queue /\ stream'[t].worker = stream[t].worker
           /\ stream'[t].chunk = stream[t].chunk /\ stream'[t].prev = stream[t].prev
           /\ stream'[t].tasks = stream[t].tasks /\ stream'[t].ended = stream[t].ended
           /\ t # s => stream'[t].pc = stream[t].pc
      /\ stream'[s].pc = "done"
  BY <1>0, <1>2 DEF Stream
<1>4. \A t \in Streams : Live(t)' <=> Live(t) /\ t # s
  BY <1>3 DEF Live
<1>5. /\ Live(s) /\ stream[s].worker = "stopped"
      /\ stream[s].queue = <<>> /\ stream[s].tasks = {}
  BY <1>0, FirstIsDrained
<1>6. resumable \in Streams \cup {Nobody}
  BY AudioTypes DEF AudioInv
<1>7. RecorderFits' /\ ExpiryFits'
  <2>1. RecorderFits /\ ExpiryFits /\ ~NoneLive
    BY <1>5 DEF AudioInv, NoneLive
  <2>2. RecorderFits'
    <3>1. NoneLive => NoneLive'
      BY <1>4 DEF NoneLive
    <3>2. \A t \in Streams : t # s => stream'[t].pc = stream[t].pc /\ stream'[t].prev = stream[t].prev
      BY <1>3
    <3> QED
      BY <1>0, <1>3, <1>6, <2>1, <3>1, <3>2 DEF RecorderFits
  <2>3. ExpiryFits'
    BY <1>0, <1>3, <1>6, <2>1 DEF ExpiryFits
  <2> QED
    BY <2>2, <2>3
<1>8. LastIsKnown' /\ InLine'
  BY <1>0, <1>2, <1>3, LineShrinks
<1>9. \A t \in Streams : EndFits(t)' /\ WorkerFits(t)'
  <2> TAKE t \in Streams
  <2>1. EndFits(t) /\ WorkerFits(t)
    BY DEF AudioInv
  <2>2. EndFits(t)'
    BY <1>0, <1>3, <2>1 DEF EndFits
  <2>3. WorkerFits(t)'
    <3>1. CASE t = s
      BY <1>3, <1>4, <1>5, <3>1 DEF WorkerFits
    <3>2. CASE t # s
      <4>1. stream[t].prev # Nobody =>
                stream[t].prev \in Streams /\ (stream[t].prev # s => stream'[stream[t].prev] = stream[stream[t].prev])
        BY <1>0, <1>2
      <4> QED
        BY <1>3, <1>4, <2>1, <3>2, <4>1 DEF WorkerFits
    <3> QED
      BY <3>1, <3>2
  <2> QED
    BY <2>2, <2>3
<1>10. /\ HearingFits' /\ RowsFit' /\ \A t \in Streams : QueueFits(t)'
  <2>1. HearingFits'
    BY <1>0, <1>3 DEF AudioInv, HearingFits, BeingHeard
  <2>2. RowsFit'
    BY <1>0 DEF AudioInv, RowsFit, SpeechOrder
  <2>3. \A t \in Streams : QueueFits(t)'
    BY <1>0, <1>3 DEF AudioInv, QueueFits, Unsaid
  <2> QED
    BY <2>1, <2>2, <2>3
<1>11. CutFits'
  BY <1>0, <1>5 DEF AudioInv, CutFits, NoneLive, Unsaid
<1>12. \A v : heard(v)' <=> heard(v)
  BY <1>0 DEF heard
<1>13. SpokenFits'
  <2>1. \A v : Queued(v)' <=> Queued(v)
    BY <1>3 DEF Queued
  <2>2. Listening' <=> Listening
    BY <1>0, <1>3 DEF Listening
  <2> QED
    BY <1>0, <1>12, <2>1, <2>2 DEF AudioInv, SpokenFits, spoken
<1>14. NothingYet'
  BY <1>0, <1>1, <1>3 DEF AudioInv, NothingYet, spoken
<1>15. ReportFits'
  <2> SUFFICES ASSUME reported' = "COMPLETED"
               PROVE  /\ meeting'.status # "RECORDING"
                      /\ resumable = Nobody /\ NoneLive'
                      /\ ~audio.open
                      /\ \A v \in spoken : heard(v)
    BY <1>0, <1>12 DEF ReportFits, spoken
  <2>1. stream[s].ended /\ audio.errors = 0 /\ meeting'.status = "COMPLETED"
    <3>1. reported # "COMPLETED"
      BY <1>5 DEF AudioInv, ReportFits, NoneLive
    <3> QED
      BY <1>1, <3>1
  <2>2. recorder = s /\ ~audio.open
    BY <1>0, <2>1 DEF AudioInv, EndFits
  <2>3. resumable = Nobody /\ \A t \in Streams : expiry[t].pc = "none"
    BY <1>0, <1>6, <2>2 DEF AudioInv, RecorderFits, ExpiryFits
  <2>4. \A t \in Streams : Live(t) => t = s
    BY <1>0, <2>2, LastIsDrained
  <2>5. NoneLive'
    BY <1>4, <2>4 DEF NoneLive
  <2>6. \A t \in Streams : stream[t].queue = <<>> /\ stream[t].worker # "hearing"
    BY <1>5, <2>4 DEF AudioInv, WorkerFits
  <2>7. ~Listening /\ \A v : ~Queued(v)
    BY <2>3, <2>6 DEF Listening, Queued
  <2>8. \A v \in spoken : heard(v)
    BY <2>1, <2>7 DEF AudioInv, SpokenFits
  <2> QED
    BY <2>1, <2>2, <2>3, <2>5, <2>8
<1> QED
  BY <1>7, <1>8, <1>9, <1>10, <1>11, <1>13, <1>14, <1>15 DEF AudioInv

----------------------------------------------------------------------------
(* The expiry of the resume window *)

\* The expiry works when no connection does.

----------------------------------------------------------------------------
(* The expiry of the resume window *)

\* The expiry works when no connection does.
LEMMA NobodyElseIsLeft ==
    ASSUME AudioInv, NEW s \in Streams, expiry[s].pc # "none", stream[s].pc = "done"
    PROVE  /\ resumable = s /\ NoneLive
           /\ \A t \in Streams : t # s => expiry[t].pc = "none"
           /\ \A t \in Streams : /\ stream[t].queue = <<>> /\ stream[t].tasks = {}
                                 /\ stream[t].worker # "hearing"
           /\ \A v : ~Queued(v)
           /\ Unsaid(audio.cut + 1)
           /\ reported # "COMPLETED"
<1>1. /\ resumable = s /\ Nobody \notin Streams
      /\ \A t \in Streams : t # s => expiry[t].pc = "none"
  BY AudioTypes DEF AudioInv, ExpiryFits
<1>2. NoneLive
  <2>1. ~Live(s)
    BY DEF Live
  <2>2. recorder \in Streams => ~Live(recorder)
    BY <1>1 DEF AudioInv, RecorderFits, Live
  <2> QED
    BY <1>1, <2>1, <2>2 DEF AudioInv, LastIsKnown, NoneLive
<1>3. \A t \in Streams : /\ stream[t].queue = <<>> /\ stream[t].tasks = {}
                         /\ stream[t].worker # "hearing"
  BY <1>2 DEF AudioInv, WorkerFits, NoneLive
<1>4. \A v : ~Queued(v)
  BY <1>3 DEF Queued
<1>5. Unsaid(audio.cut + 1) /\ reported # "COMPLETED"
  BY <1>1 DEF AudioInv, CutFits, ReportFits
<1> QED
  BY <1>1, <1>2, <1>3, <1>4, <1>5

LEMMA ExpiryMoves ==
    ASSUME AudioInv, TypeOK', NEW s \in Streams, expiry[s].pc # "none",
           stream[s].pc = "done",
           UNCHANGED <<stream, recorder, resumable, reported, meeting>>,
           NEW e \in Expiry, e.pc # "none", expiry' = [expiry EXCEPT ![s] = e],
           HearingFits', RowsFit', Unsaid(audio.cut + 1)', SpokenFits', NothingYet'
    PROVE  AudioInv'
<1>1. /\ resumable = s /\ NoneLive
      /\ \A t \in Streams : /\ stream[t].queue = <<>> /\ stream[t].worker # "hearing"
      /\ reported # "COMPLETED"
  BY NobodyElseIsLeft
<1>2. /\ expiry'[s] = e /\ \A t \in Streams : t # s => expiry'[t] = expiry[t]
  BY ExpiryField, AudioTypes DEF AudioInv
<1>3. RecorderFits' /\ LastIsKnown' /\ InLine'
  <2>1. RecorderFits'
    BY DEF AudioInv, RecorderFits, NoneLive, Live
  <2>2. LastIsKnown'
    BY DEF AudioInv, LastIsKnown, Live
  <2>3. InLine'
    BY DEF AudioInv, InLine, LineOrder, LineTip, LineWork, Live
  <2> QED
    BY <2>1, <2>2, <2>3
<1>4. ExpiryFits'
  BY <1>1, <1>2 DEF AudioInv, ExpiryFits
<1>5. \A t \in Streams : EndFits(t)' /\ WorkerFits(t)' /\ QueueFits(t)'
  <2> TAKE t \in Streams
  <2>1. EndFits(t)'
    BY <1>1 DEF AudioInv, EndFits, NoneLive, Live
  <2>2. WorkerFits(t)'
    BY DEF AudioInv, WorkerFits, Live
  <2>3. QueueFits(t)'
    BY <1>1 DEF QueueFits
  <2> QED
    BY <2>1, <2>2, <2>3
<1>6. CutFits'
  BY DEF CutFits
<1>7. ReportFits'
  BY <1>1 DEF ReportFits
<1> QED
  BY <1>3, <1>4, <1>5, <1>6, <1>7 DEF AudioInv

LEMMA ExpireTailKeeps ==
    ASSUME AudioInv, TypeOK', NEW s \in Streams, ExpireTail(s)
    PROVE  AudioInv'
<1>0. /\ TypeOK /\ audio \in Audio /\ audio.cut \in Nat /\ audio.errors \in Nat
      /\ Len(chunk) \in Nat
      /\ expiry[s].pc = "waiting" /\ stream[s].pc = "done"
      /\ UNCHANGED <<stream, recorder, resumable, reported>>
  BY AudioTypes DEF AudioInv, ExpireTail
<1>2. /\ \A t \in Streams : /\ stream[t].queue = <<>> /\ stream[t].worker # "hearing"
      /\ \A t \in Streams : t # s => expiry[t].pc = "none"
      /\ \A v : ~Queued(v)
      /\ Unsaid(audio.cut + 1)
  BY <1>0, NobodyElseIsLeft
<1>3. PICK u \in Utterances : u = audio.cut + 1
  BY <1>0 DEF Utterances
<1>4. /\ u \in Nat /\ u > 0 /\ \A v \in spoken : v \in Nat
      /\ flushed(u) \in Audio /\ flushed(u).errors = audio.errors
      /\ flushed(u).cut = u
  <2>1. u \in flush
    BY <1>3 DEF ExpireTail
  <2>2. u \in Nat /\ u > 0
    BY DEF Utterances
  <2>3. flushed(u).cut = u
    BY <1>0, <2>2 DEF flushed, Audio
  <2> QED
    BY <1>0, <2>1, <2>2, <2>3, FlushedIs, AudioTypes
<1>5. Unsaid(u) /\ Unsaid(u + 1)
  <2>1. u + 1 \in Nat /\ u <= u + 1
    BY <1>4
  <2> QED
    BY <1>2, <1>3, <1>4, <2>1, UnsaidIsLater
<1>6. ~Listening
  <2>1. \A t \in Streams : expiry[t].pc # "hearing"
    BY <1>0, <1>2
  <2> QED
    BY <1>2, <2>1 DEF Listening
<1>9. audio'.cut = u => \A v \in spoken' : v \in spoken \/ v = u
  BY <1>0, <1>3 DEF spoken
<1>7. CASE begin_stream_utterance(u) /\ audio' = flushed(u)
           /\ expiry' = [expiry EXCEPT ![s] = [pc |-> "hearing", chunk |-> Len(chunk')]]
  <2>1. /\ Len(chunk') = Len(chunk) + 1
        /\ BeingHeard' /\ RowsFit'
        /\ chunk'[Len(chunk')].utterance = u
        /\ \A v : heard(v) => heard(v)'
        /\ \A v \in Nat : u < v /\ Unsaid(v) => Unsaid(v)'
    BY <1>5, <1>7, SpeechIsTaken
  <2>2. PICK e \in Expiry : /\ e = [pc |-> "hearing", chunk |-> Len(chunk')]
                            /\ e.pc = "hearing" /\ e.chunk = Len(chunk')
    <3>1. Len(chunk') \in Nat
      BY <1>0, <2>1
    <3>2. PICK e \in Expiry : e = [pc |-> "hearing", chunk |-> Len(chunk')]
      BY <3>1 DEF Expiry
    <3> QED
      BY <3>2
  <2>3. /\ expiry' = [expiry EXCEPT ![s] = e]
        /\ expiry'[s] = e /\ \A t \in Streams : t # s => expiry'[t] = expiry[t]
    BY <1>0, <1>7, <2>2, ExpiryField, AudioTypes
  <2>4. audio'.cut = u /\ audio'.errors = audio.errors
    BY <1>4, <1>7
  <2>5. Unsaid(audio.cut + 1)'
    <3>1. \A v \in Nat : v = u + 1 => Unsaid(v)'
      BY <1>4, <1>5, <2>1
    <3>2. u + 1 \in Nat /\ audio'.cut + 1 = u + 1
      BY <1>4, <2>4
    <3> QED
      BY <3>1, <3>2
  <2>6. HearingFits'
    <3>1. \A t \in Streams : expiry'[t].pc = "hearing" => expiry'[t].chunk = Len(chunk')
      BY <1>2, <2>2, <2>3
    <3> QED
      BY <1>0, <1>2, <2>1, <3>1 DEF HearingFits
  <2>7. SpokenFits'
    <3>0. Listening'
      BY <2>2, <2>3 DEF Listening
    <3> SUFFICES ASSUME NEW v \in spoken', audio.errors = 0
                 PROVE  heard(v)' \/ v = u
      BY <1>0, <2>1, <2>4, <3>0 DEF SpokenFits
    <3>1. v \in spoken => heard(v)
      BY <1>2, <1>6 DEF AudioInv, SpokenFits
    <3> QED
      BY <1>9, <2>1, <2>4, <3>1
  <2>8. NothingYet'
    <3>1. chunk' # <<>>
      BY <1>0, <2>1
    <3> QED
      BY <3>1 DEF NothingYet
  <2>9. UNCHANGED meeting
    BY <1>7 DEF begin_stream_utterance
  <2> QED
    BY <1>0, <2>1, <2>2, <2>3, <2>5, <2>6, <2>7, <2>8, <2>9, ExpiryMoves
<1>8. CASE /\ ~takes_speech /\ expiry' = [expiry EXCEPT ![s].pc = "closing"]
           /\ UNCHANGED rows /\ audio' = [flushed(u) EXCEPT !.errors = @ + 1]
  <2>1. UNCHANGED <<meeting, chunk, segment>>
    BY <1>8 DEF rows
  <2>2. PICK e \in Expiry : e.pc = "closing" /\ expiry' = [expiry EXCEPT ![s] = e]
    BY <1>0, <1>8, ExpiryRow
  <2>3. expiry'[s] = e /\ \A t \in Streams : t # s => expiry'[t] = expiry[t]
    BY <1>0, <2>2, ExpiryField, AudioTypes
  <2>4. PICK n \in Nat : n = audio.errors + 1 /\ n > 0
    BY <1>0
  <2>5. audio'.cut = u /\ audio'.errors > 0
    <3>1. audio' = [flushed(u) EXCEPT !.errors = n]
      BY <1>4, <1>8, <2>4
    <3> QED
      BY <1>4, <2>4, <3>1 DEF Audio
  <2>7. Unsaid(audio.cut + 1)'
    BY <1>5, <2>1, <2>5 DEF Unsaid
  <2>8. HearingFits' /\ RowsFit'
    <3>1. \A t \in Streams : expiry'[t].pc # "hearing"
      BY <1>2, <2>2, <2>3
    <3> QED
      BY <1>0, <1>2, <2>1, <3>1 DEF AudioInv, HearingFits, RowsFit, SpeechOrder
  <2>9. SpokenFits' /\ NothingYet'
    BY <1>8, <2>1, <2>5 DEF SpokenFits, NothingYet, takes_speech
  <2> QED
    BY <1>0, <2>1, <2>2, <2>7, <2>8, <2>9, ExpiryMoves
<1> QED
  BY <1>3, <1>7, <1>8 DEF ExpireTail

\* What changes neither the rows nor what was cut.
LEMMA ExpiryGoesOn ==
    ASSUME AudioInv, TypeOK', NEW s \in Streams,
           expiry[s].pc \in {"waiting", "deciding"}, stream[s].pc = "done",
           UNCHANGED <<stream, recorder, resumable, reported, rows>>,
           expiry' = [expiry EXCEPT ![s].pc = "closing"],
           audio'.cut = audio.cut, audio'.errors \in Nat, audio'.errors >= audio.errors
    PROVE  AudioInv'
<1>0. TypeOK /\ UNCHANGED <<meeting, chunk, segment>> /\ audio.errors \in Nat
  BY AudioTypes DEF AudioInv, rows
<1>1. PICK e \in Expiry : e.pc = "closing" /\ expiry' = [expiry EXCEPT ![s] = e]
  BY <1>0, ExpiryRow
<1>2. expiry'[s] = e /\ \A t \in Streams : t # s => expiry'[t] = expiry[t]
  BY <1>0, <1>1, ExpiryField, AudioTypes
<1>3. HearingFits' /\ RowsFit' /\ SpokenFits' /\ NothingYet'
  <2>1. \A t \in Streams : /\ expiry'[t].pc = "hearing" <=> expiry[t].pc = "hearing"
                           /\ expiry'[t].pc = "hearing" => expiry'[t].chunk = expiry[t].chunk
    BY <1>1, <1>2
  <2> QED
    BY <1>0, <2>1, RowsStay
<1>4. Unsaid(audio.cut + 1)'
  <2>1. Unsaid(audio.cut + 1)
    BY NobodyElseIsLeft
  <2> QED
    BY <1>0, <2>1 DEF Unsaid
<1> QED
  BY <1>0, <1>1, <1>3, <1>4, ExpiryMoves

LEMMA ExpireNoTailKeeps ==
    ASSUME AudioInv, TypeOK', NEW s \in Streams, ExpireNoTail(s)
    PROVE  AudioInv'
<1>1. /\ audio' = flushed(0) /\ 0 \in flush /\ TypeOK
      /\ audio.cut \in Nat /\ audio.errors \in Nat
  BY AudioTypes DEF AudioInv, ExpireNoTail, flush
<1>2. audio'.cut = audio.cut /\ audio'.errors = audio.errors
  <2>1. flushed(0).cut = audio.cut
    BY <1>1, AudioTypes DEF flushed, Audio
  <2> QED
    BY <1>1, <2>1, FlushedIs
<1>3. audio'.errors \in Nat /\ audio'.errors >= audio.errors
  BY <1>1, <1>2
<1> QED
  BY <1>2, <1>3, ExpiryGoesOn DEF ExpireNoTail

LEMMA ExpireDecidedKeeps ==
    ASSUME AudioInv, TypeOK', NEW s \in Streams, ExpireDecided(s)
    PROVE  AudioInv'
<1>1. /\ audio \in Audio /\ audio.errors \in Nat
      /\ expiry[s].pc = "deciding" /\ stream[s].pc = "done"
  BY AudioTypes DEF AudioInv, ExpiryFits, ExpireDecided
<1>2. /\ audio'.cut = audio.cut /\ audio'.errors \in Nat
      /\ audio'.errors >= audio.errors
  <2>1. CASE UNCHANGED audio
    BY <1>1, <2>1
  <2>2. CASE audio' = [audio EXCEPT !.errors = audio.errors + 1]
    BY <1>1, <2>2 DEF Audio
  <2> QED
    BY <2>1, <2>2 DEF ExpireDecided
<1> QED
  BY <1>1, <1>2, ExpiryGoesOn DEF ExpireDecided

LEMMA ExpireHeardKeeps ==
    ASSUME AudioInv, TypeOK', NEW s \in Streams, ExpireHeard(s)
    PROVE  AudioInv'
<1>0. /\ TypeOK /\ audio \in Audio /\ audio.cut \in Nat /\ audio.errors \in Nat
      /\ Len(chunk) \in Nat
      /\ expiry[s].pc = "hearing" /\ stream[s].pc = "done"
      /\ UNCHANGED <<stream, recorder, resumable, reported>>
  BY AudioTypes DEF AudioInv, ExpiryFits, ExpireHeard
<1>1. expiry[s].chunk = Len(chunk) /\ BeingHeard
  BY <1>0 DEF AudioInv, HearingFits
<1>2. \/ save_stream_transcript(Len(chunk), TRUE)
      \/ save_stream_transcript(Len(chunk), FALSE)
      \/ fail_stream_stt(Len(chunk))
  BY <1>1 DEF ExpireHeard
<1>3. /\ \A t \in Streams : /\ stream[t].queue = <<>> /\ stream[t].worker # "hearing"
      /\ \A t \in Streams : t # s => expiry[t].pc = "none"
      /\ \A v : ~Queued(v)
      /\ Unsaid(audio.cut + 1)
  BY <1>0, NobodyElseIsLeft
<1>4. /\ UNCHANGED meeting /\ Len(chunk') = Len(chunk) /\ RowsFit'
      /\ \A v : heard(v) => heard(v)'
      /\ \A v : ~fail_stream_stt(Len(chunk)) /\ v = chunk[Len(chunk)].utterance
                 => heard(v)'
      /\ \A v \in Nat : Unsaid(v) => Unsaid(v)'
  BY <1>1, <1>2, SpeechIsHeard
<1>5. PICK p \in {"deciding", "closing"} : expiry' = [expiry EXCEPT ![s].pc = p]
  BY DEF ExpireHeard
<1>6. PICK e \in Expiry : e.pc = p /\ expiry' = [expiry EXCEPT ![s] = e]
  <2>1. p \in {"none", "waiting", "hearing", "deciding", "closing"}
    OBVIOUS
  <2>2. \E e \in Expiry : e.pc = p /\ e.chunk = expiry[s].chunk
                             /\ expiry' = [expiry EXCEPT ![s] = e]
    BY <1>0, <1>5, <2>1, ExpiryRow, Zenon
  <2> QED
    BY <2>2
<1>13. expiry'[s] = e /\ \A t \in Streams : t # s => expiry'[t] = expiry[t]
  BY <1>0, <1>6, ExpiryField, AudioTypes
<1>7. /\ audio'.cut = audio.cut
      /\ \/ audio'.errors = audio.errors /\ ~fail_stream_stt(Len(chunk))
         \/ audio'.errors > 0
  <2>1. CASE UNCHANGED audio /\ ~fail_stream_stt(Len(chunk))
    BY <1>0, <2>1
  <2>2. CASE audio' = [audio EXCEPT !.errors = audio.errors + 1]
    BY <1>0, <2>2 DEF Audio
  <2> QED
    BY <1>1, <2>1, <2>2, HeardIsNotFailed DEF ExpireHeard
<1>8. HearingFits'
  <2>1. \A t \in Streams : expiry'[t].pc # "hearing"
    BY <1>3, <1>6, <1>13
  <2> QED
    BY <1>0, <1>3, <2>1 DEF HearingFits
<1>9. Unsaid(audio.cut + 1)'
  <2>1. audio.cut + 1 \in Nat
    BY <1>0
  <2>2. \A v \in Nat : v = audio.cut + 1 => Unsaid(v)'
    BY <1>3, <1>4
  <2> QED
    BY <1>7, <2>1, <2>2
<1>10. SpokenFits'
  <2> SUFFICES ASSUME NEW v \in spoken, audio'.errors = 0
               PROVE  heard(v)'
    BY <1>0, <1>7 DEF SpokenFits, spoken
  <2>1. audio.errors = 0 /\ ~fail_stream_stt(Len(chunk))
    BY <1>7
  <2>2. heard(v) \/ chunk[Len(chunk)].utterance = v
    BY <1>3, <2>1 DEF AudioInv, SpokenFits
  <2> QED
    BY <1>4, <2>1, <2>2
<1>11. NothingYet'
  <2>1. chunk' # <<>>
    BY <1>0, <1>1, <1>4 DEF BeingHeard
  <2> QED
    BY <2>1 DEF NothingYet
<1> QED
  BY <1>0, <1>4, <1>6, <1>8, <1>9, <1>10, <1>11, ExpiryMoves

LEMMA ExpireCloseKeeps ==
    ASSUME AudioInv, TypeOK', NEW s \in Streams, ExpireClose(s)
    PROVE  AudioInv'
<1>0. /\ expiry[s].pc = "closing" /\ stream[s].pc = "done"
      /\ meeting \in MeetingRow /\ Nobody \notin Streams
      /\ recorder \in Streams \cup {Nobody}
      /\ UNCHANGED <<stream, recorder, audio, reported, chunk, segment>>
  BY AudioTypes DEF AudioInv, ExpiryFits, ExpireClose, set_stream_status
<1>1. /\ NoneLive /\ reported # "COMPLETED" /\ resumable = s
      /\ \A t \in Streams : /\ stream[t].queue = <<>> /\ stream[t].worker # "hearing"
      /\ \A t \in Streams : t # s => expiry[t].pc = "none"
  BY <1>0, NobodyElseIsLeft
<1>2. resumable' = Nobody /\ \A t \in Streams : expiry'[t].pc = "none"
  <2>1. /\ NoExpiry \in Expiry /\ NoExpiry.pc = "none"
        /\ expiry' = [expiry EXCEPT ![s] = NoExpiry] /\ expiry \in [Streams -> Expiry]
    BY AudioTypes DEF AudioInv, ExpireClose, NoExpiry, Expiry
  <2>2. expiry'[s] = NoExpiry /\ \A t \in Streams : t # s => expiry'[t] = expiry[t]
    BY <2>1, ExpiryField
  <2> QED
    BY <1>1, <2>1, <2>2 DEF ExpireClose
<1>3. meeting'.status = "FAILED"
  BY <1>0 DEF ExpireClose, set_stream_status, MeetingRow
<1>5. NoneLive'
  BY <1>0, <1>1 DEF NoneLive, Live
<1>6. RecorderFits' /\ ExpiryFits' /\ LastIsKnown'
  <2>1. RecorderFits'
    BY <1>0, <1>1, <1>2, <1>5 DEF AudioInv, RecorderFits
  <2>2. ExpiryFits'
    BY <1>2 DEF ExpiryFits
  <2>3. LastIsKnown'
    BY <1>5 DEF LastIsKnown, NoneLive
  <2> QED
    BY <2>1, <2>2, <2>3
<1>7. InLine'
  <2>1. PICK rank \in [Streams -> Nat] : LineOrder(rank) /\ LineTip(rank) /\ LineWork(rank)
    BY DEF AudioInv, InLine
  <2>2. LineOrder(rank)' /\ LineTip(rank)' /\ LineWork(rank)'
    BY <1>5 DEF LineOrder, LineTip, LineWork, NoneLive
  <2> QED
    BY <2>2 DEF InLine
<1>8. \A t \in Streams : EndFits(t)' /\ WorkerFits(t)' /\ QueueFits(t)'
  <2> TAKE t \in Streams
  <2>1. EndFits(t)'
    BY <1>0 DEF AudioInv, EndFits
  <2>2. WorkerFits(t)'
    BY <1>0 DEF AudioInv, WorkerFits, Live
  <2>3. QueueFits(t)'
    BY <1>0, <1>1 DEF QueueFits
  <2> QED
    BY <2>1, <2>2, <2>3
<1>9. HearingFits' /\ RowsFit' /\ CutFits' /\ NothingYet' /\ ReportFits'
  <2>1. HearingFits'
    BY <1>0, <1>1, <1>2 DEF HearingFits
  <2>2. RowsFit'
    BY <1>0 DEF AudioInv, RowsFit, SpeechOrder
  <2>3. CutFits'
    BY <1>0, <1>2, <1>5 DEF AudioInv, CutFits
  <2>4. NothingYet' /\ ReportFits'
    BY <1>0, <1>1, <1>3 DEF NothingYet, ReportFits
  <2> QED
    BY <2>1, <2>2, <2>3, <2>4
<1>10. SpokenFits'
  <2>1. ~Listening
    BY <1>0, <1>1 DEF Listening
  <2>2. \A v : heard(v)' <=> heard(v)
    BY <1>0 DEF heard
  <2>3. \A v : Queued(v)' <=> Queued(v)
    BY <1>0 DEF Queued
  <2> QED
    BY <1>0, <2>1, <2>2, <2>3 DEF AudioInv, SpokenFits, spoken
<1> QED
  BY <1>6, <1>7, <1>8, <1>9, <1>10 DEF AudioInv

----------------------------------------------------------------------------
(* The server and the members *)

\* Nothing is left in the process: every connection is closed or done.
LEMMA RestartKeeps ==
    ASSUME AudioInv, TypeOK', Restart
    PROVE  AudioInv'
<1>0. /\ stream' = [s \in Streams |-> IF stream[s].pc = "closed" THEN Closed
                                      ELSE [Closed EXCEPT !.pc = "done"]]
      /\ recorder' = Nobody /\ resumable' = Nobody
      /\ expiry' = [s \in Streams |-> NoExpiry] /\ audio' = NoAudio
      /\ UNCHANGED <<meeting, chunk, segment, reported>>
      /\ Nobody \notin Streams
  BY AudioAssumption DEF Restart, rows
<1>1. /\ spoken' = {} /\ \A t \in Streams : expiry'[t].pc = "none"
      /\ ~audio'.open
  <2>1. spoken' = 1 .. 0 /\ ~audio'.open
    BY <1>0 DEF spoken, NoAudio
  <2> QED
    BY <1>0, <2>1 DEF NoExpiry
<1>2. /\ \A t \in Streams :
           /\ stream'[t].pc \in {"closed", "done"} /\ ~stream'[t].ended
           /\ stream'[t].prev = Nobody /\ stream'[t].queue = <<>>
           /\ stream'[t].worker = "none" /\ stream'[t].tasks = {}
  BY <1>0 DEF Closed
<1>3. NoneLive'
  BY <1>2 DEF NoneLive, Live
<1>5. RecorderFits' /\ ExpiryFits' /\ LastIsKnown'
  <2>1. RecorderFits'
    BY <1>0, <1>2, <1>3 DEF RecorderFits
  <2>2. ExpiryFits' /\ LastIsKnown'
    BY <1>1, <1>3 DEF ExpiryFits, LastIsKnown, NoneLive
  <2> QED
    BY <2>1, <2>2
<1>6. InLine'
  <2>1. PICK rank \in [Streams -> Nat] : LineOrder(rank) /\ LineTip(rank) /\ LineWork(rank)
    BY DEF AudioInv, InLine
  <2>2. LineOrder(rank)' /\ LineTip(rank)' /\ LineWork(rank)'
    BY <1>3 DEF LineOrder, LineTip, LineWork, NoneLive
  <2> QED
    BY <2>2 DEF InLine
<1>7. \A t \in Streams : EndFits(t)' /\ WorkerFits(t)' /\ QueueFits(t)'
  BY <1>2, <1>3 DEF EndFits, WorkerFits, QueueFits, NoneLive
<1>8. HearingFits' /\ RowsFit' /\ CutFits'
  <2>1. HearingFits'
    BY <1>1, <1>2 DEF HearingFits
  <2>2. RowsFit'
    BY <1>0 DEF AudioInv, RowsFit, SpeechOrder
  <2>3. CutFits'
    BY <1>0, <1>3 DEF CutFits, NoAudio
  <2> QED
    BY <2>1, <2>2, <2>3
<1>9. SpokenFits' /\ NothingYet'
  BY <1>1 DEF SpokenFits, NothingYet
<1>10. ReportFits'
  BY <1>0, <1>1, <1>3 DEF AudioInv, ReportFits
<1> QED
  BY <1>5, <1>6, <1>7, <1>8, <1>9, <1>10 DEF AudioInv

\* Only the status of the meeting changes, and it does not record any more.
LEMMA StatusMoves ==
    ASSUME AudioInv, TypeOK', UNCHANGED <<chunk, segment, audioVars>>,
           meeting' \in MeetingRow, UNCHANGED meeting \/ meeting'.status # "RECORDING"
    PROVE  AudioInv'
<1>0. UNCHANGED <<chunk, segment, stream, recorder, resumable, expiry, audio, reported>>
  BY DEF audioVars
<1>2. \A t \in Streams : (Live(t)' <=> Live(t)) /\ stream'[t] = stream[t]
  BY <1>0 DEF Live
<1>3. RecorderFits' /\ ExpiryFits' /\ LastIsKnown'
  BY <1>0, <1>2 DEF AudioInv, RecorderFits, ExpiryFits, LastIsKnown, NoneLive
<1>4. InLine'
  <2>1. PICK rank \in [Streams -> Nat] : LineOrder(rank) /\ LineTip(rank) /\ LineWork(rank)
    BY DEF AudioInv, InLine
  <2>2. LineOrder(rank)' /\ LineTip(rank)'
    BY <1>0, <1>2, <2>1, LineStays
  <2>3. LineWork(rank)'
    BY <1>2, <2>1, WorkStays
  <2> QED
    BY <2>2, <2>3 DEF InLine
<1>5. \A t \in Streams : EndFits(t)' /\ WorkerFits(t)' /\ QueueFits(t)'
  <2> TAKE t \in Streams
  <2>1. EndFits(t)' /\ QueueFits(t)'
    BY <1>0 DEF AudioInv, EndFits, QueueFits, Unsaid
  <2>2. WorkerFits(t)'
    BY <1>0 DEF AudioInv, WorkerFits, Live
  <2> QED
    BY <2>1, <2>2
<1>6. HearingFits' /\ RowsFit' /\ CutFits'
  <2>1. HearingFits'
    BY <1>0 DEF AudioInv, HearingFits, BeingHeard
  <2>2. RowsFit'
    BY <1>0 DEF AudioInv, RowsFit, SpeechOrder
  <2>3. CutFits'
    BY <1>0, <1>2 DEF AudioInv, CutFits, Unsaid, NoneLive
  <2> QED
    BY <2>1, <2>2, <2>3
<1>7. \A v : heard(v)' <=> heard(v)
  BY <1>0 DEF heard
<1>8. SpokenFits'
  <2>1. \A v : Queued(v)' <=> Queued(v)
    BY <1>0 DEF Queued
  <2>2. Listening' <=> Listening
    BY <1>0 DEF Listening
  <2> QED
    BY <1>0, <1>7, <2>1, <2>2 DEF AudioInv, SpokenFits, spoken
<1>9. NothingYet'
  BY <1>0 DEF AudioInv, NothingYet, spoken
<1>10. ReportFits'
  <2>1. NoneLive' <=> NoneLive
    BY <1>2 DEF NoneLive
  <2> QED
    BY <1>0, <1>7, <2>1 DEF AudioInv, ReportFits, spoken
<1> QED
  BY <1>3, <1>4, <1>5, <1>6, <1>8, <1>9, <1>10 DEF AudioInv

LEMMA FinishRequestKeeps ==
    ASSUME AudioInv, TypeOK', FinishRequest
    PROVE  AudioInv'
<1>1. meeting \in MeetingRow
  BY AudioTypes DEF AudioInv
<1>2. /\ meeting' \in MeetingRow /\ meeting'.status # "RECORDING"
      /\ UNCHANGED <<chunk, segment, audioVars>>
  BY <1>1 DEF FinishRequest, finish_meeting, MeetingRow
<1> QED
  BY <1>2, StatusMoves

LEMMA StutterKeeps ==
    ASSUME AudioInv, TypeOK', UNCHANGED vars
    PROVE  AudioInv'
<1>1. meeting \in MeetingRow
  BY AudioTypes DEF AudioInv
<1> QED
  BY <1>1, StatusMoves DEF vars

----------------------------------------------------------------------------
(* The whole module *)

LEMMA AudioInit == Init => AudioWhole
<1> SUFFICES ASSUME Init PROVE AudioWhole
  OBVIOUS
<1>0. /\ stream = [s \in Streams |-> Closed] /\ recorder = Nobody /\ resumable = Nobody
      /\ expiry = [s \in Streams |-> NoExpiry] /\ audio = NoAudio
      /\ raced = FALSE /\ reported = "none"
      /\ meeting \in [status: {"RECORDING"}, consent: BOOLEAN]
      /\ chunk = <<>> /\ segment = <<>>
      /\ Nobody \notin Streams /\ MaxSegments \in Nat
      /\ QueueSize \in Nat
  BY AudioAssumption DEF Init, create_meeting
<1>1. Closed \in Stream
  <2>1. <<>> \in Seq(Utterances) /\ {} \in SUBSET Nat /\ FALSE \in BOOLEAN
    OBVIOUS
  <2> QED
    BY <2>1 DEF Closed, Stream
<1>2. /\ stream \in [Streams -> Stream]
      /\ \A t \in Streams :
           /\ stream[t].pc = "closed" /\ ~stream[t].ended
           /\ stream[t].prev = Nobody /\ stream[t].queue = <<>>
           /\ stream[t].worker = "none" /\ stream[t].tasks = {}
  BY <1>0, <1>1 DEF Closed
<1>3. NoneLive
  BY <1>2 DEF NoneLive, Live
<1>10. /\ expiry \in [Streams -> Expiry] /\ \A t \in Streams : expiry[t].pc = "none"
       /\ spoken = {} /\ audio \in Audio
  <2>1. /\ NoExpiry \in Expiry /\ NoExpiry.pc = "none"
    BY DEF NoExpiry, Expiry
  <2>2. NoAudio \in Audio /\ NoAudio.cut = 0
    BY DEF NoAudio, Audio
  <2>3. 1 .. 0 = {}
    OBVIOUS
  <2> QED
    BY <1>0, <2>1, <2>2, <2>3 DEF spoken
<1>4. TypeOK
  <2>1. MeetingTypeOK
    <3>1. <<>> \in Seq(Chunk) /\ <<>> \in Seq(Segment)
      OBVIOUS
    <3> QED
      BY <1>0, <3>1 DEF MeetingTypeOK, MeetingRow
  <2>3. \A t \in Streams : Len(stream[t].queue) <= QueueSize
    BY <1>0, <1>2
  <2>4. raced \in BOOLEAN
    BY <1>0, Zenon
  <2> QED
    BY <1>0, <1>2, <1>10, <2>1, <2>3, <2>4 DEF TypeOK
<1>5. RecorderFits /\ ExpiryFits /\ LastIsKnown
  <2>1. RecorderFits
    BY <1>0, <1>2, <1>3 DEF RecorderFits
  <2>2. ExpiryFits /\ LastIsKnown
    BY <1>3, <1>10 DEF ExpiryFits, LastIsKnown, NoneLive
  <2> QED
    BY <2>1, <2>2
<1>6. InLine
  <2>1. PICK rank \in [Streams -> Nat] : rank = [t \in Streams |-> 0]
    OBVIOUS
  <2>2. LineOrder(rank) /\ LineTip(rank) /\ LineWork(rank)
    BY <1>3 DEF LineOrder, LineTip, LineWork, NoneLive
  <2> QED
    BY <2>2 DEF InLine
<1>7. \A t \in Streams : EndFits(t) /\ WorkerFits(t) /\ QueueFits(t)
  BY <1>2, <1>3 DEF EndFits, WorkerFits, QueueFits, NoneLive
<1>8. HearingFits /\ RowsFit /\ CutFits
  BY <1>0, <1>2, <1>3, <1>10 DEF HearingFits, RowsFit, SpeechOrder, CutFits
<1>9. SpokenFits /\ NothingYet /\ ReportFits
  BY <1>0, <1>10 DEF SpokenFits, NothingYet, ReportFits
<1>11. OnceInv
  BY <1>0, <1>2 DEF OnceInv, HeardOnce, ChunksFit
<1> QED
  BY <1>4, <1>5, <1>6, <1>7, <1>8, <1>9, <1>11 DEF AudioInv, AudioWhole

\* A step after which no resume has raced with the expiry.
LEMMA AudioNext ==
    ASSUME AudioInv, TypeOK', ~raced', [Next]_vars
    PROVE  AudioInv'
<1>1. ASSUME NEW s \in Streams, Client(s) PROVE AudioInv'
  BY <1>1, ConnectKeeps, StartKeeps, ResumeKeeps, FeedKeeps, ProtocolErrorKeeps,
     DisconnectKeeps DEF Client
<1>2. ASSUME NEW s \in Streams, Server(s) PROVE AudioInv'
  BY <1>2, StartedKeeps, ResumeCheckedKeeps, ResumptionBegins, FeedKeeps, ReadyKeeps,
     HearKeeps, HeardKeeps, StopKeeps, DecidedKeeps, FinishKeeps DEF Server
<1>3. CASE forget_resume
  BY <1>3, ForgetKeeps
<1>4. ASSUME NEW s \in Streams, expire_resume(s) PROVE AudioInv'
  BY <1>4, ExpireTailKeeps, ExpireNoTailKeeps, ExpireHeardKeeps, ExpireDecidedKeeps,
     ExpireCloseKeeps DEF expire_resume
<1>5. CASE FinishRequest
  BY <1>5, FinishRequestKeeps
<1>6. CASE Restart
  BY <1>6, RestartKeeps
<1>7. CASE UNCHANGED vars
  BY <1>7, StutterKeeps
<1> QED
  BY <1>1, <1>2, <1>3, <1>4, <1>5, <1>6, <1>7 DEF Next

\* Once a resume has raced with the expiry the history says so.
LEMMA RacedStays ==
    ASSUME [Next]_vars, raced
    PROVE  raced'
<1>1. ASSUME NEW s \in Streams, Client(s) PROVE raced'
  BY <1>1 DEF Client, meeting_stream, Start, Resume, Feed, ProtocolError, End, Disconnect
<1>2. ASSUME NEW s \in Streams, Server(s) PROVE raced'
  <2>1. CASE Resumed(s)
    BY <2>1 DEF Resumed
  <2>2. CASE ~Resumed(s)
    BY <1>2, <2>2 DEF Server, Started, ResumeChecked, Break, WorkerReady, Hear, Heard,
                      WorkerStop, decide_one, Finish
  <2> QED
    BY <2>1, <2>2
<1>3. ASSUME NEW s \in Streams, expire_resume(s) PROVE raced'
  BY <1>3 DEF expire_resume, ExpireTail, ExpireNoTail, ExpireHeard, ExpireDecided,
              ExpireClose
<1>4. ASSUME forget_resume \/ FinishRequest \/ Restart \/ UNCHANGED vars PROVE raced'
  BY <1>4 DEF forget_resume, FinishRequest, Restart, vars, audioVars
<1> QED
  BY <1>1, <1>2, <1>3, <1>4 DEF Next

\* Nothing is pending in a recording that was reported complete.
LEMMA AudioInvIsEnough == AudioWhole => TranscriptIsWhole
<1> SUFFICES ASSUME AudioWhole PROVE TranscriptIsWhole
  OBVIOUS
<1>1. TypeOK /\ HeardOnce
  BY DEF AudioWhole, OnceInv
<1>2. ~raced => SpeechOrder
  BY DEF AudioWhole, AudioInv, RowsFit
<1>3. ~raced => CompletedMeansAll
  <2> SUFFICES ASSUME AudioInv, reported = "COMPLETED"
               PROVE  (\A u \in spoken : heard(u)) /\ ~pending
    BY DEF CompletedMeansAll, AudioWhole
  <2>1. /\ resumable = Nobody /\ NoneLive /\ ~audio.open
        /\ \A u \in spoken : heard(u)
    BY DEF AudioInv, ReportFits
  <2>2. \A t \in Streams : expiry[t].pc = "none"
    <3>1. Nobody \notin Streams
      BY AudioAssumption
    <3> QED
      BY <2>1, <3>1 DEF AudioInv, ExpiryFits
  <2>3. \A t \in Streams : /\ stream[t].queue = <<>> /\ stream[t].tasks = {}
                           /\ stream[t].worker # "hearing"
    BY <2>1 DEF AudioInv, WorkerFits, NoneLive
  <2> QED
    BY <2>1, <2>2, <2>3 DEF pending
<1> QED
  BY <1>1, <1>2, <1>3 DEF TranscriptIsWhole

\* Whatever the connections, their losses and resumptions, the failures of
\* the recogniser and the expiry of the resume window (audio_stream_service):
\* no utterance is recognised twice, also when the window runs out while a
\* resume is being checked; as long as that has not happened, the transcript
\* is in the order of speech, and a recording is reported complete only when
\* all that was cut out of it has been heard and nothing of it is on its way.
THEOREM TranscriptKept == Spec => []TranscriptIsWhole
<1>1. Init => AudioWhole
  BY AudioInit
<1>2. AudioWhole /\ [Next]_vars => AudioWhole'
  <2> SUFFICES ASSUME AudioWhole, [Next]_vars PROVE AudioWhole'
    OBVIOUS
  <2>1. TypeOK' /\ OnceInv'
    BY OnceNext DEF AudioWhole
  <2>2. ~raced' => ~raced
    BY RacedStays
  <2>3. ~raced' => AudioInv'
    BY <2>1, <2>2, AudioNext DEF AudioWhole
  <2> QED
    BY <2>1, <2>3 DEF AudioWhole
<1>3. AudioWhole => TranscriptIsWhole
  BY AudioInvIsEnough
<1> QED
  BY <1>1, <1>2, <1>3, PTL DEF Spec
=============================================================================
