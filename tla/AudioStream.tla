----------------------------- MODULE AudioStream -----------------------------
(***************************************************************************)
(* The recorder of a meeting (audio_stream_service.AudioStream and the     *)
(* meeting_stream route): sockets that start or resume a recording, the    *)
(* ordered STT worker and the AI tasks of each, the 60 seconds in which a  *)
(* lost connection can be resumed, and what happens at their end.          *)
(*                                                                         *)
(* The detector (PcmVad) cuts utterances out of the accepted frames and    *)
(* keeps what it has not cut yet; module Speech has its arithmetic.  An    *)
(* utterance is named by its place in the order of speech.  Frames are not *)
(* counted: a replayed frame is acknowledged again and changes nothing.    *)
(***************************************************************************)
EXTENDS Meeting, FiniteSets

CONSTANTS Streams,      \* connections
          Nobody,
          QueueSize     \* audio_queue's maxsize

ASSUME AudioAssumption ==
    /\ Nobody \notin Streams
    /\ MaxSegments \in Nat
    /\ QueueSize \in Nat \ {0}

VARIABLES
    stream,     \* the connections
    recorder,   \* _recorders: the connection that records, or Nobody
    resumable,  \* _resume_states: the connection to resume, or Nobody
    expiry,     \* the task _expire_resume of each lost connection
    audio,      \* what the detector has cut, whether it keeps more, failures
    raced,      \* history: a resume succeeded after its window had run out
    reported    \* history: the status the last audio.completed told

audioVars == <<stream, recorder, resumable, expiry, audio, raced, reported>>
vars == <<meeting, chunk, segment, audioVars>>

----------------------------------------------------------------------------
Utterances == Nat \ {0}

Stream == [pc: {"closed", "open", "starting", "resuming", "checked", "on",
                "breaking", "draining", "done"},
           ended: BOOLEAN, prev: Streams \cup {Nobody},
           queue: Seq(Utterances),
           worker: {"none", "waiting", "idle", "hearing", "stopped"},
           chunk: Nat, tasks: SUBSET Nat]

Closed == [pc |-> "closed", ended |-> FALSE, prev |-> Nobody, queue |-> <<>>,
           worker |-> "none", chunk |-> 0, tasks |-> {}]

Expiry == [pc: {"none", "waiting", "hearing", "deciding", "closing"},
           chunk: Nat]

NoExpiry == [pc |-> "none", chunk |-> 0]

Audio == [cut: Nat, open: BOOLEAN, errors: Nat]

TypeOK ==
    /\ MeetingTypeOK
    /\ stream \in [Streams -> Stream]
    /\ recorder \in Streams \cup {Nobody}
    /\ resumable \in Streams \cup {Nobody}
    /\ expiry \in [Streams -> Expiry]
    /\ audio \in Audio
    /\ raced \in BOOLEAN
    /\ reported \in {"none", "COMPLETED", "FAILED"}
    /\ \A s \in Streams :
           /\ Len(stream[s].queue) <= QueueSize
           /\ stream[s].worker = "hearing"
                  => stream[s].chunk \in 1 .. Len(chunk)
           /\ expiry[s].pc = "hearing" => expiry[s].chunk \in 1 .. Len(chunk)

NoAudio == [cut |-> 0, open |-> FALSE, errors |-> 0]

Init ==
    /\ create_meeting
    /\ stream = [s \in Streams |-> Closed]
    /\ recorder = Nobody /\ resumable = Nobody
    /\ expiry = [s \in Streams |-> NoExpiry]
    /\ audio = NoAudio
    /\ raced = FALSE /\ reported = "none"

rows == <<meeting, chunk, segment>>
ends == <<resumable, expiry, reported>>

is_recording == recorder # Nobody

\* The utterances of the recording: those the detector has cut out.
spoken == 1 .. audio.cut

----------------------------------------------------------------------------
(* Connecting *)

\* meeting_stream: an account that is a member of the club.
meeting_stream(s) ==
    /\ stream[s].pc = "closed"
    /\ stream' = [stream EXCEPT ![s].pc = "open"]
    /\ UNCHANGED <<rows, recorder, ends, audio, raced>>

\* The route gives up a socket that has not started.
close(s) == stream' = [stream EXCEPT ![s].pc = "done"]

\* `start` while somebody records, or while a recording can be resumed, is
\* refused.
Start(s) ==
    /\ stream[s].pc = "open"
    /\ \/ /\ recorder = Nobody /\ resumable = Nobody
          /\ recorder' = s
          /\ stream' = [stream EXCEPT ![s].pc = "starting"]
       \/ /\ recorder # Nobody \/ resumable # Nobody
          /\ close(s)
          /\ UNCHANGED recorder
    /\ UNCHANGED <<rows, ends, audio, raced>>

may_start == meeting.status = "RECORDING" /\ meeting.consent /\ chunk = <<>>

\* on_start: refused, or the worker is started with a new detector and no
\* failures; utterances are numbered on.  The provider may not be configured
\* (SttError).  An expiry that is still at work here (only after
\* a resume it raced with) would have a detector of its own; left out.
Started(s) ==
    /\ stream[s].pc = "starting"
    /\ \A t \in Streams : expiry[t].pc = "none"
    /\ \/ /\ may_start
          /\ stream' = [stream EXCEPT ![s].pc = "on", ![s].worker = "waiting"]
          /\ audio' = [cut |-> audio.cut, open |-> FALSE, errors |-> 0]
          /\ UNCHANGED recorder
       \/ /\ close(s)
          /\ recorder' = Nobody
          /\ UNCHANGED audio
    /\ UNCHANGED <<rows, ends, raced>>

expired == resumable # Nobody /\ expiry[resumable].pc # "none"

\* `resume` looks up the connection to take over; the recorder is its own from
\* here on.
Resume(s) ==
    /\ stream[s].pc = "open"
    /\ \/ /\ recorder = Nobody /\ resumable # Nobody /\ ~expired
          /\ recorder' = s
          /\ stream' = [stream EXCEPT ![s].pc = "resuming",
                                      ![s].prev = resumable]
       \/ /\ recorder # Nobody \/ resumable = Nobody \/ expired
          /\ close(s)
          /\ UNCHANGED recorder
    /\ UNCHANGED <<rows, ends, audio, raced>>

\* on_resume: the meeting still records and the account is still a member.
ResumeChecked(s) ==
    /\ stream[s].pc = "resuming"
    /\ \/ /\ meeting.status = "RECORDING"
          /\ stream' = [stream EXCEPT ![s].pc = "checked"]
          /\ UNCHANGED recorder
       \/ /\ stream' = [stream EXCEPT ![s].pc = "done", ![s].prev = Nobody]
          /\ recorder' = Nobody
    /\ UNCHANGED <<rows, ends, audio, raced>>

\* After the await: what was looked up is taken over, whether or not its
\* window has run out meanwhile.
Resumed(s) ==
    /\ stream[s].pc = "checked"
    /\ stream' = [stream EXCEPT ![s].pc = "on", ![s].worker = "waiting"]
    /\ resumable' = Nobody
    /\ raced' = (raced \/ resumable # stream[s].prev \/ expired)
    /\ UNCHANGED <<rows, recorder, expiry, audio, reported>>

----------------------------------------------------------------------------
(* Audio *)

\* _enqueue: the queue holds QueueSize utterances.
fits(s) == Len(stream[s].queue) < QueueSize

\* One frame: the detector cuts off up to two utterances (an end of speech
\* takes 600ms, a frame is at most 1000ms) and may keep a rest.  Those that
\* fit are queued; one that does not is an error that drops it.
Feed(s) ==
    \E n \in 0 .. 2, rest \in BOOLEAN :
        LET room == QueueSize - Len(stream[s].queue)
            fit == IF n <= room THEN n ELSE room
        IN
        /\ stream[s].pc = "on" /\ audio.cut + n <= MaxSegments
        /\ stream' = [stream EXCEPT
               ![s].queue = @ \o [k \in 1 .. fit |-> audio.cut + k],
               ![s].pc = IF fit = n THEN "on" ELSE "breaking"]
        /\ audio' = [cut |-> audio.cut + n, open |-> rest,
                     errors |-> IF fit = n THEN audio.errors ELSE audio.errors + 1]
        /\ UNCHANGED <<rows, recorder, ends, raced>>

\* Any other message the protocol does not allow: counted, told to the client,
\* and no more messages are taken.
ProtocolError(s) ==
    /\ stream[s].pc = "on"
    /\ stream' = [stream EXCEPT ![s].pc = "breaking"]
    /\ audio' = [audio EXCEPT !.errors = @ + 1]
    /\ UNCHANGED <<rows, recorder, ends, raced>>

\* What flush may hand over: the rest as an utterance, or nothing when there
\* is none or no voice in it.
flush == IF audio.open /\ audio.cut < MaxSegments THEN {0, audio.cut + 1} ELSE {0}

\* The detector after it.
flushed(tail) == [audio EXCEPT !.open = FALSE,
                               !.cut = IF tail = 0 THEN @ ELSE tail]

\* The end of run after an error: the rest is queued, or is one more error
\* when the queue is full.  A client that could not be told has disconnected.
Break(s) ==
    /\ stream[s].pc = "breaking"
    /\ \/ \E tail \in flush :
              LET kept == tail # 0 /\ fits(s) IN
              /\ stream' = [stream EXCEPT ![s].pc = "draining",
                     ![s].queue = IF kept THEN Append(@, tail) ELSE @]
              /\ audio' = [flushed(tail) EXCEPT
                     !.errors = IF tail # 0 /\ ~kept THEN @ + 1 ELSE @]
              /\ UNCHANGED <<resumable, recorder>>
       \/ /\ resumable' = s /\ recorder' = Nobody
          /\ stream' = [stream EXCEPT ![s].pc = "draining"]
          /\ UNCHANGED audio
    /\ UNCHANGED <<rows, expiry, raced, reported>>

\* `end`: the tail is queued and the meeting is FINALIZING.
End(s) ==
    /\ stream[s].pc = "on"
    /\ \E tail \in flush :
           \/ /\ tail = 0 \/ fits(s)
              /\ stream' = [stream EXCEPT
                     ![s].pc = "draining", ![s].ended = TRUE,
                     ![s].queue = IF tail = 0 THEN @ ELSE Append(@, tail)]
              /\ audio' = flushed(tail)
              /\ set_stream_status("FINALIZING")
           \/ /\ tail # 0 /\ ~fits(s)
              /\ stream' = [stream EXCEPT ![s].pc = "breaking"]
              /\ audio' = [flushed(tail) EXCEPT !.errors = @ + 1]
              /\ UNCHANGED rows
    /\ UNCHANGED <<recorder, ends, raced>>

\* The connection is lost: what was accepted can be resumed for 60 seconds,
\* and the recorder is free at once.
Disconnect(s) ==
    /\ \/ /\ stream[s].pc = "on"
          /\ resumable' = s /\ recorder' = Nobody
          /\ stream' = [stream EXCEPT ![s].pc = "draining"]
       \/ /\ stream[s].pc = "open"
          /\ close(s)
          /\ UNCHANGED <<resumable, recorder>>
    /\ UNCHANGED <<rows, expiry, audio, raced, reported>>

----------------------------------------------------------------------------
(* The ordered STT worker and the AI tasks *)

\* Fault: a resumed connection's worker does not wait.
HearAtOnce(s) == TRUE

\* The worker of a resumed connection waits for the preceding worker.
may_hear(s) ==
    LET prev == stream[s].prev IN
    prev # Nobody => stream[prev].worker = "stopped"

WorkerReady(s) ==
    /\ stream[s].worker = "waiting" /\ may_hear(s)
    /\ stream' = [stream EXCEPT ![s].worker = "idle"]
    /\ UNCHANGED <<rows, recorder, ends, audio, raced>>

\* transcribe, first half: the WAV is kept, or the meeting no longer takes
\* speech and the error is counted.
Hear(s) ==
    LET u == Head(stream[s].queue) IN
    /\ stream[s].worker = "idle" /\ stream[s].queue # <<>>
    /\ \/ /\ begin_stream_utterance(u)
          /\ stream' = [stream EXCEPT ![s].queue = Tail(@),
                            ![s].worker = "hearing", ![s].chunk = Len(chunk')]
          /\ UNCHANGED audio
       \/ /\ ~takes_speech
          /\ stream' = [stream EXCEPT ![s].queue = Tail(@)]
          /\ audio' = [audio EXCEPT !.errors = @ + 1]
          /\ UNCHANGED rows
    /\ UNCHANGED <<recorder, ends, raced>>

\* WhisperStt.transcribe: text, silence, or an SttError.
Heard(s) ==
    LET c == stream[s].chunk IN
    /\ stream[s].worker = "hearing"
    /\ \/ /\ save_stream_transcript(c, TRUE)
          /\ stream' = [stream EXCEPT ![s].worker = "idle",
                            ![s].tasks = @ \cup {Len(segment')}]
          /\ UNCHANGED audio
       \/ /\ save_stream_transcript(c, FALSE)
          /\ stream' = [stream EXCEPT ![s].worker = "idle"]
          /\ UNCHANGED audio
       \/ /\ fail_stream_stt(c)
          /\ stream' = [stream EXCEPT ![s].worker = "idle"]
          /\ audio' = [audio EXCEPT !.errors = @ + 1]
    /\ UNCHANGED <<recorder, ends, raced>>

\* The None that _drain puts behind the last utterance.
WorkerStop(s) ==
    /\ stream[s].worker = "idle" /\ stream[s].queue = <<>>
    /\ stream[s].pc = "draining"
    /\ stream' = [stream EXCEPT ![s].worker = "stopped"]
    /\ UNCHANGED <<rows, recorder, ends, audio, raced>>

\* A saved segment's judgement ends; a failed one is counted.
decide_one(s, g) ==
    /\ stream' = [stream EXCEPT ![s].tasks = @ \ {g}]
    /\ \/ UNCHANGED audio
       \/ audio' = [audio EXCEPT !.errors = @ + 1]
    /\ UNCHANGED <<rows, recorder, ends, raced>>

----------------------------------------------------------------------------
(* The end of a connection *)

\* Fault: the completion does not wait for the connections before it.
DrainedAlone(s) == stream[s].worker \in {"none", "stopped"} /\ stream[s].tasks = {}

\* Fault: only a connection that ended properly is finished.
DrainedAfterEnd(s) ==
    LET prev == stream[s].prev IN
    /\ stream[s].worker \in {"none", "stopped"} /\ stream[s].tasks = {}
    /\ prev # Nobody => stream[prev].pc = "done" /\ stream[prev].ended

\* _drain: the worker, then its AI tasks, then the preceding connection.
drained(s) ==
    LET prev == stream[s].prev IN
    /\ stream[s].worker \in {"none", "stopped"} /\ stream[s].tasks = {}
    /\ prev # Nobody => stream[prev].pc = "done"

\* The rest of run.
Finish(s) ==
    /\ stream[s].pc = "draining" /\ drained(s)
    /\ LET status == IF audio.errors = 0 THEN "COMPLETED" ELSE "FAILED" IN
       \/ /\ stream[s].ended
          /\ set_stream_status(status)
          /\ reported' = status
       \/ /\ ~stream[s].ended
          /\ UNCHANGED <<rows, reported>>
    /\ stream' = [stream EXCEPT ![s].pc = "done"]
    /\ recorder' = IF recorder = s THEN Nobody ELSE recorder
    /\ UNCHANGED <<resumable, expiry, audio, raced>>

\* The timer of a lost connection; it does nothing once that was resumed.
forget_resume ==
    /\ resumable # Nobody /\ expiry[resumable].pc = "none"
    /\ expiry' = [expiry EXCEPT ![resumable].pc = "waiting"]
    /\ UNCHANGED <<rows, stream, recorder, resumable, audio, raced, reported>>

\* _expire_resume: keep the tail, judge it, and close the meeting as FAILED.
\* The detector is the one a connection that resumed goes on with.
ExpireTail(s) ==
    LET u == audio.cut + 1 IN
    /\ expiry[s].pc = "waiting" /\ stream[s].pc = "done"
    /\ u \in flush
    /\ \/ /\ begin_stream_utterance(u)
          /\ expiry' = [expiry EXCEPT ![s] = [pc |-> "hearing", chunk |-> Len(chunk')]]
          /\ audio' = flushed(u)
       \/ /\ ~takes_speech
          /\ expiry' = [expiry EXCEPT ![s].pc = "closing"]
          /\ audio' = [flushed(u) EXCEPT !.errors = @ + 1]
          /\ UNCHANGED rows
    /\ UNCHANGED <<stream, recorder, resumable, raced, reported>>

ExpireNoTail(s) ==
    /\ expiry[s].pc = "waiting" /\ stream[s].pc = "done"
    /\ audio' = flushed(0)
    /\ expiry' = [expiry EXCEPT ![s].pc = "closing"]
    /\ UNCHANGED <<rows, stream, recorder, resumable, raced, reported>>

ExpireHeard(s) ==
    /\ expiry[s].pc = "hearing"
    /\ \/ /\ save_stream_transcript(expiry[s].chunk, TRUE)
          /\ expiry' = [expiry EXCEPT ![s].pc = "deciding"]
          /\ UNCHANGED audio
       \/ /\ save_stream_transcript(expiry[s].chunk, FALSE)
          /\ expiry' = [expiry EXCEPT ![s].pc = "closing"]
          /\ UNCHANGED audio
       \/ /\ fail_stream_stt(expiry[s].chunk)
          /\ expiry' = [expiry EXCEPT ![s].pc = "closing"]
          /\ audio' = [audio EXCEPT !.errors = @ + 1]
    /\ UNCHANGED <<stream, recorder, resumable, raced, reported>>

ExpireDecided(s) ==
    /\ expiry[s].pc = "deciding"
    /\ expiry' = [expiry EXCEPT ![s].pc = "closing"]
    /\ \/ UNCHANGED audio
       \/ audio' = [audio EXCEPT !.errors = @ + 1]
    /\ UNCHANGED <<rows, stream, recorder, resumable, raced, reported>>

ExpireClose(s) ==
    /\ expiry[s].pc = "closing"
    /\ set_stream_status("FAILED")
    /\ resumable' = IF resumable = s THEN Nobody ELSE resumable
    /\ expiry' = [expiry EXCEPT ![s] = NoExpiry]
    /\ UNCHANGED <<stream, recorder, audio, raced, reported>>

\* The server stops and starts: everything held in the process is gone.
Restart ==
    /\ \E s \in Streams : stream[s].pc \notin {"closed", "done"}
    /\ stream' = [s \in Streams |-> IF stream[s].pc = "closed" THEN Closed
                                    ELSE [Closed EXCEPT !.pc = "done"]]
    /\ recorder' = Nobody /\ resumable' = Nobody
    /\ expiry' = [s \in Streams |-> NoExpiry] /\ audio' = NoAudio
    /\ UNCHANGED <<rows, raced, reported>>

\* A member ends the meeting over HTTP.
FinishRequest == finish_meeting(is_recording) /\ UNCHANGED audioVars

----------------------------------------------------------------------------
Client(s) ==
    \/ meeting_stream(s) \/ Start(s) \/ Resume(s)
    \/ Feed(s) \/ ProtocolError(s) \/ End(s) \/ Disconnect(s)

Server(s) ==
    \/ Started(s) \/ ResumeChecked(s) \/ Resumed(s) \/ Break(s)
    \/ WorkerReady(s) \/ Hear(s) \/ Heard(s) \/ WorkerStop(s)
    \/ \E g \in stream[s].tasks : decide_one(s, g)
    \/ Finish(s)

expire_resume(s) ==
    \/ ExpireTail(s) \/ ExpireNoTail(s)
    \/ ExpireHeard(s) \/ ExpireDecided(s) \/ ExpireClose(s)

Next ==
    \/ \E s \in Streams : Client(s) \/ Server(s) \/ expire_resume(s)
    \/ forget_resume
    \/ FinishRequest
    \/ Restart

Spec == Init /\ [][Next]_vars

\* The event loop runs what it has to run; providers answer or time out.
FairSpec ==
    /\ Spec
    /\ \A s \in Streams : WF_vars(Server(s)) /\ WF_vars(expire_resume(s))
    /\ WF_vars(forget_resume)

----------------------------------------------------------------------------
(* Properties *)

heard(u) == \E c \in 1 .. Len(chunk) :
                chunk[c].utterance = u /\ chunk[c].stt = "SUCCEEDED"

pending ==
    \/ audio.open
    \/ \E s \in Streams : \/ expiry[s].pc # "none"
                          \/ stream[s].queue # <<>>
                          \/ stream[s].worker = "hearing"
                          \/ stream[s].tasks # {}

\* audio.completed with COMPLETED tells the truth (docs/meeting-audio.md, 6):
\* all the speech cut out of the accepted frames, those of earlier
\* connections included, has been recognised and stored, and no AI task of
\* any connection is still running.
CompletedMeansAll ==
    reported = "COMPLETED" =>
        /\ \A u \in spoken : heard(u)
        /\ ~pending

\* The transcript is in the order of speech: "New STT waits for the preceding
\* STT worker to preserve transcript order" (docs/meeting-audio.md).  The
\* worker of a resumed connection waits for previous.tasks[0]; the expiry
\* recognises the tail outside of any worker.
SpeechOrder ==
    \A g, h \in 1 .. Len(segment) :
        g < h => segment[g].utterance < segment[h].utterance

\* No utterance is kept and recognised twice.
HeardOnce ==
    \A c, d \in 1 .. Len(chunk) :
        chunk[c].utterance = chunk[d].utterance => c = d

\* Over reconnections, lost frames, failed recognitions and the expiry of the
\* resume window (audio_stream_service): no utterance is recognised twice; and
\* unless a resume was let through whose window had run out while it was
\* checked, what is reported as complete is complete, and the transcript is in
\* the order of speech.
TranscriptIsWhole ==
    /\ TypeOK /\ HeardOnce
    /\ ~raced => CompletedMeansAll /\ SpeechOrder

\* A connection whose messages have ended comes to its end: the workers and
\* _drain of resumed connections wait for each other in one direction only.
StreamsFinish ==
    \A s \in Streams : stream[s].pc = "draining" ~> stream[s].pc = "done"

\* A meeting ended over HTTP has no speech pending: `finish` is refused
\* during live capture "so pending speech cannot be lost by claiming
\* immediate completion" (docs/meeting-audio.md).
FinishedMeansHeard == meeting.status = "COMPLETED" => ~pending
=============================================================================
