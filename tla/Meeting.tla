------------------------------- MODULE Meeting -------------------------------
(***************************************************************************)
(* One meeting: its status, the audio chunks kept for it and its           *)
(* transcript (meeting_service).  AudioStream and LiveJudgement are the    *)
(* two users of these rows.  An utterance is named by its place in the     *)
(* order of speech; transcript_cursor only orders what a client polls and  *)
(* is left out.                                                            *)
(***************************************************************************)
EXTENDS Naturals, Sequences

CONSTANTS MaxSegments   \* bound on chunks and on transcript segments

VARIABLES
    meeting,   \* the Meeting row
    chunk,     \* MeetingAudioChunk rows, in the order of seq, with their job
    segment    \* TranscriptSegment rows, in the order of seq

MeetingRow ==
    [status: {"RECORDING", "FINALIZING", "COMPLETED", "FAILED"},
     consent: BOOLEAN]

Chunk == [stt: {"RUNNING", "SUCCEEDED", "FAILED"}, utterance: Nat]

\* `job` is decision_job_id, 0 when there is none.
Segment == [utterance: Nat, version: Nat, final: BOOLEAN, job: Nat]

MeetingTypeOK ==
    /\ meeting \in MeetingRow
    /\ chunk \in Seq(Chunk)
    /\ segment \in Seq(Segment)

create_meeting ==
    /\ meeting \in [status: {"RECORDING"}, consent: BOOLEAN]
    /\ chunk = <<>>
    /\ segment = <<>>

\* An ended meeting is not ended again, and not while audio comes in.
finish_meeting(is_recording) ==
    /\ meeting.status = "RECORDING"
    /\ ~is_recording
    /\ meeting' = [meeting EXCEPT !.status = "COMPLETED"]
    /\ UNCHANGED <<chunk, segment>>

\* The stream writes FINALIZING and then COMPLETED or FAILED, whatever the
\* status is.
set_stream_status(status) ==
    /\ meeting' = [meeting EXCEPT !.status = status]
    /\ UNCHANGED <<chunk, segment>>

takes_speech == meeting.status \in {"RECORDING", "FINALIZING"}

\* The WAV and its running STT job, before the provider is called.
begin_stream_utterance(u) ==
    /\ takes_speech
    /\ Len(chunk) < MaxSegments
    /\ chunk' = Append(chunk, [stt |-> "RUNNING", utterance |-> u])
    /\ UNCHANGED <<meeting, segment>>

fail_stream_stt(c) ==
    /\ chunk' = [chunk EXCEPT ![c].stt = "FAILED"]
    /\ UNCHANGED <<meeting, segment>>

\* An empty transcript is a gap: the job succeeds without a row.
save_stream_transcript(c, heard) ==
    /\ chunk' = [chunk EXCEPT ![c].stt = "SUCCEEDED"]
    /\ segment' = IF heard
                  THEN Append(segment, [utterance |-> chunk[c].utterance,
                           version |-> 1, final |-> TRUE, job |-> 0])
                  ELSE segment
    /\ UNCHANGED meeting
=============================================================================
