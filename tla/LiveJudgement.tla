---------------------------- MODULE LiveJudgement ----------------------------
(***************************************************************************)
(* What the assistant makes of a meeting's transcript while it is being    *)
(* recorded (context_service): a job per final segment whose judgement is  *)
(* committed first and whose task suggestions follow, while a correction   *)
(* of the segment may come in between any two steps.  Rows of a segment    *)
(* are written under its row lock, except decision_job_id, which           *)
(* judge_live_meeting_segment writes without one.                          *)
(***************************************************************************)
EXTENDS Meeting

CONSTANTS MaxJobs,      \* bound on judgement jobs
          MaxVersion    \* bound on the versions of a segment

VARIABLES judgement     \* AgentJob and ContextDecision rows, by job number

\* `version` is the segment's version the job was given, `suggested` the one the
\* segment had when tasks were suggested from it, 0 for no suggestions.
Judgement ==
    [pc: {"ready", "loaded", "judging", "judged", "done"},
     segment: Nat, version: Nat,
     job: {"QUEUED", "RUNNING", "SUCCEEDED", "FAILED"},
     lookup: BOOLEAN, event: {"none", "answer", "failed"},
     decision: {"NONE", "SUCCEEDED", "PARTIAL", "FAILED", "STALE"},
     suggested: Nat]

JudgementTypeOK ==
    /\ judgement \in Seq(Judgement)
    /\ \A j \in 1 .. Len(judgement) :
           judgement[j].segment \in 1 .. Len(segment)

\* Fault: the job is for the segment after the one saved.
JobForNext(g) ==
    [pc |-> "ready", segment |-> g + 1, version |-> 0, job |-> "QUEUED",
     lookup |-> TRUE, event |-> "none", decision |-> "NONE",
     suggested |-> 0]

create_job(g) ==
    [pc |-> "ready", segment |-> g, version |-> 0, job |-> "QUEUED",
     lookup |-> TRUE, event |-> "none", decision |-> "NONE",
     suggested |-> 0]

JudgementInit == judgement = <<>>

room == Len(judgement) < MaxJobs

----------------------------------------------------------------------------
(* The live path: process_saved_segment *)

\* A segment comes out of the STT worker and its judgement is started.
start_decision ==
    /\ room /\ Len(chunk) < MaxSegments /\ takes_speech
    /\ chunk' = Append(chunk, [stt |-> "SUCCEEDED",
                               utterance |-> Len(chunk) + 1])
    /\ segment' = Append(segment, [utterance |-> Len(chunk) + 1,
                             version |-> 1, final |-> TRUE, job |-> 0])
    /\ judgement' = Append(judgement, create_job(Len(segment) + 1))
    /\ UNCHANGED meeting

\* process_saved_segment loads the segment.
LoadSegment(j) ==
    /\ judgement[j].pc = "ready"
    /\ judgement' = [judgement EXCEPT ![j].pc = "loaded",
           ![j].version = segment[judgement[j].segment].version]
    /\ UNCHANGED <<meeting, chunk, segment>>

\* judge_live_meeting_segment up to its first commit: the segment points to
\* the job, whatever its version is by then.
BeginJudging(j) ==
    /\ judgement[j].pc = "loaded"
    /\ judgement' = [judgement EXCEPT ![j].pc = "judging",
                                      ![j].job = "RUNNING"]
    /\ segment' = [segment EXCEPT ![judgement[j].segment].job = j]
    /\ UNCHANGED <<meeting, chunk>>

\* Fault: the judgement is stored as it came.
CurrentAlways(j) == TRUE

\* _locked_segment: is the segment still the one the job was given?
current(j) == segment[judgement[j].segment].version = judgement[j].version

\* The status the judgement alone gives.
JudgedStatus(lookup, event) ==
    CASE event = "failed" -> IF lookup THEN "PARTIAL" ELSE "FAILED"
      [] event = "answer" -> IF lookup THEN "SUCCEEDED" ELSE "PARTIAL"
      [] event = "none"   -> IF lookup THEN "SUCCEEDED" ELSE "FAILED"

\* The rest of judge_live_meeting_segment: the lookup (meeting_ai_service)
\* and the event answer (meeting_event_service) have come back or failed.
judge_live_meeting_segment(j, lookup, event) ==
    /\ judgement[j].pc = "judging"
    /\ judgement' = [judgement EXCEPT
           ![j].pc = "judged", ![j].lookup = lookup, ![j].event = event,
           ![j].decision = IF current(j) THEN JudgedStatus(lookup, event)
                           ELSE "STALE"]
    /\ segment' = IF current(j)
                  THEN [segment EXCEPT ![judgement[j].segment].job = j]
                  ELSE segment
    /\ UNCHANGED <<meeting, chunk>>

failures(j, extracted) ==
    ~judgement[j].lookup \/ judgement[j].event = "failed" \/ ~extracted

\* Fault: suggestions are kept whatever has become of the decision.
SuggestAnyway(extracted, status) == extracted

keeps_suggestions(extracted, status) == extracted /\ status # "STALE"

\* The decision is read again under the lock; suggestions are kept for a
\* current one only.
finish_live_meeting_extraction(j, extracted) ==
    LET row == judgement[j]
        status == CASE ~current(j) -> "STALE"
                    [] current(j) /\ failures(j, extracted) ->
                           IF row.lookup \/ extracted THEN "PARTIAL"
                           ELSE "FAILED"
                    [] OTHER -> row.decision
    IN
    /\ row.pc = "judged"
    /\ judgement' = [judgement EXCEPT
           ![j].pc = "done", ![j].decision = status,
           ![j].suggested = IF keeps_suggestions(extracted, status)
                            THEN segment[row.segment].version ELSE 0,
           ![j].job = IF failures(j, extracted) THEN "FAILED"
                      ELSE "SUCCEEDED"]
    /\ UNCHANGED <<meeting, chunk, segment>>

----------------------------------------------------------------------------
(* The paths that judge in the same transaction *)

\* mark_segment_decisions_stale, with the stub's decision after it when the
\* segment is final (decide_meeting_segment).
mark_segment_decisions_stale(g) ==
    [j \in 1 .. Len(judgement) |->
        IF /\ judgement[j].segment = g
           /\ judgement[j].decision \in {"SUCCEEDED", "PARTIAL"}
        THEN [judgement[j] EXCEPT !.decision = "STALE"]
        ELSE judgement[j]]

decide_meeting_segment(g, version) ==
    [create_job(g) EXCEPT !.pc = "done", !.version = version,
                          !.job = "SUCCEEDED", !.decision = "SUCCEEDED"]

\* _save_segment: a new segment, or a correction that ends every decision on
\* the version before.
save_segment(g, final) ==
    LET version == IF g > Len(segment) THEN 1 ELSE segment[g].version + 1
        row == [utterance |-> 0, version |-> version, final |-> final,
                job |-> IF final THEN Len(judgement) + 1 ELSE 0]
        before == mark_segment_decisions_stale(g)
    IN
    /\ segment' = IF g > Len(segment) THEN Append(segment, row)
                  ELSE [segment EXCEPT ![g] = row]
    /\ judgement' = IF final
                    THEN Append(before, decide_meeting_segment(g, version))
                    ELSE before

\* A correction names the version it corrects.
submit_transcript(g, expected, final) ==
    /\ meeting.status = "RECORDING"
    /\ room \/ ~final
    /\ \/ g = Len(segment) + 1 /\ g <= MaxSegments
       \/ /\ g \in 1 .. Len(segment)
          /\ segment[g].version = expected /\ expected < MaxVersion
    /\ save_segment(g, final)
    /\ UNCHANGED <<meeting, chunk>>

\* The HTTP chunk of the test mode; the same chunk again changes nothing.
add_audio_chunk ==
    /\ meeting.status = "RECORDING" /\ room
    /\ Len(segment) < MaxSegments /\ Len(chunk) < MaxSegments
    /\ chunk' = Append(chunk, [stt |-> "SUCCEEDED", utterance |-> 0])
    /\ save_segment(Len(segment) + 1, TRUE)
    /\ UNCHANGED meeting

JudgementNext ==
    \/ start_decision
    \/ \E j \in 1 .. Len(judgement) :
           \/ LoadSegment(j)
           \/ BeginJudging(j)
           \/ \E lookup \in BOOLEAN, event \in {"none", "answer", "failed"} :
                  judge_live_meeting_segment(j, lookup, event)
           \/ \E extracted \in BOOLEAN :
                  finish_live_meeting_extraction(j, extracted)
    \/ \E g \in 1 .. MaxSegments, v \in 1 .. MaxVersion, f \in BOOLEAN :
           submit_transcript(g, v, f)
    \/ add_audio_chunk

----------------------------------------------------------------------------
(* Properties *)

\* No decision that stands, shown as the result of a segment, was made from a
\* text that has since been corrected, however late the models answered ("이전
\* 버전으로 한 판단은 최신 결과로 보여주지 않는다", meeting_service._save_segment).
StandingDecisionsAreCurrent ==
    \A j \in 1 .. Len(judgement) :
        judgement[j].decision \in {"SUCCEEDED", "PARTIAL"}
            => judgement[j].version
                   = segment[judgement[j].segment].version

\* Tasks are suggested only from the words they were extracted from: a
\* correction that came in while the extraction was awaited, also after the
\* decision had been stored and shown, leaves no suggestion behind
\* (finish_live_meeting_extraction).  One that comes later ends the decision
\* and leaves the suggestions to the members.
SuggestionsAreFromTheirWords ==
    \A j \in 1 .. Len(judgement) :
        judgement[j].suggested # 0 =>
            /\ judgement[j].suggested = judgement[j].version
            /\ judgement[j].decision \in {"SUCCEEDED", "PARTIAL", "STALE"}

\* The job a client polls and the decision it leads to tell the same story,
\* though they are settled in two transactions and by corrections.
JobTellsTheDecision ==
    \A j \in 1 .. Len(judgement) :
        /\ judgement[j].job = "SUCCEEDED"
               => judgement[j].decision \in {"SUCCEEDED", "STALE"}
        /\ judgement[j].job = "FAILED"
               => judgement[j].decision \in {"PARTIAL", "FAILED", "STALE"}
=============================================================================
