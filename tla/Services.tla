------------------------------ MODULE Services ------------------------------
(***************************************************************************)
(* The parts of the server that keep rows, or a conversation, of their own *)
(* and meet the others only through the database: each is a module, and    *)
(* this one puts them side by side.  No variable of one part is read or    *)
(* written by another, so a behaviour of the whole server is an            *)
(* interleaving of behaviours of the parts, and what holds of each part    *)
(* alone holds of every interleaving.  `focus` is the part whose request   *)
(* moves next; it passes from part to part at any step, or, to keep an     *)
(* instance small, stays where it started (OnePartAtATime).                *)
(*                                                                         *)
(* The judgement of a meeting and the review of its minutes both look at   *)
(* the meeting's row, but neither writes it: finish_meeting is a step of   *)
(* both.  Parts that do write the same rows are composed step by step      *)
(* elsewhere: Planning with Idempotency, AudioStream with Meeting.         *)
(***************************************************************************)
EXTENDS Conditions, OperationCase, ReceiptImport, RecordIndex, Activity,
        Club, Discord, LiveJudgement, MeetingReview, PlanDiff, AgentTurn,
        Conversation, ReplyStream, Chunking, Generation, MeetingJudge, Tori,
        Figures, Speech, ActionDraft, LlmCall

CONSTANT OnePartAtATime   \* a behaviour follows the requests of one part only

VARIABLE focus

Parts == {"conditions", "cases", "receipts", "records", "activity", "clubs",
          "discord", "judgement", "reviews", "diffs", "agent", "talk", "reply",
          "chunks", "generation", "search", "judge", "tori", "figures",
          "speech", "drafts", "llm"}

meetingVars == <<meeting, chunk, segment>>

serviceVars ==
    <<focus, conditionVars, caseVars, receiptVars, recordVars, activityVars,
      clubVars, discordVars, meetingVars, judgement, reviewVars, diffVars,
      agentVars, talkVars, replyVars, cut, genVars, searchVars, judgeVars,
      toriVars, figureVars, speechVars, draftVars, llmVars>>

\* A part that rests for good starts in one of its initial states only.
PartRests(part) == OnePartAtATime /\ focus # part

Init ==
    /\ focus \in Parts
    /\ ConditionsInit /\ CaseInit /\ ReceiptInit /\ ActivityInit /\ ClubInit
    /\ DiffInit /\ AgentInit /\ TalkInit /\ ReplyInit /\ ChunkInit /\ GenInit
    /\ RetrievalInit /\ JudgeInit /\ FigureInit /\ SpeechInit /\ DraftInit
    /\ LlmInit
    /\ RecordInit
    /\ PartRests("records") => \A d \in Records : record[d].type = "PDF"
    /\ DiscordInit
    /\ PartRests("discord") => (connection.mode = "LIVE" /\ connection.enabled)
    /\ create_meeting /\ JudgementInit
    /\ PartRests("judgement") => meeting.consent
    /\ ReviewInit
    /\ PartRests("reviews") => configured
    /\ ToriInit
    /\ PartRests("tori") => \A d \in ToriRecords : shelf[d] = "INDEXED"

Rests(part, rows) == IF focus = part THEN TRUE ELSE UNCHANGED rows

Others ==
    /\ focus' \in (IF OnePartAtATime THEN {focus} ELSE Parts)
    /\ Rests("conditions", conditionVars) /\ Rests("cases", caseVars)
    /\ Rests("receipts", receiptVars) /\ Rests("records", recordVars)
    /\ Rests("activity", activityVars) /\ Rests("clubs", clubVars)
    /\ Rests("discord", discordVars) /\ Rests("judgement", judgement)
    /\ Rests("reviews", reviewVars)
    /\ IF focus \in {"judgement", "reviews"} THEN TRUE ELSE UNCHANGED meetingVars
    /\ Rests("diffs", diffVars) /\ Rests("agent", agentVars)
    /\ Rests("talk", talkVars) /\ Rests("reply", replyVars)
    /\ Rests("chunks", cut) /\ Rests("generation", genVars)
    /\ Rests("search", searchVars) /\ Rests("judge", judgeVars)
    /\ Rests("tori", toriVars) /\ Rests("figures", figureVars)
    /\ Rests("speech", speechVars) /\ Rests("drafts", draftVars)
    /\ Rests("llm", llmVars)

\* No connection records in this instance; AudioStream has those that do.
FinishRequest ==
    /\ focus \in {"judgement", "reviews"}
    /\ Others
    /\ UNCHANGED <<judgement, reviewVars>>
    /\ finish_meeting(FALSE)

Next ==
    \/ focus = "conditions" /\ Others /\ ConditionsNext
    \/ focus = "cases" /\ Others /\ CaseNext
    \/ focus = "receipts" /\ Others /\ ReceiptNext
    \/ focus = "records" /\ Others /\ RecordNext
    \/ focus = "activity" /\ Others /\ ActivityNext
    \/ focus = "clubs" /\ Others /\ ClubNext
    \/ focus = "discord" /\ Others /\ DiscordNext
    \/ focus = "judgement" /\ Others /\ JudgementNext
    \/ focus = "reviews" /\ Others /\ ReviewNext /\ UNCHANGED meetingVars
    \/ FinishRequest
    \/ focus = "diffs" /\ Others /\ DiffNext
    \/ focus = "agent" /\ Others /\ AgentNext
    \/ focus = "talk" /\ Others /\ TalkNext
    \/ focus = "reply" /\ Others /\ ReplyNext
    \/ focus = "chunks" /\ Others /\ ChunkNext
    \/ focus = "generation" /\ Others /\ GenNext
    \/ focus = "search" /\ Others /\ RetrievalNext
    \/ focus = "judge" /\ Others /\ JudgeNext
    \/ focus = "tori" /\ Others /\ ToriNext
    \/ focus = "figures" /\ Others /\ FigureNext
    \/ focus = "speech" /\ Others /\ SpeechNext
    \/ focus = "drafts" /\ Others /\ DraftNext
    \/ focus = "llm" /\ Others /\ LlmNext

Spec == Init /\ [][Next]_serviceVars

----------------------------------------------------------------------------
(* Properties of parts that answer one question together.  Those of a      *)
(* single part are in its module.                                          *)

\* A meeting is judged by what was said: a decision that stands belongs to the
\* words as they are now and tasks are suggested only from the words they were
\* extracted from, also when those were corrected while the models read the old
\* ones (judge_live_meeting_segment, finish_live_meeting_extraction,
\* _save_segment), and a job that is shown as done tells the decision that was
\* stored.
MeetingIsJudgedAsSaid ==
    /\ MeetingTypeOK /\ JudgementTypeOK
    /\ StandingDecisionsAreCurrent /\ SuggestionsAreFromTheirWords
    /\ JobTellsTheDecision

\* The review of the minutes (meeting_review_service): the provider is paid
\* for one diarization however often requests fail, time out or are retried, a
\* diarization that arrived is lost from review only when a session writes a
\* copy of the row that was overtaken meanwhile (and its job is known even
\* then), and otherwise minutes that are shown were written from the stored
\* speaker names and candidates are saved once.
ReviewIsPaidOnce ==
    ReviewTypeOK /\ PaidOnce /\ ResultIsKept /\ DraftUsesStoredNames

\* A plan is told as it is: it is announced and shown as it was written and only
\* if it fits the catalogue and the event's dates (event_generation_service), its
\* review is told what is in it, what is out and the edits that were made
\* (plan_review_service), and judged the steps and amounts of its revision.
PlanIsToldAsItIs ==
    /\ ShownPlanIsSound
    /\ ReviewIsToldTheEdits /\ ReviewSawCurrentSteps

\* What is read of a text is what the text says: chunks lose none of it
\* (chunking.py), and a figure is found in a text that has it.
TextIsToldAsItIs ==
    /\ ChunksCoverTheRecord /\ FiguresAreCompared

\* Answers from records rest on records: every cited source was found by the
\* search, the trace tells the calls that were made, an answer about events is
\* not called whole when it is not, and a deleted record is not shown.
AnswersRestOnRecords ==
    /\ EvidenceIsFound
    /\ TraceTellsTheCalls /\ EventAnswerIsHonest
    /\ ToriAnswersFromRecords

\* What comes out of a model or a recogniser is checked before it is kept, and
\* shown as it is kept: no text from silence and no gap in the saved speech, no
\* date or amount in a draft that nobody gave, no half reply taken for a whole
\* one, a screen that is in the end what was answered over disconnects and new
\* model calls, and a history that the next turn can restore, with every line
\* of progress ended as its stored result says.
OutputIsChecked ==
    /\ SavedSpeechAssembles /\ NoTextFromSilence
    /\ DraftSaysWhatWasGiven /\ RepliesAreWhole
    /\ ScreenShowsTheAnswer /\ ConversationGoesOn
=============================================================================
