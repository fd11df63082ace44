---------------------------- MODULE MCOperation ----------------------------
(* Operation on small instances.  Actions are numbered so that their types   *)
(* and steps can be given as sequences.                                      *)
EXTENDS Operation, TLC

\* One notice: drafts race with what two members do to it.
NoticeType == <<"NOTICE">>
NoticeStep == <<1>>
NoticeVersion == <<5>>

\* One notice and one mail, in two steps.
StepwiseType == <<"NOTICE", "EXTERNAL_SEND">>
StepwiseStep == <<1, 2>>
StepwiseVersion == <<2, 2>>

\* A transfer and a planned confirmation share a step; a question may open
\* another confirmation.
LedgerType == <<"TRANSFER", "CONFIRMATION", "CONFIRMATION">>
LedgerStep == <<1, 1, 0>>
LedgerVersion == <<4, 3, 2>>

MemberSymmetry == Permutations(Members)
=============================================================================
