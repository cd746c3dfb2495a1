------------------------------ MODULE UploadPage ------------------------------
(***************************************************************************)
(* The upload page: the nickname that must be reviewed by the platform     *)
(* before it is saved (NicknameFlowController), the privacy authorization  *)
(* before that, and the draft of selected files.                           *)
(*                                                                         *)
(* The platform says that a review is over, never which one: verdicts      *)
(* carry no name of what was reviewed and come in any order.               *)
(***************************************************************************)
EXTENDS Naturals, FiniteSets

CONSTANTS
  MaxEdits,     \* bound: values typed into the nickname field
  MaxBlurs,     \* bound: reviews the platform begins
  MaxRequests,  \* bound: privacy prompts
  Files,        \* files the user may pick, each once
  MaxSelected,  \* files of one selection
  MaxRenames    \* bound: new names given to one file

Values == 0..MaxEdits   \* 0 is the empty field, which is reviewed like a name
Entries == [file : Files, name : 0..MaxRenames]   \* a selected file and its name

(* What the constants must satisfy.                                        *)
ASSUME PageAssumption ==
  /\ MaxEdits \in Nat \ {0} /\ MaxBlurs \in Nat /\ MaxRequests \in Nat
  /\ IsFiniteSet(Files) /\ MaxSelected \in Nat \ {0} /\ MaxRenames \in Nat

VARIABLES
  typed, blurs, reviews, passed, overlooked,  \* the platform: values typed, reviews begun,
                                              \* those under way by value, values that passed,
                                              \* whether a review began during a save
  field, edit,                                \* the field's value, #nicknameEditSequence
  state, sequence, pending, ambiguous,        \* #nicknameReview...; sequence is {} if undefined,
                                              \* else {n} for the number n, of which 0 is one
  submitted,                                  \* #submittedNickname and its sequence
  saving, nickname,                           \* value being saved; #nickname if confirmed, or 0
  privacy, asked, choice,                     \* #nicknamePrivacy..., requests under way, last tap
  interacted,                                 \* nicknameInteracted, or the session has answered
  selected, draft, basis, gone                \* selectedMedia, draftPicking or draftSubmitting,
                                              \* its argument; entries removed, renamed or
                                              \* dispatched

platform == <<typed, blurs, reviews, passed, overlooked>>
review == <<edit, state, sequence, pending, ambiguous>>
name == <<saving, nickname>>
consent == <<privacy, asked, choice>>
files == <<selected, draft, basis, gone>>
pageVars == <<platform, field, review, submitted, name, consent, interacted, files>>

Nothing == [value |-> 0, at |-> 0]

PageInit ==
  /\ typed = 0 /\ blurs = 0 /\ reviews = [v \in Values |-> 0]
  /\ passed = {} /\ overlooked = FALSE
  /\ field = 0 /\ edit = 0
  /\ state = "idle" /\ sequence = {} /\ pending = 0 /\ ambiguous = FALSE
  /\ submitted = Nothing /\ saving = 0 /\ nickname = 0
  /\ privacy = [authorized |-> FALSE, requesting |-> FALSE, prompt |-> FALSE,
                sequence |-> 0, editing |-> FALSE]
  /\ asked = {} /\ choice = "none"
  /\ interacted = FALSE
  /\ selected = {} /\ draft = "idle" /\ basis = {} /\ gone = {}

PageTypeOK ==
  /\ typed \in 0..MaxEdits /\ blurs \in 0..MaxBlurs /\ reviews \in [Values -> 0..MaxBlurs]
  /\ passed \subseteq Values /\ overlooked \in BOOLEAN
  /\ field \in Values /\ edit \in 0..MaxEdits
  /\ state \in {"idle", "passed", "failed", "timeout", "consumed"}
  /\ sequence \in {{}} \union {{n} : n \in 0..MaxEdits} /\ pending \in 0..MaxBlurs /\ ambiguous \in BOOLEAN
  /\ submitted \in [value : Values, at : 0..MaxEdits]
  /\ saving \in Values /\ nickname \in Values
  /\ privacy \in [authorized : BOOLEAN, requesting : BOOLEAN, prompt : BOOLEAN,
                  sequence : Nat, editing : BOOLEAN]
  /\ asked \subseteq Nat /\ choice \in {"none", "agreed", "refused"}
  /\ interacted \in BOOLEAN
  /\ selected \subseteq Entries /\ Cardinality(selected) <= MaxSelected
  /\ draft \in {"idle", "picking", "submitting"}
  /\ basis \subseteq Entries /\ gone \subseteq Entries

-----------------------------------------------------------------------------
(* Privacy authorization.                                                  *)

Prompted(p) == [p EXCEPT !.editing = TRUE,
                         !.sequence = IF p.authorized THEN @ ELSE @ + 1,
                         !.prompt = ~p.authorized]

requestPrivacyAuthorization ==
  /\ ~privacy.requesting /\ ~privacy.prompt /\ privacy.sequence < MaxRequests
  /\ privacy' = Prompted(privacy) /\ interacted' = TRUE
  /\ UNCHANGED <<platform, field, review, submitted, name, asked, choice, files>>

agreePrivacyAuthorization ==
  /\ ~privacy.authorized /\ ~privacy.requesting /\ privacy.prompt
  /\ privacy' = [privacy EXCEPT !.requesting = TRUE, !.prompt = FALSE]
  /\ asked' = asked \union {privacy.sequence} /\ choice' = "agreed"
  /\ interacted' = TRUE
  /\ UNCHANGED <<platform, field, review, submitted, name, files>>

(* A tap on a panel that is no longer drawn is handled all the same.       *)
rejectPrivacyAuthorization ==
  /\ privacy.sequence \in 1..MaxRequests
  /\ privacy' = [authorized |-> FALSE, requesting |-> FALSE, prompt |-> FALSE,
                 sequence |-> privacy.sequence + 1, editing |-> nickname = 0]
  /\ choice' = "refused" /\ interacted' = TRUE
  /\ UNCHANGED <<platform, field, review, submitted, name, asked, files>>

finishPrivacyRequest(s, authorized) ==
  /\ s \in asked
  /\ asked' = asked \ {s}
  /\ privacy' = IF s # privacy.sequence THEN privacy
                ELSE [privacy EXCEPT !.authorized = authorized, !.requesting = FALSE,
                        !.prompt = FALSE, !.editing = @ /\ (authorized \/ nickname = 0)]
  /\ UNCHANGED <<platform, field, review, submitted, name, choice, interacted, files>>

(* The session's user replaces the flow of a page nobody has touched.  A   *)
(* stored nickname is a confirmed one: the server writes both together.    *)
SessionEnsured(confirmed) ==
  /\ ~interacted
  /\ interacted' = TRUE
  /\ nickname' = IF confirmed THEN 1 ELSE 0
  /\ typed' = nickname' /\ field' = nickname'
  /\ UNCHANGED <<blurs, reviews, passed, overlooked, review, submitted, saving, consent, files>>

-----------------------------------------------------------------------------
(* The nickname field.                                                     *)

FieldShown == privacy.authorized /\ (nickname = 0 \/ privacy.editing)
NoSubmission == submitted' = Nothing
ShowSafeDraft == field' = nickname

(* The user enters another name or empties the field.                      *)
onNicknameInput ==
  /\ FieldShown /\ typed < MaxEdits
  /\ typed' = typed + 1 /\ field' \in {0, typed'}
  /\ IF saving # 0 THEN UNCHANGED <<review, submitted>>
     ELSE /\ ambiguous' = (pending > 0)
          /\ sequence' = IF pending > 0 THEN sequence ELSE {}
          /\ edit' = edit + 1 /\ state' = "idle"
          /\ NoSubmission /\ UNCHANGED pending
  /\ UNCHANGED <<blurs, reviews, passed, overlooked, name, consent, interacted, files>>

Overlaps_LastCounts == FALSE   \* mutant: the review begun last replaces the others
Overlaps == pending # 0 \/ ambiguous

(* Leaving the field begins a review of its value, edited or not.          *)
onNicknameReviewStart ==
  /\ FieldShown /\ blurs < MaxBlurs
  /\ blurs' = blurs + 1 /\ reviews' = [reviews EXCEPT ![field] = @ + 1]
  /\ overlooked' = (overlooked \/ saving # 0)
  /\ IF saving # 0 THEN UNCHANGED review
     ELSE /\ ambiguous' = Overlaps
          /\ sequence' = IF Overlaps THEN sequence ELSE {edit}
          /\ state' = IF Overlaps THEN state ELSE "idle"
          /\ pending' = pending + 1 /\ UNCHANGED edit
  /\ UNCHANGED <<typed, passed, field, submitted, name, consent, interacted, files>>

saveReviewedNickname(value) ==
  /\ saving' = value
  /\ state' = "consumed" /\ sequence' = {} /\ NoSubmission
  /\ UNCHANGED nickname

Waits == UNCHANGED <<state, sequence, name>>

onNicknameSubmit ==
  /\ FieldShown /\ saving = 0
  /\ \/ /\ state \in {"failed", "timeout"}
        /\ NoSubmission /\ ShowSafeDraft /\ Waits
     \/ /\ state \in {"idle", "passed"} /\ field = 0
        /\ NoSubmission /\ ShowSafeDraft /\ Waits
     \/ /\ state \in {"idle", "passed"} /\ field # 0
        /\ IF ~ambiguous /\ state = "passed" /\ sequence = {edit}
           THEN saveReviewedNickname(field)
           ELSE submitted' = [value |-> field, at |-> edit] /\ Waits
        /\ UNCHANGED field
  /\ UNCHANGED <<platform, edit, pending, ambiguous, consent, interacted, files>>

failAmbiguousReview ==
  /\ state' = "failed" /\ sequence' = {}
  /\ NoSubmission /\ ShowSafeDraft /\ UNCHANGED name

Refused(why) ==
  /\ state' = why
  /\ NoSubmission /\ ShowSafeDraft /\ UNCHANGED <<sequence, name>>

PassCounts ==
  IF submitted.value # 0 /\ sequence = {submitted.at}
  THEN saveReviewedNickname(submitted.value) /\ UNCHANGED field
  ELSE state' = "passed" /\ UNCHANGED <<sequence, submitted, field, name>>

Unusable == ambiguous \/ sequence # {edit}

onNicknameReview(v, verdict) ==
  /\ reviews[v] > 0
  /\ reviews' = [reviews EXCEPT ![v] = @ - 1]
  /\ passed' = IF verdict = "pass" THEN passed \union {v} ELSE passed
  /\ CASE saving # 0 \/ state = "consumed" -> UNCHANGED <<pending, submitted, field, state, sequence, name>>
       [] saving = 0 /\ state # "consumed" /\ pending = 0 -> failAmbiguousReview /\ UNCHANGED pending
       [] OTHER ->
            /\ pending' = pending - 1
            /\ CASE Unusable /\ pending' = 0 -> failAmbiguousReview
                 [] Unusable /\ pending' # 0 -> UNCHANGED <<submitted, field, state, sequence, name>>
                 [] ~Unusable /\ ~privacy.authorized -> Refused("failed")
                 [] ~Unusable /\ privacy.authorized /\ verdict = "pass" -> PassCounts
                 [] OTHER -> Refused(IF verdict = "timeout" THEN "timeout" ELSE "failed")
  /\ UNCHANGED <<typed, blurs, overlooked, edit, ambiguous, consent, interacted, files>>

(* What was typed during the save may stay in the field after a failure.   *)
NicknameSaved(ok) ==
  /\ saving # 0
  /\ saving' = 0
  /\ IF ok THEN /\ nickname' = saving /\ field' = saving
                /\ privacy' = [privacy EXCEPT !.editing = FALSE]
           ELSE UNCHANGED <<nickname, privacy>> /\ field' \in {field, saving}
  /\ UNCHANGED <<platform, review, submitted, asked, choice, interacted, files>>

-----------------------------------------------------------------------------
(* The draft of selected files.                                            *)

Aside == UNCHANGED <<platform, field, review, submitted, name, consent, interacted>>
Fresh == {e \in Entries : e.name = 0 /\ \A other \in selected \union gone : other.file # e.file}

onChooseMedia ==
  /\ draft = "idle" /\ ~privacy.prompt /\ ~privacy.requesting
  /\ Cardinality(selected) < MaxSelected
  /\ draft' = "picking" /\ basis' = selected
  /\ UNCHANGED <<selected, gone>> /\ Aside

validateMediaSelection(entries) ==
  /\ entries # {} /\ Cardinality(entries) <= MaxSelected
  /\ \A e, other \in entries : e.file = other.file => e = other

MediaChosen ==
  /\ draft = "picking"
  /\ \/ UNCHANGED selected
     \/ \E picked \in SUBSET Fresh :
          validateMediaSelection(basis \union picked) /\ selected' = basis \union picked
  /\ draft' = "idle" /\ basis' = {}
  /\ UNCHANGED gone /\ Aside

onRemoveSelectedMedia_AnyTime(e) ==   \* mutant: also while files are being picked
  /\ e \in selected
  /\ selected' = selected \ {e} /\ gone' = gone \union {e}
  /\ UNCHANGED <<draft, basis>> /\ Aside
onRemoveSelectedMedia(e) ==
  /\ draft = "idle" /\ e \in selected
  /\ selected' = selected \ {e} /\ gone' = gone \union {e}
  /\ UNCHANGED <<draft, basis>> /\ Aside

renameValidatedMedia(e) == [e EXCEPT !.name = @ + 1]

onRenameSelectedMedia(e) ==
  /\ draft = "idle" /\ e \in selected /\ e.name < MaxRenames
  /\ selected' = (selected \ {e}) \union {renameValidatedMedia(e)}
  /\ gone' = gone \union {e}
  /\ UNCHANGED <<draft, basis>> /\ Aside

startSelectedUpload ==
  /\ draft = "idle" /\ selected # {}
  /\ nickname # 0 /\ saving = 0
  /\ draft' = "submitting" /\ basis' = selected
  /\ UNCHANGED <<selected, gone>> /\ Aside

emptyDraft == selected' = {}

Dispatched(ok) ==
  /\ draft = "submitting"
  /\ IF ok THEN emptyDraft /\ gone' = gone \union basis
           ELSE UNCHANGED <<selected, gone>>
  /\ draft' = "idle" /\ basis' = {}
  /\ Aside

-----------------------------------------------------------------------------
PageNext ==
  \/ requestPrivacyAuthorization \/ agreePrivacyAuthorization \/ rejectPrivacyAuthorization
  \/ \E s \in 1..(MaxRequests + 1), authorized \in BOOLEAN : finishPrivacyRequest(s, authorized)
  \/ onNicknameInput \/ onNicknameReviewStart \/ onNicknameSubmit
  \/ \E v \in Values, verdict \in {"pass", "fail", "timeout"} : onNicknameReview(v, verdict)
  \/ onChooseMedia \/ MediaChosen \/ startSelectedUpload
  \/ \E e \in selected : onRemoveSelectedMedia(e) \/ onRenameSelectedMedia(e)
  \/ \E ok \in BOOLEAN : SessionEnsured(ok) \/ NicknameSaved(ok) \/ Dispatched(ok)

PageSpec == PageInit /\ [][PageNext]_pageVars

-----------------------------------------------------------------------------
(* What is sent to be saved is a value that passed a review, or the        *)
(* nickname that is confirmed already (it is shown again while the review  *)
(* of an empty field is under way, and may be saved once more on its       *)
(* word).  So it is whatever the user types, leaves and submits meanwhile, *)
(* edited or not, and in whichever order the verdicts come, if no review   *)
(* began during a save (such a review is not counted, and its verdict may  *)
(* be taken for the next one's).  And the nickname is authorized only      *)
(* while the user's last answer to the privacy prompt is consent: a late   *)
(* success of an earlier request does not undo a refusal.                  *)
NicknameAllowed ==
  /\ ~overlooked /\ saving # 0 => saving \in passed \union {nickname}
  /\ privacy.authorized => choice = "agreed"

(* A file that was removed or handed over to the uploads is not selected   *)
(* again, and a renamed one not under its old name, by a choice that began *)
(* before.                                                                 *)
SelectionIsCurrent == selected \intersect gone = {}
=============================================================================
