-------------------------- MODULE UploadPageProofs --------------------------
(***************************************************************************)
(* Theorems about UploadPage for every number of nicknames, reviews,       *)
(* privacy prompts, files and names, and about the page and the batches    *)
(* side by side.                                                           *)
(***************************************************************************)
EXTENDS MCDevice, UploadBatchProofs, FiniteSetTheorems, TLAPS

(* Only the request that was sent last can be answered for the current     *)
(* prompt, and it was sent by a consent that nothing has taken back.       *)
ConsentInv ==
  /\ asked \subseteq 1..privacy.sequence
  /\ privacy.prompt => privacy.sequence # 0
  /\ privacy.sequence \in asked \/ privacy.authorized => choice = "agreed"

(* A page that the session's user may still replace has not been used.     *)
UntouchedInv ==
  ~interacted =>
    /\ asked = {} /\ ~privacy.authorized
    /\ typed = 0 /\ edit = 0 /\ reviews = [v \in Values |-> 0]
    /\ state = "idle" /\ pending = 0 /\ ~ambiguous
    /\ saving = 0 /\ submitted = Nothing

CountsInv ==
  /\ edit <= typed /\ pending <= blurs
  /\ \A v \in Values : reviews[v] <= blurs

(* The reviews under way, as a set.                                        *)
AwaitedOf(under) == {t \in Values \X (1..MaxBlurs) : t[2] <= under[t[1]]}

(* What the page knows of its field, whatever the platform does.           *)
FieldInv ==
  /\ submitted \in {Nothing, [value |-> field, at |-> edit]}
  /\ saving # 0 => state = "consumed" /\ submitted = Nothing
  /\ state = "consumed" => pending = 0 /\ ~ambiguous
  /\ state = "passed" => pending = 0 /\ ~ambiguous
  /\ ~ambiguous /\ pending # 0 => pending = 1 /\ state = "idle" /\ sequence = {edit}

(* What it knows of the reviews, if it has overlooked none: their number,  *)
(* and that a lone one which is not ambiguous is that of the field, unless *)
(* the field shows the confirmed nickname again.                           *)
ReviewInv ==
  ~overlooked =>
    /\ Cardinality(AwaitedOf(reviews)) = pending
    /\ ~ambiguous /\ pending # 0 => reviews[field] # 0 \/ field = nickname
    /\ state = "passed" => field \in passed \union {nickname}
    /\ saving # 0 => saving \in passed \union {nickname}

(* An entry that has gone is of a file that is not selected, or has now a  *)
(* later name.                                                             *)
FilesInv ==
  /\ basis = IF draft = "idle" THEN {} ELSE selected
  /\ \A e, other \in selected : e.file = other.file => e = other
  /\ \A e \in selected, other \in gone : e.file = other.file => other.name < e.name

PageInv ==
  /\ PageTypeOK
  /\ ConsentInv
  /\ UntouchedInv
  /\ CountsInv
  /\ FieldInv
  /\ ReviewInv
  /\ FilesInv

-----------------------------------------------------------------------------
(* The steps by what they are about.                                       *)

ConsentStep ==
  \/ requestPrivacyAuthorization \/ agreePrivacyAuthorization \/ rejectPrivacyAuthorization
  \/ \E s \in 1..(MaxRequests + 1), authorized \in BOOLEAN : finishPrivacyRequest(s, authorized)

FileStep ==
  \/ onChooseMedia \/ MediaChosen \/ startSelectedUpload
  \/ \E e \in selected : onRemoveSelectedMedia(e) \/ onRenameSelectedMedia(e)
  \/ \E ok \in BOOLEAN : Dispatched(ok)

NameStep ==
  \/ onNicknameInput \/ onNicknameReviewStart \/ onNicknameSubmit
  \/ \E v \in Values, verdict \in {"pass", "fail", "timeout"} : onNicknameReview(v, verdict)
  \/ \E ok \in BOOLEAN : SessionEnsured(ok) \/ NicknameSaved(ok)

LEMMA PageSteps == PageNext <=> ConsentStep \/ FileStep \/ NameStep
BY DEF PageNext, ConsentStep, FileStep, NameStep

LEMMA FilesAside == ASSUME FileStep PROVE UNCHANGED <<platform, field, review, submitted, name, consent, interacted>>
BY DEF FileStep, onChooseMedia, MediaChosen, startSelectedUpload, onRemoveSelectedMedia, onRenameSelectedMedia,
   Dispatched, Aside

LEMMA ConsentAside == ASSUME ConsentStep PROVE UNCHANGED <<platform, field, review, submitted, name, files>>
BY DEF ConsentStep, requestPrivacyAuthorization, agreePrivacyAuthorization, rejectPrivacyAuthorization,
   finishPrivacyRequest

LEMMA NamesAside == ASSUME NameStep PROVE UNCHANGED <<asked, choice, files>>
BY DEF NameStep, onNicknameInput, onNicknameReviewStart, onNicknameSubmit, onNicknameReview, SessionEnsured,
   NicknameSaved, consent

-----------------------------------------------------------------------------
(* The files.                                                              *)

LEMMA EntriesFinite == IsFiniteSet(Entries)
<1> DEFINE Pairs == Files \X (0..MaxRenames)
           f == [p \in Pairs |-> [file |-> p[1], name |-> p[2]]]
<1>1. IsFiniteSet(Pairs)
  <2>1. IsFiniteSet(Files) /\ 0 \in Int /\ MaxRenames \in Int
    BY PageAssumption
  <2>2. IsFiniteSet(0..MaxRenames)
    BY <2>1, FS_Interval
  <2> QED BY <2>1, <2>2, FS_Product
<1>2. f \in Surjection(Pairs, Entries)
  <2>1. \A p \in Pairs : f[p] \in Entries
    BY DEF Entries
  <2>2. ASSUME NEW e \in Entries PROVE \E p \in Pairs : f[p] = e
    <3>1. <<e.file, e.name>> \in Pairs /\ f[<<e.file, e.name>>] = e
      BY DEF Entries
    <3> QED BY <3>1
  <2> QED BY <2>1, <2>2 DEF Surjection
<1> QED BY <1>1, <1>2, FS_Surjection

FilesTypes ==
  /\ selected \subseteq Entries /\ Cardinality(selected) <= MaxSelected
  /\ draft \in {"idle", "picking", "submitting"}
  /\ basis \subseteq Entries /\ gone \subseteq Entries

(* An entry's next name is later than any the file has had.                *)
LEMMA RenamedEntry ==
  ASSUME NEW e \in Entries, e.name < MaxRenames
  PROVE  /\ renameValidatedMedia(e) \in Entries
         /\ renameValidatedMedia(e).file = e.file /\ renameValidatedMedia(e).name = e.name + 1
BY PageAssumption DEF Entries, renameValidatedMedia

LEMMA FilesKept ==
  ASSUME FilesTypes, FilesInv, FileStep
  PROVE  FilesTypes' /\ FilesInv'
<1>1. /\ IsFiniteSet(selected) /\ Cardinality(selected) \in Nat
      /\ MaxSelected \in Nat /\ Cardinality(selected) <= MaxSelected
  BY PageAssumption, EntriesFinite, FS_Subset, FS_CardinalityType DEF FilesTypes
<1>2. CASE onChooseMedia \/ startSelectedUpload
  BY <1>2 DEF onChooseMedia, startSelectedUpload, FilesTypes, FilesInv
<1>3. CASE MediaChosen
  <2>1. CASE UNCHANGED selected
    BY <1>3, <2>1 DEF MediaChosen, FilesTypes, FilesInv
  <2>2. ASSUME NEW picked \in SUBSET Fresh, validateMediaSelection(basis \union picked),
               selected' = basis \union picked
        PROVE  FilesTypes' /\ FilesInv'
    <3>1. selected' = selected \union picked /\ gone' = gone /\ draft' = "idle" /\ basis' = {}
      BY <1>3, <2>2 DEF MediaChosen, FilesInv
    <3>2. picked \subseteq Entries /\ \A e \in picked : \A other \in gone : other.file # e.file
      BY <2>2 DEF Fresh
    <3>3. /\ Cardinality(selected') <= MaxSelected
          /\ \A e, other \in selected' : e.file = other.file => e = other
      BY <2>2 DEF validateMediaSelection
    <3> QED BY <3>1, <3>2, <3>3 DEF FilesTypes, FilesInv
  <2> QED BY <1>3, <2>1, <2>2 DEF MediaChosen
<1>4. ASSUME NEW e \in selected, onRemoveSelectedMedia(e)
      PROVE  FilesTypes' /\ FilesInv'
  <2>1. /\ selected' = selected \ {e} /\ gone' = gone \union {e}
        /\ draft = "idle" /\ draft' = draft /\ basis' = basis
    BY <1>4 DEF onRemoveSelectedMedia
  <2>2. Cardinality(selected \ {e}) <= MaxSelected
    <3>1. Cardinality(selected \ {e}) = Cardinality(selected) - 1
      BY <1>1, <1>4, FS_RemoveElement
    <3> QED BY <1>1, <3>1
  <2> QED BY <2>1, <2>2 DEF FilesTypes, FilesInv
<1>5. ASSUME NEW e \in selected, onRenameSelectedMedia(e)
      PROVE  FilesTypes' /\ FilesInv'
  <2> DEFINE new == renameValidatedMedia(e)
  <2>1. /\ selected' = (selected \ {e}) \union {new} /\ gone' = gone \union {e}
        /\ draft = "idle" /\ draft' = draft /\ basis' = basis /\ e.name < MaxRenames
    BY <1>5 DEF onRenameSelectedMedia
  <2>2. e \in Entries /\ new \in Entries /\ new.file = e.file /\ new.name = e.name + 1
    BY <2>1, RenamedEntry DEF FilesTypes
  <2>3. Cardinality(selected') <= MaxSelected
    <3>1. /\ IsFiniteSet(selected \ {e}) /\ Cardinality(selected \ {e}) = Cardinality(selected) - 1
      BY <1>1, <1>5, FS_RemoveElement
    <3>2. Cardinality((selected \ {e}) \union {new}) \in {Cardinality(selected \ {e}), Cardinality(selected \ {e}) + 1}
      BY <3>1, FS_AddElement
    <3> QED BY <1>1, <2>1, <3>1, <3>2
  <2>4. FilesTypes'
    BY <2>1, <2>2, <2>3 DEF FilesTypes
  <2>5. \A x, y \in selected' : x.file = y.file => x = y
    BY <2>1, <2>2 DEF FilesInv
  <2>6. ASSUME NEW x \in selected', NEW y \in gone', x.file = y.file PROVE y.name < x.name
    <3>1. CASE x = new
      <4>1. CASE y = e
        BY PageAssumption, <2>2, <3>1, <4>1 DEF Entries
      <4>2. CASE y # e
        <5>1. y \in gone /\ y.file = e.file
          BY <2>1, <2>2, <2>6, <3>1, <4>2
        <5>2. y.name < e.name /\ y \in Entries
          BY <5>1 DEF FilesInv, FilesTypes
        <5> QED BY PageAssumption, <2>2, <3>1, <5>2 DEF Entries
      <4> QED BY <4>1, <4>2
    <3>2. CASE x # new
      <4>1. x \in selected /\ x # e
        BY <2>1, <2>6, <3>2
      <4>2. y # e
        BY <2>6, <4>1 DEF FilesInv
      <4> QED BY <2>1, <2>6, <4>1, <4>2 DEF FilesInv
    <3> QED BY <3>1, <3>2
  <2> QED BY <2>1, <2>4, <2>5, <2>6 DEF FilesInv
<1>6. ASSUME NEW ok \in BOOLEAN, Dispatched(ok)
      PROVE  FilesTypes' /\ FilesInv'
  <2>1. basis \subseteq Entries /\ draft' = "idle" /\ basis' = {}
    BY <1>6 DEF Dispatched, FilesTypes
  <2>2. CASE ok
    BY PageAssumption, <1>1, <1>6, <2>1, <2>2, FS_EmptySet DEF Dispatched, emptyDraft, FilesTypes, FilesInv
  <2>3. CASE ~ok
    BY <1>6, <2>1, <2>3 DEF Dispatched, FilesTypes, FilesInv
  <2> QED BY <2>2, <2>3
<1> QED BY <1>2, <1>3, <1>4, <1>5, <1>6 DEF FileStep
-----------------------------------------------------------------------------
(* Consent, and what a page that nobody has used is like.                  *)

PrivacyRow == [authorized : BOOLEAN, requesting : BOOLEAN, prompt : BOOLEAN, sequence : Nat, editing : BOOLEAN]

ConsentTypes ==
  /\ privacy \in PrivacyRow /\ asked \subseteq Nat /\ choice \in {"none", "agreed", "refused"}
  /\ interacted \in BOOLEAN

LEMMA ConsentKept ==
  ASSUME ConsentTypes, ConsentInv, ConsentStep
  PROVE  ConsentTypes' /\ ConsentInv'
<1>1. CASE requestPrivacyAuthorization
  <2>1. privacy' = Prompted(privacy) /\ UNCHANGED <<asked, choice>> /\ interacted' = TRUE
    BY <1>1 DEF requestPrivacyAuthorization
  <2>2. CASE privacy.authorized
    <3>1. privacy' = [privacy EXCEPT !.editing = TRUE, !.prompt = FALSE]
      BY <2>1, <2>2 DEF Prompted, ConsentTypes, PrivacyRow
    <3>2. privacy' \in PrivacyRow /\ privacy'.sequence = privacy.sequence /\ ~privacy'.prompt
      BY <3>1 DEF ConsentTypes, PrivacyRow
    <3> QED BY <2>1, <2>2, <3>2 DEF ConsentTypes, ConsentInv
  <2>3. CASE ~privacy.authorized
    <3>1. PICK n \in Nat : n = privacy.sequence + 1
      BY DEF ConsentTypes, PrivacyRow
    <3>2. privacy' = [privacy EXCEPT !.editing = TRUE, !.sequence = n, !.prompt = TRUE]
      BY <2>1, <2>3, <3>1 DEF Prompted
    <3>3. privacy' \in PrivacyRow /\ privacy'.sequence = n /\ privacy'.authorized = privacy.authorized
      BY <3>2 DEF ConsentTypes, PrivacyRow
    <3> QED BY <2>1, <2>3, <3>1, <3>3 DEF ConsentTypes, ConsentInv, PrivacyRow
  <2> QED BY <2>2, <2>3
<1>2. CASE agreePrivacyAuthorization
  <2>1. /\ privacy' = [privacy EXCEPT !.requesting = TRUE, !.prompt = FALSE]
        /\ privacy.prompt /\ asked' = asked \union {privacy.sequence} /\ choice' = "agreed" /\ interacted' = TRUE
    BY <1>2 DEF agreePrivacyAuthorization
  <2>2. privacy' \in PrivacyRow /\ privacy'.sequence = privacy.sequence /\ ~privacy'.prompt
    BY <2>1 DEF ConsentTypes, PrivacyRow
  <2> QED BY <2>1, <2>2 DEF ConsentTypes, ConsentInv, PrivacyRow
<1>3. CASE rejectPrivacyAuthorization
  <2>1. /\ privacy' \in PrivacyRow /\ ~privacy'.authorized /\ ~privacy'.prompt
        /\ privacy'.sequence = privacy.sequence + 1
        /\ asked' = asked /\ choice' = "refused" /\ interacted' = TRUE
    BY <1>3 DEF rejectPrivacyAuthorization, ConsentTypes, PrivacyRow
  <2> QED BY <2>1 DEF ConsentTypes, ConsentInv, PrivacyRow
<1>4. ASSUME NEW s \in 1..(MaxRequests + 1), NEW authorized \in BOOLEAN, finishPrivacyRequest(s, authorized)
      PROVE  ConsentTypes' /\ ConsentInv'
  <2>1. s \in asked /\ asked' = asked \ {s} /\ UNCHANGED <<choice, interacted>>
    BY <1>4 DEF finishPrivacyRequest
  <2>2. CASE s # privacy.sequence
    BY <1>4, <2>1, <2>2 DEF finishPrivacyRequest, ConsentTypes, ConsentInv
  <2>3. CASE s = privacy.sequence
    <3>1. privacy' = [privacy EXCEPT !.authorized = authorized, !.requesting = FALSE, !.prompt = FALSE,
                        !.editing = @ /\ (authorized \/ nickname = 0)]
      BY <1>4, <2>3 DEF finishPrivacyRequest
    <3>2. privacy' \in PrivacyRow /\ privacy'.sequence = privacy.sequence /\ ~privacy'.prompt
      BY <3>1 DEF ConsentTypes, PrivacyRow
    <3>3. choice = "agreed"
      BY <2>1, <2>3 DEF ConsentInv
    <3> QED BY <2>1, <3>2, <3>3 DEF ConsentTypes, ConsentInv
  <2> QED BY <2>2, <2>3
<1> QED BY <1>1, <1>2, <1>3, <1>4 DEF ConsentStep

(* The steps of the name change at most whether the name is edited.        *)
LEMMA ConsentBesideNames ==
  ASSUME ConsentTypes, ConsentInv, NameStep
  PROVE  /\ ConsentTypes' /\ ConsentInv'
         /\ privacy'.authorized = privacy.authorized
<1>1. UNCHANGED <<asked, choice>>
  BY NamesAside
<1>2. privacy' = privacy \/ privacy' = [privacy EXCEPT !.editing = FALSE]
  BY DEF NameStep, onNicknameInput, onNicknameReviewStart, onNicknameSubmit, onNicknameReview, SessionEnsured,
     NicknameSaved, consent
<1>3. interacted' \in BOOLEAN
  BY DEF NameStep, onNicknameInput, onNicknameReviewStart, onNicknameSubmit, onNicknameReview, SessionEnsured,
     NicknameSaved, ConsentTypes
<1>4. /\ privacy' \in PrivacyRow /\ privacy'.sequence = privacy.sequence
      /\ privacy'.authorized = privacy.authorized /\ privacy'.prompt = privacy.prompt
  BY <1>2 DEF ConsentTypes, PrivacyRow
<1> QED BY <1>1, <1>3, <1>4 DEF ConsentTypes, ConsentInv

LEMMA UntouchedKept ==
  ASSUME ConsentTypes, UntouchedInv, PageNext
  PROVE  UntouchedInv'
<1> SUFFICES ASSUME ~interacted' PROVE UntouchedInv'
  BY DEF UntouchedInv
<1>1. CASE FileStep
  BY <1>1, FilesAside DEF UntouchedInv, platform, review, name, consent
<1>2. CASE ConsentStep
  <2>1. PICK s \in 1..(MaxRequests + 1) : s \in asked /\ interacted' = interacted
    BY <1>2 DEF ConsentStep, requestPrivacyAuthorization, agreePrivacyAuthorization, rejectPrivacyAuthorization,
       finishPrivacyRequest
  <2> QED BY <2>1 DEF UntouchedInv
<1>3. CASE NameStep
  <2>1. interacted' = interacted
    BY <1>3 DEF NameStep, onNicknameInput, onNicknameReviewStart, onNicknameSubmit, onNicknameReview, SessionEnsured,
       NicknameSaved
  <2>2. ~privacy.authorized /\ saving = 0 /\ reviews = [v \in Values |-> 0]
    BY <2>1 DEF UntouchedInv
  <2> QED BY <1>3, <2>2 DEF NameStep, FieldShown, onNicknameInput, onNicknameReviewStart, onNicknameSubmit,
             onNicknameReview, SessionEnsured, NicknameSaved
<1> QED BY <1>1, <1>2, <1>3, PageSteps
-----------------------------------------------------------------------------
(* The reviews under way: one more, one less, a lone one, none.            *)

LEMMA AwaitedFinite ==
   /\ IsFiniteSet(AwaitedOf(reviews))
         /\ Cardinality(AwaitedOf(reviews)) \in Nat
<1>1. IsFiniteSet(0..MaxEdits) /\ IsFiniteSet(1..MaxBlurs)
  BY PageAssumption, FS_Interval
<1>2. IsFiniteSet(Values \X (1..MaxBlurs))
  BY <1>1, FS_Product DEF Values
<1>3. AwaitedOf(reviews) \subseteq Values \X (1..MaxBlurs)
  BY DEF AwaitedOf
<1> QED BY <1>2, <1>3, FS_Subset, FS_CardinalityType

LEMMA AwaitedMore ==
  ASSUME reviews \in [Values -> 0..MaxBlurs], NEW v \in Values, reviews[v] < MaxBlurs,
         reviews' = [reviews EXCEPT ![v] = @ + 1]
  PROVE  /\ reviews' \in [Values -> 0..MaxBlurs]
         /\ Cardinality(AwaitedOf(reviews')) = Cardinality(AwaitedOf(reviews)) + 1
<1>1. /\ reviews[v] \in 0..MaxBlurs /\ MaxBlurs \in Nat /\ reviews[v] + 1 \in 1..MaxBlurs
      /\ \A w \in Values : reviews[w] \in 0..MaxBlurs
  BY PageAssumption
<1>2. \A w \in Values : reviews'[w] = IF w = v THEN reviews[v] + 1 ELSE reviews[w]
  OBVIOUS
<1>3. AwaitedOf(reviews') = AwaitedOf(reviews) \union {<<v, reviews[v] + 1>>}
  BY <1>1, <1>2 DEF AwaitedOf
<1>4. <<v, reviews[v] + 1>> \notin AwaitedOf(reviews)
  BY <1>1 DEF AwaitedOf
<1>5. reviews' \in [Values -> 0..MaxBlurs]
  BY <1>1
<1> QED BY <1>3, <1>4, <1>5, AwaitedFinite, FS_AddElement

LEMMA AwaitedLess ==
  ASSUME reviews \in [Values -> 0..MaxBlurs], NEW v \in Values, reviews[v] > 0,
         reviews' = [reviews EXCEPT ![v] = @ - 1]
  PROVE  /\ reviews' \in [Values -> 0..MaxBlurs] /\ \A w \in Values : reviews'[w] <= reviews[w]
         /\ Cardinality(AwaitedOf(reviews')) = Cardinality(AwaitedOf(reviews)) - 1
<1>1. /\ reviews[v] \in 1..MaxBlurs /\ MaxBlurs \in Nat /\ reviews[v] - 1 \in 0..MaxBlurs
      /\ \A w \in Values : reviews[w] \in 0..MaxBlurs
  BY PageAssumption
<1>2. \A w \in Values : reviews'[w] = IF w = v THEN reviews[v] - 1 ELSE reviews[w]
  OBVIOUS
<1>3. AwaitedOf(reviews') = AwaitedOf(reviews) \ {<<v, reviews[v]>>}
  BY <1>1, <1>2 DEF AwaitedOf
<1>4. <<v, reviews[v]>> \in AwaitedOf(reviews)
  BY <1>1 DEF AwaitedOf
<1>5. reviews' \in [Values -> 0..MaxBlurs] /\ \A w \in Values : reviews'[w] <= reviews[w]
  BY <1>1, <1>2
<1>6. Cardinality(AwaitedOf(reviews) \ {<<v, reviews[v]>>}) = Cardinality(AwaitedOf(reviews)) - 1
  BY <1>4, AwaitedFinite, FS_RemoveElement
<1> QED BY <1>3, <1>5, <1>6

LEMMA AwaitedFew ==
  ASSUME reviews \in [Values -> 0..MaxBlurs], NEW v \in Values, reviews[v] > 0
  PROVE  /\ Cardinality(AwaitedOf(reviews)) # 0
         /\ \A w \in Values : Cardinality(AwaitedOf(reviews)) = 1 /\ reviews[w] # 0 => w = v
<1>1. \A w \in Values : reviews[w] # 0 => <<w, 1>> \in AwaitedOf(reviews)
  BY PageAssumption DEF AwaitedOf
<1>2. <<v, 1>> \in AwaitedOf(reviews)
  BY <1>1
<1>3. Cardinality(AwaitedOf(reviews)) # 0
  BY <1>2, AwaitedFinite, FS_EmptySet
<1>4. ASSUME NEW w \in Values, Cardinality(AwaitedOf(reviews)) = 1, reviews[w] # 0 PROVE w = v
  <2>1. PICK x : AwaitedOf(reviews) = {x}
    BY <1>4, AwaitedFinite, FS_Singleton
  <2> QED BY <1>1, <1>2, <1>4, <2>1
<1> QED BY <1>3, <1>4

-----------------------------------------------------------------------------
(* The name.                                                               *)

NameTypes ==
  /\ typed \in 0..MaxEdits /\ blurs \in 0..MaxBlurs /\ reviews \in [Values -> 0..MaxBlurs]
  /\ passed \subseteq Values /\ overlooked \in BOOLEAN
  /\ field \in Values /\ edit \in 0..MaxEdits
  /\ state \in {"idle", "passed", "failed", "timeout", "consumed"}
  /\ sequence \in {{}} \union {{n} : n \in 0..MaxEdits} /\ pending \in 0..MaxBlurs /\ ambiguous \in BOOLEAN
  /\ submitted \in [value : Values, at : 0..MaxEdits]
  /\ saving \in Values /\ nickname \in Values

NameInv == NameTypes /\ CountsInv /\ FieldInv /\ ReviewInv

LEMMA NothingTyped == Nothing \in [value : Values, at : 0..MaxEdits]
BY PageAssumption DEF Nothing, Values

LEMMA InputKeeps == ASSUME NameInv, onNicknameInput PROVE NameInv'
<1>1. /\ typed < MaxEdits /\ typed' = typed + 1 /\ field' \in {0, typed + 1}
      /\ UNCHANGED <<blurs, reviews, passed, overlooked, saving, nickname>>
  BY DEF onNicknameInput, name
<1>2. CASE saving # 0
  <2>1. UNCHANGED <<edit, state, sequence, pending, ambiguous, submitted>>
    BY <1>2 DEF onNicknameInput, review
  <2>2. state = "consumed" /\ submitted = Nothing /\ pending = 0 /\ ~ambiguous
    BY <1>2 DEF NameInv, FieldInv
  <2>3. NameTypes' /\ CountsInv'
    BY PageAssumption, <1>1, <2>1 DEF NameInv, NameTypes, CountsInv, Values
  <2>4. FieldInv' /\ ReviewInv'
    BY <1>1, <2>1, <2>2 DEF NameInv, FieldInv, ReviewInv, Nothing
  <2> QED BY <2>3, <2>4 DEF NameInv
<1>3. CASE saving = 0
  <2>1. /\ ambiguous' = (pending > 0) /\ sequence' \in {sequence, {}}
        /\ edit' = edit + 1 /\ state' = "idle" /\ submitted' = Nothing /\ pending' = pending
    BY <1>3 DEF onNicknameInput, NoSubmission
  <2>2. NameTypes' /\ CountsInv'
    <3>1. sequence' \in {{}} \union {{n} : n \in 0..MaxEdits}
      BY <2>1 DEF NameInv, NameTypes
    <3>2. typed' \in 0..MaxEdits /\ field' \in Values /\ edit' \in 0..MaxEdits /\ edit' <= typed'
      <4>1. /\ MaxEdits \in Nat /\ typed \in 0..MaxEdits /\ edit \in 0..MaxEdits /\ edit <= typed
            /\ typed < MaxEdits /\ typed' = typed + 1 /\ field' \in {0, typed + 1} /\ edit' = edit + 1
        BY PageAssumption, <1>1, <2>1, Zenon DEF NameInv, NameTypes, CountsInv
      <4> QED BY <4>1 DEF Values
    <3> QED BY <1>1, <2>1, <3>1, <3>2, NothingTyped DEF NameInv, NameTypes, CountsInv
  <2>3. (ambiguous' \/ pending' = 0) /\ state' = "idle"
    <3>1. pending = 0 \/ pending > 0
      BY PageAssumption DEF NameInv, NameTypes
    <3> QED BY <2>1, <3>1, Zenon
  <2>4. FieldInv' /\ ReviewInv'
    BY <1>1, <1>3, <2>1, <2>3 DEF NameInv, FieldInv, ReviewInv, Nothing
  <2> QED BY <2>2, <2>4 DEF NameInv
<1> QED BY <1>2, <1>3

LEMMA StartKeeps == ASSUME NameInv, onNicknameReviewStart PROVE NameInv'
<1>1. /\ blurs < MaxBlurs /\ blurs' = blurs + 1 /\ overlooked' = (overlooked \/ saving # 0)
      /\ reviews' = [reviews EXCEPT ![field] = @ + 1]
      /\ UNCHANGED <<typed, passed, field, submitted, saving, nickname>>
  BY DEF onNicknameReviewStart, name
<1>2. field \in Values /\ reviews[field] < MaxBlurs
  BY PageAssumption, <1>1 DEF NameInv, NameTypes, CountsInv, Values
<1>3. /\ reviews' \in [Values -> 0..MaxBlurs]
      /\ Cardinality(AwaitedOf(reviews)) \in Nat
      /\ Cardinality(AwaitedOf(reviews')) = Cardinality(AwaitedOf(reviews)) + 1
  BY <1>1, <1>2, AwaitedMore, AwaitedFinite DEF NameInv, NameTypes
<1>4. reviews'[field] = reviews[field] + 1 /\ reviews'[field] # 0
  BY PageAssumption, <1>1, <1>2 DEF NameInv, NameTypes
<1>5. \A v \in Values : reviews'[v] <= blurs'
  BY PageAssumption, <1>1, <1>2, <1>4 DEF NameInv, NameTypes, CountsInv
<1>6. CASE saving # 0
  <2>1. UNCHANGED <<edit, state, sequence, pending, ambiguous>> /\ overlooked'
    BY <1>1, <1>6 DEF onNicknameReviewStart, review
  <2>2. NameTypes' /\ CountsInv'
    BY PageAssumption, <1>1, <1>3, <1>5, <2>1 DEF NameInv, NameTypes, CountsInv
  <2>3. FieldInv' /\ ReviewInv'
    BY <1>1, <2>1 DEF NameInv, FieldInv, ReviewInv
  <2> QED BY <2>2, <2>3 DEF NameInv
<1>7. CASE saving = 0 /\ pending = 0 /\ ~ambiguous
  <2>1. sequence' = {edit} /\ state' = "idle" /\ ~ambiguous' /\ ambiguous' \in BOOLEAN
        /\ pending' = 1 /\ edit' = edit
    <3>1. ~Overlaps
      BY <1>7 DEF Overlaps
    <3>2. /\ ambiguous' = Overlaps /\ sequence' = (IF Overlaps THEN sequence ELSE {edit})
          /\ state' = (IF Overlaps THEN state ELSE "idle") /\ pending' = pending + 1 /\ edit' = edit
      BY <1>7, Zenon DEF onNicknameReviewStart
    <3>3. sequence' = {edit} /\ state' = "idle" /\ edit' = edit
      BY <3>1, <3>2, Zenon
    <3>4. ~ambiguous' /\ ambiguous' \in BOOLEAN
      BY <3>1, <3>2, Zenon DEF Overlaps
    <3>5. pending' = 1
      BY <1>7, <3>2
    <3> QED BY <3>3, <3>4, <3>5
  <2>2. NameTypes' /\ CountsInv'
    BY PageAssumption, <1>1, <1>3, <1>5, <1>7, <2>1 DEF NameInv, NameTypes, CountsInv
  <2>3. FieldInv'
    BY <1>1, <1>7, <2>1 DEF NameInv, FieldInv
  <2>4. ASSUME ~overlooked' PROVE Cardinality(AwaitedOf(reviews')) = 1 /\ state' # "passed"
    <3>1. ~overlooked
      BY <1>1, <2>4, Zenon
    <3>2. Cardinality(AwaitedOf(reviews)) = 0
      BY <1>7, <3>1 DEF NameInv, ReviewInv
    <3> QED BY <1>3, <2>1, <3>2
  <2>5. ReviewInv'
    BY <1>1, <1>4, <1>7, <2>1, <2>4 DEF ReviewInv
  <2> QED BY <2>2, <2>3, <2>5 DEF NameInv
<1>8. CASE saving = 0 /\ ~(pending = 0 /\ ~ambiguous)
  <2>1. sequence' = sequence /\ state' = state /\ ambiguous' /\ ambiguous' \in BOOLEAN
        /\ pending' = pending + 1 /\ edit' = edit
    BY <1>8 DEF onNicknameReviewStart, Overlaps
  <2>2. state \notin {"consumed", "passed"}
    BY <1>8 DEF NameInv, FieldInv
  <2>3. NameTypes' /\ CountsInv'
    BY PageAssumption, <1>1, <1>3, <1>5, <2>1 DEF NameInv, NameTypes, CountsInv
  <2>4. FieldInv'
    BY <1>1, <1>8, <2>1, <2>2 DEF NameInv, FieldInv
  <2>5. ReviewInv'
    BY <1>1, <1>3, <1>8, <2>1, <2>2 DEF NameInv, ReviewInv
  <2> QED BY <2>3, <2>4, <2>5 DEF NameInv
<1> QED BY <1>6, <1>7, <1>8

LEMMA SubmitKeeps == ASSUME NameInv, onNicknameSubmit PROVE NameInv'
<1>1. /\ saving = 0 /\ UNCHANGED <<typed, blurs, reviews, passed, overlooked, edit, pending, ambiguous>>
  BY DEF onNicknameSubmit, platform
<1>2. ASSUME submitted' = Nothing, field' = nickname, UNCHANGED <<state, sequence, saving, nickname>>,
             state \in {"failed", "timeout"} \/ (state \in {"idle", "passed"} /\ field = 0)
      PROVE  NameInv'
  <2>1. state # "consumed"
    BY <1>2
  <2>2. NameTypes' /\ CountsInv'
    BY <1>1, <1>2, NothingTyped DEF NameInv, NameTypes, CountsInv
  <2>3. FieldInv' /\ ReviewInv'
    BY <1>1, <1>2, <2>1 DEF NameInv, FieldInv, ReviewInv
  <2> QED BY <2>2, <2>3 DEF NameInv
<1>3. ASSUME field # 0, state = "passed", saveReviewedNickname(field), field' = field
      PROVE  NameInv'
  <2>1. /\ saving' = field /\ state' = "consumed" /\ sequence' = {} /\ submitted' = Nothing /\ nickname' = nickname
    BY <1>3 DEF saveReviewedNickname, NoSubmission
  <2>2. pending = 0 /\ ~ambiguous
    BY <1>3 DEF NameInv, FieldInv
  <2>3. NameTypes' /\ CountsInv'
    BY PageAssumption, <1>1, <1>3, <2>1, NothingTyped DEF NameInv, NameTypes, CountsInv
  <2>4. FieldInv' /\ ReviewInv'
    BY <1>1, <1>3, <2>1, <2>2 DEF NameInv, FieldInv, ReviewInv
  <2> QED BY <2>3, <2>4 DEF NameInv
<1>4. ASSUME submitted' = [value |-> field, at |-> edit], field' = field,
             UNCHANGED <<state, sequence, saving, nickname>>
      PROVE  NameInv'
  <2>1. NameTypes' /\ CountsInv'
    BY <1>1, <1>4 DEF NameInv, NameTypes, CountsInv
  <2>2. FieldInv' /\ ReviewInv'
    BY <1>1, <1>4 DEF NameInv, FieldInv, ReviewInv
  <2> QED BY <2>1, <2>2 DEF NameInv
<1> QED BY <1>2, <1>3, <1>4 DEF onNicknameSubmit, NoSubmission, ShowSafeDraft, Waits, name

LEMMA VerdictKeeps ==
  ASSUME NameInv, NEW v \in Values, NEW verdict \in {"pass", "fail", "timeout"},
         onNicknameReview(v, verdict)
  PROVE  NameInv'
<1>1. /\ reviews[v] > 0 /\ reviews' = [reviews EXCEPT ![v] = @ - 1]
      /\ passed' = IF verdict = "pass" THEN passed \union {v} ELSE passed
      /\ UNCHANGED <<typed, blurs, overlooked, edit, ambiguous>>
  BY DEF onNicknameReview
<1>2. /\ reviews' \in [Values -> 0..MaxBlurs] /\ \A w \in Values : reviews'[w] <= reviews[w]
      /\ Cardinality(AwaitedOf(reviews)) \in Nat
      /\ Cardinality(AwaitedOf(reviews')) = Cardinality(AwaitedOf(reviews)) - 1
  BY <1>1, AwaitedLess, AwaitedFinite DEF NameInv, NameTypes
<1>3. /\ passed \subseteq passed' /\ passed' \subseteq Values
      /\ verdict = "pass" => v \in passed'
  BY <1>1 DEF NameInv, NameTypes
<1>4. /\ Cardinality(AwaitedOf(reviews)) # 0
      /\ \A w \in Values : Cardinality(AwaitedOf(reviews)) = 1 /\ reviews[w] # 0 => w = v
  BY <1>1, AwaitedFew DEF NameInv, NameTypes
<1>5. \A w \in Values : reviews'[w] <= blurs'
  BY PageAssumption, <1>1, <1>2 DEF NameInv, NameTypes, CountsInv
<1>6. CASE saving # 0 \/ state = "consumed"
  <2>1. UNCHANGED <<pending, submitted, field, state, sequence, saving, nickname>>
    BY <1>6 DEF onNicknameReview, name
  <2>2. pending = 0
    BY <1>6 DEF NameInv, FieldInv
  <2>3. overlooked
    BY <1>4, <2>2 DEF NameInv, ReviewInv
  <2>4. NameTypes' /\ CountsInv'
    BY <1>1, <1>2, <1>3, <1>5, <2>1 DEF NameInv, NameTypes, CountsInv
  <2>5. FieldInv' /\ ReviewInv'
    BY <1>1, <2>1, <2>3 DEF NameInv, FieldInv, ReviewInv
  <2> QED BY <2>4, <2>5 DEF NameInv
<1>7. ASSUME saving = 0, pending' \in {pending, pending - 1}, pending' = 0,
             state' \in {"failed", "timeout"}, sequence' \in {sequence, {}}, submitted' = Nothing, field' = nickname,
             UNCHANGED <<saving, nickname>>,
             ~overlooked => Cardinality(AwaitedOf(reviews)) = 1
      PROVE  NameInv'
  <2>1. NameTypes' /\ CountsInv'
    BY PageAssumption, <1>1, <1>2, <1>3, <1>5, <1>7, NothingTyped DEF NameInv, NameTypes, CountsInv
  <2>2. FieldInv'
    BY <1>7 DEF FieldInv
  <2>3. ReviewInv'
    BY <1>1, <1>2, <1>7 DEF ReviewInv
  <2> QED BY <2>1, <2>2, <2>3 DEF NameInv
<1>8. CASE saving = 0 /\ state # "consumed" /\ pending = 0
  <2>1. failAmbiguousReview /\ pending' = pending
    BY <1>8 DEF onNicknameReview
  <2>2. overlooked
    BY <1>4, <1>8 DEF NameInv, ReviewInv
  <2> QED BY <1>7, <1>8, <2>1, <2>2 DEF failAmbiguousReview, NoSubmission, ShowSafeDraft, name
<1>9. CASE saving = 0 /\ state # "consumed" /\ pending # 0
  <2>1. /\ pending' = pending - 1
        /\ CASE Unusable /\ pending' = 0 -> failAmbiguousReview
             [] Unusable /\ pending' # 0 -> UNCHANGED <<submitted, field, state, sequence, name>>
             [] ~Unusable /\ ~privacy.authorized -> Refused("failed")
             [] ~Unusable /\ privacy.authorized /\ verdict = "pass" -> PassCounts
             [] OTHER -> Refused(IF verdict = "timeout" THEN "timeout" ELSE "failed")
    BY <1>9 DEF onNicknameReview
  <2>2. ~overlooked => Cardinality(AwaitedOf(reviews)) = pending
    BY DEF NameInv, ReviewInv
  <2>3. pending \in Nat /\ pending' \in 0..MaxBlurs /\ pending' <= blurs'
    BY PageAssumption, <1>1, <1>9, <2>1 DEF NameInv, NameTypes, CountsInv
  <2>4. CASE Unusable /\ pending' = 0
    <3>1. failAmbiguousReview /\ pending = 1
      BY <2>1, <2>3, <2>4
    <3> QED BY <1>7, <1>9, <2>1, <2>2, <2>4, <3>1 DEF failAmbiguousReview, NoSubmission, ShowSafeDraft, name
  <2>5. CASE Unusable /\ pending' # 0
    <3>1. UNCHANGED <<submitted, field, state, sequence, saving, nickname>>
      BY <2>1, <2>5 DEF name
    <3>2. ambiguous /\ state # "passed"
      BY <1>9, <2>1, <2>3, <2>5 DEF NameInv, FieldInv
    <3>3. NameTypes' /\ CountsInv'
      BY <1>1, <1>2, <1>3, <1>5, <2>3, <3>1 DEF NameInv, NameTypes, CountsInv
    <3>4. FieldInv'
      BY <1>1, <1>9, <3>1, <3>2 DEF NameInv, FieldInv
    <3>5. ReviewInv'
      BY <1>1, <1>2, <1>9, <2>1, <2>2, <3>1, <3>2 DEF ReviewInv
    <3> QED BY <3>3, <3>4, <3>5 DEF NameInv
  <2>6. CASE ~Unusable
    <3>1. ~ambiguous /\ pending = 1 /\ state = "idle" /\ sequence = {edit} /\ pending' = 0
      BY <1>9, <2>1, <2>6 DEF NameInv, FieldInv, Unusable
    <3>2. ~overlooked => v = field \/ field = nickname
      BY <1>4, <2>2, <3>1 DEF NameInv, NameTypes, ReviewInv
    <3>3. ASSUME NEW why \in {"failed", "timeout"}, Refused(why) PROVE NameInv'
      BY <1>7, <1>9, <2>1, <2>2, <3>1, <3>3 DEF Refused, NoSubmission, ShowSafeDraft, name
    <3>4. CASE privacy.authorized /\ verdict = "pass"
      <4>1. PassCounts
        BY <2>1, <2>6, <3>4
      <4>2. CASE submitted.value # 0 /\ sequence = {submitted.at}
        <5>1. /\ submitted.value = field
          BY <4>2 DEF NameInv, FieldInv, Nothing
        <5>2. /\ saving' = field /\ state' = "consumed" /\ sequence' = {} /\ submitted' = Nothing
              /\ nickname' = nickname /\ field' = field
          BY <4>1, <4>2, <5>1 DEF PassCounts, saveReviewedNickname, NoSubmission
        <5>3. NameTypes' /\ CountsInv'
          BY PageAssumption, <1>1, <1>2, <1>3, <1>5, <2>3, <5>2, NothingTyped DEF NameInv, NameTypes, CountsInv
        <5>4. FieldInv'
          BY <1>1, <3>1, <5>2 DEF FieldInv
        <5>5. ReviewInv'
          BY <1>1, <1>2, <1>3, <2>1, <2>2, <3>1, <3>2, <3>4, <5>2 DEF ReviewInv
        <5> QED BY <5>3, <5>4, <5>5 DEF NameInv
      <4>3. CASE ~(submitted.value # 0 /\ sequence = {submitted.at})
        <5>1. state' = "passed" /\ UNCHANGED <<sequence, submitted, field, saving, nickname>>
          BY <4>1, <4>3 DEF PassCounts, name
        <5>2. NameTypes' /\ CountsInv'
          BY <1>1, <1>2, <1>3, <1>5, <2>3, <5>1 DEF NameInv, NameTypes, CountsInv
        <5>3. FieldInv'
          BY <1>1, <1>9, <3>1, <5>1 DEF NameInv, FieldInv
        <5>4. ReviewInv'
          BY <1>1, <1>2, <1>3, <1>9, <2>1, <2>2, <3>1, <3>2, <3>4, <5>1 DEF ReviewInv
        <5> QED BY <5>2, <5>3, <5>4 DEF NameInv
      <4> QED BY <4>2, <4>3
    <3>5. CASE ~(privacy.authorized /\ verdict = "pass")
      <4>1. Refused("failed") \/ Refused("timeout")
        BY <2>1, <2>6, <3>5
      <4> QED BY <3>3, <4>1
    <3> QED BY <3>4, <3>5
  <2> QED BY <2>4, <2>5, <2>6
<1> QED BY <1>6, <1>8, <1>9

LEMMA SavedKeeps ==
  ASSUME NameInv, NEW ok \in BOOLEAN, NicknameSaved(ok)
  PROVE  NameInv'
<1>1. /\ saving # 0 /\ saving' = 0 /\ nickname' \in {nickname, saving} /\ field' \in {field, saving}
      /\ UNCHANGED <<typed, blurs, reviews, passed, overlooked, edit, state, sequence, pending, ambiguous, submitted>>
  BY DEF NicknameSaved, platform, review
<1>2. state = "consumed" /\ submitted = Nothing /\ pending = 0 /\ ~ambiguous
  BY <1>1 DEF NameInv, FieldInv
<1>3. NameTypes' /\ CountsInv'
  BY PageAssumption, <1>1 DEF NameInv, NameTypes, CountsInv, Values
<1>4. FieldInv' /\ ReviewInv'
  BY <1>1, <1>2 DEF NameInv, FieldInv, ReviewInv
<1> QED BY <1>3, <1>4 DEF NameInv

LEMMA EnsuredKeeps ==
  ASSUME NameInv, UntouchedInv, NEW ok \in BOOLEAN, SessionEnsured(ok)
  PROVE  NameInv'
<1>1. /\ ~interacted /\ nickname' \in {0, 1} /\ typed' = nickname' /\ field' = nickname'
      /\ UNCHANGED <<blurs, reviews, passed, overlooked, edit, state, sequence, pending, ambiguous, submitted, saving>>
  BY DEF SessionEnsured, review
<1>2. edit = 0 /\ state = "idle" /\ pending = 0 /\ ~ambiguous /\ saving = 0 /\ submitted = Nothing
  BY <1>1 DEF UntouchedInv
<1>3. NameTypes' /\ CountsInv'
  BY PageAssumption, <1>1, <1>2 DEF NameInv, NameTypes, CountsInv, Values
<1>4. FieldInv' /\ ReviewInv'
  BY <1>1, <1>2 DEF NameInv, FieldInv, ReviewInv
<1> QED BY <1>3, <1>4 DEF NameInv

LEMMA NamesKept ==
  ASSUME NameInv, UntouchedInv, PageNext
  PROVE  NameInv'
<1>1. CASE ConsentStep
  BY <1>1, ConsentAside DEF NameInv, NameTypes, CountsInv, FieldInv, ReviewInv, platform, review, name
<1>2. CASE FileStep
  BY <1>2, FilesAside DEF NameInv, NameTypes, CountsInv, FieldInv, ReviewInv, platform, review, name
<1>3. CASE NameStep
  BY <1>3, InputKeeps, StartKeeps, SubmitKeeps, VerdictKeeps, SavedKeeps, EnsuredKeeps DEF NameStep
<1> QED BY <1>1, <1>2, <1>3, PageSteps

-----------------------------------------------------------------------------
LEMMA PageParts == PageInv <=> ConsentTypes /\ ConsentInv /\ UntouchedInv /\ NameInv /\ FilesTypes /\ FilesInv
BY DEF PageInv, PageTypeOK, ConsentTypes, PrivacyRow, NameInv, NameTypes, FilesTypes

LEMMA PageBegins == PageInit => PageInv
<1> SUFFICES ASSUME PageInit PROVE PageInv
  OBVIOUS
<1>1. ConsentTypes /\ ConsentInv /\ UntouchedInv
  BY DEF PageInit, ConsentTypes, PrivacyRow, ConsentInv, UntouchedInv
<1>2. NameTypes /\ CountsInv /\ FieldInv
  <2>1. MaxEdits \in Nat /\ MaxBlurs \in Nat
    BY PageAssumption
  <2>2. NameTypes
    <3>1. reviews \in [Values -> 0..MaxBlurs]
      BY <2>1 DEF PageInit
    <3>2. submitted \in [value : Values, at : 0..MaxEdits]
      BY NothingTyped DEF PageInit
    <3>3. /\ {typed, field, edit, saving, nickname} \subseteq 0..MaxEdits
          /\ {blurs, pending} \subseteq 0..MaxBlurs /\ sequence = {}
      BY <2>1 DEF PageInit
    <3>4. overlooked \in BOOLEAN /\ ambiguous \in BOOLEAN /\ passed \subseteq Values /\ state = "idle"
      BY DEF PageInit
    <3> QED BY <3>1, <3>2, <3>3, <3>4 DEF NameTypes, Values
  <2>3. CountsInv
    BY <2>1 DEF PageInit, CountsInv
  <2>4. FieldInv
    BY DEF PageInit, FieldInv
  <2> QED BY <2>2, <2>3, <2>4
<1>3. ReviewInv
  <2>1. AwaitedOf(reviews) = {}
    BY PageAssumption DEF PageInit, AwaitedOf, Values
  <2> QED BY <2>1, FS_EmptySet DEF PageInit, ReviewInv
<1>4. FilesTypes /\ FilesInv
  BY PageAssumption, FS_EmptySet DEF PageInit, FilesTypes, FilesInv
<1> QED BY <1>1, <1>2, <1>3, <1>4, PageParts DEF NameInv

LEMMA PageStep == ASSUME PageInv, [PageNext]_pageVars PROVE PageInv'
<1>1. ConsentTypes /\ ConsentInv /\ UntouchedInv /\ NameInv /\ FilesTypes /\ FilesInv
  BY PageParts
<1>2. CASE UNCHANGED pageVars
  BY <1>2 DEF pageVars, platform, review, name, consent, files, PageInv, PageTypeOK, ConsentInv, UntouchedInv, CountsInv,
     FieldInv, ReviewInv, FilesInv
<1>3. CASE PageNext
  <2>1. UntouchedInv' /\ NameInv'
    BY <1>1, <1>3, UntouchedKept, NamesKept
  <2>2. ConsentTypes' /\ ConsentInv'
    <3>1. CASE FileStep
      BY <1>1, <3>1, FilesAside DEF ConsentTypes, ConsentInv, consent
    <3> QED BY <1>1, <1>3, <3>1, PageSteps, ConsentKept, ConsentBesideNames
  <2>3. FilesTypes' /\ FilesInv'
    <3>1. CASE ConsentStep \/ NameStep
      BY <1>1, <3>1, ConsentAside, NamesAside DEF FilesTypes, FilesInv, files
    <3> QED BY <1>1, <1>3, <3>1, PageSteps, FilesKept
  <2>4. (ConsentTypes /\ ConsentInv /\ UntouchedInv /\ NameInv /\ FilesTypes /\ FilesInv)' => PageInv'
    BY PageParts, PTL
  <2> QED BY <2>1, <2>2, <2>3, <2>4
<1> QED BY <1>2, <1>3

(* The inductive invariant: what the page knows of its reviews, of the     *)
(* user's consent and of its draft.                                        *)
THEOREM PageInvariant == PageSpec => []PageInv
<1>1. PageInit => PageInv
  BY PageBegins
<1>2. PageInv /\ [PageNext]_pageVars => PageInv'
  BY PageStep
<1> QED BY <1>1, <1>2, PTL DEF PageSpec

(* The variables keep their types; no selection exceeds its limit.         *)
THEOREM PageTyping == PageSpec => []PageTypeOK
<1>1. PageInv => PageTypeOK
  BY DEF PageInv
<1> QED BY <1>1, PageInvariant, PTL

(* However reviews and edits overlap, whether or not the field has been    *)
(* edited, the name sent to be saved has passed one or is the confirmed    *)
(* nickname, unless a review began while a name was being saved; and       *)
(* nothing is authorized that the user's last tap has refused.             *)
THEOREM NamesAreAllowed == PageSpec => []NicknameAllowed
<1>1. PageInv => NicknameAllowed
  BY DEF PageInv, ConsentInv, ReviewInv, NicknameAllowed
<1> QED BY <1>1, PageInvariant, PTL

(* What was removed, renamed or handed over does not come back under its   *)
(* old name.                                                               *)
THEOREM SelectionsAreCurrent == PageSpec => []SelectionIsCurrent
<1>1. PageInv => SelectionIsCurrent
  <2> SUFFICES ASSUME PageInv, NEW e \in selected, e \in gone PROVE FALSE
    BY DEF SelectionIsCurrent
  <2>1. e.name < e.name /\ e \in Entries
    BY DEF PageInv, PageTypeOK, FilesInv
  <2> QED BY <2>1 DEF Entries
<1> QED BY <1>1, PageInvariant, PTL

-----------------------------------------------------------------------------
(* The run explores the batches and the page side by side; each of its     *)
(* behaviours is one of both.                                              *)
THEOREM DeviceComposes == Spec => BatchSpec /\ PageSpec
<1>1. Init => BatchInit /\ PageInit
  BY DEF Init
<1>2. [Next]_vars => [BatchNext]_batchVars /\ [PageNext]_pageVars
  BY DEF Next, vars
<1> QED BY <1>1, <1>2, PTL DEF Spec, BatchSpec, PageSpec

(* Whichever of the two takes steps, the variables of both keep their      *)
(* types.                                                                  *)
THEOREM DeviceTyping == Spec => []TypeOK
<1>1. BatchTypeOK /\ PageTypeOK => TypeOK
  BY DEF TypeOK
<1> QED BY <1>1, DeviceComposes, BatchTyping, PageTyping, PTL
=============================================================================
