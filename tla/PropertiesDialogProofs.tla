----------------------- MODULE PropertiesDialogProofs -----------------------
(***************************************************************************)
(* Proofs about PropertiesDialog, on a page as WebClient describes it, for *)
(* any number of openings, saves and requests under way.                   *)
(***************************************************************************)
EXTENDS PropertiesDialog, WebClientProofs, FiniteSetTheorems

\* What is selected while the dialog is open is what it was opened for, or less.
OpenedFor ==
  /\ Opening <= MaxOpenings
  /\ form.open => /\ Opening >= 1 /\ form.transfer \in Transfers
                  /\ selected \subseteq opened[Opening]

\* A load that the form still waits for is of its transfer.
LoadsOwn ==
  \A load \in loads :
    /\ load.session <= form.session
    /\ load.session = form.session => load.transfer = form.transfer /\ form.count = 1

\* A save that may still act on the form is of this opening.
SavesOwn ==
  \A save \in saves :
    /\ save.session <= form.saveSession
    /\ save.session = form.saveSession => save.opening = Opening

\* The part of the invariant that is about the dialog; the page's is Inv.
FormInv ==
  /\ form \in Forms /\ loads \subseteq Loads /\ saves \subseteq Saves
  /\ opened \in Seq(SUBSET Transfers) /\ edited \subseteq Transfers
  /\ OpenedFor /\ LoadsOwn /\ SavesOwn
  /\ EarlierSavesStayOut /\ OptionsReachTheirTransfer /\ OnlyChosenEdited

-----------------------------------------------------------------------------
(* The page under the dialog                                               *)

\* A step of the dialog is none of the page, or starts a fetch.
LEMMA DialogIsWebStep ==
  ASSUME [DialogNext]_dialogVars
  PROVE  WebStep
<1>1. CASE Page
  BY <1>1 DEF Page, WebStep, Next
<1>2. CASE \/ \E t \in Transfers : Open(t)
           \/ \E load \in loads, result \in {"ready", "none", "error"} :
                OptionsArrive(load, result)
           \/ \E general, special \in BOOLEAN : Save(general, special)
           \/ CancelForm \/ \E save \in saves : SaveEnds(save)
  BY <1>2 DEF Open, OptionsArrive, Save, CancelForm, SaveEnds, WebStep
<1>3. ASSUME NEW save \in saves, NEW ok \in BOOLEAN,
             SaveGeneral(save, ok) \/ SaveOptions(save, ok)
      PROVE  WebStep
  <2>1. /\ Refetch \/ UNCHANGED fetch
        /\ UNCHANGED <<serverVars, queues, selectedQueue, gets, pollQueue, transfers, seen,
                       selected, failing, failures, deleteVars, unasked>>
    BY <1>3 DEF SaveGeneral, SaveOptions
  <2>2. CASE Refetch
    BY <2>1, <2>2 DEF JustRefetch, WebStep
  <2>3. CASE UNCHANGED fetch
    <3>1. UNCHANGED webVars
      BY <2>1, <2>3 DEF webVars, viewVars
    <3>2. QED
      BY <3>1 DEF WebStep
  <2>4. QED
    BY <2>1, <2>2, <2>3
<1>4. CASE UNCHANGED dialogVars
  BY <1>4 DEF dialogVars, WebStep
<1>5. QED
  BY <1>1, <1>2, <1>3, <1>4, Zenon DEF DialogNext, Saving

\* What the page does by itself selects nothing more.
LEMMA SelectionShrinks ==
  ASSUME Others \/ Refreshes \/ Deletes
  PROVE  selected' \subseteq selected
<1> USE DEF viewVars
<1>1. CASE Refreshes
  BY <1>1 DEF Refreshes, AnswerQueues, QueuesArrive, QueuesFail, AnswerFetch, FetchArrives,
              StillThere, FetchFails, Follow, Tick
<1>2. CASE Deletes
  BY <1>2 DEF Deletes, CheckDeletion, DeleteOne, DeletionArrives, DeletionFails,
              AnswerCount, CountArrives, RemoveQueue, RemovalArrives, RemovalFails
<1>3. CASE Others
  BY <1>3 DEF Others
<1>4. QED
  BY <1>1, <1>2, <1>3

-----------------------------------------------------------------------------
(* The dialog                                                              *)

\* How many are selected.
LEMMA SelectedCount ==
  ASSUME DialogAssumption, WebTypeOK
  PROVE  Cardinality(selected) \in 0 .. Cardinality(Transfers)
BY FS_Subset, FS_CardinalityType DEF DialogAssumption, WebTypeOK, ViewTypes

\* Closing the form: earlier saves have nothing to do with it any more.
LEMMA FormCloses ==
  ASSUME NEW by \in 0 .. MaxOpenings, form \in Forms
  PROVE  /\ CloseForm(by) \in Forms /\ ~CloseForm(by).open /\ CloseForm(by).closedBy = by
         /\ CloseForm(by).saveSession = form.saveSession + 2
         /\ CloseForm(by).session = form.session
         /\ CloseForm(by).transfer = form.transfer /\ CloseForm(by).of = form.of
         /\ CloseForm(by).options = form.options /\ CloseForm(by).count = form.count
         /\ CloseForm(by).error = form.error
         /\ [CloseForm(by) EXCEPT !.saving = FALSE] \in Forms
<1>1. form.saveSession \in Nat /\ form.saveSession + 2 \in Nat
  BY DEF Forms
<1>2. CloseForm(by) = [form EXCEPT !.open = FALSE, !.closedBy = by,
                                   !.saveSession = form.saveSession + 2]
  BY DEF CloseForm, Forms
<1>3. CloseForm(by) \in Forms
  BY <1>1, <1>2 DEF Forms
<1>4. [CloseForm(by) EXCEPT !.saving = FALSE] \in Forms
  BY <1>3 DEF Forms
<1>5. QED
  BY <1>2, <1>3, <1>4 DEF Forms

\* The page goes on under the dialog.
LEMMA PageStep ==
  ASSUME FormInv, \/ Page
                  \/ UNCHANGED dialogVars
  PROVE  FormInv'
<1>1. UNCHANGED <<form, loads, saves, opened, edited>>
  BY DEF Page, dialogVars
<1>2. form.open => selected' \subseteq selected
  BY SelectionShrinks DEF Page, dialogVars, webVars, viewVars
<1>3. OpenedFor'
  BY <1>1, <1>2 DEF FormInv, OpenedFor, Opening
<1>4. QED
  BY <1>1, <1>3
     DEF FormInv, LoadsOwn, SavesOwn, EarlierSavesStayOut, OptionsReachTheirTransfer,
         OnlyChosenEdited, Opening

\* Opening the dialog: all earlier loads and saves have lower numbers.
LEMMA OpenStep ==
  ASSUME DialogAssumption, WebTypeOK, FormInv, NEW t \in Transfers, Open(t)
  PROVE  FormInv'
<1> DEFINE single == Cardinality(selected) = 1
<1>1. /\ UNCHANGED <<webVars, saves, edited>>
      /\ opened' = Append(opened, selected) /\ Opening < MaxOpenings /\ t \in selected
      /\ loads' = IF single
                  THEN loads \cup {[session |-> form.session + 1, transfer |-> t]} ELSE loads
      /\ form' = [NoForm EXCEPT !.open = TRUE, !.transfer = t,
                                !.count = Cardinality(selected),
                                !.session = form.session + 1,
                                !.saveSession = form.saveSession + 1,
                                !.options = IF single THEN "loading" ELSE "none"]
  BY DEF Open
<1>2. /\ form \in Forms /\ form.session \in Nat /\ form.saveSession \in Nat
      /\ Cardinality(selected) \in 0 .. Cardinality(Transfers) /\ MaxOpenings \in Nat
      /\ selected \in SUBSET Transfers /\ selected' = selected
      /\ opened \in Seq(SUBSET Transfers) /\ Opening \in Nat
  BY <1>1, SelectedCount
     DEF FormInv, Forms, DialogAssumption, WebTypeOK, ViewTypes, webVars, viewVars, Opening
<1>3. /\ form' \in Forms /\ form'.transfer = t /\ form'.count = Cardinality(selected)
      /\ form'.session = form.session + 1 /\ form'.saveSession = form.saveSession + 1
      /\ form'.options # "ready" /\ form'.error = 0 /\ form'.closedBy = 0
  <2>1. PICK o \in {"loading", "none"} :
          form' = [NoForm EXCEPT !.open = TRUE, !.transfer = t,
                                 !.count = Cardinality(selected),
                                 !.session = form.session + 1,
                                 !.saveSession = form.saveSession + 1, !.options = o]
    BY <1>1
  <2>2. form' = [open |-> TRUE, transfer |-> t, count |-> Cardinality(selected),
                 session |-> form.session + 1, saveSession |-> form.saveSession + 1,
                 options |-> o, of |-> NoTransfer, saving |-> FALSE, error |-> 0,
                 closedBy |-> 0]
    BY <2>1 DEF NoForm
  <2>3. form.session + 1 \in Nat /\ form.saveSession + 1 \in Nat /\ 0 \in 0 .. MaxOpenings
    BY <1>2
  <2>4. QED
    BY <1>2, <2>2, <2>3 DEF Forms
<1>4. /\ opened' \in Seq(SUBSET Transfers) /\ Opening' = Opening + 1
      /\ opened'[Opening'] = selected
  BY <1>1, <1>2 DEF Opening
<1>5. loads' \subseteq Loads /\ saves' \subseteq Saves /\ edited' \subseteq Transfers
  BY <1>1, <1>2 DEF FormInv, Loads
<1>6. OpenedFor'
  BY <1>1, <1>2, <1>3, <1>4 DEF OpenedFor
<1>7. LoadsOwn'
  <2> SUFFICES ASSUME NEW load \in loads'
               PROVE  /\ load.session <= form'.session
                      /\ load.session = form'.session =>
                           load.transfer = form'.transfer /\ form'.count = 1
    BY DEF LoadsOwn
  <2>1. CASE load \in loads
    <3>1. load.session <= form.session /\ load.session \in Nat
      BY <2>1 DEF FormInv, LoadsOwn, Loads
    <3>2. QED
      BY <1>2, <1>3, <3>1
  <2>2. CASE single /\ load = [session |-> form.session + 1, transfer |-> t]
    BY <1>2, <1>3, <2>2
  <2>3. QED
    BY <1>1, <2>1, <2>2
<1>8. SavesOwn'
  <2> SUFFICES ASSUME NEW save \in saves
               PROVE  save.session <= form'.saveSession /\ save.session # form'.saveSession
    BY <1>1 DEF SavesOwn
  <2>1. save.session <= form.saveSession /\ save.session \in Nat
    BY DEF FormInv, SavesOwn, Saves
  <2>2. QED
    BY <1>2, <1>3, <2>1
<1>9. EarlierSavesStayOut' /\ OptionsReachTheirTransfer' /\ OnlyChosenEdited'
  BY <1>1, <1>3
     DEF FormInv, EarlierSavesStayOut, OptionsReachTheirTransfer, OnlyChosenEdited
<1>10. QED
  BY <1>3, <1>4, <1>5, <1>6, <1>7, <1>8, <1>9 DEF FormInv

\* Options arrive.
LEMMA OptionsStep ==
  ASSUME FormInv, NEW load \in loads, NEW result \in {"ready", "none", "error"},
         OptionsArrive(load, result)
  PROVE  FormInv'
<1>1. /\ UNCHANGED <<webVars, saves, opened, edited>> /\ loads' \subseteq loads
      /\ form' = IF ~Awaited(load) THEN form
                 ELSE [form EXCEPT !.options = result,
                                   !.of = IF result = "ready" THEN load.transfer ELSE NoTransfer]
  BY DEF OptionsArrive
<1>2. form \in Forms /\ load.transfer \in Transfers
  BY DEF FormInv, Loads
<1>3. /\ form' \in Forms
      /\ form'.open = form.open /\ form'.transfer = form.transfer
      /\ form'.count = form.count /\ form'.session = form.session
      /\ form'.saveSession = form.saveSession /\ form'.error = form.error
      /\ form'.closedBy = form.closedBy
      /\ \/ form'.of = form.of /\ form'.options = form.options
         \/ /\ Awaited(load) /\ form'.options = result
            /\ result = "ready" => form'.of = load.transfer
  BY <1>1, <1>2 DEF Forms
<1>4. Awaited(load) => load.transfer = form.transfer /\ form.count = 1
  BY DEF Awaited, FormInv, LoadsOwn
<1>5. selected' = selected
  BY <1>1 DEF webVars, viewVars
<1>6. OpenedFor' /\ LoadsOwn' /\ SavesOwn'
  BY <1>1, <1>3, <1>5 DEF FormInv, OpenedFor, LoadsOwn, SavesOwn, Opening
<1>7. EarlierSavesStayOut' /\ OnlyChosenEdited'
  BY <1>1, <1>3 DEF FormInv, EarlierSavesStayOut, OnlyChosenEdited, Opening
<1>8. OptionsReachTheirTransfer'
  BY <1>1, <1>3, <1>4 DEF FormInv, OptionsReachTheirTransfer
<1>9. QED
  BY <1>1, <1>3, <1>6, <1>7, <1>8 DEF FormInv

\* A save begins.
LEMMA SaveStep ==
  ASSUME DialogAssumption, WebTypeOK, FormInv, NEW general \in BOOLEAN, NEW special \in BOOLEAN,
         Save(general, special)
  PROVE  FormInv'
<1> DEFINE new == [session |-> form.saveSession, opening |-> Opening,
                   uuids |-> IF general THEN Edited ELSE {},
                   transfer |-> form.transfer, values |-> form.of, special |-> special,
                   stage |-> IF general /\ Edited # {} THEN "general" ELSE "next"]
<1>1. /\ UNCHANGED <<webVars, loads, opened>> /\ form.open
      /\ special => form.options = "ready"
      /\ form' = [form EXCEPT !.saving = TRUE, !.error = 0]
      /\ saves' = saves \cup {new}
      /\ edited' = IF general THEN edited \cup (Edited \ opened[Opening]) ELSE edited
  BY DEF Save
<1>2. /\ form \in Forms /\ form.open /\ form.transfer \in Transfers
      /\ Opening \in 1 .. MaxOpenings /\ selected \subseteq opened[Opening]
      /\ selected \subseteq Transfers /\ form.saveSession \in Nat
  BY <1>1 DEF FormInv, OpenedFor, Opening, WebTypeOK, ViewTypes, Forms
<1>3. /\ new \in Saves /\ new.session = form.saveSession /\ new.opening = Opening
      /\ new.values = form.of /\ new.transfer = form.transfer /\ new.special = special
  <2>1. /\ (IF general THEN Edited ELSE {}) \in SUBSET Transfers
        /\ (IF general /\ Edited # {} THEN "general" ELSE "next") \in {"general", "next"}
        /\ form.of \in Transfers \cup {NoTransfer}
    BY <1>2 DEF Edited, Forms
  <2>2. QED
    BY <1>2, <2>1 DEF Saves
<1> HIDE DEF new
<1>4. edited' = edited
  BY <1>1, <1>2 DEF Edited
<1>5. /\ form' \in Forms /\ form'.error = 0
      /\ form'.open = form.open /\ form'.transfer = form.transfer
      /\ form'.count = form.count /\ form'.session = form.session
      /\ form'.saveSession = form.saveSession /\ form'.closedBy = form.closedBy
      /\ form'.of = form.of /\ form'.options = form.options
  <2>1. 0 \in 0 .. MaxOpenings
    BY DEF DialogAssumption
  <2>2. QED
    BY <1>1, <1>2, <2>1 DEF Forms
<1>6. OpenedFor' /\ LoadsOwn' /\ SavesOwn'
  BY <1>1, <1>2, <1>3, <1>5
     DEF FormInv, OpenedFor, LoadsOwn, SavesOwn, Opening, webVars, viewVars
<1>7. EarlierSavesStayOut' /\ OnlyChosenEdited'
  BY <1>1, <1>4, <1>5 DEF FormInv, EarlierSavesStayOut, OnlyChosenEdited, Opening
<1>8. OptionsReachTheirTransfer'
  BY <1>1, <1>3, <1>5 DEF FormInv, OptionsReachTheirTransfer
<1>9. QED
  BY <1>1, <1>3, <1>4, <1>5, <1>6, <1>7, <1>8 DEF FormInv

\* A save goes on: the form does not change, and the save stays what it was.
LEMMA MovedStep ==
  ASSUME FormInv, NEW save \in saves, NEW ok \in BOOLEAN,
         SaveGeneral(save, ok) \/ SaveOptions(save, ok)
  PROVE  FormInv'
<1>1. /\ UNCHANGED <<form, loads, opened, edited>> /\ selected' = selected
      /\ \E stage \in {"next", "ok", "failed"} : Moved(save, stage)
  BY DEF SaveGeneral, SaveOptions
<1>2. PICK stage \in {"next", "ok", "failed"} :
        saves' = (saves \ {save}) \cup {[save EXCEPT !.stage = stage]}
  BY <1>1 DEF Moved
<1> DEFINE new == [save EXCEPT !.stage = stage]
<1>3. /\ save \in Saves /\ new \in Saves /\ new.session = save.session
      /\ new.opening = save.opening /\ new.special = save.special
      /\ new.values = save.values /\ new.transfer = save.transfer
  <2>1. save \in Saves
    BY DEF FormInv
  <2>2. QED
    BY <2>1 DEF Saves
<1>4. saves' = (saves \ {save}) \cup {new}
  BY <1>2
<1> HIDE DEF new
<1>5. saves' \subseteq Saves
  BY <1>3, <1>4 DEF FormInv
<1>6. SavesOwn' /\ OptionsReachTheirTransfer'
  BY <1>1, <1>3, <1>4 DEF FormInv, SavesOwn, OptionsReachTheirTransfer, Opening
<1>7. OpenedFor' /\ LoadsOwn' /\ EarlierSavesStayOut' /\ OnlyChosenEdited'
  BY <1>1 DEF FormInv, OpenedFor, LoadsOwn, EarlierSavesStayOut, OnlyChosenEdited, Opening
<1>8. QED
  BY <1>1, <1>5, <1>6, <1>7 DEF FormInv

\* Closing, by the user or by the save of this opening.
LEMMA CloseStep ==
  ASSUME DialogAssumption, FormInv, NEW by \in {0, Opening}, by \in 0 .. MaxOpenings,
         form' = CloseForm(by) \/ form' = [CloseForm(by) EXCEPT !.saving = FALSE],
         UNCHANGED <<webVars, loads, opened, edited>>, saves' \subseteq saves
  PROVE  FormInv'
<1>1. form \in Forms
  BY DEF FormInv
<1>2. /\ form' \in Forms /\ ~form'.open /\ form'.closedBy = by
      /\ form'.saveSession = form.saveSession + 2 /\ form'.session = form.session
      /\ form'.transfer = form.transfer /\ form'.of = form.of
      /\ form'.options = form.options /\ form'.count = form.count
      /\ form'.error = form.error
  <2>1. CASE form' = CloseForm(by)
    BY <1>1, <2>1, FormCloses
  <2>2. CASE form' = [CloseForm(by) EXCEPT !.saving = FALSE]
    BY <1>1, <2>2, FormCloses DEF Forms
  <2>3. QED
    BY <2>1, <2>2
<1>3. SavesOwn'
  <2> SUFFICES ASSUME NEW save \in saves
               PROVE  save.session <= form'.saveSession /\ save.session # form'.saveSession
    BY DEF SavesOwn
  <2>1. save.session <= form.saveSession /\ save.session \in Nat /\ form.saveSession \in Nat
    BY <1>1 DEF FormInv, SavesOwn, Saves, Forms
  <2>2. QED
    BY <1>2, <2>1
<1>4. OpenedFor' /\ LoadsOwn'
  BY <1>2 DEF FormInv, OpenedFor, LoadsOwn, Opening
<1>5. EarlierSavesStayOut' /\ OptionsReachTheirTransfer' /\ OnlyChosenEdited'
  BY <1>2
     DEF FormInv, EarlierSavesStayOut, OptionsReachTheirTransfer, OnlyChosenEdited, Opening
<1>6. QED
  BY <1>2, <1>3, <1>4, <1>5 DEF FormInv

\* A save ends.
LEMMA EndStep ==
  ASSUME DialogAssumption, FormInv, NEW save \in saves, SaveEnds(save)
  PROVE  FormInv'
<1>1. /\ saves' = saves \ {save} /\ UNCHANGED <<webVars, loads, opened, edited>>
      /\ selected' = selected
  BY DEF SaveEnds, webVars, viewVars
<1>2. form \in Forms /\ save.opening \in 1 .. MaxOpenings /\ MaxOpenings \in Nat
  BY DEF FormInv, Saves, DialogAssumption
<1>3. CASE ~StillItsOwn(save)
  <2>1. form' = form
    BY <1>3 DEF SaveEnds
  <2>2. QED
    BY <1>1, <2>1
       DEF FormInv, OpenedFor, LoadsOwn, SavesOwn, EarlierSavesStayOut,
           OptionsReachTheirTransfer, OnlyChosenEdited, Opening
<1>4. CASE StillItsOwn(save)
  <2>1. save.opening = Opening
    BY <1>4 DEF StillItsOwn, FormInv, SavesOwn
  <2>2. CASE save.stage = "ok"
    <3>1. form' = [CloseForm(save.opening) EXCEPT !.saving = FALSE]
      BY <1>4, <2>2 DEF SaveEnds
    <3>2. QED
      BY <1>1, <1>2, <2>1, <3>1, CloseStep
  <2>3. CASE save.stage # "ok"
    <3>1. form' = [form EXCEPT !.saving = FALSE, !.error = save.opening]
      BY <1>4, <2>3 DEF SaveEnds
    <3>2. /\ form' \in Forms /\ form'.error = save.opening
          /\ form'.open = form.open /\ form'.transfer = form.transfer
          /\ form'.count = form.count /\ form'.session = form.session
          /\ form'.saveSession = form.saveSession /\ form'.closedBy = form.closedBy
          /\ form'.of = form.of /\ form'.options = form.options
      <4>1. save.opening \in 0 .. MaxOpenings
        BY <1>2
      <4> DEFINE e == save.opening
      <4>2. e \in 0 .. MaxOpenings /\ form' = [form EXCEPT !.saving = FALSE, !.error = e]
        BY <3>1, <4>1
      <4> HIDE DEF e
      <4>3. form' \in Forms
        BY <1>2, <4>2 DEF Forms
      <4>4. QED
        BY <1>2, <3>1, <4>3 DEF Forms
    <3>3. QED
      BY <1>1, <2>1, <3>2
         DEF FormInv, OpenedFor, LoadsOwn, SavesOwn, EarlierSavesStayOut,
             OptionsReachTheirTransfer, OnlyChosenEdited, Opening
  <2>4. QED
    BY <2>2, <2>3
<1>5. QED
  BY <1>3, <1>4

\* Every step keeps the invariant of the dialog.
LEMMA FormStep ==
  ASSUME DialogAssumption, WebTypeOK, FormInv, [DialogNext]_dialogVars
  PROVE  FormInv'
<1>1. ASSUME CancelForm
      PROVE  FormInv'
  <2>1. 0 \in 0 .. MaxOpenings
    BY DEF DialogAssumption
  <2>2. QED
    BY <1>1, <2>1, CloseStep DEF CancelForm
<1>2. ASSUME Saving
      PROVE  FormInv'
  BY <1>2, EndStep, MovedStep DEF Saving
<1>3. QED
  BY <1>1, <1>2, PageStep, OpenStep, OptionsStep, SaveStep DEF DialogNext

\* The invariant holds of a page that begins to load, with the dialog closed ...
LEMMA DialogInvInit ==
  ASSUME DialogAssumption, WebAssumption, DialogInit
  PROVE  Inv /\ FormInv
<1>1. Inv
  BY InvInit DEF DialogInit
<1>2. form = NoForm /\ loads = {} /\ saves = {} /\ opened = <<>> /\ edited = {}
  BY DEF DialogInit
<1>3. form \in Forms
  <2>1. 0 \in 0 .. MaxOpenings /\ 0 \in 0 .. Cardinality(Transfers) /\ 0 \in Nat
    BY FS_CardinalityType DEF DialogAssumption
  <2>2. QED
    BY <1>2, <2>1 DEF NoForm, Forms
<1>4. opened \in Seq(SUBSET Transfers) /\ Opening = 0
  BY <1>2 DEF Opening
<1>5. OpenedFor /\ LoadsOwn /\ SavesOwn
  BY <1>2, <1>4 DEF OpenedFor, LoadsOwn, SavesOwn, NoForm, DialogAssumption
<1>6. EarlierSavesStayOut /\ OptionsReachTheirTransfer /\ OnlyChosenEdited
  BY <1>2, <1>4
     DEF EarlierSavesStayOut, OptionsReachTheirTransfer, OnlyChosenEdited, NoForm
<1>7. QED
  BY <1>1, <1>2, <1>3, <1>4, <1>5, <1>6 DEF FormInv

\* ... and every step keeps it.
LEMMA DialogInvStep ==
  ASSUME DialogAssumption, WebAssumption, Inv, FormInv, [DialogNext]_dialogVars
  PROVE  Inv' /\ FormInv'
BY DialogIsWebStep, InvStep, FormStep DEF Inv

-----------------------------------------------------------------------------
(* Theorems                                                                *)

\* The invariant that the theorems below are parts of.
THEOREM DialogInvariant == DialogSpec => [](Inv /\ FormInv)
<1>1. DialogInit => Inv /\ FormInv
  BY DialogInvInit, DialogAssumption, WebAssumption
<1>2. (Inv /\ FormInv) /\ [DialogNext]_dialogVars => (Inv /\ FormInv)'
  BY DialogInvStep, DialogAssumption, WebAssumption
<1>3. QED
  BY <1>1, <1>2, PTL DEF DialogSpec

\* The dialog and the page under it keep the types of their state.
THEOREM DialogTypes == DialogSpec => []DialogTypeOK
<1>1. Inv /\ FormInv => DialogTypeOK
  BY DEF Inv, FormInv, DialogTypeOK
<1>2. QED
  BY <1>1, DialogInvariant, PTL

\* A save of an earlier opening neither closes the dialog nor shows its error in it.
THEOREM EarlierSavesAreDropped == DialogSpec => []EarlierSavesStayOut
<1>1. Inv /\ FormInv => EarlierSavesStayOut
  BY DEF FormInv
<1>2. QED
  BY <1>1, DialogInvariant, PTL

\* The options in the form, and those a save sends, are of the transfer they are for.
THEOREM OptionsAreTheTransfers == DialogSpec => []OptionsReachTheirTransfer
<1>1. Inv /\ FormInv => OptionsReachTheirTransfer
  BY DEF FormInv
<1>2. QED
  BY <1>1, DialogInvariant, PTL

\* No save reaches a transfer the dialog was not opened for.
THEOREM SavesReachTheChosen == DialogSpec => []OnlyChosenEdited
<1>1. Inv /\ FormInv => OnlyChosenEdited
  BY DEF FormInv
<1>2. QED
  BY <1>1, DialogInvariant, PTL

\* What is proved of the page alone holds with the dialog on it too: what is selected
\* is shown, a queue said to be empty takes nothing with it ...
THEOREM PageKeepsItsWord == DialogSpec => [](SelectionIsShown /\ NothingUnasked)
<1>1. Inv /\ FormInv => SelectionIsShown /\ NothingUnasked
  BY DEF Inv
<1>2. QED
  BY <1>1, DialogInvariant, PTL

\* ... and the table never goes back.
THEOREM DialogTableGoesForward == DialogSpec => NeverBack
<1>1. (Inv /\ FormInv) /\ [DialogNext]_dialogVars => [TableStep]_webVars
  BY DialogIsWebStep, TableNeverBack DEF Inv
<1>2. QED
  BY <1>1, DialogInvariant, PTL DEF DialogSpec, NeverBack, TableStep
=============================================================================
