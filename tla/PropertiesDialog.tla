-------------------------- MODULE PropertiesDialog --------------------------
(***************************************************************************)
(* The Transfer Properties dialog of the web interface                     *)
(* (features/transfers/transfer-properties-dialog.ts), opened by a page as *)
(* WebClient describes it.  It loads the options of a single transfer when *)
(* it opens, and saves in up to two requests: the general properties of    *)
(* all that is selected, then the options.  The user may close it and open *)
(* it again for other transfers while requests of earlier openings are     *)
(* under way.                                                              *)
(*                                                                         *)
(* Left out: the values edited (a save has changed general properties,     *)
(* options, both or none) and what the server makes of them, but that it   *)
(* refuses a transfer that is gone and may refuse the rest.                *)
(***************************************************************************)
EXTENDS WebClient

CONSTANTS
  MaxOpenings,  \* bound on how often the dialog is opened
  MaxSaves      \* bound on the saves begun

ASSUME DialogAssumption ==
  MaxOpenings \in Nat /\ MaxSaves \in Nat /\ IsFiniteSet(Transfers)

VARIABLES
  form,    \* TransferPropertiesDialog
  loads,   \* GET /transfers/:transfer/options under way
  saves,   \* onSave()'s requests under way
  opened,  \* history: opened[n] is what was selected at the n-th opening
  edited   \* history: transfers the save of an opening reached without being in it

dialogVars == <<webVars, form, loads, saves, opened, edited>>

NoTransfer == "none"

NoForm == [open |-> FALSE, transfer |-> NoTransfer, count |-> 0, session |-> 0,
           saveSession |-> 0, options |-> "none", of |-> NoTransfer, saving |-> FALSE,
           error |-> 0, closedBy |-> 0]

Opening == Len(opened)

\* onDialogVisibleChange(false), and ngOnChanges() when the shell has heard of it.
CloseForm(by) == [form EXCEPT !.open = FALSE, !.closedBy = by, !.saveSession = @ + 2]

\* The rest of the page goes on, but for the user: the form is modal.
Page ==
  /\ Others \/ Refreshes \/ Deletes \/ (~form.open /\ User)
  /\ UNCHANGED <<form, loads, saves, opened, edited>>

-----------------------------------------------------------------------------

\* openTransferPropertiesDialog() and ngOnChanges(): resetForm(), loadOptions().
\* The first of the selected transfers fills the form.
Open(t) ==
  /\ ~Modal /\ ~form.open /\ t \in selected /\ Opening < MaxOpenings
  /\ LET single == Cardinality(selected) = 1 IN
       /\ form' = [NoForm EXCEPT !.open = TRUE, !.transfer = t,
                                 !.count = Cardinality(selected),
                                 !.session = form.session + 1,
                                 !.saveSession = form.saveSession + 1,
                                 !.options = IF single THEN "loading" ELSE "none"]
       /\ loads' = IF single
                   THEN loads \cup {[session |-> form.session + 1, transfer |-> t]}
                   ELSE loads
  /\ opened' = Append(opened, selected)
  /\ UNCHANGED <<webVars, saves, edited>>

\* Mutant: whichever answer comes is taken.
AwaitedMutant(load) == TRUE

\* "so options for an earlier opening are dropped"
Awaited(load) == load.session = form.session

\* The form has fields, or none, or could not be had.
OptionsArrive(load, result) ==
  /\ loads' = loads \ {load}
  /\ result = "error" \/ home[load.transfer] \in exists
  /\ form' = IF ~Awaited(load) THEN form
             ELSE [form EXCEPT !.options = result,
                               !.of = IF result = "ready" THEN load.transfer ELSE NoTransfer]
  /\ UNCHANGED <<webVars, saves, opened, edited>>

\* Mutant: the save is of the whole table.
EditedMutant == transfers

\* updateProperties() sends what is selected by now.
Edited == selected

\* onSave(): `general' and `special' tell whether properties and options have changed.
\* With nothing left selected updateProperties() makes no request.
Save(general, special) ==
  /\ form.open /\ ~form.saving /\ Cardinality(saves) < MaxSaves
  /\ special => form.options = "ready"
  /\ form' = [form EXCEPT !.saving = TRUE, !.error = 0]
  /\ saves' = saves \cup {[session |-> form.saveSession, opening |-> Opening,
                           uuids |-> IF general THEN Edited ELSE {},
                           transfer |-> form.transfer, values |-> form.of,
                           special |-> special,
                           stage |-> IF general /\ Edited # {} THEN "general" ELSE "next"]}
  /\ edited' = IF general THEN edited \cup (Edited \ opened[Opening]) ELSE edited
  /\ UNCHANGED <<webVars, loads, opened>>

Moved(save, stage) == saves' = (saves \ {save}) \cup {[save EXCEPT !.stage = stage]}

\* PATCH /transfers and its answer in one step: a transfer that is gone refuses it for all of them.
SaveGeneral(save, ok) ==
  /\ save.stage = "general"
  /\ ok => \A t \in save.uuids : home[t] \in exists
  /\ Moved(save, IF ok THEN "next" ELSE "failed")
  /\ IF ok THEN Refetch ELSE UNCHANGED fetch
  /\ UNCHANGED <<serverVars, queues, selectedQueue, gets, pollQueue, transfers, seen,
                 selected, failing, failures, deleteVars, unasked, form, loads, opened,
                 edited>>

\* PATCH /transfers/:transfer/options, or nothing when no option has changed.
SaveOptions(save, ok) ==
  /\ save.stage = "next"
  /\ save.special /\ ok => home[save.transfer] \in exists
  /\ ~save.special => ok
  /\ Moved(save, IF ok THEN "ok" ELSE "failed")
  /\ IF save.special /\ ok THEN Refetch ELSE UNCHANGED fetch
  /\ UNCHANGED <<serverVars, queues, selectedQueue, gets, pollQueue, transfers, seen,
                 selected, failing, failures, deleteVars, unasked, form, loads, opened,
                 edited>>

\* Mutant: the dialog as it is now is taken for the one that was saved.
StillItsOwnMutant(save) == TRUE

StillItsOwn(save) == save.session = form.saveSession

SaveEnds(save) ==
  /\ save.stage \in {"ok", "failed"}
  /\ saves' = saves \ {save}
  /\ form' = IF ~StillItsOwn(save) THEN form
             ELSE IF save.stage = "ok" THEN [CloseForm(save.opening) EXCEPT !.saving = FALSE]
             ELSE [form EXCEPT !.saving = FALSE, !.error = save.opening]
  /\ UNCHANGED <<webVars, loads, opened, edited>>

CancelForm ==
  /\ form.open
  /\ form' = CloseForm(0)
  /\ UNCHANGED <<webVars, loads, saves, opened, edited>>

-----------------------------------------------------------------------------

DialogInit ==
  /\ Init /\ form = NoForm /\ loads = {} /\ saves = {} /\ opened = <<>> /\ edited = {}

Saving ==
  \E save \in saves :
    SaveEnds(save) \/ \E ok \in BOOLEAN : SaveGeneral(save, ok) \/ SaveOptions(save, ok)

DialogNext ==
  \/ Page
  \/ \E t \in Transfers : Open(t)
  \/ \E load \in loads, result \in {"ready", "none", "error"} : OptionsArrive(load, result)
  \/ \E general, special \in BOOLEAN : Save(general, special)
  \/ Saving
  \/ CancelForm

DialogSpec == DialogInit /\ [][DialogNext]_dialogVars

-----------------------------------------------------------------------------

Forms == [open : BOOLEAN, transfer : Transfers \cup {NoTransfer},
          count : 0 .. Cardinality(Transfers), session : Nat, saveSession : Nat,
          options : {"none", "loading", "ready", "error"},
          of : Transfers \cup {NoTransfer}, saving : BOOLEAN,
          error : 0 .. MaxOpenings, closedBy : 0 .. MaxOpenings]
Loads == [session : Nat, transfer : Transfers]
Saves == [session : Nat, opening : 1 .. MaxOpenings, uuids : SUBSET Transfers,
          transfer : Transfers, values : Transfers \cup {NoTransfer},
          special : BOOLEAN, stage : {"general", "next", "ok", "failed"}]

DialogTypeOK ==
  /\ WebTypeOK
  /\ form \in Forms /\ loads \subseteq Loads /\ saves \subseteq Saves
  /\ opened \in Seq(SUBSET Transfers) /\ edited \subseteq Transfers

\* "a save still in flight from an earlier opening can't close, or show its error in,
\* the dialog as it is now": nobody but the user and the save of this opening closes it,
\* and no error of an earlier one shows.
EarlierSavesStayOut ==
  /\ form.closedBy \in {0, Opening}
  /\ form.error \in {0, Opening}

\* However late options are answered and however the dialog is opened meanwhile, the
\* values in the form, and those a save sends, are of the transfer they are for.
OptionsReachTheirTransfer ==
  /\ form.options = "ready" => form.of = form.transfer /\ form.count = 1
  /\ \A save \in saves : save.special => save.values = save.transfer

\* Though a save takes what is selected by then, and the selection may have shrunk, it
\* never reaches a transfer the dialog was not opened for.
OnlyChosenEdited == edited = {}
=============================================================================
