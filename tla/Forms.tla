------------------------------- MODULE Forms -------------------------------
(***************************************************************************)
(* The forms of the browser over a ledger that other devices change while  *)
(* they are open.  One tab shows one form at a time; live synchronisation  *)
(* replaces the ledger under it (LedgerSync says when), and every form     *)
(* decides what it does with a field already filled, with the question it  *)
(* has asked and with the month that has just been closed.                 *)
(*                                                                         *)
(* `book' is the ledger as this tab holds it, reduced to what the forms    *)
(* tell apart: a category of expense with a cell and one movement of it, a *)
(* pocket and one withdrawal, all of month 1; the place of the category    *)
(* and how many subcategories hang from it; how far the months are closed; *)
(* and the payday in force (0 is the calendar month).  What the domain     *)
(* does with a figure is modelled in LedgerClosure, Reserve, CategoryTree  *)
(* and Cycles; here only its verdict counts.                               *)
(*                                                                         *)
(* `form' is what the open form remembers (the React state of its          *)
(* component), `left' bounds how often others and this tab change the book.*)
(* `requests' is the chain of exclusive writes of the store, as far as     *)
(* closing and reopening go: each waits for the one before and for the     *)
(* queue of saves, and is sent only then, with the revision found there.   *)
(* A save that meets a conflict in that wait replaces the ledger.          *)
(***************************************************************************)
EXTENDS Integers, Sequences

CONSTANTS Max,        \* largest figure
          Months,     \* months that can be closed
          Paydays,    \* paydays the user may choose
          Places,     \* groups the category can hang from
          Foreign,    \* bound: changes that arrive from other devices
          Edits       \* bound: changes this tab saves or asks for

ASSUME FormsAssumption ==
  /\ Max \in Nat \ {0} /\ Months \in Nat \ {0} /\ Paydays \in Nat \ {0}
  /\ Places # {} /\ Foreign \in Nat /\ Edits \in Nat

VARIABLES book, form, left, requests

forms == <<book, form, left, requests>>

Amounts == 0 .. Max

Books == [cell : Amounts, move : Amounts, pocket : Amounts, out : Amounts,
          closed : 0 .. Months, reopened : BOOLEAN,
          food : BOOLEAN, kids : 0 .. 2, place : Places, payday : 0 .. Paydays]

Nothing == [at |-> "nothing"]
Idle == [at |-> "idle"]
None == -1
NoPreview == [target |-> None, of |-> Nothing]

Figures(b) == <<b.cell, b.move, b.pocket, b.out>>

Open(b) == b.closed = 0
Leaf(b) == b.food /\ b.kids = 0

\* ---- What a change does to the book, and when the domain accepts it.

SetCell(b, v) == IF Leaf(b) THEN [b EXCEPT !.cell = v] ELSE b
MoveFits(b, v) == b.cell - b.move + v \in Amounts
SetMove(b, v) == [b EXCEPT !.move = v, !.cell = b.cell - b.move + v]
PocketFits(b, v) == v >= b.out
SetPocket(b, v) == [b EXCEPT !.pocket = v]
OutFits(b, v) == v <= b.pocket
SetOut(b, v) == [b EXCEPT !.out = v]

\* The first child of a leaf takes its figures with it.
CarriesClosed(b) == b.kids = 0 /\ b.cell + b.move > 0 /\ ~Open(b)
AddKid(b) == [b EXCEPT !.kids = @ + 1]
DropKid(b) == [b EXCEPT !.kids = @ - 1]
Deletable(b) == b.food /\ b.kids = 0 /\ b.cell = 0 /\ b.move = 0
Delete(b) == [b EXCEPT !.food = FALSE]

Close(b) == [b EXCEPT !.closed = @ + 1, !.reopened = FALSE]
Reopen(b) == [b EXCEPT !.closed = @ - 1, !.reopened = TRUE]
Closable(b) == b.closed < Months
Reopenable(b) == b.closed > 0 /\ ~b.reopened

PaydayFits(b, d) == d # b.payday /\ (d = 0 => b.closed = 0)

\* The books one change accepted on another device can leave.
Accepted(b) ==
  UNION {
    IF Open(b) /\ Leaf(b) THEN {SetCell(b, v) : v \in Amounts} ELSE {},
    IF Open(b) /\ Leaf(b) THEN {SetMove(b, v) : v \in {w \in Amounts : MoveFits(b, w)}} ELSE {},
    IF Open(b) THEN {SetPocket(b, v) : v \in {w \in Amounts : PocketFits(b, w)}} ELSE {},
    IF Open(b) THEN {SetOut(b, v) : v \in {w \in Amounts : OutFits(b, w)}} ELSE {},
    IF b.food /\ b.kids = 0 /\ ~CarriesClosed(b) THEN {AddKid(b)} ELSE {},
    IF b.food /\ b.kids > 0 /\ (b.kids = 1 => b.cell = 0 /\ b.move = 0) THEN {DropKid(b)} ELSE {},
    IF Deletable(b) THEN {Delete(b)} ELSE {},
    IF b.food THEN {[b EXCEPT !.place = p] : p \in Places} ELSE {},
    IF Closable(b) THEN {Close(b)} ELSE {},
    IF Reopenable(b) THEN {Reopen(b)} ELSE {},
    {[b EXCEPT !.payday = d] : d \in {e \in 0 .. Paydays : PaydayFits(b, e)}}
  }

Elsewhere(b) == Accepted(b) \ {b}

\* ---- What a form becomes when the ledger under it is painted anew.

\* The editor of a movement inside the cell goes away with its month, its
\* movement or the panel of the cell, which a parent does not have.
InnerShown(i, b) == IF Open(b) /\ Leaf(b) /\ b.move > 0 THEN i ELSE Idle

\* Variant: the field keeps the figure of when the cell was opened.
CellShownStale(f, b) ==
  IF ~b.food THEN Nothing ELSE [f EXCEPT !.inner = InnerShown(@, b)]

\* An untouched field follows the cell; a typed one stays.
CellShown(f, b) ==
  IF ~b.food THEN Nothing
  ELSE [f EXCEPT !.val = IF f.typed THEN @ ELSE b.cell, !.inner = InnerShown(@, b)]

\* The field of a withdrawal follows its amount, over what was typed.
PopoverShown(f, old, b) ==
  IF b.out = old.out THEN f ELSE [f EXCEPT !.val = b.out, !.typed = FALSE]

\* Variant: the preview goes, its target and its retry stay.
InvalidatedPreview(f) == [f EXCEPT !.preview = NoPreview]

\* Touching the form, or a change of the data under it, leaves the preview without value.
Invalidated(f) == [f EXCEPT !.preview = NoPreview, !.target = None, !.retry = "no"]

\* A payday in force that changes restarts the fields too.
CycleShown(f, old, b) ==
  IF b = old THEN f
  ELSE [Invalidated(f) EXCEPT !.day = IF b.payday = old.payday THEN @ ELSE b.payday]

\* The month that could be closed or reopened now; None when there is none.
TargetOf(what, b) ==
  IF what = "close" THEN IF Closable(b) THEN b.closed + 1 ELSE None
  ELSE IF Reopenable(b) THEN b.closed ELSE None

\* Variant: the question stays open for whatever month it now is.
AsksAny(f, b) == f.phase = "asking"

\* A question is about one month: it is withdrawn when the month is another.
Asks(f, b) == f.phase = "asking" /\ TargetOf(f.what, b) = f.month

ClosureShown(f, b) == IF f.phase = "busy" \/ Asks(f, b) THEN f ELSE Nothing

Shown(f, old, b) ==
  CASE f.at = "cell" -> CellShown(f, b)
    [] f.at = "popover" -> PopoverShown(f, old, b)
    [] f.at = "cycle" -> CycleShown(f, old, b)
    [] f.at = "closure" -> ClosureShown(f, b)
    [] f.at = "rowdelete" -> IF b.food THEN f ELSE Nothing
    [] f.at = "card" -> IF Open(b) THEN f ELSE Nothing
    [] f.at = "oprow" -> IF Open(b) /\ b.out > 0 THEN f ELSE Nothing
    [] OTHER -> f

\* A closing is on its way to the server, or its answer on the way back.
Travelling == requests # <<>> /\ Head(requests).sent

\* A request that travels holds the saves and the live reloads back.  One that
\* waits for its turn does not: the queue of saves is emptied first.
Busy == Travelling \/ (form.at = "cycle" /\ form.sent)

\* The month a request was asked for means nothing once the ledger is another.
Overtaken(q) == [i \in DOMAIN q |-> [q[i] EXCEPT !.month = None]]

\* A change of this tab.
Writes(b) ==
  /\ b = book \/ left.edits > 0
  /\ book' = b
  /\ left' = IF b = book THEN left ELSE [left EXCEPT !.edits = @ - 1]

\* A form applies and saves a book.  Bound: none does while a request travels.
Saves(b) == Writes(b) /\ (b = book \/ ~Busy) /\ UNCHANGED requests

Keeps == UNCHANGED <<book, left, requests>>

-----------------------------------------------------------------------------
(* The cell of an expense in the grid, with its Detail panel.              *)

OpenCell ==
  /\ form = Nothing /\ Leaf(book)
  /\ form' = [at |-> "cell", val |-> book.cell, typed |-> FALSE, inner |-> Idle]
  /\ Keeps

TypeInCell(v) ==
  /\ form.at = "cell" /\ Open(book)
  /\ form' = [form EXCEPT !.val = v, !.typed = TRUE]
  /\ Keeps

\* Leaving the editor (confirmed = FALSE) or Enter and «Guardar» (TRUE).
CommitCell(confirmed) ==
  /\ form.at = "cell" /\ (confirmed => Open(book))
  /\ Saves(IF Open(book) /\ (confirmed \/ form.typed) THEN SetCell(book, form.val) ELSE book)
  /\ form' = Nothing

CancelCell == form.at = "cell" /\ form' = Nothing /\ Keeps

\* «Añadir movimiento»: a movement of this cell, with the cell still open.
AddMovementHere(v) ==
  /\ form.at = "cell" /\ Open(book) /\ Leaf(book) /\ v > 0 /\ book.cell + v <= Max
  /\ Saves([book EXCEPT !.cell = @ + v])
  /\ form' = Shown(form, book, book')

\* The pencil and the bin of a movement of the panel.
EditMovement ==
  /\ form.at = "cell" /\ form.inner = Idle /\ Open(book) /\ Leaf(book) /\ book.move > 0
  /\ form' = [form EXCEPT !.inner = [at |-> "editor", val |-> book.move]]
  /\ Keeps

AskMovement ==
  /\ form.at = "cell" /\ form.inner = Idle /\ Open(book) /\ Leaf(book) /\ book.move > 0
  /\ form' = [form EXCEPT !.inner = [at |-> "asking", val |-> 0]]
  /\ Keeps

TypeMovement(v) ==
  /\ form.at = "cell" /\ form.inner.at = "editor"
  /\ form' = [form EXCEPT !.inner.val = v]
  /\ Keeps

\* Variant: saved without the trial run.
SaveMovementUntried ==
  /\ form.at = "cell" /\ form.inner.at \in {"editor", "asking"}
  /\ Leaf(book)
  /\ Saves(SetMove(book, form.inner.val))
  /\ form' = Shown([form EXCEPT !.inner = Idle], book, book')

\* Saved if the trial run on the book of now accepts it; an amount of zero deletes.
SaveMovement ==
  /\ form.at = "cell" /\ form.inner.at \in {"editor", "asking"}
  /\ Leaf(book) /\ MoveFits(book, form.inner.val)
  /\ Saves(SetMove(book, form.inner.val))
  /\ form' = Shown([form EXCEPT !.inner = Idle], book, book')

CancelMovement ==
  /\ form.at = "cell" /\ form.inner # Idle
  /\ form' = [form EXCEPT !.inner = Idle]
  /\ Keeps

CellSteps ==
  \/ OpenCell \/ CancelCell \/ EditMovement \/ AskMovement \/ SaveMovement \/ CancelMovement
  \/ \E v \in Amounts : TypeInCell(v) \/ AddMovementHere(v) \/ TypeMovement(v)
  \/ \E confirmed \in BOOLEAN : CommitCell(confirmed)

-----------------------------------------------------------------------------
(* The cell of a pocket, and the form of «Retiros del mes».                *)

OpenPocket ==
  /\ form = Nothing
  /\ form' = [at |-> "pocket", val |-> book.pocket, typed |-> FALSE]
  /\ Keeps

TypeInPocket(v) ==
  /\ form.at = "pocket" /\ Open(book)
  /\ form' = [form EXCEPT !.val = v, !.typed = TRUE]
  /\ Keeps

\* Variant: a month closed with the editor open is not looked at.
CommitPocketClosed ==
  /\ form.at = "pocket"
  /\ IF form.val = book.pocket THEN Keeps /\ form' = Nothing
     ELSE /\ PocketFits(book, form.val)
          /\ Saves(SetPocket(book, form.val))
          /\ form' = Nothing

\* Leaving the editor or Enter: the field is written when it differs from the
\* cell of now, typed or not; a rejection keeps the editor open.
CommitPocket ==
  /\ form.at = "pocket"
  /\ IF ~Open(book) \/ form.val = book.pocket THEN Keeps /\ form' = Nothing
     ELSE /\ PocketFits(book, form.val)
          /\ Saves(SetPocket(book, form.val))
          /\ form' = Nothing

CancelPocket == form.at = "pocket" /\ form' = Nothing /\ Keeps

\* The popover: an amount to take out, and the month's withdrawal with its field.
OpenPopover ==
  /\ form = Nothing
  /\ form' = [at |-> "popover", amount |-> 0, val |-> book.out, typed |-> FALSE]
  /\ Keeps

TypeAmount(v) ==
  /\ form.at = "popover" /\ Open(book)
  /\ form' = [form EXCEPT !.amount = v]
  /\ Keeps

\* A withdrawal joins the month's; the maximum is that of the book of now.
SaveWithdrawal ==
  /\ form.at = "popover" /\ Open(book)
  /\ form.amount > 0 /\ OutFits(book, book.out + form.amount)
  /\ Saves(SetOut(book, book.out + form.amount))
  /\ form' = Nothing

TypeInRow(v) ==
  /\ form.at = "popover" /\ Open(book) /\ book.out > 0
  /\ form' = [form EXCEPT !.val = v, !.typed = TRUE]
  /\ Keeps

\* Enter or leaving the row; the same amount is nothing to do, a rejection
\* restores the field.
CommitRow ==
  /\ form.at = "popover" /\ Open(book) /\ book.out > 0
  /\ IF form.val = book.out \/ ~OutFits(book, form.val) THEN Keeps
     ELSE Saves(SetOut(book, form.val))
  /\ form' = [form EXCEPT !.val = book'.out, !.typed = FALSE]

\* Escape restores the field, and the blur it causes does not commit.
EscapeRow ==
  /\ form.at = "popover" /\ Open(book) /\ book.out > 0
  /\ form' = [form EXCEPT !.val = book.out, !.typed = FALSE]
  /\ Keeps

ClosePopover == form.at = "popover" /\ form' = Nothing /\ Keeps

PocketSteps ==
  \/ OpenPocket \/ CommitPocket \/ CancelPocket
  \/ OpenPopover \/ SaveWithdrawal \/ CommitRow \/ EscapeRow \/ ClosePopover
  \/ \E v \in Amounts : TypeInPocket(v) \/ TypeAmount(v) \/ TypeInRow(v)

-----------------------------------------------------------------------------
(* The row of the category in the grid: deleting it, a child, a drag.       *)

AskRow ==
  /\ form = Nothing /\ Deletable(book)
  /\ form' = [at |-> "rowdelete"]
  /\ Keeps

\* The domain decides again on the tree of now.
ConfirmRow ==
  /\ form.at = "rowdelete"
  /\ Saves(IF Deletable(book) THEN Delete(book) ELSE book)
  /\ form' = Nothing

CancelRow == form.at = "rowdelete" /\ form' = Nothing /\ Keeps

\* A change that would move figures of a closed month is neither applied nor sent.
AddChild ==
  /\ form = Nothing /\ book.food /\ book.kids < 2
  /\ Saves(IF CarriesClosed(book) THEN book ELSE AddKid(book))
  /\ UNCHANGED form

\* Dropping it on the parent it has is nothing.
Drop(p) ==
  /\ form = Nothing /\ book.food /\ p # book.place
  /\ Saves([book EXCEPT !.place = p])
  /\ UNCHANGED form

RowSteps == AskRow \/ ConfirmRow \/ CancelRow \/ AddChild \/ \E p \in Places : Drop(p)

-----------------------------------------------------------------------------
(* The period of the budget (PeriodModeSection): what will be applied is    *)
(* previewed first, and confirmed on that preview.                          *)

\* Another route: the button of closing goes away, what it asked for does not.
OpenCycle ==
  /\ form = Nothing
  /\ form' = [at |-> "cycle", day |-> book.payday, preview |-> NoPreview, target |-> None,
              asked |-> None, retry |-> "no", busy |-> "no", sent |-> FALSE]
  /\ requests' = [i \in DOMAIN requests |-> [requests[i] EXCEPT !.held = FALSE]]
  /\ UNCHANGED <<book, left>>

\* Any field, also while the preview is being computed.
ChooseDay(d) ==
  /\ form.at = "cycle" /\ form.busy # "apply" /\ d # form.day
  /\ form' = [Invalidated(form) EXCEPT !.day = d]
  /\ Keeps

\* «Ver cómo quedaría», and «Reintentar» of a preview that failed.
Preview ==
  /\ form.at = "cycle" /\ form.busy = "no" /\ PaydayFits(book, form.day)
  /\ form' = [form EXCEPT !.busy = "preview", !.asked = form.day,
                          !.preview = NoPreview, !.retry = "no"]
  /\ Keeps

\* «Confirmar» stands on the preview, «Reintentar» on an application that failed.
Confirm ==
  /\ form.at = "cycle" /\ form.target # None /\ form.busy # "apply"
  /\ form.preview # NoPreview \/ form.retry = "apply"
  /\ form' = [form EXCEPT !.busy = "apply", !.asked = form.target, !.retry = "no"]
  /\ Keeps

\* The request waits for the closings asked before it and for the saves.
SendCycle ==
  /\ form.at = "cycle" /\ form.busy # "no" /\ ~form.sent /\ requests = <<>>
  /\ form' = [form EXCEPT !.sent = TRUE]
  /\ Keeps

\* The form hears of its request.
Heard(f) == [f EXCEPT !.busy = "no", !.sent = FALSE, !.asked = None]

PreviewReady ==
  /\ form.at = "cycle" /\ form.busy = "preview" /\ form.sent
  /\ form' = [Heard(form) EXCEPT !.target = form.asked,
                                 !.preview = [target |-> form.asked, of |-> book]]
  /\ Keeps

\* The target is the one of when it was confirmed, whatever was painted in the wait.
Applied ==
  /\ form.at = "cycle" /\ form.busy = "apply" /\ form.sent /\ PaydayFits(book, form.asked)
  /\ Writes([book EXCEPT !.payday = form.asked])
  /\ requests' = Overtaken(requests)
  /\ form' = Heard(CycleShown(form, book, book'))

\* Without an answer the same step is offered again; a refusal offers nothing.
RequestFailed(retry) ==
  /\ form.at = "cycle" /\ form.sent
  /\ form' = [Heard(form) EXCEPT !.retry = IF retry THEN form.busy ELSE "no"]
  /\ Keeps

\* A conflict reloads the ledger of the server before the form hears of it.
RequestConflict ==
  /\ form.at = "cycle" /\ form.sent /\ left.foreign > 0
  /\ \E b \in Elsewhere(book) : book' = b /\ form' = Heard(CycleShown(form, book, b))
  /\ left' = [left EXCEPT !.foreign = @ - 1]
  /\ requests' = Overtaken(requests)

\* «Cancelar» of the preview, and «Descartar» of the form.
DropPreview ==
  /\ form.at = "cycle" /\ form.busy = "no" /\ form.preview # NoPreview
  /\ form' = [Invalidated(form) EXCEPT !.day = IF book.payday = 0 THEN 0 ELSE @]
  /\ Keeps

Discard ==
  /\ form.at = "cycle" /\ form.busy = "no" /\ form.day # book.payday
  /\ form' = [Invalidated(form) EXCEPT !.day = book.payday]
  /\ Keeps

LeaveCycle == form.at = "cycle" /\ form.busy = "no" /\ form' = Nothing /\ Keeps

CycleSteps ==
  \/ OpenCycle \/ Preview \/ Confirm \/ SendCycle \/ PreviewReady \/ Applied \/ RequestConflict
  \/ DropPreview \/ Discard \/ LeaveCycle
  \/ \E d \in 0 .. Paydays : ChooseDay(d)
  \/ \E retry \in BOOLEAN : RequestFailed(retry)

-----------------------------------------------------------------------------
(* Closing and reopening a month.                                          *)

Request(what, month, held) ==
  [what |-> what, month |-> month, sent |-> FALSE, held |-> held]

\* The button of the desktop, for the month it names; it waits for its own answer.
PressClosure(what) ==
  /\ form = Nothing /\ TargetOf(what, book) # None
  /\ Len(requests) < left.edits /\ \A i \in DOMAIN requests : ~requests[i].held
  /\ requests' = Append(requests, Request(what, TargetOf(what, book), TRUE))
  /\ UNCHANGED <<book, form, left>>

\* Its turn has come and no save is left: what is sent names no month.
SendClosure ==
  /\ requests # <<>> /\ ~Busy
  /\ requests' = [requests EXCEPT ![1].sent = TRUE]
  /\ UNCHANGED <<book, form, left>>

\* The server closes the first month open, or reopens the last one closed.
Reaches(q) ==
  /\ TargetOf(q.what, book) # None
  /\ Writes(IF q.what = "close" THEN Close(book) ELSE Reopen(book))

ClosureDone ==
  /\ Travelling /\ Reaches(Head(requests))
  /\ requests' = Overtaken(Tail(requests))

ClosureRefused == Travelling /\ UNCHANGED <<book, left>> /\ requests' = Tail(requests)

ClosureConflict ==
  /\ Travelling /\ left.foreign > 0
  /\ \E b \in Elsewhere(book) : book' = b
  /\ left' = [left EXCEPT !.foreign = @ - 1]
  /\ requests' = Overtaken(Tail(requests))

Answers == ClosureDone \/ ClosureRefused \/ ClosureConflict

\* The question of the phone ends with its answer: of its requests it is the last.
Released(f) ==
  IF f.at = "closure" /\ f.phase = "busy" /\ Len(requests) = 1 THEN Nothing ELSE f

=============================================================================
