------------------------------ MODULE Screens ------------------------------
(***************************************************************************)
(* The browser tab: the desktop, where the forms of Forms open over the    *)
(* grid, or the phone, where every form is a screen of its own on the      *)
(* history of the browser (screenStack).                                   *)
(*                                                                         *)
(* `hist' is the history with the depth each entry of the application      *)
(* carries in its state, `pos' the entry shown, `backs' the history.back   *)
(* already asked for that the browser has not performed.  On the desktop   *)
(* `hist' is empty.  A screen whose element is gone is redirected in the   *)
(* step that painted it: no other event comes in between.                  *)
(***************************************************************************)
EXTENDS Forms

CONSTANT MaxHist   \* bound: entries of the history

ASSUME ScreensAssumption == MaxHist \in Nat \ {0, 1}

VARIABLES hist, pos, backs

screens == <<book, form, left, requests, hist, pos, backs>>

Outside == "outside"
Pages == {"registrar", "list", "leaf", "edit", "pocket", "retiros",
          "organize", "node", "new", "move", "closure"}

\* The page of settings belongs to the application but not to the stack.
Config == "config"

Phone == hist # <<>>
Here == hist[pos].s
Depth == hist[pos].d

\* Where «‹» goes when no entry of the application lies beneath.
ParentOf(s) ==
  CASE s \in {"registrar", "list"} -> s
    [] s = "edit" -> "leaf"
    [] s = "node" -> "organize"
    [] s \in {"new", "move"} -> "node"
    [] OTHER -> "list"

\* A screen whose element does not exist, or cannot be shown there, is replaced.
Redirect(s, b) ==
  CASE s \in {"leaf", "edit"} /\ ~Leaf(b) -> "list"
    [] s = "edit" /\ (b.move = 0 \/ ~Open(b)) -> ParentOf(s)
    [] s \in {"node", "new", "move"} /\ ~b.food -> "organize"
    [] OTHER -> s

Pushed(h, p, s) == Append(SubSeq(h, 1, p), [s |-> s, d |-> h[p].d + 1])

\* Variant: a replacement counts as one more entry.
ReplacedDeeper(h, p, s) == [h EXCEPT ![p] = [s |-> s, d |-> @.d + 1]]

Replaced(h, p, s) == [h EXCEPT ![p].s = s]
Settled(h, p, b) == Replaced(h, p, Redirect(h[p].s, b))

\* The form a screen mounts with.
Mounted(s, b) ==
  CASE s = "edit" -> [at |-> "edit", val |-> b.move, initial |-> b.move, asking |-> FALSE]
    [] s = "new" -> [at |-> "new", sent |-> FALSE, made |-> 0]
    [] s = "node" -> [at |-> "node", asked |-> FALSE]
    [] OTHER -> Nothing

\* The history becomes h, at p, over book'; f is what the form becomes if its screen stays.
Shows(h, p, f) ==
  /\ hist' = Settled(h, p, book')
  /\ pos' = p
  /\ form' = IF hist'[p].s = Here THEN f ELSE Mounted(hist'[p].s, book')

\* What a user can touch: a screen of the application that the tab is not leaving.
Touches(s) == Phone /\ Here = s /\ Here # Outside
Stays(f) == Shows(hist, pos, f) /\ UNCHANGED backs

\* What is painted next on the screen that is open.
Paints(f) == IF Phone THEN Stays(f) ELSE form' = f /\ UNCHANGED <<hist, pos, backs>>

\* A tap that opens a screen or changes the view, when no «‹» is on its way.
Rest == Phone /\ Here # Outside /\ backs = 0

-----------------------------------------------------------------------------
(* Navigation.                                                             *)

Opens == [registrar |-> {}, list |-> {"leaf", "pocket", "retiros", "organize", "closure"},
          leaf |-> {"edit"}, edit |-> {}, pocket |-> {}, retiros |-> {},
          organize |-> {"node"}, node |-> {"new", "move"}, new |-> {}, move |-> {}, closure |-> {}]

\* What the screen shown offers to open now.
Offered(s) ==
  /\ Here \in Pages /\ s \in Opens[Here]
  /\ Redirect(s, book) = s

OpenScreen(s) ==
  /\ Rest /\ pos < MaxHist /\ Offered(s)
  /\ Keeps /\ UNCHANGED backs
  /\ Shows(Pushed(hist, pos, s), pos + 1, form)

\* The two views of the header, and «Ir a Registrar».
ReplaceScreen(s) ==
  /\ Rest /\ Here \in Pages /\ s # Here
  /\ Keeps /\ UNCHANGED backs
  /\ Shows(Replaced(hist, pos, s), pos, form)

\* «‹» and the end of a form: back in the history, or the parent in its place.
GoesBack(f) ==
  IF Depth > 0
  THEN backs' = backs + 1 /\ Shows(hist, pos, f)
  ELSE UNCHANGED backs /\ Shows(Replaced(hist, pos, ParentOf(Here)), pos, f)

GoBack ==
  /\ Phone /\ Here \in Pages \ {"registrar", "list"} /\ backs < 2
  /\ Keeps /\ GoesBack(form)

\* The browser performs a back it was asked for.
Pop ==
  /\ backs > 0
  /\ backs' = backs - 1
  /\ Keeps
  /\ Shows(hist, IF pos > 1 THEN pos - 1 ELSE pos, form)

\* The buttons and the gesture of the browser.
Browse(p) ==
  /\ Phone /\ backs = 0 /\ p \in {pos - 1, pos + 1} /\ p \in DOMAIN hist
  /\ Keeps /\ UNCHANGED backs
  /\ Shows(hist, p, form)

\* The state of an entry outlives the page, the requests of the store do not; one
\* that was on its way may have reached the server.
ReloadPage ==
  /\ Rest
  /\ UNCHANGED <<book, left>> \/ (Travelling /\ Reaches(Head(requests)))
  /\ requests' = <<>>
  /\ Stays(Mounted(Here, book'))

\* The settings are another route, opened and left without the stack's key.
Routed(s) == Append(SubSeq(hist, 1, pos), [s |-> s, d |-> 0])

OpenConfig ==
  /\ Rest /\ Here \in Pages /\ pos < MaxHist
  /\ Keeps /\ UNCHANGED backs
  /\ Shows(Routed(Config), pos + 1, form)

LeaveConfig ==
  /\ Rest /\ Here = Config /\ pos < MaxHist
  /\ Keeps /\ UNCHANGED backs
  /\ Shows(Routed("registrar"), pos + 1, form)

Navigation ==
  \/ GoBack \/ Pop \/ ReloadPage \/ OpenConfig \/ LeaveConfig
  \/ \E s \in Pages : OpenScreen(s)
  \/ \E s \in {"registrar", "list"} : ReplaceScreen(s)
  \/ \E p \in 1 .. MaxHist : Browse(p)

-----------------------------------------------------------------------------
(* The card of a pocket and a row of «Retiros del mes».                    *)

\* The field takes the figure of when it was opened; only «Guardar» writes it.
OpenCard ==
  /\ Touches("pocket") /\ form = Nothing /\ Open(book)
  /\ form' = [at |-> "card", val |-> book.pocket]
  /\ Keeps /\ UNCHANGED <<hist, pos, backs>>

OpenRow(asking) ==
  /\ Touches("retiros") /\ form = Nothing /\ Open(book) /\ book.out > 0
  /\ form' = [at |-> "oprow", asking |-> asking, val |-> IF asking THEN 0 ELSE book.out]
  /\ Keeps /\ UNCHANGED <<hist, pos, backs>>

TypeOnPhone(v) ==
  /\ form.at \in {"card", "edit"} \/ (form.at = "oprow" /\ ~form.asking)
  /\ form' = [form EXCEPT !.val = v]
  /\ Keeps /\ UNCHANGED <<hist, pos, backs>>

SaveCard ==
  /\ form.at = "card" /\ Open(book)
  /\ form.val = book.pocket \/ PocketFits(book, form.val)
  /\ Saves(SetPocket(book, form.val))
  /\ Stays(Nothing)

SaveRow ==
  /\ form.at = "oprow" /\ Open(book)
  /\ form.val = book.out \/ OutFits(book, form.val)
  /\ Saves(SetOut(book, form.val))
  /\ Stays(Nothing)

CancelOnPhone ==
  /\ form.at \in {"card", "oprow"}
  /\ form' = Nothing
  /\ Keeps /\ UNCHANGED <<hist, pos, backs>>

-----------------------------------------------------------------------------
(* A movement, a new subcategory, a category and its place.                *)

\* Nothing to save while the draft is the one the screen opened with.
SubmitMovement ==
  /\ Touches("edit") /\ backs < 2
  /\ form.val # form.initial /\ Open(book) /\ MoveFits(book, form.val)
  /\ Saves(SetMove(book, form.val))
  /\ GoesBack(form)

AskOnPhone ==
  /\ \/ Touches("edit") /\ ~form.asking /\ form' = [form EXCEPT !.asking = TRUE]
     \/ Touches("node") /\ ~form.asked /\ form' = [form EXCEPT !.asked = TRUE]
  /\ Keeps /\ UNCHANGED <<hist, pos, backs>>

RemoveMovement ==
  /\ Touches("edit") /\ backs < 2 /\ form.asking
  /\ Open(book) /\ MoveFits(book, 0)
  /\ Saves(SetMove(book, 0))
  /\ GoesBack(form)

\* Variant: a second tap creates again.
CreateNodeTwice ==
  /\ Touches("new") /\ backs < 2
  /\ book.kids < 2 /\ ~CarriesClosed(book)
  /\ Saves(AddKid(book))
  /\ GoesBack([form EXCEPT !.sent = TRUE, !.made = @ + 1])

\* Sent once: the screen stays until the history goes back.
CreateNode ==
  /\ Touches("new") /\ backs < 2
  /\ ~form.sent /\ book.kids < 2 /\ ~CarriesClosed(book)
  /\ Saves(AddKid(book))
  /\ GoesBack([form EXCEPT !.sent = TRUE, !.made = @ + 1])

\* The confirmation stands while the tree of now allows the deletion.
RemoveNode ==
  /\ Touches("node") /\ backs < 2 /\ form.asked /\ Deletable(book)
  /\ Saves(Delete(book))
  /\ GoesBack(form)

MoveNode(p) ==
  /\ Touches("move") /\ backs < 2 /\ p # book.place
  /\ Saves([book EXCEPT !.place = p])
  /\ GoesBack(form)

\* The question of one mount of the screen; the buttons are off while it waits.
AskClosure(what) ==
  /\ Touches("closure") /\ backs = 0 /\ TargetOf(what, book) # None
  /\ form.at = "closure" => form.phase # "busy"
  /\ form' = [at |-> "closure", what |-> what, month |-> TargetOf(what, book), phase |-> "asking"]
  /\ Keeps /\ UNCHANGED <<hist, pos, backs>>

\* «Sí» asks for it, behind what an earlier mount of the screen may have asked for.
AnswerClosure(yes) ==
  /\ Touches("closure") /\ backs = 0 /\ form.at = "closure" /\ Asks(form, book)
  /\ IF yes
     THEN /\ Len(requests) < left.edits
          /\ requests' = Append(requests, Request(form.what, form.month, FALSE))
          /\ form' = [form EXCEPT !.phase = "busy"]
     ELSE form' = Nothing /\ UNCHANGED requests
  /\ UNCHANGED <<book, left, hist, pos, backs>>

PhoneForms ==
  \/ OpenCard \/ SaveCard \/ SaveRow \/ CancelOnPhone
  \/ SubmitMovement \/ AskOnPhone \/ RemoveMovement \/ CreateNode \/ RemoveNode
  \/ \E asking \in BOOLEAN : OpenRow(asking)
  \/ \E v \in Amounts : TypeOnPhone(v)
  \/ \E p \in Places : MoveNode(p)
  \/ \E what \in {"close", "reopen"} : AskClosure(what)
  \/ \E yes \in BOOLEAN : AnswerClosure(yes)

-----------------------------------------------------------------------------

\* The ledger of another device is painted under whatever is open: by a live
\* reload, or by the conflict of a save a request is waiting for.
Synchronised ==
  /\ left.foreign > 0 /\ ~Busy
  /\ left' = [left EXCEPT !.foreign = @ - 1]
  /\ requests' = Overtaken(requests)
  /\ book' \in Elsewhere(book)
  /\ Paints(Shown(form, book, book'))

\* The answer to a closing is painted under whatever is open too.
ClosureAnswered == Answers /\ Paints(Shown(Released(form), book, book'))

Exclusive == ClosureAnswered \/ (SendClosure /\ UNCHANGED <<hist, pos, backs>>)

Desktop ==
  /\ ~Phone
  /\ \/ CellSteps \/ PocketSteps \/ RowSteps \/ CycleSteps
     \/ \E what \in {"close", "reopen"} : PressClosure(what)
  /\ UNCHANGED <<hist, pos, backs>>

\* A tab of the desktop, or of the phone opened on any address.
Init ==
  /\ book = [cell |-> 1, move |-> 1, pocket |-> 1, out |-> 1, closed |-> 0, reopened |-> FALSE,
             food |-> TRUE, kids |-> 0, place |-> CHOOSE p \in Places : TRUE, payday |-> 0]
  /\ left = [foreign |-> Foreign, edits |-> Edits] /\ requests = <<>>
  /\ \/ hist = <<>> /\ pos = 0 /\ form = Nothing
     \/ \E s \in Pages :
          /\ hist = <<[s |-> Outside, d |-> 0], [s |-> s, d |-> 0]>> /\ pos = 2
          /\ form = Mounted(s, book)
  /\ backs = 0

Next == Synchronised \/ Exclusive \/ Desktop \/ Navigation \/ PhoneForms

Spec == Init /\ [][Next]_screens

-----------------------------------------------------------------------------
(* Properties.                                                             *)

InnerForms == {Idle} \cup [at : {"editor", "asking"}, val : Amounts]
CellForms == [at : {"cell"}, val : Amounts, typed : BOOLEAN, inner : InnerForms]
PocketForms == [at : {"pocket"}, val : Amounts, typed : BOOLEAN]
PopoverForms == [at : {"popover"}, amount : Amounts, val : Amounts, typed : BOOLEAN]
ClosureForms == [at : {"closure"}, what : {"close", "reopen"}, month : 1 .. Months, phase : {"asking", "busy"}]
CardForms == [at : {"card"}, val : Amounts]
RowForms == [at : {"oprow"}, asking : BOOLEAN, val : Amounts]
EditForms == [at : {"edit"}, val : Amounts, initial : Amounts, asking : BOOLEAN]
CreationForms == [at : {"new"}, sent : BOOLEAN, made : Nat]
NodeForms == [at : {"node"}, asked : BOOLEAN]
Previews == {NoPreview} \cup [target : 0 .. Paydays, of : Books]
CycleForms == [at : {"cycle"}, day : 0 .. Paydays, preview : Previews,
               target : {None} \cup 0 .. Paydays, asked : {None} \cup 0 .. Paydays,
               retry : {"no", "preview", "apply"}, busy : {"no", "preview", "apply"},
               sent : BOOLEAN]
Requests == [what : {"close", "reopen"}, month : {None} \cup 1 .. Months,
             sent : BOOLEAN, held : BOOLEAN]

Drafts ==
  {Nothing, [at |-> "rowdelete"]}
    \cup CellForms \cup PocketForms \cup PopoverForms \cup ClosureForms \cup CardForms
    \cup RowForms \cup EditForms \cup CreationForms \cup NodeForms \cup CycleForms

\* The book of the tab is one the domain accepts, whatever form wrote it: no figure
\* below zero, no withdrawal over its pocket (setLeafAmount, editMovement, applyReserveEdit).
TypeOK ==
  /\ book \in Books /\ book.out <= book.pocket
  /\ form \in Drafts
  /\ left \in [foreign : 0 .. Foreign, edits : 0 .. Edits]
  /\ requests \in Seq(Requests) /\ Len(requests) <= Edits
  /\ \/ hist = <<>> /\ pos = 0
     \/ Len(hist) \in 2 .. MaxHist /\ pos \in DOMAIN hist
  /\ backs \in 0 .. 2

\* A step of this tab, not the ledger of another device.
Own == left'.foreign = left.foreign

\* Closing a cell of the grid in which nothing was typed, or leaving a row of
\* withdrawals as it came, writes no figure (commitEdit, PlanRow, OpRow).
NothingRetyped ==
  [][Own => /\ form.at = "cell" /\ form'.at = "nothing" /\ ~form.typed => Figures(book') = Figures(book)
            /\ form.at = "popover" /\ form'.at = "popover" /\ ~form.typed => Figures(book') = Figures(book)
    ]_screens

\* The same of the cell of a pocket (ReserveCellEditor).
PocketNotRetyped ==
  [][Own /\ form.at = "pocket" /\ form'.at = "nothing" /\ ~form.typed
       => Figures(book') = Figures(book)]_screens

\* No form opened while the month was open writes a figure once it is closed.
ClosedNotWritten ==
  [][~Open(book) /\ ~Open(book') => Figures(book') = Figures(book)]_screens

\* «Confirmar» and «Reintentar» ask for what the preview on screen was computed for,
\* over the ledger it was computed on; and what is applied is that, while the preview
\* is on screen (NFR-2412 of PeriodModeSection).  A ledger replaced while the request
\* waits for the queue of saves takes the preview off the screen: the target that was
\* confirmed is then applied over a ledger nobody previewed.
AppliedAsPreviewed ==
  [][/\ form.at = "cycle" /\ form'.at = "cycle" /\ form.busy # "apply" /\ form'.busy = "apply"
          => form.preview = [target |-> form.target, of |-> book] /\ form'.asked = form.target
     /\ Own /\ form.at = "cycle" /\ form.preview # NoPreview /\ book'.payday # book.payday
          => form.preview = [target |-> book'.payday, of |-> book]
    ]_screens

\* The month that is closed or reopened is the one the button or the question named,
\* unless the ledger was replaced, or an earlier request of the tab was answered,
\* while the request waited in the chain of exclusive writes.
QuestionHonoured ==
  [][Own /\ book'.closed # book.closed /\ Head(requests).month # None
       => Head(requests).month = IF Head(requests).what = "close" THEN book'.closed ELSE book.closed]_screens

\* The depth of an entry counts entries of the application beneath it: one «‹»
\* never leaves the application (goBack).
DepthHonest ==
  \A i \in DOMAIN hist : \A k \in 1 .. hist[i].d : i - k \in DOMAIN hist /\ hist[i - k].s # Outside

\* One screen of creation makes one subcategory (NewNodeScreen, BG-005).
CreatedOnce == form.at = "new" => form.made <= 1

=============================================================================
